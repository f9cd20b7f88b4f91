------------------------------ MODULE YieldAgent ------------------------------
(***************************************************************************)
(* The yield agent of the server and the contract it works for: a timer    *)
(* asks for the pool every 30 seconds and submits a distribution when it   *)
(* holds enough.  Nothing keeps two ticks apart, a tick awaits the node     *)
(* twice, and a distribution is executed some time after it was submitted.  *)
(* `Instances' are the copies of the module in a build: the one that        *)
(* instrumentation.ts starts and the ones that serve the route.             *)
(***************************************************************************)
EXTENDS YieldDistributor, Integers

CONSTANTS Instances, Boot,  \* and the one instrumentation.ts loads
          Threshold,        \* 1 CSPR
          Ticks,            \* bound: ticks at the same time
          MaxPending,       \* bound: distributions submitted and not executed
          MaxFaults         \* bound: failed requests, reverts for gas, restarts

ASSUME BootAssumption == Boot \in Instances
ASSUME ThresholdAssumption == Threshold \in Nat \ {0}
ASSUME BoundsAssumption == IsFiniteSet(Ticks) /\ MaxPending \in Nat

VARIABLES up,               \* whether the server has been started
          timer,            \* agentTimer of each instance
          running,          \* what its store says, and the pages show
          tick,             \* the ticks in flight
          submitted,        \* distributions submitted and not executed
          view,             \* what the agent page last heard of `running'
          faults,
          spare             \* history: late readings since nothing was in flight, less reverts

contract == <<pool, holders, pending, totalShares, purse, deposited, paid>>
agentVars == <<contract, up, timer, running, tick, submitted, view, faults, spare>>

NoTick == [pc |-> "none", balance |-> 0]
Busy == {t \in Ticks : tick[t].pc = "read" /\ tick[t].balance >= Threshold}
Lower(a, b) == IF a < b THEN a ELSE b
Faulty == faults < MaxFaults /\ faults' = faults + 1
Ends(t) == tick' = [tick EXCEPT ![t] = NoTick]

\* No holder can be paid: distribute divides by 0.
Undividable == DOMAIN holders # {} /\ totalShares = 0
-----------------------------------------------------------------------------
\* agentTick begins; recordCheck only counts.
BeginTick(t) == tick[t] = NoTick /\ tick' = [tick EXCEPT ![t].pc = "asking"]

\* (A slip: the first tick is all there is, no interval is set.)
startAgentNoTimer(i, t) ==
    /\ ~timer[i]
    /\ running' = [running EXCEPT ![i] = TRUE]
    /\ BeginTick(t) /\ UNCHANGED timer

startAgent(i, t) ==
    /\ ~timer[i]
    /\ timer' = [timer EXCEPT ![i] = TRUE]
    /\ running' = [running EXCEPT ![i] = TRUE]
    /\ BeginTick(t)

\* A tick that is in flight goes on.
stopAgent(i) ==
    /\ timer' = [timer EXCEPT ![i] = FALSE]
    /\ running' = [running EXCEPT ![i] = FALSE]
    /\ UNCHANGED tick

Register(t) ==
    /\ ~up /\ up' = TRUE
    /\ startAgent(Boot, t)
    /\ UNCHANGED <<contract, submitted, view, faults, spare>>

TimerTick(i, t) ==
    /\ up /\ timer[i]
    /\ BeginTick(t)
    /\ UNCHANGED <<contract, up, timer, running, submitted, view, faults, spare>>

\* The agent page asks for the state every five seconds, of whichever copy answers.
FetchStatus(i) ==
    /\ up /\ view' = IF running[i] THEN "running" ELSE "stopped"
    /\ UNCHANGED <<contract, up, timer, running, tick, submitted, faults, spare>>

\* Its button asks for the opposite of what it shows, which starting twice or
\* stopping twice makes harmless.
HandleToggle(i) ==
    /\ up /\ view # "none"
    /\ \/ view = "running" /\ stopAgent(i)
       \/ view = "stopped" /\ (\E t \in Ticks : startAgent(i, t))
       \/ view = "stopped" /\ timer[i] /\ UNCHANGED <<timer, running, tick>>
    /\ view' = IF running'[i] THEN "running" ELSE "stopped"
    /\ UNCHANGED <<contract, up, submitted, faults, spare>>

\* GET: the tick button of that page, and the distribute button of the yield page.
ManualTick(t) ==
    /\ up /\ BeginTick(t)
    /\ UNCHANGED <<contract, up, timer, running, submitted, view, faults, spare>>

-----------------------------------------------------------------------------
\* checkPoolBalance; a failure reads as 0.
checkPoolBalance(t) ==
    /\ tick[t].pc = "asking"
    /\ \/ /\ tick' = [tick EXCEPT ![t] = [pc |-> "read", balance |-> pool]]
          /\ spare' = IF pool < Threshold THEN spare
                      ELSE IF submitted = 0 /\ Busy = {} THEN 0
                      ELSE Lower(spare + 1, Cardinality(Ticks) + MaxPending)
          /\ UNCHANGED faults
       \/ Faulty /\ Ends(t) /\ UNCHANGED spare
    /\ UNCHANGED <<contract, up, timer, running, submitted, view>>

\* (A slip: every tick submits, whatever it read.)
EnoughAlways(t) == TRUE
Enough(t) == tick[t].balance >= Threshold

runDistribute(t) ==
    /\ tick[t].pc = "read"
    /\ Ends(t)
    /\ \/ ~Enough(t) /\ UNCHANGED <<submitted, faults>>
       \/ Enough(t) /\ submitted < MaxPending /\ submitted' = submitted + 1 /\ UNCHANGED faults
       \/ Enough(t) /\ Faulty /\ UNCHANGED submitted          \* no key, or refused
    /\ UNCHANGED <<contract, up, timer, running, view, spare>>

\* The chain executes a distribution: it succeeds or reverts.
Execute ==
    /\ submitted > 0 /\ submitted' = submitted - 1
    /\ \/ Distribute(Admin) /\ UNCHANGED <<faults, spare>>
       \/ pool = 0 /\ spare' = spare - 1 /\ UNCHANGED <<contract, faults>>
       \/ pool > 0 /\ Undividable /\ UNCHANGED <<contract, faults, spare>>
       \/ pool > 0 /\ Faulty /\ UNCHANGED <<contract, spare>>
    /\ UNCHANGED <<up, timer, running, tick, view>>

\* The server dies; what it submitted is still executed.
Restart ==
    /\ up /\ up' = FALSE /\ Faulty
    /\ timer' = [i \in Instances |-> FALSE]
    /\ running' = [i \in Instances |-> FALSE]
    /\ tick' = [t \in Ticks |-> NoTick]
    /\ UNCHANGED <<contract, submitted, view, spare>>

\* What everybody else does with the contract.  No page removes a holder.
Others ==
    /\ \/ \E amount \in Amounts : Deposit(amount)
       \/ \E a \in Accounts : Claim(a)
       \/ \E a \in Accounts \ {Admin}, bps \in Weights : RegisterHolder(Admin, a, bps)
    /\ UNCHANGED <<up, timer, running, tick, submitted, view, faults, spare>>

-----------------------------------------------------------------------------
\* The server has not been started, or its agent has been stopped.
AgentInit ==
    /\ Init
    /\ up \in BOOLEAN
    /\ timer = [i \in Instances |-> FALSE]
    /\ running = [i \in Instances |-> FALSE]
    /\ tick = [t \in Ticks |-> NoTick]
    /\ submitted = 0
    /\ view = "none"
    /\ faults = 0
    /\ spare = 0

TickStep(t) == checkPoolBalance(t) \/ runDistribute(t)
AgentNext ==
    \/ \E t \in Ticks : TickStep(t) \/ Register(t) \/ ManualTick(t)
    \/ \E i \in Instances : FetchStatus(i) \/ HandleToggle(i) \/ \E t \in Ticks : TimerTick(i, t)
    \/ Execute \/ Restart \/ Others

\* The server is started, its timers fire, its requests are answered or fail, and
\* the chain executes what it has accepted.
AgentFairness ==
    /\ WF_agentVars(\E t \in Ticks : Register(t))
    /\ \A i \in Instances : WF_agentVars(\E t \in Ticks : TimerTick(i, t))
    /\ \A t \in Ticks : WF_agentVars(TickStep(t))
    /\ WF_agentVars(Execute)

AgentSpec == AgentInit /\ [][AgentNext]_agentVars /\ AgentFairness
-----------------------------------------------------------------------------
\* Of the distributions that are in flight together at least one pays: a distribution
\* finds the pool empty only if another one was in flight when the balance was read,
\* and no more of them do than balances were read in that time.
RevertsAreLateReadings == spare >= 0

\* What the holders have pending or have been paid.
Reached == SumFunction(pending) + SumFunction(paid)

\* Once somebody has a share, income that reaches the threshold reaches the holders,
\* less what one distribution may lose by rounding, although ticks overlap, are
\* stopped, fail and die with the server; unless the pages show the agent as stopped,
\* or every weight is set to 0.  Without a holder nothing is promised: there a
\* distribution clears the pool and owes it to nobody.
DepositsReachHolders ==
    \A n \in 0..MaxDeposited - Threshold :          \* (there was no more to reach them)
        pool >= Threshold /\ totalShares > 0 /\ Reached = n
            ~> \/ Reached + Cardinality(DOMAIN holders) > n + Threshold
               \/ Undividable
               \/ up /\ \A i \in Instances : ~running[i]
=============================================================================
