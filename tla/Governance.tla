----------------------------- MODULE Governance ------------------------------
(***************************************************************************)
(* The governance contract (contracts/governance/src/main.rs): the admin   *)
(* creates proposals and sets the accounts' voting weights, accounts with  *)
(* a weight vote once per proposal until its deadline, and the admin       *)
(* executes a proposal that has reached the quorum.                        *)
(*                                                                         *)
(* A call is an atomic transaction: an action is a call that succeeds, its *)
(* guard every check that would have reverted.  The per-proposal maps are  *)
(* functions over the ids 0..MaxProposals: an absent tally or weight is    *)
(* read as 0 everywhere, and the proposals that exist are 1..count.        *)
(***************************************************************************)
EXTENDS Naturals, FiniteSets, Functions

CONSTANTS Accounts,
          Admin,           \* the installer
          Weights,         \* the weight arguments the admin passes, u64
          Choices,         \* the choice arguments voters pass, u8
          Deadlines,       \* the deadline arguments the admin passes, u64
          U64,             \* 2^64: the tallies wrap (a release build does not
                           \* check overflow); scaled down for TLC
          MaxProposals,    \* bound: proposals created over a behaviour
          MaxClock,        \* bound: block time
          UnitReadable     \* does storage::read decode the unit value, which
                           \* call() puts in every cell, as a map or a number?

ASSUME AccountsAssumption     == IsFiniteSet(Accounts) /\ Admin \in Accounts
ASSUME U64Assumption          == U64 \in Nat \ {0}
ASSUME WeightsAssumption      == Weights \subseteq 0..(U64 - 1)
ASSUME ChoicesAssumption      == Choices \subseteq 0..255
ASSUME DeadlinesAssumption    == Deadlines \subseteq Nat
ASSUME BoundsAssumption       == MaxProposals \in Nat /\ MaxClock \in Nat
ASSUME UnitReadableAssumption == UnitReadable \in BOOLEAN

VARIABLES count,           \* proposal_count
          deadline,        \* proposal -> the last block time to vote at
          votesFor,        \* proposal -> weight
          votesAgainst,
          votesAbstain,
          voted,           \* proposal -> account -> recorded choice
          weights,         \* token_weights: account -> weight
          executed,        \* the executed proposals
          clock,           \* the block time, in milliseconds
          cast             \* history: proposal -> account -> weight it voted with

vars == <<count, deadline, votesFor, votesAgainst, votesAbstain, voted, weights,
          executed, clock, cast>>

Ids == 0..MaxProposals

Proposals == {p \in Ids : p \in 1..count}

QuorumBps == 5000

MaxBps == 10000

NoVote == 256              \* no u8: the account has no entry in `voted'

\* The tally a choice counts in: 0 is for, 1 against, anything else abstains.
Counted(choice) == CASE choice = 0 -> "for" [] choice = 1 -> "against" [] OTHER -> "abstain"

VotersOf(p, side) == {a \in Accounts : voted[p][a] # NoVote /\ Counted(voted[p][a]) = side}

-----------------------------------------------------------------------------
(* The checks and sums of the entry points, some preceded by slips of it   *)
(* that the properties below must notice and no action uses.               *)

Plus64(m, n) == (m + n) % U64

ExistsAlways(p) == TRUE
Exists(p) == p \in Proposals

VotedNever(a, p) == FALSE
HasVoted(a, p) == voted[p][a] # NoVote

Participation(p) == Plus64(votesFor[p], votesAgainst[p])

Add(tally, p, a) == [tally EXCEPT ![p] = Plus64(@, weights[a])]

-----------------------------------------------------------------------------
Init ==
    /\ count = 0
    /\ deadline = [p \in Ids |-> 0]
    /\ votesFor = [p \in Ids |-> 0]
    /\ votesAgainst = [p \in Ids |-> 0]
    /\ votesAbstain = [p \in Ids |-> 0]
    /\ voted = [p \in Ids |-> [a \in Accounts |-> NoVote]]
    /\ weights = [a \in Accounts |-> 0]
    /\ executed = {}
    /\ clock = 0
    /\ cast = [p \in Ids |-> [a \in Accounts |-> 0]]

\* The deadline is not compared with the block time.
CreateProposal(caller, d) ==
    /\ UnitReadable
    /\ caller = Admin
    /\ count < MaxProposals
    /\ count' = count + 1
    /\ deadline' = [deadline EXCEPT ![count + 1] = d]
    /\ UNCHANGED <<votesFor, votesAgainst, votesAbstain, voted, weights, executed, clock, cast>>

\* A proposal can still be voted on after it was executed.
Vote(a, p, choice) ==
    /\ UnitReadable
    /\ Exists(p)
    /\ clock <= deadline[p]
    /\ ~HasVoted(a, p)
    /\ weights[a] # 0
    /\ voted' = [voted EXCEPT ![p][a] = choice]
    /\ cast' = [cast EXCEPT ![p][a] = weights[a]]
    /\ \/ /\ Counted(choice) = "for"
          /\ votesFor' = Add(votesFor, p, a)
          /\ UNCHANGED <<votesAgainst, votesAbstain>>
       \/ /\ Counted(choice) = "against"
          /\ votesAgainst' = Add(votesAgainst, p, a)
          /\ UNCHANGED <<votesFor, votesAbstain>>
       \/ /\ Counted(choice) = "abstain"
          /\ votesAbstain' = Add(votesAbstain, p, a)
          /\ UNCHANGED <<votesFor, votesAgainst>>
    /\ UNCHANGED <<count, deadline, weights, executed, clock>>

\* Neither the proposal's existence nor its deadline nor the majority is
\* checked: the majority is only what the call returns.
Execute(caller, p) ==
    /\ UnitReadable
    /\ caller = Admin
    /\ p \notin executed
    /\ Participation(p) >= QuorumBps
    /\ executed' = executed \cup {p}
    /\ UNCHANGED <<count, deadline, votesFor, votesAgainst, votesAbstain, voted, weights,
                   clock, cast>>

\* The weight has no upper limit.
SetVotingWeight(caller, a, w) ==
    /\ UnitReadable
    /\ caller = Admin
    /\ weights' = [weights EXCEPT ![a] = w]
    /\ UNCHANGED <<count, deadline, votesFor, votesAgainst, votesAbstain, voted, executed,
                   clock, cast>>

\* The chain makes progress.
Tick ==
    /\ clock < MaxClock
    /\ clock' = clock + 1
    /\ UNCHANGED <<count, deadline, votesFor, votesAgainst, votesAbstain, voted, weights,
                   executed, cast>>

Next ==
    \/ \E c \in Accounts, d \in Deadlines : CreateProposal(c, d)
    \/ \E a \in Accounts, p \in Ids, choice \in Choices : Vote(a, p, choice)
    \/ \E c \in Accounts, p \in Ids : Execute(c, p)
    \/ \E c, a \in Accounts, w \in Weights : SetVotingWeight(c, a, w)
    \/ Tick

Spec == Init /\ [][Next]_vars

-----------------------------------------------------------------------------
\* The types of the contract's cells; a tally stays a u64.
TypeOK ==
    /\ count \in 0..MaxProposals
    /\ deadline \in [Ids -> Nat]
    /\ votesFor \in [Ids -> 0..(U64 - 1)]
    /\ votesAgainst \in [Ids -> 0..(U64 - 1)]
    /\ votesAbstain \in [Ids -> 0..(U64 - 1)]
    /\ voted \in [Ids -> [Accounts -> 0..256]]
    /\ weights \in [Accounts -> 0..(U64 - 1)]
    /\ executed \subseteq Ids
    /\ clock \in 0..MaxClock
    /\ cast \in [Ids -> [Accounts -> Nat]]

\* Each tally is the sum, in u64 arithmetic, of the weights that the recorded
\* votes of its side had when they were cast, whatever the weights became since
\* and also for choices the source does not name.
TalliesMatchVotes ==
    \A p \in Ids :
        /\ votesFor[p] = SumFunctionOnSet(cast[p], VotersOf(p, "for")) % U64
        /\ votesAgainst[p] = SumFunctionOnSet(cast[p], VotersOf(p, "against")) % U64
        /\ votesAbstain[p] = SumFunctionOnSet(cast[p], VotersOf(p, "abstain")) % U64

\* execute does not look whether its proposal exists, yet only proposals that
\* do are ever executed: an id that was not handed out has no votes.
ExecutedExist == executed \subseteq Proposals

\* A vote is final: nothing changes or removes a recorded choice, and the
\* tallies of a proposal change only with a first vote that arrives in time.
VotesAreFinal ==
    [][\A p \in Ids :
          /\ \A a \in Accounts : voted[p][a] # NoVote => voted'[p][a] = voted[p][a]
          /\ \/ <<votesFor, votesAgainst, votesAbstain>>'
                    = <<votesFor, votesAgainst, votesAbstain>>
             \/ voted'[p] # voted[p] /\ clock <= deadline[p]
             \/ <<votesFor[p], votesAgainst[p], votesAbstain[p]>>'
                    = <<votesFor[p], votesAgainst[p], votesAbstain[p]>>]_vars
=============================================================================
