--------------------------- MODULE YieldDistributor --------------------------
(***************************************************************************)
(* The yield distributor contract (contracts/yield-distributor/src/        *)
(* main.rs): rental income is deposited into a pool, the admin distributes *)
(* the pool among the registered holders by weight, and every holder       *)
(* claims what it has pending.                                             *)
(*                                                                         *)
(* A call is an atomic transaction: an action is a call that succeeds, its *)
(* guard every check that would have reverted.  The maps are keyed by the  *)
(* hex form of an account hash, which is injective: accounts are the keys. *)
(* `holders' is a partial map, as a registered weight of 0 differs from no *)
(* entry; `pending' is total, as an absent entry is read as 0 everywhere.  *)
(***************************************************************************)
EXTENDS Naturals, FiniteSets, Functions

CONSTANTS Accounts,
          Admin,          \* the installer, on the server the agent's key
          Weights,        \* the share_bps arguments that callers pass
          Amounts,        \* the amounts that callers deposit
          MaxDeposited,   \* bound: the motes deposited over a behaviour
          PurseReadable   \* does storage::read::<URef> of the named key
                          \* yield_purse return a purse?  (call() stores the
                          \* purse itself there, not a cell that holds it)

ASSUME AccountsAssumption      == IsFiniteSet(Accounts) /\ Admin \in Accounts
ASSUME WeightsAssumption       == Weights \subseteq Nat
ASSUME AmountsAssumption       == Amounts \subseteq Nat /\ MaxDeposited \in Nat
ASSUME PurseReadableAssumption == PurseReadable \in BOOLEAN

VARIABLES pool,           \* pool_total: income not yet distributed
          holders,        \* registered account -> weight
          pending,        \* account -> claimable motes
          totalShares,
          purse,          \* the balance of the contract's purse
          deposited,      \* history: the motes ever deposited
          paid            \* history: account -> the motes it has claimed

vars == <<pool, holders, pending, totalShares, purse, deposited, paid>>

MaxBps == 10000

\* The holders map after insert and after remove.
WithHolder(a, bps) ==
    [b \in DOMAIN holders \cup {a} |-> IF b = a THEN bps ELSE holders[b]]

WithoutHolder(a) == Restrict(holders, DOMAIN holders \ {a})

\* Motes in the purse that are neither in the pool nor owed to anyone.
Stranded == purse - (pool + SumFunction(pending))

-----------------------------------------------------------------------------
(* The checks and sums of the entry points, some preceded by slips of it   *)
(* that the properties below must notice and no action uses.               *)

\* What one distribution adds to the pending balance of a registered account.
ShareOfTenThousand(a) == (pool * holders[a]) \div MaxBps
ShareRoundedUp(a) == (pool * holders[a] + totalShares - 1) \div totalShares
ShareOf(a) == (pool * holders[a]) \div totalShares

ValidShare(bps) == bps <= MaxBps
\* What deposit leaves in the purse.
PurseAfter(amount) == purse + amount

\* remove_holder that leaves the total, or that drops what is not claimed yet
RemoveKeepsTotal(caller, account) ==
    /\ caller = Admin
    /\ holders' = WithoutHolder(account)
    /\ UNCHANGED <<totalShares, pool, pending, purse, deposited, paid>>

RemoveDropsPending(caller, account) ==
    /\ caller = Admin
    /\ holders' = WithoutHolder(account)
    /\ totalShares' = SumFunction(holders')
    /\ pending' = [pending EXCEPT ![account] = 0]
    /\ UNCHANGED <<pool, purse, deposited, paid>>

-----------------------------------------------------------------------------
Init ==
    /\ pool = 0
    /\ holders = [a \in {} |-> 0]
    /\ pending = [a \in Accounts |-> 0]
    /\ totalShares = 0
    /\ purse = 0
    /\ deposited = 0
    /\ paid = [a \in Accounts |-> 0]

\* Anyone may deposit.
Deposit(amount) ==
    /\ PurseReadable
    /\ deposited + amount <= MaxDeposited
    /\ purse' = PurseAfter(amount)
    /\ pool' = pool + amount
    /\ deposited' = deposited + amount
    /\ UNCHANGED <<holders, pending, totalShares, paid>>

\* The loop divides by totalShares, and so reverts when there are holders whose
\* weights add up to 0.  Without holders it only clears the pool.
Distribute(caller) ==
    /\ caller = Admin
    /\ pool # 0
    /\ DOMAIN holders # {} => totalShares # 0
    /\ pending' = [a \in Accounts |->
                      pending[a] + IF a \in DOMAIN holders THEN ShareOf(a) ELSE 0]
    /\ pool' = 0
    /\ UNCHANGED <<holders, totalShares, purse, deposited, paid>>

Claim(caller) ==
    /\ pending[caller] # 0
    /\ PurseReadable
    /\ pending[caller] <= purse
    /\ purse' = purse - pending[caller]
    /\ pending' = [pending EXCEPT ![caller] = 0]
    /\ paid' = [paid EXCEPT ![caller] = @ + pending[caller]]
    /\ UNCHANGED <<pool, holders, totalShares, deposited>>

RegisterHolder(caller, account, bps) ==
    /\ caller = Admin
    /\ ValidShare(bps)
    /\ holders' = WithHolder(account, bps)
    /\ totalShares' = SumFunction(holders')
    /\ UNCHANGED <<pool, pending, purse, deposited, paid>>

\* The same code a second time; an account that is not registered yet is added.
UpdateShare(caller, account, bps) == RegisterHolder(caller, account, bps)

\* The account need not be registered; what it has pending stays claimable.
RemoveHolder(caller, account) ==
    /\ caller = Admin
    /\ holders' = WithoutHolder(account)
    /\ totalShares' = SumFunction(holders')
    /\ UNCHANGED <<pool, pending, purse, deposited, paid>>

Next ==
    \/ \E amount \in Amounts : Deposit(amount)
    \/ \E c \in Accounts : Distribute(c)
    \/ \E c \in Accounts : Claim(c)
    \/ \E c, a \in Accounts, bps \in Weights : RegisterHolder(c, a, bps)
    \/ \E c, a \in Accounts, bps \in Weights : UpdateShare(c, a, bps)
    \/ \E c, a \in Accounts : RemoveHolder(c, a)

Spec == Init /\ [][Next]_vars

\* Every account that has something to claim claims it, sooner or later.
ClaimSpec == Spec /\ \A a \in Accounts : WF_vars(Claim(a))

-----------------------------------------------------------------------------
\* The types of the contract's cells.
TypeOK ==
    /\ pool \in Nat
    /\ DOMAIN holders \subseteq Accounts
    /\ \A a \in DOMAIN holders : holders[a] \in 0..MaxBps
    /\ pending \in [Accounts -> Nat]
    /\ totalShares \in Nat
    /\ purse \in Nat
    /\ deposited \in 0..MaxDeposited
    /\ paid \in [Accounts -> Nat]

\* The purse always covers the pool and everything that is owed: in no order of
\* deposits, distributions, claims and changes of weight can a claim fail for
\* want of funds.
Solvency == pool + SumFunction(pending) <= purse

\* The divisor of distribute is the sum of the weights it iterates over,
\* whichever of the three entry points wrote it last.
SharesAddUp == totalShares = SumFunction(holders)

\* What an account has pending is its own: no call but its own claim lowers
\* it (not its removal, not a change of weights, not somebody else's claim),
\* and that claim pays it out in full.
PendingIsOwed ==
    [][\A a \in Accounts :
          \/ pending'[a] >= pending[a] /\ paid'[a] = paid[a]
          \/ pending'[a] = 0 /\ paid'[a] = paid[a] + pending[a]]_vars

\* One distribution strands less than one mote per holder; rounding never
\* costs more, whatever the weights.
DustIsBounded ==
    [][pool' = 0 /\ pool > 0 /\ DOMAIN holders # {} =>
          Stranded' < Stranded + Cardinality(DOMAIN holders)]_vars

\* Whoever has motes pending gets at least that much in the end, also when it
\* is removed or its weight changes before it claims.
PendingIsPaid ==
    \A a \in Accounts : \A n \in 1..MaxDeposited :
        pending[a] = n ~> paid[a] >= n
=============================================================================
