----------------------------- MODULE AgentsProofs -----------------------------
(***************************************************************************)
(* Theorems about the yield distributor contract, about the agent that has *)
(* it distribute, and about the flags of the compliance agent.             *)
(***************************************************************************)
EXTENDS Agents, Sums, SequenceTheorems

\* The parts of a distribution: what each registered account is due in units of
\* 1/totalShares motes, what it gets, and what is lost by rounding down.
Due == [a \in DOMAIN holders |-> pool * holders[a]]
Share == [a \in DOMAIN holders |-> ShareOf(a)]
Lost == [a \in DOMAIN holders |-> (pool * holders[a]) % totalShares]

\* Everything the arguments below need of a state.
IInv == TypeOK /\ SharesAddUp /\ Solvency

\* The valid weights are the numbers up to 100 %.
LEMMA ValidWeights == \A w \in 0..MaxBps : w \in Int /\ w \in Nat /\ w >= 0
BY DEF MaxBps

\* The registered accounts are finitely many, and their weights are numbers.
LEMMA HoldersFinite ==
  ASSUME TypeOK
  PROVE  /\ IsFiniteSet(Accounts) /\ IsFiniteSet(DOMAIN holders)
         /\ DOMAIN holders \subseteq Accounts
         /\ \A a \in DOMAIN holders : holders[a] \in Nat
         /\ SumFunction(holders) \in Nat
<1>1. IsFiniteSet(Accounts) /\ IsFiniteSet(DOMAIN holders)
  BY AccountsAssumption, FS_Subset DEF TypeOK
<1>2. \A a \in DOMAIN holders : holders[a] \in Int /\ holders[a] >= 0
  <2>1. \A a \in DOMAIN holders : holders[a] \in 0..MaxBps
    BY DEF TypeOK
  <2> QED BY <2>1, ValidWeights
<1>3. SumFunction(holders) \in Int /\ SumFunction(holders) >= 0
  BY <1>1, <1>2, SumType DEF SumFunction
<1> QED BY <1>1, <1>2, <1>3 DEF TypeOK

\* The pending balances add up to a number.
LEMMA PendingSum ==
  ASSUME pending \in [Accounts -> Nat]
  PROVE  /\ SumFunction(pending) \in Nat
         /\ SumFunction(pending) = SumFunctionOnSet(pending, Accounts)
<1>1. \A a \in Accounts : pending[a] \in Int /\ pending[a] >= 0
  OBVIOUS
<1>2. DOMAIN pending = Accounts
  OBVIOUS
<1> QED BY <1>1, <1>2, AccountsAssumption, SumType DEF SumFunction

\* Weights stay numbers, so that their sum is one, whoever writes them.
LEMMA WrittenHolders ==
  ASSUME TypeOK,
         NEW new,
         \/ \E a \in Accounts, bps \in Weights : ValidShare(bps) /\ new = WithHolder(a, bps)
         \/ \E a \in Accounts : new = WithoutHolder(a)
  PROVE  /\ DOMAIN new \subseteq Accounts
         /\ \A a \in DOMAIN new : new[a] \in 0..MaxBps
         /\ SumFunction(new) \in Nat
<1>1. /\ DOMAIN new \subseteq Accounts
      /\ \A a \in DOMAIN new : new[a] \in 0..MaxBps
  <2>1. CASE \E a \in Accounts, bps \in Weights : ValidShare(bps) /\ new = WithHolder(a, bps)
    <3>1. PICK a \in Accounts, bps \in Weights : ValidShare(bps) /\ new = WithHolder(a, bps)
      BY <2>1
    <3>2. bps \in 0..MaxBps
      BY <3>1, WeightsAssumption DEF ValidShare, MaxBps
    <3>3. DOMAIN holders \subseteq Accounts /\ \A b \in DOMAIN holders : holders[b] \in 0..MaxBps
      BY DEF TypeOK
    <3> QED BY <3>1, <3>2, <3>3 DEF WithHolder
  <2>2. CASE \E a \in Accounts : new = WithoutHolder(a)
    BY <2>2 DEF TypeOK, WithoutHolder, Restrict
  <2> QED BY <2>1, <2>2
<1>2. IsFiniteSet(DOMAIN new)
  BY <1>1, AccountsAssumption, FS_Subset
<1>3. \A a \in DOMAIN new : new[a] \in Int /\ new[a] >= 0
  BY <1>1, ValidWeights
<1>4. SumFunction(new) \in Int /\ SumFunction(new) >= 0
  BY <1>2, <1>3, SumType DEF SumFunction
<1> QED BY <1>1, <1>4

\* Rounding down: no share exceeds what is due, and each falls short of it by
\* less than one mote.
LEMMA Rounding ==
  ASSUME TypeOK, totalShares # 0, NEW a \in DOMAIN holders
  PROVE  /\ Share[a] \in Nat
         /\ Lost[a] \in 0..(totalShares - 1)
         /\ Due[a] = totalShares * Share[a] + Lost[a]
<1>1. pool * holders[a] \in Nat
  <2>1. \A m, n \in Nat : m * n \in Nat
    OBVIOUS
  <2> QED BY <2>1, HoldersFinite DEF TypeOK
<1>2. totalShares \in Nat \ {0}
  BY DEF TypeOK
<1>3. \A m \in Nat, n \in Nat \ {0} :
          /\ m \div n \in Nat
          /\ m % n \in 0..(n - 1)
          /\ m = n * (m \div n) + (m % n)
  OBVIOUS
<1> QED BY <1>1, <1>2, <1>3 DEF Share, Lost, Due, ShareOf

\* What one distribution pays out is at most the pool, and short of it by less
\* than one mote per registered account.
LEMMA Distributed ==
  ASSUME IInv, totalShares # 0, DOMAIN holders # {}
  PROVE  /\ SumFunction(Share) \in Nat
         /\ SumFunction(Share) <= pool
         /\ pool < SumFunction(Share) + Cardinality(DOMAIN holders)
<1> DEFINE D == DOMAIN holders
           n == Cardinality(D)
           Whole == [a \in D |-> totalShares * Share[a]]
<1>1. /\ totalShares \in Nat \ {0} /\ pool \in Nat
      /\ totalShares = SumFunctionOnSet(holders, D)
  BY DEF IInv, TypeOK, SharesAddUp, SumFunction
<1>2. IsFiniteSet(D) /\ n \in Nat \ {0}
  BY HoldersFinite, FS_CardinalityType, FS_EmptySet DEF IInv
<1>3. \A a \in D : /\ Share[a] \in Nat
                   /\ Lost[a] \in 0..(totalShares - 1)
                   /\ Due[a] = totalShares * Share[a] + Lost[a]
                   /\ Due[a] = pool * holders[a]
                   /\ holders[a] \in Int
  BY Rounding, HoldersFinite DEF IInv, Due
<1> HIDE DEF D, n
<1>4. SumFunctionOnSet(Due, D) = pool * totalShares
  BY <1>1, <1>2, <1>3, SumOfMultiple
<1>5. SumFunctionOnSet(Whole, D) = totalShares * SumFunctionOnSet(Share, D)
  <2>1. \A a \in D : Whole[a] = totalShares * Share[a] /\ Share[a] \in Int
    BY <1>3
  <2> HIDE DEF Whole
  <2> QED BY <1>1, <1>2, <2>1, SumOfMultiple
<1>6. SumFunctionOnSet(Due, D) = SumFunctionOnSet(Whole, D) + SumFunctionOnSet(Lost, D)
  <2>1. \A a \in D : /\ Whole[a] \in Int /\ Lost[a] \in Int
                     /\ Due[a] = Whole[a] + Lost[a]
    <3>1. \A i \in Nat : totalShares * i \in Int
      BY <1>1
    <3> QED BY <1>1, <1>3, <3>1
  <2> HIDE DEF Whole
  <2> QED BY <1>2, <2>1, SumOfTwo
<1>7. SumFunctionOnSet(Share, D) \in Int /\ SumFunctionOnSet(Share, D) >= 0
  <2>1. \A a \in D : Share[a] \in Int /\ Share[a] >= 0
    BY <1>3
  <2> QED BY <1>2, <2>1, SumType
<1>8. /\ SumFunctionOnSet(Lost, D) \in Int /\ SumFunctionOnSet(Lost, D) >= 0
      /\ SumFunctionOnSet(Lost, D) <= (totalShares - 1) * n
  <2>1. \A a \in D : Lost[a] \in Int /\ Lost[a] >= 0 /\ Lost[a] <= totalShares - 1
    BY <1>1, <1>3
  <2>2. totalShares - 1 \in Nat
    BY <1>1
  <2> QED BY <1>2, <2>1, <2>2, SumType, SumBounded DEF n
<1>9. \A t, m \in Nat \ {0}, p \in Nat, s, l \in Int :
          (s >= 0 /\ l >= 0 /\ p * t = t * s + l /\ l <= (t - 1) * m) => s <= p /\ p < s + m
  <2> SUFFICES ASSUME NEW t \in Nat \ {0}, NEW m \in Nat \ {0}, NEW p \in Nat,
                      NEW s \in Int, NEW l \in Int,
                      s >= 0, l >= 0, p * t = t * s + l, l <= (t - 1) * m
               PROVE  s <= p /\ p < s + m
    OBVIOUS
  <2>1. s <= p
    OBVIOUS
  <2>2. p < s + m
    OBVIOUS
  <2> QED BY <2>1, <2>2
<1>10. pool * totalShares = totalShares * SumFunctionOnSet(Share, D) + SumFunctionOnSet(Lost, D)
  BY <1>4, <1>5, <1>6
<1>11. SumFunction(Share) = SumFunctionOnSet(Share, D)
  BY DEF SumFunction, Share, D
<1> QED BY <1>1, <1>2, <1>7, <1>8, <1>9, <1>10, <1>11 DEF n, D

-----------------------------------------------------------------------------
\* Every call keeps the types of the cells.
LEMMA TypeKept == TypeOK /\ [Next]_vars => TypeOK'
<1> SUFFICES ASSUME TypeOK, [Next]_vars PROVE TypeOK'
  OBVIOUS
<1>1. ASSUME NEW amount \in Amounts, Deposit(amount) PROVE TypeOK'
  BY <1>1, AmountsAssumption DEF TypeOK, Deposit, PurseAfter
<1>2. ASSUME NEW c \in Accounts, Distribute(c) PROVE TypeOK'
  <2>1. \A a \in DOMAIN holders : ShareOf(a) \in Nat
    BY <1>2, Rounding DEF Distribute, Share
  <2>2. pending' \in [Accounts -> Nat]
    BY <1>2, <2>1 DEF TypeOK, Distribute
  <2> QED BY <1>2, <2>2 DEF TypeOK, Distribute
<1>3. ASSUME NEW c \in Accounts, Claim(c) PROVE TypeOK'
  BY <1>3 DEF TypeOK, Claim
<1>4. ASSUME NEW c \in Accounts, NEW a \in Accounts, NEW bps \in Weights,
             RegisterHolder(c, a, bps)
      PROVE  TypeOK'
  <2>1. /\ DOMAIN holders' \subseteq Accounts
        /\ \A b \in DOMAIN holders' : holders'[b] \in 0..MaxBps
        /\ totalShares' \in Nat
    BY <1>4, WrittenHolders DEF RegisterHolder
  <2> QED BY <1>4, <2>1 DEF TypeOK, RegisterHolder
<1>5. ASSUME NEW c \in Accounts, NEW a \in Accounts, RemoveHolder(c, a) PROVE TypeOK'
  <2>1. /\ DOMAIN holders' \subseteq Accounts
        /\ \A b \in DOMAIN holders' : holders'[b] \in 0..MaxBps
        /\ totalShares' \in Nat
    BY <1>5, WrittenHolders DEF RemoveHolder
  <2> QED BY <1>5, <2>1 DEF TypeOK, RemoveHolder
<1>6. CASE UNCHANGED vars
  BY <1>6 DEF TypeOK, vars
<1> QED BY <1>1, <1>2, <1>3, <1>4, <1>5, <1>6 DEF Next, UpdateShare

\* Every call that writes the weights writes their sum, and no other call
\* touches either.
LEMMA SharesKept == SharesAddUp /\ [Next]_vars => SharesAddUp'
<1> SUFFICES ASSUME SharesAddUp, [Next]_vars PROVE totalShares' = SumFunction(holders')
  BY DEF SharesAddUp
<1>1. CASE UNCHANGED <<holders, totalShares>>
  BY <1>1 DEF SharesAddUp
<1>2. CASE totalShares' = SumFunction(holders')
  BY <1>2
<1> QED BY <1>1, <1>2
    DEF Next, vars, Deposit, Distribute, Claim, RegisterHolder, UpdateShare, RemoveHolder

\* After a distribution the pending balances have grown by what it paid out.
LEMMA PendingAfterDistribute ==
  ASSUME TypeOK, NEW c \in Accounts, Distribute(c), DOMAIN holders # {}
  PROVE  SumFunction(pending') = SumFunction(pending) + SumFunction(Share)
<1> DEFINE D == DOMAIN holders
           Rest == Accounts \ D
<1>1. /\ IsFiniteSet(D) /\ IsFiniteSet(Rest) /\ IsFiniteSet(Accounts)
      /\ D \subseteq Accounts
  BY HoldersFinite, FS_Difference
<1> DEFINE Extra == [a \in Accounts |-> IF a \in D THEN Share[a] ELSE 0]
<1>2. \A a \in D : Share[a] \in Nat /\ Share[a] = ShareOf(a)
  BY Rounding DEF Distribute, Share
<1>3. \A a \in Accounts : /\ pending[a] \in Int /\ Extra[a] \in Int
                          /\ pending'[a] = pending[a] + Extra[a]
  BY <1>2 DEF TypeOK, Distribute
<1>4. SumFunctionOnSet(pending', Accounts)
        = SumFunctionOnSet(pending, Accounts) + SumFunctionOnSet(Extra, Accounts)
  <2> HIDE DEF Extra
  <2> QED BY <1>1, <1>3, SumOfTwo
<1>5. SumFunctionOnSet(Extra, Accounts) = SumFunctionOnSet(Extra, D)
  <2>1. \A a \in Accounts \ D : Extra[a] = 0
    OBVIOUS
  <2>2. \A a \in Accounts : Extra[a] \in Int
    BY <1>3
  <2> HIDE DEF Extra, D
  <2> QED BY <1>1, <2>1, <2>2, SumOfPart
<1>6. SumFunctionOnSet(Extra, D) = SumFunctionOnSet(Share, D)
  <2>1. \A a \in D : Extra[a] = Share[a]
    BY <1>1
  <2> HIDE DEF Extra, D
  <2> QED BY <1>1, <2>1, SumOfSame
<1>7. /\ SumFunction(pending) = SumFunctionOnSet(pending, Accounts)
      /\ SumFunction(pending') = SumFunctionOnSet(pending', Accounts)
      /\ SumFunction(Share) = SumFunctionOnSet(Share, D)
  BY DEF SumFunction, TypeOK, Distribute, Share
<1> QED BY <1>4, <1>5, <1>6, <1>7

\* After a claim they have shrunk by what it paid.
LEMMA PendingAfterClaim ==
  ASSUME TypeOK, NEW c \in Accounts, Claim(c)
  PROVE  SumFunction(pending') = SumFunction(pending) - pending[c]
<1>1. /\ \A a \in Accounts : pending[a] \in Int
      /\ pending'[c] = 0
      /\ \A a \in Accounts \ {c} : pending'[a] = pending[a]
  BY DEF TypeOK, Claim
<1>2. SumFunctionOnSet(pending', Accounts) = SumFunctionOnSet(pending, Accounts) - pending[c] + 0
  BY <1>1, AccountsAssumption, SumOfChanged
<1>3. /\ SumFunction(pending) = SumFunctionOnSet(pending, Accounts)
      /\ SumFunction(pending') = SumFunctionOnSet(pending', Accounts)
  BY DEF SumFunction, TypeOK, Claim
<1>4. SumFunction(pending) \in Nat /\ pending[c] \in Nat
  BY PendingSum DEF TypeOK
<1> QED BY <1>2, <1>3, <1>4

\* The purse stays ahead of the pool and the pending balances: a deposit grows
\* purse and pool alike, a distribution pays out no more than the pool, a claim
\* takes as much from both sides.
LEMMA SolvencyKept == IInv /\ [Next]_vars => Solvency'
<1> SUFFICES ASSUME IInv, [Next]_vars PROVE Solvency'
  OBVIOUS
<1>1. /\ TypeOK /\ pool \in Nat /\ purse \in Nat
      /\ SumFunction(pending) \in Nat
      /\ pool + SumFunction(pending) <= purse
  BY PendingSum DEF IInv, TypeOK, Solvency
<1>2. ASSUME NEW amount \in Amounts, Deposit(amount) PROVE Solvency'
  BY <1>1, <1>2, AmountsAssumption DEF Deposit, PurseAfter, Solvency
<1>3. ASSUME NEW c \in Accounts, Distribute(c) PROVE Solvency'
  <2>1. CASE DOMAIN holders = {}
    <3>1. pending' = pending
      BY <1>1, <1>3, <2>1 DEF Distribute, TypeOK
    <3> QED BY <1>1, <1>3, <3>1 DEF Distribute, Solvency
  <2>2. CASE DOMAIN holders # {}
    <3>1. SumFunction(Share) \in Nat /\ SumFunction(Share) <= pool
      BY <1>3, <2>2, Distributed DEF Distribute
    <3>2. SumFunction(pending') = SumFunction(pending) + SumFunction(Share)
      BY <1>1, <1>3, <2>2, PendingAfterDistribute
    <3> QED BY <1>1, <1>3, <3>1, <3>2 DEF Distribute, Solvency
  <2> QED BY <2>1, <2>2
<1>4. ASSUME NEW c \in Accounts, Claim(c) PROVE Solvency'
  <2>1. SumFunction(pending') = SumFunction(pending) - pending[c] /\ pending[c] \in Nat
    BY <1>1, <1>4, PendingAfterClaim DEF TypeOK
  <2> QED BY <1>1, <1>4, <2>1 DEF Claim, Solvency
<1>5. CASE UNCHANGED <<pool, pending, purse>>
  BY <1>1, <1>5 DEF Solvency
<1> QED BY <1>2, <1>3, <1>4, <1>5
    DEF Next, vars, RegisterHolder, UpdateShare, RemoveHolder

\* The inductive invariant holds in the initial state...
LEMMA Initially == Init => IInv
<1> SUFFICES ASSUME Init PROVE IInv
  OBVIOUS
<1>1. TypeOK
  BY AmountsAssumption DEF Init, TypeOK
<1>2. SharesAddUp
  BY SumOfNone DEF Init, SharesAddUp, SumFunction
<1>3. Solvency
  <2>1. \A a \in Accounts : pending[a] \in Int
    BY DEF Init
  <2>2. SumFunctionOnSet(pending, Accounts) = SumFunctionOnSet(pending, {})
    BY <2>1, AccountsAssumption, SumOfPart DEF Init
  <2>3. SumFunction(pending) = 0
    BY <2>2, SumOfNone DEF SumFunction, Init
  <2> QED BY <2>3 DEF Init, Solvency
<1> QED BY <1>1, <1>2, <1>3 DEF IInv

\* ... and in every state after it.
LEMMA Invariant == Spec => []IInv
<1>1. IInv /\ [Next]_vars => IInv'
  BY TypeKept, SharesKept, SolvencyKept DEF IInv
<1> QED BY <1>1, Initially, PTL DEF Spec

-----------------------------------------------------------------------------
\* The types of the contract's cells, for any accounts, weights and amounts.
THEOREM TypesHold == Spec => []TypeOK
<1>1. IInv => TypeOK
  BY DEF IInv
<1> QED BY <1>1, Invariant, PTL

\* The divisor of distribute is the sum of the weights it iterates over, in
\* every state, for any number of holders and any weights.
THEOREM TotalIsSumOfShares == Spec => []SharesAddUp
<1>1. IInv => SharesAddUp
  BY DEF IInv
<1> QED BY <1>1, Invariant, PTL

\* The purse covers the pool and every pending balance, in every state.
THEOREM AlwaysSolvent == Spec => []Solvency
<1>1. IInv => Solvency
  BY DEF IInv
<1> QED BY <1>1, Invariant, PTL

\* So no claim is refused for want of funds: what an account has pending is in
\* the purse when it calls claim.
THEOREM ClaimsAreCovered == Spec => [](\A a \in Accounts : pending[a] <= purse)
<1>1. IInv => \A a \in Accounts : pending[a] <= purse
  <2> SUFFICES ASSUME IInv, NEW a \in Accounts PROVE pending[a] <= purse
    OBVIOUS
  <2>1. /\ \A b \in Accounts : pending[b] \in Nat
        /\ DOMAIN pending = Accounts
        /\ pool \in Nat /\ purse \in Nat
    BY DEF IInv, TypeOK
  <2>2. SumFunction(pending) \in Nat /\ pending[a] <= SumFunction(pending)
    BY <2>1, AccountsAssumption, SumCovers DEF SumFunction
  <2> QED BY <2>1, <2>2 DEF IInv, Solvency
<1> QED BY <1>1, Invariant, PTL

\* No call but an account's own claim lowers what it has pending, and the claim
\* pays all of it.
THEOREM OwedUntilClaimed == Spec => PendingIsOwed
<1> DEFINE Owed == \A a \in Accounts :
                      \/ pending'[a] >= pending[a] /\ paid'[a] = paid[a]
                      \/ pending'[a] = 0 /\ paid'[a] = paid[a] + pending[a]
<1>1. TypeOK /\ [Next]_vars => [Owed]_vars
  <2> SUFFICES ASSUME TypeOK, Next, NEW a \in Accounts
               PROVE  \/ pending'[a] >= pending[a] /\ paid'[a] = paid[a]
                      \/ pending'[a] = 0 /\ paid'[a] = paid[a] + pending[a]
    OBVIOUS
  <2>1. pending[a] \in Nat /\ paid[a] \in Nat
    BY DEF TypeOK
  <2>2. CASE UNCHANGED <<pending, paid>>
    BY <2>1, <2>2
  <2>3. ASSUME NEW c \in Accounts, Distribute(c)
        PROVE  pending'[a] >= pending[a] /\ paid'[a] = paid[a]
    <3>1. a \in DOMAIN holders => ShareOf(a) \in Nat
      BY <2>3, Rounding DEF Distribute, Share
    <3> QED BY <2>1, <2>3, <3>1 DEF Distribute
  <2>4. ASSUME NEW c \in Accounts, Claim(c)
        PROVE  \/ pending'[a] >= pending[a] /\ paid'[a] = paid[a]
               \/ pending'[a] = 0 /\ paid'[a] = paid[a] + pending[a]
    BY <2>1, <2>4 DEF Claim, TypeOK
  <2> QED BY <2>2, <2>3, <2>4
      DEF Next, Deposit, RegisterHolder, UpdateShare, RemoveHolder
<1> QED BY <1>1, TypesHold, PTL DEF Spec, PendingIsOwed

\* One distribution strands less than one mote per holder, for any number of
\* holders and any weights.
THEOREM RoundingIsBounded == Spec => DustIsBounded
<1> DEFINE Bounded == pool' = 0 /\ pool > 0 /\ DOMAIN holders # {} =>
                         Stranded' < Stranded + Cardinality(DOMAIN holders)
<1>1. IInv /\ [Next]_vars => [Bounded]_vars
  <2> SUFFICES ASSUME IInv, Next, pool' = 0, pool > 0, DOMAIN holders # {}
               PROVE  Stranded' < Stranded + Cardinality(DOMAIN holders)
    OBVIOUS
  <2>1. /\ TypeOK /\ pool \in Nat /\ purse \in Nat
        /\ SumFunction(pending) \in Nat
    BY PendingSum DEF IInv, TypeOK
  <2>2. PICK c \in Accounts : Distribute(c)
    BY <2>1, AmountsAssumption
    DEF Next, Deposit, Claim, RegisterHolder, UpdateShare, RemoveHolder
  <2>3. /\ SumFunction(Share) \in Nat
        /\ pool < SumFunction(Share) + Cardinality(DOMAIN holders)
    BY <2>2, Distributed DEF Distribute
  <2>4. SumFunction(pending') = SumFunction(pending) + SumFunction(Share)
    BY <2>1, <2>2, PendingAfterDistribute
  <2>5. Cardinality(DOMAIN holders) \in Nat
    BY <2>1, HoldersFinite, FS_CardinalityType
  <2>6. purse' = purse /\ pool' = 0
    BY <2>2 DEF Distribute
  <2> QED BY <2>1, <2>3, <2>4, <2>5, <2>6 DEF Stranded
<1> QED BY <1>1, Invariant, PTL DEF Spec, DustIsBounded

-----------------------------------------------------------------------------
(***************************************************************************)
(* The agent.  `spare' counts the balances that were read, while another   *)
(* distribution was in flight, high enough to submit one more.  It is not  *)
(* inductive that it stays positive: the invariant compares it with what   *)
(* is in flight.  A pool that is not empty will pay for one distribution;  *)
(* each of the others was paid for by a late reading.                      *)
(***************************************************************************)
TicksOK ==
    /\ tick \in [Ticks -> [pc : {"none", "asking", "read"}, balance : Nat]]
    /\ submitted \in 0..MaxPending
    /\ spare \in Int

InFlight == submitted + Cardinality(Busy)
Paying == IF pool > 0 THEN 1 ELSE 0
ReadingsCover == spare >= 0 /\ InFlight <= spare + Paying

AgentInv == TypeOK /\ TicksOK /\ ReadingsCover

\* The agent and the others call the contract as its own specification allows.
LEMMA AgentCalls == [AgentNext]_agentVars => [Next]_vars
<1> SUFFICES ASSUME [AgentNext]_agentVars PROVE [Next]_vars
  OBVIOUS
<1>1. CASE UNCHANGED contract
  BY <1>1 DEF contract, vars
<1>2. CASE Others
  BY <1>2, AccountsAssumption DEF Others, Next
<1>3. CASE Execute
  BY <1>3, AccountsAssumption DEF Execute, Next, contract, vars
<1> QED
  BY <1>1, <1>2, <1>3
  DEF AgentNext, agentVars, TickStep, checkPoolBalance, runDistribute, Register, ManualTick,
      FetchStatus, HandleToggle, TimerTick, Restart

\* The busy ticks are finitely many.
LEMMA BusyFinite ==
    /\ IsFiniteSet(Busy) /\ Cardinality(Busy) \in Nat /\ Cardinality(Ticks) \in Nat
    /\ Cardinality(Busy) <= Cardinality(Ticks)
BY BoundsAssumption, FS_Subset, FS_CardinalityType DEF Busy

\* A tick that begins, or gives up before it has read a balance that suffices, is not busy.
LEMMA TickBegins ==
    ASSUME TicksOK, NEW t \in Ticks, BeginTick(t)
    PROVE  /\ tick' \in [Ticks -> [pc : {"none", "asking", "read"}, balance : Nat]]
           /\ Busy' = Busy
<1>1. tick[t] = NoTick /\ tick' = [tick EXCEPT ![t].pc = "asking"]
  BY DEF BeginTick
<1>2. /\ tick'[t].pc = "asking" /\ tick'[t].balance = 0
      /\ tick[t].pc = "none" /\ \A u \in Ticks \ {t} : tick'[u] = tick[u]
  BY <1>1 DEF TicksOK, NoTick
<1>3. tick' \in [Ticks -> [pc : {"none", "asking", "read"}, balance : Nat]]
  BY <1>1 DEF TicksOK, NoTick
<1> QED BY <1>2, <1>3 DEF Busy

\* A tick takes one that is busy away, at most.
LEMMA TickEnds ==
    ASSUME TicksOK, NEW t \in Ticks, Ends(t)
    PROVE  /\ tick' \in [Ticks -> [pc : {"none", "asking", "read"}, balance : Nat]]
           /\ Cardinality(Busy') \in Nat /\ Cardinality(Busy') <= Cardinality(Busy)
           /\ Cardinality(Busy') = IF t \in Busy THEN Cardinality(Busy) - 1 ELSE Cardinality(Busy)
<1>1. /\ tick' \in [Ticks -> [pc : {"none", "asking", "read"}, balance : Nat]]
      /\ tick'[t].pc = "none" /\ \A u \in Ticks \ {t} : tick'[u] = tick[u]
  BY DEF TicksOK, Ends, NoTick
<1>2. Busy' = Busy \ {t}
  BY <1>1 DEF Busy
<1>3. /\ IsFiniteSet(Busy \ {t})
      /\ Cardinality(Busy \ {t}) = IF t \in Busy THEN Cardinality(Busy) - 1 ELSE Cardinality(Busy)
  BY BusyFinite, FS_RemoveElement
<1>4. Cardinality(Busy') \in Nat /\ Cardinality(Busy) \in Nat
  BY <1>2, <1>3, BusyFinite, FS_CardinalityType
<1> QED BY <1>1, <1>2, <1>3, <1>4

\* A step with the pool not drained and nothing more in flight is harmless.
LEMMA NothingMore ==
    ASSUME AgentInv, TypeOK', tick' \in [Ticks -> [pc : {"none", "asking", "read"}, balance : Nat]],
           submitted' \in 0..MaxPending, spare' = spare,
           submitted' + Cardinality(Busy)' <= submitted + Cardinality(Busy), pool <= pool'
    PROVE  AgentInv'
<1>1. /\ pool \in Nat /\ pool' \in Nat /\ submitted \in Nat /\ submitted' \in Nat /\ spare \in Int
      /\ Cardinality(Busy) \in Nat /\ spare >= 0
      /\ submitted + Cardinality(Busy) <= spare + (IF pool > 0 THEN 1 ELSE 0)
  BY BusyFinite, BoundsAssumption DEF AgentInv, TypeOK, TicksOK, ReadingsCover, InFlight, Paying
<1>2. TicksOK'
  BY DEF AgentInv, TicksOK
<1>3. Cardinality(Busy)' \in Nat
  <2>1. IsFiniteSet(Busy')
    BY BoundsAssumption, FS_Subset DEF Busy
  <2> QED BY <2>1, FS_CardinalityType
<1>4. ReadingsCover'
  BY <1>1, <1>3 DEF ReadingsCover, InFlight, Paying
<1> QED BY <1>2, <1>4 DEF AgentInv

\* A balance that suffices was read: with something in flight already, the reading is
\* a late one.
LEMMA ReadKeeps ==
    ASSUME AgentInv, TypeOK', NEW t \in Ticks, checkPoolBalance(t)
    PROVE  AgentInv'
<1> USE DEF AgentInv
<1>1. /\ pool' = pool /\ submitted' = submitted /\ tick[t].pc = "asking"
      /\ pool \in Nat /\ submitted \in Nat /\ submitted <= MaxPending /\ MaxPending \in Nat
      /\ spare \in Int
  BY BoundsAssumption DEF checkPoolBalance, contract, TypeOK, TicksOK
<1>2. t \notin Busy
  BY <1>1 DEF Busy
<1>3. CASE Ends(t) /\ UNCHANGED spare
  <2>1. Cardinality(Busy') <= Cardinality(Busy)
    BY <1>3, TickEnds
  <2>2. Cardinality(Busy') \in Nat /\ Cardinality(Busy) \in Nat
    BY <1>3, TickEnds, BusyFinite
  <2> QED BY <1>1, <1>3, <2>1, <2>2, TickEnds, NothingMore DEF TicksOK
<1>4. CASE /\ tick' = [tick EXCEPT ![t] = [pc |-> "read", balance |-> pool]]
           /\ spare' = IF pool < Threshold THEN spare
                       ELSE IF submitted = 0 /\ Busy = {} THEN 0
                       ELSE Lower(spare + 1, Cardinality(Ticks) + MaxPending)
  <2>1. /\ tick' \in [Ticks -> [pc : {"none", "asking", "read"}, balance : Nat]]
        /\ tick'[t].pc = "read" /\ tick'[t].balance = pool
        /\ \A u \in Ticks \ {t} : tick'[u] = tick[u]
    BY <1>1, <1>4 DEF TicksOK
  <2>2. CASE pool < Threshold
    <3>1. ~(pool >= Threshold)
      BY <1>1, <2>2, ThresholdAssumption
    <3>2. Busy' = Busy
      BY <1>2, <2>1, <3>1 DEF Busy
    <3> QED BY <1>1, <1>4, <2>1, <2>2, <3>2, BusyFinite, NothingMore DEF TicksOK
  <2>3. CASE ~(pool < Threshold)
    <3>1. pool >= Threshold /\ pool > 0
      BY <1>1, <2>3, ThresholdAssumption
    <3>2. Busy' = Busy \cup {t}
      BY <2>1, <3>1 DEF Busy
    <3>3. Cardinality(Busy') = Cardinality(Busy) + 1
      BY <1>2, <3>2, BusyFinite, FS_AddElement
    <3>4. /\ Cardinality(Busy) \in Nat /\ Cardinality(Ticks) \in Nat
          /\ Cardinality(Busy) + 1 <= Cardinality(Ticks)
      <4>1. Busy' \subseteq Ticks
        BY DEF Busy
      <4> QED BY <3>3, <4>1, BusyFinite, BoundsAssumption, FS_Subset
    <3>5. spare >= 0 /\ submitted + Cardinality(Busy) <= spare + 1
      BY <1>1, <3>1, BusyFinite DEF ReadingsCover, InFlight, Paying
    <3>6. spare' \in Int /\ spare' >= 0 /\ submitted + Cardinality(Busy) + 1 <= spare' + 1
      <4>1. CASE submitted = 0 /\ Busy = {}
        BY <1>4, <2>3, <4>1, FS_EmptySet
      <4>2. CASE ~(submitted = 0 /\ Busy = {})
        BY <1>1, <1>4, <2>3, <3>4, <3>5, <4>2 DEF Lower
      <4> QED BY <4>1, <4>2
    <3>7. TicksOK'
      BY <1>1, <2>1, <3>6 DEF TicksOK
    <3>8. ReadingsCover'
      BY <1>1, <3>1, <3>3, <3>4, <3>6 DEF ReadingsCover, InFlight, Paying
    <3> QED BY <3>7, <3>8
  <2> QED BY <2>2, <2>3
<1> QED BY <1>3, <1>4 DEF checkPoolBalance

\* A distribution is submitted by a tick that was busy.
LEMMA SubmitKeeps ==
    ASSUME AgentInv, TypeOK', NEW t \in Ticks, runDistribute(t)
    PROVE  AgentInv'
<1> USE DEF AgentInv
<1>1. /\ pool' = pool /\ spare' = spare /\ tick[t].pc = "read" /\ Ends(t)
      /\ pool \in Nat /\ submitted \in Nat /\ submitted \in 0..MaxPending /\ MaxPending \in Nat
  BY BoundsAssumption DEF runDistribute, contract, TypeOK, TicksOK
<1>2. /\ t \in Busy <=> Enough(t)
      /\ Cardinality(Busy) \in Nat
      /\ Cardinality(Busy') = IF t \in Busy THEN Cardinality(Busy) - 1 ELSE Cardinality(Busy)
      /\ tick' \in [Ticks -> [pc : {"none", "asking", "read"}, balance : Nat]]
  BY <1>1, TickEnds, BusyFinite DEF Busy, Enough
<1>3. \/ submitted' = submitted
      \/ Enough(t) /\ submitted < MaxPending /\ submitted' = submitted + 1
  BY DEF runDistribute
<1>4. /\ submitted' \in 0..MaxPending /\ pool <= pool'
      /\ submitted' + Cardinality(Busy') <= submitted + Cardinality(Busy)
  BY <1>1, <1>2, <1>3
<1> QED BY <1>1, <1>2, <1>4, NothingMore

\* The chain executes a distribution: only an empty pool uses up a reading.
LEMMA ExecuteKeeps ==
    ASSUME AgentInv, TypeOK', Execute
    PROVE  AgentInv'
<1> USE DEF AgentInv
<1>1. /\ submitted > 0 /\ submitted' = submitted - 1 /\ tick' = tick /\ Busy' = Busy
      /\ submitted \in 0..MaxPending /\ submitted' \in 0..MaxPending /\ MaxPending \in Nat
      /\ pool \in Nat /\ Cardinality(Busy) \in Nat /\ spare \in Int /\ spare >= 0
      /\ submitted + Cardinality(Busy) <= spare + (IF pool > 0 THEN 1 ELSE 0)
      /\ tick \in [Ticks -> [pc : {"none", "asking", "read"}, balance : Nat]]
  BY BoundsAssumption, BusyFinite
  DEF Execute, TypeOK, TicksOK, ReadingsCover, InFlight, Paying, Busy
<1>2. CASE Distribute(Admin) /\ UNCHANGED spare
  <2>1. pool' = 0
    BY <1>2 DEF Distribute
  <2>2. submitted' + Cardinality(Busy) <= spare
    BY <1>1
  <2> QED BY <1>1, <1>2, <2>1, <2>2 DEF TicksOK, ReadingsCover, InFlight, Paying
<1>3. CASE pool = 0 /\ spare' = spare - 1 /\ UNCHANGED contract
  <2>1. pool' = 0 /\ spare' \in Int
    BY <1>1, <1>3 DEF contract
  <2>2. spare' >= 0 /\ submitted' + Cardinality(Busy) <= spare'
    BY <1>1, <1>3
  <2> QED BY <1>1, <2>1, <2>2 DEF TicksOK, ReadingsCover, InFlight, Paying
<1>4. CASE UNCHANGED <<contract, spare>>
  <2>1. pool' = pool /\ spare' = spare /\ submitted' + Cardinality(Busy') <= submitted + Cardinality(Busy)
    BY <1>1, <1>4 DEF contract
  <2> QED BY <1>1, <2>1, NothingMore
<1> QED BY <1>2, <1>3, <1>4 DEF Execute

\* Every step keeps the invariant.
LEMMA AgentStepKeeps ==
    ASSUME AgentInv, [AgentNext]_agentVars
    PROVE  AgentInv'
<1>1. TypeOK'
  BY AgentCalls, TypeKept DEF AgentInv
<1>2. /\ pool \in Nat /\ submitted \in 0..MaxPending /\ submitted \in Nat /\ TicksOK
      /\ Cardinality(Busy) \in Nat
      /\ tick \in [Ticks -> [pc : {"none", "asking", "read"}, balance : Nat]]
  BY BusyFinite, BoundsAssumption DEF AgentInv, TypeOK, TicksOK
<1>3. ASSUME NEW t \in Ticks, BeginTick(t), UNCHANGED <<contract, submitted, spare>>
      PROVE  AgentInv'
  <2>1. Busy' = Busy /\ tick' \in [Ticks -> [pc : {"none", "asking", "read"}, balance : Nat]]
    BY <1>2, <1>3, TickBegins
  <2>2. /\ pool <= pool' /\ submitted' \in 0..MaxPending /\ spare' = spare
        /\ submitted' + Cardinality(Busy') <= submitted + Cardinality(Busy)
    BY <1>2, <1>3, <2>1 DEF contract
  <2> QED BY <1>1, <2>1, <2>2, NothingMore
<1>4. ASSUME UNCHANGED <<tick, submitted, spare>>, pool <= pool'
      PROVE  AgentInv'
  <2>1. Busy' = Busy
    BY <1>4 DEF Busy
  <2> QED BY <1>1, <1>2, <1>4, <2>1, NothingMore
<1>5. CASE Restart
  <2>1. /\ tick' = [t \in Ticks |-> NoTick]
        /\ UNCHANGED <<contract, submitted, spare>>
    BY <1>5 DEF Restart
  <2>2. Busy' = {}
    BY <2>1 DEF Busy, NoTick
  <2>3. tick' \in [Ticks -> [pc : {"none", "asking", "read"}, balance : Nat]]
    BY <2>1 DEF NoTick
  <2>4. /\ pool <= pool' /\ submitted' \in 0..MaxPending /\ spare' = spare
        /\ submitted' + Cardinality(Busy') <= submitted + Cardinality(Busy)
    BY <1>2, <2>1, <2>2, FS_EmptySet DEF contract
  <2> QED BY <1>1, <2>3, <2>4, NothingMore
<1>6. CASE Others
  <2>1. UNCHANGED <<tick, submitted, spare>> /\ pool <= pool'
    BY <1>2, <1>6, AmountsAssumption DEF Others, Deposit, Claim, RegisterHolder
  <2> QED BY <1>4, <2>1
<1>7. ASSUME NEW i \in Instances, FetchStatus(i) \/ HandleToggle(i) \/ \E t \in Ticks : TimerTick(i, t)
      PROVE  AgentInv'
  <2>1. CASE UNCHANGED <<contract, tick, submitted, spare>>
    BY <1>2, <1>4, <2>1 DEF contract
  <2>2. ASSUME NEW t \in Ticks, BeginTick(t), UNCHANGED <<contract, submitted, spare>>
        PROVE  AgentInv'
    BY <1>3, <2>2
  <2> QED BY <1>7, <2>1, <2>2 DEF FetchStatus, HandleToggle, TimerTick, stopAgent, startAgent
<1>8. ASSUME NEW t \in Ticks, TickStep(t) \/ Register(t) \/ ManualTick(t) PROVE AgentInv'
  <2>1. CASE Register(t) \/ ManualTick(t)
    BY <1>3, <2>1 DEF Register, ManualTick, startAgent
  <2> QED BY <1>1, <1>8, <2>1, ReadKeeps, SubmitKeeps DEF TickStep
<1>9. CASE UNCHANGED agentVars
  BY <1>2, <1>4, <1>9 DEF agentVars, contract
<1> QED BY <1>1, <1>5, <1>6, <1>7, <1>8, <1>9, ExecuteKeeps DEF AgentNext

\* The invariant of the agent.
LEMMA AgentInvariant == AgentSpec => []AgentInv
<1>1. AgentInit => AgentInv
  <2> SUFFICES ASSUME AgentInit PROVE AgentInv
    OBVIOUS
  <2>1. TypeOK /\ tick = [t \in Ticks |-> NoTick] /\ submitted = 0 /\ spare = 0 /\ pool = 0
    BY Initially DEF AgentInit, IInv, Init
  <2>2. Busy = {} /\ TicksOK
    BY <2>1, BoundsAssumption DEF Busy, NoTick, TicksOK
  <2> QED BY <2>1, <2>2, FS_EmptySet DEF AgentInv, ReadingsCover, InFlight, Paying
<1>2. AgentInv /\ [AgentNext]_agentVars => AgentInv'
  BY AgentStepKeeps
<1> QED BY <1>1, <1>2, PTL DEF AgentSpec

\* A distribution finds the pool empty only for a balance that was read while
\* another distribution was in flight, however many ticks, instances and
\* transactions there are.
THEOREM OneDistributionPays == AgentSpec => []RevertsAreLateReadings
<1>1. AgentInv => RevertsAreLateReadings
  BY DEF AgentInv, ReadingsCover, RevertsAreLateReadings
<1> QED BY <1>1, AgentInvariant, PTL

\* The agent uses the contract as any caller may, so that all that is said above of
\* the contract holds under the agent: its purse covers pool and pending, too.
THEOREM AgentKeepsContract == AgentSpec => Spec /\ []Solvency
<1>1. AgentInit => Init
  BY DEF AgentInit
<1> QED BY <1>1, AgentCalls, AlwaysSolvent, PTL DEF AgentSpec, Spec

(***************************************************************************)
(* The flags of the compliance agent (ComplianceAgent).  As long as no     *)
(* flag has left the list, every revocation that is on its way has an open *)
(* flag of its wallet, and no two have the same: a scan may close the flag *)
(* of another, and leaves its own to it.                                   *)
(***************************************************************************)
Flag == [wallet : Wallets, resolved : BOOLEAN]
Stop == [id : Ids, wallet : Wallets, expired : BOOLEAN]
Scan == [pc : {"none", "scanning", "revoking"}, todo : SUBSET Stop, wallet : SUBSET Wallets]

FlagTypes ==
    /\ flags \in Seq(Flag)
    /\ revocations \in Nat
    /\ scan \in [Scans -> Scan]

Revoking == {s \in Scans : scan[s].pc = "revoking"}
Resolved == {n \in 1..Len(flags) : flags[n].resolved}

\* An open flag for each scan that is about to close one.
HasFlags(f) ==
    /\ f \in [Revoking -> 1..Len(flags)]
    /\ \A s, u \in Revoking : f[s] = f[u] => s = u
    /\ \A s \in Revoking : ~flags[f[s]].resolved /\ scan[s].wallet = {flags[f[s]].wallet}

FlagInv ==
    /\ FlagTypes
    /\ "cut" \notin seen => Cardinality(Resolved) = revocations /\ \E f : HasFlags(f)

\* A flag is put in front of the others.
LEMMA FlagAdded ==
    ASSUME C!ConstantsAssumption, FlagTypes, NEW w \in Wallets, C!addFlag(w)
    PROVE  /\ flags' \in Seq(Flag) /\ revocations' \in Nat /\ seen \subseteq seen'
           /\ "cut" \notin seen' =>
                 /\ revocations' = revocations /\ Len(flags') = Len(flags) + 1
                 /\ flags'[1] = [wallet |-> w, resolved |-> FALSE]
                 /\ \A i \in 1..Len(flags) : flags'[i + 1] = flags[i]
<1> DEFINE new == [wallet |-> w, resolved |-> FALSE]
           longer == <<new>> \o flags
           kept == IF Len(longer) > MaxFlags THEN MaxFlags ELSE Len(longer)
<1>1. /\ flags' = SubSeq(longer, 1, kept)
      /\ seen' = IF kept < Len(longer) THEN seen \cup {"cut"} ELSE seen
      /\ revocations' = IF kept < Len(longer) THEN 0 ELSE revocations
  BY DEF C!addFlag
<1>2. flags \in Seq(Flag) /\ Len(flags) \in Nat /\ revocations \in Nat
  BY LenProperties DEF FlagTypes
<1>3. <<new>> \in Seq(Flag) /\ Len(<<new>>) = 1 /\ <<new>>[1] = new
  <2>1. new \in Flag
    BY DEF Flag
  <2> QED BY <2>1
<1> HIDE DEF new
<1>4. /\ longer \in Seq(Flag) /\ Len(longer) = Len(flags) + 1
      /\ \A i \in 1..Len(flags) + 1 : longer[i] = IF i <= 1 THEN <<new>>[i] ELSE flags[i - 1]
  BY <1>2, <1>3, ConcatProperties
<1> HIDE DEF longer
<1>5. kept \in Nat /\ 1 <= kept /\ kept <= Len(longer)
  BY <1>2, <1>4 DEF C!ConstantsAssumption
<1> HIDE DEF kept
<1>6. \A i \in 1..kept : longer[i] \in Flag
  BY <1>4, <1>5, ElementOfSeq
<1>7. /\ SubSeq(longer, 1, kept) \in Seq(Flag) /\ Len(SubSeq(longer, 1, kept)) = kept
      /\ \A i \in 1..kept : SubSeq(longer, 1, kept)[i] = longer[i]
  <2>1. /\ SubSeq(longer, 1, kept) \in Seq(Flag)
        /\ Len(SubSeq(longer, 1, kept)) = IF 1 <= kept THEN kept - 1 + 1 ELSE 0
        /\ \A i \in 1..(kept - 1 + 1) : SubSeq(longer, 1, kept)[i] = longer[1 + i - 1]
    BY <1>5, <1>6, SubSeqProperties
  <2> QED BY <1>5, <2>1
<1>8. "cut" \notin seen' =>
                 /\ revocations' = revocations /\ Len(flags') = Len(flags) + 1
                 /\ flags'[1] = new
                 /\ \A i \in 1..Len(flags) : flags'[i + 1] = flags[i]
  <2> SUFFICES ASSUME "cut" \notin seen'
               PROVE  /\ revocations' = revocations /\ Len(flags') = Len(flags) + 1
                      /\ flags'[1] = new
                      /\ \A i \in 1..Len(flags) : flags'[i + 1] = flags[i]
    OBVIOUS
  <2>1. kept = Len(longer)
    BY <1>1, <1>4, <1>5, <1>2
  <2>2. revocations' = revocations /\ Len(flags') = Len(flags) + 1
    BY <1>1, <1>2, <1>4, <1>7, <2>1
  <2>3. flags'[1] = new
    BY <1>1, <1>2, <1>3, <1>4, <1>7, <2>1
  <2>4. ASSUME NEW i \in 1..Len(flags) PROVE flags'[i + 1] = flags[i]
    <3>1. i + 1 \in 1..kept /\ ~(i + 1 <= 1) /\ i + 1 - 1 = i
      BY <1>2, <1>4, <2>1
    <3> QED BY <1>1, <1>2, <1>4, <1>7, <2>1, <3>1
  <2> QED BY <2>2, <2>3, <2>4
<1> QED BY <1>1, <1>2, <1>7, <1>8 DEF new

\* The list is finite.
LEMMA FiniteResolved ==
    ASSUME Len(flags) \in Nat
    PROVE  IsFiniteSet(Resolved)
<1>1. IsFiniteSet(1..Len(flags))
  BY FS_Interval
<1>2. Resolved \in SUBSET (1..Len(flags))
  BY DEF Resolved
<1> QED BY <1>1, <1>2, FS_Subset

\* Behind a new flag are as many resolved ones as before.
LEMMA ResolvedMove ==
    ASSUME FlagTypes, flags' \in Seq(Flag), Len(flags') = Len(flags) + 1,
           ~flags'[1].resolved, \A i \in 1..Len(flags) : flags'[i + 1] = flags[i]
    PROVE  Cardinality(Resolved') = Cardinality(Resolved)
<1> DEFINE g == [n \in Resolved |-> n + 1]
<1>1. Len(flags) \in Nat
  BY LenProperties DEF FlagTypes
<1>2. IsFiniteSet(Resolved)
  BY <1>1, FiniteResolved
<1>3. g \in [Resolved -> Resolved']
  BY <1>1 DEF Resolved
<1>4. \A a, b \in Resolved : g[a] = g[b] => a = b
  BY <1>1 DEF Resolved
<1>5. \A n \in Resolved' : \E a \in Resolved : g[a] = n
  <2> TAKE n \in Resolved'
  <2>1. n \in 1..(Len(flags) + 1) /\ flags'[n].resolved
    BY DEF Resolved
  <2>2. n # 1
    BY <2>1
  <2>3. n - 1 \in 1..Len(flags) /\ n - 1 + 1 = n
    BY <1>1, <2>1, <2>2
  <2>4. n - 1 \in Resolved
    BY <2>1, <2>3 DEF Resolved
  <2> QED BY <2>3, <2>4
<1>6. g \in Bijection(Resolved, Resolved')
  BY <1>3, <1>4, <1>5 DEF Bijection, Injection, Surjection, IsInjective
<1> QED BY <1>2, <1>6, FS_Bijection DEF ExistsBijection

\* A new flag in front, which the scan keeps if it is going to close it.
LEMMA AddedKeeps ==
    ASSUME C!ConstantsAssumption, FlagInv, NEW w \in Wallets, C!addFlag(w),
           NEW s \in Scans, NEW k \in Scan, scan' = [scan EXCEPT ![s] = k],
           scan[s].pc = "scanning", k.pc = "revoking" => k.wallet = {w}
    PROVE  FlagInv'
<1>1. /\ FlagTypes /\ flags' \in Seq(Flag) /\ revocations' \in Nat /\ seen \subseteq seen'
      /\ "cut" \notin seen' =>
            /\ revocations' = revocations /\ Len(flags') = Len(flags) + 1
            /\ flags'[1] = [wallet |-> w, resolved |-> FALSE]
            /\ \A i \in 1..Len(flags) : flags'[i + 1] = flags[i]
  BY FlagAdded DEF FlagInv
<1>2. scan \in [Scans -> Scan] /\ Len(flags) \in Nat
  BY <1>1, LenProperties DEF FlagTypes
<1>3. /\ scan' \in [Scans -> Scan] /\ scan'[s] = k /\ \A u \in Scans \ {s} : scan'[u] = scan[u]
      /\ s \notin Revoking /\ Revoking' = IF k.pc = "revoking" THEN Revoking \cup {s} ELSE Revoking
  BY <1>2 DEF Revoking
<1>4. ASSUME "cut" \notin seen'
      PROVE  Cardinality(Resolved') = revocations' /\ \E f : HasFlags(f)'
  <2>1. /\ revocations' = revocations /\ Len(flags') = Len(flags) + 1
        /\ flags'[1] = [wallet |-> w, resolved |-> FALSE]
        /\ \A i \in 1..Len(flags) : flags'[i + 1] = flags[i]
    BY <1>1, <1>4
  <2>2. "cut" \notin seen
    BY <1>1, <1>4
  <2>3. Cardinality(Resolved) = revocations /\ \E f : HasFlags(f)
    BY <2>2 DEF FlagInv
  <2>4. Cardinality(Resolved') = revocations'
    BY <1>1, <2>1, <2>3, ResolvedMove
  <2>5. PICK f : HasFlags(f)
    BY <2>3
  <2>6. /\ f \in [Revoking -> 1..Len(flags)]
        /\ \A a, u \in Revoking : f[a] = f[u] => a = u
        /\ \A u \in Revoking : ~flags[f[u]].resolved /\ scan[u].wallet = {flags[f[u]].wallet}
    BY <2>5 DEF HasFlags
  <2> DEFINE g == [u \in Revoking' |-> IF u = s THEN 1 ELSE f[u] + 1]
  <2>7. PICK h : h = g
    OBVIOUS
  <2>8. \A u \in Revoking' : u = s \/ (u \in Revoking /\ f[u] \in 1..Len(flags) /\ h[u] = f[u] + 1)
    BY <1>3, <2>6, <2>7
  <2>9. h \in [Revoking' -> 1..Len(flags')] /\ (s \in Revoking' => h[s] = 1)
    <3>1. \A u \in Revoking' : g[u] \in 1..Len(flags')
      BY <1>2, <1>3, <2>1, <2>6
    <3> QED BY <2>7, <3>1
  <2> HIDE DEF g
  <2>10. \A a, u \in Revoking' : h[a] = h[u] => a = u
    <3> TAKE a, u \in Revoking'
    <3>1. CASE a = s
      BY <1>2, <2>8, <2>9, <3>1
    <3>2. CASE u = s
      BY <1>2, <2>8, <2>9, <3>2
    <3>3. CASE a # s /\ u # s
      BY <1>2, <2>6, <2>8, <3>3
    <3> QED BY <3>1, <3>2, <3>3
  <2>11. ASSUME NEW u \in Revoking'
         PROVE  ~flags'[h[u]].resolved /\ scan'[u].wallet = {flags'[h[u]].wallet}
    <3>1. CASE u = s
      BY <1>3, <2>1, <2>9, <3>1 DEF Revoking
    <3>2. CASE u # s
      <4>1. u \in Revoking /\ f[u] \in 1..Len(flags) /\ h[u] = f[u] + 1
        BY <2>8, <3>2
      <4>2. flags'[h[u]] = flags[f[u]] /\ scan'[u] = scan[u]
        BY <1>3, <2>1, <3>2, <4>1 DEF Revoking
      <4> QED BY <2>6, <4>1, <4>2
    <3> QED BY <3>1, <3>2
  <2>12. HasFlags(h)'
    BY <2>9, <2>10, <2>11 DEF HasFlags
  <2> QED BY <2>4, <2>12
<1> QED BY <1>1, <1>3, <1>4 DEF FlagInv, FlagTypes

\* A scan that closes no flag: the others keep theirs.
LEMMA ScanKeeps ==
    ASSUME FlagInv, NEW s \in Scans, NEW k \in Scan, scan' = [scan EXCEPT ![s] = k],
           k.pc # "revoking", UNCHANGED <<flags, revocations, seen>>
    PROVE  FlagInv'
<1>1. FlagTypes /\ scan \in [Scans -> Scan]
  BY DEF FlagInv, FlagTypes
<1>2. /\ scan' \in [Scans -> Scan] /\ \A u \in Scans \ {s} : scan'[u] = scan[u]
      /\ Revoking' = Revoking \ {s}
  BY <1>1 DEF Revoking
<1>3. ASSUME "cut" \notin seen
      PROVE  Cardinality(Resolved') = revocations' /\ \E f : HasFlags(f)'
  <2>1. Cardinality(Resolved) = revocations /\ \E f : HasFlags(f)
    BY <1>3 DEF FlagInv
  <2>2. PICK f : HasFlags(f)
    BY <2>1
  <2>3. PICK h : h = [u \in Revoking \ {s} |-> f[u]]
    OBVIOUS
  <2>4. HasFlags(h)'
    BY <1>2, <2>2, <2>3 DEF HasFlags, Revoking
  <2>5. Resolved' = Resolved
    BY DEF Resolved
  <2> QED BY <2>1, <2>4, <2>5
<1> QED BY <1>1, <1>2, <1>3 DEF FlagInv, FlagTypes

\* Closing a flag: the newest open one of the wallet, which there is.
LEMMA ResolveKeeps ==
    ASSUME FlagInv, NEW s \in Scans, NEW k \in Scan, scan' = [scan EXCEPT ![s] = k],
           scan[s].pc = "revoking", k.pc = "scanning", NEW w \in scan[s].wallet,
           C!resolveFlag(w), seen' = seen
    PROVE  FlagInv'
<1>1. /\ flags' = [n \in DOMAIN flags |-> [flags[n] EXCEPT !.resolved = @ \/ n \in C!Open(w)]]
      /\ revocations' = IF "cut" \in seen THEN 0 ELSE revocations + 1
  BY DEF C!resolveFlag
<1>2. /\ FlagTypes /\ scan \in [Scans -> Scan] /\ Len(flags) \in Nat /\ flags \in [1..Len(flags) -> Flag]
      /\ DOMAIN flags = 1..Len(flags) /\ revocations \in Nat
  BY LenProperties DEF FlagInv, FlagTypes
<1>3. /\ scan' \in [Scans -> Scan] /\ \A u \in Scans \ {s} : scan'[u] = scan[u]
      /\ s \in Revoking /\ Revoking' = Revoking \ {s}
  BY <1>2 DEF Revoking
<1>4. /\ flags' \in Seq(Flag) /\ Len(flags') = Len(flags)
      /\ \A n \in 1..Len(flags) : /\ flags'[n].wallet = flags[n].wallet
                                  /\ flags'[n].resolved <=> (flags[n].resolved \/ n \in C!Open(w))
  <2>1. PICK O0 : O0 = C!Open(w)
    OBVIOUS
  <2>2. \A n \in 1..Len(flags) : [flags[n] EXCEPT !.resolved = @ \/ n \in O0] \in Flag
    BY <1>2 DEF Flag
  <2>3. flags' \in [1..Len(flags) -> Flag]
    BY <1>1, <1>2, <2>1, <2>2
  <2>4. flags' \in Seq(Flag) /\ Len(flags') = Len(flags)
    BY <1>2, <2>3
  <2>5. ASSUME NEW n \in 1..Len(flags)
        PROVE  /\ flags'[n].wallet = flags[n].wallet
               /\ flags'[n].resolved <=> (flags[n].resolved \/ n \in O0)
    <3>1. flags'[n] = [flags[n] EXCEPT !.resolved = @ \/ n \in O0] /\ flags[n] \in Flag
      BY <1>1, <1>2, <2>1
    <3> QED BY <3>1 DEF Flag
  <2> QED BY <2>1, <2>4, <2>5
<1>5. revocations' \in Nat
  BY <1>1, <1>2
<1>6. ASSUME "cut" \notin seen
      PROVE  Cardinality(Resolved') = revocations' /\ \E f : HasFlags(f)'
  <2>1. Cardinality(Resolved) = revocations /\ \E f : HasFlags(f)
    BY <1>6 DEF FlagInv
  <2>2. PICK f : HasFlags(f)
    BY <2>1
  <2>3. /\ f \in [Revoking -> 1..Len(flags)]
        /\ \A a, u \in Revoking : f[a] = f[u] => a = u
        /\ \A u \in Revoking : ~flags[f[u]].resolved /\ scan[u].wallet = {flags[f[u]].wallet}
    BY <2>2 DEF HasFlags
  <2> DEFINE U == {n \in 1..Len(flags) : flags[n].wallet = w /\ ~flags[n].resolved}
  <2>4. f[s] \in U
    BY <1>3, <2>3
  <2>5. U \subseteq Nat
    BY <1>2
  <2>6. PICK j \in U : \A n \in U : j <= n
    BY <2>4, <2>5, LeastNumber
  <2>7. C!Open(w) = {j}
    <3>1. j \in 1..Len(flags) /\ flags[j].wallet = w /\ ~flags[j].resolved
      BY <2>6
    <3>2. \A n \in 1..(j - 1) : flags[n].wallet = w => flags[n].resolved
      <4> SUFFICES ASSUME NEW n \in 1..(j - 1), flags[n].wallet = w, ~flags[n].resolved PROVE FALSE
        OBVIOUS
      <4>1. n \in 1..Len(flags) /\ ~(j <= n)
        BY <1>2, <3>1
      <4> QED BY <2>6, <4>1
    <3>3. ASSUME NEW n \in 1..Len(flags), flags[n].wallet = w, ~flags[n].resolved,
                 \A i \in 1..(n - 1) : flags[i].wallet = w => flags[i].resolved
          PROVE  n = j
      <4>1. j <= n
        BY <2>6, <3>3
      <4>2. CASE j < n
        <5>1. j \in 1..(n - 1)
          BY <1>2, <3>1, <4>2
        <5> QED BY <3>1, <3>3, <5>1
      <4> QED BY <1>2, <3>1, <4>1, <4>2
    <3> QED BY <1>2, <3>1, <3>2, <3>3 DEF C!Open
  <2>8. j \in 1..Len(flags) /\ flags[j].wallet = w /\ ~flags[j].resolved
    BY <2>6
  <2> HIDE DEF U
  <2>9. Resolved' = Resolved \cup {j} /\ j \notin Resolved
    BY <1>4, <2>7, <2>8 DEF Resolved
  <2>10. Cardinality(Resolved') = revocations'
    <3>1. IsFiniteSet(Resolved)
      BY <1>2, FiniteResolved
    <3> QED BY <1>1, <1>6, <2>1, <2>9, <3>1, FS_AddElement
  <2> DEFINE g == [u \in Revoking' |-> IF f[u] = j THEN f[s] ELSE f[u]]
  <2>11. PICK h : h = g
    OBVIOUS
  <2>12. \A u \in Revoking' : /\ u \in Revoking /\ u # s /\ f[u] # f[s]
                              /\ h[u] = IF f[u] = j THEN f[s] ELSE f[u]
    BY <1>3, <2>3, <2>11
  <2>13. h \in [Revoking' -> 1..Len(flags')]
    BY <1>3, <1>4, <2>3, <2>11
  <2> HIDE DEF g
  <2>14. \A a, u \in Revoking' : h[a] = h[u] => a = u
    BY <1>3, <2>3, <2>12
  <2>15. ASSUME NEW u \in Revoking'
         PROVE  ~flags'[h[u]].resolved /\ scan'[u].wallet = {flags'[h[u]].wallet}
    <3>1. u \in Revoking /\ u # s /\ f[u] # f[s] /\ scan'[u] = scan[u]
      BY <1>3, <2>12 DEF Revoking
    <3>2. scan[s].wallet = {w} /\ flags[f[s]].wallet = w
      BY <1>3, <2>3
    <3>3. CASE f[u] = j
      <4>1. h[u] = f[s] /\ f[s] # j /\ f[s] \in 1..Len(flags) /\ ~flags[f[s]].resolved
        BY <1>3, <2>3, <2>12, <3>1, <3>3
      <4>2. scan[u].wallet = {w}
        BY <2>3, <2>8, <3>1, <3>3
      <4> QED BY <1>4, <2>7, <3>1, <3>2, <4>1, <4>2
    <3>4. CASE f[u] # j
      <4>1. h[u] = f[u] /\ f[u] \in 1..Len(flags) /\ ~flags[f[u]].resolved
            /\ scan[u].wallet = {flags[f[u]].wallet}
        BY <2>3, <2>12, <3>1, <3>4
      <4> QED BY <1>4, <2>7, <3>1, <3>4, <4>1
    <3> QED BY <3>3, <3>4
  <2>16. HasFlags(h)'
    BY <2>13, <2>14, <2>15 DEF HasFlags
  <2> QED BY <2>10, <2>16
<1> QED BY <1>3, <1>4, <1>5, <1>6 DEF FlagInv, FlagTypes

\* A step that touches neither the flags nor the scans.
LEMMA RestKeeps ==
    ASSUME FlagInv, UNCHANGED <<scan, flags, revocations>>, seen \subseteq seen'
    PROVE  FlagInv'
<1>1. FlagTypes' /\ Revoking' = Revoking /\ Resolved' = Resolved
  BY DEF FlagInv, FlagTypes, Revoking, Resolved
<1>2. \A f : HasFlags(f) => HasFlags(f)'
  BY <1>1 DEF HasFlags
<1>3. ASSUME "cut" \notin seen'
      PROVE  Cardinality(Resolved') = revocations' /\ \E f : HasFlags(f)'
  <2>1. "cut" \notin seen
    BY <1>3
  <2> QED BY <1>1, <1>2, <1>3, <2>1 DEF FlagInv
<1> QED BY <1>1, <1>3 DEF FlagInv

\* What a scan is in its next step, of what it is.
LEMMA ScanShape ==
    ASSUME C!ConstantsAssumption, FlagTypes, NEW s \in Scans
    PROVE  /\ C!None \in Scan /\ C!None.pc = "none"
           /\ [pc |-> "scanning", todo |-> C!ToDo, wallet |-> {}] \in Scan
           /\ scan[s] \in Scan
           /\ \A h \in scan[s].todo : /\ h.wallet \in Wallets
                                      /\ [scan[s] EXCEPT !.todo = @ \ {h}] \in Scan
                                      /\ [scan[s] EXCEPT !.todo = @ \ {h}].pc = scan[s].pc
                                      /\ [pc |-> "revoking", todo |-> scan[s].todo \ {h},
                                          wallet |-> {h.wallet}] \in Scan
           /\ scan[s].pc = "revoking" => [scan[s] EXCEPT !.pc = "scanning", !.wallet = {}] \in Scan
<1>1. scan[s] \in Scan
  BY DEF FlagTypes
<1>2. C!None \in Scan /\ C!None.pc = "none"
  BY DEF C!None, Scan
<1>3. C!ToDo \subseteq Stop
  BY DEF C!ToDo, Stop
<1>4. [pc |-> "scanning", todo |-> C!ToDo, wallet |-> {}] \in Scan
  BY <1>3 DEF Scan
<1>5. scan[s].todo \subseteq Stop
  BY <1>1 DEF Scan
<1>6. ASSUME NEW h \in scan[s].todo
      PROVE  /\ h.wallet \in Wallets
             /\ [scan[s] EXCEPT !.todo = @ \ {h}] \in Scan
             /\ [scan[s] EXCEPT !.todo = @ \ {h}].pc = scan[s].pc
             /\ [pc |-> "revoking", todo |-> scan[s].todo \ {h}, wallet |-> {h.wallet}] \in Scan
  <2>1. h \in Stop
    BY <1>5
  <2>2. h.wallet \in Wallets
    BY <2>1 DEF Stop
  <2>3. /\ [scan[s] EXCEPT !.todo = @ \ {h}] \in Scan
        /\ [scan[s] EXCEPT !.todo = @ \ {h}].pc = scan[s].pc
    BY <1>1 DEF Scan
  <2>4. [pc |-> "revoking", todo |-> scan[s].todo \ {h}, wallet |-> {h.wallet}] \in Scan
    BY <1>5, <2>2 DEF Scan
  <2> QED BY <2>2, <2>3, <2>4
<1>7. [scan[s] EXCEPT !.pc = "scanning", !.wallet = {}] \in Scan
  BY <1>1 DEF Scan
<1> QED BY <1>1, <1>2, <1>4, <1>6, <1>7

\* The beginning of a scan.
LEMMA TickKeeps ==
    ASSUME C!ConstantsAssumption, FlagInv, NEW s \in Scans, C!complianceTick(s),
           UNCHANGED <<flags, revocations, seen>>
    PROVE  FlagInv'
<1>1. scan' = [scan EXCEPT ![s] = [pc |-> "scanning", todo |-> C!ToDo, wallet |-> {}]]
  BY DEF C!complianceTick
<1>2. [pc |-> "scanning", todo |-> C!ToDo, wallet |-> {}] \in Scan
  BY ScanShape DEF FlagInv
<1>3. PICK k : k = [pc |-> "scanning", todo |-> C!ToDo, wallet |-> {}]
  OBVIOUS
<1>4. k \in Scan /\ scan' = [scan EXCEPT ![s] = k] /\ k.pc # "revoking"
  BY <1>1, <1>2, <1>3
<1> QED BY <1>4, ScanKeeps

\* A step of one scan.
LEMMA ScanSteps ==
    ASSUME C!ConstantsAssumption, FlagInv, NEW s \in Scans, C!Step(s) \/ C!RevokeFails(s)
    PROVE  FlagInv'
<1>1. FlagTypes /\ scan[s] \in Scan /\ s \in DOMAIN scan
  BY DEF FlagInv, FlagTypes
<1>2. PICK c : c = scan[s]
  OBVIOUS
<1>3. CASE C!FlagMissing(s)
  <2>1. PICK h \in c.todo : /\ c.pc = "scanning" /\ C!addFlag(h.wallet)
                            /\ scan' = [scan EXCEPT ![s].todo = @ \ {h}]
    BY <1>2, <1>3 DEF C!FlagMissing
  <2>2. PICK k : k = [c EXCEPT !.todo = @ \ {h}]
    OBVIOUS
  <2>3. h.wallet \in Wallets /\ k \in Scan /\ k.pc = "scanning"
    BY <1>1, <1>2, <2>1, <2>2, ScanShape
  <2>4. scan' = [scan EXCEPT ![s] = k]
    BY <1>1, <1>2, <2>1, <2>2
  <2>5. k.pc = "revoking" => k.wallet = {h.wallet}
    BY <2>3
  <2> QED BY <1>2, <2>1, <2>3, <2>4, <2>5, AddedKeeps
<1>4. CASE C!FlagExpired(s)
  <2>1. PICK h \in c.todo : /\ c.pc = "scanning" /\ C!addFlag(h.wallet)
                            /\ scan' = [scan EXCEPT ![s] = [pc |-> "revoking", todo |-> @.todo \ {h},
                                                            wallet |-> {h.wallet}]]
    BY <1>2, <1>4 DEF C!FlagExpired
  <2>2. PICK k : k = [pc |-> "revoking", todo |-> c.todo \ {h}, wallet |-> {h.wallet}]
    OBVIOUS
  <2>3. h.wallet \in Wallets /\ k \in Scan /\ k.wallet = {h.wallet}
    BY <1>1, <1>2, <2>1, <2>2, ScanShape
  <2>4. scan' = [scan EXCEPT ![s] = k]
    BY <1>1, <1>2, <2>1, <2>2
  <2> QED BY <1>2, <2>1, <2>3, <2>4, AddedKeeps
<1>5. CASE C!revokeKyc(s)
  <2>1. PICK w \in scan[s].wallet : /\ c.pc = "revoking" /\ C!resolveFlag(w)
                              /\ scan' = [scan EXCEPT ![s].pc = "scanning", ![s].wallet = {}]
                              /\ seen' = seen
    BY <1>2, <1>5 DEF C!revokeKyc
  <2>2. PICK k : k = [c EXCEPT !.pc = "scanning", !.wallet = {}]
    OBVIOUS
  <2>3. k \in Scan /\ k.pc = "scanning"
    <3>1. k \in Scan
      BY <1>1, <1>2, <2>1, <2>2, ScanShape
    <3> QED BY <1>1, <1>2, <2>2, <3>1 DEF Scan
  <2>4. scan' = [scan EXCEPT ![s] = k]
    BY <1>1, <1>2, <2>1, <2>2
  <2> QED BY <1>2, <2>1, <2>3, <2>4, ResolveKeeps
<1>6. CASE C!ScanEnds(s)
  <2>1. scan' = [scan EXCEPT ![s] = C!None] /\ UNCHANGED <<flags, revocations, seen>>
    BY <1>6 DEF C!ScanEnds
  <2>2. C!None \in Scan /\ C!None.pc # "revoking"
    BY <1>1, ScanShape
  <2> QED BY <2>1, <2>2, ScanKeeps
<1>7. CASE C!RevokeFails(s)
  <2>1. /\ c.pc = "revoking" /\ UNCHANGED <<flags, revocations, seen>>
        /\ scan' = [scan EXCEPT ![s].pc = "scanning", ![s].wallet = {}]
    BY <1>2, <1>7 DEF C!RevokeFails
  <2>2. PICK k : k = [c EXCEPT !.pc = "scanning", !.wallet = {}]
    OBVIOUS
  <2>3. k \in Scan /\ k.pc # "revoking"
    <3>1. k \in Scan
      BY <1>1, <1>2, <2>1, <2>2, ScanShape
    <3> QED BY <1>1, <1>2, <2>2, <3>1 DEF Scan
  <2>4. scan' = [scan EXCEPT ![s] = k]
    BY <1>1, <1>2, <2>1, <2>2
  <2> QED BY <2>1, <2>3, <2>4, ScanKeeps
<1> QED BY <1>3, <1>4, <1>5, <1>6, <1>7 DEF C!Step

\* The agent keeps its flags, whatever happens.
LEMMA AgentKeepsFlags ==
    ASSUME C!ConstantsAssumption, FlagInv, [C!Next]_C!vars
    PROVE  FlagInv'
<1>1. ASSUME NEW s \in Scans, C!TimerTick(s) \/ C!ScanNow(s) \/ C!startComplianceAgent(s)
      PROVE  FlagInv'
  <2>1. C!complianceTick(s) /\ UNCHANGED <<flags, revocations, seen>>
    BY <1>1 DEF C!TimerTick, C!ScanNow, C!startComplianceAgent
  <2> QED BY <2>1, TickKeeps
<1>2. ASSUME NEW s \in Scans, C!Step(s) \/ C!RevokeFails(s) PROVE FlagInv'
  BY <1>2, ScanSteps
<1>3. CASE C!stopComplianceAgent
  BY <1>3, RestKeeps DEF C!stopComplianceAgent
<1>4. ASSUME NEW w \in Wallets, C!ExecuteRevocation(w) \/ C!Whitelist(w) PROVE FlagInv'
  BY <1>4, RestKeeps DEF C!ExecuteRevocation, C!Whitelist
<1>5. ASSUME NEW id \in Ids, C!Expire(id) \/ C!Attest(id) PROVE FlagInv'
  <2>1. UNCHANGED <<scan, flags, revocations>> /\ seen \subseteq seen'
    BY <1>5 DEF C!Expire, C!Attest
  <2> QED BY <2>1, RestKeeps
<1>6. CASE UNCHANGED C!vars
  BY <1>6, RestKeeps DEF C!vars
<1> QED BY <1>1, <1>2, <1>3, <1>4, <1>5, <1>6 DEF C!Next

\* Every revocation closes a flag: as long as no flag has left the list, as many flags
\* are closed as the agent has counted revocations, whosever flag a scan closes
\* (revokeKyc, addFlag and resolveFlag of compliance-agent.ts).
THEOREM RevocationsRecorded ==
    ASSUME C!ConstantsAssumption
    PROVE  C!Spec => []RevocationsAreRecorded
<1>1. C!Init => FlagInv
  <2> SUFFICES ASSUME C!Init PROVE FlagInv
    OBVIOUS
  <2>1. flags = <<>> /\ revocations = 0 /\ scan = [s \in Scans |-> C!None]
    BY DEF C!Init
  <2>2. C!None \in Scan /\ C!None.pc = "none"
    BY DEF C!None, Scan
  <2>3. FlagTypes
    BY <2>1, <2>2 DEF FlagTypes
  <2>4. Resolved = {} /\ Cardinality({}) = 0
    BY <2>1, FS_EmptySet DEF Resolved
  <2>5. Revoking = {}
    BY <2>1, <2>2 DEF Revoking
  <2>6. PICK f : f = [s \in Revoking |-> 1]
    OBVIOUS
  <2>7. HasFlags(f)
    BY <2>5, <2>6 DEF HasFlags
  <2> QED BY <2>1, <2>3, <2>4, <2>7 DEF FlagInv
<1>2. FlagInv /\ [C!Next]_C!vars => FlagInv'
  BY AgentKeepsFlags
<1>3. FlagInv => RevocationsAreRecorded
  <2> SUFFICES ASSUME FlagInv, "cut" \notin seen
               PROVE  Cardinality({n \in DOMAIN flags : flags[n].resolved}) = revocations
    BY DEF RevocationsAreRecorded, C!RevocationsAreRecorded, C!Cardinality, Cardinality
  <2>1. DOMAIN flags = 1..Len(flags)
    BY LenProperties DEF FlagInv, FlagTypes
  <2>2. Resolved = {n \in DOMAIN flags : flags[n].resolved}
    BY <2>1 DEF Resolved
  <2>3. Cardinality(Resolved) = revocations
    BY DEF FlagInv
  <2> QED BY <2>2, <2>3
<1> QED BY <1>1, <1>2, <1>3, PTL DEF C!Spec
=============================================================================
