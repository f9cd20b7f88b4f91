-------------------------- MODULE GovernanceProofs ---------------------------
(***************************************************************************)
(* Proofs about the governance contract, for any number of accounts and    *)
(* proposals, any weights and any width of the machine word.               *)
(***************************************************************************)
EXTENDS Governance, Sums

\* The word that the tallies wrap in.
Word == 0..(U64 - 1)

\* The sum of two u64 is a u64.
LEMMA PlusIsWord == \A m, n \in Nat : Plus64(m, n) \in Word
BY U64Assumption DEF Plus64, Word

\* An id without votes is below the quorum.
LEMMA QuorumIsPositive == Plus64(0, 0) < QuorumBps
BY U64Assumption DEF Plus64, QuorumBps

(***************************************************************************)
(* Type correctness.                                                       *)
(***************************************************************************)
LEMMA AddIsTally ==
    ASSUME NEW tally \in [Ids -> Word], NEW p, NEW a, weights[a] \in Nat
    PROVE  Add(tally, p, a) \in [Ids -> Word]
<1>1. Word \subseteq Nat
  BY U64Assumption DEF Word
<1>2. \A n \in Word : Plus64(n, weights[a]) \in Word
  BY <1>1, PlusIsWord
<1> QED
  BY <1>2 DEF Add

\* Every call keeps the types of the cells.
LEMMA TypeStep == TypeOK /\ [Next]_vars => TypeOK'
<1> SUFFICES ASSUME TypeOK, [Next]_vars PROVE TypeOK'
  OBVIOUS
<1> USE BoundsAssumption DEF TypeOK
<1>1. ASSUME NEW c \in Accounts, NEW d \in Deadlines, CreateProposal(c, d)
      PROVE  TypeOK'
  <2>1. d \in Nat /\ count' \in 0..MaxProposals
    BY <1>1, DeadlinesAssumption DEF CreateProposal
  <2>2. deadline' \in [Ids -> Nat]
    BY <1>1, <2>1 DEF CreateProposal
  <2> QED
    BY <1>1, <2>1, <2>2 DEF CreateProposal
<1>2. ASSUME NEW a \in Accounts, NEW p \in Ids, NEW choice \in Choices, Vote(a, p, choice)
      PROVE  TypeOK'
  <2>1. weights[a] \in Nat /\ choice \in 0..256
    BY ChoicesAssumption, U64Assumption
  <2>2. /\ votesFor' \in [Ids -> Word]
        /\ votesAgainst' \in [Ids -> Word]
        /\ votesAbstain' \in [Ids -> Word]
    <3>1. /\ votesFor \in [Ids -> Word]
          /\ votesAgainst \in [Ids -> Word]
          /\ votesAbstain \in [Ids -> Word]
      BY DEF Word
    <3>2. /\ Add(votesFor, p, a) \in [Ids -> Word]
          /\ Add(votesAgainst, p, a) \in [Ids -> Word]
          /\ Add(votesAbstain, p, a) \in [Ids -> Word]
      BY <2>1, <3>1, AddIsTally
    <3> QED
      BY <1>2, <3>1, <3>2 DEF Vote
  <2>3. voted' \in [Ids -> [Accounts -> 0..256]] /\ cast' \in [Ids -> [Accounts -> Nat]]
    BY <1>2, <2>1 DEF Vote
  <2> QED
    BY <1>2, <2>2, <2>3 DEF Vote, Word
<1>3. ASSUME NEW c \in Accounts, NEW p \in Ids, Execute(c, p)
      PROVE  TypeOK'
  BY <1>3 DEF Execute
<1>4. ASSUME NEW c \in Accounts, NEW a \in Accounts, NEW w \in Weights, SetVotingWeight(c, a, w)
      PROVE  TypeOK'
  BY <1>4, WeightsAssumption DEF SetVotingWeight
<1>5. CASE Tick
  BY <1>5 DEF Tick
<1>6. CASE UNCHANGED vars
  BY <1>6 DEF vars
<1> QED
  BY <1>1, <1>2, <1>3, <1>4, <1>5, <1>6 DEF Next

\* The types hold when the contract is installed.
LEMMA InitType == Init => TypeOK
BY U64Assumption, BoundsAssumption DEF Init, TypeOK, NoVote

\* The contract's cells keep their types, and the tallies stay machine words.
THEOREM TypeCorrect == Spec => []TypeOK
BY InitType, TypeStep, PTL DEF Spec

(***************************************************************************)
(* Only proposals that exist are executed.  ExecutedExist is not inductive *)
(* by itself: that an id with a quorum was handed out follows from the     *)
(* tallies of the other ids being 0.                                       *)
(***************************************************************************)
NoEarlyVotes == \A p \in Ids \ Proposals : votesFor[p] = 0 /\ votesAgainst[p] = 0

ExistInv == NoEarlyVotes /\ ExecutedExist

\* Every call keeps it that ids not handed out have no votes.
LEMMA ExistStep == TypeOK /\ ExistInv /\ [Next]_vars => ExistInv'
<1> SUFFICES ASSUME TypeOK, NoEarlyVotes, ExecutedExist, [Next]_vars
             PROVE  NoEarlyVotes' /\ ExecutedExist'
  BY DEF ExistInv
<1>0. Proposals \subseteq Proposals'
  BY BoundsAssumption
     DEF Next, CreateProposal, Vote, Execute, SetVotingWeight, Tick, vars,
         Proposals, TypeOK
<1>1. ASSUME NEW a \in Accounts, NEW p \in Ids, NEW choice \in Choices, Vote(a, p, choice)
      PROVE  NoEarlyVotes' /\ ExecutedExist'
  BY <1>0, <1>1 DEF Vote, Exists, Add, NoEarlyVotes, ExecutedExist, Proposals, TypeOK
<1>2. ASSUME NEW c \in Accounts, NEW p \in Ids, Execute(c, p)
      PROVE  NoEarlyVotes' /\ ExecutedExist'
  <2>1. p \in Proposals
    <3>1. ~(votesFor[p] = 0 /\ votesAgainst[p] = 0)
      <4>1. Participation(p) >= QuorumBps /\ Participation(p) \in Nat
        BY <1>2, PlusIsWord DEF Execute, Participation, TypeOK, Plus64, Word
      <4> QED
        BY <4>1, QuorumIsPositive, U64Assumption DEF Participation, QuorumBps, Plus64
    <3> QED
      BY <3>1 DEF NoEarlyVotes
  <2> QED
    BY <1>0, <1>2, <2>1 DEF Execute, NoEarlyVotes, ExecutedExist, Proposals
<1>3. ASSUME UNCHANGED <<votesFor, votesAgainst, executed>>
      PROVE  NoEarlyVotes' /\ ExecutedExist'
  BY <1>0, <1>3 DEF NoEarlyVotes, ExecutedExist, Ids
<1> QED
  BY <1>1, <1>2, <1>3
     DEF Next, CreateProposal, SetVotingWeight, Tick, vars

\* Whatever id the admin passes to execute, a proposal with that id exists when
\* the call succeeds.
THEOREM ExecutionIsOfProposals == Spec => []ExecutedExist
<1>1. Init => ExistInv
  BY DEF Init, ExistInv, NoEarlyVotes, ExecutedExist
<1>2. ExistInv => ExecutedExist
  BY DEF ExistInv
<1> QED
  BY <1>1, <1>2, InitType, TypeStep, ExistStep, PTL DEF Spec

(***************************************************************************)
(* Votes are final.                                                        *)
(***************************************************************************)
Tallies == <<votesFor, votesAgainst, votesAbstain>>

\* The votes of p stay, and its tallies change only with a vote that is in time.
FinalFor(p) ==
    /\ \A a \in Accounts : voted[p][a] # NoVote => voted'[p][a] = voted[p][a]
    /\ \/ Tallies' = Tallies
       \/ voted'[p] # voted[p] /\ clock <= deadline[p]
       \/ <<votesFor[p], votesAgainst[p], votesAbstain[p]>>'
              = <<votesFor[p], votesAgainst[p], votesAbstain[p]>>

\* No call changes a recorded vote, and none but a first vote that arrives
\* before the deadline changes a tally.
THEOREM VotesStay == Spec => VotesAreFinal
<1>1. ASSUME TypeOK, [Next]_vars, NEW p \in Ids PROVE FinalFor(p)
  <2>1. ASSUME NEW b \in Accounts, NEW q \in Ids, NEW choice \in Choices, Vote(b, q, choice)
        PROVE  FinalFor(p)
    <3>1. /\ voted' = [voted EXCEPT ![q] = [@ EXCEPT ![b] = choice]]
          /\ voted[q][b] = NoVote /\ clock <= deadline[q]
          /\ choice # NoVote
      BY <2>1, ChoicesAssumption DEF Vote, HasVoted, NoVote
    <3>2. \A a \in Accounts : voted[p][a] # NoVote => voted'[p][a] = voted[p][a]
      BY <1>1, <3>1 DEF TypeOK
    <3>3. CASE p = q
      <4>1. voted'[p][b] = choice
        BY <1>1, <3>1, <3>3 DEF TypeOK
      <4>2. voted'[p] # voted[p]
        BY <3>1, <3>3, <4>1
      <4> QED
        BY <3>1, <3>2, <3>3, <4>2 DEF FinalFor
    <3>4. CASE p # q
      <4>1. /\ votesFor'[p] = votesFor[p]
            /\ votesAgainst'[p] = votesAgainst[p]
            /\ votesAbstain'[p] = votesAbstain[p]
        BY <1>1, <2>1, <3>4 DEF Vote, Add, TypeOK
      <4> QED
        BY <3>2, <4>1 DEF FinalFor
    <3> QED
      BY <3>3, <3>4
  <2>2. ASSUME UNCHANGED <<voted, votesFor, votesAgainst, votesAbstain>>
        PROVE  FinalFor(p)
    BY <2>2 DEF FinalFor, Tallies
  <2> QED
    BY <1>1, <2>1, <2>2
       DEF Next, CreateProposal, Execute, SetVotingWeight, Tick, vars
<1>2. TypeOK /\ [Next]_vars =>
         [\A p \in Ids :
             /\ \A a \in Accounts : voted[p][a] # NoVote => voted'[p][a] = voted[p][a]
             /\ \/ <<votesFor, votesAgainst, votesAbstain>>'
                       = <<votesFor, votesAgainst, votesAbstain>>
                \/ voted'[p] # voted[p] /\ clock <= deadline[p]
                \/ <<votesFor[p], votesAgainst[p], votesAbstain[p]>>'
                       = <<votesFor[p], votesAgainst[p], votesAbstain[p]>>]_vars
  BY <1>1 DEF FinalFor, Tallies
<1> QED
  BY <1>2, TypeCorrect, PTL DEF Spec, VotesAreFinal

(***************************************************************************)
(* The tallies are the sums of the votes, in the arithmetic of the word:   *)
(* reducing a sum before adding to it does not change the reduced result.  *)
(***************************************************************************)
\* A sum may be reduced before the next addition.
LEMMA ReduceEarly ==
    ASSUME NEW s \in Nat, NEW w \in Nat
    PROVE  Plus64(s % U64, w) = (s + w) % U64
<1> DEFINE q == s \div U64
           r == s % U64
           d == (r + w) \div U64
           m == (r + w) % U64
<1>1. U64 \in Nat \ {0}
  BY U64Assumption
<1>2. q \in Int /\ r \in 0..(U64 - 1) /\ s = U64 * q + r
  BY <1>1
<1>3. d \in Int /\ m \in 0..(U64 - 1) /\ r + w = U64 * d + m
  BY <1>1, <1>2
<1>4. s + w = U64 * (q + d) + m
  <2>1. U64 * (q + d) = U64 * q + U64 * d
    BY <1>1, <1>2, <1>3
  <2> QED
    BY <1>1, <1>2, <1>3, <2>1
<1>5. (U64 * (q + d) + m) % U64 = m
  <2>1. q + d \in Int /\ m \in 0..(U64 - 1)
    BY <1>2, <1>3
  <2> HIDE DEF q, d, m
  <2> QED
    BY <1>1, <2>1, RemainderUnique
<1> QED
  BY <1>4, <1>5 DEF Plus64

\* The weight behind one side of a proposal, before it is reduced to a word.
Weight(p, side) == SumFunctionOnSet(cast[p], VotersOf(p, side))

\* The voters of a side are finitely many, and their weights add up.
LEMMA WeightIsNat ==
    ASSUME TypeOK, NEW p \in Ids, NEW side
    PROVE  /\ VotersOf(p, side) \subseteq Accounts /\ IsFiniteSet(VotersOf(p, side))
           /\ \A a \in Accounts : cast[p][a] \in Nat
           /\ Weight(p, side) \in Nat
<1>1. VotersOf(p, side) \subseteq Accounts /\ IsFiniteSet(VotersOf(p, side))
  BY AccountsAssumption, FS_Subset DEF VotersOf
<1>2. \A a \in Accounts : cast[p][a] \in Nat
  BY DEF TypeOK
<1>3. \A a \in VotersOf(p, side) : cast[p][a] \in Int /\ cast[p][a] >= 0
  BY <1>1, <1>2
<1>4. Weight(p, side) \in Int /\ Weight(p, side) >= 0
  BY <1>1, <1>3, SumType DEF Weight
<1> QED
  BY <1>1, <1>2, <1>4

\* A first vote adds its weight to the side it counts for, and to no other.
LEMMA WeightAfterVote ==
    ASSUME TypeOK, NEW a \in Accounts, NEW p \in Ids, NEW choice \in Choices,
           Vote(a, p, choice), NEW q \in Ids, NEW side
    PROVE  Weight(q, side)' = IF q = p /\ Counted(choice) = side
                                 THEN Weight(q, side) + weights[a]
                                 ELSE Weight(q, side)
<1>1. /\ voted' = [voted EXCEPT ![p] = [@ EXCEPT ![a] = choice]]
      /\ cast' = [cast EXCEPT ![p] = [@ EXCEPT ![a] = weights[a]]]
      /\ voted[p][a] = NoVote /\ choice # NoVote
      /\ weights[a] \in Nat
  BY ChoicesAssumption, U64Assumption DEF Vote, HasVoted, NoVote, TypeOK
<1>2. /\ \A b \in Accounts : q # p \/ b # a => /\ voted'[q][b] = voted[q][b]
                                               /\ cast'[q][b] = cast[q][b]
      /\ voted'[p][a] = choice /\ cast'[p][a] = weights[a]
  BY <1>1 DEF TypeOK
<1>3. /\ IsFiniteSet(VotersOf(q, side)) /\ VotersOf(q, side) \subseteq Accounts
      /\ \A b \in Accounts : cast[q][b] \in Nat
      /\ Weight(q, side) \in Nat
  BY WeightIsNat
<1>4. q = p => a \notin VotersOf(q, side)
  BY <1>1 DEF VotersOf
<1>5. \A b \in VotersOf(q, side) : cast'[q][b] = cast[q][b]
  BY <1>2, <1>3, <1>4
<1>6. SumFunctionOnSet(cast'[q], VotersOf(q, side)) = Weight(q, side)
  BY <1>3, <1>5, SumOfSame DEF Weight
<1>7. CASE q = p /\ Counted(choice) = side
  <2>1. VotersOf(q, side)' = VotersOf(q, side) \cup {a}
    BY <1>1, <1>2, <1>7 DEF VotersOf
  <2>2. \A b \in VotersOf(q, side) \cup {a} : cast'[q][b] \in Int
    BY <1>1, <1>2, <1>3, <1>5, <1>7
  <2>3. SumFunctionOnSet(cast'[q], VotersOf(q, side) \cup {a})
          = cast'[q][a] + SumFunctionOnSet(cast'[q], VotersOf(q, side))
    BY <1>3, <1>4, <1>7, <2>2, SumOfOneMore
  <2> QED
    BY <1>1, <1>2, <1>3, <1>6, <1>7, <2>1, <2>3 DEF Weight
<1>8. CASE ~(q = p /\ Counted(choice) = side)
  <2>1. VotersOf(q, side)' = VotersOf(q, side)
    BY <1>1, <1>2, <1>8 DEF VotersOf
  <2> QED
    BY <1>6, <1>8, <2>1 DEF Weight
<1> QED
  BY <1>7, <1>8

\* A tally that is right stays right: it is left alone, or gets what its side gets.
LEMMA TallyStep ==
    ASSUME TypeOK, NEW a \in Accounts, NEW p \in Ids, NEW choice \in Choices,
           Vote(a, p, choice), NEW q \in Ids, NEW side,
           NEW tally \in [Ids -> Word], tally[q] = Weight(q, side) % U64,
           NEW new, new = IF Counted(choice) = side THEN Add(tally, p, a) ELSE tally
    PROVE  new[q] = Weight(q, side)' % U64
<1>1. Weight(q, side) \in Nat /\ weights[a] \in Nat
  BY WeightIsNat, U64Assumption DEF TypeOK
<1>2. Plus64(Weight(q, side) % U64, weights[a]) = (Weight(q, side) + weights[a]) % U64
  BY <1>1, ReduceEarly
<1>3. CASE Counted(choice) = side /\ q = p
  <2>1. new[q] = Plus64(tally[q], weights[a])
    BY <1>3 DEF Add
  <2> QED
    BY <1>2, <1>3, <2>1, WeightAfterVote
<1>4. CASE ~(Counted(choice) = side /\ q = p)
  <2>1. new[q] = tally[q]
    BY <1>4 DEF Add
  <2> QED
    BY <1>4, <2>1, WeightAfterVote
<1> QED
  BY <1>3, <1>4

\* Every call keeps the three tallies equal to the reduced sums.
LEMMA TalliesStep == TypeOK /\ TalliesMatchVotes /\ [Next]_vars => TalliesMatchVotes'
<1> SUFFICES ASSUME TypeOK, TalliesMatchVotes, [Next]_vars, NEW q \in Ids
             PROVE  /\ votesFor'[q] = Weight(q, "for")' % U64
                    /\ votesAgainst'[q] = Weight(q, "against")' % U64
                    /\ votesAbstain'[q] = Weight(q, "abstain")' % U64
  BY DEF TalliesMatchVotes, Weight, Ids
<1>1. /\ votesFor[q] = Weight(q, "for") % U64
      /\ votesAgainst[q] = Weight(q, "against") % U64
      /\ votesAbstain[q] = Weight(q, "abstain") % U64
      /\ votesFor \in [Ids -> Word]
      /\ votesAgainst \in [Ids -> Word]
      /\ votesAbstain \in [Ids -> Word]
  BY DEF TalliesMatchVotes, Weight, TypeOK, Word
<1>2. ASSUME NEW a \in Accounts, NEW p \in Ids, NEW choice \in Choices, Vote(a, p, choice)
      PROVE  /\ votesFor'[q] = Weight(q, "for")' % U64
             /\ votesAgainst'[q] = Weight(q, "against")' % U64
             /\ votesAbstain'[q] = Weight(q, "abstain")' % U64
  <2>1. /\ votesFor' = IF Counted(choice) = "for" THEN Add(votesFor, p, a) ELSE votesFor
        /\ votesAgainst' = IF Counted(choice) = "against"
                              THEN Add(votesAgainst, p, a) ELSE votesAgainst
        /\ votesAbstain' = IF Counted(choice) = "abstain"
                              THEN Add(votesAbstain, p, a) ELSE votesAbstain
    BY <1>2 DEF Vote
  <2> QED
    BY <1>1, <1>2, <2>1, TallyStep
<1>3. CASE UNCHANGED <<votesFor, votesAgainst, votesAbstain, voted, cast>>
  BY <1>1, <1>3 DEF Weight, VotersOf
<1> QED
  BY <1>2, <1>3 DEF Next, CreateProposal, Execute, SetVotingWeight, Tick, vars

\* Each tally is the sum of the weights its voters had, modulo the word, for
\* any accounts, weights and choices.
THEOREM TalliesAreSums == Spec => []TalliesMatchVotes
<1>1. Init => TalliesMatchVotes
  <2> SUFFICES ASSUME Init, NEW p \in Ids
               PROVE  /\ votesFor[p] = Weight(p, "for") % U64
                      /\ votesAgainst[p] = Weight(p, "against") % U64
                      /\ votesAbstain[p] = Weight(p, "abstain") % U64
    BY DEF TalliesMatchVotes, Weight
  <2>1. \A side : VotersOf(p, side) = {}
    BY DEF Init, VotersOf
  <2>2. \A side : Weight(p, side) = 0
    BY <2>1, SumOfNone DEF Weight
  <2>3. 0 % U64 = 0
    BY U64Assumption
  <2> QED
    BY <2>2, <2>3 DEF Init
<1> QED
  BY <1>1, InitType, TypeStep, TalliesStep, PTL DEF Spec
=============================================================================
