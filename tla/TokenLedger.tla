---------------------------- MODULE TokenLedger -----------------------------
(***************************************************************************)
(* What the entry points of the RWA-NFT contract promise a reader: every   *)
(* token has at most one owner, balance_of is the number of tokens an      *)
(* account owns and total_supply the number of tokens there are.  Only the *)
(* owner map is state of its own; the two counts are determined by it.     *)
(***************************************************************************)
EXTENDS Naturals, FiniteSets

CONSTANTS Accounts, TokenIds, MaxSupply, NoAccount

VARIABLES owner, count, supply

lvars == <<owner, count, supply>>

CountsOf(o) == [a \in Accounts |-> Cardinality({t \in TokenIds : o[t] = a})]

SupplyOf(o) == Cardinality({t \in TokenIds : o[t] # NoAccount})

Reckon ==
    /\ count' = CountsOf(owner')
    /\ supply' = SupplyOf(owner')

Init ==
    /\ owner = [t \in TokenIds |-> NoAccount]
    /\ count = CountsOf(owner)
    /\ supply = SupplyOf(owner)

\* A token comes into being, below the cap.
Issue(t, a) ==
    /\ owner[t] = NoAccount
    /\ supply < MaxSupply
    /\ owner' = [owner EXCEPT ![t] = a]
    /\ Reckon

\* A live token changes hands.
Move(t, a) ==
    /\ owner[t] # NoAccount
    /\ owner' = [owner EXCEPT ![t] = a]
    /\ Reckon

\* A live token ceases to exist.
Retire(t) ==
    /\ owner[t] # NoAccount
    /\ owner' = [owner EXCEPT ![t] = NoAccount]
    /\ Reckon

Next ==
    \E t \in TokenIds :
        \/ \E a \in Accounts : Issue(t, a) \/ Move(t, a)
        \/ Retire(t)

Spec == Init /\ [][Next]_lvars
=============================================================================
