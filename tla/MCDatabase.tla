------------------------------ MODULE MCDatabase ------------------------------
(***************************************************************************)
(* Small instances of the three parts of the database.  A behaviour is one *)
(* of a single part, and the others stay where they start.                 *)
(***************************************************************************)
EXTENDS Database, TLC

VARIABLES which

MCInit ==
    /\ Init /\ V!Init /\ O!Init
    /\ which = "tokens" \/ (which \in {"votes", "orders"} /\ ~dictionaries)
MCNext ==
    \/ which = "tokens" /\ Next /\ UNCHANGED <<which, voteVars, orderVars>>
    \/ which = "votes" /\ V!Next /\ UNCHANGED <<which, vars, orderVars>>
    \/ which = "orders" /\ O!Next /\ UNCHANGED <<which, vars, voteVars>>
MCSpec == MCInit /\ [][MCNext]_<<which, vars, voteVars, orderVars>>

Symmetry == Permutations(Tasks) \cup Permutations(Instances)
=============================================================================
