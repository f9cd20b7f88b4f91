------------------------------- MODULE MCPages --------------------------------
(***************************************************************************)
(* Small instances of the four parts of Pages.  They share nothing, so a   *)
(* behaviour is one of a single part, and the others stay where they start.*)
(***************************************************************************)
EXTENDS Pages, TLC

CONSTANTS f1
VARIABLES which

MCClicks == f1 :> {"transfer", "escrow", "contract", "stake", "claim", "mint", "register"}

\* Bound: a behaviour of the wizard has no mint that nobody awaits and a second file.
\* Each property that one of the two disturbs is checked without that one.
Bounded == ~({"freed", "rechosen"} \subseteq seen)

MCInit ==
    /\ Init /\ F!Init /\ S!Init /\ T!Init
    /\ which \in {"wizard", "offer", "settings", "wallet"}
    /\ which # "offer" => ~hasRow /\ ~onChain /\ ~verified
    /\ which # "wallet" => extension = [connected |-> FALSE, active |-> CHOOSE k \in WalletKeys : TRUE]
MCNext ==
    \/ which = "wizard" /\ Next /\ Bounded' /\ UNCHANGED <<which, offerVars, settingsVars, walletVars>>
    \/ which = "offer" /\ F!Next /\ UNCHANGED <<which, vars, settingsVars, walletVars>>
    \/ which = "settings" /\ S!Next /\ UNCHANGED <<which, vars, offerVars, walletVars>>
    \/ which = "wallet" /\ T!Next /\ UNCHANGED <<which, vars, offerVars, settingsVars>>
MCSpec == MCInit /\ [][MCNext]_<<which, vars, offerVars, settingsVars, walletVars>>

Perms == Permutations(Docs) \cup Permutations(Ops)
=============================================================================
