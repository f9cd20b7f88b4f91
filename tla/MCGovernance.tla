---------------------------- MODULE MCGovernance -----------------------------
(***************************************************************************)
(* A small instance of the governance contract: two voters (one of them    *)
(* the admin), two proposals, weights under and over the quorum, and a     *)
(* word that wraps on the sum of two large weights.                        *)
(***************************************************************************)
EXTENDS Governance, TLC

CONSTANTS admin, alice

MCAccounts == {admin, alice}
MCWeights == {0, 4000, 6000}
MCChoices == {0, 1, 255}
MCDeadlines == {0, 1}
MCU64 == 11000
=============================================================================
