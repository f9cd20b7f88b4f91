---------------------------- MODULE MCRwaNftFresh ---------------------------
(***************************************************************************)
(* A small instance of the contract under fresh ids: the admin, two        *)
(* investors and three ids, one more than the supply cap.                  *)
(***************************************************************************)
EXTENDS RwaNftFresh, TLC

CONSTANTS admin, alice, bob, t1, t2, t3, none

MCAccounts == {admin, alice, bob}
MCTokenIds == {t1, t2, t3}
MCMaxSupply == 2

Symmetry == Permutations({alice, bob}) \cup Permutations(MCTokenIds)
=============================================================================
