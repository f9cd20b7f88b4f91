------------------------------ MODULE MCRwaNft ------------------------------
(***************************************************************************)
(* A small instance of the RWA-NFT contract: the admin and two investors,  *)
(* two token ids, a supply cap of 3 (so that re-mints can pass the number  *)
(* of ids and the cap itself is hit).                                      *)
(***************************************************************************)
EXTENDS RwaNft, TLC

CONSTANTS admin, alice, bob, t1, t2, none

MCAccounts == {admin, alice, bob}
MCTokenIds == {t1, t2}
MCMaxSupply == 3

Symmetry == Permutations({alice, bob}) \cup Permutations(MCTokenIds)
=============================================================================
