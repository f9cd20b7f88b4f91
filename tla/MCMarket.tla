------------------------------- MODULE MCMarket ------------------------------
(***************************************************************************)
(* A small market: the issuer and two investors share a token of two parts *)
(* and list one of them (or try to list nothing, or more than there is);   *)
(* two orders and two requests, so that shares are sold on.                *)
(***************************************************************************)
EXTENDS Market, TLC

CONSTANTS issuer, alice, bob, none, twin, o1, o2, r1, r2

MCWallets == {issuer, alice, bob}
MCSizes == {0, 1, 3}
MCOrders == {o1, o2}
MCRequests == {r1, r2}

Symmetry == Permutations({alice, bob}) \cup Permutations(MCOrders)
            \cup Permutations(MCRequests)
=============================================================================
