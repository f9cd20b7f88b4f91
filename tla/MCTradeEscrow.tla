---------------------------- MODULE MCTradeEscrow ----------------------------
(***************************************************************************)
(* A small instance of the escrow: the admin and two traders with three    *)
(* motes each, up to three listings at one or two motes, and up to two     *)
(* nested buys.                                                            *)
(***************************************************************************)
EXTENDS TradeEscrow, TLC

CONSTANTS admin, alice, bob, none

MCAccounts == {admin, alice, bob}
MCWeights == {0, 3500}
MCPrices == {0, 1, 2}
MCAmounts == {1, 3}
MCRights == [a \in MCAccounts |-> IF a = admin THEN 10000 ELSE 0]

Symmetry == Permutations({alice, bob})
=============================================================================
