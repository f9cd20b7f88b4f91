-------------------------- MODULE MCYieldDistributor -------------------------
(***************************************************************************)
(* A small instance of the yield distributor: the admin and two investors, *)
(* no weight, the weights of the example in the source (65 and 35 per      *)
(* cent) and one over the limit, and deposits that do not divide evenly.   *)
(* (No symmetry: one of the properties is a liveness property.)            *)
(***************************************************************************)
EXTENDS YieldDistributor, TLC

CONSTANTS admin, alice, bob

MCAccounts == {admin, alice, bob}
MCWeights == {0, 3500, 6500, 10001}
MCAmounts == {1, 4}
MCMaxDeposited == 5
=============================================================================
