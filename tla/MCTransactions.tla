--------------------------- MODULE MCTransactions ---------------------------
(***************************************************************************)
(* Two keys, one of them Secp256k1 and without an account, and two clicks: *)
(* the first may be for anything, the second is a mint.                   *)
(***************************************************************************)
EXTENDS Transactions, TLC

CONSTANTS f1, f2

MCClicks == f1 :> Kinds @@ f2 :> {"mint"}
=============================================================================
