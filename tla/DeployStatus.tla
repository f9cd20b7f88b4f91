---------------------------- MODULE DeployStatus ----------------------------
(***************************************************************************)
(* What the application learns about a transaction from the nodes.  A fate *)
(* is what the chain has done with it; every question may also time out.   *)
(***************************************************************************)
EXTENDS Naturals

Fates == {"pending", "success", "failure"}
Statuses == {"pending", "confirmed", "failed", "unknown"}

\* One node.  An execution error is thrown inside the try block that asks, and
\* swallowed by its catch: a failure is never read as "failed".
FromTransaction(fate) == IF fate = "success" THEN {"confirmed", "next"} ELSE {"next"}
FromDeploy(fate) == {"pending", "unknown"} \cup IF fate = "success" THEN {"confirmed"} ELSE {}
\* (A slip: whatever has been executed is confirmed.)
ExecutedConfirmed(fate) == {"pending", "unknown"} \cup IF fate # "pending" THEN {"confirmed"} ELSE {}

getDeployStatusFromNode(fate) == (FromTransaction(fate) \ {"next"}) \cup FromDeploy(fate)

\* The first node that knows, so an answer of one of them; nothing for no hash.
getDeployStatus(hash, fate) ==
    IF hash = 0 THEN {"unknown"} ELSE getDeployStatusFromNode(fate[hash])
=============================================================================
