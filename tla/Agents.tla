------------------------------- MODULE Agents --------------------------------
(***************************************************************************)
(* The two agents of the server and the panel that the pages have for each *)
(* of them, each with a specification of its own.  They share neither      *)
(* state nor a contract, and the panel sees of an agent only whether it    *)
(* runs.                                                                   *)
(***************************************************************************)
EXTENDS YieldAgent

CONSTANTS Ids, Wallets, Holders, Scans, MaxFlags,
          Asks, MaxLost
VARIABLES attested, whitelist, revoking, scanning, scan, flags, revocations, refused, seen,
          state, shows, ask, button, lost

C == INSTANCE ComplianceAgent WITH running <- scanning, faults <- refused
P == INSTANCE StatusPanel

complianceVars == <<attested, whitelist, revoking, scanning, scan, flags, revocations, refused, seen>>
panelVars == <<state, shows, ask, button, lost>>

\* Every revocation closes a flag (ComplianceAgent.tla).
RevocationsAreRecorded == C!RevocationsAreRecorded

\* Whoever holds an expired attestation is revoked in the end (ComplianceAgent.tla).
ExpiredAreRevoked == C!ExpiredAreRevoked
=============================================================================
