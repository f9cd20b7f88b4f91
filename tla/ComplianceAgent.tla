--------------------------- MODULE ComplianceAgent ---------------------------
(***************************************************************************)
(* The compliance agent of the server: every minute it goes through the    *)
(* holders of all tokens, flags those whose attestation is missing or      *)
(* expired, and revokes the expired ones on the chain.  A scan works on    *)
(* the rows it read at its start and awaits a node for every revocation;   *)
(* nothing keeps two scans apart, and the list of flags is cut at its end. *)
(*                                                                         *)
(* Scans interleave at every holder here, in the code only where one of    *)
(* them awaits: every order of the code is one of these.                   *)
(***************************************************************************)
EXTENDS Naturals, Sequences, FiniteSets

CONSTANTS Ids, Wallets,
          Holders,          \* token -> the wallets of its cap table
          Scans,            \* bound: scans at the same time
          MaxFlags,         \* MAX_FLAGS, 50
          MaxFaults         \* bound: failed requests

ConstantsAssumption == Holders \in [Ids -> SUBSET Wallets] /\ MaxFlags \in Nat \ {0}

VARIABLES attested,         \* token -> whether kyc_attested_at is there, and how old
          whitelist,        \* the contract's KYC list
          revoking,         \* wallets with a set_kyc(false) that is not executed
          running,          \* complianceTimer and what the pages show of it
          scan,             \* the scans in flight
          flags,            \* newest first
          revocations,      \* totalRevocations, as long as no flag has left the list
          faults,
          seen              \* history: the disturbances that have happened

vars == <<attested, whitelist, revoking, running, scan, flags, revocations, faults, seen>>

None == [pc |-> "none", todo |-> {}, wallet |-> {}]
Expired(w) == \E id \in Ids : w \in Holders[id] /\ attested[id] = "expired"

\* The holders a scan will stop at.  `expired' is decided when the scan starts.
ToDo == {h \in [id : Ids, wallet : Wallets, expired : BOOLEAN] :
            /\ h.wallet \in Holders[h.id] /\ attested[h.id] # "valid"
            /\ h.expired = (attested[h.id] = "expired")}
-----------------------------------------------------------------------------
addFlag(w) ==
    LET longer == <<[wallet |-> w, resolved |-> FALSE]>> \o flags
        kept == IF Len(longer) > MaxFlags THEN MaxFlags ELSE Len(longer)
    IN  /\ flags' = SubSeq(longer, 1, kept)
        /\ seen' = IF kept < Len(longer) THEN seen \cup {"cut"} ELSE seen
        /\ revocations' = IF kept < Len(longer) THEN 0 ELSE revocations

\* The newest flag of the wallet that is not resolved yet; it may be another scan's.
\* (A slip: the newest flag of the wallet.)
Newest(w) == {n \in DOMAIN flags : /\ flags[n].wallet = w
                                   /\ \A k \in 1..(n - 1) : flags[k].wallet # w}
Open(w) == {n \in DOMAIN flags : /\ flags[n].wallet = w /\ ~flags[n].resolved
                                 /\ \A k \in 1..(n - 1) : flags[k].wallet = w => flags[k].resolved}

resolveFlag(w) ==
    /\ flags' = [n \in DOMAIN flags |-> [flags[n] EXCEPT !.resolved = @ \/ n \in Open(w)]]
    /\ revocations' = IF "cut" \in seen THEN 0 ELSE revocations + 1

-----------------------------------------------------------------------------
\* complianceTick: the rows and the time are read once.
complianceTick(s) ==
    /\ scan[s] = None
    /\ scan' = [scan EXCEPT ![s] = [pc |-> "scanning", todo |-> ToDo, wallet |-> {}]]

TimerTick(s) ==
    /\ running
    /\ complianceTick(s)
    /\ UNCHANGED <<attested, whitelist, revoking, running, flags, revocations, faults, seen>>

\* GET: the scan button of the compliance page.
ScanNow(s) ==
    /\ complianceTick(s)
    /\ UNCHANGED <<attested, whitelist, revoking, running, flags, revocations, faults, seen>>

startComplianceAgent(s) ==
    /\ ~running /\ running' = TRUE
    /\ complianceTick(s)
    /\ UNCHANGED <<attested, whitelist, revoking, flags, revocations, faults, seen>>

stopComplianceAgent ==
    /\ running /\ running' = FALSE
    /\ UNCHANGED <<attested, whitelist, revoking, scan, flags, revocations, faults, seen>>

\* A holder without an attestation is flagged, and not more.
FlagMissing(s) == \E h \in scan[s].todo :
    /\ scan[s].pc = "scanning" /\ ~h.expired
    /\ addFlag(h.wallet)
    /\ scan' = [scan EXCEPT ![s].todo = @ \ {h}]
    /\ UNCHANGED <<attested, whitelist, revoking, running, faults>>

\* (A slip: a wallet that has been flagged is passed over.)
FlagOnce(s) == \E h \in scan[s].todo :
    /\ scan[s].pc = "scanning" /\ h.expired
    /\ IF \E n \in DOMAIN flags : flags[n].wallet = h.wallet
       THEN /\ scan' = [scan EXCEPT ![s].todo = @ \ {h}]
            /\ UNCHANGED <<flags, revocations, seen>>
       ELSE /\ addFlag(h.wallet)
            /\ scan' = [scan EXCEPT ![s] = [pc |-> "revoking", todo |-> @.todo \ {h}, wallet |-> {h.wallet}]]
    /\ UNCHANGED <<attested, whitelist, revoking, running, faults>>

FlagExpired(s) == \E h \in scan[s].todo :
    /\ scan[s].pc = "scanning" /\ h.expired
    /\ addFlag(h.wallet)
    /\ scan' = [scan EXCEPT ![s] = [pc |-> "revoking", todo |-> @.todo \ {h}, wallet |-> {h.wallet}]]
    /\ UNCHANGED <<attested, whitelist, revoking, running, faults>>

\* The node has taken the transaction, on one of three endpoints.
revokeKyc(s) == \E w \in scan[s].wallet :
    /\ scan[s].pc = "revoking"
    /\ revoking' = revoking \cup {w}
    /\ resolveFlag(w)
    /\ scan' = [scan EXCEPT ![s].pc = "scanning", ![s].wallet = {}]
    /\ UNCHANGED <<attested, whitelist, running, faults, seen>>

\* No key, or all endpoints refuse: the flag stays, the scan goes on.
RevokeFails(s) ==
    /\ scan[s].pc = "revoking"
    /\ faults < MaxFaults /\ faults' = faults + 1
    /\ scan' = [scan EXCEPT ![s].pc = "scanning", ![s].wallet = {}]
    /\ UNCHANGED <<attested, whitelist, revoking, running, flags, revocations, seen>>

ScanEnds(s) ==
    /\ scan[s].pc = "scanning" /\ scan[s].todo = {}
    /\ scan' = [scan EXCEPT ![s] = None]
    /\ UNCHANGED <<attested, whitelist, revoking, running, flags, revocations, faults, seen>>

-----------------------------------------------------------------------------
\* The chain executes a revocation.
ExecuteRevocation(w) ==
    /\ w \in revoking
    /\ revoking' = revoking \ {w}
    /\ whitelist' = whitelist \ {w}
    /\ UNCHANGED <<attested, running, scan, flags, revocations, faults, seen>>

\* The wizard whitelists a wallet again without a look at its attestations.
Whitelist(w) ==
    /\ whitelist' = whitelist \cup {w}
    /\ UNCHANGED <<attested, revoking, running, scan, flags, revocations, faults, seen>>

\* Ninety days pass.
Expire(id) ==
    /\ attested[id] = "valid"
    /\ attested' = [attested EXCEPT ![id] = "expired"]
    /\ UNCHANGED <<whitelist, revoking, running, scan, flags, revocations, faults, seen>>

\* The metadata of a token is replaced (PATCH /api/tokens/[id]); a scan that has begun
\* does not see it, and a revocation in flight is not withdrawn.
Attest(id) ==
    /\ attested[id] # "valid"
    /\ attested' = [attested EXCEPT ![id] = "valid"]
    /\ seen' = IF revoking # {} \/ \E s \in Scans : scan[s] # None THEN seen \cup {"renewed"} ELSE seen
    /\ UNCHANGED <<whitelist, revoking, running, scan, flags, revocations, faults>>

-----------------------------------------------------------------------------
Init ==
    /\ attested \in [Ids -> {"none", "valid", "expired"}]
    /\ whitelist = Wallets
    /\ revoking = {}
    /\ running = FALSE
    /\ scan = [s \in Scans |-> None]
    /\ flags = <<>>
    /\ revocations = 0
    /\ faults = 0
    /\ seen = {}

Step(s) == FlagMissing(s) \/ FlagExpired(s) \/ revokeKyc(s) \/ ScanEnds(s)
Next ==
    \/ \E s \in Scans : TimerTick(s) \/ ScanNow(s) \/ startComplianceAgent(s) \/ Step(s) \/ RevokeFails(s)
    \/ stopComplianceAgent
    \/ \E w \in Wallets : ExecuteRevocation(w) \/ Whitelist(w)
    \/ \E id \in Ids : Expire(id) \/ Attest(id)

\* The timer fires, a scan goes on, the chain executes what it has accepted.
Fairness ==
    /\ WF_vars(\E s \in Scans : TimerTick(s))
    /\ \A s \in Scans : WF_vars(Step(s))
    /\ \A w \in Wallets : WF_vars(ExecuteRevocation(w))

Spec == Init /\ [][Next]_vars /\ Fairness
-----------------------------------------------------------------------------
\* Every revocation closes a flag: as long as no flag has left the end of the list,
\* the pages show as many closed flags as totalRevocations, however scans overlap and
\* whosever flag a scan closes.
RevocationsAreRecorded ==
    "cut" \notin seen => Cardinality({n \in DOMAIN flags : flags[n].resolved}) = revocations

\* The agent does not give up: a wallet with an expired attestation leaves the KYC
\* list, after whatever failures and with a list full of older flags, unless the agent
\* is stopped or the attestation renewed.
ExpiredAreRevoked ==
    \A w \in Wallets : Expired(w) /\ running ~> w \notin whitelist \/ ~Expired(w) \/ ~running
=============================================================================
