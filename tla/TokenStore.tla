----------------------------- MODULE TokenStore -----------------------------
(***************************************************************************)
(* The tokens table and everything that writes it: the mint dialogue, the  *)
(* asset page (refresh of the status, re-mint), the cap table writers, the *)
(* sync with the chain, and the seeding from tokens.json at start.  All of *)
(* them go through upsertToken, which merges field by field, and most of   *)
(* them write back a row they read before they awaited something else.     *)
(***************************************************************************)
EXTENDS Naturals, Sequences, FiniteSets, DeployStatus

CONSTANTS Ids,           \* token ids
          NoRow,         \* an id without a row
          Legacy,        \* the ids of tokens.json
          Outside,       \* ids that are minted without the application
          Tasks,         \* bound: requests and pages, each does one thing
          MaxHashes,     \* bound: mint transactions of the application
          MaxHolders     \* bound: versions of a cap table

ASSUME IdsAssumption == Ids \subseteq Nat /\ Legacy \cup Outside \subseteq Ids
ASSUME BoundsAssumption == MaxHashes \in Nat /\ MaxHolders \in Nat \ {0}

\* A row: `owner' is "", "key" or "hash" (of an account), `deploy' a hash or 0 and
\* `holders' a version of the cap table or 0, for empty; `meta' says whether there is
\* metadata, `minted' which clock minted_at is from.
Row == [owner : {"", "key", "hash"}, deploy : Nat, minted : {"zero", "mint", "write"},
        status : Statuses, meta : BOOLEAN, holders : 0..MaxHolders]
ASSUME RowAssumption == NoRow \notin Row

VARIABLES rows,          \* the table: a row or NoRow for each id
          task,          \* the requests and pages in flight
          sent,          \* POST /api/tokens that nobody waits for
          fate,          \* what the chain did with each mint transaction
          about,         \* the token each mint transaction is about
          onChain,       \* ids with an owner on the chain
          supply,        \* total_supply
          dictionaries,  \* whether the contract keeps its maps in dictionaries
          last,          \* history: the last hash that was recorded for an id
          seen           \* history: the disturbances that have happened

chain == <<fate, about, onChain, supply>>
vars == <<rows, task, sent, chain, dictionaries, last, seen>>

\* What a PATCH sends when it names no field.
Body == [owner |-> "", deploy |-> 0, minted |-> "write", status |-> "pending",
         meta |-> FALSE, holders |-> 0]
Existing == {id \in Ids : rows[id] # NoRow}

\* (A slip: an empty hash clears the one that is there.)
MergeNoHash(old, new) ==
    [new EXCEPT !.owner = IF @ # "" THEN @ ELSE old.owner, !.meta = @ \/ old.meta,
                !.holders = IF @ # 0 THEN @ ELSE old.holders]

\* ON CONFLICT DO UPDATE: empty fields keep what is there, the status does not.
Merge(old, new) ==
    [owner   |-> IF new.owner # "" THEN new.owner ELSE old.owner,
     deploy  |-> IF new.deploy # 0 THEN new.deploy ELSE old.deploy,
     minted  |-> IF new.minted # "zero" THEN new.minted ELSE old.minted,
     status  |-> new.status,
     meta    |-> new.meta \/ old.meta,
     holders |-> IF new.holders # 0 THEN new.holders ELSE old.holders]

upsertToken(id, new) ==
    rows' = [rows EXCEPT ![id] = IF @ = NoRow THEN new ELSE Merge(@, new)]
-----------------------------------------------------------------------------
(* A task knows the rows it read, the status it was told, and what is left. *)

\* `Idle' has not begun, `Over' has ended.
Idle == [kind |-> "idle", pc |-> "", id |-> 0, read |-> [id \in Ids |-> NoRow],
         hash |-> 0, status |-> "unknown", left |-> {}]
At(t, kind, pc) == task[t].kind = kind /\ task[t].pc = pc
Begins(t, kind, pc, id) ==
    /\ task[t] = Idle
    /\ task' = [task EXCEPT ![t] = [Idle EXCEPT !.kind = kind, !.pc = pc, !.id = id,
                                                !.read[id] = rows[id]]]
Over == [Idle EXCEPT !.kind = "over"]
Ends(t) == task' = [task EXCEPT ![t] = Over]

\* A write of a row that was read when the hash was another one.
Marks(id, hash, mark) ==
    seen' = IF rows[id] # NoRow /\ hash # 0 /\ hash # rows[id].deploy THEN seen \cup {mark} ELSE seen

\* A task dies with its server, or its page is closed.
Dies(t) ==
    /\ task[t] \notin {Idle, Over}
    /\ Ends(t)
    /\ UNCHANGED <<rows, sent, chain, dictionaries, last, seen>>

-----------------------------------------------------------------------------
(* The chain.                                                               *)

Submit(id) ==
    /\ Len(fate) < MaxHashes
    /\ fate' = Append(fate, "pending")
    /\ about' = Append(about, id)
    /\ UNCHANGED <<onChain, supply>>

Execute(h) ==
    /\ fate[h] = "pending"
    /\ \/ /\ fate' = [fate EXCEPT ![h] = "success"]
          /\ supply' = supply + 1
          /\ onChain' = onChain \cup {about[h]}
       \/ /\ fate' = [fate EXCEPT ![h] = "failure"]
          /\ UNCHANGED <<supply, onChain>>
    /\ UNCHANGED <<rows, task, sent, about, dictionaries, last, seen>>

MintOutside(id) ==
    /\ id \notin onChain
    /\ onChain' = onChain \cup {id}
    /\ supply' = supply + 1
    /\ UNCHANGED <<rows, task, sent, fate, about, dictionaries, last, seen>>

-----------------------------------------------------------------------------
(* The end of the mint dialogue posts the token and does not wait.  Ids are *)
(* read off the clock, so they are new.                                     *)

Minted(id) ==
    /\ id \notin Legacy \cup Outside
    /\ \A h \in DOMAIN about : about[h] # id
    /\ Submit(id)
    /\ sent' = sent \cup {id}
    /\ UNCHANGED <<rows, task, dictionaries, last, seen>>

FirstHash(id) == CHOOSE h \in DOMAIN about : about[h] = id /\ \A g \in DOMAIN about : about[g] = id => h <= g

PostToken(id) ==
    /\ id \in sent
    /\ sent' = sent \ {id}
    /\ \/ /\ upsertToken(id, [Body EXCEPT !.owner = "key", !.deploy = FirstHash(id), !.minted = "mint",
                                          !.meta = TRUE, !.holders = 1])
          /\ last' = [last EXCEPT ![id] = FirstHash(id)]
       \/ UNCHANGED <<rows, last>>                              \* lost: catch(() => {})
    /\ UNCHANGED <<task, chain, dictionaries, seen>>

-----------------------------------------------------------------------------
(* The asset page: read the row, ask chain-assets for the live status of    *)
(* the hash it finds by then, write the status back if it differs.          *)

LoadToken(t, id) ==
    /\ rows[id] # NoRow
    /\ Begins(t, "load", "status", id)
    /\ UNCHANGED <<rows, sent, chain, dictionaries, last, seen>>

ChainAssets(t) ==
    LET id == task[t].id IN
    /\ At(t, "load", "status")
    /\ task[t].read[id].deploy # 0
    /\ rows[id] # NoRow
    /\ \E s \in getDeployStatus(rows[id].deploy, fate) :
          task' = [task EXCEPT ![t] = IF s # @.read[id].status
                        THEN [Idle EXCEPT !.kind = "load", !.pc = "patch", !.id = id,
                                          !.hash = rows[id].deploy, !.status = s]
                        ELSE Over]
    /\ UNCHANGED <<rows, sent, chain, dictionaries, last, seen>>

PatchStatus(t) ==
    LET id == task[t].id IN
    /\ At(t, "load", "patch")
    /\ rows[id] # NoRow
    /\ upsertToken(id, [Body EXCEPT !.status = task[t].status])
    /\ Marks(id, task[t].hash, "lateStatus")
    /\ Ends(t)
    /\ UNCHANGED <<sent, chain, dictionaries, last>>

\* No code of the repository writes "failed", though PATCH accepts it: someone does
\* by hand, who saw the mint fail or gave up waiting for it.
MarkFailed(id) ==
    /\ rows[id] # NoRow
    /\ rows[id].deploy # 0 /\ rows[id].status # "failed"
    /\ fate[rows[id].deploy] # "success"
    /\ upsertToken(id, [Body EXCEPT !.status = "failed"])
    /\ UNCHANGED <<task, sent, chain, dictionaries, last, seen>>

\* The banner shows on a page that read "failed" and has not been told otherwise.
BannerShown(t) == At(t, "load", "status") /\ task[t].read[task[t].id].status = "failed"

\* Mint again under the same id; then record the new hash, which starts pending.
Remint(t) ==
    LET id == task[t].id IN
    /\ BannerShown(t)
    /\ Submit(id)
    /\ task' = [task EXCEPT ![t] = [Idle EXCEPT !.kind = "remint", !.pc = "patch", !.id = id,
                                                !.hash = Len(fate) + 1]]
    /\ UNCHANGED <<rows, sent, dictionaries, last, seen>>

PatchHash(t) ==
    LET id == task[t].id
        hash == task[t].hash IN
    /\ At(t, "remint", "patch")
    /\ rows[id] # NoRow
    /\ upsertToken(id, [Body EXCEPT !.deploy = hash])
    /\ last' = [last EXCEPT ![id] = hash]
    /\ Ends(t)
    /\ UNCHANGED <<sent, chain, dictionaries, seen>>

-----------------------------------------------------------------------------
(* settle-trade and offer-shares: the row as read, with new holders.        *)

ReadToken(t, id) ==
    /\ rows[id] # NoRow
    /\ Begins(t, "trade", "write", id)
    /\ UNCHANGED <<rows, sent, chain, dictionaries, last, seen>>

WriteHolders(t) ==
    LET id == task[t].id
        row == task[t].read[id] IN
    /\ At(t, "trade", "write")
    /\ upsertToken(id, [row EXCEPT !.holders = IF @ < MaxHolders THEN @ + 1 ELSE @])
    /\ Marks(id, row.deploy, "writtenBack")
    /\ Ends(t)
    /\ UNCHANGED <<sent, chain, dictionaries, last>>

-----------------------------------------------------------------------------
(* Sync: walk the ids 0 .. total_supply - 1, merge with the rows, ask for    *)
(* the status of every hash, write row after row, delete the empty ones.     *)

Walk == IF dictionaries THEN {id \in Ids : id < supply /\ id \in onChain} ELSE {}

\* A token of the chain: its owner is an account hash; the rest is the row's.
FromChain(id) ==
    LET ex == IF rows[id] = NoRow THEN [Body EXCEPT !.minted = "zero", !.status = "unknown"] ELSE rows[id]
    IN  [ex EXCEPT !.owner = "hash", !.meta = TRUE, !.status = "unknown"]

Found == [id \in Ids |-> IF id \in Walk THEN FromChain(id) ELSE rows[id]]

BeginSync(t) ==
    /\ task[t] = Idle
    /\ task' = [task EXCEPT ![t] = [Idle EXCEPT !.kind = "sync", !.pc = "status", !.read = Found,
                                                !.left = {id \in Ids : Found[id] # NoRow}]]
    /\ UNCHANGED <<rows, sent, chain, dictionaries, last, seen>>

batchDeployStatus(t) ==
    /\ At(t, "sync", "status")
    /\ \E answer \in [{id \in task[t].left : task[t].read[id].deploy # 0} -> Statuses] :
          /\ \A id \in DOMAIN answer : answer[id] \in getDeployStatus(task[t].read[id].deploy, fate)
          /\ task' = [task EXCEPT ![t].pc = "write",
                        ![t].read = [id \in Ids |-> IF id \in DOMAIN answer
                                                    THEN [task[t].read[id] EXCEPT !.status = answer[id]]
                                                    ELSE task[t].read[id]]]
    /\ UNCHANGED <<rows, sent, chain, dictionaries, last, seen>>

bulkUpsert(t) ==
    LET id == CHOOSE i \in task[t].left : \A j \in task[t].left : i <= j IN
    /\ task[t].kind \in {"sync", "seed"} /\ task[t].pc = "write" /\ task[t].left # {}
    /\ upsertToken(id, task[t].read[id])
    /\ task' = [task EXCEPT ![t].left = @ \ {id}]
    /\ Marks(id, task[t].read[id].deploy, "writtenBack")
    /\ UNCHANGED <<sent, chain, dictionaries, last>>

EmptyByTime(row) == row.minted = "zero"          \* (A slip: the metadata is not looked at.)
Empty(row) == ~row.meta /\ row.minted = "zero"

deleteEmptyTokens(t) ==
    /\ At(t, "sync", "write") /\ task[t].left = {}
    /\ rows' = [id \in Ids |-> IF id \in Existing /\ Empty(rows[id]) THEN NoRow ELSE rows[id]]
    /\ Ends(t)
    /\ UNCHANGED <<sent, chain, dictionaries, last, seen>>

\* The start of a server: rows of tokens.json, unless the table has any.  The
\* writes are not awaited: requests are served while they go on.
Seed(t) ==
    /\ Existing = {} /\ Legacy # {}
    /\ task[t] = Idle
    /\ \E full \in BOOLEAN :
         LET row == [Body EXCEPT !.owner = "key", !.meta = full, !.minted = IF full THEN "mint" ELSE "zero"]
         IN  task' = [task EXCEPT ![t] = [Idle EXCEPT !.kind = "seed", !.pc = "write", !.left = Legacy,
                        !.read = [id \in Ids |-> IF id \in Legacy THEN row ELSE NoRow]]]
    /\ UNCHANGED <<rows, sent, chain, dictionaries, last, seen>>

-----------------------------------------------------------------------------
Init ==
    /\ rows = [id \in Ids |-> NoRow]
    /\ task = [t \in Tasks |-> Idle]
    /\ sent = {}
    /\ fate = <<>> /\ about = <<>>
    /\ onChain = {} /\ supply = 0
    /\ dictionaries \in BOOLEAN
    /\ last = [id \in Ids |-> 0]
    /\ seen = {}

Next ==
    \/ \E h \in DOMAIN fate : Execute(h)
    \/ \E id \in Outside : MintOutside(id)
    \/ \E id \in Ids : Minted(id) \/ PostToken(id) \/ MarkFailed(id)
    \/ \E t \in Tasks : \/ Dies(t)
                        \/ ChainAssets(t) \/ PatchStatus(t) \/ Remint(t) \/ PatchHash(t) \/ WriteHolders(t)
                        \/ BeginSync(t) \/ batchDeployStatus(t) \/ bulkUpsert(t) \/ deleteEmptyTokens(t)
                        \/ Seed(t)
                        \/ \E id \in Ids : LoadToken(t, id) \/ ReadToken(t, id)

Spec == Init /\ [][Next]_vars

-----------------------------------------------------------------------------
\* A token is shown as confirmed only if its mint was executed with success.  A
\* status and the hash it is about travel together through every writer that puts
\* back a row it read, except the refresh of the asset page, which writes the status
\* of one hash under another when a re-mint comes in between ("lateStatus").
ConfirmedIsExecuted ==
    "lateStatus" \notin seen =>
        \A id \in Existing : rows[id].status = "confirmed" => /\ rows[id].deploy # 0
                                                              /\ fate[rows[id].deploy] = "success"

\* The hash of a row is the last one that a mint or a re-mint recorded, whatever
\* refreshes, seeds and syncs write, unless a writer put back a row that it had
\* read before that record ("writtenBack").
HashIsLast ==
    "writtenBack" \notin seen =>
        \A id \in Existing : last[id] # 0 => rows[id].deploy = last[id]

\* Nobody loses a token: a row with metadata stays, and its owner, hash and cap
\* table are never emptied, whichever of its fields a writer leaves out.
TokensAreKept ==
    [][\A id \in Existing : rows[id].meta =>
          /\ rows'[id] # NoRow /\ rows'[id].meta
          /\ rows[id].owner # "" => rows'[id].owner # ""
          /\ rows[id].deploy # 0 => rows'[id].deploy # 0
          /\ rows[id].holders # 0 => rows'[id].holders # 0]_rows
=============================================================================
