---------------------------- MODULE DatabaseProofs ----------------------------
(***************************************************************************)
(* Theorems about the database of the application: the tokens table, the   *)
(* proposals with their votes, and the orders table.  They share no state; *)
(* each is proved of its own specification.                                *)
(***************************************************************************)
EXTENDS Database, Sums, SequenceTheorems, TLAPS

(***************************************************************************)
(* The tokens table.  A task holds rows it has read; what it holds is as   *)
(* true of its hashes as what the table says, since the chain never takes  *)
(* back what it has executed.                                              *)
(***************************************************************************)
Kinds == {"idle", "over", "load", "remint", "trade", "sync", "seed"}
Task == [kind : Kinds, pc : {"", "status", "patch", "write"}, id : Nat,
         read : [Ids -> Row \cup {NoRow}], hash : Nat, status : Statuses, left : SUBSET Ids]

StoreTypes ==
    /\ rows \in [Ids -> Row \cup {NoRow}]
    /\ task \in [Tasks -> Task]
    /\ sent \subseteq Ids
    /\ fate \in Seq(Fates) /\ about \in Seq(Ids) /\ Len(about) = Len(fate)
    /\ last \in [Ids -> Nat]

\* The hash of a row is of a transaction, and a confirmed one has been executed.
Executed(h) == h \in 1..Len(fate) /\ fate[h] = "success"
Known(r) == r # NoRow => r.deploy \in 0..Len(fate)
Truthful(r) == r # NoRow /\ r.status = "confirmed" => Executed(r.deploy)

\* What a task holds.
Fits(k) ==
    /\ k.hash \in 0..Len(fate)
    /\ \A id \in Ids : Known(k.read[id])
    /\ k.kind \in {"load", "remint", "trade"} => k.id \in Ids
    /\ k.kind = "remint" => k.hash # 0
    /\ k.kind = "trade" => k.read[k.id] # NoRow
    /\ \A id \in k.left : k.read[id] # NoRow
    /\ "lateStatus" \in seen \/
          /\ \A id \in Ids : Truthful(k.read[id])
          /\ k.kind = "load" /\ k.pc = "patch" /\ k.status = "confirmed" => Executed(k.hash)

\* What the table holds.
TableFits ==
    /\ \A id \in Ids : Known(rows[id]) /\ last[id] \in 0..Len(fate)
    /\ \A id \in Ids : last[id] # 0 => rows[id] # NoRow /\ ~Empty(rows[id])
    /\ \A id \in sent : \E h \in 1..Len(fate) : about[h] = id
    /\ "lateStatus" \in seen \/ \A id \in Ids : Truthful(rows[id])

StoreInv == StoreTypes /\ TableFits /\ HashIsLast /\ \A t \in Tasks : Fits(task[t])

-----------------------------------------------------------------------------
\* What the constants of a task and of a row are.
LEMMA Shapes ==
    /\ Body \in Row /\ Idle \in Task /\ Over \in Task
    /\ Body.owner = "" /\ Body.deploy = 0 /\ Body.minted = "write" /\ Body.status = "pending"
    /\ Body.meta = FALSE /\ Body.holders = 0
    /\ Idle.kind = "idle" /\ Idle.pc = "" /\ Idle.hash = 0 /\ Idle.left = {}
    /\ Over.kind = "over" /\ Over.pc = "" /\ Over.hash = 0 /\ Over.left = {}
    /\ \A id \in Ids : Idle.read[id] = NoRow /\ Over.read[id] = NoRow
    /\ Statuses = {"pending", "confirmed", "failed", "unknown"}
<1>1. Statuses = {"pending", "confirmed", "failed", "unknown"}
  BY DEF Statuses
<1>2. /\ Body.owner = "" /\ Body.deploy = 0 /\ Body.minted = "write" /\ Body.status = "pending"
      /\ Body.meta = FALSE /\ Body.holders = 0
  BY DEF Body
<1>3. Body \in Row
  BY <1>1, BoundsAssumption DEF Body, Row
<1>4. /\ Idle.kind = "idle" /\ Idle.pc = "" /\ Idle.hash = 0 /\ Idle.left = {}
      /\ Over.kind = "over" /\ Over.pc = "" /\ Over.hash = 0 /\ Over.left = {}
      /\ \A id \in Ids : Idle.read[id] = NoRow /\ Over.read[id] = NoRow
  BY DEF Idle, Over
<1>5. Idle \in Task
  BY <1>1 DEF Idle, Task, Kinds
<1>6. Over \in Task
  BY <1>5 DEF Over, Task, Kinds
<1> QED BY <1>1, <1>2, <1>3, <1>4, <1>5, <1>6

\* A row that is written over another one keeps what it does not name.
LEMMA Merged ==
    ASSUME NEW old \in Row, NEW new \in Row
    PROVE  /\ Merge(old, new) \in Row /\ Merge(old, new).status = new.status
           /\ Merge(old, new).deploy = IF new.deploy # 0 THEN new.deploy ELSE old.deploy
           /\ Merge(old, new).owner = IF new.owner # "" THEN new.owner ELSE old.owner
           /\ Merge(old, new).holders = IF new.holders # 0 THEN new.holders ELSE old.holders
           /\ Merge(old, new).meta = (new.meta \/ old.meta)
           /\ Merge(old, new).minted = IF new.minted # "zero" THEN new.minted ELSE old.minted
BY DEF Merge, Row

\* upsertToken writes one row.
LEMMA Upserted ==
    ASSUME StoreTypes, NEW id \in Ids, NEW new \in Row, upsertToken(id, new)
    PROVE  /\ rows' \in [Ids -> Row \cup {NoRow}]
           /\ \A j \in Ids \ {id} : rows'[j] = rows[j]
           /\ rows'[id] \in Row /\ rows'[id] # NoRow
           /\ rows'[id].status = new.status
           /\ rows[id] = NoRow => rows'[id] = new
           /\ rows[id] # NoRow => rows[id] \in Row /\ rows'[id] = Merge(rows[id], new)
<1>1. /\ rows \in [Ids -> Row \cup {NoRow}]
      /\ rows' = [rows EXCEPT ![id] = IF rows[id] = NoRow THEN new ELSE Merge(rows[id], new)]
  BY DEF StoreTypes, upsertToken
<1>2. CASE rows[id] = NoRow
  BY <1>1, <1>2, RowAssumption
<1>3. CASE rows[id] # NoRow
  <2>1. rows[id] \in Row
    BY <1>1, <1>3
  <2>2. PICK old \in Row : old = rows[id]
    BY <2>1
  <2>3. Merge(old, new) \in Row /\ Merge(old, new).status = new.status
    BY Merged
  <2> QED BY <1>1, <1>3, <2>1, <2>2, <2>3, RowAssumption
<1> QED BY <1>2, <1>3

\* The chain goes on: transactions are added, and what is executed stays executed.
ChainGrows == /\ Len(fate) \in Nat /\ Len(fate') \in Nat /\ Len(fate) <= Len(fate')
              /\ \A h \in 1..Len(fate) : fate[h] = "success" => fate'[h] = "success"
              /\ \A h \in 1..Len(fate) : about'[h] = about[h]

LEMMA ChainStays ==
    ASSUME StoreTypes, fate' = fate, about' = about
    PROVE  ChainGrows
BY LenProperties DEF StoreTypes, ChainGrows

LEMMA ExecutedStays ==
    ASSUME ChainGrows
    PROVE  /\ \A h : Executed(h) => Executed(h)'
           /\ \A r : Known(r) /\ r \in Row \cup {NoRow} => Known(r)'
           /\ \A r : Truthful(r) => Truthful(r)'
<1>1. \A h : Executed(h) => Executed(h)'
  BY DEF ChainGrows, Executed
<1>2. \A r : Known(r) /\ r \in Row \cup {NoRow} => Known(r)'
  <2> SUFFICES ASSUME NEW r \in Row, Known(r), r # NoRow PROVE r.deploy \in 0..Len(fate')
    BY DEF Known
  <2>1. r.deploy \in 0..Len(fate)
    BY DEF Known
  <2> QED BY <2>1 DEF ChainGrows
<1>3. \A r : Truthful(r) => Truthful(r)'
  BY <1>1 DEF Truthful
<1> QED BY <1>1, <1>2, <1>3

\* What a task holds stays true.
LEMMA TaskStays ==
    ASSUME StoreTypes, ChainGrows, seen \subseteq seen', NEW k \in Task, Fits(k)
    PROVE  Fits(k)'
<1>1. k.hash \in 0..Len(fate) /\ \A id \in Ids : k.read[id] \in Row \cup {NoRow}
  BY DEF Fits, Task
<1>2. k.hash \in 0..Len(fate')
  BY <1>1 DEF ChainGrows
<1>3. \A id \in Ids : Known(k.read[id])'
  BY <1>1, ExecutedStays DEF Fits
<1>4. \/ "lateStatus" \in seen'
      \/ /\ \A id \in Ids : Truthful(k.read[id])'
         /\ k.kind = "load" /\ k.pc = "patch" /\ k.status = "confirmed" => Executed(k.hash)'
  <2>1. CASE "lateStatus" \in seen
    BY <2>1
  <2>2. CASE "lateStatus" \notin seen
    <3>1. /\ \A id \in Ids : Truthful(k.read[id])
          /\ k.kind = "load" /\ k.pc = "patch" /\ k.status = "confirmed" => Executed(k.hash)
      BY <2>2 DEF Fits
    <3> QED BY <3>1, ExecutedStays
  <2> QED BY <2>1, <2>2
<1> QED BY <1>2, <1>3, <1>4 DEF Fits

\* A task that has ended, or not begun, holds nothing.
LEMMA NothingHeld ==
    ASSUME ChainGrows, NEW k \in {Idle, Over}
    PROVE  Fits(k)'
<1>1. /\ k.hash = 0 /\ k.left = {} /\ (\A id \in Ids : k.read[id] = NoRow)
      /\ k.kind \in {"idle", "over"}
  BY Shapes
<1> QED BY <1>1 DEF Fits, ChainGrows, Known, Truthful

\* The table stays true when it is not written.
LEMMA TableStays ==
    ASSUME StoreInv, StoreTypes', ChainGrows, seen \subseteq seen', rows' = rows, last' = last,
           \A id \in sent' : id \in sent \/ \E h \in 1..Len(fate') : about'[h] = id
    PROVE  TableFits' /\ HashIsLast'
<1>1. /\ \A id \in Ids : rows[id] \in Row \cup {NoRow} /\ Known(rows[id]) /\ last[id] \in 0..Len(fate)
      /\ \A id \in Ids : last[id] # 0 => rows[id] # NoRow /\ ~Empty(rows[id])
  BY DEF StoreInv, StoreTypes, TableFits
<1>2. \A id \in Ids : Known(rows[id])' /\ last'[id] \in 0..Len(fate')
  <2>1. \A id \in Ids : last[id] \in 0..Len(fate')
    BY <1>1 DEF ChainGrows
  <2>2. \A id \in Ids : Known(rows[id])'
    BY <1>1, ExecutedStays DEF Known
  <2> QED BY <2>1, <2>2
<1>3. \A id \in Ids : last'[id] # 0 => rows'[id] # NoRow /\ ~Empty(rows[id])'
  BY <1>1 DEF Empty
<1>4. \A id \in sent' : \E h \in 1..Len(fate') : about'[h] = id
  <2> SUFFICES ASSUME NEW id \in sent PROVE \E h \in 1..Len(fate') : about'[h] = id
    OBVIOUS
  <2>1. PICK h \in 1..Len(fate) : about[h] = id
    BY DEF StoreInv, TableFits
  <2> QED BY <2>1 DEF ChainGrows
<1>5. "lateStatus" \in seen' \/ \A id \in Ids : Truthful(rows[id])'
  <2> SUFFICES ASSUME "lateStatus" \notin seen', NEW id \in Ids PROVE Truthful(rows[id])'
    OBVIOUS
  <2>1. Truthful(rows[id])
    BY DEF StoreInv, TableFits
  <2> QED BY <2>1, ExecutedStays DEF Truthful
<1>6. HashIsLast'
  BY DEF StoreInv, HashIsLast, Existing
<1> QED BY <1>2, <1>3, <1>4, <1>5, <1>6 DEF TableFits

\* A step that replaces one task leaves the others as they are.
LEMMA TasksStay ==
    ASSUME StoreInv, ChainGrows, seen \subseteq seen', NEW t \in Tasks, NEW k \in Task,
           task' = [task EXCEPT ![t] = k], Fits(k)'
    PROVE  task' \in [Tasks -> Task] /\ \A u \in Tasks : Fits(task[u])'
<1>1. StoreTypes /\ task \in [Tasks -> Task]
  BY DEF StoreInv, StoreTypes
<1>2. task' \in [Tasks -> Task] /\ task'[t] = k /\ \A u \in Tasks \ {t} : task'[u] = task[u]
  BY <1>1
<1>3. \A u \in Tasks : Fits(task[u])'
  <2> TAKE u \in Tasks
  <2>1. CASE u = t
    BY <1>2, <2>1 DEF Fits
  <2>2. CASE u # t
    <3>1. PICK r \in Task : r = task[u]
      BY <1>1
    <3>2. Fits(r)
      BY <3>1 DEF StoreInv
    <3>3. Fits(r)'
      BY <1>1, <3>2, TaskStays
    <3> QED BY <1>2, <2>2, <3>1, <3>3 DEF Fits
  <2> QED BY <2>1, <2>2
<1> QED BY <1>2, <1>3

\* A step of no task.
LEMMA AllTasksStay ==
    ASSUME StoreInv, ChainGrows, seen \subseteq seen', task' = task
    PROVE  \A u \in Tasks : Fits(task[u])'
<1>1. StoreTypes /\ task \in [Tasks -> Task]
  BY DEF StoreInv, StoreTypes
<1> TAKE u \in Tasks
<1>2. PICK r \in Task : r = task[u]
  BY <1>1
<1>3. Fits(r)
  BY <1>2 DEF StoreInv
<1>4. Fits(r)'
  BY <1>1, <1>3, TaskStays
<1> QED BY <1>2, <1>4 DEF Fits

\* A step of one task that writes nothing.
LEMMA TaskStep ==
    ASSUME StoreInv, NEW t \in Tasks, NEW k \in Task, task' = [task EXCEPT ![t] = k], Fits(k)',
           UNCHANGED <<rows, sent, fate, about, last, seen>>
    PROVE  StoreInv'
<1>1. StoreTypes /\ ChainGrows /\ seen \subseteq seen'
  BY ChainStays DEF StoreInv
<1>2. task' \in [Tasks -> Task] /\ \A u \in Tasks : Fits(task[u])'
  BY <1>1, TasksStay
<1>3. StoreTypes'
  BY <1>1, <1>2 DEF StoreTypes
<1>4. TableFits' /\ HashIsLast'
  BY <1>1, <1>3, TableStays
<1> QED BY <1>2, <1>3, <1>4 DEF StoreInv

\* A write of one row leaves the table true when the new row names a hash that
\* exists, is confirmed only with a hash that was executed, and does not put back
\* another hash than the one that was recorded.
LEMMA WriteKeeps ==
    ASSUME StoreInv, NEW id \in Ids, NEW new \in Row, upsertToken(id, new),
           fate' = fate, about' = about, sent' \subseteq sent, seen \subseteq seen',
           new.deploy \in 0..Len(fate),
           \/ "lateStatus" \in seen'
           \/ new.status # "confirmed"
           \/ new.deploy # 0 /\ Executed(new.deploy)
           \/ new.deploy = 0 /\ rows[id] # NoRow /\ Executed(rows[id].deploy),
           \/ /\ last' = last
              /\ \/ "writtenBack" \in seen' \/ new.deploy = 0
                 \/ rows[id] = NoRow \/ new.deploy = rows[id].deploy
           \/ /\ last' = [last EXCEPT ![id] = new.deploy]
              /\ new.deploy # 0 /\ (new.meta \/ new.minted # "zero")
    PROVE  /\ rows' \in [Ids -> Row \cup {NoRow}] /\ sent' \subseteq Ids /\ last' \in [Ids -> Nat]
           /\ TableFits' /\ HashIsLast'
<1>1. /\ StoreTypes /\ ChainGrows
      /\ rows \in [Ids -> Row \cup {NoRow}] /\ last \in [Ids -> Nat] /\ Len(fate) \in Nat
  BY ChainStays, LenProperties DEF StoreInv, StoreTypes
<1>2. /\ rows' \in [Ids -> Row \cup {NoRow}]
      /\ \A j \in Ids \ {id} : rows'[j] = rows[j]
      /\ rows'[id] \in Row /\ rows'[id] # NoRow
      /\ rows'[id].status = new.status
      /\ rows[id] = NoRow => rows'[id] = new
      /\ rows[id] # NoRow => rows[id] \in Row /\ rows'[id] = Merge(rows[id], new)
  BY <1>1, Upserted
<1>3. /\ rows'[id].deploy = IF new.deploy # 0 \/ rows[id] = NoRow THEN new.deploy ELSE rows[id].deploy
      /\ ~Empty(new) => ~Empty(rows'[id])
      /\ rows[id] # NoRow /\ ~Empty(rows[id]) => ~Empty(rows'[id])
  <2>1. CASE rows[id] = NoRow
    BY <1>2, <2>1
  <2>2. CASE rows[id] # NoRow
    <3>1. PICK old \in Row : old = rows[id]
      BY <1>2, <2>2
    <3>2. /\ Merge(old, new).deploy = IF new.deploy # 0 THEN new.deploy ELSE old.deploy
          /\ Merge(old, new).meta = (new.meta \/ old.meta)
          /\ Merge(old, new).minted = IF new.minted # "zero" THEN new.minted ELSE old.minted
      BY Merged
    <3> QED BY <1>2, <2>2, <3>1, <3>2 DEF Empty
  <2> QED BY <2>1, <2>2
<1>4. /\ \A j \in Ids : Known(rows[j]) /\ last[j] \in 0..Len(fate)
      /\ \A j \in Ids : last[j] # 0 => rows[j] # NoRow /\ ~Empty(rows[j])
      /\ \A j \in sent : \E h \in 1..Len(fate) : about[h] = j
      /\ "lateStatus" \in seen \/ \A j \in Ids : Truthful(rows[j])
      /\ HashIsLast
  BY DEF StoreInv, TableFits
<1>5. last' \in [Ids -> Nat] /\ \A j \in Ids \ {id} : last'[j] = last[j]
  BY <1>1
<1>6. last'[id] \in {last[id], new.deploy}
  BY <1>1
<1>7. \A j \in Ids : Known(rows[j])' /\ last'[j] \in 0..Len(fate')
  <2> TAKE j \in Ids
  <2>1. CASE j = id
    BY <1>2, <1>3, <1>4, <1>6, <2>1 DEF Known
  <2>2. CASE j # id
    BY <1>2, <1>4, <1>5, <2>2 DEF Known
  <2> QED BY <2>1, <2>2
<1>8. \A j \in Ids : last'[j] # 0 => rows'[j] # NoRow /\ ~Empty(rows[j])'
  <2> SUFFICES ASSUME NEW j \in Ids, last'[j] # 0 PROVE rows'[j] # NoRow /\ ~Empty(rows'[j])
    BY DEF Empty
  <2>1. CASE j # id
    BY <1>2, <1>4, <1>5, <2>1
  <2>2. CASE j = id /\ last' = last
    BY <1>2, <1>3, <1>4, <2>2
  <2>3. CASE j = id /\ (new.meta \/ new.minted # "zero")
    BY <1>2, <1>3, <2>3 DEF Empty
  <2> QED BY <2>1, <2>2, <2>3
<1>9. \A j \in sent' : \E h \in 1..Len(fate') : about'[h] = j
  BY <1>4
<1>10. "lateStatus" \in seen' \/ \A j \in Ids : Truthful(rows[j])'
  <2> SUFFICES ASSUME "lateStatus" \notin seen', NEW j \in Ids PROVE Truthful(rows'[j])
    BY DEF Truthful, Executed
  <2>1. CASE j # id
    BY <1>2, <1>4, <2>1
  <2>2. CASE j = id
    BY <1>2, <1>3, <2>2 DEF Truthful, Executed
  <2> QED BY <2>1, <2>2
<1>11. HashIsLast'
  <2> SUFFICES ASSUME "writtenBack" \notin seen', NEW j \in Ids, rows'[j] # NoRow, last'[j] # 0
               PROVE  rows'[j].deploy = last'[j]
    BY DEF HashIsLast, Existing
  <2>1. CASE j # id
    BY <1>2, <1>4, <1>5, <2>1 DEF HashIsLast, Existing
  <2>2. CASE j = id /\ last' = last
    <3>1. rows[id] # NoRow /\ last[id] # 0
      BY <1>4, <2>2
    <3>2. "writtenBack" \notin seen
      OBVIOUS
    <3>3. rows[id].deploy = last[id]
      BY <1>4, <3>1, <3>2 DEF HashIsLast, Existing
    <3> QED BY <1>1, <1>3, <2>2, <3>1, <3>3
  <2>3. CASE j = id /\ last' = [last EXCEPT ![id] = new.deploy] /\ new.deploy # 0
    BY <1>1, <1>3, <2>3
  <2> QED BY <2>1, <2>2, <2>3
<1>12. sent' \subseteq Ids
  BY <1>1 DEF StoreTypes
<1> QED BY <1>2, <1>5, <1>7, <1>8, <1>9, <1>10, <1>11, <1>12 DEF TableFits

-----------------------------------------------------------------------------
\* The state at the start of a step, taken apart.
LEMMA Known0 ==
    ASSUME StoreInv
    PROVE  /\ StoreTypes /\ Len(fate) \in Nat
           /\ rows \in [Ids -> Row \cup {NoRow}] /\ task \in [Tasks -> Task]
           /\ last \in [Ids -> Nat] /\ about \in Seq(Ids) /\ fate \in Seq(Fates)
           /\ Len(about) = Len(fate) /\ DOMAIN about = 1..Len(fate) /\ DOMAIN fate = 1..Len(fate)
           /\ \A id \in Ids : Known(rows[id]) /\ last[id] \in 0..Len(fate)
           /\ "lateStatus" \in seen \/ \A id \in Ids : Truthful(rows[id])
           /\ \A t \in Tasks : task[t] \in Task /\ Fits(task[t])
<1>1. StoreTypes /\ TableFits /\ \A t \in Tasks : Fits(task[t])
  BY DEF StoreInv
<1> QED BY <1>1, LenProperties DEF StoreTypes, TableFits

\* A task that dies holds nothing any more.
LEMMA DiesKeeps ==
    ASSUME StoreInv, NEW t \in Tasks, Dies(t)
    PROVE  StoreInv'
<1>1. /\ task' = [task EXCEPT ![t] = Over]
      /\ UNCHANGED <<rows, sent, fate, about, last, seen>>
  BY DEF Dies, Ends, chain
<1>2. ChainGrows
  BY <1>1, ChainStays, Known0
<1>3. Over \in Task /\ Fits(Over)'
  BY <1>2, NothingHeld, Shapes
<1> QED BY <1>1, <1>3, TaskStep

\* A task that begins by reading a row holds what the table holds.
LEMMA BeginsKeeps ==
    ASSUME StoreInv, NEW t \in Tasks, NEW kind \in {"load", "trade"}, NEW pc \in {"status", "write"},
           NEW id \in Ids, rows[id] # NoRow, Begins(t, kind, pc, id),
           UNCHANGED <<rows, sent, fate, about, last, seen>>
    PROVE  StoreInv'
<1> DEFINE k == [Idle EXCEPT !.kind = kind, !.pc = pc, !.id = id, !.read[id] = rows[id]]
<1>1. /\ Known(rows[id]) /\ ("lateStatus" \in seen \/ Truthful(rows[id]))
      /\ rows[id] \in Row \cup {NoRow} /\ ChainGrows /\ Len(fate) \in Nat
  BY Known0, ChainStays
<1>2. /\ k.kind = kind /\ k.pc = pc /\ k.id = id /\ k.hash = 0 /\ k.left = {}
      /\ k.read = [j \in Ids |-> IF j = id THEN rows[id] ELSE NoRow]
  BY DEF Idle
<1>3. k \in Task
  <2>1. [Idle.read EXCEPT ![id] = rows[id]] \in [Ids -> Row \cup {NoRow}]
    BY <1>1 DEF Idle
  <2>2. Idle \in Task /\ kind \in Kinds /\ pc \in {"", "status", "patch", "write"} /\ id \in Nat
    BY Shapes, IdsAssumption DEF Kinds
  <2> QED BY <2>1, <2>2 DEF Task
<1>4. task' = [task EXCEPT ![t] = k]
  BY DEF Begins
<1> HIDE DEF k
<1>5. PICK r \in Task : r = k
  BY <1>3
<1>6. Fits(r)
  BY <1>1, <1>2, <1>5 DEF Fits, Known, Truthful
<1>7. Fits(r)'
  BY <1>1, <1>6, Known0, TaskStays
<1> QED BY <1>4, <1>5, <1>7, TaskStep

\* The asset page reads a row.
LEMMA LoadTokenKeeps ==
    ASSUME StoreInv, NEW t \in Tasks, NEW id \in Ids, LoadToken(t, id)
    PROVE  StoreInv'
BY BeginsKeeps DEF LoadToken, chain

\* A writer of the cap table reads a row.
LEMMA ReadTokenKeeps ==
    ASSUME StoreInv, NEW t \in Tasks, NEW id \in Ids, ReadToken(t, id)
    PROVE  StoreInv'
BY BeginsKeeps DEF ReadToken, chain

\* The chain executes a transaction: it was pending, so nothing is taken back.
LEMMA ExecuteKeeps ==
    ASSUME StoreInv, NEW h \in DOMAIN fate, Execute(h)
    PROVE  StoreInv'
<1>1. /\ fate[h] = "pending" /\ about' = about /\ UNCHANGED <<rows, task, sent, last, seen>>
      /\ \E f \in Fates : fate' = [fate EXCEPT ![h] = f]
  BY DEF Execute, Fates
<1>2. fate' \in Seq(Fates) /\ Len(fate') = Len(fate) /\ \A g \in 1..Len(fate) : g # h => fate'[g] = fate[g]
  BY <1>1, Known0, ExceptSeq
<1>3. ChainGrows
  BY <1>1, <1>2, Known0 DEF ChainGrows
<1>4. StoreTypes'
  BY <1>1, <1>2, Known0 DEF StoreTypes
<1>5. TableFits' /\ HashIsLast'
  BY <1>1, <1>3, <1>4, TableStays
<1>6. \A u \in Tasks : Fits(task[u])'
  BY <1>1, <1>3, AllTasksStay
<1> QED BY <1>4, <1>5, <1>6 DEF StoreInv

\* A mint without the application is none of its business.
LEMMA MintOutsideKeeps ==
    ASSUME StoreInv, NEW id \in Outside, MintOutside(id)
    PROVE  StoreInv'
<1>1. UNCHANGED <<rows, task, sent, fate, about, last, seen>>
  BY DEF MintOutside
<1>2. ChainGrows /\ StoreTypes'
  BY <1>1, Known0, ChainStays DEF StoreTypes
<1>3. TableFits' /\ HashIsLast'
  BY <1>1, <1>2, TableStays
<1>4. \A u \in Tasks : Fits(task[u])'
  BY <1>1, <1>2, AllTasksStay
<1> QED BY <1>2, <1>3, <1>4 DEF StoreInv

\* A transaction that is sent gets the next hash, and is pending.
LEMMA Submits ==
    ASSUME StoreInv, NEW id \in Ids, Submit(id)
    PROVE  /\ ChainGrows /\ Len(fate') = Len(fate) + 1 /\ about'[Len(fate) + 1] = id
           /\ fate' \in Seq(Fates) /\ about' \in Seq(Ids) /\ Len(about') = Len(fate')
<1>1. fate' = Append(fate, "pending") /\ about' = Append(about, id) /\ "pending" \in Fates
  BY DEF Submit, Fates
<1>2. /\ fate' \in Seq(Fates) /\ Len(fate') = Len(fate) + 1
      /\ \A h \in 1..Len(fate) : fate'[h] = fate[h]
  BY <1>1, Known0, AppendProperties
<1>3. /\ about' \in Seq(Ids) /\ Len(about') = Len(about) + 1 /\ about'[Len(about) + 1] = id
      /\ \A h \in 1..Len(fate) : about'[h] = about[h]
  BY <1>1, Known0, AppendProperties
<1> QED BY <1>2, <1>3, Known0 DEF ChainGrows

\* The mint dialogue sends a mint; the POST that follows finds a hash about its id.
LEMMA MintedKeeps ==
    ASSUME StoreInv, NEW id \in Ids, Minted(id)
    PROVE  StoreInv'
<1>1. Submit(id) /\ sent' = sent \cup {id} /\ UNCHANGED <<rows, task, last, seen>>
  BY DEF Minted
<1>2. /\ ChainGrows /\ Len(fate') = Len(fate) + 1 /\ about'[Len(fate) + 1] = id
      /\ fate' \in Seq(Fates) /\ about' \in Seq(Ids) /\ Len(about') = Len(fate')
  BY <1>1, Submits
<1>3. StoreTypes'
  BY <1>1, <1>2, Known0 DEF StoreTypes
<1>4. \A j \in sent' : j \in sent \/ \E h \in 1..Len(fate') : about'[h] = j
  <2>1. Len(fate) + 1 \in 1..Len(fate')
    BY <1>2, Known0
  <2> QED BY <1>1, <1>2, <2>1
<1>5. TableFits' /\ HashIsLast'
  BY <1>1, <1>2, <1>3, <1>4, TableStays
<1>6. \A u \in Tasks : Fits(task[u])'
  BY <1>1, <1>2, AllTasksStay
<1> QED BY <1>3, <1>5, <1>6 DEF StoreInv

\* A step of one task that writes one row.
LEMMA WriteStep ==
    ASSUME StoreInv, NEW t \in Tasks, NEW k \in Task, task' = [task EXCEPT ![t] = k], Fits(k)',
           fate' = fate, about' = about, seen \subseteq seen',
           rows' \in [Ids -> Row \cup {NoRow}], sent' \subseteq Ids, last' \in [Ids -> Nat],
           TableFits', HashIsLast'
    PROVE  StoreInv'
<1>1. ChainGrows
  BY Known0, ChainStays
<1>2. task' \in [Tasks -> Task] /\ \A u \in Tasks : Fits(task[u])'
  BY <1>1, TasksStay
<1>3. StoreTypes'
  BY <1>2, Known0 DEF StoreTypes
<1> QED BY <1>2, <1>3 DEF StoreInv

\* The task that has written is over.
LEMMA LastWrite ==
    ASSUME StoreInv, NEW t \in Tasks, Ends(t), fate' = fate, about' = about, seen \subseteq seen',
           rows' \in [Ids -> Row \cup {NoRow}], sent' \subseteq Ids, last' \in [Ids -> Nat],
           TableFits', HashIsLast'
    PROVE  StoreInv'
<1>1. ChainGrows
  BY Known0, ChainStays
<1>2. Over \in Task /\ Fits(Over)'
  BY <1>1, NothingHeld, Shapes
<1> QED BY <1>2, WriteStep DEF Ends

\* What a mark says.
LEMMA Marked ==
    ASSUME NEW id, NEW hash, NEW mark, Marks(id, hash, mark)
    PROVE  /\ seen \subseteq seen'
           /\ rows[id] # NoRow /\ hash # 0 /\ hash # rows[id].deploy => mark \in seen'
BY DEF Marks

\* What the nodes answer: "confirmed" only of what has been executed.
LEMMA StatusKnown ==
    ASSUME NEW h \in 0..Len(fate), NEW s \in getDeployStatus(h, fate)
    PROVE  s \in Statuses /\ (s = "confirmed" => h # 0 /\ Executed(h))
<1>1. CASE h = 0
  BY <1>1 DEF getDeployStatus, Statuses
<1>2. CASE h # 0
  <2>1. s \in getDeployStatusFromNode(fate[h])
    BY <1>2 DEF getDeployStatus
  <2>2. s \in Statuses /\ (s = "confirmed" => fate[h] = "success")
    BY <2>1 DEF getDeployStatusFromNode, FromTransaction, FromDeploy, Statuses
  <2> QED BY <1>2, <2>2 DEF Executed
<1> QED BY <1>1, <1>2

\* The POST of a minted token finds the first hash that is about its id.
LEMMA FirstHashKnown ==
    ASSUME StoreInv, NEW id \in sent
    PROVE  FirstHash(id) \in 1..Len(fate)
<1> DEFINE C == {h \in 1..Len(fate) : about[h] = id}
<1>1. C # {} /\ C \subseteq Nat
  BY DEF StoreInv, TableFits
<1>2. PICK h \in C : \A g \in C : h <= g
  BY <1>1, LeastNumber
<1>3. h \in DOMAIN about /\ about[h] = id /\ \A g \in DOMAIN about : about[g] = id => h <= g
  BY <1>2, Known0
<1>4. FirstHash(id) \in DOMAIN about
  BY <1>3 DEF FirstHash
<1> QED BY <1>4, Known0

\* What is left of a sync or a seed has a first row, and it was read.
LEMMA NextLeft ==
    ASSUME StoreInv, NEW t \in Tasks, task[t].left # {}
    PROVE  LET id == CHOOSE i \in task[t].left : \A j \in task[t].left : i <= j
           IN  /\ id \in task[t].left /\ id \in Ids
               /\ task[t].read[id] \in Row /\ task[t].read[id] # NoRow
<1> DEFINE id == CHOOSE i \in task[t].left : \A j \in task[t].left : i <= j
<1>1. task[t] \in Task /\ Fits(task[t])
  BY Known0
<1>2. task[t].left \subseteq Nat
  BY <1>1, IdsAssumption DEF Task
<1>3. PICK i \in task[t].left : \A j \in task[t].left : i <= j
  BY <1>2, LeastNumber
<1>4. id \in task[t].left
  BY <1>3
<1> HIDE DEF id
<1>5. id \in Ids /\ task[t].read[id] \in Row /\ task[t].read[id] # NoRow
  BY <1>1, <1>4 DEF Fits, Task
<1> QED BY <1>4, <1>5 DEF id

\* The POST of a minted token, the first record of its hash.
LEMMA PostTokenKeeps ==
    ASSUME StoreInv, NEW id \in Ids, PostToken(id)
    PROVE  StoreInv'
<1>1. /\ id \in sent /\ sent' = sent \ {id}
      /\ UNCHANGED <<task, fate, about, seen>> /\ ChainGrows
  BY Known0, ChainStays DEF PostToken, chain
<1>2. FirstHash(id) \in 1..Len(fate)
  BY <1>1, FirstHashKnown
<1>3. StoreTypes' /\ TableFits' /\ HashIsLast'
  <2>1. CASE UNCHANGED <<rows, last>>
    <3>1. StoreTypes'
      BY <1>1, <2>1, Known0 DEF StoreTypes
    <3> QED BY <1>1, <2>1, <3>1, TableStays
  <2>2. CASE /\ upsertToken(id, [Body EXCEPT !.owner = "key", !.deploy = FirstHash(id), !.minted = "mint",
                                             !.meta = TRUE, !.holders = 1])
             /\ last' = [last EXCEPT ![id] = FirstHash(id)]
    <3> DEFINE new == [Body EXCEPT !.owner = "key", !.deploy = FirstHash(id), !.minted = "mint",
                                   !.meta = TRUE, !.holders = 1]
    <3>1. /\ new.deploy = FirstHash(id) /\ new.status = "pending" /\ new.minted = "mint"
      BY DEF Body
    <3>2. new \in Row
      <4>1. FirstHash(id) \in Nat
        BY <1>2
      <4>2. 1 \in 0..MaxHolders
        BY BoundsAssumption
      <4>3. Body \in Row
        BY Shapes
      <4> QED BY <4>1, <4>2, <4>3 DEF Row
    <3> HIDE DEF new
    <3>3. new.deploy \in 0..Len(fate) /\ new.deploy # 0
      BY <1>2, <3>1
    <3>4. upsertToken(id, new) /\ last' = [last EXCEPT ![id] = new.deploy]
      BY <2>2, <3>1 DEF new
    <3>5. /\ rows' \in [Ids -> Row \cup {NoRow}] /\ sent' \subseteq Ids /\ last' \in [Ids -> Nat]
          /\ TableFits' /\ HashIsLast'
      BY <1>1, <3>1, <3>2, <3>3, <3>4, WriteKeeps
    <3> QED BY <1>1, <3>5, Known0 DEF StoreTypes
  <2> QED BY <2>1, <2>2 DEF PostToken
<1>4. \A u \in Tasks : Fits(task[u])'
  BY <1>1, AllTasksStay
<1> QED BY <1>3, <1>4 DEF StoreInv

\* The answer of chain-assets is about the hash of the row as it is then.
LEMMA ChainAssetsKeeps ==
    ASSUME StoreInv, NEW t \in Tasks, ChainAssets(t)
    PROVE  StoreInv'
<1> DEFINE id == task[t].id
<1>1. /\ task[t].kind = "load" /\ rows[id] # NoRow
      /\ UNCHANGED <<rows, sent, fate, about, last, seen>>
  BY DEF ChainAssets, At, chain
<1>2. PICK s \in getDeployStatus(rows[id].deploy, fate) :
          task' = [task EXCEPT ![t] = IF s # task[t].read[id].status
                        THEN [Idle EXCEPT !.kind = "load", !.pc = "patch", !.id = id,
                                          !.hash = rows[id].deploy, !.status = s]
                        ELSE Over]
  BY Known0 DEF ChainAssets
<1>3. id \in Ids /\ rows[id].deploy \in 0..Len(fate) /\ ChainGrows /\ Len(fate) \in Nat
  BY <1>1, Known0, ChainStays DEF Fits, Known
<1>4. s \in Statuses /\ (s = "confirmed" => Executed(rows[id].deploy))
  BY <1>2, <1>3, StatusKnown
<1>5. CASE task' = [task EXCEPT ![t] = Over]
  BY <1>1, <1>3, <1>5, NothingHeld, Shapes, TaskStep
<1>6. CASE task' = [task EXCEPT ![t] = [Idle EXCEPT !.kind = "load", !.pc = "patch", !.id = id,
                                              !.hash = rows[id].deploy, !.status = s]]
  <2> DEFINE k == [Idle EXCEPT !.kind = "load", !.pc = "patch", !.id = id,
                               !.hash = rows[id].deploy, !.status = s]
  <2>1. /\ k.kind = "load" /\ k.pc = "patch" /\ k.id = id /\ k.hash = rows[id].deploy /\ k.left = {}
        /\ k.status = s /\ k.read = [j \in Ids |-> NoRow]
    BY DEF Idle
  <2>2. k \in Task
    <3>1. id \in Nat
      BY <1>3, IdsAssumption
    <3>2. rows[id].deploy \in Nat
      BY <1>3
    <3> HIDE DEF id
    <3> QED BY <1>4, <3>1, <3>2, Shapes DEF Task, Kinds
  <2> HIDE DEF k
  <2>3. PICK r \in Task : r = k
    BY <2>2
  <2>4. Fits(r)
    BY <1>3, <1>4, <2>1, <2>3 DEF Fits, Known, Truthful
  <2>5. Fits(r)'
    BY <1>1, <1>3, <2>4, Known0, TaskStays
  <2>6. task' = [task EXCEPT ![t] = r]
    BY <1>6, <2>3 DEF k
  <2> QED BY <1>1, <2>5, <2>6, TaskStep
<1> QED BY <1>2, <1>5, <1>6

\* The status of one hash is written: under the same hash, or with a mark.
LEMMA PatchStatusKeeps ==
    ASSUME StoreInv, NEW t \in Tasks, PatchStatus(t)
    PROVE  StoreInv'
<1> DEFINE id == task[t].id
           new == [Body EXCEPT !.status = task[t].status]
<1>1. /\ task[t].kind = "load" /\ task[t].pc = "patch" /\ rows[id] # NoRow
      /\ upsertToken(id, new) /\ Marks(id, task[t].hash, "lateStatus") /\ Ends(t)
      /\ UNCHANGED <<sent, fate, about, last>>
  BY DEF PatchStatus, At, chain
<1>2. /\ id \in Ids /\ task[t].status \in Statuses /\ task[t].hash \in 0..Len(fate)
      /\ "lateStatus" \in seen \/ (task[t].status = "confirmed" => Executed(task[t].hash))
  BY <1>1, Known0 DEF Fits, Task
<1>3. /\ new.deploy = 0 /\ new.status = task[t].status
  BY DEF Body
<1>4. new \in Row
  BY <1>2, Shapes DEF Row
<1>5. /\ seen \subseteq seen'
      /\ task[t].hash # 0 /\ task[t].hash # rows[id].deploy => "lateStatus" \in seen'
  BY <1>1, Marked
<1>6. \/ "lateStatus" \in seen'
      \/ new.status # "confirmed"
      \/ new.deploy = 0 /\ rows[id] # NoRow /\ Executed(rows[id].deploy)
  <2> SUFFICES ASSUME "lateStatus" \notin seen', new.status = "confirmed"
               PROVE  Executed(rows[id].deploy)
    BY <1>1, <1>3
  <2>1. Executed(task[t].hash)
    BY <1>2, <1>3, <1>5
  <2>2. task[t].hash # 0
    BY <2>1 DEF Executed
  <2> QED BY <1>5, <2>1, <2>2
<1>7. Len(fate) \in Nat
  BY Known0
<1> HIDE DEF id, new
<1>8. /\ rows' \in [Ids -> Row \cup {NoRow}] /\ sent' \subseteq Ids /\ last' \in [Ids -> Nat]
      /\ TableFits' /\ HashIsLast'
  BY <1>1, <1>2, <1>3, <1>4, <1>5, <1>6, <1>7, WriteKeeps
<1> QED BY <1>1, <1>5, <1>8, LastWrite

\* "failed" is written by hand.
LEMMA MarkFailedKeeps ==
    ASSUME StoreInv, NEW id \in Ids, MarkFailed(id)
    PROVE  StoreInv'
<1> DEFINE new == [Body EXCEPT !.status = "failed"]
<1>1. upsertToken(id, new) /\ UNCHANGED <<task, sent, fate, about, last, seen>>
  BY DEF MarkFailed, chain
<1>2. /\ new.deploy = 0 /\ new.status = "failed"
  BY DEF Body
<1>3. new \in Row
  BY Shapes DEF Row
<1>4. Len(fate) \in Nat /\ ChainGrows
  BY <1>1, Known0, ChainStays
<1> HIDE DEF new
<1>5. /\ rows' \in [Ids -> Row \cup {NoRow}] /\ sent' \subseteq Ids /\ last' \in [Ids -> Nat]
      /\ TableFits' /\ HashIsLast'
  BY <1>1, <1>2, <1>3, <1>4, WriteKeeps
<1>6. StoreTypes'
  BY <1>1, <1>5, Known0 DEF StoreTypes
<1>7. \A u \in Tasks : Fits(task[u])'
  BY <1>1, <1>4, AllTasksStay
<1> QED BY <1>5, <1>6, <1>7 DEF StoreInv

\* A re-mint knows the hash of the transaction it has sent.
LEMMA RemintKeeps ==
    ASSUME StoreInv, NEW t \in Tasks, Remint(t)
    PROVE  StoreInv'
<1> DEFINE id == task[t].id
           k == [Idle EXCEPT !.kind = "remint", !.pc = "patch", !.id = id, !.hash = Len(fate) + 1]
<1>1. /\ task[t].kind = "load" /\ Submit(id) /\ task' = [task EXCEPT ![t] = k]
      /\ UNCHANGED <<rows, sent, last, seen>>
  BY DEF Remint, BannerShown, At
<1>2. id \in Ids /\ Len(fate) \in Nat
  BY <1>1, Known0 DEF Fits
<1>3. /\ ChainGrows /\ Len(fate') = Len(fate) + 1
      /\ fate' \in Seq(Fates) /\ about' \in Seq(Ids) /\ Len(about') = Len(fate')
  BY <1>1, <1>2, Submits
<1>4. /\ k.kind = "remint" /\ k.id = id /\ k.hash = Len(fate) + 1 /\ k.left = {}
      /\ k.read = [j \in Ids |-> NoRow]
  BY DEF Idle
<1>5. k \in Task
  <2>1. id \in Nat
    BY <1>2, IdsAssumption
  <2>2. Len(fate) + 1 \in Nat
    BY <1>2
  <2> HIDE DEF id
  <2> QED BY <2>1, <2>2, Shapes DEF Task, Kinds
<1> HIDE DEF k, id
<1>6. PICK r \in Task : r = k
  BY <1>5
<1>7. PICK i \in Ids : i = id
  BY <1>2
<1>8. Fits(r)'
  BY <1>2, <1>3, <1>4, <1>6, <1>7 DEF Fits, Known, Truthful
<1>9. task' \in [Tasks -> Task] /\ \A u \in Tasks : Fits(task[u])'
  BY <1>1, <1>3, <1>6, <1>8, TasksStay
<1>10. StoreTypes'
  BY <1>1, <1>3, <1>9, Known0 DEF StoreTypes
<1>11. TableFits' /\ HashIsLast'
  BY <1>1, <1>3, <1>10, TableStays
<1> QED BY <1>9, <1>10, <1>11 DEF StoreInv

\* The new hash is recorded.
LEMMA PatchHashKeeps ==
    ASSUME StoreInv, NEW t \in Tasks, PatchHash(t)
    PROVE  StoreInv'
<1> DEFINE id == task[t].id
           new == [Body EXCEPT !.deploy = task[t].hash]
<1>1. /\ task[t].kind = "remint" /\ upsertToken(id, new) /\ Ends(t)
      /\ last' = [last EXCEPT ![id] = task[t].hash]
      /\ UNCHANGED <<sent, fate, about, seen>>
  BY DEF PatchHash, At, chain
<1>2. id \in Ids /\ task[t].hash \in 0..Len(fate) /\ task[t].hash # 0 /\ Len(fate) \in Nat
  BY <1>1, Known0 DEF Fits
<1>3. new.deploy = task[t].hash /\ new.status = "pending" /\ new.minted = "write"
  BY DEF Body
<1>4. new \in Row
  <2>1. task[t].hash \in Nat
    BY <1>2
  <2> QED BY <2>1, Shapes DEF Row
<1> HIDE DEF id, new
<1>5. /\ rows' \in [Ids -> Row \cup {NoRow}] /\ sent' \subseteq Ids /\ last' \in [Ids -> Nat]
      /\ TableFits' /\ HashIsLast'
  BY <1>1, <1>2, <1>3, <1>4, WriteKeeps
<1> QED BY <1>1, <1>5, LastWrite

\* A row is written back as it was read, with new holders.
LEMMA WriteHoldersKeeps ==
    ASSUME StoreInv, NEW t \in Tasks, WriteHolders(t)
    PROVE  StoreInv'
<1> DEFINE id == task[t].id
           old == task[t].read[id]
           new == [old EXCEPT !.holders = IF @ < MaxHolders THEN @ + 1 ELSE @]
<1>1. /\ task[t].kind = "trade" /\ upsertToken(id, new) /\ Marks(id, old.deploy, "writtenBack")
      /\ Ends(t) /\ UNCHANGED <<sent, fate, about, last>>
  BY DEF WriteHolders, At, chain
<1>2. /\ id \in Ids /\ old # NoRow /\ Known(old) /\ old \in Row /\ Len(fate) \in Nat
      /\ "lateStatus" \in seen \/ Truthful(old)
  BY <1>1, Known0 DEF Fits, Task
<1>3. new \in Row /\ new.deploy = old.deploy /\ new.status = old.status
  <2> HIDE DEF old
  <2>1. (IF old.holders < MaxHolders THEN old.holders + 1 ELSE old.holders) \in 0..MaxHolders
    <3>1. old.holders \in 0..MaxHolders
      BY <1>2 DEF Row
    <3>2. MaxHolders \in Nat
      BY BoundsAssumption
    <3> QED BY <3>1, <3>2
  <2> QED BY <1>2, <2>1 DEF Row
<1>4. /\ seen \subseteq seen'
      /\ rows[id] # NoRow /\ old.deploy # 0 /\ old.deploy # rows[id].deploy => "writtenBack" \in seen'
  BY <1>1, Marked
<1>5. new.deploy \in 0..Len(fate)
  BY <1>2, <1>3 DEF Known
<1>6. \/ "lateStatus" \in seen'
      \/ new.status # "confirmed"
      \/ new.deploy # 0 /\ Executed(new.deploy)
  BY <1>2, <1>3, <1>4 DEF Truthful, Executed
<1> HIDE DEF id, old, new
<1>7. /\ rows' \in [Ids -> Row \cup {NoRow}] /\ sent' \subseteq Ids /\ last' \in [Ids -> Nat]
      /\ TableFits' /\ HashIsLast'
  BY <1>1, <1>2, <1>3, <1>4, <1>5, <1>6, WriteKeeps
<1> QED BY <1>1, <1>4, <1>7, LastWrite

\* What the sync takes from the chain and the table are rows, confirmed only if they
\* were.
LEMMA FoundRows ==
    ASSUME StoreInv, NEW id \in Ids
    PROVE  /\ Found[id] \in Row \cup {NoRow} /\ Known(Found[id])
           /\ "lateStatus" \in seen \/ Truthful(Found[id])
<1>1. /\ rows[id] \in Row \cup {NoRow} /\ Known(rows[id]) /\ Len(fate) \in Nat
      /\ "lateStatus" \in seen \/ Truthful(rows[id])
  BY Known0
<1>2. FromChain(id) \in Row /\ FromChain(id).status = "unknown" /\ FromChain(id).deploy \in 0..Len(fate)
  <2> DEFINE ex == IF rows[id] = NoRow THEN [Body EXCEPT !.minted = "zero", !.status = "unknown"]
                                       ELSE rows[id]
  <2>1. ex \in Row /\ ex.deploy \in 0..Len(fate)
    <3>1. CASE rows[id] = NoRow
      <4>1. ex = [Body EXCEPT !.minted = "zero", !.status = "unknown"]
        BY <3>1
      <4>2. Body \in Row /\ Body.deploy = 0 /\ "unknown" \in Statuses
        BY Shapes
      <4> HIDE DEF ex
      <4>3. ex \in Row /\ ex.deploy = 0
        BY <4>1, <4>2 DEF Row
      <4> QED BY <1>1, <4>3
    <3>2. CASE rows[id] # NoRow
      BY <1>1, <3>2 DEF Known
    <3> QED BY <3>1, <3>2
  <2>2. FromChain(id) = [ex EXCEPT !.owner = "hash", !.meta = TRUE, !.status = "unknown"]
    BY DEF FromChain
  <2> HIDE DEF ex
  <2> QED BY <2>1, <2>2, Shapes DEF Row
<1>3. Found[id] = FromChain(id) \/ Found[id] = rows[id]
  BY DEF Found
<1> QED BY <1>1, <1>2, <1>3 DEF Known, Truthful

\* The sync begins.
LEMMA BeginSyncKeeps ==
    ASSUME StoreInv, NEW t \in Tasks, BeginSync(t)
    PROVE  StoreInv'
<1> DEFINE k == [Idle EXCEPT !.kind = "sync", !.pc = "status", !.read = Found,
                             !.left = {id \in Ids : Found[id] # NoRow}]
<1>1. task' = [task EXCEPT ![t] = k] /\ UNCHANGED <<rows, sent, fate, about, last, seen>>
  BY DEF BeginSync, chain
<1>2. /\ k.kind = "sync" /\ k.hash = 0 /\ k.read = Found /\ k.left = {id \in Ids : Found[id] # NoRow}
  BY DEF Idle
<1>3. Found \in [Ids -> Row \cup {NoRow}]
  BY FoundRows DEF Found
<1>4. k \in Task
  BY <1>3, Shapes DEF Task, Kinds
<1> HIDE DEF k
<1>5. PICK r \in Task : r = k
  BY <1>4
<1>6. Len(fate) \in Nat /\ StoreTypes /\ ChainGrows
  BY <1>1, Known0, ChainStays
<1>7. Fits(r)
  BY <1>2, <1>5, <1>6, FoundRows DEF Fits
<1>8. Fits(r)'
  BY <1>1, <1>6, <1>7, TaskStays
<1> QED BY <1>1, <1>5, <1>8, TaskStep

\* The statuses of a sync come back, each about the hash of the row it goes to.
LEMMA BatchKeeps ==
    ASSUME StoreInv, NEW t \in Tasks, batchDeployStatus(t)
    PROVE  StoreInv'
<1> DEFINE old == task[t].read
           asked == {id \in task[t].left : old[id].deploy # 0}
<1>1. task[t].kind = "sync" /\ UNCHANGED <<rows, sent, fate, about, last, seen>>
  BY DEF batchDeployStatus, At, chain
<1>2. PICK answer \in [asked -> Statuses] :
          /\ \A id \in asked : answer[id] \in getDeployStatus(old[id].deploy, fate)
          /\ task' = [task EXCEPT ![t].pc = "write",
                        ![t].read = [id \in Ids |-> IF id \in asked
                                                    THEN [old[id] EXCEPT !.status = answer[id]]
                                                    ELSE old[id]]]
  BY DEF batchDeployStatus
<1>3. /\ task[t] \in Task /\ Fits(task[t]) /\ Len(fate) \in Nat /\ StoreTypes /\ ChainGrows
      /\ task \in [Tasks -> Task]
  BY <1>1, Known0, ChainStays
<1>4. /\ old \in [Ids -> Row \cup {NoRow}] /\ task[t].left \subseteq Ids /\ task[t].hash \in 0..Len(fate)
      /\ \A id \in Ids : Known(old[id]) /\ ("lateStatus" \in seen \/ Truthful(old[id]))
      /\ \A id \in task[t].left : old[id] # NoRow
  BY <1>3 DEF Fits, Task
<1> DEFINE new == [id \in Ids |-> IF id \in asked THEN [old[id] EXCEPT !.status = answer[id]] ELSE old[id]]
           k == [task[t] EXCEPT !.pc = "write", !.read = new]
<1>5. \A id \in Ids : /\ new[id] \in Row \cup {NoRow} /\ Known(new[id])
                      /\ "lateStatus" \in seen \/ Truthful(new[id])
                      /\ old[id] # NoRow => new[id] # NoRow
  <2> TAKE id \in Ids
  <2>1. CASE id \notin asked
    BY <1>4, <2>1
  <2>2. CASE id \in asked
    <3>1. /\ old[id] \in Row /\ old[id].deploy \in 0..Len(fate)
      BY <1>4, <2>2 DEF Known
    <3>2. answer[id] \in Statuses /\ (answer[id] = "confirmed" => Executed(old[id].deploy))
      BY <1>2, <2>2, <3>1, StatusKnown
    <3>3. PICK o \in Row : o = old[id]
      BY <3>1
    <3>4. new[id] = [o EXCEPT !.status = answer[id]]
      BY <2>2, <3>3
    <3>5. new[id] \in Row /\ new[id].deploy = o.deploy /\ new[id].status = answer[id]
      <4> HIDE DEF new
      <4> QED BY <3>2, <3>4 DEF Row
    <3> QED BY <3>1, <3>2, <3>3, <3>5, RowAssumption DEF Known, Truthful
  <2> QED BY <2>1, <2>2
<1>6. new \in [Ids -> Row \cup {NoRow}]
  BY <1>5
<1>7. task' = [task EXCEPT ![t] = k]
  BY <1>2, <1>3
<1> HIDE DEF old, asked, new
<1>8. /\ k.kind = "sync" /\ k.hash = task[t].hash /\ k.read = new /\ k.left = task[t].left /\ k.pc = "write"
      /\ k \in Task
  BY <1>1, <1>3, <1>6 DEF Task
<1> HIDE DEF k
<1>9. PICK r \in Task : r = k
  BY <1>8
<1>10. Fits(r)
  BY <1>3, <1>4, <1>5, <1>8, <1>9 DEF Fits
<1>11. Fits(r)'
  BY <1>1, <1>3, <1>10, TaskStays
<1> QED BY <1>1, <1>7, <1>9, <1>11, TaskStep

\* A sync or a seed writes its next row as it was read.
LEMMA BulkUpsertKeeps ==
    ASSUME StoreInv, NEW t \in Tasks, bulkUpsert(t)
    PROVE  StoreInv'
<1> DEFINE id == CHOOSE i \in task[t].left : \A j \in task[t].left : i <= j
           new == task[t].read[id]
           k == [task[t] EXCEPT !.left = @ \ {id}]
<1>1. /\ task[t].kind \in {"sync", "seed"} /\ task[t].left # {}
      /\ upsertToken(id, new) /\ Marks(id, new.deploy, "writtenBack")
      /\ task' = [task EXCEPT ![t].left = @ \ {id}]
      /\ UNCHANGED <<sent, fate, about, last>>
  BY DEF bulkUpsert, chain
<1>2. /\ task[t] \in Task /\ Fits(task[t]) /\ Len(fate) \in Nat /\ StoreTypes /\ ChainGrows
      /\ task \in [Tasks -> Task]
  BY <1>1, Known0, ChainStays
<1>3. id \in task[t].left
  BY <1>1, NextLeft
<1>4. /\ id \in Ids /\ new # NoRow /\ new \in Row /\ Known(new)
      /\ "lateStatus" \in seen \/ Truthful(new)
  BY <1>2, <1>3 DEF Fits, Task
<1>5. task' = [task EXCEPT ![t] = k]
  BY <1>1, <1>2
<1>6. /\ k \in Task /\ k.kind = task[t].kind /\ k.read = task[t].read /\ k.hash = task[t].hash
      /\ k.left \subseteq task[t].left
  BY <1>2 DEF Task
<1>7. /\ seen \subseteq seen'
      /\ rows[id] # NoRow /\ new.deploy # 0 /\ new.deploy # rows[id].deploy => "writtenBack" \in seen'
  BY <1>1, Marked
<1>8. new.deploy \in 0..Len(fate)
  BY <1>4 DEF Known
<1>9. \/ "lateStatus" \in seen'
      \/ new.status # "confirmed"
      \/ new.deploy # 0 /\ Executed(new.deploy)
  <2> HIDE DEF new
  <2> QED BY <1>4, <1>7 DEF Truthful, Executed
<1> HIDE DEF id, new, k
<1>10. /\ rows' \in [Ids -> Row \cup {NoRow}] /\ sent' \subseteq Ids /\ last' \in [Ids -> Nat]
      /\ TableFits' /\ HashIsLast'
  BY <1>1, <1>2, <1>4, <1>7, <1>8, <1>9, WriteKeeps
<1>11. PICK r \in Task : r = k
  BY <1>6
<1>12. Fits(r)
  BY <1>1, <1>2, <1>6, <1>11 DEF Fits
<1>13. Fits(r)'
  BY <1>2, <1>7, <1>12, TaskStays
<1> QED BY <1>1, <1>5, <1>7, <1>10, <1>11, <1>13, WriteStep

\* The rows that are deleted have no recorded hash.
LEMMA DeleteKeeps ==
    ASSUME StoreInv, NEW t \in Tasks, deleteEmptyTokens(t)
    PROVE  StoreInv'
<1>1. /\ rows' = [id \in Ids |-> IF id \in Existing /\ Empty(rows[id]) THEN NoRow ELSE rows[id]]
      /\ Ends(t) /\ UNCHANGED <<sent, fate, about, last, seen>>
  BY DEF deleteEmptyTokens, chain
<1>2. /\ TableFits /\ HashIsLast
      /\ rows \in [Ids -> Row \cup {NoRow}] /\ last \in [Ids -> Nat] /\ sent \subseteq Ids
  BY DEF StoreInv, StoreTypes
<1>3. rows' \in [Ids -> Row \cup {NoRow}] /\ \A id \in Ids : rows'[id] \in {NoRow, rows[id]}
  BY <1>1, <1>2
<1>4. TableFits'
  <2>1. \A id \in Ids : Known(rows[id])' /\ last'[id] \in 0..Len(fate')
    BY <1>1, <1>2, <1>3 DEF TableFits, Known
  <2>2. \A id \in Ids : last'[id] # 0 => rows'[id] # NoRow /\ ~Empty(rows'[id])
    BY <1>1, <1>2 DEF TableFits
  <2>3. "lateStatus" \in seen' \/ \A id \in Ids : Truthful(rows[id])'
    BY <1>1, <1>2, <1>3 DEF TableFits, Truthful, Executed
  <2>4. \A id \in sent' : \E h \in 1..Len(fate') : about'[h] = id
    BY <1>1, <1>2 DEF TableFits
  <2> QED BY <2>1, <2>2, <2>3, <2>4 DEF TableFits, Empty
<1>5. HashIsLast'
  BY <1>1, <1>2, <1>3 DEF HashIsLast, Existing
<1> QED BY <1>1, <1>2, <1>3, <1>4, <1>5, LastWrite

\* The rows of tokens.json have no hash.
LEMMA SeedKeeps ==
    ASSUME StoreInv, NEW t \in Tasks, Seed(t)
    PROVE  StoreInv'
<1> DEFINE new(full) == [Body EXCEPT !.owner = "key", !.meta = full,
                                     !.minted = IF full THEN "mint" ELSE "zero"]
           k(full) == [Idle EXCEPT !.kind = "seed", !.pc = "write", !.left = Legacy,
                             !.read = [id \in Ids |-> IF id \in Legacy THEN new(full) ELSE NoRow]]
<1>1. PICK full \in BOOLEAN : task' = [task EXCEPT ![t] = k(full)]
  BY DEF Seed
<1>2. UNCHANGED <<rows, sent, fate, about, last, seen>>
  BY DEF Seed, chain
<1>3. new(full) \in Row /\ new(full).deploy = 0 /\ new(full).status = "pending" /\ new(full) # NoRow
  <2>1. new(full) \in Row
    BY Shapes DEF Row
  <2>2. new(full).deploy = 0 /\ new(full).status = "pending"
    BY DEF Body
  <2> QED BY <2>1, <2>2, RowAssumption
<1> HIDE DEF new
<1>4. /\ k(full).kind = "seed" /\ k(full).hash = 0 /\ k(full).left = Legacy
      /\ k(full).read = [id \in Ids |-> IF id \in Legacy THEN new(full) ELSE NoRow]
  BY DEF Idle
<1>5. k(full) \in Task
  <2>1. [id \in Ids |-> IF id \in Legacy THEN new(full) ELSE NoRow] \in [Ids -> Row \cup {NoRow}]
    BY <1>3
  <2>2. Legacy \in SUBSET Ids
    BY IdsAssumption
  <2> QED BY <2>1, <2>2, Shapes DEF Task, Kinds
<1> HIDE DEF k
<1>6. PICK r \in Task : r = k(full)
  BY <1>5
<1>7. Len(fate) \in Nat /\ StoreTypes /\ ChainGrows
  BY <1>2, Known0, ChainStays
<1>8. Fits(r)
  BY <1>3, <1>4, <1>6, <1>7, IdsAssumption DEF Fits, Known, Truthful
<1>9. Fits(r)'
  BY <1>2, <1>7, <1>8, TaskStays
<1> QED BY <1>1, <1>2, <1>6, <1>9, TaskStep

-----------------------------------------------------------------------------
\* At the start the table is empty.
LEMMA StoreStarts == Init => StoreInv
<1> SUFFICES ASSUME Init PROVE StoreInv
  OBVIOUS
<1>1. fate = <<>> /\ about = <<>> /\ Len(fate) = 0 /\ fate \in Seq(Fates) /\ about \in Seq(Ids)
  BY EmptySeq DEF Init
<1>2. rows \in [Ids -> Row \cup {NoRow}] /\ \A id \in Ids : rows[id] = NoRow
  BY DEF Init
<1>3. task \in [Tasks -> Task] /\ \A t \in Tasks : task[t] = Idle
  BY Shapes DEF Init
<1>4. last \in [Ids -> Nat] /\ (\A id \in Ids : last[id] = 0) /\ sent = {}
  BY DEF Init
<1>5. StoreTypes
  BY <1>1, <1>2, <1>3, <1>4 DEF StoreTypes
<1>6. TableFits /\ HashIsLast
  BY <1>1, <1>2, <1>4 DEF TableFits, HashIsLast, Existing, Known, Truthful
<1>7. \A t \in Tasks : Fits(task[t])
  <2>1. Idle.hash = 0 /\ Idle.left = {} /\ (\A id \in Ids : Idle.read[id] = NoRow) /\ Idle.kind = "idle"
    BY Shapes
  <2>2. Fits(Idle)
    BY <1>1, <2>1 DEF Fits, Known, Truthful
  <2> QED BY <1>3, <2>2
<1> QED BY <1>5, <1>6, <1>7 DEF StoreInv

\* Every step keeps it.
LEMMA StoreGoesOn == StoreInv /\ [Next]_vars => StoreInv'
<1> SUFFICES ASSUME StoreInv, [Next]_vars PROVE StoreInv'
  OBVIOUS
<1>1. CASE UNCHANGED vars
  <2>1. UNCHANGED <<rows, task, sent, fate, about, last, seen>>
    BY <1>1 DEF vars, chain
  <2>2. ChainGrows /\ StoreTypes'
    BY <2>1, Known0, ChainStays DEF StoreTypes
  <2>3. TableFits' /\ HashIsLast'
    BY <2>1, <2>2, TableStays
  <2>4. \A u \in Tasks : Fits(task[u])'
    BY <2>1, <2>2, AllTasksStay
  <2> QED BY <2>2, <2>3, <2>4 DEF StoreInv
<1>2. CASE \E h \in DOMAIN fate : Execute(h)
  BY <1>2, ExecuteKeeps
<1>3. CASE \E id \in Outside : MintOutside(id)
  BY <1>3, MintOutsideKeeps
<1>4. CASE \E id \in Ids : Minted(id) \/ PostToken(id) \/ MarkFailed(id)
  BY <1>4, MintedKeeps, PostTokenKeeps, MarkFailedKeeps
<1>5. CASE \E t \in Tasks : \/ Dies(t)
                            \/ ChainAssets(t) \/ PatchStatus(t) \/ Remint(t) \/ PatchHash(t)
                            \/ WriteHolders(t)
  BY <1>5, DiesKeeps, ChainAssetsKeeps, PatchStatusKeeps, RemintKeeps, PatchHashKeeps,
     WriteHoldersKeeps
<1>6. CASE \E t \in Tasks : \/ BeginSync(t) \/ batchDeployStatus(t) \/ bulkUpsert(t)
                            \/ deleteEmptyTokens(t) \/ Seed(t)
  BY <1>6, BeginSyncKeeps, BatchKeeps, BulkUpsertKeeps, DeleteKeeps, SeedKeeps
<1>7. CASE \E t \in Tasks : \E id \in Ids : LoadToken(t, id) \/ ReadToken(t, id)
  BY <1>7, LoadTokenKeeps, ReadTokenKeeps
<1> QED BY <1>1, <1>2, <1>3, <1>4, <1>5, <1>6, <1>7 DEF Next

\* What the tasks and the table hold, whatever is interleaved.
THEOREM StoreInvariant == Spec => []StoreInv
<1>1. Init => StoreInv
  BY StoreStarts
<1>2. StoreInv /\ [Next]_vars => StoreInv'
  BY StoreGoesOn
<1> QED BY <1>1, <1>2, PTL DEF Spec

\* A token is shown as confirmed only if its mint was executed with success, unless
\* the asset page wrote the status of a hash after a re-mint had replaced it.
THEOREM ConfirmedMeansExecuted == Spec => []ConfirmedIsExecuted
<1>1. StoreInv => ConfirmedIsExecuted
  <2> SUFFICES ASSUME StoreInv, "lateStatus" \notin seen, NEW id \in Existing,
                      rows[id].status = "confirmed"
               PROVE  rows[id].deploy # 0 /\ fate[rows[id].deploy] = "success"
    BY DEF ConfirmedIsExecuted
  <2>1. Truthful(rows[id]) /\ rows[id] # NoRow
    BY DEF StoreInv, TableFits, Existing
  <2> QED BY <2>1 DEF Truthful, Executed
<1> QED BY <1>1, StoreInvariant, PTL

\* The hash of a row is the last one recorded, unless a writer put back a row that
\* it had read before that record.
THEOREM LastHashIsKept == Spec => []HashIsLast
<1>1. StoreInv => HashIsLast
  BY DEF StoreInv
<1> QED BY <1>1, StoreInvariant, PTL

\* One write keeps what the row has.
LEMMA UpsertKeepsRow ==
    ASSUME StoreInv, NEW id \in Ids, NEW new \in Row, upsertToken(id, new),
           NEW j \in Ids, rows[j] # NoRow, rows[j].meta
    PROVE  /\ rows'[j] # NoRow /\ rows'[j].meta
           /\ rows[j].owner # "" => rows'[j].owner # ""
           /\ rows[j].deploy # 0 => rows'[j].deploy # 0
           /\ rows[j].holders # 0 => rows'[j].holders # 0
<1>1. /\ \A i \in Ids \ {id} : rows'[i] = rows[i]
      /\ rows'[id] # NoRow
      /\ rows[id] # NoRow => rows[id] \in Row /\ rows'[id] = Merge(rows[id], new)
  BY Known0, Upserted
<1>2. CASE j # id
  BY <1>1, <1>2
<1>3. CASE j = id
  <2>1. PICK old \in Row : old = rows[id]
    BY <1>1, <1>3
  <2>2. /\ Merge(old, new) \in Row /\ Merge(old, new).status = new.status
        /\ Merge(old, new).deploy = IF new.deploy # 0 THEN new.deploy ELSE old.deploy
        /\ Merge(old, new).owner = IF new.owner # "" THEN new.owner ELSE old.owner
        /\ Merge(old, new).holders = IF new.holders # 0 THEN new.holders ELSE old.holders
        /\ Merge(old, new).meta = (new.meta \/ old.meta)
        /\ Merge(old, new).minted = IF new.minted # "zero" THEN new.minted ELSE old.minted
    BY Merged
  <2> QED BY <1>1, <1>3, <2>1, <2>2
<1> QED BY <1>2, <1>3

\* Every write of the table is a write of a row of the right shape, or a delete of
\* empty rows.
LEMMA WritesAreRows ==
    ASSUME StoreInv, [Next]_vars
    PROVE  \/ rows' = rows
           \/ \E id \in Ids : \E new \in Row : upsertToken(id, new)
           \/ \E t \in Tasks : deleteEmptyTokens(t)
<1>1. CASE UNCHANGED vars
  BY <1>1 DEF vars
<1>2. CASE \E h \in DOMAIN fate : Execute(h)
  BY <1>2 DEF Execute
<1>3. CASE \E id \in Outside : MintOutside(id)
  BY <1>3 DEF MintOutside
<1>4. CASE \E id \in Ids : Minted(id)
  BY <1>4 DEF Minted
<1>5. ASSUME NEW id \in Ids, PostToken(id)
      PROVE  rows' = rows \/ \E new \in Row : upsertToken(id, new)
  <2>1. FirstHash(id) \in Nat /\ 1 \in 0..MaxHolders
    <3>1. FirstHash(id) \in 1..Len(fate)
      BY <1>5, FirstHashKnown DEF PostToken
    <3>2. FirstHash(id) \in Nat
      BY <3>1
    <3>3. 1 \in 0..MaxHolders
      BY BoundsAssumption
    <3> QED BY <3>2, <3>3
  <2> DEFINE new == [Body EXCEPT !.owner = "key", !.deploy = FirstHash(id), !.minted = "mint",
                                 !.meta = TRUE, !.holders = 1]
  <2>2. Body \in Row
    BY Shapes
  <2>3. new \in Row
    BY <2>1, <2>2 DEF Row
  <2>4. rows' = rows \/ upsertToken(id, new)
    BY <1>5 DEF PostToken
  <2> HIDE DEF new
  <2> QED BY <2>3, <2>4
<1>6. ASSUME NEW id \in Ids, MarkFailed(id)
      PROVE  \E new \in Row : upsertToken(id, new)
  <2>1. [Body EXCEPT !.status = "failed"] \in Row
    BY Shapes DEF Row
  <2> QED BY <1>6, <2>1 DEF MarkFailed
<1>7. ASSUME NEW t \in Tasks, PatchStatus(t)
      PROVE  \E id \in Ids : \E new \in Row : upsertToken(id, new)
  <2>1. task[t].id \in Ids /\ task[t].status \in Statuses
    BY <1>7, Known0 DEF PatchStatus, At, Fits, Task
  <2>2. [Body EXCEPT !.status = task[t].status] \in Row
    BY <2>1, Shapes DEF Row
  <2> QED BY <1>7, <2>1, <2>2 DEF PatchStatus
<1>8. ASSUME NEW t \in Tasks, PatchHash(t)
      PROVE  \E id \in Ids : \E new \in Row : upsertToken(id, new)
  <2>1. task[t].id \in Ids /\ task[t].hash \in Nat
    BY <1>8, Known0 DEF PatchHash, At, Fits, Task
  <2>2. [Body EXCEPT !.deploy = task[t].hash] \in Row
    BY <2>1, Shapes DEF Row
  <2> QED BY <1>8, <2>1, <2>2 DEF PatchHash
<1>9. ASSUME NEW t \in Tasks, WriteHolders(t)
      PROVE  \E id \in Ids : \E new \in Row : upsertToken(id, new)
  <2>1. task[t].kind = "trade" /\ task[t] \in Task /\ Fits(task[t])
    BY <1>9, Known0 DEF WriteHolders, At
  <2>2. task[t].id \in Ids /\ task[t].read[task[t].id] \in Row
    BY <2>1 DEF Fits, Task
  <2>3. PICK id \in Ids, old \in Row : id = task[t].id /\ old = task[t].read[task[t].id]
    BY <2>2
  <2>4. old.holders \in 0..MaxHolders
    BY DEF Row
  <2>5. MaxHolders \in Nat
    BY BoundsAssumption
  <2>6. (IF old.holders < MaxHolders THEN old.holders + 1 ELSE old.holders) \in 0..MaxHolders
    BY <2>4, <2>5
  <2>7. [old EXCEPT !.holders = IF @ < MaxHolders THEN @ + 1 ELSE @] \in Row
    BY <2>6 DEF Row
  <2>8. upsertToken(id, [old EXCEPT !.holders = IF @ < MaxHolders THEN @ + 1 ELSE @])
    BY <1>9, <2>3 DEF WriteHolders
  <2> QED BY <2>7, <2>8
<1>10. ASSUME NEW t \in Tasks, bulkUpsert(t)
       PROVE  \E id \in Ids : \E new \in Row : upsertToken(id, new)
  <2> DEFINE id == CHOOSE i \in task[t].left : \A j \in task[t].left : i <= j
  <2>1. upsertToken(id, task[t].read[id]) /\ task[t].left # {}
    BY <1>10 DEF bulkUpsert
  <2>2. id \in Ids /\ task[t].read[id] \in Row
    BY <2>1, NextLeft
  <2> HIDE DEF id
  <2> QED BY <2>1, <2>2
<1>11. CASE \E t \in Tasks : \/ Dies(t) \/ ChainAssets(t) \/ Remint(t)
                             \/ BeginSync(t) \/ batchDeployStatus(t) \/ Seed(t)
                             \/ \E id \in Ids : LoadToken(t, id) \/ ReadToken(t, id)
  BY <1>11 DEF Dies, ChainAssets, Remint, BeginSync, batchDeployStatus, Seed, LoadToken, ReadToken
<1> QED BY <1>1, <1>2, <1>3, <1>4, <1>5, <1>6, <1>7, <1>8, <1>9, <1>10, <1>11 DEF Next

\* A row with metadata stays, and its owner, hash and cap table are never emptied.
THEOREM NoTokenIsLost == Spec => TokensAreKept
<1>1. StoreInv /\ [Next]_vars =>
        [\A id \in Existing : rows[id].meta =>
              /\ rows'[id] # NoRow /\ rows'[id].meta
              /\ rows[id].owner # "" => rows'[id].owner # ""
              /\ rows[id].deploy # 0 => rows'[id].deploy # 0
              /\ rows[id].holders # 0 => rows'[id].holders # 0]_rows
  <2> SUFFICES ASSUME StoreInv, [Next]_vars, rows' # rows, NEW j \in Existing, rows[j].meta
               PROVE  /\ rows'[j] # NoRow /\ rows'[j].meta
                      /\ rows[j].owner # "" => rows'[j].owner # ""
                      /\ rows[j].deploy # 0 => rows'[j].deploy # 0
                      /\ rows[j].holders # 0 => rows'[j].holders # 0
    OBVIOUS
  <2>1. j \in Ids /\ rows[j] # NoRow
    BY DEF Existing
  <2>2. CASE \E id \in Ids : \E new \in Row : upsertToken(id, new)
    BY <2>1, <2>2, UpsertKeepsRow
  <2>3. CASE \E t \in Tasks : deleteEmptyTokens(t)
    <3>1. rows'[j] = rows[j]
      BY <2>1, <2>3 DEF deleteEmptyTokens, Empty
    <3> QED BY <2>1, <3>1
  <2> QED BY <2>2, <2>3, WritesAreRows
<1> QED BY <1>1, StoreInvariant, PTL DEF Spec, TokensAreKept

(***************************************************************************)
(* The votes of the application's database (Votes), for any voters, names, *)
(* instances and tabs.  The rows of the votes are counted against the      *)
(* tallies together with the handlers that are about to update one and the *)
(* votes whose update was lost.                                            *)
(***************************************************************************)
\* Only so many votes are in flight at the same time.
TabsAssumption == IsFiniteSet(Tabs)

RowIds == Names \cup {"PROP-001", "PROP-002", "PROP-003"}
ProposalRow == [id : RowIds, status : {"Active", "Passed"}, for : Nat, against : Nat, quorum : Nat]
Ballot == [pc : {"idle", "chain", "check", "insert", "tally"}, voter : Voters \cup {""},
           id : RowIds \cup {""}, choice : {"for", "against"}]

VoteTypes ==
    /\ proposals \in Seq(ProposalRow)
    /\ tab \in [Tabs -> Ballot]
    /\ instance \in [Instances -> {"cold", "empty", "warm"}]
    /\ IsFiniteSet(votes) /\ IsFiniteSet(uncounted)

\* The primary key, and that nothing comes before the seeds.
RowsOK ==
    /\ \A i, j \in 1..Len(proposals) : proposals[i].id = proposals[j].id => i = j
    /\ proposals # <<>> => \A s \in {"PROP-001", "PROP-002", "PROP-003"} : V!HasRow(s)
    /\ (\E i \in Instances : instance[i] = "warm") => proposals # <<>>

\* Whatever is counted is a vote of its own, for a proposal that is there.
VotesKnown ==
    /\ \A v \in votes : V!HasRow(v.id)
    /\ \A t \in Tabs : tab[t].pc \in {"insert", "tally"} => V!HasRow(tab[t].id)
    /\ \A t \in Tabs : tab[t].pc = "tally" =>
          /\ V!Voted(tab[t].id, tab[t].voter)
          /\ [id |-> tab[t].id, voter |-> tab[t].voter] \notin uncounted
    /\ \A t, u \in Tabs : tab[t].pc = "tally" /\ tab[u].pc = "tally" =>
          (tab[t].id = tab[u].id /\ tab[t].voter = tab[u].voter => t = u)
    /\ \A u \in uncounted : V!Voted(u.id, u.voter)

Waiting(id) == {t \in Tabs : tab[t].pc = "tally" /\ tab[t].id = id}
WaitingFor(id) == {t \in Waiting(id) : tab[t].choice = "for"}
LostOn(id) == {u \in uncounted : u.id = id}
Cast(id) == {v \in votes : v.id = id}
CastFor(id) == {v \in Cast(id) : v.choice = "for"}

Balanced(p, s, waiting, lost, inBox, waitingFor, castFor) ==
    /\ (p.for - s.for) + (p.against - s.against) + waiting + lost = inBox
    /\ (p.for - s.for) + waitingFor <= castFor
    /\ p.quorum = IF s.quorum + ((p.for - s.for) + (p.against - s.against)) < 100
                  THEN s.quorum + ((p.for - s.for) + (p.against - s.against)) ELSE 100
TallyOK(p) == Balanced(p, V!SeedOf(p), Cardinality(Waiting(p.id)), Cardinality(LostOn(p.id)),
                       Cardinality(Cast(p.id)), Cardinality(WaitingFor(p.id)),
                       Cardinality(CastFor(p.id)))

VotesInv ==
    /\ VoteTypes /\ RowsOK /\ VotesKnown
    /\ \A i \in 1..Len(proposals) : TallyOK(proposals[i])

\* What a seed starts from, and what a proposal of the application starts from.
LEMMA SeedIs ==
    ASSUME NEW p
    PROVE  /\ p.id = "PROP-003" => V!SeedOf(p) = V!Proposal("PROP-003", "Passed", 201, 45, 100)
           /\ p.id = "PROP-001" => V!SeedOf(p) = V!Proposal("PROP-001", "Active", 142, 38, 79)
           /\ p.id = "PROP-002" => V!SeedOf(p) = V!Proposal("PROP-002", "Active", 89, 12, 56)
           /\ p.id \notin {"PROP-001", "PROP-002", "PROP-003"} =>
                 V!SeedOf(p) = V!Proposal(p.id, "Active", 0, 0, 0)
<1>1. /\ DOMAIN V!Seeds = 1..3
      /\ V!Seeds[1] = V!Proposal("PROP-003", "Passed", 201, 45, 100)
      /\ V!Seeds[2] = V!Proposal("PROP-001", "Active", 142, 38, 79)
      /\ V!Seeds[3] = V!Proposal("PROP-002", "Active", 89, 12, 56)
  BY DEF V!Seeds
<1>2. V!Seeds[1].id = "PROP-003" /\ V!Seeds[2].id = "PROP-001" /\ V!Seeds[3].id = "PROP-002"
  BY <1>1 DEF V!Proposal
<1>3. ASSUME NEW n \in 1..3, V!Seeds[n].id = p.id PROVE V!SeedOf(p) = V!Seeds[n]
  <2>1. \A i \in 1..3 : V!Seeds[i].id = p.id => i = n
    BY <1>2, <1>3
  <2>2. PICK c : c = CHOOSE i \in DOMAIN V!Seeds : V!Seeds[i].id = p.id
    OBVIOUS
  <2>3. c = n
    BY <1>1, <1>3, <2>1, <2>2
  <2>4. \E i \in DOMAIN V!Seeds : V!Seeds[i].id = p.id
    BY <1>1, <1>3
  <2>5. V!SeedOf(p) = V!Seeds[c]
    BY <2>2, <2>4 DEF V!SeedOf
  <2> QED BY <2>3, <2>5
<1>4. ASSUME p.id \notin {"PROP-001", "PROP-002", "PROP-003"}
      PROVE  V!SeedOf(p) = V!Proposal(p.id, "Active", 0, 0, 0)
  <2>1. ~ \E i \in DOMAIN V!Seeds : V!Seeds[i].id = p.id
    BY <1>1, <1>2, <1>4
  <2> QED BY <2>1 DEF V!SeedOf
<1> QED BY <1>1, <1>2, <1>3, <1>4

\* It depends on the id alone, and its quorum is a percentage.
LEMMA SeedType ==
    ASSUME NEW p, NEW q, p.id = q.id
    PROVE  /\ V!SeedOf(p) = V!SeedOf(q)
           /\ V!SeedOf(p).for \in Nat /\ V!SeedOf(p).against \in Nat
           /\ V!SeedOf(p).quorum \in 0..100
<1>1. V!SeedOf(p) = V!SeedOf(q)
  BY SeedIs
<1>2. /\ V!SeedOf(p).for \in Nat /\ V!SeedOf(p).against \in Nat
      /\ V!SeedOf(p).quorum \in 0..100
  BY SeedIs DEF V!Proposal
<1> QED BY <1>1, <1>2

\* All of it can be counted.
LEMMA CountsAre ==
    ASSUME TabsAssumption, VoteTypes, NEW id
    PROVE  /\ IsFiniteSet(Waiting(id)) /\ Cardinality(Waiting(id)) \in Nat
           /\ IsFiniteSet(WaitingFor(id)) /\ Cardinality(WaitingFor(id)) \in Nat
           /\ IsFiniteSet(LostOn(id)) /\ Cardinality(LostOn(id)) \in Nat
           /\ IsFiniteSet(Cast(id)) /\ Cardinality(Cast(id)) \in Nat
           /\ IsFiniteSet(CastFor(id)) /\ Cardinality(CastFor(id)) \in Nat
<1>1. /\ Waiting(id) \subseteq Tabs /\ WaitingFor(id) \subseteq Tabs
      /\ LostOn(id) \subseteq uncounted /\ Cast(id) \subseteq votes /\ CastFor(id) \subseteq votes
  BY DEF Waiting, WaitingFor, LostOn, Cast, CastFor
<1>2. IsFiniteSet(Tabs) /\ IsFiniteSet(votes) /\ IsFiniteSet(uncounted)
  BY DEF TabsAssumption, VoteTypes
<1>3. /\ IsFiniteSet(Waiting(id)) /\ IsFiniteSet(WaitingFor(id)) /\ IsFiniteSet(LostOn(id))
      /\ IsFiniteSet(Cast(id)) /\ IsFiniteSet(CastFor(id))
  BY <1>1, <1>2, FS_Subset
<1> QED BY <1>3, FS_CardinalityType

\* A row is found by its id.
LEMMA RowIs ==
    ASSUME VoteTypes, RowsOK, NEW id, V!HasRow(id)
    PROVE  V!Row(id) \in 1..Len(proposals) /\ proposals[V!Row(id)].id = id
<1>1. DOMAIN proposals = 1..Len(proposals)
  BY LenProperties DEF VoteTypes
<1> QED BY <1>1 DEF V!HasRow, V!Row

\* Rows are there as long as their ids are.
LEMMA HasRowIs ==
    ASSUME VoteTypes
    PROVE  /\ \A id : V!HasRow(id) <=> \E i \in 1..Len(proposals) : proposals[i].id = id
           /\ DOMAIN proposals = 1..Len(proposals) /\ Len(proposals) \in Nat
<1>1. DOMAIN proposals = 1..Len(proposals) /\ Len(proposals) \in Nat
  BY LenProperties DEF VoteTypes
<1> QED BY <1>1 DEF V!HasRow

\* A step of a handler that inserts and counts nothing, or of an instance.
LEMMA TabMoves ==
    ASSUME TabsAssumption, VotesInv, UNCHANGED <<proposals, votes, uncounted>>,
           tab' \in [Tabs -> Ballot], instance' \in [Instances -> {"cold", "empty", "warm"}],
           \A t \in Tabs : tab'[t].pc = "tally" \/ tab[t].pc = "tally" => tab'[t] = tab[t],
           \A t \in Tabs : tab'[t].pc = "insert" => V!HasRow(tab'[t].id),
           (\E i \in Instances : instance'[i] = "warm") => proposals # <<>>
    PROVE  VotesInv'
<1>1. VoteTypes /\ RowsOK /\ VotesKnown /\ \A i \in 1..Len(proposals) : TallyOK(proposals[i])
  BY DEF VotesInv
<1>2. VoteTypes'
  BY <1>1 DEF VoteTypes
<1>3. \A id : V!HasRow(id)' <=> V!HasRow(id)
  BY DEF V!HasRow
<1>4. \A id, w : V!Voted(id, w)' <=> V!Voted(id, w)
  BY DEF V!Voted
<1>5. RowsOK'
  BY <1>1, <1>3 DEF RowsOK
<1>6. VotesKnown'
  <2>1. \A v \in votes : V!HasRow(v.id)'
    BY <1>1, <1>3 DEF VotesKnown
  <2>2. \A t \in Tabs : tab'[t].pc \in {"insert", "tally"} => V!HasRow(tab'[t].id)
    BY <1>1 DEF VotesKnown
  <2>3. \A t \in Tabs : tab'[t].pc \in {"insert", "tally"} => V!HasRow(tab[t].id)'
    BY <1>3, <2>2 DEF V!HasRow
  <2>4. \A t \in Tabs : tab'[t].pc = "tally" =>
          /\ V!Voted(tab'[t].id, tab'[t].voter)
          /\ [id |-> tab'[t].id, voter |-> tab'[t].voter] \notin uncounted
    BY <1>1 DEF VotesKnown
  <2>5. \A t \in Tabs : tab'[t].pc = "tally" =>
          /\ V!Voted(tab[t].id, tab[t].voter)'
          /\ [id |-> tab'[t].id, voter |-> tab'[t].voter] \notin uncounted'
    BY <2>4 DEF V!Voted
  <2>6. \A t, u \in Tabs : tab'[t].pc = "tally" /\ tab'[u].pc = "tally" =>
          (tab'[t].id = tab'[u].id /\ tab'[t].voter = tab'[u].voter => t = u)
    BY <1>1 DEF VotesKnown
  <2>7. \A u \in uncounted : V!Voted(u.id, u.voter)'
    BY <1>1, <1>4 DEF VotesKnown
  <2> QED BY <2>1, <2>3, <2>5, <2>6, <2>7 DEF VotesKnown
<1>7. \A id : /\ Waiting(id)' = Waiting(id) /\ WaitingFor(id)' = WaitingFor(id)
              /\ LostOn(id)' = LostOn(id) /\ Cast(id)' = Cast(id) /\ CastFor(id)' = CastFor(id)
  <2>1. \A id : Waiting(id)' = Waiting(id)
    BY DEF Waiting
  <2>2. \A id : WaitingFor(id)' = WaitingFor(id)
    BY <2>1 DEF WaitingFor, Waiting
  <2> QED BY <2>1, <2>2 DEF LostOn, Cast, CastFor
<1>8. ASSUME NEW i \in 1..Len(proposals) PROVE TallyOK(proposals[i])'
  <2>1. PICK d : d = proposals[i].id
    OBVIOUS
  <2>2. /\ Cardinality(Waiting(d))' = Cardinality(Waiting(d))
        /\ Cardinality(WaitingFor(d))' = Cardinality(WaitingFor(d))
        /\ Cardinality(LostOn(d))' = Cardinality(LostOn(d))
        /\ Cardinality(Cast(d))' = Cardinality(Cast(d))
        /\ Cardinality(CastFor(d))' = Cardinality(CastFor(d))
    BY <1>7
  <2> QED BY <1>1, <2>1, <2>2 DEF TallyOK
<1> QED BY <1>2, <1>5, <1>6, <1>8 DEF VotesInv

\* What a vote and a loss do to the balance.
LEMMA BalanceMoves ==
    ASSUME NEW p, p.for \in Nat, p.against \in Nat, p.quorum \in Nat,
           NEW s, s.for \in Nat, s.against \in Nat, s.quorum \in 0..100,
           NEW w \in Nat, NEW l \in Nat, NEW c \in Nat, NEW wf \in Nat, NEW cf \in Nat,
           NEW vf \in {0, 1}, Balanced(p, s, w, l, c, wf, cf)
    PROVE  /\ Balanced(p, s, w + 1, l, c + 1, wf + vf, cf + vf)
           /\ Balanced(p, s, w - 1, l + 1, c, wf - vf, cf)
<1>1. PICK n \in Int : n = (p.for - s.for) + (p.against - s.against)
  OBVIOUS
<1>2. PICK f \in Int : f = p.for - s.for
  OBVIOUS
<1>3. /\ n + w + l = c /\ f + wf <= cf
      /\ p.quorum = IF s.quorum + n < 100 THEN s.quorum + n ELSE 100
  BY <1>1, <1>2 DEF Balanced
<1>4. Balanced(p, s, w + 1, l, c + 1, wf + vf, cf + vf)
  <2>1. n + (w + 1) + l = c + 1 /\ f + (wf + vf) <= cf + vf
    BY <1>3
  <2> QED BY <1>1, <1>2, <1>3, <2>1 DEF Balanced
<1>5. Balanced(p, s, w - 1, l + 1, c, wf - vf, cf)
  <2>1. n + (w - 1) + (l + 1) = c /\ f + (wf - vf) <= cf
    BY <1>3
  <2> QED BY <1>1, <1>2, <1>3, <2>1 DEF Balanced
<1> QED BY <1>4, <1>5

\* Votes, waiting handlers and lost ones after a step, one by one.
LEMMA VotesGrow ==
    ASSUME TabsAssumption, VotesInv, NEW t \in Tabs, V!InsertVote(t),
           ~V!Voted(tab[t].id, tab[t].voter)
    PROVE  VotesInv'
<1>1. VoteTypes /\ RowsOK /\ VotesKnown /\ \A i \in 1..Len(proposals) : TallyOK(proposals[i])
  BY DEF VotesInv
<1>2. PICK b : b = tab[t]
  OBVIOUS
<1>3. PICK v : v = [id |-> b.id, voter |-> b.voter, choice |-> b.choice]
  OBVIOUS
<1>4. /\ b \in Ballot /\ b.pc = "insert" /\ votes' = votes \cup {v}
      /\ tab' = [tab EXCEPT ![t] = [b EXCEPT !.pc = "tally"]]
      /\ UNCHANGED <<proposals, instance, uncounted>>
      /\ \A u \in votes : ~(u.id = b.id /\ u.voter = b.voter)
  <2>1. tab[t] \in Ballot /\ t \in DOMAIN tab
    BY <1>1 DEF VoteTypes
  <2>2. /\ b.pc = "insert" /\ votes' = votes \cup {v} /\ tab' = [tab EXCEPT ![t].pc = "tally"]
        /\ UNCHANGED <<proposals, instance, uncounted>>
    BY <1>2, <1>3 DEF V!InsertVote, V!Busy, V!Goes
  <2>3. \A u \in votes : ~(u.id = b.id /\ u.voter = b.voter)
    BY <1>2 DEF V!Voted
  <2> QED BY <1>2, <2>1, <2>2, <2>3
<1>5. PICK k : k = [b EXCEPT !.pc = "tally"]
  OBVIOUS
<1>6. /\ k \in Ballot /\ k.pc = "tally" /\ k.id = b.id /\ k.voter = b.voter /\ k.choice = b.choice
      /\ tab' \in [Tabs -> Ballot] /\ tab'[t] = k /\ \A u \in Tabs \ {t} : tab'[u] = tab[u]
      /\ v.id = b.id /\ v.voter = b.voter /\ v.choice = b.choice /\ v \notin votes
  <2>1. k \in Ballot /\ k.pc = "tally" /\ k.id = b.id /\ k.voter = b.voter /\ k.choice = b.choice
    BY <1>4, <1>5 DEF Ballot
  <2>2. tab' \in [Tabs -> Ballot] /\ tab'[t] = k /\ \A u \in Tabs \ {t} : tab'[u] = tab[u]
    BY <1>1, <1>4, <1>5, <2>1 DEF VoteTypes
  <2>3. v.id = b.id /\ v.voter = b.voter /\ v.choice = b.choice
    BY <1>3
  <2> QED BY <1>4, <2>1, <2>2, <2>3
<1>7. VoteTypes'
  <2>1. IsFiniteSet(votes \cup {v})
    BY <1>1, FS_AddElement DEF VoteTypes
  <2> QED BY <1>1, <1>4, <1>6, <2>1 DEF VoteTypes
<1>8. \A id : V!HasRow(id)' <=> V!HasRow(id)
  BY <1>4 DEF V!HasRow
<1>9. RowsOK'
  BY <1>1, <1>4, <1>8 DEF RowsOK
<1>10. VotesKnown'
  <2>1. V!HasRow(b.id)
    BY <1>1, <1>2, <1>4 DEF VotesKnown
  <2>2. \A u \in votes' : V!HasRow(u.id)'
    BY <1>1, <1>4, <1>6, <1>8, <2>1 DEF VotesKnown
  <2>3. \A u \in Tabs : tab'[u].pc \in {"insert", "tally"} => V!HasRow(tab'[u].id)
    BY <1>1, <1>6, <2>1 DEF VotesKnown
  <2>4. \A u \in Tabs : tab'[u].pc \in {"insert", "tally"} => V!HasRow(tab[u].id)'
    BY <1>4, <2>3 DEF V!HasRow
  <2>5. \A id, w : V!Voted(id, w)' <=> V!Voted(id, w) \/ (id = b.id /\ w = b.voter)
    BY <1>4, <1>6 DEF V!Voted
  <2>6. \A u \in uncounted : V!Voted(u.id, u.voter) /\ ~V!Voted(b.id, b.voter)
    BY <1>1, <1>2 DEF VotesKnown
  <2>7. [id |-> b.id, voter |-> b.voter] \notin uncounted
    BY <2>6
  <2>8. \A u \in Tabs : tab'[u].pc = "tally" =>
          /\ V!Voted(tab'[u].id, tab'[u].voter) \/ u = t
          /\ [id |-> tab'[u].id, voter |-> tab'[u].voter] \notin uncounted
    BY <1>1, <1>6, <2>7 DEF VotesKnown
  <2>9. \A u \in Tabs : tab'[u].pc = "tally" =>
          /\ V!Voted(tab[u].id, tab[u].voter)'
          /\ [id |-> tab'[u].id, voter |-> tab'[u].voter] \notin uncounted'
    BY <1>4, <1>6, <2>8 DEF V!Voted
  <2>10. \A u \in Tabs \ {t} : tab[u].pc = "tally" => ~(tab[u].id = b.id /\ tab[u].voter = b.voter)
    <3>1. \A u \in Tabs \ {t} : tab[u].pc = "tally" => V!Voted(tab[u].id, tab[u].voter)
      BY <1>1 DEF VotesKnown
    <3>2. ~V!Voted(b.id, b.voter)
      BY <1>2
    <3> QED BY <1>4, <3>1 DEF V!Voted
  <2>11. \A u, w \in Tabs : tab'[u].pc = "tally" /\ tab'[w].pc = "tally" =>
          (tab'[u].id = tab'[w].id /\ tab'[u].voter = tab'[w].voter => u = w)
    <3> TAKE u, w \in Tabs
    <3>1. CASE u = t \/ w = t
      BY <1>6, <2>10, <3>1
    <3>2. CASE u # t /\ w # t
      BY <1>1, <1>6, <3>2 DEF VotesKnown
    <3> QED BY <3>1, <3>2
  <2>12. \A u \in uncounted' : V!Voted(u.id, u.voter)'
    BY <1>1, <1>4, <2>5 DEF VotesKnown
  <2> QED BY <2>2, <2>4, <2>9, <2>11, <2>12 DEF VotesKnown
<1>11. ASSUME NEW i \in 1..Len(proposals) PROVE TallyOK(proposals[i])'
  <2>1. PICK d : d = proposals[i].id
    OBVIOUS
  <2>2. PICK p : p = proposals[i]
    OBVIOUS
  <2>3. Balanced(p, V!SeedOf(p), Cardinality(Waiting(d)), Cardinality(LostOn(d)), Cardinality(Cast(d)),
                 Cardinality(WaitingFor(d)), Cardinality(CastFor(d)))
    BY <1>1, <2>1, <2>2 DEF TallyOK
  <2>4. LostOn(d)' = LostOn(d)
    BY <1>4 DEF LostOn
  <2>5. /\ IsFiniteSet(Waiting(d)) /\ IsFiniteSet(WaitingFor(d)) /\ IsFiniteSet(Cast(d)) /\ IsFiniteSet(CastFor(d))
        /\ Cardinality(Waiting(d)) \in Nat /\ Cardinality(LostOn(d)) \in Nat /\ Cardinality(Cast(d)) \in Nat
        /\ Cardinality(WaitingFor(d)) \in Nat /\ Cardinality(CastFor(d)) \in Nat
    BY <1>1, CountsAre
  <2>6. p \in ProposalRow /\ p.for \in Nat /\ p.against \in Nat /\ p.quorum \in Nat
        /\ V!SeedOf(p).for \in Nat /\ V!SeedOf(p).against \in Nat /\ V!SeedOf(p).quorum \in 0..100
    <3>1. p \in ProposalRow
      BY <1>1, <2>2, ElementOfSeq DEF VoteTypes
    <3> QED BY <3>1, SeedType DEF ProposalRow
  <2>7. CASE d # b.id
    <3>1. /\ Waiting(d)' = Waiting(d) /\ Cast(d)' = Cast(d)
      BY <1>2, <1>4, <1>6, <2>7 DEF Waiting, Cast
    <3>2. /\ WaitingFor(d)' = WaitingFor(d) /\ CastFor(d)' = CastFor(d)
      BY <1>2, <1>4, <1>6, <2>7, <3>1 DEF WaitingFor, CastFor, Waiting
    <3>3. Balanced(p, V!SeedOf(p), Cardinality(Waiting(d))', Cardinality(LostOn(d))', Cardinality(Cast(d))',
                   Cardinality(WaitingFor(d))', Cardinality(CastFor(d))')
      BY <2>3, <2>4, <3>1, <3>2
    <3> QED BY <1>4, <2>1, <2>2, <3>3 DEF TallyOK
  <2>8. CASE d = b.id
    <3>1. /\ Waiting(d)' = Waiting(d) \cup {t} /\ t \notin Waiting(d)
          /\ Cast(d)' = Cast(d) \cup {v} /\ v \notin Cast(d)
      BY <1>2, <1>4, <1>6, <2>8 DEF Waiting, Cast
    <3>2. /\ Cardinality(Waiting(d))' = Cardinality(Waiting(d)) + 1
          /\ Cardinality(Cast(d))' = Cardinality(Cast(d)) + 1
      BY <2>5, <3>1, FS_AddElement
    <3>3. \E vf \in {0, 1} : /\ Cardinality(WaitingFor(d))' = Cardinality(WaitingFor(d)) + vf
                             /\ Cardinality(CastFor(d))' = Cardinality(CastFor(d)) + vf
      <4>1. CASE b.choice = "for"
        <5>1. /\ WaitingFor(d)' = WaitingFor(d) \cup {t} /\ t \notin WaitingFor(d)
              /\ CastFor(d)' = CastFor(d) \cup {v} /\ v \notin CastFor(d)
          BY <1>6, <3>1, <4>1 DEF WaitingFor, CastFor, Waiting
        <5> QED BY <2>5, <5>1, FS_AddElement
      <4>2. CASE b.choice # "for"
        <5>1. WaitingFor(d)' = WaitingFor(d) /\ CastFor(d)' = CastFor(d)
          BY <1>6, <3>1, <4>2 DEF WaitingFor, CastFor, Waiting
        <5> QED BY <2>5, <5>1
      <4> QED BY <4>1, <4>2
    <3>4. Cardinality(LostOn(d))' = Cardinality(LostOn(d))
      BY <2>4
    <3>5. Balanced(p, V!SeedOf(p), Cardinality(Waiting(d))', Cardinality(LostOn(d))', Cardinality(Cast(d))',
                   Cardinality(WaitingFor(d))', Cardinality(CastFor(d))')
      <4>1. PICK vf \in {0, 1} : /\ Cardinality(WaitingFor(d))' = Cardinality(WaitingFor(d)) + vf
                                 /\ Cardinality(CastFor(d))' = Cardinality(CastFor(d)) + vf
        BY <3>3
      <4>2. Balanced(p, V!SeedOf(p), Cardinality(Waiting(d)) + 1, Cardinality(LostOn(d)),
                     Cardinality(Cast(d)) + 1, Cardinality(WaitingFor(d)) + vf, Cardinality(CastFor(d)) + vf)
        BY <2>3, <2>5, <2>6, BalanceMoves
      <4> QED BY <3>2, <3>4, <4>1, <4>2
    <3> QED BY <1>4, <2>1, <2>2, <3>5 DEF TallyOK
  <2> QED BY <2>7, <2>8
<1> QED BY <1>4, <1>7, <1>9, <1>10, <1>11 DEF VotesInv

\* A handler that was to update a tally is through with it, or was lost: what is left.
LEMMA TabEnds ==
    ASSUME VoteTypes, VotesKnown, NEW t \in Tabs, tab[t].pc = "tally",
           tab' = [tab EXCEPT ![t] = V!Idle], votes' = votes,
           \A id : V!HasRow(id) => V!HasRow(id)',
           uncounted' \in {uncounted, uncounted \cup {[id |-> tab[t].id, voter |-> tab[t].voter]}}
    PROVE  /\ tab' \in [Tabs -> Ballot] /\ VotesKnown'
           /\ \A id : /\ Waiting(id)' = Waiting(id) \ {t} /\ WaitingFor(id)' = WaitingFor(id) \ {t}
                      /\ Cast(id)' = Cast(id) /\ CastFor(id)' = CastFor(id)
           /\ [id |-> tab[t].id, voter |-> tab[t].voter] \notin uncounted
<1>1. V!Idle \in Ballot /\ V!Idle.pc = "idle"
  BY DEF V!Idle, Ballot
<1>2. /\ tab \in [Tabs -> Ballot] /\ tab' \in [Tabs -> Ballot] /\ tab'[t].pc = "idle"
      /\ \A u \in Tabs \ {t} : tab'[u] = tab[u]
  BY <1>1 DEF VoteTypes
<1>3. PICK b : b = tab[t]
  OBVIOUS
<1>4. PICK m : m = [id |-> b.id, voter |-> b.voter]
  OBVIOUS
<1>5. V!Voted(b.id, b.voter) /\ m \notin uncounted
  BY <1>3, <1>4 DEF VotesKnown
<1>6. VotesKnown'
  <2>1. \A v \in votes : V!HasRow(v.id)'
    BY DEF VotesKnown
  <2>2. \A u \in Tabs : tab'[u].pc \in {"insert", "tally"} => V!HasRow(tab'[u].id)
    BY <1>2 DEF VotesKnown
  <2>3. ASSUME NEW u \in Tabs, tab'[u].pc \in {"insert", "tally"} PROVE V!HasRow(tab[u].id)'
    <3>1. PICK d : d = tab'[u].id
      OBVIOUS
    <3>2. V!HasRow(d)'
      BY <2>2, <2>3, <3>1
    <3> QED BY <3>1, <3>2 DEF V!HasRow
  <2>4. \A u \in Tabs : tab[u].pc = "tally" /\ u # t => [id |-> tab[u].id, voter |-> tab[u].voter] # m
    <3> SUFFICES ASSUME NEW u \in Tabs, tab[u].pc = "tally", u # t,
                        [id |-> tab[u].id, voter |-> tab[u].voter] = m
                 PROVE  FALSE
      OBVIOUS
    <3>1. tab[u].id = tab[t].id /\ tab[u].voter = tab[t].voter
      BY <1>3, <1>4
    <3> QED BY <3>1 DEF VotesKnown
  <2>5. \A id, w : V!Voted(id, w)' <=> V!Voted(id, w)
    BY DEF V!Voted
  <2>6. \A u \in Tabs : tab'[u].pc = "tally" =>
          /\ V!Voted(tab'[u].id, tab'[u].voter)
          /\ [id |-> tab'[u].id, voter |-> tab'[u].voter] \notin uncounted'
    BY <1>2, <1>3, <1>4, <2>4 DEF VotesKnown
  <2>7. \A u \in Tabs : tab'[u].pc = "tally" =>
          /\ V!Voted(tab[u].id, tab[u].voter)'
          /\ [id |-> tab'[u].id, voter |-> tab'[u].voter] \notin uncounted'
    BY <2>6 DEF V!Voted
  <2>8. \A u, w \in Tabs : tab'[u].pc = "tally" /\ tab'[w].pc = "tally" =>
          (tab'[u].id = tab'[w].id /\ tab'[u].voter = tab'[w].voter => u = w)
    BY <1>2 DEF VotesKnown
  <2>9. \A u \in uncounted' : V!Voted(u.id, u.voter)
    BY <1>3, <1>4, <1>5 DEF VotesKnown
  <2>10. \A u \in uncounted' : V!Voted(u.id, u.voter)'
    BY <2>5, <2>9
  <2> QED BY <2>1, <2>3, <2>7, <2>8, <2>10 DEF VotesKnown
<1>7. \A id : Waiting(id)' = Waiting(id) \ {t}
  BY <1>2 DEF Waiting
<1>8. \A id : WaitingFor(id)' = WaitingFor(id) \ {t}
  BY <1>2, <1>7 DEF WaitingFor, Waiting
<1>9. \A id : Cast(id)' = Cast(id) /\ CastFor(id)' = CastFor(id)
  BY DEF Cast, CastFor
<1> QED BY <1>2, <1>3, <1>4, <1>5, <1>6, <1>7, <1>8, <1>9

\* How many wait then.
LEMMA OneLessWaits ==
    ASSUME TabsAssumption, VoteTypes, NEW t \in Tabs, tab[t].pc = "tally", NEW d, d = tab[t].id
    PROVE  /\ Cardinality(Waiting(d) \ {t}) = Cardinality(Waiting(d)) - 1
           /\ tab[t].choice = "for" => Cardinality(WaitingFor(d) \ {t}) = Cardinality(WaitingFor(d)) - 1
           /\ tab[t].choice # "for" => Cardinality(WaitingFor(d) \ {t}) = Cardinality(WaitingFor(d))
<1>1. t \in Waiting(d) /\ IsFiniteSet(Waiting(d)) /\ IsFiniteSet(WaitingFor(d))
  BY CountsAre DEF Waiting
<1>2. tab[t].choice = "for" => t \in WaitingFor(d)
  BY <1>1 DEF WaitingFor
<1>3. tab[t].choice # "for" => WaitingFor(d) \ {t} = WaitingFor(d)
  BY DEF WaitingFor
<1> QED BY <1>1, <1>2, <1>3, FS_RemoveElement

\* Nothing of a proposal changes with the vote on another.
LEMMA OthersBalanced ==
    ASSUME NEW t \in Tabs, NEW id, tab[t].id # id
    PROVE  Waiting(id) \ {t} = Waiting(id) /\ WaitingFor(id) \ {t} = WaitingFor(id)
BY DEF Waiting, WaitingFor

\* The second statement of a vote.
LEMMA TallyUpdated ==
    ASSUME TabsAssumption, VotesInv, NEW t \in Tabs, V!UpdateTally(t)
    PROVE  VotesInv'
<1>1. VoteTypes /\ RowsOK /\ VotesKnown /\ \A i \in 1..Len(proposals) : TallyOK(proposals[i])
  BY DEF VotesInv
<1>2. PICK b : b = tab[t]
  OBVIOUS
<1>3. PICK r : r = V!Row(b.id)
  OBVIOUS
<1>4. PICK p : p = proposals[r]
  OBVIOUS
<1>6. /\ b \in Ballot /\ b.pc = "tally" /\ r \in 1..Len(proposals) /\ p.id = b.id
      /\ p \in ProposalRow /\ b.choice \in {"for", "against"}
  <2>1. b \in Ballot /\ b.pc = "tally"
    BY <1>1, <1>2 DEF VoteTypes, V!UpdateTally, V!Busy
  <2>2. V!HasRow(b.id)
    BY <1>1, <1>2, <2>1 DEF VotesKnown
  <2>3. r \in 1..Len(proposals) /\ p.id = b.id
    BY <1>1, <1>3, <1>4, <2>2, RowIs
  <2>4. p \in ProposalRow
    BY <1>1, <1>4, <2>3, ElementOfSeq DEF VoteTypes
  <2>5. b.choice \in {"for", "against"}
    BY <2>1 DEF Ballot
  <2> QED BY <2>1, <2>3, <2>4, <2>5
<1>7. PICK q : q = V!Tallied(p, b.choice)
  OBVIOUS
<1>8. /\ q \in ProposalRow /\ q.id = p.id
      /\ \/ b.choice = "for" /\ q.for = p.for + 1 /\ q.against = p.against
         \/ b.choice = "against" /\ q.for = p.for /\ q.against = p.against + 1
      /\ q.quorum = IF p.quorum + 1 < 100 THEN p.quorum + 1 ELSE 100
  <2>1. p.for \in Nat /\ p.against \in Nat /\ p.quorum \in Nat
    BY <1>6 DEF ProposalRow
  <2>2. PICK m : m = IF p.quorum + 1 < 100 THEN p.quorum + 1 ELSE 100
    OBVIOUS
  <2>3. m \in Nat
    BY <2>1, <2>2
  <2>4. q = [p EXCEPT !.for = IF b.choice = "for" THEN p.for + 1 ELSE p.for,
                      !.against = IF b.choice = "against" THEN p.against + 1 ELSE p.against, !.quorum = m]
    BY <1>7, <2>2 DEF V!Tallied
  <2>5. CASE b.choice = "for"
    <3>1. q = [p EXCEPT !.for = p.for + 1, !.against = p.against, !.quorum = m]
      BY <2>4, <2>5
    <3>2. q.id = p.id /\ q.status = p.status /\ q.for = p.for + 1 /\ q.against = p.against /\ q.quorum = m
      BY <1>6, <3>1 DEF ProposalRow
    <3>3. p.for + 1 \in Nat /\ p.against \in Nat
      BY <2>1
    <3>4. q \in ProposalRow
      BY <1>6, <2>3, <3>1, <3>3 DEF ProposalRow
    <3> QED BY <2>2, <2>5, <3>2, <3>4
  <2>6. CASE b.choice = "against"
    <3>1. q = [p EXCEPT !.for = p.for, !.against = p.against + 1, !.quorum = m]
      BY <2>4, <2>6
    <3>2. q.id = p.id /\ q.status = p.status /\ q.for = p.for /\ q.against = p.against + 1 /\ q.quorum = m
      BY <1>6, <3>1 DEF ProposalRow
    <3>3. p.for \in Nat /\ p.against + 1 \in Nat
      BY <2>1
    <3>4. q \in ProposalRow
      BY <1>6, <2>3, <3>1, <3>3 DEF ProposalRow
    <3> QED BY <2>2, <2>6, <3>2, <3>4
  <2> QED BY <1>6, <2>5, <2>6
<1>9. /\ proposals' = [proposals EXCEPT ![r] = q]
      /\ tab' = [tab EXCEPT ![t] = V!Idle] /\ UNCHANGED <<votes, instance, uncounted>>
  BY <1>2, <1>3, <1>4, <1>7 DEF V!UpdateTally, V!Ends
<1>10. /\ proposals' \in Seq(ProposalRow) /\ Len(proposals') = Len(proposals) /\ proposals'[r] = q
       /\ \A i \in 1..Len(proposals) : i # r => proposals'[i] = proposals[i]
       /\ \A i \in 1..Len(proposals) : proposals'[i].id = proposals[i].id
  <2>1. /\ proposals' \in Seq(ProposalRow) /\ Len(proposals') = Len(proposals)
        /\ \A i \in 1..Len(proposals) : proposals'[i] = IF i = r THEN q ELSE proposals[i]
    BY <1>1, <1>6, <1>8, <1>9, ExceptSeq DEF VoteTypes
  <2> QED BY <1>4, <1>6, <1>8, <2>1
<1>11. VoteTypes' /\ VotesKnown'
       /\ \A id : /\ Waiting(id)' = Waiting(id) \ {t} /\ WaitingFor(id)' = WaitingFor(id) \ {t}
                  /\ Cast(id)' = Cast(id) /\ CastFor(id)' = CastFor(id)
  <2>1. DOMAIN proposals = 1..Len(proposals) /\ DOMAIN proposals' = 1..Len(proposals)
    BY <1>1, <1>10, HasRowIs, LenProperties
  <2>2. \A id : V!HasRow(id) => V!HasRow(id)'
    BY <1>10, <2>1 DEF V!HasRow
  <2>3. /\ tab' \in [Tabs -> Ballot] /\ VotesKnown'
        /\ \A id : /\ Waiting(id)' = Waiting(id) \ {t} /\ WaitingFor(id)' = WaitingFor(id) \ {t}
                   /\ Cast(id)' = Cast(id) /\ CastFor(id)' = CastFor(id)
    BY <1>1, <1>2, <1>6, <1>9, <2>2, TabEnds
  <2> QED BY <1>1, <1>9, <1>10, <2>3 DEF VoteTypes
<1>12. RowsOK'
  <2>1. DOMAIN proposals = 1..Len(proposals) /\ DOMAIN proposals' = 1..Len(proposals) /\ Len(proposals) \in Nat
    BY <1>1, <1>10, HasRowIs, LenProperties
  <2>2. \A id : V!HasRow(id) => V!HasRow(id)'
    BY <1>10, <2>1 DEF V!HasRow
  <2>3. proposals # <<>> /\ proposals' # <<>>
    BY <1>6, <1>10
  <2> QED BY <1>1, <1>9, <1>10, <2>2, <2>3 DEF RowsOK
<1>13. ASSUME NEW i \in 1..Len(proposals) PROVE TallyOK(proposals[i])'
  <2>1. PICK o : o = proposals[i]
    OBVIOUS
  <2>2. PICK d : d = o.id
    OBVIOUS
  <2>3. Balanced(o, V!SeedOf(o), Cardinality(Waiting(d)), Cardinality(LostOn(d)), Cardinality(Cast(d)),
                 Cardinality(WaitingFor(d)), Cardinality(CastFor(d)))
    BY <1>1, <2>1, <2>2 DEF TallyOK
  <2>4. /\ Cardinality(LostOn(d))' = Cardinality(LostOn(d)) /\ Cardinality(Cast(d))' = Cardinality(Cast(d))
        /\ Cardinality(CastFor(d))' = Cardinality(CastFor(d))
        /\ Cardinality(Waiting(d))' = Cardinality(Waiting(d) \ {t})
        /\ Cardinality(WaitingFor(d))' = Cardinality(WaitingFor(d) \ {t})
    BY <1>9, <1>11 DEF LostOn
  <2>5. CASE i # r
    <3>1. d # b.id
      BY <1>1, <1>4, <1>6, <2>1, <2>2, <2>5 DEF RowsOK
    <3>2. Waiting(d) \ {t} = Waiting(d) /\ WaitingFor(d) \ {t} = WaitingFor(d)
      BY <1>2, <3>1, OthersBalanced
    <3>3. proposals'[i] = o
      BY <1>10, <2>1, <2>5
    <3>4. Balanced(o, V!SeedOf(o), Cardinality(Waiting(d))', Cardinality(LostOn(d))', Cardinality(Cast(d))',
                   Cardinality(WaitingFor(d))', Cardinality(CastFor(d))')
      BY <2>3, <2>4, <3>2
    <3> QED BY <2>2, <3>3, <3>4 DEF TallyOK
  <2>6. CASE i = r
    <3>1. o = p /\ d = b.id /\ proposals'[i] = q /\ q.id = d
      BY <1>4, <1>6, <1>8, <1>10, <2>1, <2>2, <2>6
    <3>2. PICK w1 : w1 = Cardinality(Waiting(d) \ {t})
      OBVIOUS
    <3>3. PICK wf1 : wf1 = Cardinality(WaitingFor(d) \ {t})
      OBVIOUS
    <3>4. /\ w1 = Cardinality(Waiting(d)) - 1
          /\ \/ b.choice = "for" /\ wf1 = Cardinality(WaitingFor(d)) - 1
             \/ b.choice = "against" /\ wf1 = Cardinality(WaitingFor(d))
      BY <1>1, <1>2, <1>6, <3>1, <3>2, <3>3, OneLessWaits
    <3>5. Balanced(q, V!SeedOf(p), w1, Cardinality(LostOn(d)), Cardinality(Cast(d)), wf1,
                   Cardinality(CastFor(d)))
      <4>1. /\ Cardinality(Waiting(d)) \in Nat /\ Cardinality(LostOn(d)) \in Nat
            /\ Cardinality(Cast(d)) \in Nat
            /\ Cardinality(WaitingFor(d)) \in Nat /\ Cardinality(CastFor(d)) \in Nat
        BY <1>1, CountsAre
      <4>2. /\ p.for \in Nat /\ p.against \in Nat /\ p.quorum \in Nat
            /\ V!SeedOf(p).for \in Nat /\ V!SeedOf(p).against \in Nat /\ V!SeedOf(p).quorum \in 0..100
        BY <1>6, SeedType DEF ProposalRow
      <4>3. Balanced(p, V!SeedOf(p), Cardinality(Waiting(d)), Cardinality(LostOn(d)), Cardinality(Cast(d)),
                     Cardinality(WaitingFor(d)), Cardinality(CastFor(d)))
        BY <2>3, <3>1
      <4>4. /\ w1 = Cardinality(Waiting(d)) - 1
            /\ \/ q.for = p.for + 1 /\ q.against = p.against /\ wf1 = Cardinality(WaitingFor(d)) - 1
               \/ q.for = p.for /\ q.against = p.against + 1 /\ wf1 = Cardinality(WaitingFor(d))
            /\ q.quorum = IF p.quorum + 1 < 100 THEN p.quorum + 1 ELSE 100
        BY <1>8, <3>4, Zenon
      <4>5. PICK w \in Nat, l \in Nat, c \in Nat, wf \in Nat, cf \in Nat :
                /\ w = Cardinality(Waiting(d)) /\ l = Cardinality(LostOn(d)) /\ c = Cardinality(Cast(d))
                /\ wf = Cardinality(WaitingFor(d)) /\ cf = Cardinality(CastFor(d))
        BY <4>1
      <4>6. PICK s : s = V!SeedOf(p)
        OBVIOUS
      <4>7. PICK pf \in Nat, pa \in Nat, pk \in Nat : pf = p.for /\ pa = p.against /\ pk = p.quorum
        BY <4>2
      <4>8. PICK sf \in Nat, sa \in Nat, sk \in 0..100 : sf = s.for /\ sa = s.against /\ sk = s.quorum
        BY <4>2, <4>6
      <4>9. PICK qf, qa, qk : qf = q.for /\ qa = q.against /\ qk = q.quorum
        OBVIOUS
      <4>10. /\ (pf - sf) + (pa - sa) + w + l = c /\ (pf - sf) + wf <= cf
             /\ pk = IF sk + ((pf - sf) + (pa - sa)) < 100 THEN sk + ((pf - sf) + (pa - sa)) ELSE 100
        BY <4>3, <4>5, <4>6, <4>7, <4>8 DEF Balanced
      <4>11. /\ w1 = w - 1 /\ qk = IF pk + 1 < 100 THEN pk + 1 ELSE 100
             /\ \/ qf = pf + 1 /\ qa = pa /\ wf1 = wf - 1
                \/ qf = pf /\ qa = pa + 1 /\ wf1 = wf
        BY <4>4, <4>5, <4>7, <4>9, Zenon
      <4>12. /\ (qf - sf) + (qa - sa) + w1 + l = c /\ (qf - sf) + wf1 <= cf
             /\ qk = IF sk + ((qf - sf) + (qa - sa)) < 100 THEN sk + ((qf - sf) + (qa - sa)) ELSE 100
        <5>1. CASE qf = pf + 1 /\ qa = pa /\ wf1 = wf - 1
          BY <4>10, <4>11, <5>1
        <5>2. CASE qf = pf /\ qa = pa + 1 /\ wf1 = wf
          BY <4>10, <4>11, <5>2
        <5> QED BY <4>11, <5>1, <5>2
      <4>13. Balanced(q, s, w1, l, c, wf1, cf)
        BY <4>8, <4>9, <4>12 DEF Balanced
      <4> QED BY <4>5, <4>6, <4>13
    <3>6. V!SeedOf(q) = V!SeedOf(p)
      BY <1>8, SeedType
    <3>7. Balanced(q, V!SeedOf(q), Cardinality(Waiting(d))', Cardinality(LostOn(d))', Cardinality(Cast(d))',
                   Cardinality(WaitingFor(d))', Cardinality(CastFor(d))')
      BY <2>4, <3>2, <3>3, <3>5, <3>6
    <3> QED BY <3>1, <3>7 DEF TallyOK
  <2> QED BY <2>5, <2>6
<1> QED BY <1>10, <1>11, <1>12, <1>13 DEF VotesInv

\* A handler that dies before its tally: the vote is counted nowhere from then on.
LEMMA VoteLost ==
    ASSUME TabsAssumption, VotesInv, NEW t \in Tabs, V!VoteDies(t), tab[t].pc = "tally"
    PROVE  VotesInv'
<1>1. VoteTypes /\ RowsOK /\ VotesKnown /\ \A i \in 1..Len(proposals) : TallyOK(proposals[i])
  BY DEF VotesInv
<1>2. PICK b : b = tab[t]
  OBVIOUS
<1>3. PICK m : m = [id |-> b.id, voter |-> b.voter]
  OBVIOUS
<1>4. /\ b \in Ballot /\ b.pc = "tally" /\ m.id = b.id /\ b.choice \in {"for", "against"}
      /\ tab' = [tab EXCEPT ![t] = V!Idle] /\ UNCHANGED <<proposals, votes, instance>>
      /\ uncounted' = uncounted \cup {m}
  BY <1>1, <1>2, <1>3 DEF V!VoteDies, V!Ends, V!Busy, VoteTypes, Ballot
<1>5. \A id : V!HasRow(id)' <=> V!HasRow(id)
  BY <1>4 DEF V!HasRow
<1>6. /\ tab' \in [Tabs -> Ballot] /\ VotesKnown' /\ m \notin uncounted
      /\ \A id : /\ Waiting(id)' = Waiting(id) \ {t} /\ WaitingFor(id)' = WaitingFor(id) \ {t}
                 /\ Cast(id)' = Cast(id) /\ CastFor(id)' = CastFor(id)
  <2>1. uncounted' \in {uncounted, uncounted \cup {[id |-> tab[t].id, voter |-> tab[t].voter]}}
    BY <1>2, <1>3, <1>4
  <2> QED BY <1>1, <1>2, <1>3, <1>4, <1>5, <2>1, TabEnds
<1>7. VoteTypes'
  <2>1. IsFiniteSet(uncounted \cup {m})
    BY <1>1, FS_AddElement DEF VoteTypes
  <2> QED BY <1>1, <1>4, <1>6, <2>1 DEF VoteTypes
<1>8. RowsOK'
  BY <1>1, <1>4, <1>5 DEF RowsOK
<1>9. ASSUME NEW i \in 1..Len(proposals) PROVE TallyOK(proposals[i])'
  <2>1. PICK d : d = proposals[i].id
    OBVIOUS
  <2>2. PICK p : p = proposals[i]
    OBVIOUS
  <2>3. Balanced(p, V!SeedOf(p), Cardinality(Waiting(d)), Cardinality(LostOn(d)), Cardinality(Cast(d)),
                 Cardinality(WaitingFor(d)), Cardinality(CastFor(d)))
    BY <1>1, <2>1, <2>2 DEF TallyOK
  <2>4. /\ IsFiniteSet(LostOn(d))
        /\ Cardinality(Waiting(d)) \in Nat /\ Cardinality(LostOn(d)) \in Nat /\ Cardinality(Cast(d)) \in Nat
        /\ Cardinality(WaitingFor(d)) \in Nat /\ Cardinality(CastFor(d)) \in Nat
    BY <1>1, CountsAre
  <2>5. p \in ProposalRow /\ p.for \in Nat /\ p.against \in Nat /\ p.quorum \in Nat
        /\ V!SeedOf(p).for \in Nat /\ V!SeedOf(p).against \in Nat /\ V!SeedOf(p).quorum \in 0..100
    <3>1. p \in ProposalRow
      BY <1>1, <2>2, ElementOfSeq DEF VoteTypes
    <3> QED BY <3>1, SeedType DEF ProposalRow
  <2>6. /\ Cardinality(Cast(d))' = Cardinality(Cast(d)) /\ Cardinality(CastFor(d))' = Cardinality(CastFor(d))
        /\ Cardinality(Waiting(d))' = Cardinality(Waiting(d) \ {t})
        /\ Cardinality(WaitingFor(d))' = Cardinality(WaitingFor(d) \ {t})
    BY <1>6
  <2>7. CASE d # b.id
    <3>1. LostOn(d)' = LostOn(d)
      BY <1>4, <2>7 DEF LostOn
    <3>2. Waiting(d) \ {t} = Waiting(d) /\ WaitingFor(d) \ {t} = WaitingFor(d)
      BY <1>2, <2>7, OthersBalanced
    <3>3. Balanced(p, V!SeedOf(p), Cardinality(Waiting(d))', Cardinality(LostOn(d))', Cardinality(Cast(d))',
                   Cardinality(WaitingFor(d))', Cardinality(CastFor(d))')
      BY <2>3, <2>6, <3>1, <3>2
    <3> QED BY <1>4, <2>1, <2>2, <3>3 DEF TallyOK
  <2>8. CASE d = b.id
    <3>1. LostOn(d)' = LostOn(d) \cup {m} /\ m \notin LostOn(d)
      BY <1>4, <1>6, <2>8 DEF LostOn
    <3>2. Cardinality(LostOn(d))' = Cardinality(LostOn(d)) + 1
      BY <2>4, <3>1, FS_AddElement
    <3>3. /\ Cardinality(Waiting(d) \ {t}) = Cardinality(Waiting(d)) - 1
          /\ b.choice = "for" => Cardinality(WaitingFor(d) \ {t}) = Cardinality(WaitingFor(d)) - 1
          /\ b.choice # "for" => Cardinality(WaitingFor(d) \ {t}) = Cardinality(WaitingFor(d))
      BY <1>1, <1>2, <1>4, <2>8, OneLessWaits
    <3>4. PICK vf \in {0, 1} : Cardinality(WaitingFor(d) \ {t}) = Cardinality(WaitingFor(d)) - vf
      BY <2>4, <3>3
    <3>5. Balanced(p, V!SeedOf(p), Cardinality(Waiting(d)) - 1, Cardinality(LostOn(d)) + 1,
                   Cardinality(Cast(d)), Cardinality(WaitingFor(d)) - vf, Cardinality(CastFor(d)))
      BY <2>3, <2>4, <2>5, BalanceMoves
    <3>6. Balanced(p, V!SeedOf(p), Cardinality(Waiting(d))', Cardinality(LostOn(d))', Cardinality(Cast(d))',
                   Cardinality(WaitingFor(d))', Cardinality(CastFor(d))')
      BY <2>6, <3>2, <3>3, <3>4, <3>5
    <3> QED BY <1>4, <2>1, <2>2, <3>6 DEF TallyOK
  <2> QED BY <2>7, <2>8
<1> QED BY <1>4, <1>6, <1>7, <1>8, <1>9 DEF VotesInv

\* A proposal nobody can have voted on is balanced.
LEMMA FreshBalanced ==
    ASSUME VotesKnown, NEW p, ~V!HasRow(p.id), p.for = V!SeedOf(p).for,
           p.against = V!SeedOf(p).against, p.quorum = V!SeedOf(p).quorum
    PROVE  /\ TallyOK(p)
           /\ Waiting(p.id) = {} /\ WaitingFor(p.id) = {} /\ LostOn(p.id) = {}
           /\ Cast(p.id) = {} /\ CastFor(p.id) = {}
<1>1. PICK d : d = p.id
  OBVIOUS
<1>2. Cast(d) = {}
  BY <1>1 DEF VotesKnown, Cast
<1>3. Waiting(d) = {}
  BY <1>1 DEF VotesKnown, Waiting
<1>4. LostOn(d) = {}
  <2>1. \A u \in uncounted : \E v \in votes : v.id = u.id
    BY DEF VotesKnown, V!Voted
  <2> QED BY <1>2, <2>1 DEF LostOn, Cast
<1>5. CastFor(d) = {} /\ WaitingFor(d) = {}
  BY <1>2, <1>3 DEF CastFor, WaitingFor
<1>6. PICK s : s = V!SeedOf(p)
  OBVIOUS
<1>7. s.for \in Nat /\ s.against \in Nat /\ s.quorum \in 0..100
  BY <1>6, SeedType
<1>8. Balanced(p, s, 0, 0, 0, 0, 0)
  <2>1. (p.for - s.for) + (p.against - s.against) = 0 /\ p.for - s.for = 0
    BY <1>6, <1>7
  <2>2. p.quorum = IF s.quorum + 0 < 100 THEN s.quorum + 0 ELSE 100
    BY <1>6, <1>7
  <2> QED BY <2>1, <2>2 DEF Balanced
<1>9. TallyOK(p)
  BY <1>1, <1>2, <1>3, <1>4, <1>5, <1>6, <1>8, FS_EmptySet DEF TallyOK
<1> QED BY <1>1, <1>2, <1>3, <1>4, <1>5, <1>9

\* Rows are added, each of a proposal nobody has voted on.
LEMMA RowsGrow ==
    ASSUME TabsAssumption, VotesInv, UNCHANGED <<votes, tab, uncounted>>,
           proposals' \in Seq(ProposalRow), instance' \in [Instances -> {"cold", "empty", "warm"}],
           RowsOK', \A id : V!HasRow(id) => V!HasRow(id)',
           \A i \in 1..Len(proposals') :
               \/ i \in 1..Len(proposals) /\ proposals'[i] = proposals[i]
               \/ /\ ~V!HasRow(proposals'[i].id)
                  /\ \E p : /\ p = proposals'[i] /\ p.for = V!SeedOf(p).for
                            /\ p.against = V!SeedOf(p).against /\ p.quorum = V!SeedOf(p).quorum
    PROVE  VotesInv'
<1>1. VoteTypes /\ VotesKnown /\ \A i \in 1..Len(proposals) : TallyOK(proposals[i])
  BY DEF VotesInv
<1>2. VoteTypes'
  BY <1>1 DEF VoteTypes
<1>3. VotesKnown'
  <2>1. \A v \in votes : V!HasRow(v.id)'
    BY <1>1 DEF VotesKnown
  <2>2. \A t \in Tabs : tab[t].pc \in {"insert", "tally"} => V!HasRow(tab[t].id)'
    BY <1>1 DEF VotesKnown
  <2>3. \A id, w : V!Voted(id, w)' <=> V!Voted(id, w)
    BY DEF V!Voted
  <2>4. \A t \in Tabs : tab[t].pc = "tally" =>
          /\ V!Voted(tab[t].id, tab[t].voter)
          /\ [id |-> tab[t].id, voter |-> tab[t].voter] \notin uncounted
    BY <1>1 DEF VotesKnown
  <2>5. \A t \in Tabs : tab[t].pc = "tally" =>
          /\ V!Voted(tab[t].id, tab[t].voter)'
          /\ ([id |-> tab[t].id, voter |-> tab[t].voter] \notin uncounted)'
    BY <2>4 DEF V!Voted
  <2>6. \A u \in uncounted : V!Voted(u.id, u.voter)'
    BY <1>1, <2>3 DEF VotesKnown
  <2>7. \A t, u \in Tabs : tab[t].pc = "tally" /\ tab[u].pc = "tally" =>
          (tab[t].id = tab[u].id /\ tab[t].voter = tab[u].voter => t = u)
    BY <1>1 DEF VotesKnown
  <2> QED BY <2>1, <2>2, <2>5, <2>6, <2>7 DEF VotesKnown
<1>4. ASSUME NEW p, TallyOK(p) PROVE Balanced(p, V!SeedOf(p), Cardinality(Waiting(p.id))',
          Cardinality(LostOn(p.id))', Cardinality(Cast(p.id))', Cardinality(WaitingFor(p.id))',
          Cardinality(CastFor(p.id))')
  <2>1. /\ Waiting(p.id)' = Waiting(p.id) /\ LostOn(p.id)' = LostOn(p.id) /\ Cast(p.id)' = Cast(p.id)
    BY DEF Waiting, LostOn, Cast
  <2>2. WaitingFor(p.id)' = WaitingFor(p.id) /\ CastFor(p.id)' = CastFor(p.id)
    BY <2>1 DEF WaitingFor, CastFor
  <2> QED BY <1>4, <2>1, <2>2 DEF TallyOK
<1>5. ASSUME NEW i \in 1..Len(proposals') PROVE TallyOK(proposals[i])'
  <2>1. PICK p : p = proposals'[i]
    OBVIOUS
  <2>2. TallyOK(p)
    <3>1. CASE i \in 1..Len(proposals) /\ proposals'[i] = proposals[i]
      BY <1>1, <2>1, <3>1
    <3>2. CASE /\ ~V!HasRow(proposals'[i].id)
               /\ \E q : /\ q = proposals'[i] /\ q.for = V!SeedOf(q).for
                         /\ q.against = V!SeedOf(q).against /\ q.quorum = V!SeedOf(q).quorum
      BY <1>1, <2>1, <3>2, FreshBalanced
    <3> QED BY <3>1, <3>2
  <2>3. PICK d : d = p.id
    OBVIOUS
  <2>4. Balanced(p, V!SeedOf(p), Cardinality(Waiting(d))', Cardinality(LostOn(d))', Cardinality(Cast(d))',
                 Cardinality(WaitingFor(d))', Cardinality(CastFor(d))')
    BY <1>4, <2>2, <2>3
  <2> QED BY <2>1, <2>3, <2>4 DEF TallyOK
<1> QED BY <1>2, <1>3, <1>5 DEF VotesInv

\* The rows that every instance starts with.
LEMMA SeedsBalanced ==
    ASSUME TabsAssumption, VotesInv, NEW j \in Instances, V!InsertSeeds(j)
    PROVE  VotesInv'
<1>1. VoteTypes /\ RowsOK /\ VotesKnown
  BY DEF VotesInv
<1>2. UNCHANGED <<votes, tab, uncounted>>
  BY DEF V!InsertSeeds
<1>3. CASE proposals = <<>>
  <2>1. /\ proposals' = V!Seeds /\ instance' = [instance EXCEPT ![j] = "warm"]
    BY <1>3 DEF V!InsertSeeds
  <2>2. /\ Len(proposals') = 3 /\ DOMAIN proposals' = 1..3
        /\ proposals'[1] = V!Proposal("PROP-003", "Passed", 201, 45, 100)
        /\ proposals'[2] = V!Proposal("PROP-001", "Active", 142, 38, 79)
        /\ proposals'[3] = V!Proposal("PROP-002", "Active", 89, 12, 56)
    BY <2>1 DEF V!Seeds
  <2>3. /\ proposals'[1].id = "PROP-003" /\ proposals'[2].id = "PROP-001" /\ proposals'[3].id = "PROP-002"
    BY <2>2 DEF V!Proposal
  <2>4. \A i \in 1..3 : proposals'[i] \in ProposalRow
    BY <2>2 DEF V!Proposal, ProposalRow, RowIds
  <2>5. proposals' \in Seq(ProposalRow)
    <3>1. V!Proposal("PROP-003", "Passed", 201, 45, 100) \in ProposalRow
      BY <2>2, <2>4
    <3>2. V!Proposal("PROP-001", "Active", 142, 38, 79) \in ProposalRow
      BY <2>2, <2>4
    <3>3. V!Proposal("PROP-002", "Active", 89, 12, 56) \in ProposalRow
      BY <2>2, <2>4
    <3> QED BY <2>1, <3>1, <3>2, <3>3 DEF V!Seeds
  <2>6. instance' \in [Instances -> {"cold", "empty", "warm"}]
    BY <1>1, <2>1 DEF VoteTypes
  <2>7. \A s \in {"PROP-001", "PROP-002", "PROP-003"} : V!HasRow(s)'
    BY <2>2, <2>3 DEF V!HasRow
  <2>8. RowsOK'
    <3>1. \A i, k \in 1..Len(proposals') : proposals'[i].id = proposals'[k].id => i = k
      BY <2>2, <2>3
    <3>2. proposals' # <<>>
      BY <2>2
    <3> QED BY <2>7, <3>1, <3>2 DEF RowsOK
  <2>9. \A id : ~V!HasRow(id)
    BY <1>3 DEF V!HasRow
  <2>10. ASSUME NEW i \in 1..Len(proposals')
         PROVE  \E p : /\ p = proposals'[i] /\ p.for = V!SeedOf(p).for
                       /\ p.against = V!SeedOf(p).against /\ p.quorum = V!SeedOf(p).quorum
    <3>1. PICK p : p = proposals'[i]
      OBVIOUS
    <3>2. V!SeedOf(p) = p
      BY <2>2, <2>3, <3>1, SeedIs
    <3> QED BY <3>1, <3>2
  <2> QED BY <1>2, <2>5, <2>6, <2>8, <2>9, <2>10, RowsGrow
<1>4. CASE proposals # <<>>
  <2>1. UNCHANGED <<proposals, votes, tab, uncounted>> /\ instance' = [instance EXCEPT ![j] = "cold"]
    BY <1>2, <1>4 DEF V!InsertSeeds
  <2>2. instance' \in [Instances -> {"cold", "empty", "warm"}]
    BY <1>1, <2>1 DEF VoteTypes
  <2>3. \A t \in Tabs : tab'[t].pc = "insert" => V!HasRow(tab'[t].id)
    BY <1>1, <2>1 DEF VotesKnown
  <2>4. tab' \in [Tabs -> Ballot]
    BY <1>1, <2>1 DEF VoteTypes
  <2> QED BY <1>4, <2>1, <2>2, <2>3, <2>4, TabMoves
<1> QED BY <1>3, <1>4

\* A new proposal.
LEMMA ProposalsBalanced ==
    ASSUME TabsAssumption, VotesInv, NEW name \in Names, V!submitProposal(name)
    PROVE  VotesInv'
<1>1. VoteTypes /\ RowsOK /\ VotesKnown
  BY DEF VotesInv
<1>2. UNCHANGED <<votes, instance, tab, uncounted>> /\ proposals # <<>>
  BY <1>1 DEF V!submitProposal, V!Warm, RowsOK
<1>3. tab \in [Tabs -> Ballot] /\ instance \in [Instances -> {"cold", "empty", "warm"}]
  BY <1>1 DEF VoteTypes
<1>4. CASE V!HasRow(name)
  <2>1. proposals' = proposals
    BY <1>4 DEF V!submitProposal
  <2>2. \A t \in Tabs : tab'[t].pc = "insert" => V!HasRow(tab'[t].id)
    BY <1>1, <1>2 DEF VotesKnown
  <2> QED BY <1>2, <1>3, <2>1, <2>2, TabMoves
<1>5. CASE ~V!HasRow(name)
  <2>1. PICK q : q = V!Proposal(name, "Active", 0, 0, 0)
    OBVIOUS
  <2>2. proposals' = Append(proposals, q)
    BY <1>5, <2>1 DEF V!submitProposal
  <2>3. q \in ProposalRow /\ q.id = name /\ q.for = 0 /\ q.against = 0 /\ q.quorum = 0
    BY <2>1 DEF V!Proposal, ProposalRow, RowIds
  <2>4. proposals \in Seq(ProposalRow)
    BY <1>1 DEF VoteTypes
  <2>5. /\ proposals' \in Seq(ProposalRow) /\ Len(proposals') = Len(proposals) + 1
        /\ \A i \in 1..Len(proposals) : proposals'[i] = proposals[i]
        /\ proposals'[Len(proposals) + 1] = q
    BY <2>2, <2>3, <2>4, AppendProperties
  <2>6. /\ DOMAIN proposals = 1..Len(proposals) /\ DOMAIN proposals' = 1..Len(proposals')
        /\ Len(proposals) \in Nat
    BY <2>4, <2>5, LenProperties
  <2>7. \A id : V!HasRow(id) => V!HasRow(id)'
    BY <2>5, <2>6 DEF V!HasRow
  <2>8. RowsOK'
    <3>1. \A i \in 1..Len(proposals) : proposals[i].id # name
      BY <1>5, <2>6 DEF V!HasRow
    <3>2. \A i, k \in 1..Len(proposals') : proposals'[i].id = proposals'[k].id => i = k
      <4> TAKE i, k \in 1..Len(proposals')
      <4>1. i \in 1..Len(proposals) \/ i = Len(proposals) + 1
        BY <2>5, <2>6
      <4>2. k \in 1..Len(proposals) \/ k = Len(proposals) + 1
        BY <2>5, <2>6
      <4>3. CASE i \in 1..Len(proposals) /\ k \in 1..Len(proposals)
        BY <1>1, <2>5, <4>3 DEF RowsOK
      <4>4. CASE i = Len(proposals) + 1 /\ k \in 1..Len(proposals)
        BY <2>3, <2>5, <3>1, <4>4
      <4>5. CASE k = Len(proposals) + 1 /\ i \in 1..Len(proposals)
        BY <2>3, <2>5, <3>1, <4>5
      <4> QED BY <4>1, <4>2, <4>3, <4>4, <4>5
    <3>3. \A s \in {"PROP-001", "PROP-002", "PROP-003"} : V!HasRow(s)'
      BY <1>1, <1>2, <2>7 DEF RowsOK
    <3>4. proposals' # <<>>
      BY <2>5, <2>6
    <3> QED BY <3>2, <3>3, <3>4 DEF RowsOK
  <2>9. q.for = V!SeedOf(q).for /\ q.against = V!SeedOf(q).against /\ q.quorum = V!SeedOf(q).quorum
    <3>1. name \notin {"PROP-001", "PROP-002", "PROP-003"}
      BY <1>1, <1>2, <1>5 DEF RowsOK
    <3>2. V!SeedOf(q) = V!Proposal(name, "Active", 0, 0, 0)
      BY <2>3, <3>1, SeedIs
    <3> QED BY <2>1, <3>2
  <2>10. ASSUME NEW i \in 1..Len(proposals')
         PROVE  \/ i \in 1..Len(proposals) /\ proposals'[i] = proposals[i]
                \/ /\ ~V!HasRow(proposals'[i].id)
                   /\ \E p : /\ p = proposals'[i] /\ p.for = V!SeedOf(p).for
                             /\ p.against = V!SeedOf(p).against /\ p.quorum = V!SeedOf(p).quorum
    <3>1. CASE i \in 1..Len(proposals)
      BY <2>5, <3>1
    <3>2. CASE i = Len(proposals) + 1
      <4>1. q = proposals'[i] /\ ~V!HasRow(proposals'[i].id)
        BY <1>5, <2>3, <2>5, <3>2
      <4> QED BY <2>9, <4>1
    <3> QED BY <2>5, <2>6, <3>1, <3>2
  <2>11. instance' \in [Instances -> {"cold", "empty", "warm"}]
    BY <1>2, <1>3
  <2> QED BY <1>2, <2>5, <2>7, <2>8, <2>10, <2>11, RowsGrow
<1> QED BY <1>4, <1>5

\* The other steps of the page and of an instance.
LEMMA HandlersBalanced ==
    ASSUME TabsAssumption, VotesInv,
           \/ \E i \in Instances : V!CountProposals(i)
           \/ \E t \in Tabs :
                 \/ V!SubmitVote(t) \/ V!CheckVote(t)
                 \/ V!InsertVote(t) /\ V!Voted(tab[t].id, tab[t].voter)
                 \/ V!VoteDies(t) /\ tab[t].pc # "tally"
                 \/ \E id \in V!loadProposals, voter \in Voters, choice \in V!Choices : V!Click(t, id, voter, choice)
    PROVE  VotesInv'
<1>1. VoteTypes /\ RowsOK /\ VotesKnown
  BY DEF VotesInv
<1>2. tab \in [Tabs -> Ballot] /\ instance \in [Instances -> {"cold", "empty", "warm"}]
  BY <1>1 DEF VoteTypes
<1>3. \A u \in Tabs : tab[u].pc = "insert" => V!HasRow(tab[u].id)
  BY <1>1 DEF VotesKnown
<1>4. V!Idle \in Ballot /\ V!Idle.pc = "idle"
  BY DEF V!Idle, Ballot
<1>5. CASE \E i \in Instances : V!CountProposals(i)
  <2>1. PICK i \in Instances : V!CountProposals(i)
    BY <1>5
  <2>2. /\ UNCHANGED <<proposals, votes, tab, uncounted>>
        /\ instance' = [instance EXCEPT ![i] = IF proposals = <<>> THEN "empty" ELSE "warm"]
    BY <2>1 DEF V!CountProposals
  <2>3. instance' \in [Instances -> {"cold", "empty", "warm"}]
    BY <1>2, <2>2
  <2>4. (\E k \in Instances : instance'[k] = "warm") => proposals # <<>>
    BY <1>1, <1>2, <2>2 DEF RowsOK
  <2>5. tab' \in [Tabs -> Ballot] /\ \A u \in Tabs : tab'[u].pc = "insert" => V!HasRow(tab'[u].id)
    BY <1>2, <1>3, <2>2
  <2> QED BY <2>2, <2>3, <2>4, <2>5, TabMoves
<1>6. ASSUME NEW t \in Tabs, NEW b \in Ballot, tab' = [tab EXCEPT ![t] = b], tab[t].pc # "tally",
             b.pc # "tally", b.pc = "insert" => V!HasRow(b.id),
             UNCHANGED <<proposals, votes, instance, uncounted>>
      PROVE  VotesInv'
  <2>1. tab' \in [Tabs -> Ballot] /\ \A u \in Tabs : tab'[u] = IF u = t THEN b ELSE tab[u]
    BY <1>2, <1>6
  <2>2. \A u \in Tabs : tab'[u].pc = "tally" \/ tab[u].pc = "tally" => tab'[u] = tab[u]
    BY <1>6, <2>1
  <2>3. \A u \in Tabs : tab'[u].pc = "insert" => V!HasRow(tab'[u].id)
    BY <1>3, <1>6, <2>1
  <2>4. (\E i \in Instances : instance'[i] = "warm") => proposals # <<>>
    BY <1>1, <1>6 DEF RowsOK
  <2>5. instance' \in [Instances -> {"cold", "empty", "warm"}]
    BY <1>2, <1>6
  <2> QED BY <1>6, <2>1, <2>2, <2>3, <2>4, <2>5, TabMoves
<1>7. ASSUME NEW t \in Tabs, V!Ends(t), tab[t].pc # "tally", UNCHANGED <<proposals, votes, instance, uncounted>>
      PROVE  VotesInv'
  BY <1>4, <1>6, <1>7 DEF V!Ends
<1>8. ASSUME NEW t \in Tabs, NEW pc \in {"check", "insert"}, V!Goes(t, pc), tab[t].pc # "tally",
             pc = "insert" => V!HasRow(tab[t].id), UNCHANGED <<proposals, votes, instance, uncounted>>
      PROVE  VotesInv'
  <2>1. PICK b : b = [tab[t] EXCEPT !.pc = pc]
    OBVIOUS
  <2>2. b \in Ballot /\ b.pc = pc /\ b.id = tab[t].id
    BY <1>2, <2>1 DEF Ballot
  <2>3. tab' = [tab EXCEPT ![t] = b]
    BY <1>2, <1>8, <2>1 DEF V!Goes
  <2> QED BY <1>6, <1>8, <2>2, <2>3
<1>9. ASSUME NEW t \in Tabs, V!SubmitVote(t) PROVE VotesInv'
  <2>1. tab[t].pc # "tally" /\ UNCHANGED <<proposals, votes, instance, uncounted>>
    BY <1>9 DEF V!SubmitVote, V!Busy
  <2>2. V!Goes(t, "check") \/ V!Ends(t)
    BY <1>9 DEF V!SubmitVote
  <2> QED BY <1>7, <1>8, <2>1, <2>2
<1>10. ASSUME NEW t \in Tabs, V!CheckVote(t) PROVE VotesInv'
  <2>1. tab[t].pc # "tally" /\ UNCHANGED <<proposals, votes, instance, uncounted>>
    BY <1>10 DEF V!CheckVote, V!Busy
  <2>2. (V!Goes(t, "insert") /\ V!HasRow(tab[t].id)) \/ V!Ends(t)
    BY <1>10 DEF V!CheckVote
  <2> QED BY <1>7, <1>8, <2>1, <2>2
<1>11. ASSUME NEW t \in Tabs, V!InsertVote(t), V!Voted(tab[t].id, tab[t].voter) PROVE VotesInv'
  <2>1. tab[t].pc # "tally" /\ V!Ends(t) /\ UNCHANGED <<proposals, votes, instance, uncounted>>
    BY <1>11 DEF V!InsertVote, V!Busy
  <2> QED BY <1>7, <2>1
<1>12. ASSUME NEW t \in Tabs, V!VoteDies(t), tab[t].pc # "tally" PROVE VotesInv'
  <2>1. V!Ends(t) /\ UNCHANGED <<proposals, votes, instance, uncounted>>
    BY <1>12 DEF V!VoteDies, V!Busy
  <2> QED BY <1>7, <1>12, <2>1
<1>13. ASSUME NEW t \in Tabs, NEW id \in V!loadProposals, NEW voter \in Voters, NEW choice \in V!Choices,
              V!Click(t, id, voter, choice)
       PROVE  VotesInv'
  <2>1. PICK b : b = [pc |-> "chain", voter |-> voter, id |-> id, choice |-> choice]
    OBVIOUS
  <2>2. id \in RowIds
    <3>1. PICK i \in DOMAIN proposals : id = proposals[i].id
      BY DEF V!loadProposals
    <3>2. proposals[i] \in ProposalRow
      BY <1>1, <3>1, LenProperties, ElementOfSeq DEF VoteTypes
    <3> QED BY <3>1, <3>2 DEF ProposalRow
  <2>3. b \in Ballot /\ b.pc = "chain"
    BY <2>1, <2>2 DEF Ballot, V!Choices
  <2>4. tab' = [tab EXCEPT ![t] = b] /\ tab[t].pc # "tally" /\ UNCHANGED <<proposals, votes, instance, uncounted>>
    BY <1>13, <2>1 DEF V!Click, V!Busy
  <2> QED BY <1>6, <2>3, <2>4
<1> QED BY <1>5, <1>9, <1>10, <1>11, <1>12, <1>13

\* Every vote that is stored is counted, waits to be counted, or lost its handler.
LEMMA VotesInvariant ==
    ASSUME TabsAssumption PROVE V!Spec => []VotesInv
<1>1. V!Init => VotesInv
  <2> SUFFICES ASSUME V!Init PROVE VotesInv
    OBVIOUS
  <2>1. /\ proposals = <<>> /\ votes = {} /\ instance = [i \in Instances |-> "cold"]
        /\ tab = [t \in Tabs |-> V!Idle] /\ uncounted = {}
    BY DEF V!Init
  <2>2. V!Idle \in Ballot /\ V!Idle.pc = "idle"
    BY DEF V!Idle, Ballot
  <2>3. Len(proposals) = 0 /\ proposals \in Seq(ProposalRow) /\ 1..Len(proposals) = {}
    BY <2>1
  <2>4. VoteTypes
    BY <2>1, <2>2, <2>3, FS_EmptySet DEF VoteTypes
  <2>5. RowsOK
    BY <2>1, <2>3 DEF RowsOK
  <2>6. VotesKnown
    BY <2>1, <2>2 DEF VotesKnown
  <2> QED BY <2>3, <2>4, <2>5, <2>6 DEF VotesInv
<1>2. VotesInv /\ [V!Next]_V!vars => VotesInv'
  <2> SUFFICES ASSUME VotesInv, [V!Next]_V!vars PROVE VotesInv'
    OBVIOUS
  <2>1. CASE UNCHANGED V!vars
    <3>1. UNCHANGED <<proposals, votes, instance, tab, uncounted>>
      BY <2>1 DEF V!vars
    <3>2. /\ tab \in [Tabs -> Ballot] /\ instance \in [Instances -> {"cold", "empty", "warm"}]
          /\ \A t \in Tabs : tab[t].pc = "insert" => V!HasRow(tab[t].id)
          /\ (\E i \in Instances : instance[i] = "warm") => proposals # <<>>
      BY DEF VotesInv, VoteTypes, VotesKnown, RowsOK
    <3> QED BY <3>1, <3>2, TabMoves
  <2>2. CASE V!Next
    <3>1. CASE \E i \in Instances : V!CountProposals(i)
      BY <3>1, HandlersBalanced
    <3>2. CASE \E i \in Instances : V!InsertSeeds(i)
      BY <3>2, SeedsBalanced
    <3>3. CASE \E name \in Names : V!submitProposal(name)
      BY <3>3, ProposalsBalanced
    <3>4. ASSUME NEW t \in Tabs, V!InsertVote(t) PROVE VotesInv'
      BY <3>4, HandlersBalanced, VotesGrow
    <3>5. ASSUME NEW t \in Tabs, V!UpdateTally(t) PROVE VotesInv'
      BY <3>5, TallyUpdated
    <3>6. ASSUME NEW t \in Tabs, V!VoteDies(t) PROVE VotesInv'
      BY <3>6, HandlersBalanced, VoteLost
    <3>7. CASE \E t \in Tabs : \/ V!SubmitVote(t) \/ V!CheckVote(t)
                               \/ \E id \in V!loadProposals, voter \in Voters, choice \in V!Choices :
                                     V!Click(t, id, voter, choice)
      BY <3>7, HandlersBalanced
    <3> QED BY <2>2, <3>1, <3>2, <3>3, <3>4, <3>5, <3>6, <3>7 DEF V!Next
  <2> QED BY <2>1, <2>2
<1> QED BY <1>1, <1>2, PTL DEF V!Spec

\* The tallies count every vote of the database once, but for the votes whose
\* update was lost with its instance, and the quorum follows: the two statements
\* of castVote, several tabs of one voter, and several instances that seed the
\* table, in any order.
THEOREM VotesAreCounted ==
    ASSUME TabsAssumption PROVE V!Spec => []TalliesCountVotes
<1>1. VotesInv => TalliesCountVotes
  <2> SUFFICES ASSUME VotesInv PROVE TalliesCountVotes
    OBVIOUS
  <2>1. VoteTypes /\ RowsOK /\ VotesKnown /\ \A k \in 1..Len(proposals) : TallyOK(proposals[k])
    BY DEF VotesInv
  <2> DEFINE counted(p, s) == (p.for - s.for) + (p.against - s.against)
             Counts(p, s) == /\ counted(p, s) + V!Pending(p.id) = Cardinality(V!CastOn(p.id))
                             /\ p.for - s.for <= Cardinality({v \in V!CastOn(p.id) : v.choice = "for"})
                             /\ p.quorum = IF s.quorum + counted(p, s) < 100
                                           THEN s.quorum + counted(p, s) ELSE 100
  <2>2. ASSUME NEW i \in DOMAIN proposals PROVE Counts(proposals[i], V!SeedOf(proposals[i]))
    <3>1. PICK p : p = proposals[i]
      OBVIOUS
    <3>2. PICK s : s = V!SeedOf(p)
      OBVIOUS
    <3>3. PICK d : d = p.id
      OBVIOUS
    <3>4. i \in 1..Len(proposals)
      BY <2>1, HasRowIs
    <3>5. p \in ProposalRow /\ p.for \in Nat /\ p.against \in Nat /\ s.for \in Nat /\ s.against \in Nat
      <4>1. p \in ProposalRow
        BY <2>1, <3>1, <3>4, ElementOfSeq DEF VoteTypes
      <4> QED BY <3>2, <4>1, SeedType DEF ProposalRow
    <3>6. PICK w \in Nat, l \in Nat, c \in Nat, wf \in Nat, cf \in Nat :
              /\ w = Cardinality(Waiting(d)) /\ l = Cardinality(LostOn(d)) /\ c = Cardinality(Cast(d))
              /\ wf = Cardinality(WaitingFor(d)) /\ cf = Cardinality(CastFor(d))
      BY <2>1, CountsAre
    <3>7. Balanced(p, s, w, l, c, wf, cf)
      BY <2>1, <3>1, <3>2, <3>3, <3>4, <3>6 DEF TallyOK
    <3>8. PICK n \in Int : n = counted(p, s)
      BY <3>5
    <3>9. PICK f \in Int : f = p.for - s.for
      BY <3>5
    <3>10. /\ n + (w + l) = c /\ f <= cf
           /\ p.quorum = IF s.quorum + n < 100 THEN s.quorum + n ELSE 100
      BY <3>7, <3>8, <3>9 DEF Balanced
    <3>11. Cardinality(V!CastOn(d)) = c /\ Cardinality({v \in V!CastOn(d) : v.choice = "for"}) = cf
      BY <3>6 DEF V!CastOn, Cast, CastFor
    <3>12. V!Pending(d) = w + l
      BY <3>6 DEF V!Pending, Waiting, LostOn, V!Busy, V!Cardinality, Cardinality
    <3>13. Counts(p, s)
      BY <3>3, <3>8, <3>9, <3>10, <3>11, <3>12
    <3> QED BY <3>1, <3>2, <3>13
  <2> QED BY <2>2 DEF TalliesCountVotes, V!TalliesCountVotes, V!Cardinality, Cardinality
<1>2. V!Spec => []VotesInv
  BY VotesInvariant
<1> QED BY <1>1, <1>2, PTL

(***************************************************************************)
(* The orders table (Orders).  Of an order that is not disturbed there is  *)
(* at most one purchase in flight, and once it is sold only an escrow      *)
(* purchase that has not yet written anything.                             *)
(***************************************************************************)
BuyerNames == Buyers \cup {"nobody"}
OrderRow == [status : {"open", "filled", "cancelled"}, buyer : BuyerNames,
             hash : BuyerNames \cup {"listing", "none"}]
Purchase == [pc : {"idle", "put", "pay", "register", "status", "buyer", "hash", "look", "reopen"},
             route : {"", "escrow", "settle"}, id : OrderIds \cup {NoRow}, buyer : BuyerNames]

\* An absent order is no order and no id.
OrderNames == NoRow \notin OrderIds /\ NoRow \notin OrderRow

OrderTypes ==
    /\ row \in [OrderIds -> OrderRow \cup {NoRow}]
    /\ purchase \in [Requests -> Purchase]
    /\ buyerOf \in [OrderIds -> BuyerNames]
    /\ shown \subseteq OrderIds /\ \A id \in shown : row[id] # NoRow
    /\ \A r \in Requests : IF O!Of(r) = NoRow THEN purchase[r] = O!Idle ELSE row[O!Of(r)] # NoRow

\* A purchase `p' and the order `o' it is of; `told' is the buyer who was told.
Going(p, o, told) ==
    /\ p.route \in {"escrow", "settle"}
    /\ p.route = "escrow" => /\ p.pc \in {"put", "status", "buyer", "hash", "look", "reopen"}
                             /\ p.pc \in {"buyer", "hash"} => o.status = "filled"
                             /\ p.pc = "hash" => o.buyer = p.buyer
    /\ p.route = "settle" => /\ p.pc \in {"pay", "buyer", "register", "status", "hash"}
                             /\ p.pc \in {"register", "status", "hash"} => o.buyer = p.buyer
                             /\ p.pc = "hash" => o.status = "filled"
    /\ told # "nobody" => p.route = "escrow" /\ p.pc \in {"put", "status", "look"}

OneGoes(id) ==
    /\ \A r, q \in Requests : O!Of(r) = id /\ O!Of(q) = id => r = q
    /\ \A r \in Requests : O!Of(r) = id => Going(purchase[r], row[id], buyerOf[id])
    /\ buyerOf[id] # "nobody" =>
          row[id] = [status |-> "filled", buyer |-> buyerOf[id], hash |-> buyerOf[id]]

OrderInv == OrderTypes /\ \A id \in OrderIds \ disturbed : OneGoes(id)

\* A step of one purchase of one order, which may write the order.
LEMMA PurchaseStep ==
    ASSUME OrderNames, OrderInv, NEW r \in Requests, NEW id \in OrderIds, NEW q \in Purchase,
           NEW o \in OrderRow, NEW b \in BuyerNames,
           purchase' = [purchase EXCEPT ![r] = q], O!Of(r) \in {id, NoRow}, q.id \in {id, NoRow},
           q.id = NoRow => q = O!Idle,
           row' = [row EXCEPT ![id] = o], row[id] # NoRow,
           buyerOf' = [buyerOf EXCEPT ![id] = b], shown' \subseteq shown, disturbed \subseteq disturbed',
           \/ id \in disturbed'
           \/ /\ \A s \in Requests \ {r} : O!Of(s) # id
              /\ q.id = id => Going(q, o, b)
              /\ b # "nobody" => o = [status |-> "filled", buyer |-> b, hash |-> b]
    PROVE  OrderInv'
<1>1. /\ purchase \in [Requests -> Purchase] /\ row \in [OrderIds -> OrderRow \cup {NoRow}]
      /\ buyerOf \in [OrderIds -> BuyerNames] /\ o # NoRow /\ id # NoRow
  BY DEF OrderInv, OrderTypes, OrderNames
<1>2. /\ purchase' \in [Requests -> Purchase] /\ purchase'[r] = q
      /\ \A s \in Requests \ {r} : purchase'[s] = purchase[s]
  BY <1>1
<1>3. /\ row' \in [OrderIds -> OrderRow \cup {NoRow}] /\ row'[id] = o
      /\ \A j \in OrderIds \ {id} : row'[j] = row[j]
  BY <1>1
<1>4. /\ buyerOf' \in [OrderIds -> BuyerNames] /\ buyerOf'[id] = b
      /\ \A j \in OrderIds \ {id} : buyerOf'[j] = buyerOf[j]
  BY <1>1
<1>5. \A s \in Requests : purchase[s] \in Purchase /\ purchase[s].id \in OrderIds \cup {NoRow}
  BY <1>1 DEF Purchase
<1>6. OrderTypes'
  <2>1. shown' \subseteq OrderIds /\ \A j \in shown' : row'[j] # NoRow
    BY <1>1, <1>3 DEF OrderInv, OrderTypes
  <2>2. ASSUME NEW s \in Requests
        PROVE  IF purchase'[s].id = NoRow THEN purchase'[s] = O!Idle ELSE row'[purchase'[s].id] # NoRow
    <3>1. CASE s = r
      BY <1>1, <1>2, <1>3, <3>1
    <3>2. CASE s # r
      <4>1. IF purchase[s].id = NoRow THEN purchase[s] = O!Idle ELSE row[purchase[s].id] # NoRow
        BY DEF OrderInv, OrderTypes, O!Of
      <4> QED BY <1>1, <1>2, <1>3, <1>5, <3>2, <4>1
    <3> QED BY <3>1, <3>2
  <2> QED BY <1>2, <1>3, <1>4, <2>1, <2>2 DEF OrderTypes, O!Of
<1>7. ASSUME NEW j \in OrderIds \ disturbed'
      PROVE  /\ \A s, u \in Requests : purchase'[s].id = j /\ purchase'[u].id = j => s = u
             /\ \A s \in Requests : purchase'[s].id = j => Going(purchase'[s], row'[j], buyerOf'[j])
             /\ buyerOf'[j] # "nobody" =>
                   row'[j] = [status |-> "filled", buyer |-> buyerOf'[j], hash |-> buyerOf'[j]]
  <2>1. CASE j # id
    <3>1. /\ \A s, u \in Requests : purchase[s].id = j /\ purchase[u].id = j => s = u
          /\ \A s \in Requests : purchase[s].id = j => Going(purchase[s], row[j], buyerOf[j])
          /\ buyerOf[j] # "nobody" =>
                row[j] = [status |-> "filled", buyer |-> buyerOf[j], hash |-> buyerOf[j]]
      BY DEF OrderInv, OneGoes, O!Of
    <3>2. row'[j] = row[j] /\ buyerOf'[j] = buyerOf[j] /\ j # NoRow
      BY <1>3, <1>4, <2>1 DEF OrderNames
    <3>3. \A s \in Requests : purchase'[s].id = j => s # r /\ purchase'[s] = purchase[s]
      BY <1>2, <2>1, <3>2
    <3> QED BY <3>1, <3>2, <3>3
  <2>2. CASE j = id
    <3>1. /\ \A s \in Requests \ {r} : purchase[s].id # id
          /\ q.id = id => Going(q, o, b)
          /\ b # "nobody" => o = [status |-> "filled", buyer |-> b, hash |-> b]
      BY <2>2 DEF O!Of
    <3> QED BY <1>2, <1>3, <1>4, <2>2, <3>1
  <2> QED BY <2>1, <2>2
<1> QED BY <1>6, <1>7 DEF OrderInv, OneGoes, O!Of

\* A purchase in flight, with the order it is of.
LEMMA InFlight ==
    ASSUME OrderNames, OrderInv, NEW r \in Requests, purchase[r] # O!Idle
    PROVE  \E id \in OrderIds, p \in Purchase, o \in OrderRow, b \in BuyerNames :
              /\ p = purchase[r] /\ p.id = id /\ o = row[id] /\ o # NoRow /\ b = buyerOf[id]
              /\ \/ id \in disturbed
                 \/ /\ \A s \in Requests \ {r} : O!Of(s) # id
                    /\ Going(p, o, b)
                    /\ b # "nobody" => o = [status |-> "filled", buyer |-> b, hash |-> b]
<1>1. /\ purchase[r] \in Purchase /\ purchase[r].id # NoRow /\ row[purchase[r].id] # NoRow
      /\ row \in [OrderIds -> OrderRow \cup {NoRow}] /\ buyerOf \in [OrderIds -> BuyerNames]
  BY DEF OrderInv, OrderTypes, O!Of
<1>2. PICK id \in OrderIds : id = purchase[r].id
  BY <1>1 DEF Purchase
<1>3. row[id] \in OrderRow /\ row[id] # NoRow /\ buyerOf[id] \in BuyerNames
  BY <1>1, <1>2
<1>4. \/ id \in disturbed
      \/ /\ \A s \in Requests \ {r} : O!Of(s) # id
         /\ Going(purchase[r], row[id], buyerOf[id])
         /\ buyerOf[id] # "nobody" =>
               row[id] = [status |-> "filled", buyer |-> buyerOf[id], hash |-> buyerOf[id]]
  BY <1>2 DEF OrderInv, OneGoes, O!Of
<1> QED BY <1>1, <1>2, <1>3, <1>4

\* A purchase that ends.
LEMMA PurchaseEnds ==
    ASSUME OrderNames, OrderInv, NEW r \in Requests, purchase[r] # O!Idle, O!Ends(r),
           UNCHANGED <<row, shown, buyerOf, disturbed>>
    PROVE  OrderInv'
<1>1. PICK id \in OrderIds, p \in Purchase, o \in OrderRow, b \in BuyerNames :
              /\ p = purchase[r] /\ p.id = id /\ o = row[id] /\ o # NoRow /\ b = buyerOf[id]
              /\ \/ id \in disturbed
                 \/ /\ \A s \in Requests \ {r} : O!Of(s) # id
                    /\ Going(p, o, b)
                    /\ b # "nobody" => o = [status |-> "filled", buyer |-> b, hash |-> b]
  BY InFlight
<1>2. /\ row' = [row EXCEPT ![id] = o] /\ buyerOf' = [buyerOf EXCEPT ![id] = b]
  BY <1>1 DEF OrderInv, OrderTypes
<1>3. O!Idle \in Purchase /\ O!Idle.id = NoRow
  BY DEF O!Idle, Purchase, BuyerNames
<1>4. purchase' = [purchase EXCEPT ![r] = O!Idle] /\ O!Of(r) \in {id, NoRow}
  BY <1>1 DEF O!Ends, O!Of
<1>5. O!Idle.id # id /\ shown' \subseteq shown /\ disturbed \subseteq disturbed' /\ row[id] # NoRow
  BY <1>1, <1>3 DEF OrderNames
<1>6. \/ id \in disturbed'
      \/ /\ \A s \in Requests \ {r} : O!Of(s) # id
         /\ b # "nobody" => o = [status |-> "filled", buyer |-> b, hash |-> b]
  BY <1>1
<1> QED BY <1>2, <1>3, <1>4, <1>5, <1>6, PurchaseStep

\* A purchase goes on to a next statement, or writes one.
LEMMA PurchaseGoesOn ==
    ASSUME OrderNames, OrderInv, NEW r \in Requests, purchase[r] # O!Idle,
           NEW pc, pc \in {"put", "pay", "register", "status", "buyer", "hash", "look", "reopen"},
           O!Goes(r, pc), NEW o \in OrderRow, row' = [row EXCEPT ![O!Of(r)] = o],
           shown' = shown, buyerOf' = buyerOf, disturbed \subseteq disturbed',
           \/ O!Of(r) \in disturbed'
           \/ /\ Going([purchase[r] EXCEPT !.pc = pc], o, buyerOf[O!Of(r)])
              /\ buyerOf[O!Of(r)] # "nobody" => o = row[O!Of(r)]
    PROVE  OrderInv'
<1>1. PICK id \in OrderIds, p \in Purchase, was \in OrderRow, b \in BuyerNames :
              /\ p = purchase[r] /\ p.id = id /\ was = row[id] /\ was # NoRow /\ b = buyerOf[id]
              /\ \/ id \in disturbed
                 \/ /\ \A s \in Requests \ {r} : O!Of(s) # id
                    /\ Going(p, was, b)
                    /\ b # "nobody" => was = [status |-> "filled", buyer |-> b, hash |-> b]
  BY InFlight
<1> DEFINE q == [p EXCEPT !.pc = pc]
<1>2. q \in Purchase /\ q.id = id /\ id # NoRow
  BY <1>1 DEF Purchase, OrderNames
<1>3. O!Of(r) = id
  BY <1>1 DEF O!Of
<1>4. purchase' = [purchase EXCEPT ![r] = q]
  <2>1. purchase \in [Requests -> Purchase]
    BY DEF OrderInv, OrderTypes
  <2> QED BY <1>1, <2>1 DEF O!Goes
<1>5. buyerOf' = [buyerOf EXCEPT ![id] = b]
  BY <1>1 DEF OrderInv, OrderTypes
<1>6. \/ id \in disturbed'
      \/ /\ \A s \in Requests \ {r} : O!Of(s) # id
         /\ Going(q, o, b)
         /\ b # "nobody" => o = [status |-> "filled", buyer |-> b, hash |-> b]
  BY <1>1, <1>3
<1> HIDE DEF q
<1>7. PICK k \in Purchase : k = q
  BY <1>2
<1> QED BY <1>1, <1>2, <1>3, <1>4, <1>5, <1>6, <1>7, PurchaseStep

\* A call that is made or fails, or a look at the order, writes nothing.
LEMMA PurchaseReads ==
    ASSUME OrderNames, OrderInv, NEW r \in Requests, O!Submitted(r) \/ O!Fails(r) \/ O!Look(r)
    PROVE  OrderInv'
<1>0. purchase[r] # O!Idle /\ UNCHANGED <<row, shown, buyerOf, disturbed>>
  <2>1. O!Idle.pc = "idle"
    BY DEF O!Idle
  <2>2. CASE O!Submitted(r)
    BY <2>1, <2>2 DEF O!Submitted, O!At
  <2>3. CASE O!Look(r)
    BY <2>1, <2>3 DEF O!Look, O!At
  <2>4. CASE O!Fails(r)
    BY <2>4 DEF O!Fails
  <2> QED BY <2>2, <2>3, <2>4
<1>1. PICK id \in OrderIds, p \in Purchase, o \in OrderRow, b \in BuyerNames :
              /\ p = purchase[r] /\ p.id = id /\ o = row[id] /\ o # NoRow /\ b = buyerOf[id]
              /\ \/ id \in disturbed
                 \/ /\ \A s \in Requests \ {r} : O!Of(s) # id
                    /\ Going(p, o, b)
                    /\ b # "nobody" => o = [status |-> "filled", buyer |-> b, hash |-> b]
  BY <1>0, InFlight
<1>2. O!Of(r) = id /\ row' = [row EXCEPT ![O!Of(r)] = o] /\ b = buyerOf[O!Of(r)]
  BY <1>0, <1>1 DEF OrderInv, OrderTypes, O!Of
<1>3. ASSUME NEW pc, id \in disturbed \/ Going([p EXCEPT !.pc = pc], o, b)
       PROVE  \/ O!Of(r) \in disturbed'
              \/ /\ Going([purchase[r] EXCEPT !.pc = pc], o, buyerOf[O!Of(r)])
                 /\ buyerOf[O!Of(r)] # "nobody" => o = row[O!Of(r)]
  BY <1>0, <1>1, <1>2, <1>3
<1>4. shown' = shown /\ buyerOf' = buyerOf /\ disturbed \subseteq disturbed'
  BY <1>0
<1>5. CASE O!Ends(r)
  BY <1>0, <1>5, PurchaseEnds
<1>6. CASE O!Submitted(r)
  <2>1. PICK pc \in {"status", "buyer"} :
           /\ O!Goes(r, pc)
           /\ \/ p.route = "escrow" /\ p.pc = "put" /\ pc = "status"
              \/ p.route = "settle" /\ p.pc = "pay" /\ pc = "buyer"
              \/ p.route = "settle" /\ p.pc = "register" /\ pc = "status"
    BY <1>1, <1>6 DEF O!Submitted, O!At
  <2>2. id \in disturbed \/ Going([p EXCEPT !.pc = pc], o, b)
    BY <1>1, <2>1 DEF Going, Purchase
  <2> QED BY <1>0, <1>2, <1>3, <1>4, <2>1, <2>2, PurchaseGoesOn
<1>7. CASE O!Fails(r) /\ ~O!Ends(r)
  <2>1. O!Goes(r, "look") /\ p.route = "escrow"
    BY <1>1, <1>7 DEF O!Fails
  <2>2. id \in disturbed \/ Going([p EXCEPT !.pc = "look"], o, b)
    BY <1>1, <2>1 DEF Going, Purchase
  <2> QED BY <1>0, <1>2, <1>3, <1>4, <2>1, <2>2, PurchaseGoesOn
<1>8. CASE O!Look(r) /\ ~O!Ends(r)
  <2>1. O!Goes(r, "reopen") /\ p.route = "escrow" /\ o.status = "open"
    BY <1>1, <1>2, <1>8 DEF O!Look, O!At
  <2>2. id \in disturbed \/ Going([p EXCEPT !.pc = "reopen"], o, b)
    <3>1. id \notin disturbed => b = "nobody"
      BY <1>1, <2>1
    <3> QED BY <1>1, <2>1, <3>1 DEF Going, Purchase
  <2> QED BY <1>0, <1>2, <1>3, <1>4, <2>1, <2>2, PurchaseGoesOn
<1> QED BY <1>5, <1>6, <1>7, <1>8

\* settle-trade names the buyer before it registers him, and fills the order before it
\* writes the hash; escrow-buy fills it first, then names him.
LEMMA PurchaseWrites ==
    ASSUME OrderNames, OrderInv, NEW r \in Requests, O!UpdateStatus(r) \/ O!UpdateBuyer(r)
    PROVE  OrderInv'
<1>0. /\ purchase[r] # O!Idle /\ shown' = shown /\ buyerOf' = buyerOf
      /\ disturbed \subseteq disturbed'
  <2>1. O!Idle.pc = "idle"
    BY DEF O!Idle
  <2>2. CASE O!UpdateStatus(r)
    BY <2>1, <2>2 DEF O!UpdateStatus, O!Marks
  <2>3. CASE O!UpdateBuyer(r)
    BY <2>1, <2>3 DEF O!UpdateBuyer
  <2> QED BY <2>2, <2>3
<1>1. PICK id \in OrderIds, p \in Purchase, o \in OrderRow, b \in BuyerNames :
              /\ p = purchase[r] /\ p.id = id /\ o = row[id] /\ o # NoRow /\ b = buyerOf[id]
              /\ \/ id \in disturbed
                 \/ /\ \A s \in Requests \ {r} : O!Of(s) # id
                    /\ Going(p, o, b)
                    /\ b # "nobody" => o = [status |-> "filled", buyer |-> b, hash |-> b]
  BY <1>0, InFlight
<1>2. /\ O!Of(r) = id /\ b = buyerOf[O!Of(r)] /\ O!Buyer(r) = p.buyer
      /\ row \in [OrderIds -> OrderRow \cup {NoRow}]
  BY <1>1 DEF OrderInv, OrderTypes, O!Of, O!Buyer
<1>3. CASE O!UpdateStatus(r)
  <2> DEFINE new == [o EXCEPT !.status = "filled"]
  <2>1. new \in OrderRow /\ new.status = "filled" /\ new.buyer = o.buyer
    BY DEF OrderRow
  <2>2. row' = [row EXCEPT ![O!Of(r)] = new]
    BY <1>1, <1>2, <1>3 DEF O!UpdateStatus
  <2>3. b # "nobody" => id \in disturbed'
    BY <1>2, <1>3 DEF O!UpdateStatus, O!Marks
  <2>4. PICK pc \in {"buyer", "hash"} :
           O!Goes(r, pc) /\ pc = IF p.route = "escrow" THEN "buyer" ELSE "hash"
    BY <1>1, <1>3 DEF O!UpdateStatus
  <2>5. p.pc = "status"
    BY <1>1, <1>3 DEF O!UpdateStatus
  <2> HIDE DEF new
  <2>6. id \in disturbed' \/ (b = "nobody" /\ Going([p EXCEPT !.pc = pc], new, b))
    <3>1. CASE id \in disturbed \/ b # "nobody"
      BY <1>0, <2>3, <3>1
    <3>2. CASE id \notin disturbed /\ b = "nobody"
      BY <1>1, <2>1, <2>4, <2>5, <3>2 DEF Going, Purchase
    <3> QED BY <3>1, <3>2
  <2>7. \/ O!Of(r) \in disturbed'
        \/ /\ Going([purchase[r] EXCEPT !.pc = pc], new, buyerOf[O!Of(r)])
           /\ buyerOf[O!Of(r)] # "nobody" => new = row[O!Of(r)]
    BY <1>1, <1>2, <2>6
  <2>8. PICK n \in OrderRow : n = new
    BY <2>1
  <2> QED BY <1>0, <2>2, <2>4, <2>7, <2>8, PurchaseGoesOn
<1>4. CASE O!UpdateBuyer(r)
  <2> DEFINE new == [o EXCEPT !.buyer = p.buyer]
  <2>1. new \in OrderRow /\ new.status = o.status /\ new.buyer = p.buyer
    BY DEF OrderRow, Purchase
  <2>2. row' = [row EXCEPT ![O!Of(r)] = new]
    BY <1>1, <1>2, <1>4 DEF O!UpdateBuyer
  <2>3. PICK pc \in {"hash", "register"} :
           O!Goes(r, pc) /\ pc = IF p.route = "escrow" THEN "hash" ELSE "register"
    BY <1>1, <1>4 DEF O!UpdateBuyer
  <2>4. p.pc = "buyer"
    BY <1>1, <1>4 DEF O!UpdateBuyer
  <2> HIDE DEF new
  <2>5. id \in disturbed' \/ (b = "nobody" /\ Going([p EXCEPT !.pc = pc], new, b))
    <3>1. CASE id \in disturbed
      BY <1>0, <3>1
    <3>2. CASE id \notin disturbed
      <4>1. b = "nobody"
        BY <1>1, <2>4, <3>2 DEF Going
      <4> QED BY <1>1, <2>1, <2>3, <2>4, <3>2, <4>1 DEF Going, Purchase
    <3> QED BY <3>1, <3>2
  <2>6. \/ O!Of(r) \in disturbed'
        \/ /\ Going([purchase[r] EXCEPT !.pc = pc], new, buyerOf[O!Of(r)])
           /\ buyerOf[O!Of(r)] # "nobody" => new = row[O!Of(r)]
    BY <1>1, <1>2, <2>5
  <2>7. PICK n \in OrderRow : n = new
    BY <2>1
  <2> QED BY <1>0, <2>2, <2>3, <2>6, <2>7, PurchaseGoesOn
<1> QED BY <1>3, <1>4

\* The last statement of a sale, and the error path of an escrow purchase.
LEMMA PurchaseLast ==
    ASSUME OrderNames, OrderInv, NEW r \in Requests, O!UpdateHash(r) \/ O!Reopen(r)
    PROVE  OrderInv'
<1>0. purchase[r] # O!Idle /\ O!Ends(r) /\ UNCHANGED <<shown, disturbed>>
  <2>1. O!Idle.pc = "idle"
    BY DEF O!Idle
  <2>2. CASE O!UpdateHash(r)
    BY <2>1, <2>2 DEF O!UpdateHash
  <2>3. CASE O!Reopen(r)
    BY <2>1, <2>3 DEF O!Reopen, O!At
  <2> QED BY <2>2, <2>3
<1>1. PICK id \in OrderIds, p \in Purchase, o \in OrderRow, b \in BuyerNames :
              /\ p = purchase[r] /\ p.id = id /\ o = row[id] /\ o # NoRow /\ b = buyerOf[id]
              /\ \/ id \in disturbed
                 \/ /\ \A s \in Requests \ {r} : O!Of(s) # id
                    /\ Going(p, o, b)
                    /\ b # "nobody" => o = [status |-> "filled", buyer |-> b, hash |-> b]
  BY <1>0, InFlight
<1>2. /\ O!Of(r) = id /\ O!Buyer(r) = p.buyer /\ p.buyer \in BuyerNames
      /\ row \in [OrderIds -> OrderRow \cup {NoRow}] /\ buyerOf \in [OrderIds -> BuyerNames]
  BY <1>1 DEF OrderInv, OrderTypes, O!Of, O!Buyer, Purchase
<1>3. O!Idle \in Purchase /\ O!Idle.id = NoRow /\ NoRow # id
  BY DEF O!Idle, Purchase, BuyerNames, OrderNames
<1>4. purchase' = [purchase EXCEPT ![r] = O!Idle] /\ O!Of(r) \in {id, NoRow}
  BY <1>0, <1>2 DEF O!Ends
<1>5. shown' \subseteq shown /\ disturbed \subseteq disturbed' /\ row[id] # NoRow
  BY <1>0, <1>1
<1>6. CASE O!UpdateHash(r)
  <2>1. /\ row' = [row EXCEPT ![id] = [o EXCEPT !.hash = p.buyer]]
        /\ buyerOf' = [buyerOf EXCEPT ![id] = p.buyer] /\ p.pc = "hash"
    BY <1>1, <1>2, <1>6 DEF O!UpdateHash
  <2>2. PICK n \in OrderRow : n = [o EXCEPT !.hash = p.buyer]
    BY <1>2 DEF OrderRow
  <2>3. id \in disturbed \/ n = [status |-> "filled", buyer |-> p.buyer, hash |-> p.buyer]
    <3> SUFFICES ASSUME id \notin disturbed PROVE n = [status |-> "filled", buyer |-> p.buyer, hash |-> p.buyer]
      OBVIOUS
    <3>1. o.status = "filled" /\ o.buyer = p.buyer
      BY <1>1, <2>1 DEF Going
    <3> QED BY <2>2, <3>1 DEF OrderRow
  <2>4. PICK c \in BuyerNames : c = p.buyer
    BY <1>2
  <2>5. \/ id \in disturbed'
        \/ /\ \A s \in Requests \ {r} : O!Of(s) # id
           /\ c # "nobody" => n = [status |-> "filled", buyer |-> c, hash |-> c]
    BY <1>1, <1>5, <2>3, <2>4
  <2> QED BY <1>3, <1>4, <1>5, <2>1, <2>2, <2>4, <2>5, PurchaseStep
<1>7. CASE O!Reopen(r)
  <2>1. /\ row' = [row EXCEPT ![id] = [o EXCEPT !.status = "open"]]
        /\ buyerOf' = [buyerOf EXCEPT ![id] = b] /\ p.pc = "reopen"
    BY <1>1, <1>2, <1>7 DEF O!Reopen, O!At
  <2>2. PICK n \in OrderRow : n = [o EXCEPT !.status = "open"]
    BY DEF OrderRow
  <2>3. \/ id \in disturbed'
        \/ /\ \A s \in Requests \ {r} : O!Of(s) # id
           /\ b # "nobody" => n = [status |-> "filled", buyer |-> b, hash |-> b]
    BY <1>1, <1>5, <2>1 DEF Going
  <2> QED BY <1>3, <1>4, <1>5, <2>1, <2>2, <2>3, PurchaseStep
<1> QED BY <1>6, <1>7

\* A purchase begins: at most one of an order that stays undisturbed, and
\* settle-trade only while it is open.
LEMMA PurchaseBegins ==
    ASSUME OrderNames, OrderInv, NEW r \in Requests, NEW id \in OrderIds, NEW buyer \in Buyers,
           NEW route, NEW pc,
           \/ route = "escrow" /\ pc = "put"
           \/ route = "settle" /\ pc \in {"pay", "buyer"} /\ row[id].status = "open",
           O!Begins(r, route, pc, id, buyer)
    PROVE  OrderInv'
<1>1. /\ purchase[r] = O!Idle /\ row[id] # NoRow
      /\ purchase' = [purchase EXCEPT ![r] = [pc |-> pc, route |-> route, id |-> id, buyer |-> buyer]]
      /\ O!Marks(id, O!Buying(id) # {})
      /\ UNCHANGED <<row, shown, buyerOf>>
  BY DEF O!Begins
<1>2. row \in [OrderIds -> OrderRow \cup {NoRow}] /\ buyerOf \in [OrderIds -> BuyerNames] /\ id # NoRow
  BY DEF OrderInv, OrderTypes, OrderNames
<1>3. PICK o \in OrderRow, b \in BuyerNames : o = row[id] /\ b = buyerOf[id]
  BY <1>1, <1>2
<1>4. PICK q \in Purchase : q = [pc |-> pc, route |-> route, id |-> id, buyer |-> buyer]
  BY DEF Purchase, BuyerNames
<1>5. row' = [row EXCEPT ![id] = o] /\ buyerOf' = [buyerOf EXCEPT ![id] = b]
  BY <1>1, <1>2, <1>3
<1>6. /\ O!Of(r) \in {id, NoRow} /\ q.id = id /\ purchase' = [purchase EXCEPT ![r] = q]
      /\ disturbed \subseteq disturbed' /\ shown' \subseteq shown
  <2>1. O!Idle.id = NoRow
    BY DEF O!Idle
  <2>2. disturbed \subseteq disturbed'
    BY <1>1 DEF O!Marks
  <2> QED BY <1>1, <1>4, <2>1, <2>2 DEF O!Of
<1>7. \/ id \in disturbed'
      \/ /\ \A s \in Requests \ {r} : O!Of(s) # id
         /\ Going(q, o, b)
         /\ b # "nobody" => o = [status |-> "filled", buyer |-> b, hash |-> b]
  <2> SUFFICES ASSUME id \notin disturbed'
               PROVE  /\ \A s \in Requests \ {r} : O!Of(s) # id
                      /\ Going(q, o, b)
                      /\ b # "nobody" => o = [status |-> "filled", buyer |-> b, hash |-> b]
    OBVIOUS
  <2>1. id \notin disturbed /\ \A s \in Requests : O!Of(s) # id
    BY <1>1 DEF O!Marks, O!Buying
  <2>2. b # "nobody" => o = [status |-> "filled", buyer |-> b, hash |-> b]
    BY <1>3, <2>1 DEF OrderInv, OneGoes
  <2>3. Going(q, o, b)
    BY <1>3, <1>4, <2>2 DEF Going
  <2> QED BY <2>1, <2>2, <2>3
<1>8. q.id = NoRow => q = O!Idle
  BY <1>2, <1>6
<1>9. row[id] # NoRow /\ q.id \in {id, NoRow}
  BY <1>1, <1>6
<1> QED BY <1>5, <1>6, <1>7, <1>8, <1>9, PurchaseStep

\* An order is posted, or listed: it is new, so nobody is buying it.
LEMMA CreateOrderKeeps ==
    ASSUME OrderNames, OrderInv, NEW id \in OrderIds, NEW hash \in {"listing", "none"},
           O!createOrder(id, hash)
    PROVE  OrderInv'
<1>1. /\ row[id] = NoRow
      /\ row' = [row EXCEPT ![id] = [status |-> "open", buyer |-> "nobody", hash |-> hash]]
      /\ UNCHANGED <<purchase, shown, buyerOf, disturbed>>
  BY DEF O!createOrder
<1>2. [status |-> "open", buyer |-> "nobody", hash |-> hash] \in OrderRow
  BY DEF OrderRow, BuyerNames
<1>3. OrderTypes
  BY DEF OrderInv
<1>4. /\ row' \in [OrderIds -> OrderRow \cup {NoRow}] /\ row'[id] # NoRow
      /\ \A j \in OrderIds \ {id} : row'[j] = row[j]
  BY <1>1, <1>2, <1>3 DEF OrderTypes, OrderNames
<1>5. \A r \in Requests : purchase[r].id # id
  BY <1>1, <1>3 DEF OrderTypes, O!Of, OrderNames
<1>6. \A r \in Requests : purchase[r].id \in OrderIds \cup {NoRow}
  BY <1>3 DEF OrderTypes, Purchase
<1>7. OrderTypes'
  <2>1. shown' \subseteq OrderIds /\ \A j \in shown' : row'[j] # NoRow
    BY <1>1, <1>3, <1>4 DEF OrderTypes
  <2>2. \A r \in Requests : IF purchase'[r].id = NoRow THEN purchase'[r] = O!Idle
                                                      ELSE row'[purchase'[r].id] # NoRow
    BY <1>1, <1>3, <1>4, <1>6 DEF OrderTypes, O!Of
  <2> QED BY <1>1, <1>3, <1>4, <2>1, <2>2 DEF OrderTypes, O!Of
<1>8. ASSUME NEW j \in OrderIds \ disturbed'
      PROVE  OneGoes(j)'
  <2>1. OneGoes(j)
    BY <1>1 DEF OrderInv
  <2>2. CASE j # id
    BY <1>1, <1>4, <2>1, <2>2 DEF OneGoes, O!Of
  <2>3. CASE j = id
    <3>1. buyerOf[id] = "nobody"
      <4> SUFFICES ASSUME buyerOf[id] # "nobody" PROVE FALSE
        OBVIOUS
      <4>1. NoRow = [status |-> "filled", buyer |-> buyerOf[id], hash |-> buyerOf[id]]
        BY <1>1, <2>1, <2>3 DEF OneGoes
      <4>2. buyerOf[id] \in BuyerNames
        BY <1>3 DEF OrderTypes
      <4> QED BY <4>1, <4>2 DEF OrderNames, OrderRow
    <3> QED BY <1>1, <1>5, <2>3, <3>1 DEF OneGoes, O!Of
  <2> QED BY <2>2, <2>3
<1> QED BY <1>7, <1>8 DEF OrderInv

\* The cancel button: an order that somebody buys or has bought is marked.
LEMMA CancelKeeps ==
    ASSUME OrderNames, OrderInv, NEW id \in OrderIds, O!Cancel(id)
    PROVE  OrderInv'
<1>1. /\ id \in shown /\ row' = [row EXCEPT ![id].status = "cancelled"] /\ shown' = shown \ {id}
      /\ O!Marks(id, buyerOf[id] # "nobody" \/ O!Buying(id) # {})
      /\ UNCHANGED <<purchase, buyerOf>>
  BY DEF O!Cancel
<1>2. OrderTypes
  BY DEF OrderInv
<1>3. row[id] \in OrderRow /\ row[id] # NoRow
  BY <1>1, <1>2 DEF OrderTypes
<1>4. PICK n \in OrderRow : n = [row[id] EXCEPT !.status = "cancelled"]
  BY <1>3 DEF OrderRow
<1>5. /\ row' \in [OrderIds -> OrderRow \cup {NoRow}] /\ row'[id] = n /\ n # NoRow
      /\ \A j \in OrderIds \ {id} : row'[j] = row[j]
  BY <1>1, <1>2, <1>4 DEF OrderTypes, OrderNames
<1>6. OrderTypes'
  <2>1. shown' \subseteq OrderIds /\ \A j \in shown' : row'[j] # NoRow
    BY <1>1, <1>2, <1>5 DEF OrderTypes
  <2>2. \A r \in Requests : purchase[r].id \in OrderIds \cup {NoRow}
    BY <1>2 DEF OrderTypes, Purchase
  <2>3. \A r \in Requests : IF purchase'[r].id = NoRow THEN purchase'[r] = O!Idle
                                                      ELSE row'[purchase'[r].id] # NoRow
    BY <1>1, <1>2, <1>5, <2>2 DEF OrderTypes, O!Of
  <2> QED BY <1>1, <1>2, <1>5, <2>1, <2>3 DEF OrderTypes, O!Of
<1>7. ASSUME NEW j \in OrderIds \ disturbed'
      PROVE  OneGoes(j)'
  <2>1. j \notin disturbed /\ OneGoes(j)
    BY <1>1 DEF OrderInv, O!Marks
  <2>2. CASE j # id
    BY <1>1, <1>5, <2>1, <2>2 DEF OneGoes, O!Of
  <2>3. CASE j = id
    <3>1. buyerOf[id] = "nobody" /\ \A r \in Requests : purchase[r].id # id
      BY <1>1, <2>1, <2>3 DEF O!Marks, O!Buying, O!Of
    <3> QED BY <1>1, <2>3, <3>1 DEF OneGoes, O!Of
  <2> QED BY <2>2, <2>3
<1> QED BY <1>6, <1>7 DEF OrderInv

\* A step that writes neither an order nor a purchase.
LEMMA OrdersStay ==
    ASSUME OrderInv, UNCHANGED <<row, purchase, buyerOf, disturbed>>,
           shown' \subseteq {id \in OrderIds : row[id] # NoRow}
    PROVE  OrderInv'
BY DEF OrderInv, OrderTypes, OneGoes, O!Of

\* Every step keeps what is known of the orders.
LEMMA OrdersGoOn ==
    ASSUME OrderNames, OrderInv, [O!Next]_O!vars
    PROVE  OrderInv'
<1>1. CASE UNCHANGED O!vars
  BY <1>1, OrdersStay DEF O!vars, OrderInv, OrderTypes
<1>2. CASE O!LoadOrders
  BY <1>2, OrdersStay DEF O!LoadOrders
<1>3. ASSUME NEW id \in OrderIds, O!EscrowList(id) \/ O!PostOrder(id) \/ O!Cancel(id)
      PROVE  OrderInv'
  BY <1>3, CreateOrderKeeps, CancelKeeps DEF O!EscrowList, O!PostOrder
<1>4. ASSUME NEW r \in Requests, NEW id \in OrderIds, NEW b \in Buyers,
             O!EscrowBuy(r, id, b) \/ O!SettleTrade(r, id, b)
      PROVE  OrderInv'
  BY <1>4, PurchaseBegins DEF O!EscrowBuy, O!SettleTrade
<1>5. ASSUME NEW r \in Requests,
             \/ O!Submitted(r) \/ O!UpdateStatus(r) \/ O!UpdateBuyer(r) \/ O!UpdateHash(r)
             \/ O!Fails(r) \/ O!Look(r) \/ O!Reopen(r)
      PROVE  OrderInv'
  BY <1>5, PurchaseReads, PurchaseWrites, PurchaseLast
<1>6. ASSUME NEW r \in Requests, O!Dies(r)
      PROVE  OrderInv'
  BY <1>6, PurchaseEnds DEF O!Dies
<1> QED BY <1>1, <1>2, <1>3, <1>4, <1>5, <1>6 DEF O!Next

\* Once a buyer was told that a purchase is complete, the order stays filled in his
\* name and with his hash, unless it is disturbed (two purchases at once, a cancel
\* from an old page, or a second sale).
THEOREM SalesAreRecorded ==
    ASSUME OrderNames
    PROVE  O!Spec => []SaleIsRecorded
<1>1. O!Init => OrderInv
  <2> SUFFICES ASSUME O!Init PROVE OrderInv
    OBVIOUS
  <2>1. O!Idle \in Purchase /\ O!Idle.id = NoRow
    BY DEF O!Idle, Purchase, BuyerNames
  <2>2. OrderTypes
    BY <2>1 DEF O!Init, OrderTypes, O!Of, BuyerNames
  <2>3. \A id \in OrderIds : OneGoes(id)
    BY <2>1 DEF O!Init, OneGoes, O!Of, OrderNames
  <2> QED BY <2>2, <2>3 DEF OrderInv
<1>2. OrderInv /\ [O!Next]_O!vars => OrderInv'
  BY OrdersGoOn
<1>3. OrderInv => SaleIsRecorded
  BY DEF OrderInv, OneGoes, SaleIsRecorded, O!SaleIsRecorded
<1> QED BY <1>1, <1>2, <1>3, PTL DEF O!Spec
=============================================================================
