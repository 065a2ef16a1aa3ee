--------------------------- MODULE FileStoreProofs ---------------------------
(***************************************************************************)
(* Proofs about FileStore and TaskQueue, for any set of requests,          *)
(* contents, workers, futures and items, any capacities, batch size and    *)
(* number of panics.  The two are proved apart.                            *)
(*                                                                         *)
(* FileStore.  The invariant follows a key through its life. A key is      *)
(* filled for the first time by the request that made it (Fresh), and only *)
(* rows of filled keys exist (Had). An object then goes only behind a      *)
(* reference count that came out zero, and every row that was there at the *)
(* count is deleted (Counts). What is marked PENDING is held by somebody   *)
(* (Pending), and what is called purged was removed (Success).             *)
(*                                                                         *)
(* TaskQueue.  What is at rest follows from where everything taken is: a   *)
(* future is in the channel or with a worker, workers go by a panic as     *)
(* long as there is something to do, and the place of the loop tells what  *)
(* it holds. That each item is handled once needs the whole history of the *)
(* items, which no step of the loop reorders (Taken).                      *)
(***************************************************************************)
EXTENDS FileStore, TaskQueue, SequenceTheorems, FiniteSetTheorems, TLAPS

-----------------------------------------------------------------------------
(* FileStore.                                                              *)

\* A request that has not stored its own key yet, and one that has not opened
\* a multipart upload for it either.
Storing == {"idle", "find", "check", "store", "parts"}
Opening == {"idle", "find", "check", "store"}

\* A key that can still be filled by one of the service's own calls was never
\* filled. Only a key with a presigned PUT can be filled twice.
Fresh == \A k \in Keys :
    /\ pc[k] \in Storing => k \notin stored
    /\ pc[k] \in Opening => upload[k] = "none"
    /\ upload[k] \in {"open", "full"} => k \notin stored
    /\ upload[k] = "full" => pc[k] \notin Storing
    /\ upload[k] = "open" /\ kind[k] = "multipart" => pc[k] \notin Storing
    /\ pc[k] = "idle" => kind[k] = "none"
    /\ k \in url => pc[k] = "done" /\ kind[k] = "presign" /\ upload[k] = "none"

\* Rows, and requests about to insert one, name keys that were filled.
Had ==
    /\ object \subseteq stored
    /\ RowHadObject
    /\ \A p \in Requests : pc[p] = "insert" => key[p] \in stored
    /\ \A p \in Requests : pc[p] \in {"find", "store", "parts"} => key[p] = p

\* The rows on their way to be purged whose count came out zero.
Zeroed == {row[p] : p \in {q \in Requests : pc[q] \in {"mark", "spawn"}}}
            \cup InQueue \cup InWorker

\* Behind every missing object and every purge under way is a zero count, and
\* the rows there were at the count are deleted.
Counts ==
    /\ \A k \in Keys : counted[k] <= Len(rows)
    /\ \A r \in DOMAIN rows : rows[r].live => counted[rows[r].key] < r
    /\ \A k \in stored \ object : counted[k] > 0
    /\ \A r \in Zeroed : counted[rows[r].key] > 0

\* The rows a task holds, or is about to.
Held == {row[p] : p \in {q \in Requests : pc[q] = "spawn"}} \cup InQueue \cup InWorker

Pending == \A r \in DOMAIN rows : rows[r].purge = "PENDING" =>
                r \in Held \/ rows[r].key \in lost

Success ==
    /\ SuccessIsTrue
    /\ \A r \in DOMAIN rows : rows[r].purge = "SUCCESS" => counted[rows[r].key] > 0
    /\ \A w \in Workers : job[w].at = "record" /\ job[w].outcome = "SUCCESS" =>
            (rows[job[w].row].key \in object => rows[job[w].row].key \in again)

IInv == TypeOK /\ Fresh /\ Had /\ Counts /\ Pending /\ Success /\ LeakHasCause


-----------------------------------------------------------------------------
(* What the operations do to rows and to the queue.                         *)

\* A new row at the end leaves the others as they are.
LEMMA AppendRow ==
    ASSUME TypeOK, NEW f \in File, rows' = Append(rows, f)
    PROVE  /\ rows' \in Seq(File) /\ Len(rows') = Len(rows) + 1
           /\ DOMAIN rows' = DOMAIN rows \cup {Len(rows) + 1}
           /\ rows'[Len(rows) + 1] = f
           /\ \A r \in DOMAIN rows : rows'[r] = rows[r]
  BY DEF TypeOK

\* An update of one row keeps every row's key, and the other rows.
LEMMA ChangeRow ==
    ASSUME TypeOK, NEW r \in DOMAIN rows, NEW f \in File,
           f.key = rows[r].key, rows' = [rows EXCEPT ![r] = f]
    PROVE  /\ rows' \in Seq(File) /\ Len(rows') = Len(rows) /\ DOMAIN rows' = DOMAIN rows
           /\ rows'[r] = f
           /\ \A s \in DOMAIN rows : s # r => rows'[s] = rows[s]
           /\ \A s \in DOMAIN rows : rows'[s].key = rows[s].key
  BY DEF TypeOK

LEMMA RowType ==
    ASSUME TypeOK, NEW r \in DOMAIN rows
    PROVE  /\ rows[r] \in File /\ rows[r].key \in Keys /\ r \in Nat /\ r > 0
           /\ r <= Len(rows) /\ Len(rows) \in Nat
  <1>1. rows[r] \in File /\ r \in 1..Len(rows) /\ Len(rows) \in Nat
    BY DEF TypeOK
  <1>2. rows[r].key \in Keys
    BY <1>1 DEF File
  <1> QED
    BY <1>1, <1>2

\* The rows a purge is under way for are rows.
LEMMA UnderWayRows ==
    ASSUME TypeOK
    PROVE  UnderWay \subseteq DOMAIN rows /\ Zeroed \subseteq UnderWay /\ Held \subseteq Zeroed
  <1>1. InRequest \subseteq DOMAIN rows
    BY DEF TypeOK, InRequest, Purging
  <1>2. InQueue \subseteq DOMAIN rows
    BY DEF TypeOK, InQueue
  <1>3. InWorker \subseteq DOMAIN rows
    BY DEF TypeOK, InWorker
  <1> QED
    BY <1>1, <1>2, <1>3 DEF UnderWay, Zeroed, Held, InRequest, Purging

\* The three updates of rows, as changes of one row.
LEMMA SoftDeleteRow ==
    ASSUME TypeOK, NEW p \in Requests, SoftDelete(p)
    PROVE  /\ rows' \in Seq(File) /\ row[p] \in DOMAIN rows /\ DOMAIN rows' = DOMAIN rows /\ Len(rows') = Len(rows)
           /\ rows'[row[p]].live = FALSE /\ rows'[row[p]].purge = "NONE"
           /\ \A s \in DOMAIN rows : s # row[p] => rows'[s] = rows[s]
           /\ \A s \in DOMAIN rows : rows'[s].key = rows[s].key
  <1> DEFINE f == [rows[row[p]] EXCEPT !.live = FALSE, !.purge = "NONE"]
  <1>1. row[p] \in DOMAIN rows
    BY DEF SoftDelete, Goto, TypeOK
  <1>2. f \in File /\ f.key = rows[row[p]].key /\ f.live = FALSE /\ f.purge = "NONE"
    BY <1>1, RowType DEF File
  <1>3. rows' = [rows EXCEPT ![row[p]] = f]
    BY <1>1 DEF SoftDelete
  <1> HIDE DEF f
  <1> QED
    BY <1>1, <1>2, <1>3, ChangeRow

LEMMA MarkPendingRow ==
    ASSUME TypeOK, NEW p \in Requests, MarkPending(p)
    PROVE  /\ rows' \in Seq(File) /\ row[p] \in DOMAIN rows /\ DOMAIN rows' = DOMAIN rows /\ Len(rows') = Len(rows)
           /\ rows'[row[p]].live = rows[row[p]].live /\ rows'[row[p]].purge = "PENDING"
           /\ \A s \in DOMAIN rows : s # row[p] => rows'[s] = rows[s]
           /\ \A s \in DOMAIN rows : rows'[s].key = rows[s].key
  <1> DEFINE f == [rows[row[p]] EXCEPT !.purge = "PENDING"]
  <1>1. row[p] \in DOMAIN rows
    BY DEF MarkPending, Goto, TypeOK, Purging
  <1>2. f \in File /\ f.key = rows[row[p]].key /\ f.live = rows[row[p]].live /\ f.purge = "PENDING"
    BY <1>1, RowType DEF File
  <1>3. rows' = [rows EXCEPT ![row[p]] = f]
    BY <1>1 DEF MarkPending
  <1> HIDE DEF f
  <1> QED
    BY <1>1, <1>2, <1>3, ChangeRow

LEMMA RecordPurgeRow ==
    ASSUME TypeOK, NEW w \in Workers, RecordPurge(w)
    PROVE  LET r == job[w].row IN
           /\ r \in DOMAIN rows /\ rows' \in Seq(File)
           /\ \/ /\ DOMAIN rows' = DOMAIN rows /\ Len(rows') = Len(rows)
                 /\ rows'[r].live = rows[r].live
                 /\ rows'[r].purge = job[w].outcome
                 /\ \A s \in DOMAIN rows : s # r => rows'[s] = rows[s]
                 /\ \A s \in DOMAIN rows : rows'[s].key = rows[s].key
                 /\ UNCHANGED lost
              \/ rows' = rows /\ lost' = lost \cup {rows[r].key}
  <1> DEFINE r == job[w].row
             f == [rows[r] EXCEPT !.purge = job[w].outcome]
  <1>1. r \in DOMAIN rows
    BY DEF RecordPurge, TypeOK
  <1>2. /\ f \in File /\ f.key = rows[r].key /\ f.live = rows[r].live
        /\ f.purge = job[w].outcome
    <2>1. job[w].outcome \in Outcomes
      BY DEF TypeOK, Job
    <2> QED
      BY <1>1, <2>1, RowType DEF File, Outcomes
  <1>3. \/ rows' = [rows EXCEPT ![r] = f] /\ lost' = lost
        \/ rows' = rows /\ lost' = lost \cup {rows[r].key}
    <2>1. CASE rows' = rows /\ lost' = lost \cup {rows[r].key}
      BY <2>1
    <2>2. CASE rows' = [rows EXCEPT ![r].purge = job[w].outcome] /\ lost' = lost
      BY <2>2
    <2> QED
      BY <2>1, <2>2 DEF RecordPurge
  <1> HIDE DEF f
  <1> QED
    BY <1>1, <1>2, <1>3, ChangeRow DEF TypeOK

\* None of them touches a key.
LEMMA RowsKept ==
    ASSUME TypeOK,
           \/ \E p \in Requests : SoftDelete(p) \/ MarkPending(p)
           \/ \E w \in Workers : RecordPurge(w)
    PROVE  DOMAIN rows' = DOMAIN rows /\ \A r \in DOMAIN rows : rows'[r].key = rows[r].key
  BY SoftDeleteRow, MarkPendingRow, RecordPurgeRow

-----------------------------------------------------------------------------
(* Type correctness.                                                        *)

LEMMA TypeInit == Init => TypeOK
  <1> SUFFICES ASSUME Init PROVE TypeOK
    OBVIOUS
  <1>1. rows \in Seq(File) /\ DOMAIN rows = {}
    BY DEF Init
  <1>2. queue \in Seq(DOMAIN rows) /\ Len(queue) <= QueueCapacity
    BY FileStoreAssumption DEF Init
  <1>3. job \in [Workers -> Job] /\ \A w \in Workers : job[w].at = "idle"
    BY DEF Init, Job, IdleJob, Outcomes
  <1> QED
    BY <1>1, <1>2, <1>3 DEF Init, TypeOK, Keys, Digests, Kinds, Places, Purging

LEMMA TypeStep == TypeOK /\ [Next]_vars => TypeOK'
  <1> SUFFICES ASSUME TypeOK, [Next]_vars PROVE TypeOK'
    OBVIOUS
  <1> USE DEF disk, request, worker, history
  <1>0. CASE UNCHANGED vars
    BY <1>0 DEF TypeOK, vars
  <1>1. CASE \E p \in Requests : Upload(p)
    <2> PICK p \in Requests : Upload(p)
      BY <1>1
    <2> USE DEF TypeOK, Goto, Enter, Fill, Keys, Digests, Kinds, Places, Purging
    <2>1. CASE BeginUpload(p)
      BY <2>1 DEF BeginUpload
    <2>2. CASE BeginPresign(p)
      BY <2>2 DEF BeginPresign
    <2>3. CASE BeginMultipart(p)
      BY <2>3 DEF BeginMultipart
    <2>4. CASE Find(p)
      <3>1. \A r \in DOMAIN rows : rows[r].key \in Keys
        BY RowType
      <3> QED
        BY <2>4, <3>1, ZenonT(40) DEF Find, Matches
    <2>5. CASE CheckReused(p)
      <3>1. key' \in [Requests -> Keys]
        BY <2>5 DEF CheckReused
      <3>2. pc' \in [Requests -> Places] /\ pc'[p] \in {"insert", "store"}
        BY <2>5 DEF CheckReused
      <3>3. \A q \in Requests : pc'[q] \in Purging \cup {"soft"} => row[q] \in DOMAIN rows
        BY <2>5, <3>2 DEF CheckReused
      <3> QED
        BY <2>5, <3>1, <3>2, <3>3 DEF CheckReused
    <2>6. CASE PutObject(p) \/ OpenUpload(p) \/ FinishUpload(p) \/ FailUpload(p)
      BY <2>6, ZenonT(40) DEF PutObject, OpenUpload, FinishUpload, FailUpload
    <2>7. CASE GrantUrl(p) \/ OpenMultipart(p)
      BY <2>7 DEF GrantUrl, OpenMultipart
    <2>8. CASE BeginConfirm(p)
      BY <2>8 DEF BeginConfirm
    <2>9. CASE BeginComplete(p)
      BY <2>9 DEF BeginComplete
    <2>10. CASE HeadObject(p) \/ ListParts(p)
      BY <2>10 DEF HeadObject, ListParts
    <2>11. CASE FinishParts(p)
      <3>1. pc' \in [Requests -> Places] /\ pc'[p] \in {"head", "done"}
        BY <2>11 DEF FinishParts
      <3>2. \A q \in Requests : pc'[q] \in Purging \cup {"soft"} => row[q] \in DOMAIN rows
        BY <2>11, <3>1 DEF FinishParts
      <3>3. /\ object' \subseteq Keys /\ stored' \subseteq Keys
            /\ upload' \in [Keys -> {"none", "open", "full", "closed"}]
        <4>1. CASE upload[key[p]] = "full"
          BY <2>11, <4>1 DEF FinishParts
        <4>2. CASE upload[key[p]] # "full"
          BY <2>11, <4>2 DEF FinishParts
        <4> QED
          BY <4>1, <4>2
      <3> QED
        BY <2>11, <3>1, <3>2, <3>3 DEF FinishParts
    <2>12. CASE Insert(p)
      <3> DEFINE f == [key |-> key[p], md5 |-> md5[p], live |-> TRUE, purge |-> "NONE"]
      <3>1. f \in File
        BY DEF File
      <3>2. /\ rows' \in Seq(File) /\ DOMAIN rows \subseteq DOMAIN rows'
        BY <2>12, <3>1, AppendRow DEF Insert
      <3>3. queue' \in Seq(DOMAIN rows') /\ Len(queue') <= QueueCapacity
        BY <2>12, <3>2 DEF Insert
      <3> QED
        BY <2>12, <3>2, <3>3 DEF Insert
    <2> QED
      BY <2>1, <2>2, <2>3, <2>4, <2>5, <2>6, <2>7, <2>8, <2>9, <2>10, <2>11, <2>12
      DEF Upload
  <1>2. CASE \E p \in Requests : Delete(p)
    <2> PICK p \in Requests : Delete(p)
      BY <1>2
    <2> USE DEF TypeOK, Goto, Keys, Kinds, Places, Purging
    <2>1. CASE BeginDelete(p)
      BY <2>1, RowType DEF BeginDelete
    <2>2. CASE SoftDelete(p)
      <3>1. row[p] \in DOMAIN rows /\ rows' \in Seq(File) /\ DOMAIN rows' = DOMAIN rows
        BY <2>2, SoftDeleteRow
      <3> QED
        BY <2>2, <3>1 DEF SoftDelete
    <2>3. CASE CountRefs(p)
      <3>1. Len(rows) \in Nat
        OBVIOUS
      <3> QED
        BY <2>3, <3>1 DEF CountRefs
    <2>4. CASE MarkPending(p)
      <3>1. row[p] \in DOMAIN rows /\ rows' \in Seq(File) /\ DOMAIN rows' = DOMAIN rows
        BY <2>4, MarkPendingRow
      <3> QED
        BY <2>4, <3>1 DEF MarkPending
    <2>5. CASE SpawnPurge(p)
      <3>1. row[p] \in DOMAIN rows /\ rows[row[p]].key \in Keys
        BY <2>5, RowType DEF SpawnPurge
      <3>2. queue' \in Seq(DOMAIN rows) /\ Len(queue') <= QueueCapacity
        <4>1. CASE Len(queue) < QueueCapacity
          <5>1. queue' = Append(queue, row[p])
            BY <2>5, <4>1 DEF SpawnPurge
          <5>2. Len(queue') = Len(queue) + 1 /\ Len(queue) \in Nat
            BY <5>1
          <5> QED
            BY <3>1, <4>1, <5>1, <5>2, FileStoreAssumption
        <4>2. CASE ~(Len(queue) < QueueCapacity)
          BY <2>5, <4>2 DEF SpawnPurge
        <4> QED
          BY <4>1, <4>2
      <3> QED
        BY <2>5, <3>1, <3>2 DEF SpawnPurge
    <2> QED
      BY <2>1, <2>2, <2>3, <2>4, <2>5 DEF Delete
  <1>3. CASE \E p \in Requests : Abandon(p)
    <2> PICK p \in Requests : Abandon(p)
      BY <1>3
    <2>1. pc[p] \in Purging => rows[row[p]].key \in Keys
      BY RowType DEF TypeOK
    <2> QED
      BY <2>1 DEF Abandon, TypeOK, Keys, Places, Purging
  <1>4. CASE \E w \in Workers : Work(w)
    <2> PICK w \in Workers : Work(w)
      BY <1>4
    <2>1. CASE TakeTask(w)
      <3>1. Head(queue) \in DOMAIN rows /\ queue' \in Seq(DOMAIN rows) /\ Len(queue') <= QueueCapacity
        BY <2>1, FileStoreAssumption DEF TakeTask, TypeOK
      <3>2. job' \in [Workers -> Job]
        BY <2>1, <3>1, RowType DEF TakeTask, TypeOK, Job, Outcomes
      <3>3. \A v \in Workers : job'[v].at # "idle" => job'[v].row \in DOMAIN rows
        BY <2>1, <3>1 DEF TakeTask, TypeOK, Job
      <3> QED
        BY <2>1, <3>1, <3>2, <3>3 DEF TakeTask, TypeOK
    <2>2. CASE DeleteObject(w)
      <3>0. PICK o \in Outcomes : job' = [job EXCEPT ![w].at = "record", ![w].outcome = o]
        BY <2>2 DEF DeleteObject
      <3>3. job[w] \in Job /\ [job[w] EXCEPT !.at = "record", !.outcome = o] \in Job
        BY DEF TypeOK, Job
      <3>4. job' = [job EXCEPT ![w] = [job[w] EXCEPT !.at = "record", !.outcome = o]]
        BY <3>0 DEF TypeOK
      <3>5. job' \in [Workers -> Job]
        BY <3>3, <3>4 DEF TypeOK
      <3>1. job' \in [Workers -> Job] /\ object' \subseteq Keys
        BY <2>2, <3>5 DEF DeleteObject, TypeOK
      <3>2. \A v \in Workers : job'[v].at # "idle" => job'[v].row \in DOMAIN rows
        BY <2>2, ZenonT(40) DEF DeleteObject, TypeOK, Job
      <3> QED
        BY <2>2, <3>1, <3>2 DEF DeleteObject, TypeOK
    <2>3. CASE RecordPurge(w)
      <3>1. job[w].row \in DOMAIN rows /\ rows[job[w].row].key \in Keys
        BY <2>3, RowType DEF RecordPurge, TypeOK
      <3>4. rows' \in Seq(File) /\ DOMAIN rows' = DOMAIN rows
        BY <2>3, RecordPurgeRow DEF TypeOK
      <3>5. job' \in [Workers -> Job]
        BY <2>3 DEF RecordPurge, TypeOK, Job, IdleJob, Outcomes
      <3>6. \A v \in Workers : job'[v].at # "idle" => job'[v].row \in DOMAIN rows
        BY <2>3 DEF RecordPurge, TypeOK, Job, IdleJob, Outcomes
      <3> QED
        BY <2>3, <3>1, <3>4, <3>5, <3>6 DEF RecordPurge, TypeOK
    <2> QED
      BY <2>1, <2>2, <2>3 DEF Work
  <1>5. CASE \E k \in Keys : Outside(k)
    <2> PICK k \in Keys : Outside(k)
      BY <1>5
    <2> QED
      BY ZenonT(40) DEF Outside, ClientPut, ClientParts, AbortMultipart, CleanupStale, Fill, TypeOK, Keys
  <1>6. CASE Restart
    <2>1. lost' \subseteq Keys
      BY <1>6, UnderWayRows, RowType DEF Restart, TypeOK
    <2>2. queue' \in Seq(DOMAIN rows) /\ Len(queue') <= QueueCapacity
      BY <1>6, FileStoreAssumption DEF Restart
    <2>3. job' \in [Workers -> Job] /\ \A w \in Workers : job'[w].at = "idle"
      BY <1>6 DEF Restart, Job, IdleJob, Outcomes
    <2>4. pc' \in [Requests -> Places] /\ \A p \in Requests : pc'[p] \in {"idle", "done"}
      BY <1>6 DEF Restart, Places
    <2> QED
      BY <1>6, <2>1, <2>2, <2>3, <2>4 DEF Restart, TypeOK, Purging
  <1> QED
    BY <1>0, <1>1, <1>2, <1>3, <1>4, <1>5, <1>6 DEF Next

\* Every variable of the file store keeps its type, and the queue its bound.
THEOREM FileStoreTypeOK == Spec => []TypeOK
  <1>1. TypeOK /\ [Next]_vars => TypeOK'
    BY TypeStep
  <1> QED
    BY TypeInit, <1>1, PTL DEF Spec

-----------------------------------------------------------------------------
(* The first filling of a key.                                              *)

LEMMA FreshStep == TypeOK /\ Fresh /\ [Next]_vars => Fresh'
  <1> SUFFICES ASSUME TypeOK, Fresh, [Next]_vars, NEW k \in Keys
               PROVE  /\ pc'[k] \in Storing => k \notin stored'
                      /\ pc'[k] \in Opening => upload'[k] = "none"
                      /\ upload'[k] \in {"open", "full"} => k \notin stored'
                      /\ upload'[k] = "full" => pc'[k] \notin Storing
                      /\ upload'[k] = "open" /\ kind'[k] = "multipart" => pc'[k] \notin Storing
                      /\ pc'[k] = "idle" => kind'[k] = "none"
                      /\ k \in url' => pc'[k] = "done" /\ kind'[k] = "presign" /\ upload'[k] = "none"
    BY DEF Fresh
  <1> USE DEF disk, request, worker, history, Storing, Opening, Keys, Goto
  <1>t. /\ pc \in [Requests -> Places] /\ kind \in [Requests -> Kinds]
        /\ key \in [Requests -> Keys] /\ upload \in [Keys -> {"none", "open", "full", "closed"}]
        /\ k \in Requests
    BY DEF TypeOK
  <1>f. /\ pc[k] \in Storing => k \notin stored
        /\ pc[k] \in Opening => upload[k] = "none"
        /\ upload[k] \in {"open", "full"} => k \notin stored
        /\ upload[k] = "full" => pc[k] \notin Storing
        /\ upload[k] = "open" /\ kind[k] = "multipart" => pc[k] \notin Storing
        /\ pc[k] = "idle" => kind[k] = "none"
        /\ k \in url => pc[k] = "done" /\ kind[k] = "presign" /\ upload[k] = "none"
    BY DEF Fresh
  <1>0. CASE UNCHANGED vars
    BY <1>0, <1>f DEF vars
  <1>1. CASE \E p \in Requests : Upload(p)
    <2> PICK p \in Requests : Upload(p)
      BY <1>1
    <2>1. CASE BeginUpload(p) \/ BeginPresign(p) \/ BeginMultipart(p)
      BY <1>t, <1>f, <2>1 DEF BeginUpload, BeginPresign, BeginMultipart, Enter
    <2>2. CASE BeginConfirm(p) \/ BeginComplete(p)
      BY <1>t, <1>f, <2>2 DEF BeginConfirm, BeginComplete, Enter
    <2>3. CASE Find(p) \/ CheckReused(p)
      BY <1>t, <1>f, <2>3 DEF Find, CheckReused
    <2>4. CASE PutObject(p)
      BY <1>t, <1>f, <2>4 DEF PutObject, Fill
    <2>5. CASE OpenUpload(p)
      BY <1>t, <1>f, <2>5 DEF OpenUpload
    <2>6. CASE FinishUpload(p)
      BY <1>t, <1>f, <2>6 DEF FinishUpload, Fill
    <2>7. CASE FailUpload(p)
      BY <1>t, <1>f, <2>7 DEF FailUpload
    <2>8. CASE GrantUrl(p) \/ OpenMultipart(p)
      BY <1>t, <1>f, <2>8 DEF GrantUrl, OpenMultipart
    <2>9. CASE HeadObject(p) \/ ListParts(p)
      BY <1>t, <1>f, <2>9 DEF HeadObject, ListParts
    <2>10. CASE FinishParts(p)
      <3>1. CASE upload[key[p]] = "full"
        BY <1>t, <1>f, <2>10, <3>1 DEF FinishParts, Fill
      <3>2. CASE upload[key[p]] # "full"
        BY <1>t, <1>f, <2>10, <3>2 DEF FinishParts
      <3> QED
        BY <3>1, <3>2
    <2>11. CASE Insert(p)
      BY <1>t, <1>f, <2>11 DEF Insert
    <2> QED
      BY <2>1, <2>2, <2>3, <2>4, <2>5, <2>6, <2>7, <2>8, <2>9, <2>10, <2>11 DEF Upload
  <1>2. CASE \E p \in Requests : Delete(p) \/ Abandon(p)
    <2> PICK p \in Requests : Delete(p) \/ Abandon(p)
      BY <1>2
    <2>1. CASE BeginDelete(p)
      BY <1>t, <1>f, <2>1 DEF BeginDelete
    <2>2. CASE SoftDelete(p) \/ CountRefs(p) \/ MarkPending(p) \/ SpawnPurge(p) \/ Abandon(p)
      BY <1>t, <1>f, <2>2
      DEF SoftDelete, CountRefs, MarkPending, SpawnPurge, Abandon, Purging
    <2> QED
      BY <2>1, <2>2 DEF Delete
  <1>3. CASE \E w \in Workers : Work(w)
    BY <1>3, <1>f DEF Work, TakeTask, DeleteObject, RecordPurge
  <1>4. CASE \E l \in Keys : Outside(l)
    BY <1>4, <1>t, <1>f DEF Outside, ClientPut, ClientParts, AbortMultipart, CleanupStale, Fill
  <1>5. CASE Restart
    BY <1>5, <1>t, <1>f DEF Restart
  <1> QED
    BY <1>0, <1>1, <1>2, <1>3, <1>4, <1>5 DEF Next

LEMMA HadStep == TypeOK /\ Had /\ [Next]_vars => Had'
  <1> SUFFICES ASSUME TypeOK, Had, [Next]_vars PROVE Had'
    OBVIOUS
  <1> USE DEF disk, request, worker, history, Keys, Goto
  <1>t. /\ pc \in [Requests -> Places] /\ key \in [Requests -> Keys]
    BY DEF TypeOK
  <1>f. /\ object \subseteq stored
        /\ \A r \in DOMAIN rows : rows[r].key \in stored
        /\ \A p \in Requests : pc[p] = "insert" => key[p] \in stored
        /\ \A p \in Requests : pc[p] \in {"find", "store", "parts"} => key[p] = p
    BY DEF Had, RowHadObject
  <1>g. SUFFICES /\ object' \subseteq stored'
                 /\ \A r \in DOMAIN rows' : rows'[r].key \in stored'
                 /\ \A p \in Requests : pc'[p] = "insert" => key'[p] \in stored'
                 /\ \A p \in Requests : pc'[p] \in {"find", "store", "parts"} => key'[p] = p
    BY DEF Had, RowHadObject
  <1>0. CASE UNCHANGED vars
    BY <1>0, <1>f DEF vars
  <1>1. CASE \E p \in Requests : Upload(p)
    <2> PICK p \in Requests : Upload(p)
      BY <1>1
    <2>1. CASE BeginUpload(p) \/ BeginPresign(p) \/ BeginMultipart(p)
      BY <1>t, <1>f, <2>1 DEF BeginUpload, BeginPresign, BeginMultipart, Enter
    <2>2. CASE BeginConfirm(p) \/ BeginComplete(p)
      BY <1>t, <1>f, <2>2 DEF BeginConfirm, BeginComplete, Enter
    <2>3. CASE Find(p)
      <3>1. UNCHANGED <<rows, object, stored>>
        BY <2>3 DEF Find
      <3>2. ASSUME NEW q \in Requests, pc'[q] = "insert" PROVE key'[q] \in stored
        <4>1. CASE q = p
          <5>1. PICK r \in Matches(md5[p]) : key' = [key EXCEPT ![p] = rows[r].key]
            BY <1>t, <2>3, <3>2, <4>1 DEF Find
          <5> QED
            BY <1>t, <1>f, <4>1, <5>1 DEF Matches
        <4>2. CASE q # p
          BY <1>t, <1>f, <2>3, <3>2, <4>2 DEF Find
        <4> QED
          BY <4>1, <4>2
      <3>3. ASSUME NEW q \in Requests, pc'[q] \in {"find", "store", "parts"} PROVE key'[q] = q
        BY <1>t, <1>f, <2>3, <3>3 DEF Find
      <3> QED
        BY <1>f, <3>1, <3>2, <3>3
    <2>4. CASE CheckReused(p)
      BY <1>t, <1>f, <2>4 DEF CheckReused
    <2>5. CASE PutObject(p)
      <3>2. UNCHANGED <<rows, key>> /\ stored' = stored \cup {p} /\ object' = object \cup {p}
        BY <2>5 DEF PutObject, Fill
      <3> QED
        BY <1>t, <1>f, <2>5, <3>2 DEF PutObject
    <2>7. CASE FinishUpload(p)
      BY <1>t, <1>f, <2>7 DEF FinishUpload, Fill
    <2>6. CASE OpenUpload(p) \/ FailUpload(p) \/ GrantUrl(p) \/ OpenMultipart(p)
      BY <1>t, <1>f, <2>6 DEF OpenUpload, FailUpload, GrantUrl, OpenMultipart
    <2>8. CASE HeadObject(p) \/ ListParts(p)
      BY <1>t, <1>f, <2>8 DEF HeadObject, ListParts
    <2>9. CASE FinishParts(p)
      <3>1. CASE upload[key[p]] = "full"
        BY <1>t, <1>f, <2>9, <3>1 DEF FinishParts, Fill
      <3>2. CASE upload[key[p]] # "full"
        BY <1>t, <1>f, <2>9, <3>2 DEF FinishParts
      <3> QED
        BY <3>1, <3>2
    <2>10. CASE Insert(p)
      <3> DEFINE f == [key |-> key[p], md5 |-> md5[p], live |-> TRUE, purge |-> "NONE"]
      <3>1. f \in File /\ f.key = key[p]
        BY DEF File, TypeOK
      <3>2. rows' = Append(rows, f) /\ UNCHANGED <<object, stored, key>> /\ key[p] \in stored
        BY <1>f, <2>10 DEF Insert
      <3>3. \A r \in DOMAIN rows' : rows'[r].key \in stored'
        BY <1>f, <3>1, <3>2, AppendRow
      <3> QED
        BY <1>t, <1>f, <2>10, <3>2, <3>3 DEF Insert
    <2> QED
      BY <2>1, <2>2, <2>3, <2>4, <2>5, <2>6, <2>7, <2>8, <2>9, <2>10 DEF Upload
  <1>2. CASE \E p \in Requests : Delete(p) \/ Abandon(p)
    <2> PICK p \in Requests : Delete(p) \/ Abandon(p)
      BY <1>2
    <2>1. CASE BeginDelete(p)
      BY <1>t, <1>f, <2>1 DEF BeginDelete
    <2>2. CASE CountRefs(p) \/ SpawnPurge(p) \/ Abandon(p)
      BY <1>t, <1>f, <2>2 DEF CountRefs, SpawnPurge, Abandon
    <2>3. CASE SoftDelete(p) \/ MarkPending(p)
      <3>1. DOMAIN rows' = DOMAIN rows /\ \A r \in DOMAIN rows : rows'[r].key = rows[r].key
        BY <2>3, RowsKept
      <3> QED
        BY <1>t, <1>f, <2>3, <3>1 DEF SoftDelete, MarkPending
    <2> QED
      BY <2>1, <2>2, <2>3 DEF Delete
  <1>3. CASE \E w \in Workers : Work(w)
    <2> PICK w \in Workers : Work(w)
      BY <1>3
    <2>1. DOMAIN rows' = DOMAIN rows /\ \A r \in DOMAIN rows : rows'[r].key = rows[r].key
      BY RowsKept DEF Work, TakeTask, DeleteObject
    <2>2. object' \subseteq object /\ UNCHANGED <<stored, pc, key>>
      BY DEF Work, TakeTask, DeleteObject, RecordPurge
    <2> QED
      BY <1>f, <2>1, <2>2
  <1>4. CASE \E l \in Keys : Outside(l)
    BY <1>4, <1>t, <1>f DEF Outside, ClientPut, ClientParts, AbortMultipart, CleanupStale, Fill
  <1>5. CASE Restart
    BY <1>5, <1>t, <1>f DEF Restart
  <1> QED
    BY <1>0, <1>1, <1>2, <1>3, <1>4, <1>5 DEF Next

-----------------------------------------------------------------------------
(* What an upload, and what happens outside, means to the deletes.          *)

\* No purge moves.
Same == /\ UNCHANGED <<worker, counted, lost>>
        /\ \A q \in Requests : pc[q] \in Purging \/ pc'[q] \in Purging =>
                pc'[q] = pc[q] /\ row'[q] = row[q]

\* Only the requests move; a key is filled for the first time; a row is added.
Still    == Same /\ UNCHANGED <<rows, object, stored, again>>
Filled   == Same /\ UNCHANGED <<rows, again>> /\ \E k \in Keys \ stored : Fill(k)
Inserted == /\ Same /\ UNCHANGED <<object, stored, again>>
            /\ \E f \in File : /\ f.key \in stored /\ f.live /\ f.purge = "NONE"
                               /\ rows' = Append(rows, f)

LEMMA SameSets ==
    ASSUME TypeOK, Same
    PROVE  Zeroed' = Zeroed /\ Held' = Held /\ UnderWay' = UnderWay
  <1>1. InQueue' = InQueue /\ InWorker' = InWorker
    BY DEF Same, worker, InQueue, InWorker
  <1>2. InRequest' = InRequest
    BY DEF Same, InRequest, Purging
  <1>3. /\ {row[p] : p \in {q \in Requests : pc[q] = "spawn"}}'
             = {row[p] : p \in {q \in Requests : pc[q] = "spawn"}}
        /\ {row[p] : p \in {q \in Requests : pc[q] \in {"mark", "spawn"}}}'
             = {row[p] : p \in {q \in Requests : pc[q] \in {"mark", "spawn"}}}
    BY DEF Same, Purging
  <1> QED
    BY <1>1, <1>2, <1>3 DEF Zeroed, Held, UnderWay

LEMMA UploadKinds ==
    ASSUME TypeOK, Fresh, Had, NEW p \in Requests, Upload(p) \/ BeginDelete(p)
    PROVE  Still \/ Filled \/ Inserted
  <1> USE DEF disk, request, worker, history, Keys, Goto, Purging
  <1>t. /\ pc \in [Requests -> Places] /\ row \in [Requests -> Nat]
        /\ key \in [Requests -> Keys] /\ upload \in [Keys -> {"none", "open", "full", "closed"}]
    BY DEF TypeOK
  <1>1. CASE BeginUpload(p) \/ BeginPresign(p) \/ BeginMultipart(p)
    BY <1>t, <1>1 DEF BeginUpload, BeginPresign, BeginMultipart, Enter, Still, Same
  <1>2. CASE BeginConfirm(p) \/ BeginComplete(p)
    BY <1>t, <1>2 DEF BeginConfirm, BeginComplete, Enter, Still, Same
  <1>3. CASE Find(p) \/ CheckReused(p)
    BY <1>t, <1>3 DEF Find, CheckReused, Still, Same
  <1>4. CASE PutObject(p)
    <2>1. p \in Keys \ stored
      BY <1>4 DEF PutObject, Fresh, Storing
    <2> QED
      BY <1>t, <1>4, <2>1 DEF PutObject, Filled, Same
  <1>5. CASE FinishUpload(p)
    <2>1. p \in Keys \ stored
      BY <1>5 DEF FinishUpload, Fresh, Storing
    <2> QED
      BY <1>t, <1>5, <2>1 DEF FinishUpload, Filled, Same
  <1>6. CASE OpenUpload(p) \/ FailUpload(p) \/ GrantUrl(p) \/ OpenMultipart(p)
    BY <1>t, <1>6 DEF OpenUpload, FailUpload, GrantUrl, OpenMultipart, Still, Same
  <1>7. CASE HeadObject(p) \/ ListParts(p)
    BY <1>t, <1>7 DEF HeadObject, ListParts, Still, Same
  <1>8. CASE FinishParts(p)
    <2>1. CASE upload[key[p]] = "full"
      <3>1. key[p] \in Keys \ stored
        BY <1>t, <2>1 DEF Fresh
      <3> QED
        BY <1>t, <1>8, <2>1, <3>1 DEF FinishParts, Filled, Same
    <2>2. CASE upload[key[p]] # "full"
      BY <1>t, <1>8, <2>2 DEF FinishParts, Still, Same
    <2> QED
      BY <2>1, <2>2
  <1>9. CASE Insert(p)
    <2> DEFINE f == [key |-> key[p], md5 |-> md5[p], live |-> TRUE, purge |-> "NONE"]
    <2>1. f \in File /\ f.key \in stored /\ f.live /\ f.purge = "NONE"
      BY <1>9 DEF File, TypeOK, Had, Insert
    <2>2. rows' = Append(rows, f) /\ UNCHANGED <<object, stored, again>> /\ Same
      BY <1>t, <1>9 DEF Insert, Same
    <2> QED
      BY <2>1, <2>2 DEF Inserted
  <1>10. CASE BeginDelete(p)
    BY <1>t, <1>10 DEF BeginDelete, Still, Same
  <1> QED
    BY <1>1, <1>2, <1>3, <1>4, <1>5, <1>6, <1>7, <1>8, <1>9, <1>10 DEF Upload

\* Outside, only the PUT of a client matters to them.
LEMMA OutsideKinds ==
    ASSUME NEW k \in Keys, Outside(k)
    PROVE  Same /\ (Still \/ ClientPut(k))
  BY DEF Outside, ClientPut, ClientParts, AbortMultipart, CleanupStale, Still, Same,
         disk, request, worker, history

-----------------------------------------------------------------------------
(* The books of the reference counts.                                       *)

\* What the delete and the workers' steps do to the sets of rows in purge.
LEMMA PurgeSets ==
    ASSUME TypeOK
    PROVE  /\ \A p \in Requests : SoftDelete(p) =>
                 /\ Zeroed' = Zeroed /\ Held' = Held
                 /\ UnderWay' = UnderWay \cup {row[p]}
           /\ \A p \in Requests : CountRefs(p) =>
                 /\ Zeroed' \subseteq Zeroed \cup {row[p]} /\ Held' = Held
                 /\ UnderWay \subseteq UnderWay' \cup {row[p]} /\ row[p] \in DOMAIN rows
                 /\ LiveOf(rows[row[p]].key) = {} => UnderWay' = UnderWay
                 /\ LiveOf(rows[row[p]].key) # {} => Zeroed' = Zeroed
           /\ \A p \in Requests : MarkPending(p) =>
                 /\ Zeroed' = Zeroed /\ UnderWay' = UnderWay
                 /\ Held \subseteq Held' /\ row[p] \in Held'
  <1> USE DEF Goto, disk, request, worker, history
  <1>t. pc \in [Requests -> Places] /\ row \in [Requests -> Nat]
    BY DEF TypeOK
  <1>1. ASSUME NEW p \in Requests, SoftDelete(p)
        PROVE  /\ Zeroed' = Zeroed /\ Held' = Held
               /\ UnderWay' = UnderWay \cup {row[p]}
    <2>1. /\ InQueue' = InQueue /\ InWorker' = InWorker /\ row' = row
          /\ pc[p] = "soft" /\ pc' = [pc EXCEPT ![p] = "count"]
      BY <1>1 DEF SoftDelete, InQueue, InWorker
    <2>2. InRequest' = InRequest \cup {row[p]}
      BY <1>t, <2>1 DEF InRequest, Purging
    <2>3. /\ {row[q] : q \in {r \in Requests : pc[r] = "spawn"}}'
               = {row[q] : q \in {r \in Requests : pc[r] = "spawn"}}
          /\ {row[q] : q \in {r \in Requests : pc[r] \in {"mark", "spawn"}}}'
               = {row[q] : q \in {r \in Requests : pc[r] \in {"mark", "spawn"}}}
      BY <1>t, <2>1
    <2> QED
      BY <2>1, <2>2, <2>3 DEF Zeroed, Held, UnderWay
  <1>2. ASSUME NEW p \in Requests, CountRefs(p)
        PROVE  /\ Zeroed' \subseteq Zeroed \cup {row[p]} /\ Held' = Held
               /\ UnderWay \subseteq UnderWay' \cup {row[p]} /\ row[p] \in DOMAIN rows
               /\ LiveOf(rows[row[p]].key) = {} => UnderWay' = UnderWay
               /\ LiveOf(rows[row[p]].key) # {} => Zeroed' = Zeroed
    <2>1. /\ InQueue' = InQueue /\ InWorker' = InWorker /\ row' = row
          /\ pc[p] = "count" /\ row[p] \in DOMAIN rows
          /\ LiveOf(rows[row[p]].key) = {} => pc' = [pc EXCEPT ![p] = "mark"]
          /\ LiveOf(rows[row[p]].key) # {} => pc' = [pc EXCEPT ![p] = "done"]
      BY <1>2 DEF CountRefs, InQueue, InWorker, TypeOK, Purging
    <2>2. /\ InRequest \subseteq InRequest' \cup {row[p]}
          /\ LiveOf(rows[row[p]].key) = {} => InRequest' = InRequest
      BY <1>t, <2>1 DEF InRequest, Purging
    <2>3. {row[q] : q \in {r \in Requests : pc[r] = "spawn"}}'
            = {row[q] : q \in {r \in Requests : pc[r] = "spawn"}}
      BY <1>t, <2>1
    <2> DEFINE Z == {row[q] : q \in {r \in Requests : pc[r] \in {"mark", "spawn"}}}
    <2>4. Z' \subseteq Z \cup {row[p]} /\ (LiveOf(rows[row[p]].key) # {} => Z' = Z)
      BY <1>t, <2>1
    <2> QED
      BY <2>1, <2>2, <2>3, <2>4 DEF Zeroed, Held, UnderWay
  <1>3. ASSUME NEW p \in Requests, MarkPending(p)
        PROVE  /\ Zeroed' = Zeroed /\ UnderWay' = UnderWay
               /\ Held \subseteq Held' /\ row[p] \in Held'
    <2>1. /\ InQueue' = InQueue /\ InWorker' = InWorker /\ row' = row
          /\ pc[p] = "mark" /\ pc' = [pc EXCEPT ![p] = "spawn"]
      BY <1>3 DEF MarkPending, InQueue, InWorker
    <2>2. InRequest' = InRequest
      BY <1>t, <2>1 DEF InRequest, Purging
    <2> DEFINE Z == {row[q] : q \in {r \in Requests : pc[r] \in {"mark", "spawn"}}}
               H == {row[q] : q \in {r \in Requests : pc[r] = "spawn"}}
    <2>3. Z' = Z /\ H \subseteq H' /\ row[p] \in H'
      BY <1>t, <2>1
    <2> QED
      BY <2>1, <2>2, <2>3 DEF Zeroed, Held, UnderWay
  <1> QED
    BY <1>1, <1>2, <1>3

\* At most row r is let go of.
Release(r) == /\ Zeroed' \subseteq Zeroed
              /\ Held \subseteq Held' \cup {r}
              /\ UnderWay \subseteq UnderWay' \cup {r}

LEMMA ReleaseSets ==
    ASSUME TypeOK
    PROVE  /\ \A p \in Requests : SpawnPurge(p) =>
                 /\ Release(row[p]) /\ row[p] \in DOMAIN rows
                 /\ \/ row[p] \in Held' /\ row[p] \in UnderWay' /\ lost' = lost
                    \/ lost' = lost \cup {rows[row[p]].key}
           /\ \A p \in Requests : Abandon(p) =>
                 /\ Release(row[p])
                 /\ \/ row[p] \in DOMAIN rows /\ lost' = lost \cup {rows[row[p]].key}
                    \/ Zeroed' = Zeroed /\ Held' = Held /\ UnderWay' = UnderWay /\ lost' = lost
           /\ \A w \in Workers : RecordPurge(w) => Release(job[w].row)
  <1> USE DEF Goto, disk, request, worker, history
  <1>t. pc \in [Requests -> Places] /\ row \in [Requests -> Nat]
    BY DEF TypeOK
  <1> DEFINE Z == {row[q] : q \in {r \in Requests : pc[r] \in {"mark", "spawn"}}}
             H == {row[q] : q \in {r \in Requests : pc[r] = "spawn"}}
  <1>1. ASSUME NEW p \in Requests, SpawnPurge(p)
        PROVE  /\ Release(row[p]) /\ row[p] \in DOMAIN rows
               /\ \/ row[p] \in Held' /\ row[p] \in UnderWay' /\ lost' = lost
                  \/ lost' = lost \cup {rows[row[p]].key}
    <2>1. /\ InWorker' = InWorker /\ row' = row /\ row[p] \in DOMAIN rows
          /\ pc[p] = "spawn" /\ pc' = [pc EXCEPT ![p] = "done"]
      BY <1>1 DEF SpawnPurge, InWorker, TypeOK, Purging
    <2>2. /\ InRequest \subseteq InRequest' \cup {row[p]}
          /\ Z' \subseteq Z /\ H \subseteq H' \cup {row[p]} /\ row[p] \in Z
      BY <1>t, <2>1 DEF InRequest, Purging
    <2>3. CASE Len(queue) < QueueCapacity
      <3>1. queue' = Append(queue, row[p]) /\ lost' = lost
        BY <1>1, <2>3 DEF SpawnPurge
      <3>2. queue \in Seq(DOMAIN rows)
        BY DEF TypeOK
      <3>3. InQueue' = InQueue \cup {row[p]}
        BY <2>1, <3>1, <3>2 DEF InQueue
      <3> QED
        BY <2>1, <2>2, <3>1, <3>3 DEF Release, Zeroed, Held, UnderWay
    <2>4. CASE ~(Len(queue) < QueueCapacity)
      <3>1. InQueue' = InQueue /\ lost' = lost \cup {rows[row[p]].key}
        BY <1>1, <2>4 DEF SpawnPurge, InQueue
      <3> QED
        BY <2>1, <2>2, <3>1 DEF Release, Zeroed, Held, UnderWay
    <2> QED
      BY <2>3, <2>4
  <1>2. ASSUME NEW p \in Requests, Abandon(p)
        PROVE  /\ Release(row[p])
               /\ \/ row[p] \in DOMAIN rows /\ lost' = lost \cup {rows[row[p]].key}
                  \/ Zeroed' = Zeroed /\ Held' = Held /\ UnderWay' = UnderWay /\ lost' = lost
    <2>1. /\ InQueue' = InQueue /\ InWorker' = InWorker /\ row' = row
          /\ pc' = [pc EXCEPT ![p] = "done"]
      BY <1>2 DEF Abandon, InQueue, InWorker
    <2>2. /\ InRequest \subseteq InRequest' \cup {row[p]}
          /\ Z' \subseteq Z /\ H \subseteq H' \cup {row[p]}
      BY <1>t, <2>1 DEF InRequest, Purging
    <2>3. CASE pc[p] \in Purging
      <3>1. row[p] \in DOMAIN rows /\ lost' = lost \cup {rows[row[p]].key}
        BY <1>2, <2>3 DEF Abandon, TypeOK
      <3> QED
        BY <2>1, <2>2, <3>1 DEF Release, Zeroed, Held, UnderWay
    <2>4. CASE pc[p] \notin Purging
      <3>1. InRequest' = InRequest /\ Z' = Z /\ H' = H
        BY <1>t, <2>1, <2>4 DEF InRequest, Purging
      <3>2. lost' = lost
        BY <1>2, <2>4 DEF Abandon
      <3> QED
        BY <2>1, <3>1, <3>2 DEF Release, Zeroed, Held, UnderWay
    <2> QED
      BY <2>3, <2>4
  <1>3. ASSUME NEW w \in Workers, RecordPurge(w) PROVE Release(job[w].row)
    <2>1. InQueue' = InQueue /\ InRequest' = InRequest /\ Z' = Z /\ H' = H
      BY <1>3 DEF RecordPurge, InQueue, InRequest
    <2>2. job' = [job EXCEPT ![w] = IdleJob] /\ IdleJob.at = "idle"
      BY <1>3 DEF RecordPurge, IdleJob
    <2>3. InWorker' \subseteq InWorker /\ InWorker \subseteq InWorker' \cup {job[w].row}
      BY <2>2 DEF InWorker, TypeOK
    <2> QED
      BY <2>1, <2>3 DEF Release, Zeroed, Held, UnderWay
  <1> QED
    BY <1>1, <1>2, <1>3

\* A task that changes hands is still on its way.
LEMMA TaskSets ==
    ASSUME TypeOK, NEW w \in Workers, TakeTask(w) \/ DeleteObject(w)
    PROVE  Zeroed' = Zeroed /\ Held' = Held /\ UnderWay' = UnderWay
  <1> USE DEF disk, request, worker, history
  <1>1. /\ InRequest' = InRequest
        /\ {row[q] : q \in {r \in Requests : pc[r] \in {"mark", "spawn"}}}'
             = {row[q] : q \in {r \in Requests : pc[r] \in {"mark", "spawn"}}}
        /\ {row[q] : q \in {r \in Requests : pc[r] = "spawn"}}'
             = {row[q] : q \in {r \in Requests : pc[r] = "spawn"}}
    BY DEF TakeTask, DeleteObject, InRequest
  <1>2. InQueue' \cup InWorker' = InQueue \cup InWorker
    <2>1. CASE TakeTask(w)
      <3>1. /\ queue \in Seq(DOMAIN rows) /\ queue # <<>> /\ queue' = Tail(queue)
            /\ job \in [Workers -> Job]
        BY <2>1 DEF TakeTask, TypeOK
      <3>2. InQueue = InQueue' \cup {Head(queue)}
        <4>1. /\ Len(queue') = Len(queue) - 1 /\ Len(queue) \in Nat \ {0}
              /\ DOMAIN queue' = 1..Len(queue') /\ DOMAIN queue = 1..Len(queue)
              /\ Head(queue) = queue[1]
              /\ \A i \in DOMAIN queue' : queue'[i] = queue[i + 1]
          BY <3>1
        <4>2. \A i \in DOMAIN queue : i = 1 \/ (i - 1 \in DOMAIN queue' /\ queue'[i - 1] = queue[i])
          BY <4>1
        <4>3. \A i \in DOMAIN queue' : i + 1 \in DOMAIN queue /\ 1 \in DOMAIN queue
          BY <4>1
        <4>4. 1 \in DOMAIN queue
          BY <4>1
        <4> HIDE DEF worker
        <4> QED
          BY <4>1, <4>2, <4>3, <4>4 DEF InQueue
      <3>3. InWorker' = InWorker \cup {Head(queue)}
        <4>1. /\ \A v \in Workers : v # w => job'[v] = job[v]
              /\ job'[w].at = "delete" /\ job'[w].row = Head(queue) /\ job[w].at = "idle"
          BY <2>1, <3>1 DEF TakeTask
        <4> QED
          BY <4>1 DEF InWorker
      <3> QED
        BY <3>2, <3>3
    <2>2. CASE DeleteObject(w)
      <3>1. /\ \A v \in Workers : v # w => job'[v] = job[v]
            /\ job'[w].at # "idle" /\ job[w].at # "idle" /\ job'[w].row = job[w].row
        BY <2>2, ZenonT(40) DEF DeleteObject, TypeOK, Job
      <3>2. InWorker' = InWorker
        BY <3>1 DEF InWorker
      <3>3. InQueue' = InQueue
        BY <2>2 DEF DeleteObject, InQueue
      <3> QED
        BY <3>2, <3>3
    <2> QED
      BY <2>1, <2>2
  <1> QED
    BY <1>1, <1>2 DEF Zeroed, Held, UnderWay

\* A restart empties the memory, and the keys it held are lost.
LEMMA RestartSets ==
    ASSUME TypeOK, Restart
    PROVE  /\ Zeroed' = {} /\ Held' = {} /\ UnderWay' = {}
           /\ \A r \in UnderWay : rows[r].key \in lost'
           /\ \A w \in Workers : job'[w].at = "idle"
  <1>1. \A p \in Requests : pc'[p] \in {"idle", "done"}
    BY DEF Restart
  <1>2. InQueue' = {}
    BY DEF Restart, InQueue
  <1>3. \A w \in Workers : job'[w].at = "idle"
    BY DEF Restart, IdleJob
  <1>4. InWorker' = {}
    BY <1>3 DEF InWorker
  <1>5. InRequest' = {}
    BY <1>1 DEF InRequest, Purging
  <1>6. \A r \in UnderWay : rows[r].key \in lost'
    BY DEF Restart
  <1> QED
    BY <1>1, <1>2, <1>3, <1>4, <1>5, <1>6 DEF Zeroed, Held, UnderWay

LEMMA CountsStep == TypeOK /\ Fresh /\ Had /\ Counts /\ [Next]_vars => Counts'
  <1> SUFFICES ASSUME TypeOK, Fresh, Had, Counts, [Next]_vars PROVE Counts'
    OBVIOUS
  <1> USE DEF disk, request, worker, history
  <1>t. counted \in [Keys -> Nat] /\ Len(rows) \in Nat /\ Zeroed \subseteq DOMAIN rows
    BY UnderWayRows DEF TypeOK
  <1>f. /\ \A k \in Keys : counted[k] <= Len(rows)
        /\ \A r \in DOMAIN rows : rows[r].live => counted[rows[r].key] < r
        /\ \A k \in stored \ object : counted[k] > 0
        /\ \A r \in Zeroed : counted[rows[r].key] > 0
    BY DEF Counts
  <1>0. CASE UNCHANGED vars
    BY <1>0 DEF vars, Counts, Zeroed, InQueue, InWorker
  \* A step that changes rows no more than RowsKept, and lets rows go.
  <1>k. ASSUME counted' = counted, stored' = stored, object' = object, Zeroed' \subseteq Zeroed,
               DOMAIN rows' = DOMAIN rows, Len(rows') = Len(rows),
               \A r \in DOMAIN rows : rows'[r].key = rows[r].key,
               \A r \in DOMAIN rows : rows'[r].live => rows[r].live
        PROVE  Counts'
    BY <1>f, <1>k, <1>t DEF Counts
  <1>1. CASE Still
    BY <1>1, <1>k, SameSets DEF Still, Same
  <1>2. CASE Filled
    BY <1>2, <1>f, SameSets DEF Filled, Same, Fill, Counts
  <1>3. CASE Inserted
    <2>1. PICK f \in File : rows' = Append(rows, f)
      BY <1>3 DEF Inserted
    <2>2. UNCHANGED <<counted, stored, object>> /\ Zeroed' = Zeroed
      BY <1>3, SameSets DEF Inserted, Same
    <2>3. /\ Len(rows') = Len(rows) + 1 /\ DOMAIN rows' = DOMAIN rows \cup {Len(rows) + 1}
          /\ rows'[Len(rows) + 1] = f
          /\ \A r \in DOMAIN rows : rows'[r] = rows[r]
      BY <2>1, AppendRow
    <2>4. \A k \in Keys : counted[k] \in Nat
      BY <1>t
    <2>5. f.key \in Keys
      BY DEF File
    <2>6. ASSUME NEW r \in DOMAIN rows', rows'[r].live PROVE counted'[rows'[r].key] < r
      BY <1>f, <1>t, <2>2, <2>3, <2>4, <2>5, <2>6
    <2> QED
      BY <1>f, <1>t, <2>2, <2>3, <2>4, <2>6 DEF Counts
  <1>4. CASE \E k \in Keys : Outside(k)
    <2> PICK k \in Keys : Outside(k)
      BY <1>4
    <2>1. CASE Still
      BY <2>1, <1>1
    <2>2. CASE ClientPut(k)
      BY <2>2, <1>f, SameSets, OutsideKinds DEF ClientPut, Fill, Same, Counts
    <2> QED
      BY <2>1, <2>2, OutsideKinds
  <1>5. CASE \E p \in Requests : Upload(p) \/ BeginDelete(p)
    BY <1>1, <1>2, <1>3, <1>5, UploadKinds
  <1>6. ASSUME NEW p \in Requests, SoftDelete(p) PROVE Counts'
    <2>1. UNCHANGED <<counted, stored, object>> /\ Zeroed' = Zeroed
      BY <1>6, PurgeSets DEF SoftDelete
    <2>2. \A r \in DOMAIN rows : rows'[r].live => rows[r].live
      BY <1>6, SoftDeleteRow
    <2> QED
      BY <1>6, <1>k, <2>1, <2>2, SoftDeleteRow
  <1>7. ASSUME NEW p \in Requests, MarkPending(p) PROVE Counts'
    <2>1. UNCHANGED <<counted, stored, object>> /\ Zeroed' = Zeroed
      BY <1>7, PurgeSets DEF MarkPending
    <2>2. \A r \in DOMAIN rows : rows'[r].live => rows[r].live
      BY <1>7, MarkPendingRow
    <2> QED
      BY <1>7, <1>k, <2>1, <2>2, MarkPendingRow
  <1>8. ASSUME NEW p \in Requests, CountRefs(p) PROVE Counts'
    <2> DEFINE k == rows[row[p]].key
    <2>1. /\ UNCHANGED <<rows, object, stored>> /\ row[p] \in DOMAIN rows /\ k \in Keys
          /\ row[p] > 0 /\ row[p] <= Len(rows) /\ row[p] \in Nat
      BY <1>8, PurgeSets, RowType DEF CountRefs
    <2>2. CASE LiveOf(k) = {}
      <3>1. counted' = [counted EXCEPT ![k] = Len(rows)]
        BY <1>8, <2>2 DEF CountRefs
      <3>2. \A r \in DOMAIN rows : rows[r].live => rows[r].key # k
        BY <2>2 DEF LiveOf, RowsOf
      <3>3. Zeroed' \subseteq Zeroed \cup {row[p]}
        BY <1>8, PurgeSets
      <3>4. \A r \in DOMAIN rows : rows[r].key \in Keys
        BY RowType
      <3>5. stored \subseteq Keys
        BY DEF TypeOK
      <3> HIDE DEF k
      <3>6. /\ \A l \in Keys : l # k => counted'[l] = counted[l]
            /\ counted'[k] = Len(rows) /\ Len(rows) > 0
        BY <1>t, <2>1, <3>1
      <3>7. \A r \in Zeroed' : counted'[rows'[r].key] > 0
        BY <1>f, <1>t, <2>1, <3>3, <3>4, <3>6 DEF k
      <3> QED
        BY <1>f, <1>t, <2>1, <3>2, <3>4, <3>5, <3>6, <3>7 DEF Counts
    <2>3. CASE LiveOf(k) # {}
      <3>1. counted' = counted /\ Zeroed' = Zeroed
        BY <1>8, <2>3, PurgeSets DEF CountRefs
      <3> QED
        BY <1>k, <2>1, <3>1
    <2> QED
      BY <2>2, <2>3
  <1>9. ASSUME NEW p \in Requests, SpawnPurge(p) \/ Abandon(p) PROVE Counts'
    <2>1. Zeroed' \subseteq Zeroed
      BY <1>9, ReleaseSets DEF Release
    <2> QED
      BY <1>9, <1>k, <2>1 DEF SpawnPurge, Abandon
  <1>10. ASSUME NEW w \in Workers, TakeTask(w) PROVE Counts'
    BY <1>10, <1>k, TaskSets DEF TakeTask
  <1>11. ASSUME NEW w \in Workers, DeleteObject(w) PROVE Counts'
    <2>1. Zeroed' = Zeroed /\ job[w].row \in Zeroed
      BY <1>11, TaskSets DEF DeleteObject, Zeroed, InWorker
    <2>2. object \ object' \subseteq {rows[job[w].row].key} /\ UNCHANGED <<rows, counted, stored>>
      BY <1>11 DEF DeleteObject
    <2> QED
      BY <1>f, <2>1, <2>2 DEF Counts
  <1>12. ASSUME NEW w \in Workers, RecordPurge(w) PROVE Counts'
    <2>1. Zeroed' \subseteq Zeroed
      BY <1>12, ReleaseSets DEF Release
    <2>2. UNCHANGED <<counted, stored, object>>
      BY <1>12 DEF RecordPurge
    <2>3. /\ DOMAIN rows' = DOMAIN rows /\ Len(rows') = Len(rows)
          /\ \A r \in DOMAIN rows : rows'[r].key = rows[r].key
          /\ \A r \in DOMAIN rows : rows'[r].live => rows[r].live
      BY <1>12, RecordPurgeRow
    <2> QED
      BY <1>k, <2>1, <2>2, <2>3
  <1>13. CASE Restart
    <2>1. Zeroed' = {}
      BY <1>13, RestartSets
    <2> QED
      BY <1>13, <1>k, <2>1 DEF Restart
  <1> QED
    BY <1>0, <1>4, <1>5, <1>6, <1>7, <1>8, <1>9, <1>10, <1>11, <1>12, <1>13
    DEF Next, Delete, Work

-----------------------------------------------------------------------------
(* Purge status.                                                            *)

LEMMA PendingStep == TypeOK /\ Fresh /\ Had /\ Pending /\ [Next]_vars => Pending'
  <1> SUFFICES ASSUME TypeOK, Fresh, Had, Pending, [Next]_vars PROVE Pending'
    OBVIOUS
  <1> USE DEF disk, request, worker, history
  <1>0. CASE UNCHANGED vars
    BY <1>0 DEF vars, Pending, Held, InQueue, InWorker
  <1>k. ASSUME DOMAIN rows' = DOMAIN rows, lost \subseteq lost',
               \A r \in DOMAIN rows : rows'[r].key = rows[r].key,
               \A r \in DOMAIN rows : rows'[r].purge = "PENDING" =>
                    r \in Held' \/ rows[r].purge = "PENDING",
               \A r \in DOMAIN rows : r \in Held =>
                    r \in Held' \/ rows[r].key \in lost' \/ rows'[r].purge # "PENDING"
        PROVE  Pending'
    BY <1>k DEF Pending
  <1>1. CASE Still
    BY <1>1, <1>k, SameSets DEF Still, Same
  <1>2. CASE Filled
    BY <1>2, <1>k, SameSets DEF Filled, Same
  <1>3. CASE Inserted
    <2>1. PICK f \in File : f.purge = "NONE" /\ rows' = Append(rows, f)
      BY <1>3 DEF Inserted
    <2>2. UNCHANGED lost /\ Held' = Held
      BY <1>3, SameSets DEF Inserted, Same
    <2> QED
      BY <2>1, <2>2, AppendRow DEF Pending
  <1>4. CASE \E k \in Keys : Outside(k)
    <2> PICK k \in Keys : Outside(k)
      BY <1>4
    <2>1. CASE Still
      BY <2>1, <1>1
    <2>2. CASE ClientPut(k)
      BY <2>2, <1>k, SameSets, OutsideKinds DEF ClientPut, Same
    <2> QED
      BY <2>1, <2>2, OutsideKinds
  <1>5. CASE \E p \in Requests : Upload(p) \/ BeginDelete(p)
    BY <1>1, <1>2, <1>3, <1>5, UploadKinds
  <1>6. ASSUME NEW p \in Requests, SoftDelete(p) PROVE Pending'
    <2>1. UNCHANGED lost /\ Held' = Held
      BY <1>6, PurgeSets DEF SoftDelete
    <2>2. \A r \in DOMAIN rows : rows'[r].purge = "PENDING" => rows[r].purge = "PENDING"
      BY <1>6, SoftDeleteRow
    <2> QED
      BY <1>6, <1>k, <2>1, <2>2, SoftDeleteRow
  <1>7. ASSUME NEW p \in Requests, MarkPending(p) PROVE Pending'
    <2>1. UNCHANGED lost /\ Held \subseteq Held' /\ row[p] \in Held'
      BY <1>7, PurgeSets DEF MarkPending
    <2>2. \A r \in DOMAIN rows : r # row[p] => rows'[r] = rows[r]
      BY <1>7, MarkPendingRow
    <2> QED
      BY <1>7, <1>k, <2>1, <2>2, MarkPendingRow
  <1>8. ASSUME NEW p \in Requests, CountRefs(p) PROVE Pending'
    BY <1>8, <1>k, PurgeSets DEF CountRefs
  <1>9. ASSUME NEW p \in Requests, SpawnPurge(p) \/ Abandon(p) PROVE Pending'
    <2>1. Held \subseteq Held' \cup {row[p]} /\ UNCHANGED rows /\ lost \subseteq lost'
      BY <1>9, ReleaseSets DEF Release, SpawnPurge, Abandon
    <2>2. row[p] \in Held' \/ Held' = Held \/ rows[row[p]].key \in lost'
      BY <1>9, ReleaseSets
    <2> QED
      BY <1>k, <2>1, <2>2
  <1>10. ASSUME NEW w \in Workers, TakeTask(w) \/ DeleteObject(w) PROVE Pending'
    BY <1>10, <1>k, TaskSets DEF TakeTask, DeleteObject
  <1>12. ASSUME NEW w \in Workers, RecordPurge(w) PROVE Pending'
    <2> DEFINE r == job[w].row
    <2>1. Held \subseteq Held' \cup {r}
      BY <1>12, ReleaseSets DEF Release
    <2>2. job[w].outcome \in {"SUCCESS", "FAILED"}
      BY DEF TypeOK, Job, Outcomes
    <2>3. /\ r \in DOMAIN rows /\ DOMAIN rows' = DOMAIN rows /\ lost \subseteq lost'
          /\ \A s \in DOMAIN rows : rows'[s].key = rows[s].key
          /\ \A s \in DOMAIN rows : s # r => rows'[s] = rows[s]
          /\ \/ rows'[r].purge = job[w].outcome
             \/ rows' = rows /\ rows[r].key \in lost'
      BY <1>12, RecordPurgeRow
    <2> HIDE DEF r
    <2>4. /\ \A s \in DOMAIN rows : rows'[s].purge = "PENDING" => rows[s].purge = "PENDING"
          /\ rows'[r].purge # "PENDING" \/ rows[r].key \in lost'
      BY <2>2, <2>3
    <2> QED
      BY <1>k, <2>1, <2>3, <2>4
  <1>13. CASE Restart
    <2>1. Held \subseteq UnderWay /\ UNCHANGED rows /\ lost \subseteq lost'
      BY <1>13, UnderWayRows DEF Restart
    <2> QED
      BY <1>13, <1>k, <2>1, RestartSets
  <1> QED
    BY <1>0, <1>4, <1>5, <1>6, <1>7, <1>8, <1>9, <1>10, <1>12, <1>13
    DEF Next, Delete, Work

LEMMA SuccessStep == TypeOK /\ Fresh /\ Had /\ Counts /\ Success /\ [Next]_vars => Success'
  <1> SUFFICES ASSUME TypeOK, Fresh, Had, Counts, Success, [Next]_vars PROVE Success'
    OBVIOUS
  <1> USE DEF disk, request, worker, history
  <1>0. CASE UNCHANGED vars
    BY <1>0 DEF vars, Success, SuccessIsTrue
  <1> DEFINE Done(w) == job[w].at = "record" /\ job[w].outcome = "SUCCESS"
  <1>f. /\ \A r \in DOMAIN rows : rows[r].purge = "SUCCESS" =>
               /\ rows[r].key \in object => rows[r].key \in again
               /\ counted[rows[r].key] > 0
        /\ \A w \in Workers : Done(w) =>
               (rows[job[w].row].key \in object => rows[job[w].row].key \in again)
    BY DEF Success, SuccessIsTrue
  <1>j. /\ \A w \in Workers : job[w].at # "idle" =>
               job[w].row \in DOMAIN rows /\ counted[rows[job[w].row].key] > 0
        /\ \A r \in DOMAIN rows : rows[r].key \in stored
    BY DEF TypeOK, Counts, Zeroed, InWorker, Had, RowHadObject
  <1>k. ASSUME DOMAIN rows' = DOMAIN rows, object' \subseteq object, UNCHANGED <<counted, again>>,
               \A r \in DOMAIN rows : rows'[r].key = rows[r].key,
               \A r \in DOMAIN rows : rows'[r].purge = "SUCCESS" =>
                    \/ rows[r].purge = "SUCCESS"
                    \/ \E w \in Workers : Done(w) /\ job[w].row = r,
               \A w \in Workers : Done(w)' =>
                    \/ Done(w) /\ job'[w].row = job[w].row
                    \/ job'[w].row \in DOMAIN rows /\ rows[job'[w].row].key \notin object'
        PROVE  Success'
    <2>1. \A r \in DOMAIN rows : rows'[r].purge = "SUCCESS" =>
               /\ rows[r].key \in object => rows[r].key \in again
               /\ counted[rows[r].key] > 0
      BY <1>f, <1>j, <1>k
    <2>2. \A w \in Workers : Done(w)' =>
               (rows[job'[w].row].key \in object' => rows[job'[w].row].key \in again)
      BY <1>f, <1>k
    <2>3. \A w \in Workers : Done(w)' => job'[w].row \in DOMAIN rows
      BY <1>j, <1>k
    <2> QED
      BY <1>k, <2>1, <2>2, <2>3 DEF Success, SuccessIsTrue
  <1>1. CASE Still
    BY <1>1, <1>k DEF Still, Same
  <1>2. CASE Filled
    <2>1. PICK k \in Keys \ stored : object' = object \cup {k}
      BY <1>2 DEF Filled, Fill
    <2>2. UNCHANGED <<rows, again, counted, job>>
      BY <1>2 DEF Filled, Same
    <2> QED
      BY <1>f, <1>j, <2>1, <2>2 DEF Success, SuccessIsTrue
  <1>3. CASE Inserted
    <2>1. PICK f \in File : f.purge = "NONE" /\ rows' = Append(rows, f)
      BY <1>3 DEF Inserted
    <2>2. UNCHANGED <<object, again, counted, job>>
      BY <1>3 DEF Inserted, Same
    <2> QED
      BY <1>f, <1>j, <2>1, <2>2, AppendRow DEF Success, SuccessIsTrue
  <1>4. CASE \E k \in Keys : Outside(k)
    <2> PICK k \in Keys : Outside(k)
      BY <1>4
    <2>1. CASE Still
      BY <2>1, <1>1
    <2>2. CASE ClientPut(k)
      <3>1. /\ object' = object \cup {k} /\ UNCHANGED <<rows, counted, job>>
            /\ counted[k] > 0 => k \in again'
            /\ again \subseteq again'
        BY <2>2 DEF ClientPut, Fill
      <3> QED
        BY <1>f, <1>j, <3>1 DEF Success, SuccessIsTrue
    <2> QED
      BY <2>1, <2>2, OutsideKinds
  <1>5. CASE \E p \in Requests : Upload(p) \/ BeginDelete(p)
    BY <1>1, <1>2, <1>3, <1>5, UploadKinds
  <1>6. ASSUME NEW p \in Requests, SoftDelete(p) PROVE Success'
    <2>1. \A r \in DOMAIN rows : rows'[r].purge = "SUCCESS" => rows[r].purge = "SUCCESS"
      BY <1>6, SoftDeleteRow
    <2>2. UNCHANGED <<object, counted, again, job>>
      BY <1>6 DEF SoftDelete
    <2> QED
      BY <1>6, <1>k, <2>1, <2>2, SoftDeleteRow
  <1>7. ASSUME NEW p \in Requests, MarkPending(p) PROVE Success'
    <2>1. \A r \in DOMAIN rows : rows'[r].purge = "SUCCESS" => rows[r].purge = "SUCCESS"
      BY <1>7, MarkPendingRow
    <2>2. UNCHANGED <<object, counted, again, job>>
      BY <1>7 DEF MarkPending
    <2> QED
      BY <1>7, <1>k, <2>1, <2>2, MarkPendingRow
  <1>8. ASSUME NEW p \in Requests, CountRefs(p) PROVE Success'
    <2>1. /\ UNCHANGED <<rows, object, again, job>> /\ Len(rows) > 0
          /\ \A k \in Keys : counted[k] > 0 => counted'[k] > 0
      <3>1. row[p] \in DOMAIN rows
        BY <1>8, PurgeSets
      <3>2. Len(rows) > 0 /\ Len(rows) \in Nat
        BY <3>1, RowType
      <3> QED
        BY <1>8, <3>2 DEF CountRefs, TypeOK
    <2>2. \A r \in DOMAIN rows : rows[r].key \in Keys
      BY RowType
    <2> QED
      BY <1>f, <2>1, <2>2 DEF Success, SuccessIsTrue
  <1>9. ASSUME NEW p \in Requests, SpawnPurge(p) \/ Abandon(p) PROVE Success'
    BY <1>9, <1>k DEF SpawnPurge, Abandon
  <1>10. ASSUME NEW w \in Workers, TakeTask(w) PROVE Success'
    <2>1. /\ \A v \in Workers : v # w => job'[v] = job[v]
          /\ job'[w].at = "delete" /\ UNCHANGED <<rows, object, counted, again>>
      BY <1>10 DEF TakeTask, TypeOK
    <2> QED
      BY <1>k, <2>1
  <1>11. ASSUME NEW w \in Workers, DeleteObject(w) PROVE Success'
    <2>1. /\ \A v \in Workers : v # w => job'[v] = job[v]
          /\ job'[w].row = job[w].row /\ job[w].row \in DOMAIN rows
          /\ UNCHANGED <<rows, counted, again>> /\ object' \subseteq object
          /\ job'[w].outcome = "SUCCESS" => rows[job[w].row].key \notin object'
      BY <1>11, ZenonT(40) DEF DeleteObject, TypeOK, Job, Outcomes
    <2> QED
      BY <1>k, <2>1
  <1>12. ASSUME NEW w \in Workers, RecordPurge(w) PROVE Success'
    <2> DEFINE r == job[w].row
    <2>1. /\ r \in DOMAIN rows /\ DOMAIN rows' = DOMAIN rows
          /\ \A s \in DOMAIN rows : rows'[s].key = rows[s].key
          /\ \A s \in DOMAIN rows : s # r => rows'[s] = rows[s]
          /\ rows'[r].purge = job[w].outcome \/ rows' = rows
      BY <1>12, RecordPurgeRow
    <2>2. /\ job[w].at = "record" /\ UNCHANGED <<object, counted, again>>
          /\ \A v \in Workers : v # w => job'[v] = job[v]
          /\ job'[w].at = "idle"
      BY <1>12 DEF RecordPurge, TypeOK, IdleJob
    <2>3. \A s \in DOMAIN rows : rows'[s].purge = "SUCCESS" =>
             rows[s].purge = "SUCCESS" \/ (Done(w) /\ r = s)
      BY <2>1, <2>2
    <2> QED
      BY <1>k, <2>1, <2>2, <2>3
  <1>13. CASE Restart
    BY <1>13, <1>k, RestartSets DEF Restart
  <1> QED
    BY <1>0, <1>4, <1>5, <1>6, <1>7, <1>8, <1>9, <1>10, <1>11, <1>12, <1>13
    DEF Next, Delete, Work

-----------------------------------------------------------------------------
(* Leaks.                                                                   *)

LEMMA LeakStep == IInv /\ [Next]_vars => LeakHasCause'
  <1> SUFFICES ASSUME IInv, [Next]_vars PROVE LeakHasCause'
    OBVIOUS
  <1> USE DEF disk, request, worker, history
  <1>t. TypeOK /\ Fresh /\ Had /\ Counts /\ Success
    BY DEF IInv
  <1> DEFINE Dead(k)  == RowsOf(k) # {} /\ LiveOf(k) = {}
             Cause(k) == \/ RowsOf(k) \cap UnderWay # {}
                         \/ \E r \in RowsOf(k) : rows[r].purge = "FAILED"
                         \/ k \in lost \cup again
  <1>f. \A k \in object : Dead(k) => Cause(k)
    BY DEF IInv, LeakHasCause
  <1>g. ASSUME \A k \in object' : Dead(k)' => Cause(k)' PROVE LeakHasCause'
    BY <1>g DEF LeakHasCause
  <1> DEFINE SameRows == /\ DOMAIN rows' = DOMAIN rows
                         /\ \A r \in DOMAIN rows : rows'[r].key = rows[r].key
  \* Rows are untouched, except that at most r is let go of.
  <1>k. ASSUME UNCHANGED rows, object' \subseteq object, lost \subseteq lost', again \subseteq again',
               \A r \in UnderWay : r \in UnderWay' \/ rows[r].key \in lost'
        PROVE  LeakHasCause'
    <2> SUFFICES ASSUME NEW k \in object', Dead(k)' PROVE Cause(k)'
      BY <1>g
    <2>1. Dead(k) /\ RowsOf(k)' = RowsOf(k)
      BY <1>k DEF RowsOf, LiveOf
    <2>2. Cause(k)
      BY <1>f, <1>k, <2>1
    <2> QED
      BY <1>k, <2>1, <2>2 DEF RowsOf
  <1>0. CASE UNCHANGED vars
    BY <1>0, <1>k DEF vars, UnderWay, InRequest, InQueue, InWorker
  <1>1. CASE Still
    BY <1>t, <1>1, <1>k, SameSets DEF Still, Same
  <1>2. CASE Filled
    <2>1. PICK l \in Keys \ stored : object' = object \cup {l}
      BY <1>2 DEF Filled, Fill
    <2>2. UNCHANGED <<rows, lost, again>> /\ UnderWay' = UnderWay
      BY <1>t, <1>2, SameSets DEF Filled, Same
    <2> SUFFICES ASSUME NEW k \in object', Dead(k)' PROVE Cause(k)'
      BY <1>g
    <2>3. Dead(k) /\ RowsOf(k)' = RowsOf(k)
      BY <2>2 DEF RowsOf, LiveOf
    <2>4. k # l
      BY <1>t, <2>1, <2>3 DEF RowsOf, Had, RowHadObject
    <2> QED
      BY <1>f, <2>1, <2>2, <2>3, <2>4
  <1>3. CASE Inserted
    <2>1. PICK f \in File : f.live /\ rows' = Append(rows, f)
      BY <1>3 DEF Inserted
    <2>2. UNCHANGED <<object, lost, again>> /\ UnderWay' = UnderWay
      BY <1>t, <1>3, SameSets DEF Inserted, Same
    <2>3. /\ DOMAIN rows' = DOMAIN rows \cup {Len(rows) + 1}
          /\ rows'[Len(rows) + 1] = f
          /\ \A r \in DOMAIN rows : rows'[r] = rows[r]
      BY <1>t, <2>1, AppendRow
    <2> SUFFICES ASSUME NEW k \in object', Dead(k)' PROVE Cause(k)'
      BY <1>g
    <2>4. f.key # k
      BY <2>1, <2>3 DEF LiveOf, RowsOf
    <2>5. RowsOf(k)' = RowsOf(k)
      BY <2>3, <2>4 DEF RowsOf
    <2>6. Dead(k)
      BY <2>3, <2>5 DEF LiveOf, RowsOf
    <2>7. Cause(k)
      BY <1>f, <2>2, <2>6
    <2> QED
      BY <2>2, <2>3, <2>5, <2>7 DEF RowsOf
  <1>4. CASE \E k \in Keys : Outside(k)
    <2> PICK l \in Keys : Outside(l)
      BY <1>4
    <2>1. CASE Still
      BY <2>1, <1>1
    <2>2. CASE ClientPut(l)
      <3>1. /\ object' = object \cup {l} /\ UNCHANGED <<rows, lost>> /\ UnderWay' = UnderWay
            /\ again \subseteq again' /\ (counted[l] > 0 => l \in again')
        BY <1>t, <2>2, SameSets, OutsideKinds DEF ClientPut, Fill
      <3> SUFFICES ASSUME NEW k \in object', Dead(k)' PROVE Cause(k)'
        BY <1>g
      <3>2. Dead(k) /\ RowsOf(k)' = RowsOf(k)
        BY <3>1 DEF RowsOf, LiveOf
      <3>3. CASE k \in object
        <4>1. Cause(k)
          BY <1>f, <3>2, <3>3
        <4> QED
          BY <3>1, <3>2, <4>1 DEF RowsOf
      <3>4. CASE k \notin object
        <4>1. k = l /\ k \in stored
          BY <1>t, <3>1, <3>2, <3>4 DEF RowsOf, Had, RowHadObject
        <4>2. counted[l] > 0
          BY <1>t, <3>4, <4>1 DEF Counts
        <4> QED
          BY <3>1, <4>1, <4>2
      <3> QED
        BY <3>3, <3>4
    <2> QED
      BY <2>1, <2>2, OutsideKinds
  <1>5. CASE \E p \in Requests : Upload(p) \/ BeginDelete(p)
    BY <1>t, <1>1, <1>2, <1>3, <1>5, UploadKinds
  \* One row changes, and its object is being purged.
  <1>c. ASSUME NEW r \in DOMAIN rows, SameRows, UNCHANGED <<object, lost, again>>,
               UnderWay \subseteq UnderWay', r \in UnderWay',
               \A s \in DOMAIN rows : s # r => rows'[s] = rows[s]
        PROVE  LeakHasCause'
    <2> SUFFICES ASSUME NEW k \in object', Dead(k)' PROVE Cause(k)'
      BY <1>g
    <2>1. RowsOf(k)' = RowsOf(k)
      BY <1>c DEF RowsOf
    <2>2. CASE r \in RowsOf(k)
      BY <1>c, <2>1, <2>2
    <2>3. CASE r \notin RowsOf(k)
      <3>1. \A s \in RowsOf(k) : rows'[s] = rows[s]
        BY <1>c, <2>3 DEF RowsOf
      <3>2. Dead(k)
        BY <2>1, <3>1 DEF LiveOf
      <3>3. Cause(k)
        BY <1>c, <1>f, <3>2
      <3> QED
        BY <1>c, <2>1, <3>1, <3>3
    <2> QED
      BY <2>2, <2>3
  <1>6. ASSUME NEW p \in Requests, SoftDelete(p) PROVE LeakHasCause'
    <2>1. UNCHANGED <<object, lost, again>> /\ UnderWay' = UnderWay \cup {row[p]}
      BY <1>t, <1>6, PurgeSets DEF SoftDelete
    <2> QED
      BY <1>t, <1>6, <1>c, <2>1, SoftDeleteRow
  <1>7. ASSUME NEW p \in Requests, MarkPending(p) PROVE LeakHasCause'
    <2>1. UNCHANGED <<object, lost, again>> /\ UnderWay' = UnderWay /\ row[p] \in Held'
      BY <1>t, <1>7, PurgeSets DEF MarkPending
    <2>2. row[p] \in UnderWay'
      BY <2>1 DEF Held, UnderWay, InRequest, Purging
    <2> QED
      BY <1>t, <1>7, <1>c, <2>1, <2>2, MarkPendingRow
  <1>8. ASSUME NEW p \in Requests, CountRefs(p) PROVE LeakHasCause'
    <2> DEFINE l == rows[row[p]].key
    <2>1. UNCHANGED <<rows, object, lost, again>>
      BY <1>8 DEF CountRefs
    <2>2. CASE LiveOf(l) = {}
      BY <1>t, <1>8, <1>k, <2>1, <2>2, PurgeSets
    <2>3. CASE LiveOf(l) # {}
      <3>1. UnderWay \subseteq UnderWay' \cup {row[p]}
        BY <1>t, <1>8, PurgeSets
      <3> SUFFICES ASSUME NEW k \in object', Dead(k)' PROVE Cause(k)'
        BY <1>g
      <3>2. Dead(k) /\ RowsOf(k)' = RowsOf(k)
        BY <2>1 DEF RowsOf, LiveOf
      <3>3. row[p] \notin RowsOf(k)
        BY <2>3, <3>2 DEF RowsOf
      <3>4. Cause(k)
        BY <1>f, <2>1, <3>2
      <3> QED
        BY <2>1, <3>1, <3>2, <3>3, <3>4
    <2> QED
      BY <2>2, <2>3
  <1>9. ASSUME NEW p \in Requests, SpawnPurge(p) \/ Abandon(p) PROVE LeakHasCause'
    <2>1. /\ UnderWay \subseteq UnderWay' \cup {row[p]}
          /\ UNCHANGED <<rows, object, again>> /\ lost \subseteq lost'
      BY <1>t, <1>9, ReleaseSets DEF Release, SpawnPurge, Abandon
    <2>2. row[p] \in UnderWay' \/ UnderWay' = UnderWay \/ rows[row[p]].key \in lost'
      BY <1>t, <1>9, ReleaseSets
    <2> QED
      BY <1>k, <2>1, <2>2
  <1>10. ASSUME NEW w \in Workers, TakeTask(w) \/ DeleteObject(w) PROVE LeakHasCause'
    <2>1. UNCHANGED <<rows, lost, again>> /\ object' \subseteq object
      BY <1>10 DEF TakeTask, DeleteObject
    <2> QED
      BY <1>t, <1>10, <1>k, <2>1, TaskSets
  <1>12. ASSUME NEW w \in Workers, RecordPurge(w) PROVE LeakHasCause'
    <2> DEFINE r == job[w].row
    <2>1. UnderWay \subseteq UnderWay' \cup {r} /\ UNCHANGED <<object, again>>
      BY <1>t, <1>12, ReleaseSets DEF Release, RecordPurge
    <2>2. r \in DOMAIN rows
      BY <1>t, <1>12, RecordPurgeRow
    <2>3. CASE rows' = rows /\ lost' = lost \cup {rows[r].key}
      BY <1>k, <2>1, <2>3
    <2>4. CASE /\ SameRows /\ rows'[r].purge = job[w].outcome /\ UNCHANGED lost
               /\ rows'[r].live = rows[r].live
               /\ \A s \in DOMAIN rows : s # r => rows'[s] = rows[s]
      <3> SUFFICES ASSUME NEW k \in object', Dead(k)' PROVE Cause(k)'
        BY <1>g
      <3>1. RowsOf(k)' = RowsOf(k)
        BY <2>4 DEF RowsOf
      <3>2. Dead(k)
        <4>1. \A s \in DOMAIN rows : rows'[s].live = rows[s].live
          BY <2>4
        <4> QED
          BY <3>1, <4>1 DEF LiveOf, RowsOf
      <3>3. Cause(k)
        BY <1>f, <2>1, <3>2
      <3>4. CASE r \notin RowsOf(k)
        <4>1. \A s \in RowsOf(k) : rows'[s] = rows[s]
          BY <2>4, <3>4 DEF RowsOf
        <4> QED
          BY <2>1, <2>4, <3>1, <3>3, <3>4, <4>1
      <3>5. CASE r \in RowsOf(k) /\ job[w].outcome = "FAILED"
        BY <2>4, <3>1, <3>5
      <3>6. CASE r \in RowsOf(k) /\ job[w].outcome = "SUCCESS"
        <4>1. k \in again
          BY <1>t, <1>12, <2>1, <3>6 DEF Success, RecordPurge, RowsOf
        <4> QED
          BY <2>1, <4>1
      <3>7. job[w].outcome \in {"SUCCESS", "FAILED"}
        BY <1>t DEF TypeOK, Job, Outcomes
      <3> QED
        BY <3>4, <3>5, <3>6, <3>7
    <2> QED
      BY <1>t, <1>12, <2>3, <2>4, RecordPurgeRow
  <1>13. CASE Restart
    <2>1. UNCHANGED <<rows, object, again>> /\ lost \subseteq lost'
      BY <1>13 DEF Restart
    <2> QED
      BY <1>t, <1>13, <1>k, <2>1, RestartSets
  <1> QED
    BY <1>0, <1>4, <1>5, <1>6, <1>7, <1>8, <1>9, <1>10, <1>12, <1>13
    DEF Next, Delete, Work

-----------------------------------------------------------------------------
(* The theorems.                                                            *)

LEMMA InvInit == Init => IInv
  <1> SUFFICES ASSUME Init PROVE IInv
    OBVIOUS
  <1>1. TypeOK /\ rows = <<>> /\ DOMAIN rows = {} /\ Len(rows) = 0
    BY TypeInit DEF Init
  <1>2. Fresh
    BY DEF Init, Fresh, Storing, Opening, Keys
  <1>3. Had
    BY <1>1 DEF Init, Had, RowHadObject
  <1>4. Zeroed = {}
    BY <1>1, UnderWayRows
  <1>5. Counts
    BY <1>1, <1>4 DEF Init, Counts
  <1>6. Pending
    BY <1>1 DEF Pending
  <1>7. Success
    BY <1>1 DEF Init, Success, SuccessIsTrue, IdleJob
  <1>8. LeakHasCause
    BY DEF Init, LeakHasCause
  <1> QED
    BY <1>1, <1>2, <1>3, <1>5, <1>6, <1>7, <1>8 DEF IInv

LEMMA FileStoreIInv == Spec => []IInv
  <1>1. IInv /\ [Next]_vars => IInv'
    BY TypeStep, FreshStep, HadStep, CountsStep, PendingStep, SuccessStep, LeakStep DEF IInv
  <1> QED
    BY InvInit, <1>1, PTL DEF Spec

\* Whatever uploads, confirms, aborts and the cleanup job do to each other,
\* a row names an object that existed.
THEOREM FileStoreRowHadObject == Spec => []RowHadObject
  <1>1. IInv => RowHadObject
    BY DEF IInv, Had
  <1> QED
    BY <1>1, FileStoreIInv, PTL

\* A file loses its object only when its row was inserted after the reference
\* count of a delete: never to a delete that came after it.
THEOREM FileStoreEarlierRow == Spec => []EarlierRowKeepsObject
  <1>1. IInv => EarlierRowKeepsObject
    <2> SUFFICES ASSUME IInv, NEW r \in DOMAIN rows, rows[r].live, rows[r].key \notin object
                 PROVE  counted[rows[r].key] \in 1 .. r - 1
      BY DEF EarlierRowKeepsObject
    <2>1. rows[r].key \in Keys /\ r \in Nat
      BY RowType DEF IInv
    <2>2. counted[rows[r].key] \in Nat
      BY <2>1 DEF IInv, TypeOK
    <2>3. rows[r].key \in stored \ object
      BY DEF IInv, Had, RowHadObject
    <2>4. counted[rows[r].key] > 0 /\ counted[rows[r].key] < r
      BY <2>3 DEF IInv, Counts
    <2> QED
      BY <2>1, <2>2, <2>4
  <1> QED
    BY <1>1, FileStoreIInv, PTL

\* Deletes that run at once do not leave an object to each other: one that
\* stays without a live row has a cause on record.
THEOREM FileStoreLeak == Spec => []LeakHasCause
  <1>1. IInv => LeakHasCause
    BY DEF IInv
  <1> QED
    BY <1>1, FileStoreIInv, PTL

\* A PENDING row has its task, unless the purge was cut short.
THEOREM FileStorePending == Spec => []PendingHasTask
  <1>1. IInv => PendingHasTask
    BY UnderWayRows DEF IInv, Pending, PendingHasTask
  <1> QED
    BY <1>1, FileStoreIInv, PTL

\* SUCCESS is true of the object, unless a client filled the key again.
THEOREM FileStoreSuccess == Spec => []SuccessIsTrue
  <1>1. IInv => SuccessIsTrue
    BY DEF IInv, Success
  <1> QED
    BY <1>1, FileStoreIInv, PTL

-----------------------------------------------------------------------------
(* TaskQueue.                                                              *)

\* Every item that push took, in order.
Taken == handled \o inHand \o itemBuf \o itemChan

\* The place of the loop tells what it holds.
LoopHolds ==
    /\ inHand # <<>> <=> loop \in {"handler", "last", "panicked"}
    /\ loop = "handler" => itemBuf = <<>>
    /\ loop \in {"last", "leaving", "exited"} => itemBuf = <<>> /\ itemChan = <<>> /\ ~ handles
    /\ Len(inHand) <= HandSize \/ Len(inHand) = 1
    /\ itemBuf = <<>> \/ Len(itemBuf) < HandSize

Gone == {w \in TaskWorkers : running[w] = "gone"}

\* A future that spawn took is where its state says, and a worker that left
\* while there was something to do left with a panic.
TasksHold ==
    /\ \A t \in Tasks : taskAt[t] = "queued" => t \in Range(taskChan)
    /\ \A t \in Tasks : taskAt[t] = "running" => \E w \in TaskWorkers : running[w] = t
    /\ handles \/ taskChan # <<>> => Cardinality(Gone) <= panics

QueueInv == QueueTypeOK /\ IsInjective(Taken) /\ LoopHolds /\ TasksHold

-----------------------------------------------------------------------------
(* Sequences.                                                              *)

LEMMA RangeConcat ==
    ASSUME NEW S, NEW s \in Seq(S), NEW t \in Seq(S)
    PROVE  Range(s \o t) = Range(s) \cup Range(t)
<1> DEFINE u == s \o t
<1>1. /\ u \in Seq(S) /\ Len(u) = Len(s) + Len(t) /\ Len(s) \in Nat /\ Len(t) \in Nat
      /\ \A i \in 1 .. Len(u) : u[i] = IF i <= Len(s) THEN s[i] ELSE t[i - Len(s)]
    BY ConcatProperties
<1>2. DOMAIN u = 1 .. Len(u) /\ DOMAIN s = 1 .. Len(s) /\ DOMAIN t = 1 .. Len(t)
    BY <1>1
<1> HIDE DEF u
<1>3. ASSUME NEW x \in Range(u) PROVE x \in Range(s) \cup Range(t)
    <2>1. PICK i \in 1 .. Len(u) : x = u[i]
        BY <1>2 DEF Range
    <2>2. CASE i <= Len(s)
        BY <1>1, <1>2, <2>1, <2>2 DEF Range
    <2>3. CASE ~ (i <= Len(s))
        <3>1. i - Len(s) \in 1 .. Len(t) /\ x = t[i - Len(s)]
            BY <1>1, <2>1, <2>3
        <3> QED
            BY <1>2, <3>1 DEF Range
    <2> QED
        BY <2>2, <2>3
<1>4. ASSUME NEW x \in Range(s) PROVE x \in Range(u)
    <2>1. PICK i \in 1 .. Len(s) : x = s[i]
        BY <1>2 DEF Range
    <2>2. i \in 1 .. Len(u) /\ u[i] = x
        BY <1>1, <2>1
    <2> QED
        BY <1>2, <2>2 DEF Range
<1>5. ASSUME NEW x \in Range(t) PROVE x \in Range(u)
    <2>1. PICK i \in 1 .. Len(t) : x = t[i]
        BY <1>2 DEF Range
    <2>2. Len(s) + i \in 1 .. Len(u) /\ ~ (Len(s) + i <= Len(s)) /\ (Len(s) + i) - Len(s) = i
        BY <1>1, <2>1
    <2>3. u[Len(s) + i] = x
        BY <1>1, <2>1, <2>2
    <2> QED
        BY <1>2, <2>2, <2>3 DEF Range
<1> QED
    BY <1>3, <1>4, <1>5 DEF u

\* A front of a sequence without repetition shares nothing with the rest.
LEMMA InjectiveFront ==
    ASSUME NEW S, NEW s \in Seq(S), NEW t \in Seq(S), IsInjective(s \o t)
    PROVE  IsInjective(s) /\ Range(s) \cap Range(t) = {}
<1> DEFINE u == s \o t
<1>1. /\ u \in Seq(S) /\ Len(u) = Len(s) + Len(t) /\ Len(s) \in Nat /\ Len(t) \in Nat
      /\ \A i \in 1 .. Len(u) : u[i] = IF i <= Len(s) THEN s[i] ELSE t[i - Len(s)]
    BY ConcatProperties
<1>2. DOMAIN s = 1 .. Len(s) /\ DOMAIN t = 1 .. Len(t)
    BY <1>1
<1>3. \A a, b \in 1 .. Len(u) : u[a] = u[b] => a = b
    BY <1>1 DEF IsInjective
<1> HIDE DEF u
<1>4. \A i \in 1 .. Len(s) : i \in 1 .. Len(u) /\ u[i] = s[i]
    BY <1>1
<1>5. \A i \in 1 .. Len(t) : Len(s) + i \in 1 .. Len(u) /\ u[Len(s) + i] = t[i]
    BY <1>1, SMTT(30)
<1>6. ASSUME NEW x \in Range(s), x \in Range(t) PROVE FALSE
    <2>1. PICK a \in 1 .. Len(s) : x = s[a]
        BY <1>2 DEF Range
    <2>2. PICK b \in 1 .. Len(t) : x = t[b]
        BY <1>2, <1>6 DEF Range
    <2>3. u[a] = u[Len(s) + b]
        BY <1>4, <1>5, <2>1, <2>2
    <2>4. a = Len(s) + b
        BY <1>3, <1>4, <1>5, <2>1, <2>2, <2>3
    <2> QED
        BY <1>1, <2>1, <2>2, <2>4
<1>7. IsInjective(s)
    BY <1>2, <1>3, <1>4 DEF IsInjective
<1> QED
    BY <1>6, <1>7

LEMMA InjectiveAppend ==
    ASSUME NEW S, NEW s \in Seq(S), NEW x \in S, IsInjective(s), x \notin Range(s)
    PROVE  IsInjective(Append(s, x))
<1> DEFINE u == Append(s, x)
<1>1. /\ Len(u) = Len(s) + 1 /\ Len(s) \in Nat /\ u[Len(u)] = x
      /\ \A i \in 1 .. Len(s) : u[i] = s[i]
    BY AppendProperties
<1>2. \A i \in 1 .. Len(s) : u[i] # x
    BY <1>1 DEF Range
<1> HIDE DEF u
<1>3. ASSUME NEW a \in 1 .. Len(u), NEW b \in 1 .. Len(u), u[a] = u[b] PROVE a = b
    <2>1. (a \in 1 .. Len(s) \/ a = Len(u)) /\ (b \in 1 .. Len(s) \/ b = Len(u))
        BY <1>1
    <2> QED
        BY <1>1, <1>2, <1>3, <2>1 DEF IsInjective
<1> QED
    BY <1>3 DEF IsInjective, u

\* An element moves from the head of the right sequence to the end of the left.
LEMMA HeadMoves ==
    ASSUME NEW S, NEW s \in Seq(S), NEW t \in Seq(S), t # <<>>
    PROVE  Append(s, Head(t)) \o Tail(t) = s \o t
<1>1. Head(t) \in S /\ Tail(t) \in Seq(S) /\ Len(Tail(t)) = Len(t) - 1
        /\ \A i \in 1 .. Len(Tail(t)) : Tail(t)[i] = t[i + 1]
    BY HeadTailProperties
<1>2. Head(t) = t[1] /\ Len(t) \in Nat \ {0} /\ Len(s) \in Nat
    BY EmptySeq, HeadTailProperties
<1> DEFINE a == Append(s, Head(t))
<1>3. a \in Seq(S) /\ Len(a) = Len(s) + 1 /\ a[Len(s) + 1] = t[1]
        /\ \A i \in 1 .. Len(s) : a[i] = s[i]
    BY <1>1, <1>2, AppendProperties
<1> HIDE DEF a
<1> DEFINE r == Tail(t)
<1>9. r \in Seq(S) /\ r = Tail(t)
    BY <1>1
<1> HIDE DEF r
<1>4. /\ a \o Tail(t) \in Seq(S) /\ Len(a \o Tail(t)) = Len(a) + Len(Tail(t))
      /\ \A i \in 1 .. Len(a \o Tail(t)) :
            (a \o Tail(t))[i] = IF i <= Len(a) THEN a[i] ELSE Tail(t)[i - Len(a)]
    <2>1. /\ a \o r \in Seq(S) /\ Len(a \o r) = Len(a) + Len(r)
          /\ \A i \in 1 .. Len(a) + Len(r) :
                (a \o r)[i] = IF i <= Len(a) THEN a[i] ELSE r[i - Len(a)]
        BY <1>3, <1>9, ConcatProperties
    <2> QED
        BY <1>9, <2>1
<1>5. /\ s \o t \in Seq(S) /\ Len(s \o t) = Len(s) + Len(t)
      /\ \A i \in 1 .. Len(s \o t) : (s \o t)[i] = IF i <= Len(s) THEN s[i] ELSE t[i - Len(s)]
    BY ConcatProperties
<1>6. Len(a \o Tail(t)) = Len(s \o t)
    BY <1>1, <1>2, <1>3, <1>4, <1>5
<1>7. ASSUME NEW i \in 1 .. Len(s \o t) PROVE (a \o Tail(t))[i] = (s \o t)[i]
    <2>0. i \in Nat /\ Len(s) \in Nat
        BY <1>2, <1>5
    <2>1. CASE i <= Len(s)
        BY <1>2, <1>3, <1>4, <1>5, <1>6, <2>1
    <2>2. CASE i = Len(s) + 1
        BY <1>2, <1>3, <1>4, <1>5, <1>6, <2>2
    <2>3. CASE i > Len(s) + 1
        <3>1. i - Len(a) \in 1 .. Len(Tail(t)) /\ (i - Len(a)) + 1 = i - Len(s)
            BY <1>1, <1>2, <1>3, <1>5, <2>3
        <3>2. (a \o Tail(t))[i] = Tail(t)[i - Len(a)]
            BY <1>2, <1>3, <1>4, <1>6, <2>3
        <3>3. (s \o t)[i] = t[i - Len(s)]
            BY <1>2, <1>5, <2>3
        <3> QED
            BY <1>1, <3>1, <3>2, <3>3
    <2> QED
        <3>1. i <= Len(s) \/ i = Len(s) + 1 \/ i > Len(s) + 1
            BY ONLY <2>0
        <3> QED
            BY <2>1, <2>2, <2>3, <3>1, Zenon
<1> QED
    BY <1>4, <1>5, <1>6, <1>7, SeqEqual DEF a

LEMMA AppendToConcat ==
    ASSUME NEW S, NEW s \in Seq(S), NEW t \in Seq(S), NEW x \in S
    PROVE  s \o Append(t, x) = Append(s \o t, x)
BY AppendIsConcat, ConcatAssociative, ConcatProperties

-----------------------------------------------------------------------------
(* The invariant.                                                          *)

LEMMA QueueTypes == QueueTypeOK /\ [QueueNext]_queueVars => QueueTypeOK'
<1> SUFFICES ASSUME QueueTypeOK, [QueueNext]_queueVars PROVE QueueTypeOK'
    OBVIOUS
<1> USE DEF QueueTypeOK, taskVars, itemVars
<1>1. ASSUME NEW t \in Tasks, Spawn(t) PROVE QueueTypeOK'
    <2>1. Append(taskChan, t) \in Seq(Tasks)
        BY AppendProperties
    <2> QED
        BY <1>1, <2>1 DEF Spawn
<1>2. ASSUME NEW w \in TaskWorkers, WorkerTakes(w) PROVE QueueTypeOK'
    <2>1. Head(taskChan) \in Tasks /\ Tail(taskChan) \in Seq(Tasks)
        BY <1>2, HeadTailProperties DEF WorkerTakes
    <2> QED
        BY <1>2, <2>1 DEF WorkerTakes
<1>3. ASSUME NEW w \in TaskWorkers, TaskEnds(w) \/ TaskPanics(w) \/ WorkerLeaves(w)
      PROVE  QueueTypeOK'
    <2>1. panics' \in 0 .. MaxPanics
        BY <1>3, QueueAssumption DEF TaskEnds, TaskPanics, WorkerLeaves
    <2> QED
        BY <1>3, <2>1 DEF TaskEnds, TaskPanics, WorkerLeaves
<1>4. ASSUME NEW i \in Items, PushItem(i) PROVE QueueTypeOK'
    <2>1. Append(itemChan, i) \in Seq(Items)
        BY AppendProperties
    <2> QED
        BY <1>4, <2>1 DEF PushItem
<1>5. CASE LoopReceives
    <2>1. Head(itemChan) \in Items /\ Tail(itemChan) \in Seq(Items)
        BY <1>5, HeadTailProperties DEF LoopReceives
    <2>2. Append(itemBuf, Head(itemChan)) \in Seq(Items) /\ <<>> \in Seq(Items)
        BY <2>1, AppendProperties
    <2> QED
        BY <1>5, <2>1, <2>2 DEF LoopReceives, HandOver
<1>6. CASE LoopTicks \/ LoopCloses
    BY <1>6 DEF LoopTicks, LoopCloses, HandOver
<1>7. CASE HandlerEnds
    BY <1>7, ConcatProperties DEF HandlerEnds
<1>8. CASE LoopLeaves
    BY <1>8 DEF LoopLeaves
<1>9. CASE HandlerPanics
    <2>1. panics' \in 0 .. MaxPanics
        BY <1>9, QueueAssumption DEF HandlerPanics
    <2> QED
        BY <1>9, <2>1 DEF HandlerPanics
<1>10. CASE DropHandles
    BY <1>10 DEF DropHandles
<1>11. CASE UNCHANGED queueVars
    BY <1>11 DEF queueVars
<1> QED
    BY <1>1, <1>2, <1>3, <1>4, <1>5, <1>6, <1>7, <1>8, <1>9, <1>10, <1>11 DEF QueueNext, QueueWorks

\* The queue of LogSink: in hand, buffered, in the channel.
Waiting == inHand \o itemBuf \o itemChan

LEMMA ConcatRegroups ==
    /\ \A s, t \in Seq(Items) : s \o t \in Seq(Items)
    /\ \A s, t, u \in Seq(Items) : (s \o t) \o u = s \o (t \o u)
BY ConcatProperties, ConcatAssociative

LEMMA TakenIs ==
    ASSUME QueueTypeOK
    PROVE  /\ Taken \in Seq(Items) /\ Waiting \in Seq(Items)
           /\ Taken = handled \o Waiting
<1> USE DEF QueueTypeOK
<1>1. inHand \o itemBuf \in Seq(Items)
    BY ConcatRegroups
<1>2. (handled \o inHand) \o itemBuf = handled \o (inHand \o itemBuf)
    BY ConcatRegroups
<1>3. (handled \o (inHand \o itemBuf)) \o itemChan = handled \o ((inHand \o itemBuf) \o itemChan)
    BY <1>1, ConcatRegroups
<1>4. (inHand \o itemBuf) \o itemChan \in Seq(Items)
    BY <1>1, ConcatRegroups
<1>5. handled \o ((inHand \o itemBuf) \o itemChan) \in Seq(Items)
    BY <1>4, ConcatRegroups
<1> QED
    BY <1>2, <1>3, <1>4, <1>5, Zenon DEF Taken, Waiting

LEMMA TakenIsThen ==
    ASSUME QueueTypeOK'
    PROVE  Taken' = handled' \o Waiting'
<1> USE DEF QueueTypeOK
<1>1. inHand' \o itemBuf' \in Seq(Items)
    BY ConcatRegroups
<1>2. (handled' \o inHand') \o itemBuf' = handled' \o (inHand' \o itemBuf')
    BY ConcatRegroups
<1>3. (handled' \o (inHand' \o itemBuf')) \o itemChan' = handled' \o ((inHand' \o itemBuf') \o itemChan')
    BY <1>1, ConcatRegroups
<1> QED
    BY <1>2, <1>3, Zenon DEF Taken, Waiting

\* Only a push changes what was taken, and only the end of a batch what waits.
LEMMA LoopMoves ==
    ASSUME QueueTypeOK, LoopHolds, LoopReceives \/ LoopTicks \/ LoopCloses
    PROVE  UNCHANGED <<Waiting, handled>>
<1> USE DEF QueueTypeOK
<1>1. inHand = <<>> /\ handled' = handled
    BY DEF LoopReceives, LoopTicks, LoopCloses, LoopHolds
<1>2. CASE LoopTicks \/ LoopCloses
    <2>1. itemChan' = itemChan /\ \/ inHand' = itemBuf /\ itemBuf' = <<>>
                                  \/ UNCHANGED <<inHand, itemBuf>>
        BY <1>2 DEF LoopTicks, LoopCloses, HandOver
    <2>2. <<>> \o itemBuf = itemBuf /\ itemBuf \o <<>> = itemBuf
        BY ConcatEmptySeq
    <2> QED
        BY <1>1, <2>1, <2>2, Zenon DEF Waiting
<1>3. CASE LoopReceives
    <2> DEFINE items == Append(itemBuf, Head(itemChan))
    <2>1. itemChan # <<>> /\ itemChan' = Tail(itemChan)
        BY <1>3 DEF LoopReceives
    <2>2. items \in Seq(Items)
        BY <2>1, HeadTailProperties, AppendProperties
    <2>3. items \o Tail(itemChan) = itemBuf \o itemChan
        BY <2>1, HeadMoves
    <2>4. \/ inHand' = items /\ itemBuf' = <<>>
          \/ inHand' = inHand /\ itemBuf' = items
        BY <1>3 DEF LoopReceives, HandOver
    <2> HIDE DEF items
    <2>5. items \o <<>> = items /\ <<>> \o items = items /\ <<>> \o itemBuf = itemBuf
        BY <2>2, ConcatEmptySeq
    <2>6. inHand' \o itemBuf' = items
        BY <1>1, <2>4, <2>5, Zenon
    <2> QED
        BY <1>1, <2>1, <2>3, <2>5, <2>6, Zenon DEF Waiting
<1> QED
    BY <1>2, <1>3

LEMMA HandlerMoves ==
    ASSUME QueueTypeOK, HandlerEnds
    PROVE  /\ Taken' = Taken
           /\ Waiting = inHand \o Waiting' /\ Waiting' = itemBuf \o itemChan
           /\ Waiting' \in Seq(Items)
<1> USE DEF QueueTypeOK
<1>1. handled' = handled \o inHand /\ inHand' = <<>> /\ UNCHANGED <<itemBuf, itemChan>>
    BY DEF HandlerEnds
<1>2. handled \o inHand \in Seq(Items) /\ itemBuf \o itemChan \in Seq(Items)
    BY ConcatProperties
<1>3. (handled \o inHand) \o <<>> = handled \o inHand /\ <<>> \o itemBuf = itemBuf
    BY <1>2, ConcatEmptySeq
<1>4. (inHand \o itemBuf) \o itemChan = inHand \o (itemBuf \o itemChan)
    <2>1. inHand \in Seq(Items) /\ itemBuf \in Seq(Items) /\ itemChan \in Seq(Items)
        OBVIOUS
    <2> QED
        BY ONLY <2>1, ConcatRegroups
<1>5. Taken' = Taken
    BY <1>1, <1>3, Zenon DEF Taken
<1>6. Waiting' = itemBuf \o itemChan
    BY <1>1, <1>3, Zenon DEF Waiting
<1> QED
    BY <1>2, <1>4, <1>5, <1>6, Zenon DEF Waiting

LEMMA PushMoves ==
    ASSUME QueueTypeOK, NEW i \in Items, PushItem(i)
    PROVE  /\ UNCHANGED <<handled, handles, loop>>
           /\ \/ UNCHANGED Waiting
              \/ /\ Waiting' = Append(Waiting, i) /\ i \notin Range(Taken)
                 /\ Taken' = Append(Taken, i)
                 /\ loop \notin {"exited", "panicked"} /\ handles
<1> USE DEF QueueTypeOK
<1>1. UNCHANGED <<handled, handles, loop, inHand, itemBuf>> /\ handles /\ i \notin Range(Taken)
    BY DEF PushItem, Taken
<1>2. CASE itemChan' = itemChan
    BY <1>1, <1>2 DEF Waiting
<1>3. CASE itemChan' = Append(itemChan, i) /\ loop \notin {"exited", "panicked"}
    <2>1. inHand \o itemBuf \in Seq(Items) /\ handled \o inHand \o itemBuf \in Seq(Items)
        BY ConcatProperties
    <2>4. itemChan \in Seq(Items)
        OBVIOUS
    <2>2. (inHand \o itemBuf) \o Append(itemChan, i) = Append((inHand \o itemBuf) \o itemChan, i)
        BY <2>1, <2>4, AppendToConcat
    <2>3. (handled \o inHand \o itemBuf) \o Append(itemChan, i)
             = Append((handled \o inHand \o itemBuf) \o itemChan, i)
        BY <2>1, <2>4, AppendToConcat
    <2> QED
        BY <1>1, <1>3, <2>2, <2>3, Zenon DEF Waiting, Taken
<1> QED
    BY <1>2, <1>3 DEF PushItem

LEMMA InjectiveStep ==
    ASSUME QueueTypeOK, QueueTypeOK', LoopHolds, IsInjective(Taken), [QueueNext]_queueVars
    PROVE  IsInjective(Taken')
<1>1. CASE \E i \in Items : PushItem(i)
    <2>1. PICK i \in Items : PushItem(i)
        BY <1>1
    <2>2. \/ UNCHANGED <<Waiting, handled>>
          \/ Taken' = Append(Taken, i) /\ i \notin Range(Taken)
        BY <2>1, PushMoves
    <2>3. CASE UNCHANGED <<Waiting, handled>>
        <3>1. Taken = handled \o Waiting
            BY TakenIs
        <3>2. Taken' = handled' \o Waiting'
            BY TakenIsThen
        <3> QED
            BY <2>3, <3>1, <3>2, Zenon
    <2>4. CASE Taken' = Append(Taken, i) /\ i \notin Range(Taken)
        BY <2>4, TakenIs, InjectiveAppend
    <2> QED
        BY <2>2, <2>3, <2>4
<1>2. CASE LoopReceives \/ LoopTicks \/ LoopCloses
    <2>1. UNCHANGED <<Waiting, handled>>
        BY <1>2, LoopMoves
    <2>2. Taken = handled \o Waiting
        BY TakenIs
    <2>3. Taken' = handled' \o Waiting'
        BY TakenIsThen
    <2> QED
        BY <2>1, <2>2, <2>3, Zenon
<1>3. CASE HandlerEnds
    BY <1>3, HandlerMoves
<1>4. CASE UNCHANGED <<handled, inHand, itemBuf, itemChan>>
    BY <1>4 DEF Taken
<1> QED
    BY <1>1, <1>2, <1>3, <1>4
       DEF QueueNext, QueueWorks, Spawn, WorkerTakes, TaskEnds, WorkerLeaves, TaskPanics,
           HandlerPanics, LoopLeaves, DropHandles, queueVars, itemVars

LEMMA LoopHoldsStep ==
    ASSUME QueueTypeOK, LoopHolds, [QueueNext]_queueVars
    PROVE  LoopHolds'
<1> USE DEF QueueTypeOK, LoopHolds
<1>1. CASE LoopReceives
    <2> DEFINE items == Append(itemBuf, Head(itemChan))
    <2>1. loop = "select" /\ itemChan # <<>> /\ inHand = <<>> /\ handles' = handles
        BY <1>1 DEF LoopReceives
    <2>2. Len(items) = Len(itemBuf) + 1 /\ items # <<>> /\ Len(itemBuf) \in Nat
        BY <2>1, HeadTailProperties, AppendProperties, EmptySeq, LenProperties
    <2>3. \/ Len(items) >= HandSize /\ inHand' = items /\ itemBuf' = <<>> /\ loop' = "handler"
          \/ Len(items) < HandSize /\ itemBuf' = items /\ UNCHANGED <<inHand, loop>>
        <3>1. Len(items) \in Nat /\ HandSize \in Nat
            BY <2>2, QueueAssumption
        <3> QED
            BY <1>1, <3>1 DEF LoopReceives, HandOver
    <2> HIDE DEF items
    <2>4. Len(items) <= HandSize \/ Len(items) = 1
        <3>1. itemBuf = <<>> => Len(itemBuf) = 0
            BY EmptySeq
        <3> QED
            BY <2>2, <3>1, QueueAssumption
    <2> QED
        BY <2>1, <2>2, <2>3, <2>4
<1>2. CASE LoopTicks \/ LoopCloses
    <2>1. inHand = <<>> /\ loop = "select" /\ UNCHANGED <<itemChan, handles>>
        BY <1>2 DEF LoopTicks, LoopCloses
    <2>2. \/ itemBuf # <<>> /\ inHand' = itemBuf /\ itemBuf' = <<>> /\ loop' = "handler"
          \/ /\ itemBuf # <<>> /\ inHand' = itemBuf /\ itemBuf' = <<>> /\ loop' = "last"
             /\ itemChan = <<>> /\ ~ handles
          \/ /\ itemBuf = <<>> /\ loop' = "exited" /\ UNCHANGED <<inHand, itemBuf>>
             /\ itemChan = <<>> /\ ~ handles
        BY <1>2 DEF LoopTicks, LoopCloses, HandOver
    <2>3. itemBuf # <<>> => Len(itemBuf) <= HandSize
        BY QueueAssumption, LenProperties
    <2> QED
        BY <2>1, <2>2, <2>3
<1>3. CASE HandlerEnds
    <2>1. Len(<<>>) = 0 /\ 0 <= HandSize
        BY EmptySeq, QueueAssumption
    <2> QED
        BY <1>3, <2>1 DEF HandlerEnds
<1>4. CASE LoopLeaves \/ HandlerPanics
    BY <1>4 DEF LoopLeaves, HandlerPanics
<1>5. ASSUME NEW i \in Items, PushItem(i) PROVE LoopHolds'
    BY <1>5 DEF PushItem
<1>6. CASE UNCHANGED itemVars /\ (handles' => handles)
    BY <1>6 DEF itemVars
<1> QED
    BY <1>1, <1>2, <1>3, <1>4, <1>5, <1>6
       DEF QueueNext, QueueWorks, Spawn, WorkerTakes, TaskEnds, WorkerLeaves, TaskPanics,
           DropHandles, queueVars

LEMMA RangeOfTasks == \A s, t \in Seq(Tasks) : Range(s \o t) = Range(s) \cup Range(t)
BY RangeConcat

LEMMA TasksHoldStep ==
    ASSUME QueueTypeOK, QueueTypeOK', TasksHold, [QueueNext]_queueVars
    PROVE  TasksHold'
<1> USE DEF QueueTypeOK, TasksHold
<1>1. IsFiniteSet(Gone) /\ Cardinality(Gone) \in Nat
    <2>1. Gone \subseteq TaskWorkers
        BY DEF Gone
    <2> QED
        BY <2>1, QueueAssumption, FS_Subset, FS_CardinalityType
<1>2. ASSUME NEW t \in Tasks, Spawn(t) PROVE TasksHold'
    <2>1. UNCHANGED <<handles, panics, running>> /\ handles
        BY <1>2 DEF Spawn
    <2>2. Gone' = Gone
        BY <2>1 DEF Gone
    <2>3. CASE taskChan' = Append(taskChan, t) /\ taskAt' = [taskAt EXCEPT ![t] = "queued"]
        <3>1. Range(taskChan') = Range(taskChan) \cup {t}
            <4>1. <<t>> \in Seq(Tasks) /\ Append(taskChan, t) = taskChan \o <<t>>
                BY AppendIsConcat
            <4>2. Range(<<t>>) = {t}
                BY DEF Range
            <4>3. Range(taskChan \o <<t>>) = Range(taskChan) \cup Range(<<t>>)
                BY <4>1, RangeOfTasks
            <4> QED
                BY <2>3, <4>1, <4>2, <4>3
        <3> QED
            BY <2>1, <2>2, <2>3, <3>1
    <2>4. CASE taskChan' = taskChan /\ taskAt' = [taskAt EXCEPT ![t] = "refused"]
        BY <2>1, <2>2, <2>4
    <2> QED
        BY <1>2, <2>3, <2>4 DEF Spawn
<1>3. ASSUME NEW w \in TaskWorkers, WorkerTakes(w) PROVE TasksHold'
    <2> DEFINE head == Head(taskChan)
    <2>1. /\ running[w] = "recv" /\ taskChan # <<>> /\ taskChan' = Tail(taskChan)
          /\ running' = [running EXCEPT ![w] = head]
          /\ taskAt' = [taskAt EXCEPT ![head] = "running"]
          /\ UNCHANGED <<handles, panics>>
        BY <1>3 DEF WorkerTakes
    <2>2. head \in Tasks /\ Range(taskChan) \subseteq Range(Tail(taskChan)) \cup {head}
        <3>1. /\ head \in Tasks /\ Tail(taskChan) \in Seq(Tasks)
              /\ <<head>> \in Seq(Tasks) /\ <<>> \in Seq(Tasks)
            BY <2>1, HeadTailProperties
        <3>2. Append(<<>>, head) \o Tail(taskChan) = <<>> \o taskChan
            BY <2>1, <3>1, HeadMoves
        <3>3. Append(<<>>, head) = <<head>> /\ <<>> \o taskChan = taskChan
            BY <3>1, ConcatEmptySeq
        <3>4. Range(<<head>>) = {head}
            BY DEF Range
        <3> HIDE DEF head
        <3>5. Range(<<head>> \o Tail(taskChan)) = Range(<<head>>) \cup Range(Tail(taskChan))
            BY <3>1, RangeOfTasks
        <3> QED
            BY <3>1, <3>2, <3>3, <3>4, <3>5
    <2> HIDE DEF head
    <2>3. head # "gone" /\ running[w] # "gone" /\ running[w] \notin Tasks
        BY <2>1, <2>2, QueueAssumption
    <2>4. Gone' = Gone
        BY <2>1, <2>3 DEF Gone
    <2>5. ASSUME NEW t \in Tasks, taskAt'[t] = "queued" PROVE t \in Range(taskChan')
        BY <2>1, <2>2, <2>5
    <2>6. ASSUME NEW t \in Tasks, taskAt'[t] = "running"
          PROVE  \E x \in TaskWorkers : running'[x] = t
        <3>1. CASE t = head
            BY <2>1, <3>1
        <3>2. CASE t # head
            <4>1. PICK x \in TaskWorkers : running[x] = t
                BY <2>1, <2>6, <3>2
            <4> QED
                BY <2>1, <2>3, <4>1
        <3> QED
            BY <3>1, <3>2
    <2>7. handles' \/ taskChan' # <<>> => Cardinality(Gone') <= panics'
        BY <2>1, <2>4
    <2> QED
        BY <2>5, <2>6, <2>7
<1>4. ASSUME NEW w \in TaskWorkers, TaskEnds(w) \/ TaskPanics(w) PROVE TasksHold'
    <2>1. /\ running[w] \in Tasks /\ UNCHANGED <<handles, taskChan>>
          /\ \E s \in {"done", "panicked"} : taskAt' = [taskAt EXCEPT ![running[w]] = s]
        BY <1>4 DEF TaskEnds, TaskPanics
    <2>2. \/ running' = [running EXCEPT ![w] = "recv"] /\ panics' = panics
          \/ running' = [running EXCEPT ![w] = "gone"] /\ panics' = panics + 1
        BY <1>4 DEF TaskEnds, TaskPanics
    <2>3. ASSUME NEW t \in Tasks, taskAt'[t] = "queued" PROVE t \in Range(taskChan')
        BY <2>1, <2>3
    <2>4. ASSUME NEW t \in Tasks, taskAt'[t] = "running"
          PROVE  \E x \in TaskWorkers : running'[x] = t
        <3>1. t # running[w] /\ taskAt[t] = "running"
            BY <2>1, <2>4
        <3>2. PICK x \in TaskWorkers : running[x] = t
            BY <3>1
        <3> QED
            BY <2>2, <3>1, <3>2
    <2>5. Cardinality(Gone) <= panics => Cardinality(Gone') <= panics'
        <3>1. w \notin Gone
            BY <2>1, QueueAssumption DEF Gone
        <3>2. CASE running' = [running EXCEPT ![w] = "recv"] /\ panics' = panics
            <4>1. Gone' = Gone
                BY <3>1, <3>2 DEF Gone
            <4> QED
                BY <3>2, <4>1
        <3>3. CASE running' = [running EXCEPT ![w] = "gone"] /\ panics' = panics + 1
            <4>1. Gone' = Gone \cup {w}
                BY <3>1, <3>3 DEF Gone
            <4>2. Cardinality(Gone') = Cardinality(Gone) + 1
                BY <1>1, <3>1, <4>1, FS_AddElement
            <4> QED
                BY <1>1, <3>3, <4>2
        <3> QED
            BY <2>2, <3>2, <3>3
    <2> QED
        BY <2>1, <2>3, <2>4, <2>5
<1>5. ASSUME NEW w \in TaskWorkers, WorkerLeaves(w) PROVE TasksHold'
    <2>1. /\ running[w] = "recv" /\ ~ handles /\ taskChan = <<>>
          /\ running' = [running EXCEPT ![w] = "gone"]
          /\ UNCHANGED <<handles, taskChan, taskAt>>
        BY <1>5 DEF WorkerLeaves
    <2>2. ASSUME NEW t \in Tasks, taskAt'[t] = "running"
          PROVE  \E x \in TaskWorkers : running'[x] = t
        <3>1. PICK x \in TaskWorkers : running[x] = t
            BY <2>1, <2>2
        <3>2. x # w
            BY <2>1, <3>1, QueueAssumption
        <3> QED
            BY <2>1, <3>1, <3>2
    <2> QED
        BY <2>1, <2>2
<1>6. CASE UNCHANGED taskVars /\ panics' \in {panics, panics + 1} /\ (handles' => handles)
    <2>1. UNCHANGED <<taskChan, taskAt, running>>
        BY <1>6 DEF taskVars
    <2>2. Gone' = Gone
        BY <2>1 DEF Gone
    <2>3. panics <= panics'
        BY <1>6
    <2>4. handles' \/ taskChan' # <<>> => Cardinality(Gone') <= panics'
        BY <1>1, <1>6, <2>1, <2>2, <2>3
    <2> QED
        BY <2>1, <2>4
<1> QED
    <2>1. \/ \E t \in Tasks : Spawn(t)
          \/ \E w \in TaskWorkers :
                WorkerTakes(w) \/ TaskEnds(w) \/ TaskPanics(w) \/ WorkerLeaves(w)
          \/ UNCHANGED taskVars /\ panics' \in {panics, panics + 1} /\ (handles' => handles)
        BY DEF QueueNext, QueueWorks, PushItem, HandlerPanics, DropHandles, LoopReceives,
               LoopTicks, LoopCloses, HandlerEnds, LoopLeaves, queueVars
    <2> QED
        BY <1>2, <1>3, <1>4, <1>5, <1>6, <2>1

LEMMA InitQueueInv == QueueInit => QueueInv
<1> SUFFICES ASSUME QueueInit PROVE QueueInv
    OBVIOUS
<1> USE DEF QueueInit
<1>1. QueueTypeOK
    BY QueueAssumption DEF QueueTypeOK
<1>2. LoopHolds
    BY EmptySeq, QueueAssumption DEF LoopHolds
<1>3. IsInjective(Taken)
    <2>1. Taken = <<>>
        BY ConcatEmptySeq DEF Taken
    <2> QED
        BY <2>1 DEF IsInjective
<1>4. Gone = {} /\ Cardinality({}) = 0
    BY FS_EmptySet DEF Gone
<1> QED
    BY <1>1, <1>2, <1>3, <1>4 DEF QueueInv, TasksHold

LEMMA QueueInvStep == QueueInv /\ [QueueNext]_queueVars => QueueInv'
BY QueueTypes, LoopHoldsStep, TasksHoldStep, InjectiveStep DEF QueueInv

LEMMA SpecQueueInv == QueueSpec => []QueueInv
BY InitQueueInv, QueueInvStep, PTL DEF QueueSpec

\* When workers and loops have nothing left to do, nothing that the queues took
\* is left, unless panics took every worker, or the loop: for any number of
\* futures, workers and items, any capacity and batch size.
THEOREM SpecAtRestNothingWaits == QueueSpec => []AtRestNothingWaits
<1>1. QueueInv => AtRestNothingWaits
    <2> SUFFICES ASSUME QueueInv, QueueAtRest PROVE
                     /\ \/ \A t \in Tasks : taskAt[t] \notin {"queued", "running"}
                        \/ panics >= Cardinality(TaskWorkers) /\ Receivers = {}
                     /\ loop # "panicked" => inHand \o itemBuf \o itemChan = <<>>
        BY DEF AtRestNothingWaits
    <2> USE DEF QueueInv, QueueTypeOK
    <2>1. ASSUME NEW t \in Tasks, taskAt[t] = "running" PROVE FALSE
        BY <2>1, QueueAssumption DEF QueueAtRest, TasksHold
    <2>2. ASSUME loop # "panicked" PROVE inHand \o itemBuf \o itemChan = <<>>
        <3>1. CASE loop = "exited"
            BY <3>1, ConcatEmptySeq DEF LoopHolds
        <3>2. CASE loop = "select" /\ itemChan \o itemBuf = <<>>
            <4>1. Len(itemChan \o itemBuf) = Len(itemChan) + Len(itemBuf)
                BY ConcatProperties
            <4>2. itemChan = <<>> /\ itemBuf = <<>>
                BY <3>2, <4>1, EmptySeq, LenProperties
            <4> QED
                BY <3>2, <4>2, ConcatEmptySeq DEF LoopHolds
        <3> QED
            BY <2>2, <3>1, <3>2 DEF QueueAtRest
    <2>3. CASE taskChan = <<>>
        <3>1. Range(taskChan) = {}
            BY <2>3 DEF Range
        <3> QED
            BY <2>1, <2>2, <3>1 DEF TasksHold
    <2>4. CASE taskChan # <<>>
        <3>1. \A w \in TaskWorkers : running[w] = "gone"
            BY <2>4 DEF QueueAtRest
        <3>2. Gone = TaskWorkers /\ Receivers = {}
            BY <3>1 DEF Gone, Receivers
        <3>3. Cardinality(TaskWorkers) \in Nat
            BY QueueAssumption, FS_CardinalityType
        <3> QED
            <4>1. panics >= Cardinality(TaskWorkers)
                BY <2>4, <3>2, <3>3 DEF TasksHold
            <4> QED
                BY <2>2, <3>2, <4>1
    <2> QED
        BY <2>2, <2>3, <2>4
<1> QED
    BY <1>1, SpecQueueInv, PTL

-----------------------------------------------------------------------------
(* The loop of a type implements LogSink.                                  *)

LEMMA FrontOfConcat ==
    \A s, t \in Seq(Items) :
        s # <<>> => /\ Len(s) \in 1 .. Len(s \o t)
                    /\ SubSeq(s \o t, 1, Len(s)) = s
                    /\ SubSeq(s \o t, Len(s) + 1, Len(s \o t)) = t
<1> SUFFICES ASSUME NEW s \in Seq(Items), NEW t \in Seq(Items), s # <<>>
             PROVE  /\ Len(s) \in 1 .. Len(s \o t)
                    /\ SubSeq(s \o t, 1, Len(s)) = s
                    /\ SubSeq(s \o t, Len(s) + 1, Len(s \o t)) = t
    OBVIOUS
<1>1. Len(s) \in Nat \ {0} /\ Len(t) \in Nat
    BY EmptySeq, LenProperties
<1>2. Len(s \o t) = Len(s) + Len(t)
    BY ConcatProperties
<1>3. SubSeq(s \o t, 1, Len(s)) = s
    BY <1>1, SubSeqOfConcat1, SubSeqFull
<1>4. SubSeq(s \o t, Len(s) + 1, Len(s \o t)) = t
    BY <1>1, <1>2, SubSeqOfConcat2, SubSeqFull
<1> QED
    BY <1>1, <1>2, <1>3, <1>4

\* No item of the batch in hand was handled before.
LEMMA HandIsNew ==
    ASSUME QueueTypeOK, IsInjective(Taken)
    PROVE  /\ Range(handled) \cap Range(inHand) = {}
           /\ Range(handled \o inHand) = Range(handled) \cup Range(inHand)
<1> USE DEF QueueTypeOK
<1>1. handled \o inHand \in Seq(Items)
    BY ConcatRegroups
<1>2. (handled \o inHand) \o itemBuf \in Seq(Items)
    BY <1>1, ConcatRegroups
<1>3. IsInjective(((handled \o inHand) \o itemBuf) \o itemChan)
    BY DEF Taken
<1>4. \A s, t \in Seq(Items) :
          IsInjective(s \o t) => IsInjective(s) /\ Range(s) \cap Range(t) = {}
    BY InjectiveFront
<1>5. IsInjective((handled \o inHand) \o itemBuf)
    BY <1>2, <1>3, <1>4
<1>6. IsInjective(handled \o inHand)
    BY <1>1, <1>4, <1>5
<1>7. Range(handled) \cap Range(inHand) = {}
    BY <1>4, <1>6
<1>8. \A s, t \in Seq(Items) : Range(s \o t) = Range(s) \cup Range(t)
    BY RangeConcat
<1> QED
    BY <1>7, <1>8

LEMMA RelayStep ==
    ASSUME QueueInv, [QueueNext]_queueVars
    PROVE  [Relay!Next]_(Relay!vars)
<1> USE DEF Relay!vars, QueueInv
<1> DEFINE Rows(s) == [i \in Items |-> IF i \in Range(s) THEN 1 ELSE 0]
<1>1. CASE \E i \in Items : PushItem(i)
    <2>1. PICK i \in Items : PushItem(i)
        BY <1>1
    <2>2. /\ UNCHANGED <<handled, handles, loop>>
          /\ \/ UNCHANGED Waiting
             \/ Waiting' = Append(Waiting, i) /\ loop # "exited" /\ handles
        BY <2>1, PushMoves
    <2>3. CASE UNCHANGED Waiting
        BY <2>2, <2>3 DEF Waiting
    <2>4. CASE Waiting' = Append(Waiting, i) /\ loop # "exited" /\ handles
        <3>1. Relay!Take(i)
            BY <2>2, <2>4 DEF Waiting, Relay!Take
        <3> QED
            BY <3>1 DEF Relay!Next
    <2> QED
        BY <2>2, <2>3, <2>4
<1>2. CASE DropHandles
    <2>1. UNCHANGED <<inHand, itemBuf, itemChan, handled, loop>> /\ ~ handles'
        BY <1>2 DEF DropHandles, itemVars
    <2>2. Relay!Close
        BY <2>1 DEF Relay!Close
    <2> QED
        BY <2>2 DEF Relay!Next
<1>3. CASE LoopReceives \/ LoopTicks \/ LoopCloses
    <2>1. UNCHANGED <<Waiting, handled>> /\ handles' = handles /\ loop = "select"
        BY <1>3, LoopMoves DEF LoopReceives, LoopTicks, LoopCloses
    <2>2. CASE loop' # "exited"
        BY <2>1, <2>2 DEF Waiting
    <2>3. CASE loop' = "exited"
        <3>1. LoopCloses /\ itemBuf = <<>> /\ itemChan = <<>> /\ inHand = <<>>
            BY <1>3, <2>1, <2>3 DEF LoopReceives, LoopTicks, LoopCloses, HandOver, LoopHolds
        <3>2. inHand \o itemBuf \o itemChan = <<>>
            BY <3>1, ConcatEmptySeq
        <3>3. Relay!Stop
            BY <2>1, <2>3, <3>2 DEF Relay!Stop, Relay!Range, Waiting
        <3> QED
            BY <3>3 DEF Relay!Next
    <2> QED
        BY <2>2, <2>3
<1>4. CASE HandlerEnds
    <2>1. inHand # <<>> /\ handled' = handled \o inHand /\ handles' = handles
            /\ loop # "exited" /\ loop' # "exited"
        BY <1>4 DEF HandlerEnds, LoopHolds
    <2>2. Waiting = inHand \o Waiting' /\ Waiting' = itemBuf \o itemChan /\ Waiting' \in Seq(Items)
        BY <1>4, HandlerMoves
    <2>3. /\ Len(inHand) \in 1 .. Len(Waiting)
          /\ SubSeq(Waiting, 1, Len(inHand)) = inHand
          /\ SubSeq(Waiting, Len(inHand) + 1, Len(Waiting)) = Waiting'
        BY <2>1, <2>2, FrontOfConcat DEF QueueTypeOK
    <2>4. Relay!First(Len(inHand)) = inHand /\ Relay!Rest(Len(inHand)) = Waiting'
        BY <2>3 DEF Relay!First, Relay!Rest, Waiting
    <2>5. Relay!Write(inHand)
        <3>1. ASSUME NEW i \in Items
              PROVE  (IF i \in Range(handled \o inHand) THEN 1 ELSE 0)
                        = (IF i \in Range(handled) THEN 1 ELSE 0)
                             + (IF i \in Range(inHand) THEN 1 ELSE 0)
            BY HandIsNew
        <3> QED
            BY <2>1, <3>1 DEF Relay!Write, Relay!Range, Range
    <2>6. Len(inHand) <= HandSize \/ Len(inHand) = 1
        BY DEF LoopHolds
    <2>7. Relay!Insert(Len(inHand), TRUE)
        <3>1. /\ (inHand \o itemBuf \o itemChan)' = Relay!Rest(Len(inHand))
              /\ handled' = handled \o Relay!First(Len(inHand))
            BY <2>1, <2>4 DEF Waiting
        <3>3. Relay!Write(Relay!First(Len(inHand)))
            BY <2>4, <2>5 DEF Relay!Write
        <3>2. (~ handles)' = ~ handles /\ (loop = "exited")' = (loop = "exited")
            BY <2>1
        <3> QED
            BY ONLY <2>6, <3>1, <3>2, <3>3 DEF Relay!Insert
    <2> QED
        BY <2>3, <2>7 DEF Relay!Next, Waiting
<1>5. CASE LoopLeaves
    <2>1. /\ UNCHANGED <<inHand, itemBuf, itemChan, handled, handles>>
          /\ loop = "leaving" /\ loop' = "exited"
        BY <1>5 DEF LoopLeaves
    <2>2. inHand = <<>> /\ itemBuf = <<>> /\ itemChan = <<>>
        BY <2>1 DEF LoopHolds
    <2>3. inHand \o itemBuf \o itemChan = <<>>
        BY <2>2, ConcatEmptySeq
    <2>4. Relay!Stop
        BY <2>1, <2>3 DEF Relay!Stop, Relay!Range
    <2> QED
        BY <2>4 DEF Relay!Next
<1>6. CASE /\ UNCHANGED <<inHand, itemBuf, itemChan, handled, handles>>
           /\ (loop' = "exited") = (loop = "exited")
    BY <1>6
<1> QED
    <2>1. \/ \E i \in Items : PushItem(i)
          \/ DropHandles \/ HandlerEnds \/ LoopLeaves
          \/ LoopReceives \/ LoopTicks \/ LoopCloses
          \/ /\ UNCHANGED <<inHand, itemBuf, itemChan, handled, handles>>
             /\ (loop' = "exited") = (loop = "exited")
        BY DEF QueueNext, QueueWorks, Spawn, WorkerTakes, TaskEnds, TaskPanics, WorkerLeaves,
               HandlerPanics, itemVars, queueVars
    <2> QED
        BY <1>1, <1>2, <1>3, <1>4, <1>5, <1>6, <2>1

\* The loop of a type keeps the promise of the log collector's sink, for any
\* number of items, any capacity and batch size, panics and the end of the last
\* handle included.
THEOREM SpecRelayImplementsSink == QueueSpec => RelayImplementsSink
<1>1. QueueInit => Relay!Init
    BY ConcatEmptySeq, EmptySeq DEF QueueInit, Relay!Init, Range
<1>2. QueueInv /\ [QueueNext]_queueVars => [Relay!Next]_(Relay!vars)
    BY RelayStep
<1> QED
    BY <1>1, <1>2, SpecQueueInv, PTL DEF QueueSpec, RelayImplementsSink, Relay!Spec
==============================================================================
