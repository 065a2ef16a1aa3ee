------------------------------ MODULE FileStore ------------------------------
(***************************************************************************)
(* The file store: sys_file_upload_service.rs and sys_file_service.rs of   *)
(* summer-system, the background queue that removes objects for them, and  *)
(* the job that aborts stale multipart uploads.                            *)
(*                                                                         *)
(* A request is a process; each of its steps is one call on PostgreSQL, on *)
(* S3 or on the queue, with the local code up to the next call. An object  *)
(* key (and the id of a multipart upload) is made from a fresh uuid, so it *)
(* is named after the request that made it. A file's row is its index in   *)
(* rows, which is the order of the ids. md5 and size together are one      *)
(* value, a member of Contents.                                            *)
(***************************************************************************)
EXTENDS Naturals, Sequences

CONSTANTS Requests,       \* the requests, each served once
          Contents,       \* the (md5, size) pairs of the files
          NoMd5,          \* the empty file_md5 of a client that sent none
          Workers,        \* the workers of the background queue
          QueueCapacity   \* BackgroundTaskConfig.capacity

ASSUME FileStoreAssumption ==
    /\ NoMd5 \notin Contents
    /\ QueueCapacity \in Nat

VARIABLES
    \* PostgreSQL and S3
    rows,      \* sys.file: object_key, file_md5, deleted_at, purge_status
    object,    \* the keys that hold an object
    upload,    \* the multipart upload of each key
    url,       \* the keys a presigned PUT was handed out for
    \* the requests
    pc,        \* where each request stands
    kind,      \* its operation
    key,       \* object_key
    md5,       \* file_md5
    row,       \* the row a delete read
    \* the background queue
    queue,     \* the rows whose object is to be removed
    job,       \* what each worker does
    \* history
    stored,    \* the keys that held an object at some time
    counted,   \* the last row there was when a reference count came out zero
    again,     \* the keys a client filled again after such a count
    lost       \* the keys a purge of which was cut short

disk    == <<rows, object, upload, url>>
request == <<pc, kind, key, md5, row>>
worker  == <<queue, job>>
history == <<stored, counted, again, lost>>
vars    == <<disk, request, worker, history>>

Keys    == Requests
Digests == Contents \cup {NoMd5}

Kinds   == {"none", "upload", "presign", "multipart", "confirm", "complete", "delete"}
Purging == {"count", "mark", "spawn"}
Places  == {"idle", "find", "check", "store", "parts", "list", "finish", "head",
            "insert", "soft"} \cup Purging \cup {"done"}

Outcomes == {"SUCCESS", "FAILED"}   \* of delete_object

File    == [key : Keys, md5 : Digests, live : BOOLEAN,
            purge : {"NONE", "PENDING", "SUCCESS", "FAILED"}]
Job     == [at : {"idle", "delete", "record"}, row : Nat, outcome : Outcomes]
IdleJob == [at |-> "idle", row |-> 0, outcome |-> "FAILED"]

RowsOf(k) == {r \in DOMAIN rows : rows[r].key = k}
LiveOf(k) == {r \in RowsOf(k) : rows[r].live}

Init ==
    /\ rows = <<>> /\ object = {} /\ url = {}
    /\ upload = [k \in Keys |-> "none"]
    /\ pc = [p \in Requests |-> "idle"]
    /\ kind = [p \in Requests |-> "none"]
    /\ key = [p \in Requests |-> p]
    /\ md5 = [p \in Requests |-> NoMd5]
    /\ row = [p \in Requests |-> 0]
    /\ queue = <<>>
    /\ job = [w \in Workers |-> IdleJob]
    /\ stored = {} /\ again = {} /\ lost = {}
    /\ counted = [k \in Keys |-> 0]

-----------------------------------------------------------------------------
(* Uploads                                                                 *)

Goto(p, from, to) == pc[p] = from /\ pc' = [pc EXCEPT ![p] = to]

\* A request enters operation op, on key k, for contents m.
Enter(p, op, k, m, to) ==
    /\ Goto(p, "idle", to)
    /\ kind' = [kind EXCEPT ![p] = op]
    /\ key' = [key EXCEPT ![p] = k]
    /\ md5' = [md5 EXCEPT ![p] = m]
    /\ UNCHANGED <<disk, row, worker, history>>

\* upload_file computes the md5; the two others take what the client sends.
BeginUpload(p)    == \E m \in Contents : Enter(p, "upload", p, m, "find")
BeginPresign(p)   == \E m \in Digests : Enter(p, "presign", p, m, "find")
BeginMultipart(p) == \E m \in Digests : Enter(p, "multipart", p, m, "find")

\* find_existing_object: the latest live row with these contents. Only
\* upload_file then asks S3 whether the object is there.
Matches(m) == {r \in DOMAIN rows : m # NoMd5 /\ rows[r].live /\ rows[r].md5 = m}

Find(p) ==
    /\ \/ /\ Matches(md5[p]) = {}
          /\ Goto(p, "find", "store")
          /\ UNCHANGED key
       \/ \E r \in Matches(md5[p]) :
            /\ \A s \in Matches(md5[p]) : s <= r
            /\ Goto(p, "find", IF kind[p] = "upload" THEN "check" ELSE "insert")
            /\ key' = [key EXCEPT ![p] = rows[r].key]
    /\ UNCHANGED <<disk, kind, md5, row, worker, history>>

\* head_object on the key to reuse; any failure means a new key.
CheckReused(p) ==
    /\ \/ /\ key[p] \in object
          /\ Goto(p, "check", "insert")
          /\ UNCHANGED key
       \/ /\ Goto(p, "check", "store")
          /\ key' = [key EXCEPT ![p] = p]
    /\ UNCHANGED <<disk, kind, md5, row, worker, history>>

\* The object of key k comes into being.
Fill(k) == object' = object \cup {k} /\ stored' = stored \cup {k}

\* put_object and the head_object that reads the etag.
PutObject(p) ==
    /\ kind[p] = "upload"
    /\ Goto(p, "store", "insert")
    /\ Fill(p)
    /\ UNCHANGED <<rows, upload, url, kind, key, md5, row, worker, counted, again, lost>>

\* multipart_upload for a large file: the upload is opened, the parts are
\* sent and it is completed, or an error aborts it.
OpenUpload(p) ==
    /\ kind[p] = "upload"
    /\ Goto(p, "store", "parts")
    /\ upload' = [upload EXCEPT ![p] = "open"]
    /\ UNCHANGED <<rows, object, url, kind, key, md5, row, worker, history>>

FinishUpload(p) ==
    /\ upload[p] = "open"
    /\ Goto(p, "parts", "insert")
    /\ Fill(p)
    /\ upload' = [upload EXCEPT ![p] = "closed"]
    /\ UNCHANGED <<rows, url, kind, key, md5, row, worker, counted, again, lost>>

FailUpload(p) ==
    /\ Goto(p, "parts", "done")
    /\ upload' = [upload EXCEPT ![p] = "closed"]
    /\ UNCHANGED <<rows, object, url, kind, key, md5, row, worker, history>>

\* The new key of generate_presigned_upload and of init_multipart_upload.
\* Nothing is recorded of either.
GrantUrl(p) ==
    /\ kind[p] = "presign"
    /\ Goto(p, "store", "done")
    /\ url' = url \cup {p}
    /\ UNCHANGED <<rows, object, upload, kind, key, md5, row, worker, history>>

OpenMultipart(p) ==
    /\ kind[p] = "multipart"
    /\ Goto(p, "store", "done")
    /\ upload' = [upload EXCEPT ![p] = "open"]
    /\ UNCHANGED <<rows, object, url, kind, key, md5, row, worker, history>>

\* The client's own calls on S3. A presigned PUT may be sent again; the last
\* missing part makes a multipart upload full.
ClientPut(k) ==
    /\ k \in url
    /\ Fill(k)
    /\ again' = IF counted[k] > 0 THEN again \cup {k} ELSE again
    /\ UNCHANGED <<rows, upload, url, request, worker, counted, lost>>

ClientParts(k) ==
    /\ kind[k] = "multipart" /\ upload[k] = "open"
    /\ upload' = [upload EXCEPT ![k] = "full"]
    /\ UNCHANGED <<rows, object, url, request, worker, history>>

\* confirm_presigned_upload asks S3 for the object before it inserts.
BeginConfirm(p) ==
    \E k \in url, m \in Digests : Enter(p, "confirm", k, m, "head")

\* Mutant: the object is taken to be there.
HeadObject_Trusting(p) ==
    /\ Goto(p, "head", "insert")
    /\ UNCHANGED <<disk, kind, key, md5, row, worker, history>>

HeadObject(p) ==
    /\ Goto(p, "head", IF key[p] \in object THEN "insert" ELSE "done")
    /\ UNCHANGED <<disk, kind, key, md5, row, worker, history>>

\* complete_multipart_upload: the list of the parts, then the call that
\* completes the upload, which S3 refuses when it was aborted in between.
BeginComplete(p) ==
    \E k \in Keys, m \in Digests :
        /\ kind[k] = "multipart" /\ upload[k] # "none"
        /\ Enter(p, "complete", k, m, "list")

ListParts(p) ==
    /\ Goto(p, "list", IF upload[key[p]] = "full" THEN "finish" ELSE "done")
    /\ UNCHANGED <<disk, kind, key, md5, row, worker, history>>

FinishParts(p) ==
    /\ IF upload[key[p]] = "full"
       THEN /\ Goto(p, "finish", "head")
            /\ Fill(key[p])
            /\ upload' = [upload EXCEPT ![key[p]] = "closed"]
       ELSE /\ Goto(p, "finish", "done")
            /\ UNCHANGED <<object, stored, upload>>
    /\ UNCHANGED <<rows, url, kind, key, md5, row, worker, counted, again, lost>>

\* abort_multipart_upload, for an upload the client was given.
AbortMultipart(k) ==
    /\ kind[k] = "multipart" /\ upload[k] \in {"open", "full"}
    /\ upload' = [upload EXCEPT ![k] = "closed"]
    /\ UNCHANGED <<rows, object, url, request, worker, history>>

\* The cleanup job judges an upload by its age alone, whoever it belongs to.
CleanupStale(k) ==
    /\ upload[k] \in {"open", "full"}
    /\ upload' = [upload EXCEPT ![k] = "closed"]
    /\ UNCHANGED <<rows, object, url, request, worker, history>>

\* The row every kind of upload ends with.
Insert(p) ==
    /\ Goto(p, "insert", "done")
    /\ rows' = Append(rows, [key |-> key[p], md5 |-> md5[p],
                             live |-> TRUE, purge |-> "NONE"])
    /\ UNCHANGED <<object, upload, url, kind, key, md5, row, worker, history>>

-----------------------------------------------------------------------------
(* delete_file                                                             *)

\* The row is read; that of a deleted file ends the request at once.
BeginDelete(p) ==
    \E r \in DOMAIN rows :
        /\ rows[r].live
        /\ Goto(p, "idle", "soft")
        /\ kind' = [kind EXCEPT ![p] = "delete"]
        /\ row' = [row EXCEPT ![p] = r]
        /\ UNCHANGED <<disk, key, md5, worker, history>>

\* The update is by id: it does not ask again whether the row is deleted.
SoftDelete(p) ==
    /\ Goto(p, "soft", "count")
    /\ rows' = [rows EXCEPT ![row[p]].live = FALSE, ![row[p]].purge = "NONE"]
    /\ UNCHANGED <<object, upload, url, kind, key, md5, row, worker, history>>

\* Mutant: the last reference but one is taken for the last.
CountRefs_OffByOne(p) ==
    /\ pc[p] = "count"
    /\ LET k == rows[row[p]].key
           unused == \A r, s \in LiveOf(k) : r = s
       IN /\ Goto(p, "count", IF unused THEN "mark" ELSE "done")
          /\ counted' = IF unused THEN [counted EXCEPT ![k] = Len(rows)] ELSE counted
    /\ UNCHANGED <<disk, kind, key, md5, row, worker, stored, again, lost>>

\* Mutant: the count forgets to leave deleted rows out.
CountRefs_Deleted(p) ==
    /\ pc[p] = "count"
    /\ LET k == rows[row[p]].key
       IN /\ Goto(p, "count", IF RowsOf(k) = {} THEN "mark" ELSE "done")
          /\ counted' = IF RowsOf(k) = {} THEN [counted EXCEPT ![k] = Len(rows)]
                                          ELSE counted
    /\ UNCHANGED <<disk, kind, key, md5, row, worker, stored, again, lost>>

CountRefs(p) ==
    /\ pc[p] = "count"
    /\ LET k == rows[row[p]].key
       IN /\ Goto(p, "count", IF LiveOf(k) = {} THEN "mark" ELSE "done")
          /\ counted' = IF LiveOf(k) = {} THEN [counted EXCEPT ![k] = Len(rows)]
                                          ELSE counted
    /\ UNCHANGED <<disk, kind, key, md5, row, worker, stored, again, lost>>

MarkPending(p) ==
    /\ Goto(p, "mark", "spawn")
    /\ rows' = [rows EXCEPT ![row[p]].purge = "PENDING"]
    /\ UNCHANGED <<object, upload, url, kind, key, md5, row, worker, history>>

\* BackgroundTaskQueue::spawn is a try_send: a task that finds the queue full
\* is dropped.
SpawnPurge(p) ==
    /\ Goto(p, "spawn", "done")
    /\ IF Len(queue) < QueueCapacity
       THEN queue' = Append(queue, row[p]) /\ UNCHANGED lost
       ELSE lost' = lost \cup {rows[row[p]].key} /\ UNCHANGED queue
    /\ UNCHANGED <<disk, kind, key, md5, row, job, stored, counted, again>>

-----------------------------------------------------------------------------
(* The background workers, failures, restarts                              *)

TakeTask(w) ==
    /\ job[w].at = "idle" /\ queue # <<>>
    /\ job' = [job EXCEPT ![w] = [at |-> "delete", row |-> Head(queue), outcome |-> "FAILED"]]
    /\ queue' = Tail(queue)
    /\ UNCHANGED <<disk, request, history>>

\* delete_object succeeds, or fails with or without having removed the object.
DeleteObject(w) ==
    /\ job[w].at = "delete"
    /\ \E o \in Outcomes :
        /\ job' = [job EXCEPT ![w].at = "record", ![w].outcome = o]
        /\ \/ object' = object \ {rows[job[w].row].key}
           \/ o = "FAILED" /\ UNCHANGED object
    /\ UNCHANGED <<rows, upload, url, request, queue, history>>

\* Mutant: the error of delete_object is not looked at.
RecordPurge_Unchecked(w) ==
    /\ job[w].at = "record"
    /\ job' = [job EXCEPT ![w] = IdleJob]
    /\ rows' = [rows EXCEPT ![job[w].row].purge = "SUCCESS"]
    /\ UNCHANGED <<object, upload, url, request, queue, history>>

\* The outcome is written by id; an error of that write is ignored.
RecordPurge(w) ==
    /\ job[w].at = "record"
    /\ job' = [job EXCEPT ![w] = IdleJob]
    /\ \/ /\ rows' = [rows EXCEPT ![job[w].row].purge = job[w].outcome]
          /\ UNCHANGED lost
       \/ /\ lost' = lost \cup {rows[job[w].row].key}
          /\ UNCHANGED rows
    /\ UNCHANGED <<object, upload, url, request, queue, stored, counted, again>>

\* What is on its way to be purged: by a request past its soft delete, by a
\* task in the queue, by a worker.
InRequest == {row[p] : p \in {q \in Requests : pc[q] \in Purging}}
InQueue   == {queue[i] : i \in DOMAIN queue}
InWorker  == {job[w].row : w \in {v \in Workers : job[v].at # "idle"}}
UnderWay  == InRequest \cup InQueue \cup InWorker

\* A request ends early: a call fails, or the client goes and the handler is
\* dropped at an await.
Abandon(p) ==
    /\ pc[p] \notin {"idle", "done"}
    /\ pc' = [pc EXCEPT ![p] = "done"]
    /\ lost' = IF pc[p] \in Purging THEN lost \cup {rows[row[p]].key} ELSE lost
    /\ UNCHANGED <<disk, kind, key, md5, row, worker, stored, counted, again>>

\* The process stops and starts: requests, queue and workers are gone.
Restart ==
    /\ pc' = [p \in Requests |-> IF pc[p] = "idle" THEN "idle" ELSE "done"]
    /\ queue' = <<>>
    /\ job' = [w \in Workers |-> IdleJob]
    /\ lost' = lost \cup {rows[r].key : r \in UnderWay}
    /\ UNCHANGED <<disk, kind, key, md5, row, stored, counted, again>>

Upload(p) ==
    \/ BeginUpload(p) \/ BeginPresign(p) \/ BeginMultipart(p)
    \/ Find(p) \/ CheckReused(p)
    \/ PutObject(p) \/ OpenUpload(p) \/ FinishUpload(p) \/ FailUpload(p)
    \/ GrantUrl(p) \/ OpenMultipart(p)
    \/ BeginConfirm(p) \/ HeadObject(p)
    \/ BeginComplete(p) \/ ListParts(p) \/ FinishParts(p)
    \/ Insert(p)

Delete(p) ==
    \/ BeginDelete(p) \/ SoftDelete(p) \/ CountRefs(p)
    \/ MarkPending(p) \/ SpawnPurge(p)

Work(w) == TakeTask(w) \/ DeleteObject(w) \/ RecordPurge(w)

Outside(k) == ClientPut(k) \/ ClientParts(k) \/ AbortMultipart(k) \/ CleanupStale(k)

Next ==
    \/ \E p \in Requests : Upload(p) \/ Delete(p) \/ Abandon(p)
    \/ \E w \in Workers : Work(w)
    \/ \E k \in Keys : Outside(k)
    \/ Restart

Spec == Init /\ [][Next]_vars

-----------------------------------------------------------------------------
(* Properties                                                              *)

\* Every variable has its type, every row index names a row, and the queue
\* keeps its bound (try_send on the bounded channel).
TypeOK ==
    /\ rows \in Seq(File)
    /\ object \subseteq Keys
    /\ upload \in [Keys -> {"none", "open", "full", "closed"}]
    /\ url \subseteq Keys
    /\ pc \in [Requests -> Places]
    /\ kind \in [Requests -> Kinds]
    /\ key \in [Requests -> Keys]
    /\ md5 \in [Requests -> Digests]
    /\ row \in [Requests -> Nat]
    /\ \A p \in Requests : pc[p] \in Purging \cup {"soft"} => row[p] \in DOMAIN rows
    /\ queue \in Seq(DOMAIN rows) /\ Len(queue) <= QueueCapacity
    /\ job \in [Workers -> Job]
    /\ \A w \in Workers : job[w].at # "idle" => job[w].row \in DOMAIN rows
    /\ stored \subseteq Keys /\ again \subseteq Keys /\ lost \subseteq Keys
    /\ counted \in [Keys -> Nat]

\* No row names an object that never existed, whatever order the client
\* sends its puts, confirms, completes and aborts in, and whatever the
\* cleanup job aborts under it.
RowHadObject == \A r \in DOMAIN rows : rows[r].key \in stored

\* A delete never costs a file that was stored before it: a live row whose
\* object is missing was inserted after a reference count of delete_file had
\* come out zero. Only an insert that overlaps the removal can lose.
EarlierRowKeepsObject ==
    \A r \in DOMAIN rows :
        rows[r].live /\ rows[r].key \notin object =>
            counted[rows[r].key] \in 1 .. r - 1

\* Of concurrent deletes of the rows that share an object, one removes it: an
\* object all of whose rows are deleted is being purged, or a row says that
\* the purge failed, or the purge was cut short (queue full, process or
\* request ended), or a client filled the key again.
LeakHasCause ==
    \A k \in object :
        (RowsOf(k) # {} /\ LiveOf(k) = {}) =>
            \/ RowsOf(k) \cap UnderWay # {}
            \/ \E r \in RowsOf(k) : rows[r].purge = "FAILED"
            \/ k \in lost \cup again

\* A row is left PENDING only by a purge that was cut short.
PendingHasTask ==
    \A r \in DOMAIN rows : rows[r].purge = "PENDING" =>
        r \in UnderWay \/ rows[r].key \in lost

\* SUCCESS is only written of an object that is gone, and stays true unless
\* a client fills the key again, whichever of two deletes of a row comes last.
SuccessIsTrue ==
    \A r \in DOMAIN rows : rows[r].purge = "SUCCESS" =>
        (rows[r].key \in object => rows[r].key \in again)
=============================================================================
