----------------------------- MODULE TaskQueue -------------------------------
(***************************************************************************)
(* The queues of summer-plugins/src/background_task: a bounded channel of  *)
(* futures that several workers take from (mod.rs, and the same in         *)
(* typed_batch.rs), and the channel of one registered type, whose loop     *)
(* hands batches to a handler (typed_batch.rs).  Types share nothing, so   *)
(* one stands for each.                                                    *)
(*                                                                         *)
(* A future and a handler run to an end of their own or panic; a panic     *)
(* ends the tokio task that polled it, with what that task holds, and a    *)
(* channel without receivers refuses what is sent.  DropHandles is the     *)
(* moment the last clone of the queue goes.                                *)
(*                                                                         *)
(* Bounds: each of Tasks is spawned once, each of Items pushed once; at    *)
(* most MaxPanics panics.                                                  *)
(***************************************************************************)
EXTENDS Integers, Sequences, FiniteSets, Functions

CONSTANTS Tasks, TaskWorkers, TaskCapacity, Items, ItemCapacity, HandSize, MaxPanics

ASSUME QueueAssumption ==
    /\ IsFiniteSet(Tasks) /\ IsFiniteSet(TaskWorkers) /\ IsFiniteSet(Items)
    /\ {"recv", "gone"} \cap Tasks = {}
    /\ TaskCapacity \in Nat \ {0} /\ ItemCapacity \in Nat \ {0}
    /\ HandSize \in Nat /\ MaxPanics \in Nat

VARIABLES
    handles,      \* clones of the queue exist
    panics,
    \* the futures
    taskChan,     \* the channel
    taskAt,       \* "new", "refused", "queued", "running", "done" or "panicked"
    running,      \* what each worker polls: a task, "recv" or "gone"
    \* the items
    itemChan, itemBuf,
    inHand,       \* the batch the handler works on
    loop,         \* where batch_flush_loop stands
    refused,      \* the items that push dropped
    handled       \* in the order in which the handler was done with them

taskVars  == <<taskChan, taskAt, running>>
itemVars  == <<itemChan, itemBuf, inHand, loop, refused, handled>>
queueVars == <<handles, panics, taskVars, itemVars>>

QueueInit ==
    /\ handles = TRUE /\ panics = 0
    /\ taskChan = <<>> /\ taskAt = [t \in Tasks |-> "new"]
    /\ running = [w \in TaskWorkers |-> "recv"]
    /\ itemChan = <<>> /\ itemBuf = <<>> /\ inHand = <<>> /\ loop = "select"
    /\ refused = {} /\ handled = <<>>

----------------------------------------------------------------------------
(* The futures. *)

\* Each worker owns a clone of the receiver, and build drops its own.
Receivers == {w \in TaskWorkers : running[w] # "gone"}

\* spawn: try_send, and a refused future is dropped.
Spawn(t) ==
    /\ handles /\ taskAt[t] = "new"
    /\ IF Receivers # {} /\ Len(taskChan) < TaskCapacity
       THEN taskChan' = Append(taskChan, t) /\ taskAt' = [taskAt EXCEPT ![t] = "queued"]
       ELSE taskAt' = [taskAt EXCEPT ![t] = "refused"] /\ UNCHANGED taskChan
    /\ UNCHANGED <<handles, panics, running, itemVars>>

\* recv_async of any worker.
WorkerTakes(w) ==
    /\ running[w] = "recv" /\ taskChan # <<>>
    /\ running' = [running EXCEPT ![w] = Head(taskChan)]
    /\ taskAt' = [taskAt EXCEPT ![Head(taskChan)] = "running"]
    /\ taskChan' = Tail(taskChan)
    /\ UNCHANGED <<handles, panics, itemVars>>

TaskEnds(w) ==
    /\ running[w] \in Tasks
    /\ taskAt' = [taskAt EXCEPT ![running[w]] = "done"]
    /\ running' = [running EXCEPT ![w] = "recv"]
    /\ UNCHANGED <<handles, panics, taskChan, itemVars>>

\* The worker is gone with its future; nothing starts another.
TaskPanics(w) ==
    /\ running[w] \in Tasks /\ panics < MaxPanics
    /\ panics' = panics + 1
    /\ taskAt' = [taskAt EXCEPT ![running[w]] = "panicked"]
    /\ running' = [running EXCEPT ![w] = "gone"]
    /\ UNCHANGED <<handles, taskChan, itemVars>>

\* Mutant: a worker leaves as soon as nobody can send.
WorkerLeaves_AtOnce(w) ==
    /\ running[w] = "recv" /\ ~handles
    /\ running' = [running EXCEPT ![w] = "gone"]
    /\ UNCHANGED <<handles, panics, taskChan, taskAt, itemVars>>

\* recv_async fails when the channel is empty and nobody can send.
WorkerLeaves(w) ==
    /\ running[w] = "recv" /\ ~handles /\ taskChan = <<>>
    /\ running' = [running EXCEPT ![w] = "gone"]
    /\ UNCHANGED <<handles, panics, taskChan, taskAt, itemVars>>

----------------------------------------------------------------------------
(* The items of one type. *)

\* push: the receiver lives as long as the loop.
PushItem(i) ==
    /\ handles /\ i \notin refused \cup Range(handled \o inHand \o itemBuf \o itemChan)
    /\ IF loop \notin {"exited", "panicked"} /\ Len(itemChan) < ItemCapacity
       THEN itemChan' = Append(itemChan, i) /\ UNCHANGED refused
       ELSE refused' = refused \cup {i} /\ UNCHANGED itemChan
    /\ UNCHANGED <<handles, panics, taskVars, itemBuf, inHand, loop, handled>>

HandOver(items, next) == inHand' = items /\ itemBuf' = <<>> /\ loop' = next

\* The biased select: an item first; a full batch goes to the handler.
LoopReceives ==
    /\ loop = "select" /\ itemChan # <<>>
    /\ itemChan' = Tail(itemChan)
    /\ LET items == Append(itemBuf, Head(itemChan))
       IN  IF Len(items) >= HandSize THEN HandOver(items, "handler")
           ELSE itemBuf' = items /\ UNCHANGED <<inHand, loop>>
    /\ UNCHANGED <<handles, panics, taskVars, refused, handled>>

\* The interval, with something to flush.
LoopTicks ==
    /\ loop = "select" /\ itemChan = <<>> /\ itemBuf # <<>>
    /\ HandOver(itemBuf, "handler")
    /\ UNCHANGED <<handles, panics, taskVars, itemChan, refused, handled>>

\* Mutant: the loop ends without a last batch.
LoopCloses_Discard ==
    /\ loop = "select" /\ itemChan = <<>> /\ ~handles
    /\ loop' = "exited"
    /\ UNCHANGED <<handles, panics, taskVars, itemChan, itemBuf, inHand, refused, handled>>

\* The channel is empty and nobody can send: the rest, and out.
LoopCloses ==
    /\ loop = "select" /\ itemChan = <<>> /\ ~handles
    /\ IF itemBuf # <<>> THEN HandOver(itemBuf, "last")
       ELSE loop' = "exited" /\ UNCHANGED <<inHand, itemBuf>>
    /\ UNCHANGED <<handles, panics, taskVars, itemChan, refused, handled>>

HandlerEnds ==
    /\ loop \in {"handler", "last"}
    /\ handled' = handled \o inHand
    /\ inHand' = <<>>
    /\ loop' = IF loop = "last" THEN "leaving" ELSE "select"
    /\ UNCHANGED <<handles, panics, taskVars, itemChan, itemBuf, refused>>

LoopLeaves ==
    /\ loop = "leaving"
    /\ loop' = "exited"
    /\ UNCHANGED <<handles, panics, taskVars, itemChan, itemBuf, inHand, refused, handled>>

\* The loop's receiver and buffers go too; what they held stays here to tell.
HandlerPanics ==
    /\ loop \in {"handler", "last"} /\ panics < MaxPanics
    /\ panics' = panics + 1
    /\ loop' = "panicked"
    /\ UNCHANGED <<handles, taskVars, itemChan, itemBuf, inHand, refused, handled>>

DropHandles ==
    /\ handles
    /\ handles' = FALSE
    /\ UNCHANGED <<panics, taskVars, itemVars>>

QueueWorks ==
    \/ \E w \in TaskWorkers : WorkerTakes(w) \/ TaskEnds(w) \/ WorkerLeaves(w)
    \/ LoopReceives \/ LoopTicks \/ LoopCloses \/ HandlerEnds \/ LoopLeaves

QueueNext ==
    \/ \E t \in Tasks : Spawn(t)
    \/ \E i \in Items : PushItem(i)
    \/ \E w \in TaskWorkers : TaskPanics(w)
    \/ HandlerPanics \/ DropHandles
    \/ QueueWorks

QueueSpec == QueueInit /\ [][QueueNext]_queueVars

----------------------------------------------------------------------------
(* Properties. *)

QueueTypeOK ==
    /\ handles \in BOOLEAN /\ panics \in 0..MaxPanics
    /\ taskChan \in Seq(Tasks)
    /\ taskAt \in [Tasks -> {"new", "refused", "queued", "running", "done", "panicked"}]
    /\ running \in [TaskWorkers -> Tasks \cup {"recv", "gone"}]
    /\ itemChan \in Seq(Items) /\ itemBuf \in Seq(Items) /\ inHand \in Seq(Items)
    /\ handled \in Seq(Items) /\ refused \subseteq Items
    /\ loop \in {"select", "handler", "last", "leaving", "exited", "panicked"}

\* No worker and no loop has anything left to do.
QueueAtRest ==
    /\ \A w \in TaskWorkers : running[w] = "gone" \/ (running[w] = "recv" /\ taskChan = <<>>)
    /\ loop \in {"exited", "panicked"} \/ (loop = "select" /\ itemChan \o itemBuf = <<>>)

\* When the queues are at rest, also after the last handle has gone, every
\* future that spawn took has been run to its end or has panicked, unless
\* every worker has gone with a panic; and every item that push took has been
\* handled, unless the handler has panicked.
AtRestNothingWaits ==
    QueueAtRest =>
        /\ \/ \A t \in Tasks : taskAt[t] \notin {"queued", "running"}
           \/ panics >= Cardinality(TaskWorkers) /\ Receivers = {}
        /\ loop # "panicked" => inHand \o itemBuf \o itemChan = <<>>

Relay == INSTANCE LogSink WITH
    Records <- Items, BatchSize <- HandSize,
    queue <- inHand \o itemBuf \o itemChan, settled <- handled,
    rows <- [i \in Items |-> IF i \in Range(handled) THEN 1 ELSE 0],
    reported <- {}, closed <- ~handles, late <- {}, stopped <- loop = "exited"

\* The loop of a type keeps what the log collector promises: batches of at
\* most batch_size items, in the order of the pushes, each item once, and
\* nothing left when it ends; a panic of the handler stops it for good.
RelayImplementsSink == Relay!Spec
=============================================================================
