-------------------------- MODULE LogBatchCollector --------------------------
(***************************************************************************)
(* The batch collector of summer-plugins/src/log_batch_collector/mod.rs:   *)
(* synchronous push calls from any thread feed a bounded flume channel, a  *)
(* single flush worker batches the records into INSERTs, and a shutdown    *)
(* hook closes the collector and waits for the worker to drain.            *)
(*                                                                         *)
(* The unit of interleaving is one atomic access or one channel operation  *)
(* of a push, one channel operation or one database call of the worker.    *)
(* Every push call offers a record of its own, so a call and its record    *)
(* share one name.                                                         *)
(***************************************************************************)
EXTENDS Naturals, FiniteSets, Sequences, Functions

CONSTANTS Pushes,      \* the push calls, each with its own record
          Capacity,    \* LogBatchConfig.capacity
          BatchSize,   \* LogBatchConfig.batch_size
          Attempts     \* the length of LOG_BATCH_RETRY_DELAYS_MS

ASSUME CollectorAssumption ==
    /\ IsFiniteSet(Pushes)
    /\ Capacity \in Nat \ {0}
    /\ BatchSize \in Nat
    /\ Attempts \in Nat \ {0}

VARIABLES
    \* CollectorControl and the channel
    closed,      \* the closed flag
    inFlight,    \* in_flight_pushes
    woken,       \* the worker's current Notified future has been notified
    chan,        \* the records in the flume channel
    \* the push calls
    pc,          \* where each call stands
    \* the flush worker
    wpc,         \* where the worker stands
    buf,         \* buffer
    batch,       \* the batch flush_batch took, what is left of it
    attempt,     \* which insert_many attempt is next
    resume,      \* where the worker goes after flush_batch
    \* the world
    rows,        \* how many rows the log table holds for each record
    hook,        \* the shutdown hook
    \* history
    accepted,    \* the records try_send took, in order
    late,        \* the records try_send took after close()
    flushed,     \* the records flush_batch is done with, in order
    gaveUp       \* the records whose single insert reported an error

control == <<closed, inFlight, woken>>
worker  == <<wpc, buf, batch, attempt, resume>>
history == <<accepted, late, flushed, gaveUp>>
vars    == <<control, chan, pc, worker, rows, hook, history>>

PushStates  == {"idle", "register", "recheck", "send", "finish", "wake", "done"}
LoopStates  == {"loop", "select"}
DrainStates == {"drain", "check", "checkInFlight", "backoff"}
WorkerStates == LoopStates \cup DrainStates \cup {"insertMany", "insertOne", "exited"}

\* A call is counted from its fetch_add to its fetch_sub.
Counted == {p \in Pushes : pc[p] \in {"recheck", "send", "finish"}}

\* The worker is past the select that saw the shutdown notification.
ShuttingDown == wpc \in DrainStates \/ resume \in DrainStates

Init ==
    /\ closed = FALSE /\ inFlight = 0 /\ woken = FALSE
    /\ chan = <<>>
    /\ pc = [p \in Pushes |-> "idle"]
    /\ wpc = "loop" /\ buf = <<>> /\ batch = <<>> /\ attempt = 1 /\ resume = "loop"
    /\ rows = [p \in Pushes |-> 0]
    /\ hook = "idle"
    /\ accepted = <<>> /\ late = {} /\ flushed = <<>> /\ gaveUp = {}

-----------------------------------------------------------------------------
(* push and close                                                          *)

Goto(p, from, to) == pc[p] = from /\ pc' = [pc EXCEPT ![p] = to]

\* notify_waiters keeps no permit: it reaches only a Notified future that
\* exists, and the one that matters lives while the worker is in its select.
NotifyWaiters == woken' = (woken \/ wpc = "select")

\* The first load of the flag, before the call is counted.
PushEnter(p) ==
    /\ Goto(p, "idle", IF closed THEN "done" ELSE "register")
    /\ UNCHANGED <<control, chan, worker, rows, hook, history>>

PushRegister(p) ==
    /\ Goto(p, "register", "recheck")
    /\ inFlight' = inFlight + 1
    /\ UNCHANGED <<closed, woken, chan, worker, rows, hook, history>>

\* Mutant: the Closed return path forgets finish_push.
PushRecheck_NoFinish(p) ==
    /\ Goto(p, "recheck", IF closed THEN "done" ELSE "send")
    /\ UNCHANGED <<control, chan, worker, rows, hook, history>>

PushRecheck(p) ==
    /\ Goto(p, "recheck", IF closed THEN "finish" ELSE "send")
    /\ UNCHANGED <<control, chan, worker, rows, hook, history>>

\* try_send: the channel refuses when it is full, or when the worker that
\* owned the receiver is gone.
Takes == wpc # "exited" /\ Len(chan) < Capacity

PushSend(p) ==
    /\ Goto(p, "send", "finish")
    /\ IF Takes
       THEN /\ chan' = Append(chan, p)
            /\ accepted' = Append(accepted, p)
            /\ late' = IF closed THEN late \cup {p} ELSE late
       ELSE UNCHANGED <<chan, accepted, late>>
    /\ UNCHANGED <<control, worker, rows, hook, flushed, gaveUp>>

\* finish_push: the fetch_sub, then, for the call that brought the counter
\* to zero, a load of the flag and the notification.
PushFinish(p) ==
    /\ Goto(p, "finish", IF inFlight = 1 THEN "wake" ELSE "done")
    /\ inFlight' = inFlight - 1
    /\ UNCHANGED <<closed, woken, chan, worker, rows, hook, history>>

PushWake(p) ==
    /\ Goto(p, "wake", "done")
    /\ IF closed THEN NotifyWaiters ELSE UNCHANGED woken
    /\ UNCHANGED <<closed, inFlight, chan, worker, rows, hook, history>>

Push(p) ==
    \/ PushEnter(p) \/ PushRegister(p) \/ PushRecheck(p)
    \/ PushSend(p) \/ PushFinish(p) \/ PushWake(p)

\* The shutdown hook: close, then wait for the worker at most five seconds.
HookClose ==
    /\ hook = "idle"
    /\ closed' = TRUE
    /\ NotifyWaiters
    /\ hook' = "waiting"
    /\ UNCHANGED <<inFlight, chan, pc, worker, rows, history>>

HookDrained ==
    /\ hook = "waiting" /\ wpc = "exited"
    /\ hook' = "drained"
    /\ UNCHANGED <<control, chan, pc, worker, rows, history>>

HookTimesOut ==
    /\ hook = "waiting" /\ wpc # "exited"
    /\ hook' = "timedOut"
    /\ UNCHANGED <<control, chan, pc, worker, rows, history>>

-----------------------------------------------------------------------------
(* flush_loop                                                              *)

WorkerGoto(from, to) == wpc = from /\ wpc' = to

\* flush_batch takes the records in hand and starts on its first attempt.
StartFlush(records, next) ==
    /\ batch' = records /\ buf' = <<>>
    /\ attempt' = 1
    /\ wpc' = "insertMany" /\ resume' = next

KeepBuffering(records, next) ==
    /\ buf' = records
    /\ wpc' = next
    /\ UNCHANGED <<batch, attempt, resume>>

\* Take the head of the channel; flush when the batch is full.
TakeRecord(next) ==
    /\ chan # <<>>
    /\ chan' = Tail(chan)
    /\ LET records == Append(buf, Head(chan)) IN
       IF Len(records) >= BatchSize
       THEN StartFlush(records, next)
       ELSE KeepBuffering(records, next)

\* A new iteration of the select: a fresh Notified future, not yet notified.
Arm ==
    /\ WorkerGoto("loop", "select")
    /\ woken' = FALSE
    /\ UNCHANGED <<closed, inFlight, chan, pc, buf, batch, attempt, resume, rows, hook, history>>

\* The biased select: shutdown first, then the channel, then the interval.
SelectShutdown ==
    /\ woken
    /\ WorkerGoto("select", "drain")
    /\ UNCHANGED <<control, chan, pc, buf, batch, attempt, resume, rows, hook, history>>

SelectRecv ==
    /\ wpc = "select" /\ ~woken
    /\ TakeRecord("loop")
    /\ UNCHANGED <<control, pc, rows, hook, history>>

\* Mutant: the interval does not flush a partial batch.
SelectTick_NoFlush ==
    /\ wpc = "select" /\ ~woken /\ chan = <<>>
    /\ KeepBuffering(buf, "loop")
    /\ UNCHANGED <<control, chan, pc, rows, hook, history>>

SelectTick ==
    /\ wpc = "select" /\ ~woken /\ chan = <<>>
    /\ IF buf # <<>> THEN StartFlush(buf, "loop") ELSE KeepBuffering(buf, "loop")
    /\ UNCHANGED <<control, chan, pc, rows, hook, history>>

\* The shutting_down branch: try_recv until empty, then flush the rest.
DrainRecv ==
    /\ wpc = "drain"
    /\ TakeRecord("drain")
    /\ UNCHANGED <<control, pc, rows, hook, history>>

\* Mutant: what is short of a batch is not flushed before the exit test.
DrainRest_NoFlush ==
    /\ wpc = "drain" /\ chan = <<>>
    /\ KeepBuffering(buf, "check")
    /\ UNCHANGED <<control, chan, pc, rows, hook, history>>

DrainRest ==
    /\ wpc = "drain" /\ chan = <<>>
    /\ IF buf # <<>> THEN StartFlush(buf, "check") ELSE KeepBuffering(buf, "check")
    /\ UNCHANGED <<control, chan, pc, rows, hook, history>>

\* rx.is_empty() && in_flight_pushes == 0: two reads, in this order.
CheckEmpty ==
    /\ WorkerGoto("check", IF chan = <<>> THEN "checkInFlight" ELSE "backoff")
    /\ UNCHANGED <<control, chan, pc, buf, batch, attempt, resume, rows, hook, history>>

\* Mutant: the exit test looks at the channel only.
CheckInFlight_Ignored ==
    /\ WorkerGoto("checkInFlight", "exited")
    /\ UNCHANGED <<control, chan, pc, buf, batch, attempt, resume, rows, hook, history>>

CheckInFlight ==
    /\ WorkerGoto("checkInFlight", IF inFlight = 0 THEN "exited" ELSE "backoff")
    /\ UNCHANGED <<control, chan, pc, buf, batch, attempt, resume, rows, hook, history>>

\* A notification or ten milliseconds, whichever comes first.
Backoff ==
    /\ WorkerGoto("backoff", "drain")
    /\ UNCHANGED <<control, chan, pc, buf, batch, attempt, resume, rows, hook, history>>

-----------------------------------------------------------------------------
(* flush_batch                                                             *)

Written(records) == [p \in Pushes |-> rows[p] + (IF p \in Range(records) THEN 1 ELSE 0)]

\* insert_many is one statement: the batch is written or it is not, and an
\* error leaves open which. After the last failed attempt the batch is
\* written record by record.
InsertManyOk ==
    /\ WorkerGoto("insertMany", resume)
    /\ rows' = Written(batch)
    /\ flushed' = flushed \o batch
    /\ batch' = <<>>
    /\ UNCHANGED <<control, chan, pc, buf, attempt, resume, hook, accepted, late, gaveUp>>

\* Mutant: the last failed attempt gives the batch up.
InsertManyFails_Drop(applied) ==
    /\ WorkerGoto("insertMany", IF attempt < Attempts THEN "insertMany" ELSE resume)
    /\ attempt' = attempt + 1
    /\ batch' = IF attempt < Attempts THEN batch ELSE <<>>
    /\ rows' = IF applied THEN Written(batch) ELSE rows
    /\ UNCHANGED <<control, chan, pc, buf, resume, hook, history>>

InsertManyFails(applied) ==
    /\ WorkerGoto("insertMany", IF attempt < Attempts THEN "insertMany" ELSE "insertOne")
    /\ attempt' = attempt + 1
    /\ rows' = IF applied THEN Written(batch) ELSE rows
    /\ UNCHANGED <<control, chan, pc, buf, batch, resume, hook, history>>

\* Mutant: the error of a single insert is ignored.
InsertOne_Silent(applied, reported) ==
    /\ applied \/ reported
    /\ WorkerGoto("insertOne", IF Len(batch) = 1 THEN resume ELSE "insertOne")
    /\ rows' = IF applied THEN Written(<<Head(batch)>>) ELSE rows
    /\ flushed' = Append(flushed, Head(batch))
    /\ batch' = Tail(batch)
    /\ UNCHANGED <<control, chan, pc, buf, attempt, resume, hook, accepted, late, gaveUp>>

\* One record of the fallback; an error is logged and the record left behind.
InsertOne(applied, reported) ==
    /\ applied \/ reported
    /\ WorkerGoto("insertOne", IF Len(batch) = 1 THEN resume ELSE "insertOne")
    /\ rows' = IF applied THEN Written(<<Head(batch)>>) ELSE rows
    /\ gaveUp' = IF reported THEN gaveUp \cup {Head(batch)} ELSE gaveUp
    /\ flushed' = Append(flushed, Head(batch))
    /\ batch' = Tail(batch)
    /\ UNCHANGED <<control, chan, pc, buf, attempt, resume, hook, accepted, late>>

FlushBatch ==
    \/ InsertManyOk
    \/ \E applied \in BOOLEAN : InsertManyFails(applied)
    \/ \E applied, reported \in BOOLEAN : InsertOne(applied, reported)

FlushLoop ==
    \/ Arm \/ SelectShutdown \/ SelectRecv \/ SelectTick
    \/ DrainRecv \/ DrainRest \/ CheckEmpty \/ CheckInFlight \/ Backoff

Worker == FlushLoop \/ FlushBatch

Next ==
    \/ \E p \in Pushes : Push(p)
    \/ HookClose \/ HookDrained \/ HookTimesOut
    \/ Worker

Spec == Init /\ [][Next]_vars

\* The runtime keeps polling the worker (its timers fire, its database calls
\* return), a push that began runs to its end on its own thread, and the hook
\* sees the tracker's end. No push has to begin and close need not come.
Fairness ==
    /\ WF_vars(Worker)
    /\ \A p \in Pushes : WF_vars(pc[p] # "idle" /\ Push(p))
    /\ WF_vars(HookDrained)

FairSpec == Spec /\ Fairness

-----------------------------------------------------------------------------
(* What the collector promises                                             *)

TypeOK ==
    /\ closed \in BOOLEAN /\ woken \in BOOLEAN
    /\ inFlight \in 0..Cardinality(Pushes)
    /\ pc \in [Pushes -> PushStates]
    /\ wpc \in WorkerStates
    /\ chan \in Seq(Pushes) /\ buf \in Seq(Pushes) /\ batch \in Seq(Pushes)
    /\ accepted \in Seq(Pushes) /\ flushed \in Seq(Pushes)
    /\ attempt \in 1..(Attempts + 1)
    /\ resume \in {"loop", "drain", "check"}
    /\ rows \in [Pushes -> Nat]
    /\ hook \in {"idle", "waiting", "drained", "timedOut"}
    /\ late \subseteq Pushes /\ gaveUp \subseteq Pushes

\* Between try_send and the database no record is lost, duplicated or
\* overtaken: what was accepted is, in order, what is flushed, in hand,
\* buffered and still in the channel.
Conservation == accepted = flushed \o batch \o buf \o chan

\* No INSERT carries more than batch_size records (one, when it is 0).
BatchBounded ==
    Len(batch) <= BatchSize \/ Len(batch) <= 1

\* in_flight_pushes counts the calls between their two updates of it, on the
\* accepted, refused and closed paths alike; the exit test relies on it.
InFlightExact == inFlight = Cardinality(Counted)

\* No call is about to send when the worker drops the receiver: the re-check
\* after the fetch_add closes the window the exit test would otherwise miss.
NoSendAfterExit ==
    wpc = "exited" => \A p \in Pushes : pc[p] # "send"

\* When the worker exits, every record that was accepted before close() went
\* through flush_batch; only a record accepted after it can be left behind.
ExitLeavesNothingEarly ==
    wpc = "exited" => buf = <<>> /\ batch = <<>> /\ Range(chan) \subseteq late

\* flush_batch is done with a record only when it is in the table or its
\* error has been reported.
FlushedIsWrittenOrReported ==
    \A p \in Range(flushed) : rows[p] > 0 \/ p \in gaveUp

\* A record accepted before close() is flushed in the end, whether or not the
\* worker notices the shutdown.
AcceptedIsFlushed ==
    \A p \in Pushes : (p \in Range(accepted) \ late) ~> (p \in Range(flushed))

\* A worker that saw the shutdown exits: the pushes in flight end, and then
\* the exit test succeeds.
DrainTerminates == ShuttingDown ~> (wpc = "exited")

Sink == INSTANCE LogSink WITH
    Records <- Pushes, queue <- batch \o buf \o chan, settled <- flushed,
    reported <- gaveUp, stopped <- wpc = "exited"

\* The collector is a log sink: its channel, buffer and batch are one queue,
\* which only the database settles, from the front, and which the exiting
\* worker leaves to no record accepted before close().
ImplementsLogSink == Sink!Spec

-----------------------------------------------------------------------------
(* What the code means to promise and does not                             *)

\* close() stops the worker. (notify_waiters leaves no permit, so a close()
\* that falls into a flush, or between two selects, is never seen.)
CloseStopsWorker == closed ~> (wpc = "exited")

=============================================================================
