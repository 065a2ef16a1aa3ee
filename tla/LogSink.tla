------------------------------- MODULE LogSink -------------------------------
(***************************************************************************)
(* What the log batch collector promises whoever pushes a record, without  *)
(* channel, buffer, worker and counter: the records it takes are settled   *)
(* in the order it took them, each by a row or by an error in the log;     *)
(* until it stops, and what it then leaves it took after it was closed.    *)
(* A statement whose answer was lost writes rows and settles nothing, so   *)
(* that a record may have several.                                         *)
(***************************************************************************)
EXTENDS Naturals, Sequences, Functions

CONSTANTS Records, BatchSize

VARIABLES
    queue,     \* taken and not settled
    settled,   \* in the order of settling
    rows,      \* how many rows each record has
    reported,  \* the records whose error was reported
    closed,
    late,      \* the records taken after close
    stopped

vars == <<queue, settled, rows, reported, closed, late, stopped>>

Init ==
    /\ queue = <<>> /\ settled = <<>>
    /\ rows = [r \in Records |-> 0]
    /\ reported = {} /\ late = {}
    /\ closed = FALSE /\ stopped = FALSE

Take(r) ==
    /\ ~stopped
    /\ queue' = Append(queue, r)
    /\ late' = IF closed THEN late \cup {r} ELSE late
    /\ UNCHANGED <<settled, rows, reported, closed, stopped>>

Close ==
    /\ closed' = TRUE
    /\ UNCHANGED <<queue, settled, rows, reported, late, stopped>>

First(n) == SubSeq(queue, 1, n)
Rest(n)  == SubSeq(queue, n + 1, Len(queue))

Write(records) == rows' = [r \in Records |-> rows[r] + (IF r \in Range(records) THEN 1 ELSE 0)]

\* One statement for the first n records, its answer seen or lost.
Insert(n, answered) ==
    /\ n <= BatchSize \/ n = 1
    /\ Write(First(n))
    /\ IF answered THEN queue' = Rest(n) /\ settled' = settled \o First(n)
       ELSE UNCHANGED <<queue, settled>>
    /\ UNCHANGED <<reported, closed, late, stopped>>

\* The first record alone: a row, an error, or a row behind an error.
InsertOne(written, error) ==
    /\ written \/ error
    /\ queue # <<>>
    /\ IF written THEN Write(<<Head(queue)>>) ELSE UNCHANGED rows
    /\ reported' = IF error THEN reported \cup {Head(queue)} ELSE reported
    /\ queue' = Tail(queue)
    /\ settled' = Append(settled, Head(queue))
    /\ UNCHANGED <<closed, late, stopped>>

Stop ==
    /\ Range(queue) \subseteq late
    /\ stopped' = TRUE
    /\ UNCHANGED <<queue, settled, rows, reported, closed, late>>

Next ==
    \/ \E r \in Records : Take(r)
    \/ Close
    \/ \E n \in 1 .. Len(queue), answered \in BOOLEAN : Insert(n, answered)
    \/ \E written, error \in BOOLEAN : InsertOne(written, error)
    \/ Stop

Spec == Init /\ [][Next]_vars

=============================================================================
