----------------------- MODULE LogBatchCollectorProofs -----------------------
(***************************************************************************)
(* The safety properties of LogBatchCollector, for every number of pushes, *)
(* every capacity, batch size and number of attempts.                      *)
(*                                                                         *)
(* The inductive invariant adds to the typing what the worker's place says *)
(* about the flag, its buffers and the channel (WorkerInv).                *)
(***************************************************************************)
EXTENDS LogBatchCollector, SequenceTheorems, FiniteSetTheorems, TLAPS

Flushing == {"insertMany", "insertOne"}
PastDrain == {"checkInFlight", "exited"}

\* The worker's place: it drains only a closed collector, has a batch exactly
\* while it flushes, and from its look at the empty channel on finds there
\* only records accepted after close.
WorkerInv ==
    /\ woken => closed
    /\ ShuttingDown \/ wpc = "exited" => closed
    /\ wpc \in Flushing <=> batch # <<>>
    /\ wpc \in Flushing \cup PastDrain \cup {"check"} => buf = <<>>
    /\ wpc \in PastDrain => Range(chan) \subseteq late
    /\ wpc = "exited" => \A p \in Pushes : pc[p] # "send"
    /\ wpc = "insertMany" => attempt <= Attempts

IInv == TypeOK /\ InFlightExact /\ WorkerInv

-----------------------------------------------------------------------------
(* Lemmas                                                                  *)

\* Counted is a finite set, so its cardinality is a number.
LEMMA CountedFinite ==
    /\ IsFiniteSet(Counted)
    /\ Cardinality(Counted) \in Nat
    /\ Cardinality(Counted) <= Cardinality(Pushes)
    /\ Cardinality(Pushes) \in Nat
<1>1. IsFiniteSet(Pushes)
  BY CollectorAssumption
<1>2. Counted \in SUBSET Pushes
  BY DEF Counted
<1> QED BY <1>1, <1>2, FS_Subset, FS_CardinalityType

\* The range of a sequence that lost its head, or gained an element.
LEMMA RangeTail ==
    ASSUME NEW S, NEW s \in Seq(S), s # <<>>
    PROVE  /\ Range(Tail(s)) \subseteq Range(s)
           /\ Range(s) = {Head(s)} \cup Range(Tail(s))
<1>1. /\ Tail(s) \in Seq(S) /\ Len(Tail(s)) = Len(s) - 1
      /\ \A i \in 1..Len(Tail(s)) : Tail(s)[i] = s[i + 1]
  BY HeadTailProperties
<1>2. Range(Tail(s)) = {Tail(s)[i] : i \in 1..Len(Tail(s))}
  BY <1>1, RangeEquality
<1>3. Range(s) = {s[i] : i \in 1..Len(s)}
  BY RangeEquality
<1>4. Len(s) \in Nat \ {0}
  BY EmptySeq
<1>5. Head(s) = s[1]
  OBVIOUS
<1>6. \A i \in 1..Len(s) : i = 1 \/ (i - 1 \in 1..Len(Tail(s)) /\ s[i] = Tail(s)[i - 1])
  BY <1>1, <1>4
<1>7. \A i \in 1..Len(Tail(s)) : i + 1 \in 1..Len(s) /\ Tail(s)[i] = s[i + 1]
  BY <1>1, <1>4
<1>8. 1 \in 1..Len(s)
  BY <1>4
<1> QED BY <1>2, <1>3, <1>5, <1>6, <1>7, <1>8

LEMMA RangeAppend ==
    ASSUME NEW S, NEW s \in Seq(S), NEW e \in S
    PROVE  Range(Append(s, e)) = Range(s) \cup {e}
<1>1. Append(s, e) = s \o <<e>> /\ <<e>> \in Seq(S)
  BY AppendIsConcat
<1>2. Range(<<e>>) = {e}
  BY DEF Range
<1>3. Range(s \o <<e>>) = Range(s) \cup Range(<<e>>)
  BY <1>1, RangeConcatenation
<1> QED BY <1>1, <1>2, <1>3

\* When a sequence of calls is empty, and when it is not.
LEMMA EmptyFacts ==
    /\ \A s \in Seq(Pushes) : s = <<>> <=> Len(s) = 0
    /\ \A s \in Seq(Pushes), e \in Pushes : Append(s, e) # <<>>
    /\ \A s \in Seq(Pushes) : s # <<>> => (Tail(s) = <<>> <=> Len(s) = 1)
<1>1. \A s \in Seq(Pushes) : s = <<>> <=> Len(s) = 0
  BY EmptySeq
<1>2. \A s \in Seq(Pushes), e \in Pushes : Append(s, e) # <<>>
  BY AppendProperties
<1>3. ASSUME NEW s \in Seq(Pushes), s # <<>>
      PROVE  Tail(s) = <<>> <=> Len(s) = 1
  <2>1. Tail(s) \in Seq(Pushes) /\ Len(Tail(s)) = Len(s) - 1
    BY <1>3, HeadTailProperties
  <2>2. Len(s) \in Nat
    BY LenProperties
  <2> QED BY <1>1, <2>1, <2>2
<1> QED BY <1>1, <1>2, <1>3

LEMMA RangeEmpty == Range(<<>>) = {}
BY DEF Range

-----------------------------------------------------------------------------
(* The inductive invariant                                                 *)

LEMMA InitIInv == Init => IInv
<1> SUFFICES ASSUME Init PROVE IInv
  OBVIOUS
<1>1. Counted = {}
  BY DEF Init, Counted
<1>2. InFlightExact
  BY <1>1, FS_EmptySet DEF Init, InFlightExact
<1>3. WorkerInv
  BY CollectorAssumption DEF Init, WorkerInv, ShuttingDown, DrainStates, Flushing, PastDrain
<1>4. TypeOK
  <2>1. /\ inFlight \in 0..Cardinality(Pushes)
        /\ attempt \in 1..(Attempts + 1)
    BY CollectorAssumption, CountedFinite DEF Init
  <2> QED
    BY <2>1, EmptySeq DEF Init, TypeOK, PushStates, WorkerStates, LoopStates, DrainStates
<1> QED BY <1>2, <1>3, <1>4 DEF IInv

\* Every call step keeps the counter equal to the number of counted calls.
LEMMA PushKeepsCount ==
    ASSUME IInv, NEW p \in Pushes, Push(p)
    PROVE  InFlightExact'
<1> USE DEF IInv, TypeOK, InFlightExact
<1>1. IsFiniteSet(Counted) /\ Cardinality(Counted) \in Nat
  BY CountedFinite
<1>2. CASE PushEnter(p)
  <2>1. Counted' = Counted
    BY <1>2 DEF PushEnter, Goto, Counted
  <2> QED BY <1>2, <2>1 DEF PushEnter, control
<1>3. CASE PushRegister(p)
  <2>1. Counted' = Counted \cup {p} /\ p \notin Counted
    BY <1>3 DEF PushRegister, Goto, Counted
  <2> QED BY <1>1, <1>3, <2>1, FS_AddElement DEF PushRegister
<1>4. CASE PushRecheck(p)
  <2>1. Counted' = Counted
    BY <1>4 DEF PushRecheck, Goto, Counted
  <2> QED BY <1>4, <2>1 DEF PushRecheck, control
<1>5. CASE PushSend(p)
  <2>1. Counted' = Counted
    BY <1>5 DEF PushSend, Goto, Counted
  <2> QED BY <1>5, <2>1 DEF PushSend, control
<1>6. CASE PushFinish(p)
  <2>1. Counted' = Counted \ {p} /\ p \in Counted
    BY <1>6 DEF PushFinish, Goto, Counted
  <2> QED BY <1>1, <1>6, <2>1, FS_RemoveElement DEF PushFinish
<1>7. CASE PushWake(p)
  <2>1. Counted' = Counted
    BY <1>7 DEF PushWake, Goto, Counted
  <2> QED BY <1>7, <2>1 DEF PushWake
<1> QED BY <1>2, <1>3, <1>4, <1>5, <1>6, <1>7 DEF Push

\* The counter is bounded because the set it counts is.
LEMMA CountBounded == InFlightExact => inFlight \in 0..Cardinality(Pushes)
BY CountedFinite DEF InFlightExact

\* The typing of everything but the counter, action by action.
LEMMA TypeStep ==
    ASSUME IInv, [Next]_vars
    PROVE  TypeOK'
<1> USE CollectorAssumption DEF IInv, TypeOK, PushStates, WorkerStates, LoopStates, DrainStates
<1>1. ASSUME NEW p \in Pushes, Push(p)
      PROVE  TypeOK'
  <2>1. inFlight' \in 0..Cardinality(Pushes)
    <3>1. InFlightExact'
      BY <1>1, PushKeepsCount
    <3>2. /\ Cardinality(Counted') \in Nat
          /\ Cardinality(Counted') <= Cardinality(Pushes)
          /\ Cardinality(Pushes) \in Nat
      <4>1. Counted' \in SUBSET Pushes
        BY DEF Counted
      <4> QED BY <4>1, FS_Subset, FS_CardinalityType
    <3> QED BY <3>1, <3>2 DEF InFlightExact
  <2>2. pc' \in [Pushes -> PushStates]
    BY <1>1 DEF Push, PushEnter, PushRegister, PushRecheck, PushSend, PushFinish, PushWake, Goto
  <2>3. /\ chan' \in Seq(Pushes) /\ accepted' \in Seq(Pushes)
        /\ late' \subseteq Pushes
    <3>1. Append(chan, p) \in Seq(Pushes) /\ Append(accepted, p) \in Seq(Pushes)
      BY AppendProperties
    <3>2. CASE PushSend(p)
      BY <3>1, <3>2 DEF PushSend
    <3>3. CASE ~PushSend(p)
      BY <1>1, <3>3 DEF Push, PushEnter, PushRegister, PushRecheck, PushFinish, PushWake, history
    <3> QED BY <3>2, <3>3
  <2>4. woken' \in BOOLEAN /\ closed' \in BOOLEAN
    BY <1>1 DEF Push, PushEnter, PushRegister, PushRecheck, PushSend, PushFinish, PushWake,
                control, NotifyWaiters
  <2>5. UNCHANGED <<worker, rows, hook, flushed, gaveUp>>
    BY <1>1 DEF Push, PushEnter, PushRegister, PushRecheck, PushSend, PushFinish, PushWake, history
  <2> QED BY <2>1, <2>2, <2>3, <2>4, <2>5 DEF worker
<1>2. CASE HookClose \/ HookDrained \/ HookTimesOut
  BY <1>2 DEF HookClose, HookDrained, HookTimesOut, NotifyWaiters, control, worker, history
<1>3. CASE Arm \/ SelectShutdown \/ CheckEmpty \/ CheckInFlight \/ Backoff
  BY <1>3 DEF Arm, SelectShutdown, CheckEmpty, CheckInFlight, Backoff, WorkerGoto,
              control, history
<1>4. CASE SelectRecv \/ DrainRecv
  <2>1. /\ chan # <<>> /\ chan' = Tail(chan)
        /\ \/ StartFlush(Append(buf, Head(chan)), "loop")
           \/ StartFlush(Append(buf, Head(chan)), "drain")
           \/ KeepBuffering(Append(buf, Head(chan)), "loop")
           \/ KeepBuffering(Append(buf, Head(chan)), "drain")
    BY <1>4 DEF SelectRecv, DrainRecv, TakeRecord
  <2>2. /\ Head(chan) \in Pushes /\ Tail(chan) \in Seq(Pushes)
        /\ Append(buf, Head(chan)) \in Seq(Pushes)
    BY <2>1, HeadTailProperties, AppendProperties
  <2>3. UNCHANGED <<control, pc, rows, hook, history>>
    BY <1>4 DEF SelectRecv, DrainRecv
  <2>4. batch' \in Seq(Pushes) /\ buf' \in Seq(Pushes) /\ chan' \in Seq(Pushes)
    BY <2>1, <2>2, EmptySeq DEF StartFlush, KeepBuffering
  <2>5. wpc' \in WorkerStates /\ resume' \in {"loop", "drain", "check"}
    BY <2>1 DEF StartFlush, KeepBuffering
  <2>6. attempt' \in 1..(Attempts + 1)
    BY <2>1 DEF StartFlush, KeepBuffering
  <2> QED BY <2>3, <2>4, <2>5, <2>6 DEF control, history
<1>5. CASE SelectTick \/ DrainRest
  BY <1>5, EmptySeq DEF SelectTick, DrainRest, StartFlush, KeepBuffering, control, history
<1>6. CASE FlushBatch
  <2>1. CASE InsertManyOk
    BY <2>1, ConcatProperties, EmptySeq
       DEF InsertManyOk, WorkerGoto, Written, control
  <2>2. ASSUME NEW applied \in BOOLEAN, InsertManyFails(applied)
        PROVE  TypeOK'
    <3>1. attempt <= Attempts
      BY <2>2 DEF InsertManyFails, WorkerGoto, WorkerInv
    <3>2. rows' \in [Pushes -> Nat]
      BY <2>2 DEF InsertManyFails, Written
    <3> QED BY <2>2, <3>1, <3>2 DEF InsertManyFails, WorkerGoto, control, history
  <2>3. ASSUME NEW applied \in BOOLEAN, NEW reported \in BOOLEAN, InsertOne(applied, reported)
        PROVE  TypeOK'
    <3>1. batch # <<>>
      BY <2>3 DEF InsertOne, WorkerGoto, WorkerInv, Flushing
    <3>2. /\ Head(batch) \in Pushes /\ Tail(batch) \in Seq(Pushes)
          /\ Append(flushed, Head(batch)) \in Seq(Pushes)
      BY <3>1, HeadTailProperties, AppendProperties
    <3>3. rows' \in [Pushes -> Nat]
      BY <2>3 DEF InsertOne, Written
    <3>4. /\ wpc' \in WorkerStates /\ gaveUp' \subseteq Pushes
          /\ flushed' \in Seq(Pushes) /\ batch' \in Seq(Pushes)
      BY <2>3, <3>2 DEF InsertOne, WorkerGoto
    <3> QED BY <2>3, <3>3, <3>4 DEF InsertOne, control
  <2> QED BY <1>6, <2>1, <2>2, <2>3 DEF FlushBatch
<1>7. CASE UNCHANGED vars
  BY <1>7 DEF vars, control, worker, history
<1> QED BY <1>1, <1>2, <1>3, <1>4, <1>5, <1>6, <1>7 DEF Next, Worker, FlushLoop

LEMMA CountStep ==
    ASSUME IInv, [Next]_vars
    PROVE  InFlightExact'
<1>1. CASE \E p \in Pushes : Push(p)
  BY <1>1, PushKeepsCount
<1>2. CASE HookClose \/ HookDrained \/ HookTimesOut \/ Worker \/ UNCHANGED vars
  <2>1. UNCHANGED <<inFlight, pc>>
    BY <1>2 DEF HookClose, HookDrained, HookTimesOut, Worker, FlushLoop, FlushBatch,
       Arm, SelectShutdown, SelectRecv, SelectTick, DrainRecv, DrainRest, CheckEmpty,
       CheckInFlight, Backoff, InsertManyOk, InsertManyFails, InsertOne, control, vars
  <2> QED BY <2>1 DEF IInv, InFlightExact, Counted
<1> QED BY <1>1, <1>2 DEF Next

LEMMA WorkerStep ==
    ASSUME IInv, [Next]_vars
    PROVE  WorkerInv'
<1> USE DEF IInv, TypeOK, WorkerInv, ShuttingDown, DrainStates, Flushing, PastDrain
<1>1. ASSUME NEW p \in Pushes, Push(p)
      PROVE  WorkerInv'
  <2>1. CASE PushSend(p)
    <3>1. wpc # "exited"
      BY <2>1 DEF PushSend, Goto
    <3>2. CASE Takes
      <4>1. /\ Range(chan') = Range(chan) \cup {p}
            /\ late' = IF closed THEN late \cup {p} ELSE late
        BY <2>1, <3>2, RangeAppend, ZenonT(40) DEF PushSend
      <4> QED BY <2>1, <3>1, <4>1 DEF PushSend, control, worker
    <3>3. CASE ~Takes
      BY <2>1, <3>1, <3>3 DEF PushSend, control, worker
    <3> QED BY <3>2, <3>3
  <2>2. CASE PushRecheck(p)
    BY <2>2 DEF PushRecheck, Goto, control, worker, history
  <2>3. CASE PushEnter(p) \/ PushRegister(p) \/ PushFinish(p)
    BY <2>3, SMTT(30) DEF PushEnter, PushRegister, PushFinish, Goto, control, worker, history
  <2>4. CASE PushWake(p)
    BY <2>4 DEF PushWake, Goto, NotifyWaiters, worker, history
  <2> QED BY <1>1, <2>1, <2>2, <2>3, <2>4 DEF Push
<1>2. CASE HookClose \/ HookDrained \/ HookTimesOut
  BY <1>2 DEF HookClose, HookDrained, HookTimesOut, NotifyWaiters, control, worker, history
<1>3. CASE Arm \/ SelectShutdown \/ Backoff
  BY <1>3 DEF Arm, SelectShutdown, Backoff, WorkerGoto, control, history
<1>4. CASE CheckEmpty
  BY <1>4, RangeEmpty DEF CheckEmpty, WorkerGoto, control, history
<1>5. CASE CheckInFlight
  <2>1. inFlight = 0 => Counted = {}
    BY CountedFinite, FS_EmptySet DEF InFlightExact
  <2>2. inFlight = 0 => \A p \in Pushes : pc[p] # "send"
    BY <2>1 DEF Counted
  <2> QED BY <1>5, <2>2 DEF CheckInFlight, WorkerGoto, control, history
<1>6. CASE SelectRecv \/ DrainRecv
  <2>1. /\ wpc \in {"select", "drain"}
        /\ chan # <<>>
        /\ \/ StartFlush(Append(buf, Head(chan)), "loop") /\ wpc = "select"
           \/ StartFlush(Append(buf, Head(chan)), "drain") /\ wpc = "drain"
           \/ KeepBuffering(Append(buf, Head(chan)), "loop") /\ wpc = "select"
           \/ KeepBuffering(Append(buf, Head(chan)), "drain") /\ wpc = "drain"
    BY <1>6 DEF SelectRecv, DrainRecv, TakeRecord
  <2>2. Append(buf, Head(chan)) # <<>>
    <3>1. Head(chan) \in Pushes
      BY <2>1, HeadTailProperties
    <3> QED BY <3>1, EmptyFacts
  <2>3. UNCHANGED <<closed, woken, pc>>
    BY <1>6 DEF SelectRecv, DrainRecv, control
  <2>4. batch = <<>>
    BY <2>1
  <2>5. wpc' \in {"insertMany", "loop", "drain"} /\ ~(wpc' \in PastDrain \cup {"check"})
    BY <2>1 DEF StartFlush, KeepBuffering
  <2>6. wpc' \in Flushing <=> batch' # <<>>
    BY <2>1, <2>2, <2>4 DEF StartFlush, KeepBuffering
  <2>7. wpc' \in Flushing => buf' = <<>>
    BY <2>1 DEF StartFlush, KeepBuffering
  <2>8. wpc' = "insertMany" => attempt' <= Attempts
    BY <2>1, CollectorAssumption DEF StartFlush, KeepBuffering
  <2>9. wpc' \in DrainStates \/ resume' \in DrainStates => closed'
    BY <2>1, <2>3 DEF StartFlush, KeepBuffering
  <2>10. woken' => closed'
    BY <2>3
  <2> QED BY <2>5, <2>6, <2>7, <2>8, <2>9, <2>10
<1>7. CASE SelectTick \/ DrainRest
  BY <1>7, CollectorAssumption DEF SelectTick, DrainRest, StartFlush, KeepBuffering, control
<1>8. CASE FlushBatch
  <2>1. /\ wpc \in Flushing /\ resume \in {"loop", "drain", "check"}
        /\ buf = <<>> /\ batch # <<>> /\ UNCHANGED <<closed, woken, chan, pc, buf, resume, late>>
    BY <1>8 DEF FlushBatch, InsertManyOk, InsertManyFails, InsertOne, WorkerGoto, control, history
  <2>2. CASE InsertManyOk
    BY <2>1, <2>2 DEF InsertManyOk, WorkerGoto
  <2>3. ASSUME NEW applied \in BOOLEAN, InsertManyFails(applied)
        PROVE  WorkerInv'
    BY <2>1, <2>3, CollectorAssumption DEF InsertManyFails, WorkerGoto
  <2>4. ASSUME NEW applied \in BOOLEAN, NEW reported \in BOOLEAN, InsertOne(applied, reported)
        PROVE  WorkerInv'
    <3>1. Tail(batch) = <<>> <=> Len(batch) = 1
      BY <2>1, EmptyFacts
    <3> QED BY <2>1, <2>4, <3>1 DEF InsertOne, WorkerGoto
  <2> QED BY <1>8, <2>2, <2>3, <2>4 DEF FlushBatch
<1>9. CASE UNCHANGED vars
  BY <1>9 DEF vars, control, worker, history
<1> QED BY <1>1, <1>2, <1>3, <1>4, <1>5, <1>6, <1>7, <1>8, <1>9 DEF Next, Worker, FlushLoop

-----------------------------------------------------------------------------
(* The theorems                                                            *)

\* The inductive invariant holds in every reachable state of push, close,
\* flush_loop and flush_batch.
THEOREM Invariance == Spec => []IInv
<1>1. Init => IInv
  BY InitIInv
<1>2. IInv /\ [Next]_vars => IInv'
  BY TypeStep, CountStep, WorkerStep DEF IInv
<1> QED BY <1>1, <1>2, PTL DEF Spec

\* Every variable keeps its type; in particular in_flight_pushes never
\* underflows and never exceeds the number of calls.
THEOREM TypeCorrect == Spec => []TypeOK
<1>1. IInv => TypeOK
  BY DEF IInv
<1> QED BY <1>1, Invariance, PTL

\* in_flight_pushes counts exactly the calls between its two updates.
THEOREM CounterIsExact == Spec => []InFlightExact
<1>1. IInv => InFlightExact
  BY DEF IInv
<1> QED BY <1>1, Invariance, PTL

\* The flag, the counter and the re-check of push together make sure that no
\* call sends into a channel whose receiver flush_loop has dropped.
THEOREM NoLostSend == Spec => []NoSendAfterExit
<1>1. IInv => NoSendAfterExit
  BY DEF IInv, WorkerInv, NoSendAfterExit
<1> QED BY <1>1, Invariance, PTL

\* When flush_loop ends, every record accepted before close() has gone
\* through flush_batch.
THEOREM EarlyRecordsDrained == Spec => []ExitLeavesNothingEarly
<1>1. IInv => ExitLeavesNothingEarly
  BY DEF IInv, WorkerInv, ExitLeavesNothingEarly, Flushing, PastDrain
<1> QED BY <1>1, Invariance, PTL

-----------------------------------------------------------------------------
(* Conservation                                                            *)

\* Moving an element over the seam of a concatenation, and appending on the
\* right, the two ways a record travels.
LEMMA MoveHead ==
    ASSUME NEW S, NEW s \in Seq(S), NEW t \in Seq(S), t # <<>>
    PROVE  Append(s, Head(t)) \o Tail(t) = s \o t
<1>1. Head(t) \in S /\ Tail(t) \in Seq(S)
  BY HeadTailProperties
<1>2. /\ Append(s, Head(t)) = s \o <<Head(t)>>
      /\ <<Head(t)>> \in Seq(S)
  BY <1>1, AppendIsConcat
<1>3. <<Head(t)>> \o Tail(t) = t
  <2>1. Len(t) \in Nat \ {0} /\ Len(Tail(t)) = Len(t) - 1 /\ Head(t) = t[1]
    BY HeadTailProperties, EmptySeq
  <2> DEFINE u == <<Head(t)>> \o Tail(t)
  <2>2. /\ u \in Seq(S) /\ Len(u) = 1 + Len(Tail(t))
        /\ \A i \in 1..(1 + Len(Tail(t))) :
               u[i] = IF i <= 1 THEN <<Head(t)>>[i] ELSE Tail(t)[i - 1]
    BY <1>1, <1>2, ConcatProperties, Len(<<Head(t)>>) = 1
  <2>3. \A i \in 1..Len(t) : u[i] = t[i]
    <3>1. \A i \in 1..Len(Tail(t)) : Tail(t)[i] = t[i + 1]
      BY HeadTailProperties
    <3> QED BY <2>1, <2>2, <3>1
  <2>4. Len(u) = Len(t)
    BY <2>1, <2>2
  <2> HIDE DEF u
  <2>5. u = t
    BY <2>2, <2>3, <2>4, SeqEqual
  <2> QED BY <2>5 DEF u
<1>4. (s \o <<Head(t)>>) \o Tail(t) = s \o (<<Head(t)>> \o Tail(t))
  BY <1>1, <1>2, ConcatAssociative
<1> QED BY <1>2, <1>3, <1>4

LEMMA AppendRight ==
    \A s, t \in Seq(Pushes), e \in Pushes : Append(s \o t, e) = s \o Append(t, e)
<1> SUFFICES ASSUME NEW s \in Seq(Pushes), NEW t \in Seq(Pushes), NEW e \in Pushes
             PROVE  Append(s \o t, e) = s \o Append(t, e)
  OBVIOUS
<1>1. <<e>> \in Seq(Pushes) /\ s \o t \in Seq(Pushes)
  BY ConcatProperties
<1>2. Append(s \o t, e) = (s \o t) \o <<e>> /\ Append(t, e) = t \o <<e>>
  BY <1>1, AppendIsConcat
<1> QED BY <1>1, <1>2, ConcatAssociative

\* The worker's receive: a record goes from the channel to the buffer.
LEMMA TakeConserves ==
    ASSUME IInv, Conservation, chan # <<>>, batch = <<>>,
           chan' = Tail(chan), UNCHANGED <<accepted, flushed>>,
           \/ batch' = Append(buf, Head(chan)) /\ buf' = <<>>
           \/ batch' = <<>> /\ buf' = Append(buf, Head(chan))
    PROVE  Conservation'
<1> USE DEF IInv, TypeOK, Conservation
<1> DEFINE taken == Append(buf, Head(chan))
<1>1. taken \in Seq(Pushes) /\ Tail(chan) \in Seq(Pushes)
  <2>1. Head(chan) \in Pushes /\ Tail(chan) \in Seq(Pushes)
    BY HeadTailProperties
  <2> QED BY <2>1, AppendProperties
<1>2. flushed' \o batch' \o buf' = flushed \o taken
  <2>1. (flushed \o taken) \o <<>> = flushed \o taken
    BY <1>1, ConcatProperties, ConcatEmptySeq
  <2>2. flushed \o <<>> = flushed
    BY ConcatEmptySeq
  <2>3. \/ batch' = taken /\ buf' = <<>>
        \/ batch' = <<>> /\ buf' = taken
    BY DEF taken
  <2> HIDE DEF taken
  <2> QED BY <2>1, <2>2, <2>3, Zenon
<1>3. (flushed \o taken) \o Tail(chan) = flushed \o (taken \o Tail(chan))
  <2> HIDE DEF taken
  <2> DEFINE rest == Tail(chan)
  <2>1. flushed \in Seq(Pushes) /\ taken \in Seq(Pushes) /\ rest \in Seq(Pushes)
    BY <1>1
  <2> HIDE DEF rest
  <2>2. (flushed \o taken) \o rest = flushed \o (taken \o rest)
    BY ONLY <2>1, ConcatAssociative
  <2> QED BY <2>2 DEF rest
<1>4. taken \o Tail(chan) = buf \o chan
  BY MoveHead
<1>5. accepted = flushed \o (buf \o chan)
  <2>1. flushed \o batch = flushed
    BY ConcatEmptySeq
  <2>2. (flushed \o buf) \o chan = flushed \o (buf \o chan)
    <3>1. flushed \in Seq(Pushes) /\ buf \in Seq(Pushes) /\ chan \in Seq(Pushes)
      OBVIOUS
    <3> QED BY ONLY <3>1, ConcatAssociative
  <2>3. accepted = (flushed \o batch \o buf) \o chan
    OBVIOUS
  <2> QED BY ONLY <2>1, <2>2, <2>3, Zenon
<1>6. accepted' = accepted /\ chan' = Tail(chan)
  OBVIOUS
<1>7. accepted' = (flushed' \o batch' \o buf') \o chan'
  BY ONLY <1>2, <1>3, <1>4, <1>5, <1>6, Zenon
<1> QED BY ONLY <1>7, Zenon DEF Conservation

LEMMA ConservationStep ==
    ASSUME IInv, Conservation, [Next]_vars
    PROVE  Conservation'
<1> USE DEF IInv, TypeOK
<1>1. CASE \E p \in Pushes : PushSend(p) /\ Takes
  <2>1. PICK p \in Pushes : PushSend(p) /\ Takes
    BY <1>1
  <2>2. /\ chan' = Append(chan, p) /\ accepted' = Append(accepted, p)
        /\ UNCHANGED <<flushed, batch, buf>>
    BY <2>1 DEF PushSend, worker
  <2>3. flushed \o batch \o buf \in Seq(Pushes)
    BY ConcatProperties
  <2> DEFINE taken == flushed \o batch \o buf
  <2>4. Append(taken \o chan, p) = taken \o Append(chan, p)
    <3>1. taken \in Seq(Pushes) /\ chan \in Seq(Pushes) /\ p \in Pushes
      <4>1. p \in Pushes
        BY <2>1
      <4>2. taken \in Seq(Pushes)
        BY ONLY <2>3
      <4> QED BY <4>1, <4>2
    <3> HIDE DEF taken
    <3> QED BY ONLY <3>1, AppendRight, Zenon
  <2>5. accepted = taken \o chan
    BY DEF Conservation
  <2>6. accepted' = taken' \o chan'
    <3>1. taken' = taken
      BY <2>2
    <3>2. accepted' = Append(taken \o chan, p) /\ chan' = Append(chan, p)
      <4> HIDE DEF taken
      <4> QED BY ONLY <2>2, <2>5, Zenon
    <3> QED BY ONLY <2>4, <3>1, <3>2, Zenon
  <2> QED BY ONLY <2>6, Zenon DEF Conservation, taken
<1>2. CASE SelectRecv \/ DrainRecv
  <2>1. chan # <<>> /\ chan' = Tail(chan) /\ UNCHANGED <<accepted, flushed>>
    BY <1>2 DEF SelectRecv, DrainRecv, TakeRecord, history
  <2>2. batch = <<>>
    BY <1>2 DEF SelectRecv, DrainRecv, WorkerInv, Flushing
  <2>3. \/ batch' = Append(buf, Head(chan)) /\ buf' = <<>>
        \/ batch' = batch /\ buf' = Append(buf, Head(chan))
    BY <1>2 DEF SelectRecv, DrainRecv, TakeRecord, StartFlush, KeepBuffering
  <2> QED BY <2>1, <2>2, <2>3, TakeConserves
<1>3. CASE SelectTick \/ DrainRest
  <2>1. /\ UNCHANGED <<accepted, flushed, chan>> /\ batch = <<>>
        /\ \/ batch' = buf /\ buf' = <<>>
           \/ UNCHANGED <<batch, buf>>
    BY <1>3 DEF SelectTick, DrainRest, StartFlush, KeepBuffering, history, WorkerInv, Flushing
  <2>2. /\ flushed \o <<>> = flushed
        /\ (flushed \o buf) \o <<>> = flushed \o buf
    BY ConcatProperties, ConcatEmptySeq
  <2>3. flushed' \o batch' \o buf' = flushed \o batch \o buf
    BY ONLY <2>1, <2>2, Zenon
  <2> QED BY <2>1, <2>3 DEF Conservation
<1>4. CASE InsertManyOk
  <2>1. /\ UNCHANGED <<accepted, chan, buf>>
        /\ flushed' = flushed \o batch /\ batch' = <<>>
    BY <1>4 DEF InsertManyOk
  <2>2. (flushed \o batch) \o <<>> = flushed \o batch
    BY ConcatProperties, ConcatEmptySeq
  <2> QED BY <2>1, <2>2 DEF Conservation
<1>5. CASE \E applied, reported \in BOOLEAN : InsertOne(applied, reported)
  <2>1. /\ UNCHANGED <<accepted, chan, buf>> /\ batch # <<>>
        /\ flushed' = Append(flushed, Head(batch)) /\ batch' = Tail(batch)
    BY <1>5 DEF InsertOne, WorkerGoto, WorkerInv, Flushing
  <2>2. Append(flushed, Head(batch)) \o Tail(batch) = flushed \o batch
    BY <2>1, MoveHead
  <2> QED BY <2>1, <2>2 DEF Conservation
<1>6. CASE UNCHANGED <<accepted, flushed, batch, buf, chan>>
  BY <1>6 DEF Conservation
<1>7. \/ \E p \in Pushes : PushSend(p) /\ Takes
      \/ SelectRecv \/ DrainRecv \/ SelectTick \/ DrainRest \/ InsertManyOk
      \/ \E applied, reported \in BOOLEAN : InsertOne(applied, reported)
      \/ UNCHANGED <<accepted, flushed, batch, buf, chan>>
  BY DEF Next, Push, PushEnter, PushRegister, PushRecheck, PushSend, PushFinish, PushWake,
     HookClose, HookDrained, HookTimesOut, Worker, FlushLoop, FlushBatch, Arm, SelectShutdown,
     CheckEmpty, CheckInFlight, Backoff, InsertManyFails, worker, history, vars
<1> QED BY <1>1, <1>2, <1>3, <1>4, <1>5, <1>6, <1>7

\* Through channel, buffer and batch, and on every path of flush_batch, no
\* accepted record is lost, duplicated or overtaken.
THEOREM RecordsConserved == Spec => []Conservation
<1>1. Init => Conservation
  BY ConcatEmptySeq, EmptySeq DEF Init, Conservation
<1>2. IInv /\ Conservation /\ [Next]_vars => Conservation'
  BY ConservationStep
<1> QED BY <1>1, <1>2, Invariance, PTL DEF Spec

\* No INSERT carries more than batch_size records, whatever batch_size is: the
\* buffer stays one short of it between two receives.
BufferBelow == Len(buf) < BatchSize \/ buf = <<>>

LEMMA BoundStep ==
    ASSUME IInv, BatchBounded, BufferBelow, [Next]_vars
    PROVE  BatchBounded' /\ BufferBelow'
<1> USE CollectorAssumption DEF IInv, TypeOK, BatchBounded, BufferBelow
<1>1. CASE SelectRecv \/ DrainRecv
  <2> DEFINE records == Append(buf, Head(chan))
  <2>1. /\ chan # <<>>
        /\ \/ Len(records) >= BatchSize /\ batch' = records /\ buf' = <<>>
           \/ Len(records) < BatchSize /\ buf' = records /\ batch' = batch
    <3>1. Len(records) \in Nat
      BY <1>1, HeadTailProperties, AppendProperties DEF SelectRecv, DrainRecv, TakeRecord
    <3> QED
      BY <1>1, <3>1, SMTT(30) DEF SelectRecv, DrainRecv, TakeRecord, StartFlush, KeepBuffering
  <2>2. Len(records) = Len(buf) + 1 /\ Len(buf) \in Nat
    BY <2>1, HeadTailProperties, AppendProperties
  <2>3. buf = <<>> => Len(buf) = 0
    OBVIOUS
  <2> HIDE DEF records
  <2> QED BY <2>1, <2>2, <2>3
<1>2. CASE SelectTick \/ DrainRest
  <2>1. \/ batch' = buf /\ buf' = <<>>
        \/ UNCHANGED <<batch, buf>>
    BY <1>2 DEF SelectTick, DrainRest, StartFlush, KeepBuffering
  <2>2. Len(buf) \in Nat /\ (buf = <<>> => Len(buf) = 0)
    BY EmptySeq, LenProperties
  <2> QED BY <2>1, <2>2
<1>3. CASE InsertManyOk
  BY <1>3 DEF InsertManyOk
<1>4. CASE \E applied, reported \in BOOLEAN : InsertOne(applied, reported)
  <2>1. batch # <<>> /\ batch' = Tail(batch) /\ buf' = buf
    BY <1>4 DEF InsertOne, WorkerGoto, WorkerInv, Flushing
  <2>2. Len(batch') = Len(batch) - 1 /\ Len(batch) \in Nat
    BY <2>1, HeadTailProperties, LenProperties
  <2> QED BY <2>1, <2>2, SMTT(30)
<1>5. CASE UNCHANGED <<batch, buf>>
  BY <1>5
<1>6. \/ SelectRecv \/ DrainRecv \/ SelectTick \/ DrainRest \/ InsertManyOk
      \/ \E applied, reported \in BOOLEAN : InsertOne(applied, reported)
      \/ UNCHANGED <<batch, buf>>
  BY DEF Next, Push, PushEnter, PushRegister, PushRecheck, PushSend, PushFinish, PushWake,
     HookClose, HookDrained, HookTimesOut, Worker, FlushLoop, FlushBatch, Arm, SelectShutdown,
     CheckEmpty, CheckInFlight, Backoff, InsertManyFails, worker, vars
<1> QED BY <1>1, <1>2, <1>3, <1>4, <1>5, <1>6

\* flush_loop never hands flush_batch more than batch_size records.
THEOREM BatchesBounded == Spec => []BatchBounded
<1>1. Init => BatchBounded /\ BufferBelow
  BY CollectorAssumption, EmptySeq DEF Init, BatchBounded, BufferBelow
<1>2. IInv /\ BatchBounded /\ BufferBelow /\ [Next]_vars => BatchBounded' /\ BufferBelow'
  BY BoundStep
<1> QED BY <1>1, <1>2, Invariance, PTL DEF Spec

\* flush_batch lets go of a record only when its row is written or the error
\* of its single insert has been logged.
THEOREM NothingDroppedSilently == Spec => []FlushedIsWrittenOrReported
<1> DEFINE P == FlushedIsWrittenOrReported
<1>1. Init => P
  BY RangeEmpty DEF Init, FlushedIsWrittenOrReported
<1>2. ASSUME IInv, P, [Next]_vars
      PROVE  P'
  <2> USE <1>2 DEF IInv, TypeOK, FlushedIsWrittenOrReported
  <2>1. Range(flushed) \subseteq Pushes
    BY RangeOfSeq
  <2>2. CASE InsertManyOk
    <3>1. Range(flushed') = Range(flushed) \cup Range(batch) /\ gaveUp' = gaveUp
      BY <2>2, RangeConcatenation DEF InsertManyOk
    <3>2. /\ rows' = [p \in Pushes |-> rows[p] + (IF p \in Range(batch) THEN 1 ELSE 0)]
          /\ Range(batch) \subseteq Pushes
      BY <2>2, RangeOfSeq DEF InsertManyOk, Written
    <3> QED BY <2>1, <3>1, <3>2
  <2>3. ASSUME NEW applied \in BOOLEAN, InsertManyFails(applied)
        PROVE  P'
    <3>1. /\ UNCHANGED <<flushed, gaveUp>>
          /\ \/ rows' = rows
             \/ rows' = [p \in Pushes |-> rows[p] + (IF p \in Range(batch) THEN 1 ELSE 0)]
      BY <2>3 DEF InsertManyFails, Written, history
    <3>2. ASSUME NEW p \in Pushes
          PROVE  rows[p] \in Nat /\ rows'[p] \in Nat /\ rows'[p] >= rows[p]
      <4>1. rows[p] \in Nat
        BY <1>2
      <4>2. rows'[p] = rows[p] \/ rows'[p] = rows[p] + 1 \/ rows'[p] = rows[p] + 0
        BY ONLY <3>1
      <4> QED BY ONLY <4>1, <4>2
    <3> QED BY <2>1, <3>1, <3>2
  <2>4. ASSUME NEW applied \in BOOLEAN, NEW reported \in BOOLEAN, InsertOne(applied, reported)
        PROVE  P'
    <3>1. batch # <<>>
      BY <2>4 DEF InsertOne, WorkerGoto, WorkerInv, Flushing
    <3>2. Head(batch) \in Pushes
      BY <3>1, HeadTailProperties
    <3>3. Range(flushed') = Range(flushed) \cup {Head(batch)}
      BY <2>4, <3>2, RangeAppend DEF InsertOne
    <3>4. Range(<<Head(batch)>>) = {Head(batch)}
      BY DEF Range
    <3>5. CASE applied
      <4>1. /\ rows' = [p \in Pushes |-> rows[p] + (IF p \in {Head(batch)} THEN 1 ELSE 0)]
            /\ gaveUp \subseteq gaveUp'
        BY <2>4, <3>4, <3>5 DEF InsertOne, Written
      <4> QED BY <2>1, <3>2, <3>3, <4>1
    <3>6. CASE ~applied
      <4>1. rows' = rows /\ gaveUp' = gaveUp \cup {Head(batch)}
        BY ONLY <2>4, <3>6 DEF InsertOne
      <4>2. \A p \in Range(flushed) : rows'[p] > 0 \/ p \in gaveUp'
        BY <4>1
      <4>3. Head(batch) \in gaveUp'
        BY <4>1
      <4> QED BY <3>3, <4>2, <4>3
    <3> QED BY <3>5, <3>6
  <2>5. CASE UNCHANGED <<flushed, rows, gaveUp>>
    BY <2>5
  <2>6. \/ FlushBatch \/ UNCHANGED <<flushed, rows, gaveUp>>
    BY DEF Next, Push, PushEnter, PushRegister, PushRecheck, PushSend, PushFinish, PushWake,
       HookClose, HookDrained, HookTimesOut, Worker, FlushLoop, Arm, SelectShutdown, SelectRecv,
       SelectTick, DrainRecv, DrainRest, CheckEmpty, CheckInFlight, Backoff, history, vars
  <2> QED BY <2>2, <2>3, <2>4, <2>5, <2>6 DEF FlushBatch
<1> QED BY <1>1, <1>2, Invariance, PTL DEF Spec
-----------------------------------------------------------------------------
(* Refinement                                                              *)

Queue == batch \o buf \o chan

\* What the abstract queue starts with while the worker flushes.
LEMMA QueueFront ==
    ASSUME TypeOK, batch # <<>>
    PROVE  /\ Queue \in Seq(Pushes) /\ Len(batch) \in 1 .. Len(Queue)
           /\ SubSeq(Queue, 1, Len(batch)) = batch
           /\ SubSeq(Queue, Len(batch) + 1, Len(Queue)) = buf \o chan
           /\ Queue # <<>> /\ Head(Queue) = Head(batch)
           /\ Tail(Queue) = Tail(batch) \o buf \o chan
<1> DEFINE rest == buf \o chan
<1>1. batch \in Seq(Pushes) /\ buf \in Seq(Pushes) /\ chan \in Seq(Pushes) /\ rest \in Seq(Pushes)
    BY ConcatProperties DEF TypeOK
<1>2. Queue = batch \o rest
    BY <1>1, ConcatAssociative DEF Queue
<1> HIDE DEF rest
<1>3. Len(batch) \in Nat \ {0} /\ Len(rest) \in Nat
    BY <1>1, EmptySeq, LenProperties
<1>4. Queue \in Seq(Pushes) /\ Len(Queue) = Len(batch) + Len(rest)
    BY <1>1, <1>2, ConcatProperties
<1>5. SubSeq(Queue, 1, Len(batch)) = batch
    BY <1>1, <1>2, <1>3, SubSeqOfConcat1, SubSeqFull
<1>6. SubSeq(Queue, Len(batch) + 1, Len(Queue)) = rest
    BY <1>1, <1>2, <1>3, <1>4, SubSeqOfConcat2, SubSeqFull
<1>7. Queue # <<>> /\ Head(Queue) = Head(batch)
    <2>1. Queue[1] = batch[1]
        BY <1>1, <1>2, <1>3, ConcatProperties
    <2> QED
        BY <1>1, <1>3, <1>4, <2>1, EmptySeq, HeadTailProperties
<1>8. Tail(Queue) = Tail(batch) \o rest
    <2>1. Tail(batch) \in Seq(Pushes) /\ Len(Tail(batch)) = Len(batch) - 1
            /\ \A i \in 1 .. Len(Tail(batch)) : Tail(batch)[i] = batch[i + 1]
        BY <1>1, HeadTailProperties
    <2>2. Tail(Queue) \in Seq(Pushes) /\ Len(Tail(Queue)) = Len(Queue) - 1
            /\ \A i \in 1 .. Len(Tail(Queue)) : Tail(Queue)[i] = Queue[i + 1]
        BY <1>4, <1>7, HeadTailProperties
    <2>3. Tail(batch) \o rest \in Seq(Pushes)
            /\ Len(Tail(batch) \o rest) = Len(Tail(batch)) + Len(rest)
            /\ \A i \in 1 .. Len(Tail(batch)) + Len(rest) : (Tail(batch) \o rest)[i] =
                 IF i <= Len(Tail(batch)) THEN Tail(batch)[i] ELSE rest[i - Len(Tail(batch))]
        BY <1>1, <2>1, ConcatProperties
    <2>4. \A i \in 1 .. Len(batch) + Len(rest) :
            Queue[i] = IF i <= Len(batch) THEN batch[i] ELSE rest[i - Len(batch)]
        BY <1>1, <1>2, ConcatProperties
    <2>5. ASSUME NEW i \in 1 .. Len(Tail(Queue)) PROVE Tail(Queue)[i] = (Tail(batch) \o rest)[i]
        BY <1>3, <1>4, <2>1, <2>2, <2>3, <2>4
    <2>6. Len(Tail(Queue)) = Len(Tail(batch) \o rest)
        BY <1>3, <1>4, <2>1, <2>2, <2>3
    <2> HIDE DEF Queue
    <2> QED
        BY <2>2, <2>3, <2>5, <2>6, SeqEqual
<1>9. Tail(batch) \o buf \o chan = Tail(batch) \o rest
    <2>1. Tail(batch) \in Seq(Pushes)
        BY <1>1, <1>3, HeadTailProperties, EmptySeq
    <2> QED
        BY <1>1, <2>1, ConcatAssociative DEF rest
<1>10. Len(batch) \in 1 .. Len(Queue)
    BY <1>3, <1>4
<1> QED
    BY <1>4, <1>5, <1>6, <1>7, <1>8, <1>9, <1>10, Zenon DEF rest

\* The moves of records between channel, buffer and batch do not show.
LEMMA HiddenMoves ==
    ASSUME IInv, SelectRecv \/ DrainRecv \/ SelectTick \/ DrainRest
    PROVE  Queue' = Queue
<1> USE DEF IInv, TypeOK
<1>1. batch = <<>>
    BY DEF SelectRecv, DrainRecv, SelectTick, DrainRest, WorkerInv, Flushing
<1>2. <<>> \o buf = buf
    BY ConcatEmptySeq
<1>3. CASE SelectTick \/ DrainRest
    <2>1. chan' = chan /\ ((batch' = buf /\ buf' = <<>>) \/ UNCHANGED <<batch, buf>>)
        BY <1>3 DEF SelectTick, DrainRest, StartFlush, KeepBuffering
    <2>2. buf \o <<>> = buf
        BY ConcatEmptySeq
    <2> QED
        BY <1>1, <1>2, <2>1, <2>2, Zenon DEF Queue
<1>4. CASE SelectRecv \/ DrainRecv
    <2> DEFINE taken == Append(buf, Head(chan))
    <2>0. chan # <<>> /\ chan' = Tail(chan)
        BY <1>4 DEF SelectRecv, DrainRecv, TakeRecord
    <2>1. \/ batch' = Append(buf, Head(chan)) /\ buf' = <<>>
          \/ batch' = batch /\ buf' = Append(buf, Head(chan))
        BY <1>4 DEF SelectRecv, DrainRecv, TakeRecord, StartFlush, KeepBuffering
    <2>2. taken \in Seq(Pushes)
        BY <2>0, HeadTailProperties, AppendProperties
    <2>3. taken \o Tail(chan) = buf \o chan
        BY <2>0, MoveHead
    <2>6. \/ batch' = taken /\ buf' = <<>>
          \/ batch' = batch /\ buf' = taken
        BY <2>1, Zenon
    <2> HIDE DEF taken
    <2>4. taken \o <<>> = taken /\ <<>> \o taken = taken
        BY <2>2, ConcatEmptySeq
    <2>5. batch' \o buf' = taken
        BY <1>1, <2>6, <2>4, Zenon
    <2> QED
        BY <1>1, <1>2, <2>0, <2>3, <2>5, Zenon DEF Queue
<1> QED
    BY <1>3, <1>4

LEMMA RefinementStep ==
    ASSUME IInv, BatchBounded, [Next]_vars
    PROVE  [Sink!Next]_(Sink!vars)
<1> USE DEF Sink!vars, Queue
<1>1. CASE \E p \in Pushes : PushSend(p) /\ Takes
    <2>1. PICK p \in Pushes : PushSend(p) /\ Takes
        BY <1>1
    <2>2. wpc # "exited" /\ UNCHANGED <<batch, buf, wpc, flushed, gaveUp, rows, closed>>
            /\ chan' = Append(chan, p)
            /\ late' = IF closed THEN late \cup {p} ELSE late
        BY <2>1 DEF PushSend, Takes, worker, control
    <2>3. batch \o buf \in Seq(Pushes) /\ chan \in Seq(Pushes)
        BY ConcatProperties DEF IInv, TypeOK
    <2>4. Append(batch \o buf \o chan, p) = batch \o buf \o Append(chan, p)
        BY <2>3, AppendRight
    <2>5. (batch \o buf \o chan)' = Append(batch \o buf \o chan, p)
        BY <2>2, <2>4
    <2>6. Sink!Take(p)
        BY <2>2, <2>5 DEF Sink!Take
    <2> QED
        BY <2>6 DEF Sink!Next
<1>2. CASE HookClose
    <2>1. Sink!Close
        BY <1>2 DEF HookClose, Sink!Close, worker, history
    <2> QED
        BY <2>1 DEF Sink!Next
<1>3. CASE SelectRecv \/ DrainRecv \/ SelectTick \/ DrainRest
    <2>1. Queue' = Queue
        BY <1>3, HiddenMoves
    <2>2. /\ UNCHANGED <<flushed, rows, gaveUp, closed, late>>
          /\ wpc # "exited" /\ wpc' # "exited"
        BY <1>3 DEF SelectRecv, DrainRecv, SelectTick, DrainRest, TakeRecord, StartFlush,
                    KeepBuffering, control, history
    <2> QED
        BY <2>1, <2>2
<1>4. ASSUME batch # <<>>
      PROVE  /\ Sink!First(Len(batch)) = batch /\ Sink!Rest(Len(batch)) = buf \o chan
             /\ Len(batch) \in 1 .. Len(Queue)
             /\ Len(batch) <= BatchSize \/ Len(batch) = 1
    BY <1>4, QueueFront, CollectorAssumption, SMTT(30)
       DEF Sink!First, Sink!Rest, IInv, BatchBounded
<1>5. CASE InsertManyOk
    <2>1. batch # <<>> /\ wpc # "exited"
        BY <1>5 DEF InsertManyOk, WorkerGoto, IInv, WorkerInv, Flushing
    <2>2. (wpc = "exited")' = FALSE
        BY <1>5 DEF InsertManyOk, WorkerGoto, IInv, TypeOK
    <2>3. /\ rows' = Written(batch) /\ flushed' = flushed \o batch /\ batch' = <<>>
          /\ UNCHANGED <<buf, chan, gaveUp, closed, late>>
        BY <1>5 DEF InsertManyOk, control
    <2>4. Queue' = buf \o chan
        BY <2>3, ConcatEmptySeq DEF IInv, TypeOK
    <2>5. Sink!Write(batch)
        BY <2>3 DEF Sink!Write, Written, Sink!Range, Range
    <2>6. Sink!Insert(Len(batch), TRUE)
        BY <1>4, <2>1, <2>2, <2>3, <2>4, <2>5 DEF Sink!Insert
    <2> QED
        BY <1>4, <2>1, <2>6 DEF Sink!Next
<1>6. ASSUME NEW applied \in BOOLEAN, InsertManyFails(applied)
      PROVE  [Sink!Next]_(Sink!vars)
    <2>1. batch # <<>> /\ wpc # "exited" /\ wpc' # "exited"
        BY <1>6 DEF InsertManyFails, WorkerGoto, IInv, WorkerInv, Flushing
    <2>2. UNCHANGED <<batch, buf, chan, flushed, gaveUp, closed, late>>
            /\ rows' = IF applied THEN Written(batch) ELSE rows
        BY <1>6 DEF InsertManyFails, control, history
    <2>3. CASE applied
        <3>1. Sink!Write(batch)
            BY <2>2, <2>3 DEF Sink!Write, Written, Sink!Range, Range
        <3>2. Sink!Insert(Len(batch), FALSE)
            BY <1>4, <2>1, <2>2, <3>1 DEF Sink!Insert
        <3> QED
            BY <1>4, <2>1, <3>2 DEF Sink!Next
    <2>4. CASE ~applied
        BY <2>1, <2>2, <2>4
    <2> QED
        BY <2>3, <2>4
<1>7. ASSUME NEW applied \in BOOLEAN, NEW reported \in BOOLEAN, InsertOne(applied, reported)
      PROVE  [Sink!Next]_(Sink!vars)
    <2>1. batch # <<>> /\ wpc # "exited"
        BY <1>7 DEF InsertOne, WorkerGoto, IInv, WorkerInv, Flushing
    <2>2. (wpc = "exited")' = FALSE
        BY <1>7 DEF InsertOne, WorkerGoto, IInv, TypeOK
    <2>3. /\ applied \/ reported
          /\ rows' = IF applied THEN Written(<<Head(batch)>>) ELSE rows
          /\ gaveUp' = IF reported THEN gaveUp \cup {Head(batch)} ELSE gaveUp
          /\ flushed' = Append(flushed, Head(batch)) /\ batch' = Tail(batch)
          /\ UNCHANGED <<buf, chan, closed, late>>
        BY <1>7 DEF InsertOne, control
    <2>4. /\ batch \o buf \o chan # <<>> /\ Head(batch \o buf \o chan) = Head(batch)
          /\ Tail(batch \o buf \o chan) = Tail(batch) \o buf \o chan
        BY <2>1, QueueFront DEF IInv
    <2>5. (batch \o buf \o chan)' = Tail(batch \o buf \o chan)
        BY <2>3, <2>4
    <2>6. applied => Sink!Write(<<Head(batch \o buf \o chan)>>)
        BY <2>3, <2>4 DEF Sink!Write, Written, Sink!Range, Range
    <2>7. Sink!InsertOne(applied, reported)
        BY <2>1, <2>2, <2>3, <2>4, <2>5, <2>6 DEF Sink!InsertOne
    <2> QED
        BY <2>7 DEF Sink!Next
<1>8. CASE CheckInFlight
    <2>1. buf = <<>> /\ batch = <<>> /\ Range(chan) \subseteq late
        BY <1>8 DEF CheckInFlight, WorkerGoto, IInv, WorkerInv, PastDrain, Flushing
    <2>2. batch \o buf \o chan = chan
        BY <2>1, ConcatEmptySeq, EmptySeq DEF IInv, TypeOK
    <2>3. UNCHANGED <<batch, buf, chan, flushed, rows, gaveUp, closed, late>>
            /\ wpc = "checkInFlight"
        BY <1>8 DEF CheckInFlight, WorkerGoto, control, history
    <2>4. CASE wpc' = "exited"
        <3>1. Sink!Stop
            BY <2>1, <2>2, <2>3, <2>4 DEF Sink!Stop, Sink!Range, Range
        <3> QED
            BY <3>1 DEF Sink!Next
    <2>5. CASE wpc' # "exited"
        BY <2>3, <2>5
    <2> QED
        BY <2>4, <2>5
<1>9. CASE /\ UNCHANGED <<batch, buf, chan, flushed, rows, gaveUp, closed, late>>
           /\ (wpc = "exited")' = (wpc = "exited")
    BY <1>9
<1>10. \/ \E p \in Pushes : PushSend(p) /\ Takes
       \/ HookClose
       \/ SelectRecv \/ DrainRecv \/ SelectTick \/ DrainRest
       \/ InsertManyOk
       \/ \E applied \in BOOLEAN : InsertManyFails(applied)
       \/ \E applied, reported \in BOOLEAN : InsertOne(applied, reported)
       \/ CheckInFlight
       \/ /\ UNCHANGED <<batch, buf, chan, flushed, rows, gaveUp, closed, late>>
          /\ (wpc = "exited")' = (wpc = "exited")
    BY DEF Next, Push, PushEnter, PushRegister, PushRecheck, PushSend, PushFinish, PushWake,
       HookDrained, HookTimesOut, Worker, FlushLoop, FlushBatch, Arm, SelectShutdown,
       CheckEmpty, Backoff, WorkerGoto, control, worker, history, vars
<1> QED
    BY <1>1, <1>2, <1>3, <1>5, <1>6, <1>7, <1>8, <1>9, <1>10

\* The collector implements the abstract log sink, for any number of calls and
\* any capacity, batch size and number of attempts.
THEOREM CollectorImplementsSink == Spec => ImplementsLogSink
<1>1. Init => Sink!Init
    BY ConcatEmptySeq, EmptySeq DEF Init, Sink!Init
<1>2. IInv /\ BatchBounded /\ [Next]_vars => [Sink!Next]_(Sink!vars)
    BY RefinementStep
<1> QED
    BY <1>1, <1>2, Invariance, BatchesBounded, PTL DEF Spec, ImplementsLogSink, Sink!Spec
=============================================================================
