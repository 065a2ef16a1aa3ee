----------------------------- MODULE RateWindows -----------------------------
(***************************************************************************)
(* The algorithms of the rate limiter that do not pay by cost              *)
(* (summer-common/src/rate_limit): fixed window, sliding window and the    *)
(* scheduled slot of LeakyBucket and ThrottleQueue, in memory and in the   *)
(* Lua scripts of Redis. Gcra models the others.                           *)
(*                                                                         *)
(* A call reads the clock and decides later, under the lock, in the        *)
(* compare-and-swap or in the script, so that calls decide with readings   *)
(* in any order. The compare-and-swap loop ends in one swap, its failed    *)
(* rounds change nothing. Redis keys live longer than a call takes: their  *)
(* expiry is left out.                                                     *)
(*                                                                         *)
(* Bounds: one key; every call of Checks is made once; the clock stops at  *)
(* LastTime.                                                               *)
(***************************************************************************)
EXTENDS Integers, FiniteSets

CONSTANTS Checks,
          Window, Limit,       \* window_millis, window_limit
          Interval, MaxWait,   \* emission_interval_millis, max_wait_ms
          LastTime

ASSUME WindowsAssumption ==
    /\ Window \in Nat \ {0} /\ Limit \in Nat \ {0}
    /\ IsFiniteSet(Checks)
    /\ Interval \in Nat \ {0} /\ MaxWait \in Nat /\ LastTime \in Nat

VARIABLES
    algorithm,  \* and
    backend,    \* as configured
    clock,
    stage,      \* where a call stands
    reading,    \* the clock it read
    grant,      \* the time it may go on, None when it may not
    until,      \* the time a rejected call is told to come back
    counting,   \* fixed window: the window the memory counts in,
    count,      \*   and the count of each window
    log,        \* sliding window: the calls let through whose reading is kept,
    place,      \*   and where the memory appended them
    next,       \* scheduled slot: next_available, None before the first call
    \* history
    late,       \* calls that decided after one with a later reading
    returns,    \* how often the memory went back to an earlier window
    since       \* the number of grants when a call was rejected

config  == <<algorithm, backend>>
calls   == <<stage, reading, grant, until>>
state   == <<counting, count, log, place, next>>
windowHistory == <<late, returns, since>>
windowVars    == <<config, clock, calls, state, windowHistory>>

None       == -1
Times      == 0 .. LastTime
Algorithms == {"fixed", "sliding", "leaky", "throttle"}
Id(t)      == t \div Window
Ids        == 0 .. Id(LastTime)
Granted    == {c \in Checks : grant[c] # None}
Decided    == {c \in Checks : stage[c] = "decided"}

WindowsInit ==
    /\ algorithm \in Algorithms /\ backend \in {"memory", "redis"}
    /\ clock = 0
    /\ stage = [c \in Checks |-> "idle"]
    /\ reading = [c \in Checks |-> None]
    /\ grant = [c \in Checks |-> None]
    /\ until = [c \in Checks |-> None]
    /\ counting = None
    /\ count = [w \in Ids |-> 0]
    /\ log = {} /\ place = [c \in Checks |-> 0]
    /\ next = None
    /\ late = {} /\ returns = 0
    /\ since = [c \in Checks |-> 0]

Advance ==
    /\ clock < LastTime
    /\ clock' = clock + 1
    /\ UNCHANGED <<config, calls, state, windowHistory>>

ReadClock(c) ==
    /\ stage[c] = "idle"
    /\ stage' = [stage EXCEPT ![c] = "read"]
    /\ reading' = [reading EXCEPT ![c] = clock]
    /\ UNCHANGED <<config, clock, grant, until, state, windowHistory>>

\* The history of a decision.
Remember(c) ==
    /\ late' = IF \E d \in Decided : reading[d] > reading[c] THEN late \cup {c} ELSE late
    /\ stage' = [stage EXCEPT ![c] = "decided"]

Allow(c, t) ==
    /\ grant' = [grant EXCEPT ![c] = t]
    /\ UNCHANGED <<until, since>>

Reject(c, t) ==
    /\ until' = [until EXCEPT ![c] = t]
    /\ since' = [since EXCEPT ![c] = Cardinality(Granted)]
    /\ UNCHANGED grant

\* What a window has counted: the memory keeps one window and forgets it when
\* it is asked about another, the script has a key for each.
Counted(w) == IF backend = "memory" /\ w # counting THEN 0 ELSE count[w]

\* Mutant: the count is compared after the wrong fashion.
Full_OffByOne(w) == Counted(w) > Limit

Full(w) == Counted(w) >= Limit

NewCount(w) == [count EXCEPT ![w] = Counted(w) + 1]

\* check_memory_fixed_window and the script: the script counts what it
\* rejects as well.
FixedWindow(c) ==
    LET w == Id(reading[c])
    IN  /\ algorithm = "fixed"
        /\ counting' = w
        /\ returns' = IF backend = "memory" /\ w < counting THEN returns + 1 ELSE returns
        /\ \/ ~ Full(w) /\ Allow(c, reading[c]) /\ count' = NewCount(w)
           \/ /\ Full(w) /\ Reject(c, (w + 1) * Window)
              /\ count' = IF backend = "redis" THEN NewCount(w) ELSE count
        /\ UNCHANGED <<log, place, next>>

\* The deque has its entries as they came, the sorted set by their time.
Before(c, d) == IF backend = "memory" THEN place[c] <= place[d] ELSE reading[c] <= reading[d]

\* Mutant: an entry that leaves the window at this moment stays.
Live_Strict(cutoff) == {c \in log : \E d \in log : Before(d, c) /\ reading[d] >= cutoff}

\* Mutant: entries go before they have left the window.
Live_Early(cutoff) == {c \in log : \E d \in log : Before(d, c) /\ reading[d] > cutoff + 1}

\* Entries are dropped from the front up to one that is after cutoff.
Live(cutoff) == {c \in log : \E d \in log : Before(d, c) /\ reading[d] > cutoff}

\* Kept at the end of the deque, or in the set under a member of its own.
Add(c, live) == /\ log' = live \cup {c}
                /\ place' = [place EXCEPT ![c] = Cardinality(Granted)]

SlidingWindow(c) ==
    LET live == Live(reading[c] - Window)
    IN  /\ algorithm = "sliding"
        /\ \/ Cardinality(live) < Limit /\ Allow(c, reading[c]) /\ Add(c, live)
           \/ /\ Cardinality(live) >= Limit /\ log' = live /\ UNCHANGED place
              /\ \E first \in live :
                    LET free == reading[first] + Window
                    IN  /\ \A d \in live : Before(first, d)
                        /\ Reject(c, IF free < reading[c] THEN reading[c] ELSE free)
        /\ UNCHANGED <<counting, count, next, returns>>

\* LeakyBucket does not wait.
Wait == IF algorithm = "leaky" THEN 0 ELSE MaxWait

\* Mutant: the next slot counts from the call, not from its slot.
NextSlot_FromCall(c, slot) == reading[c] + Interval

NextSlot(c, slot) == slot + Interval

ScheduledSlot(c) ==
    LET slot == IF next > reading[c] THEN next ELSE reading[c]
    IN  /\ algorithm \in {"leaky", "throttle"}
        /\ \/ slot - reading[c] <= Wait /\ Allow(c, slot) /\ next' = NextSlot(c, slot)
           \/ slot - reading[c] > Wait /\ Reject(c, slot) /\ next' = next
        /\ UNCHANGED <<counting, count, log, place, returns>>

Decide(c) ==
    /\ stage[c] = "read"
    /\ FixedWindow(c) \/ SlidingWindow(c) \/ ScheduledSlot(c)
    /\ Remember(c)
    /\ UNCHANGED <<config, clock, reading>>

WindowsNext == Advance \/ \E c \in Checks : ReadClock(c) \/ Decide(c)

WindowsSpec == WindowsInit /\ [][WindowsNext]_windowVars

-----------------------------------------------------------------------------
(* Properties                                                              *)

\* The types; a call is granted a time that is not before its reading, or told
\* to come back not before it.
WindowsTypeOK ==
    /\ algorithm \in Algorithms /\ backend \in {"memory", "redis"}
    /\ clock \in Times
    /\ stage \in [Checks -> {"idle", "read", "decided"}]
    /\ reading \in [Checks -> Times \cup {None}]
    /\ \A c \in Checks : stage[c] # "decided" => grant[c] = None /\ until[c] = None
    /\ \A c \in Decided : (grant[c] >= reading[c]) # (until[c] >= reading[c])
    /\ counting \in Ids \cup {None} /\ count \in [Ids -> Nat]
    /\ log \subseteq Granted /\ place \in [Checks -> Nat]
    /\ next = None \/ next \in Nat
    /\ late \subseteq Checks /\ returns \in Nat /\ since \in [Checks -> Nat]

GrantedBy(w) == {c \in Granted : Id(reading[c]) = w}
GrantedIn(from, to) == {c \in Granted : reading[c] > from /\ reading[c] <= to}

\* A window lets its limit through. In memory a call that read the clock in an
\* earlier window and comes late makes it start again, each time.
WindowBound ==
    algorithm = "fixed" =>
        \A w \in Ids : Cardinality(GrantedBy(w)) <= Limit * (1 + returns)

\* Any window of the clock holds at most the limit of calls, those that came
\* late not counted.
SlidingBound ==
    algorithm = "sliding" =>
        \A t \in Times : Cardinality(GrantedIn(t - Window, t) \ late) <= Limit

\* Slots are an interval apart, in whatever order their calls read the clock.
SlotsApart ==
    algorithm \in {"leaky", "throttle"} =>
        \A c, d \in Granted : c # d =>
            grant[c] >= grant[d] + Interval \/ grant[d] >= grant[c] + Interval

\* Whether a call that reads t would be let through now.
Passes(t) ==
    CASE algorithm = "fixed"   -> ~ Full(Id(t))
      [] algorithm = "sliding" -> Cardinality(Live(t - Window)) < Limit
      [] OTHER                 -> next - t <= Wait

\* A rejected call that was not late and comes back when it was told to is let
\* through, if no other call was in the meantime.
RetryHonest ==
    \A c \in (Decided \ Granted) \ late :
        since[c] = Cardinality(Granted) /\ until[c] <= LastTime => Passes(until[c])

\* Nobody is rejected while there is room: a window that rejects has let its
\* limit through, a slot that is too far away was given to someone.
RejectedOnlyWhenFull ==
    \A c \in Decided \ Granted :
        LET w == Id(reading[c])
        IN  CASE algorithm = "fixed" ->
                   Cardinality(GrantedBy(w)) >= Limit
              [] algorithm = "sliding" -> late # {} \/
                   Cardinality(GrantedIn(reading[c] - Window, reading[c])) >= Limit
              [] OTHER ->
                   \E d \in Granted : grant[d] + Interval - reading[c] > Wait

\* A caller is turned away for a reason, and is told when to come back.
RejectionsHonest == RetryHonest /\ RejectedOnlyWhenFull

=============================================================================
