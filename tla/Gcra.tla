-------------------------------- MODULE Gcra --------------------------------
(***************************************************************************)
(* One key of the rate limiter of summer-common/src/rate_limit under the   *)
(* GCRA kernel (token_bucket and gcra): concurrent checks, reservations,   *)
(* refunds, resets and evictions, with the memory bucket advanced by       *)
(* compare-and-swap, the Redis bucket by one script, and the failure       *)
(* policies between them.                                                  *)
(*                                                                         *)
(* A bucket's state is its TAT, the theoretical arrival time.  The memory  *)
(* cache may forget a bucket while calls still hold it: every bucket it    *)
(* ever makes has a number, and current is the one it holds now.  The      *)
(* cache key does not name the backend, so calls of both kinds meet in it. *)
(*                                                                         *)
(* Bounds: each call runs once; time stops at MaxTime; the memory cache    *)
(* makes at most MaxBuckets buckets.  The Redis key does not expire: its   *)
(* time to live is at least twice what a full bucket needs to drain.       *)
(***************************************************************************)
EXTENDS Integers, FiniteSets

CONSTANTS Calls,      \* the reserve() calls
          Cost,       \* Cost[c]: the units c reserves
          Redis,      \* the calls configured with the Redis backend
          Listed,     \* the calls whose address may be on a list
          Shadow,     \* the calls configured with RateLimitMode::Shadow
          Policies,   \* the failure policies in use
          Emission,   \* emission_interval_millis
          Burst,      \* effective_burst
          MaxTime, MaxBuckets

ASSUME GcraAssumption ==
    /\ IsFiniteSet(Calls)
    /\ Cost \in [Calls -> Nat \ {0}]
    /\ Redis \subseteq Calls /\ Listed \subseteq Calls /\ Shadow \subseteq Calls
    /\ Policies \subseteq {"FailOpen", "FailClosed", "FallbackMemory"}
    /\ Emission \in Nat \ {0} /\ Burst \in Nat \ {0}
    /\ MaxTime \in Nat /\ MaxBuckets \in Nat

VARIABLES
    now,       \* the clock, in the unit of Emission
    made,      \* how many memory buckets were made
    current,   \* the bucket in gcra_states, 0 when there is none
    tat,       \* the TAT of every bucket; bucket 0 is the Redis key
    keyed,     \* the Redis key exists
    deleting,  \* the DEL that reset_key spawned has not run yet
    pc,        \* where each call stands
    at,        \* now_ms as the call read it, 0 when it has none
    seen,      \* the TAT the call loaded, 0 when it has none
    bucket,    \* the bucket the call works on, or the one it paid into
    back,      \* the units the call gives back
    \* history
    born,      \* when each bucket was made
    net,       \* units paid into each bucket and not given back
    foreign    \* units given back to each bucket by calls that had not paid into it

cache   == <<made, current, keyed, deleting>>
locals  == <<at, seen, bucket, back>>
history == <<born, net, foreign>>
vars    == <<now, cache, tat, pc, locals, history>>

Buckets  == 0..MaxBuckets
Capacity == Burst * Emission
NoBucket == -1

Later(s, t) == IF s > t THEN s ELSE t

\* How far the TAT t lies ahead of the time n, and whether the bucket has room.
Ahead(t, n) == Later(t, n) - n
Admits(t, n, cost) == Ahead(t, n) + cost * Emission <= Capacity

Goto(c, label) == pc' = [pc EXCEPT ![c] = label]

\* The check returns, and with it go its clock and the TAT it loaded.
Leave(c, label) ==
    /\ Goto(c, label)
    /\ at' = [at EXCEPT ![c] = 0] /\ seen' = [seen EXCEPT ![c] = 0]

Init ==
    /\ now = 0 /\ made = 0 /\ current = 0 /\ keyed = FALSE /\ deleting = FALSE
    /\ tat = [b \in Buckets |-> 0]
    /\ pc = [c \in Calls |-> "idle"]
    /\ at = [c \in Calls |-> 0]
    /\ seen = [c \in Calls |-> 0]
    /\ bucket = [c \in Calls |-> NoBucket]
    /\ back = [c \in Calls |-> 0]
    /\ born = [b \in Buckets |-> 0]
    /\ net = [b \in Buckets |-> 0]
    /\ foreign = [b \in Buckets |-> 0]

-----------------------------------------------------------------------------
(* reserve: the lists, then the clock, then the backend.                    *)

\* check_lists: the allowlist lets the call through, the blocklist does not.
CheckLists(c) ==
    /\ pc[c] = "idle" /\ c \in Listed
    /\ \E label \in {"held", "rejected"} : Goto(c, label)
    /\ UNCHANGED <<now, cache, tat, locals, history>>

CheckBackend(c) ==
    /\ pc[c] = "idle"
    /\ at' = [at EXCEPT ![c] = now]
    /\ Goto(c, IF c \in Redis THEN "script" ELSE "get")
    /\ UNCHANGED <<now, cache, tat, seen, bucket, back, history>>

\* finalize: a rejected call in shadow mode goes on as if it had been let through.
Turned(c) == IF c \in Shadow THEN "held" ELSE "rejected"

\* Advancing a bucket by the cost of a call; t is the TAT the call goes by.
Pay(c, b, t) ==
    /\ tat' = [tat EXCEPT ![b] = Later(t, at[c]) + Cost[c] * Emission]
    /\ net' = [net EXCEPT ![b] = @ + Cost[c]]

-----------------------------------------------------------------------------
(* check_memory_gcra.                                                       *)

GetBucket(c) ==
    /\ pc[c] = "get" /\ current # 0
    /\ bucket' = [bucket EXCEPT ![c] = current]
    /\ Goto(c, "load")
    /\ UNCHANGED <<now, cache, tat, at, seen, back, history>>

\* get_with: the cache has no bucket, the call's clock makes one.
MakeBucket(c) ==
    /\ pc[c] = "get" /\ current = 0 /\ made < MaxBuckets
    /\ made' = made + 1 /\ current' = made + 1
    /\ tat' = [tat EXCEPT ![made + 1] = at[c]]
    /\ born' = [born EXCEPT ![made + 1] = at[c]]
    /\ bucket' = [bucket EXCEPT ![c] = made + 1]
    /\ Goto(c, "load")
    /\ UNCHANGED <<now, keyed, deleting, at, seen, back, net, foreign>>

LoadAdmits(c) ==
    /\ pc[c] = "load" /\ Admits(tat[bucket[c]], at[c], Cost[c])
    /\ seen' = [seen EXCEPT ![c] = tat[bucket[c]]]
    /\ Goto(c, "swap")
    /\ UNCHANGED <<now, cache, tat, at, bucket, back, history>>

LoadRejects(c) ==
    /\ pc[c] = "load" /\ ~Admits(tat[bucket[c]], at[c], Cost[c])
    /\ bucket' = [bucket EXCEPT ![c] = NoBucket]
    /\ Leave(c, Turned(c))
    /\ UNCHANGED <<now, cache, tat, back, history>>

\* Mutant: the new TAT is stored without comparing.
Swap_Blind(c) ==
    /\ pc[c] = "swap"
    /\ Pay(c, bucket[c], seen[c])
    /\ Leave(c, "held")
    /\ UNCHANGED <<now, cache, bucket, back, born, foreign>>

Swap(c) ==
    /\ pc[c] = "swap" /\ tat[bucket[c]] = seen[c]
    /\ Pay(c, bucket[c], seen[c])
    /\ Leave(c, "held")
    /\ UNCHANGED <<now, cache, bucket, back, born, foreign>>

SwapFails(c) ==
    /\ pc[c] = "swap" /\ tat[bucket[c]] # seen[c]
    /\ seen' = [seen EXCEPT ![c] = 0]
    /\ Goto(c, "load")
    /\ UNCHANGED <<now, cache, tat, at, bucket, back, history>>

-----------------------------------------------------------------------------
(* check_redis: the script runs at once, its answer may be lost.            *)

ScriptTat(c) == IF keyed THEN tat[0] ELSE at[c]

ScriptAllows(c) ==
    /\ pc[c] = "script" /\ Admits(ScriptTat(c), at[c], Cost[c])
    /\ Pay(c, 0, ScriptTat(c))
    /\ keyed' = TRUE
    /\ born' = IF keyed THEN born ELSE [born EXCEPT ![0] = at[c]]
    /\ bucket' = [bucket EXCEPT ![c] = 0]
    /\ \E label \in {"held", "failed"} : Leave(c, label)
    /\ UNCHANGED <<now, made, current, deleting, back, foreign>>

ScriptRejects(c) ==
    /\ pc[c] = "script" /\ ~Admits(ScriptTat(c), at[c], Cost[c])
    /\ \E label \in {Turned(c), "failed"} : Leave(c, label)
    /\ UNCHANGED <<now, cache, tat, bucket, back, history>>

ScriptUnreachable(c) ==
    /\ pc[c] = "script"
    /\ Leave(c, "failed")
    /\ UNCHANGED <<now, cache, tat, bucket, back, history>>

(* handle_backend_failure.                                                  *)

\* The reservation is made although nothing need have been paid.
FailOpen(c) ==
    /\ pc[c] = "failed" /\ "FailOpen" \in Policies
    /\ Goto(c, "held")
    /\ UNCHANGED <<now, cache, tat, locals, history>>

FailClosed(c) ==
    /\ pc[c] = "failed" /\ "FailClosed" \in Policies
    /\ Goto(c, "unavailable")
    /\ UNCHANGED <<now, cache, tat, locals, history>>

\* check_memory reads the clock anew.
FallbackMemory(c) ==
    /\ pc[c] = "failed" /\ "FallbackMemory" \in Policies
    /\ at' = [at EXCEPT ![c] = now]
    /\ Goto(c, "get")
    /\ UNCHANGED <<now, cache, tat, seen, bucket, back, history>>

-----------------------------------------------------------------------------
(* commit(actual) gives back what was not used; release and Drop give back  *)
(* everything.  refund goes to the backend of the configuration.            *)

Settle(c) ==
    /\ pc[c] = "held"
    /\ \E units \in 0..Cost[c] :
         IF units = 0
         THEN /\ Goto(c, "settled")
              /\ bucket' = [bucket EXCEPT ![c] = NoBucket]
              /\ UNCHANGED <<at, back>>
         ELSE /\ Goto(c, "refund")
              /\ back' = [back EXCEPT ![c] = units]
              /\ at' = [at EXCEPT ![c] = now]
              /\ UNCHANGED bucket
    /\ UNCHANGED <<now, cache, tat, seen, history>>

Refunded(c) ==
    /\ Leave(c, "settled")
    /\ bucket' = [bucket EXCEPT ![c] = NoBucket] /\ back' = [back EXCEPT ![c] = 0]

\* The books: whose units these were.
GiveBack(c, b) ==
    IF bucket[c] = b
    THEN net' = [net EXCEPT ![b] = @ - back[c]] /\ UNCHANGED foreign
    ELSE foreign' = [foreign EXCEPT ![b] = @ + back[c]] /\ UNCHANGED net

\* Mutant: the refund is applied twice, by commit and again by Drop.
RefundMemory_Twice(c) ==
    /\ pc[c] = "refund" /\ c \notin Redis /\ current # 0
    /\ tat' = [tat EXCEPT ![current] = @ - 2 * (back[c] * Emission)]
    /\ GiveBack(c, current)
    /\ Refunded(c)
    /\ UNCHANGED <<now, cache, born>>

RefundMemory(c) ==
    /\ pc[c] = "refund" /\ c \notin Redis /\ current # 0
    /\ tat' = [tat EXCEPT ![current] = @ - back[c] * Emission]
    /\ GiveBack(c, current)
    /\ Refunded(c)
    /\ UNCHANGED <<now, cache, born>>

\* The script does not let the TAT fall behind the clock the call read.
RefundRedis(c) ==
    /\ pc[c] = "refund" /\ c \in Redis /\ keyed
    /\ tat' = [tat EXCEPT ![0] = Later(@ - back[c] * Emission, at[c])]
    /\ GiveBack(c, 0)
    /\ Refunded(c)
    /\ UNCHANGED <<now, cache, born>>

\* No bucket, or a Redis that does not answer: the refund is lost.
RefundLost(c) ==
    /\ pc[c] = "refund"
    /\ c \in Redis \/ current = 0
    /\ Refunded(c)
    /\ UNCHANGED <<now, cache, tat, history>>

-----------------------------------------------------------------------------
\* The cache forgets the bucket: reset_key, its idle time or its capacity.
Evict ==
    /\ current # 0
    /\ current' = 0
    /\ UNCHANGED <<now, made, keyed, deleting, tat, pc, locals, history>>

\* reset_key under a Redis configuration: the bucket now, the key by a spawned task.
ResetRedis ==
    /\ Redis # {} /\ ~deleting
    /\ current' = 0 /\ deleting' = TRUE
    /\ UNCHANGED <<now, made, keyed, tat, pc, locals, history>>

\* The key is gone and with it the books of bucket 0.
DeleteKey ==
    /\ deleting /\ deleting' = FALSE
    /\ keyed' = FALSE
    /\ tat' = [tat EXCEPT ![0] = 0] /\ born' = [born EXCEPT ![0] = 0]
    /\ net' = [net EXCEPT ![0] = 0] /\ foreign' = [foreign EXCEPT ![0] = 0]
    /\ bucket' = [c \in Calls |-> IF bucket[c] = 0 THEN NoBucket ELSE bucket[c]]
    /\ UNCHANGED <<now, made, current, pc, at, seen, back>>

\* The result of DEL is not looked at.
DeleteFails ==
    /\ deleting /\ deleting' = FALSE
    /\ UNCHANGED <<now, made, current, keyed, tat, pc, locals, history>>

Tick ==
    /\ now < MaxTime
    /\ now' = now + 1
    /\ UNCHANGED <<cache, tat, pc, locals, history>>

CheckMemory(c) == \/ GetBucket(c) \/ MakeBucket(c) \/ LoadAdmits(c) \/ LoadRejects(c)
                  \/ Swap(c) \/ SwapFails(c)
CheckRedis(c)  == \/ ScriptAllows(c) \/ ScriptRejects(c) \/ ScriptUnreachable(c)
                  \/ FailOpen(c) \/ FailClosed(c) \/ FallbackMemory(c)
Refund(c)      == RefundMemory(c) \/ RefundRedis(c) \/ RefundLost(c)
Reset          == Evict \/ ResetRedis \/ DeleteKey \/ DeleteFails

Next == \/ Reset \/ Tick
        \/ \E c \in Calls : \/ CheckLists(c) \/ CheckBackend(c) \/ CheckMemory(c)
                            \/ CheckRedis(c) \/ Settle(c) \/ Refund(c)

Spec == Init /\ [][Next]_vars

-----------------------------------------------------------------------------
(* Properties.                                                              *)

States == {"idle", "get", "load", "swap", "script", "failed", "held", "refund",
           "settled", "rejected", "unavailable"}

\* Every variable has its type; a call in the compare-and-swap loop of
\* check_memory_gcra holds a memory bucket that was made.
TypeOK ==
    /\ now \in Nat /\ made \in Buckets /\ current \in 0..made
    /\ keyed \in BOOLEAN /\ deleting \in BOOLEAN
    /\ tat \in [Buckets -> Int]
    /\ pc \in [Calls -> States]
    /\ at \in [Calls -> Nat] /\ seen \in [Calls -> Int]
    /\ bucket \in [Calls -> Buckets \cup {NoBucket}]
    /\ back \in [Calls -> Nat]
    /\ born \in [Buckets -> Nat] /\ net \in [Buckets -> Int] /\ foreign \in [Buckets -> Nat]
    /\ \A c \in Calls : pc[c] \in {"load", "swap"} => bucket[c] \in 1..made

(* The quota: since a bucket was made, the units paid into it and not given *)
(* back fit the time that has passed plus one burst, whatever the order of  *)
(* loads, swaps, refunds, resets and failed scripts; only the units that    *)
(* calls gave back to it without having paid into it come on top.           *)
QuotaBound ==
    \A b \in Buckets : Emission * net[b] <= (now - born[b]) + Capacity + Emission * foreign[b]

(* A bucket is never further ahead of the clock than its capacity, so no    *)
(* order of stale clocks and swaps makes a client wait for more than a full *)
(* bucket needs to drain (retry_after is at most the cost of its own call). *)
AheadBounded == \A b \in Buckets : tat[b] <= now + Capacity

(* What the docs say of refunds ("return cost units of quota", "refund      *)
(* everything that was reserved"): nobody gives back units that were not    *)
(* taken from the bucket, so the quota holds without exception.             *)
QuotaKept == \A b \in Buckets : Emission * net[b] <= (now - born[b]) + Capacity
=============================================================================
