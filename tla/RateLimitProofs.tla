-------------------------- MODULE RateLimitProofs --------------------------
(***************************************************************************)
(* Proofs about the rate limiter: Gcra for any set of calls, any costs,    *)
(* rates and bursts and any mixture of backends and failure policies;      *)
(* RateWindows for any set of calls, window, limit and interval, whatever  *)
(* order calls read the clock and decide in.                               *)
(*                                                                         *)
(* The quota follows from two facts that are inductive only together with  *)
(* what the calls remember: the TAT of a bucket has advanced by at least   *)
(* what was paid into it (Books), and a call about to swap admitted itself *)
(* on a TAT that the comparison then finds unchanged (Swapping), which     *)
(* keeps the TAT within one burst of the clock (AheadBounded).             *)
(*                                                                         *)
(* Slots are apart because next_available is beyond every slot given out.  *)
(* The bound of a fixed window in memory follows from what was granted in  *)
(* each window before, at and after the one the memory counts in. That of  *)
(* a sliding window follows from what its log has dropped: a call that is  *)
(* not late finds in the log all that its window holds (WindowIsLive).     *)
(*                                                                         *)
(* A rejection is honest because of what stays true of a rejected call     *)
(* until the next grant (RejectInv): every reading that was granted is     *)
(* before its own, the front of the log has left the window it is told to  *)
(* come back in, and next_available is the time it was told.               *)
(***************************************************************************)
EXTENDS Gcra, RateWindows, FiniteSetTheorems, TLAPS

\* What was paid into a bucket and not given back, its TAT has advanced by.
Books == \A b \in Buckets : Emission * net[b] <= (tat[b] - born[b]) + Emission * foreign[b]

\* A call about to swap had room for its cost at the TAT it loaded.
Swapping == \A c \in Calls : pc[c] = "swap" => Admits(seen[c], at[c], Cost[c])

\* No call and no bucket has read a clock that is still to come.
Clocks == /\ \A c \in Calls : at[c] <= now
          /\ \A b \in Buckets : born[b] <= now

\* The books of a bucket that is not there are empty.
Missing(b) == b > made \/ (b = 0 /\ ~keyed)
Fresh == \A b \in Buckets : Missing(b) => net[b] = 0 /\ foreign[b] = 0 /\ tat[b] = 0

IInv == TypeOK /\ Books /\ AheadBounded /\ Swapping /\ Clocks /\ Fresh

-----------------------------------------------------------------------------
(* Arithmetic the steps need, stated apart from the state.                  *)

\* Paying: c units advance the books of net and the TAT alike.
LEMMA PayArithmetic ==
    ASSUME NEW e \in Int, NEW n \in Int, NEW c \in Int
    PROVE  e * (n + c) = e * n + c * e
  OBVIOUS

\* Giving back: c units taken from net, or added to foreign, or from the TAT.
LEMMA GiveArithmetic ==
    ASSUME NEW e \in Int, NEW n \in Int, NEW c \in Int
    PROVE  e * (n - c) = e * n - c * e
  OBVIOUS

LEMMA ProductIsNat ==
    ASSUME NEW m \in Nat, NEW n \in Nat
    PROVE  m * n \in Nat
  OBVIOUS

LEMMA ProductIsInt ==
    ASSUME NEW m \in Int, NEW n \in Int
    PROVE  m * n \in Int
  OBVIOUS

LEMMA ConstantTypes ==
    /\ Emission \in Nat /\ Capacity \in Nat /\ MaxBuckets \in Nat /\ 0 \in Buckets
    /\ \A c \in Calls : Cost[c] \in Nat /\ Cost[c] * Emission \in Nat
  <1>1. Emission \in Nat /\ Burst \in Nat /\ MaxBuckets \in Nat
    BY GcraAssumption
  <1>2. Capacity \in Nat
    BY <1>1, ProductIsNat DEF Capacity
  <1>3. \A c \in Calls : Cost[c] \in Nat
    BY GcraAssumption
  <1>4. \A c \in Calls : Cost[c] * Emission \in Nat
    BY <1>1, <1>3, ProductIsNat
  <1>5. 0 \in Buckets
    BY <1>1 DEF Buckets
  <1> QED
    BY <1>1, <1>2, <1>3, <1>4, <1>5

-----------------------------------------------------------------------------
(* Type correctness.                                                        *)

LEMMA TypeInit == Init => TypeOK
  <1> SUFFICES ASSUME Init PROVE TypeOK
    OBVIOUS
  <1>1. 0 \in Buckets /\ 0 \in 0..0
    BY ConstantTypes
  <1>2. /\ pc \in [Calls -> States] /\ bucket \in [Calls -> Buckets \cup {NoBucket}]
        /\ \A c \in Calls : pc[c] \notin {"load", "swap"}
    BY DEF Init, States
  <1>3. /\ now \in Nat /\ made \in Buckets /\ current \in 0..made
        /\ keyed \in BOOLEAN /\ deleting \in BOOLEAN
    BY <1>1 DEF Init
  <1>4. tat \in [Buckets -> Int] /\ net \in [Buckets -> Int] /\ seen \in [Calls -> Int]
    BY DEF Init
  <1>5. /\ born \in [Buckets -> Nat] /\ foreign \in [Buckets -> Nat]
        /\ at \in [Calls -> Nat] /\ back \in [Calls -> Nat]
    BY DEF Init
  <1> QED
    BY <1>2, <1>3, <1>4, <1>5 DEF TypeOK

\* The buckets that were made are buckets, the one in the cache among them.
LEMMA MadeBuckets ==
    ASSUME TypeOK
    PROVE  /\ made \in Nat /\ made <= MaxBuckets /\ 0 \in 0..made
           /\ 1..made \subseteq Buckets /\ current \in Buckets
           /\ current # 0 => current \in 1..made
  BY ConstantTypes DEF TypeOK, Buckets

LEMMA TypeStep == TypeOK /\ [Next]_vars => TypeOK'
  <1> SUFFICES ASSUME TypeOK, [Next]_vars PROVE TypeOK'
    OBVIOUS
  <1>0. CASE UNCHANGED vars
    BY <1>0 DEF TypeOK, vars, cache, locals, history
  <1> USE ConstantTypes, MadeBuckets DEF TypeOK, cache, locals, history, States
  <1>1. CASE Evict
    BY <1>1 DEF Evict
  <1>2. CASE ResetRedis
    BY <1>2 DEF ResetRedis
  <1>3. CASE DeleteKey
    <2>1. ASSUME NEW c \in Calls, pc'[c] \in {"load", "swap"}
          PROVE  bucket'[c] \in 1..made'
      <3>1. bucket[c] \in 1..made /\ made' = made
        BY <1>3, <2>1 DEF DeleteKey
      <3>2. bucket[c] # 0
        BY <3>1
      <3> QED
        BY <1>3, <3>1, <3>2 DEF DeleteKey
    <2>3. bucket' \in [Calls -> Buckets \cup {NoBucket}]
      BY <1>3 DEF DeleteKey
    <2>4. tat' \in [Buckets -> Int] /\ net' \in [Buckets -> Int]
      BY <1>3 DEF DeleteKey
    <2>5. born' \in [Buckets -> Nat] /\ foreign' \in [Buckets -> Nat]
      BY <1>3 DEF DeleteKey
    <2>6. UNCHANGED <<now, made, current, pc, at, seen, back>>
      BY <1>3 DEF DeleteKey
    <2>7. keyed' \in BOOLEAN /\ deleting' \in BOOLEAN
      BY <1>3 DEF DeleteKey
    <2> QED
      BY <2>1, <2>3, <2>4, <2>5, <2>6, <2>7
  <1>4. CASE DeleteFails
    BY <1>4 DEF DeleteFails
  <1>5. CASE Tick
    BY <1>5 DEF Tick
  <1>6. ASSUME NEW c \in Calls, CheckLists(c) PROVE TypeOK'
    BY <1>6 DEF CheckLists, Goto
  <1>7. ASSUME NEW c \in Calls, CheckBackend(c) PROVE TypeOK'
    BY <1>7 DEF CheckBackend, Goto
  <1>8. ASSUME NEW c \in Calls, GetBucket(c) PROVE TypeOK'
    BY <1>8 DEF GetBucket, Goto
  <1>9. ASSUME NEW c \in Calls, MakeBucket(c) PROVE TypeOK'
    <2>1. made + 1 \in Buckets /\ made + 1 \in 0..(made + 1) /\ made + 1 \in 1..(made + 1)
      BY <1>9 DEF MakeBucket, Buckets
    <2>2. 1..made \subseteq 1..(made + 1)
      OBVIOUS
    <2>3. \A d \in Calls : pc'[d] \in {"load", "swap"} => bucket'[d] \in 1..made'
      BY <1>9, <2>1, <2>2 DEF MakeBucket, Goto
    <2> QED
      BY <1>9, <2>1, <2>3 DEF MakeBucket, Goto
  <1>10. ASSUME NEW c \in Calls, LoadAdmits(c) PROVE TypeOK'
    BY <1>10 DEF LoadAdmits, Goto
  <1>11. ASSUME NEW c \in Calls, LoadRejects(c) PROVE TypeOK'
    BY <1>11 DEF LoadRejects, Leave, Goto, Turned, NoBucket
  <1>12. ASSUME NEW c \in Calls, Swap(c) PROVE TypeOK'
    BY <1>12 DEF Swap, Pay, Leave, Goto, Later
  <1>13. ASSUME NEW c \in Calls, SwapFails(c) PROVE TypeOK'
    BY <1>13 DEF SwapFails, Goto
  <1>14. ASSUME NEW c \in Calls, ScriptAllows(c) PROVE TypeOK'
    <2>1. ScriptTat(c) \in Int
      BY DEF ScriptTat
    <2> QED
      BY <1>14, <2>1 DEF ScriptAllows, Pay, Leave, Goto, Later
  <1>15. ASSUME NEW c \in Calls, ScriptRejects(c) PROVE TypeOK'
    BY <1>15 DEF ScriptRejects, Leave, Goto, Turned
  <1>16. ASSUME NEW c \in Calls, ScriptUnreachable(c) PROVE TypeOK'
    BY <1>16 DEF ScriptUnreachable, Leave, Goto
  <1>17. ASSUME NEW c \in Calls, FailOpen(c) PROVE TypeOK'
    BY <1>17 DEF FailOpen, Goto
  <1>18. ASSUME NEW c \in Calls, FailClosed(c) PROVE TypeOK'
    BY <1>18 DEF FailClosed, Goto
  <1>19. ASSUME NEW c \in Calls, FallbackMemory(c) PROVE TypeOK'
    BY <1>19 DEF FallbackMemory, Goto
  <1>20. ASSUME NEW c \in Calls, Settle(c) PROVE TypeOK'
    BY <1>20 DEF Settle, Goto, NoBucket
  <1>21. ASSUME NEW c \in Calls, RefundMemory(c) PROVE TypeOK'
    <2>1. back[c] * Emission \in Int
      BY ProductIsInt
    <2>2. tat' \in [Buckets -> Int]
      BY <1>21, <2>1 DEF RefundMemory
    <2>3. net' \in [Buckets -> Int] /\ foreign' \in [Buckets -> Nat]
      BY <1>21 DEF RefundMemory, GiveBack
    <2> QED
      BY <1>21, <2>2, <2>3 DEF RefundMemory, Refunded, Leave, Goto, NoBucket
  <1>22. ASSUME NEW c \in Calls, RefundRedis(c) PROVE TypeOK'
    <2>1. back[c] * Emission \in Int
      BY ProductIsInt
    <2> QED
      BY <1>22, <2>1 DEF RefundRedis, GiveBack, Refunded, Leave, Goto, NoBucket, Later
  <1>23. ASSUME NEW c \in Calls, RefundLost(c) PROVE TypeOK'
    BY <1>23 DEF RefundLost, Refunded, Leave, Goto, NoBucket
  <1> QED
    BY <1>0, <1>1, <1>2, <1>3, <1>4, <1>5, <1>6, <1>7, <1>8, <1>9, <1>10, <1>11, <1>12,
       <1>13, <1>14, <1>15, <1>16, <1>17, <1>18, <1>19, <1>20, <1>21, <1>22, <1>23
       DEF Next, Reset, CheckMemory, CheckRedis, Refund

(* TypeOK, of every behaviour of Gcra: in particular a call that enters the *)
(* compare-and-swap loop, by a direct check or by the fallback of a failed  *)
(* script, holds a bucket that the cache has made.                          *)
THEOREM GcraTypeOK == Spec => []TypeOK
  <1>1. Init => TypeOK
    BY TypeInit
  <1>2. TypeOK /\ [Next]_vars => TypeOK'
    BY TypeStep
  <1> QED
    BY <1>1, <1>2, PTL DEF Spec

-----------------------------------------------------------------------------
(* The quota.                                                               *)

LEMMA InvInit == Init => IInv
  <1> SUFFICES ASSUME Init PROVE IInv
    OBVIOUS
  <1>1. TypeOK
    BY TypeInit
  <1>2. Emission * 0 = 0 /\ Capacity \in Nat
    BY ConstantTypes
  <1>3. Books /\ AheadBounded
    BY <1>2 DEF Init, Books, AheadBounded
  <1>4. Swapping /\ Clocks /\ Fresh
    BY DEF Init, Swapping, Clocks, Fresh
  <1> QED
    BY <1>1, <1>3, <1>4 DEF IInv

\* now never goes back, and every clock a call or a bucket keeps is read from it.
LEMMA ClocksStep == TypeOK /\ Clocks /\ [Next]_vars => Clocks'
  <1> SUFFICES ASSUME TypeOK, Clocks, [Next]_vars PROVE Clocks'
    OBVIOUS
  <1> USE ConstantTypes, MadeBuckets DEF TypeOK, Clocks, cache, locals, history
  <1>0. CASE UNCHANGED vars
    BY <1>0 DEF vars
  <1>1. CASE Evict \/ ResetRedis \/ DeleteFails
    BY <1>1 DEF Evict, ResetRedis, DeleteFails
  <1>2. CASE DeleteKey
    BY <1>2 DEF DeleteKey
  <1>3. CASE Tick
    BY <1>3 DEF Tick
  <1>4. ASSUME NEW c \in Calls, CheckBackend(c) \/ FallbackMemory(c) PROVE Clocks'
    BY <1>4 DEF CheckBackend, FallbackMemory
  <1>5. ASSUME NEW c \in Calls,
               \/ CheckLists(c) \/ GetBucket(c) \/ LoadAdmits(c) \/ SwapFails(c)
               \/ FailOpen(c) \/ FailClosed(c)
        PROVE  Clocks'
    BY <1>5 DEF CheckLists, GetBucket, LoadAdmits, SwapFails, FailOpen, FailClosed
  <1>6. ASSUME NEW c \in Calls, MakeBucket(c) PROVE Clocks'
    BY <1>6 DEF MakeBucket
  <1>7. ASSUME NEW c \in Calls,
               LoadRejects(c) \/ Swap(c) \/ ScriptRejects(c) \/ ScriptUnreachable(c)
        PROVE  Clocks'
    BY <1>7 DEF LoadRejects, Swap, ScriptRejects, ScriptUnreachable, Leave
  <1>8. ASSUME NEW c \in Calls, ScriptAllows(c) PROVE Clocks'
    BY <1>8 DEF ScriptAllows, Leave
  <1>9. ASSUME NEW c \in Calls, Settle(c) PROVE Clocks'
    BY <1>9 DEF Settle
  <1>10. ASSUME NEW c \in Calls, Refund(c) PROVE Clocks'
    BY <1>10 DEF Refund, RefundMemory, RefundRedis, RefundLost, Refunded, Leave
  <1> QED
    BY <1>0, <1>1, <1>2, <1>3, <1>4, <1>5, <1>6, <1>7, <1>8, <1>9, <1>10
       DEF Next, Reset, CheckMemory, CheckRedis

\* Only LoadAdmits sends a call to swap, with the TAT and the clock it admitted itself on.
LEMMA SwappingStep == TypeOK /\ Swapping /\ [Next]_vars => Swapping'
  <1> SUFFICES ASSUME TypeOK, Swapping, [Next]_vars, NEW d \in Calls, pc'[d] = "swap"
               PROVE  Admits(seen'[d], at'[d], Cost[d])
    BY DEF Swapping
  <1> USE DEF TypeOK, Swapping, cache, locals, history
  <1>0. CASE UNCHANGED vars
    BY <1>0 DEF vars
  <1>1. CASE Reset \/ Tick
    BY <1>1 DEF Reset, Evict, ResetRedis, DeleteKey, DeleteFails, Tick
  <1>2. ASSUME NEW c \in Calls, LoadAdmits(c) PROVE Admits(seen'[d], at'[d], Cost[d])
    BY <1>2 DEF LoadAdmits, Goto
  <1>3. ASSUME NEW c \in Calls,
               \/ CheckLists(c) \/ CheckBackend(c) \/ GetBucket(c) \/ MakeBucket(c)
               \/ SwapFails(c) \/ FailOpen(c) \/ FailClosed(c) \/ FallbackMemory(c)
        PROVE  Admits(seen'[d], at'[d], Cost[d])
    BY <1>3 DEF CheckLists, CheckBackend, GetBucket, MakeBucket, SwapFails,
                FailOpen, FailClosed, FallbackMemory, Goto
  <1>4. ASSUME NEW c \in Calls,
               \/ LoadRejects(c) \/ Swap(c)
               \/ ScriptAllows(c) \/ ScriptRejects(c) \/ ScriptUnreachable(c)
        PROVE  Admits(seen'[d], at'[d], Cost[d])
    BY <1>4 DEF LoadRejects, Swap, ScriptAllows, ScriptRejects, ScriptUnreachable,
                Leave, Goto, Turned
  <1>5. ASSUME NEW c \in Calls, Settle(c) PROVE Admits(seen'[d], at'[d], Cost[d])
    BY <1>5 DEF Settle, Goto
  <1>6. ASSUME NEW c \in Calls, Refund(c) PROVE Admits(seen'[d], at'[d], Cost[d])
    BY <1>6 DEF Refund, RefundMemory, RefundRedis, RefundLost, Refunded, Leave, Goto
  <1> QED
    BY <1>0, <1>1, <1>2, <1>3, <1>4, <1>5, <1>6 DEF Next, CheckMemory, CheckRedis

\* Every step that pays or gives back does so in a bucket that is there.
LEMMA FreshStep == TypeOK /\ Fresh /\ [Next]_vars => Fresh'
  <1> SUFFICES ASSUME TypeOK, Fresh, [Next]_vars PROVE Fresh'
    OBVIOUS
  <1> USE ConstantTypes, MadeBuckets DEF TypeOK, Fresh, Missing, cache, locals, history
  <1>0. CASE UNCHANGED vars
    BY <1>0 DEF vars
  <1>1. CASE Evict \/ ResetRedis \/ DeleteFails \/ Tick
    BY <1>1 DEF Evict, ResetRedis, DeleteFails, Tick
  <1>2. CASE DeleteKey
    BY <1>2 DEF DeleteKey
  <1>3. ASSUME NEW c \in Calls,
               \/ CheckLists(c) \/ CheckBackend(c) \/ GetBucket(c) \/ LoadAdmits(c)
               \/ LoadRejects(c) \/ SwapFails(c) \/ ScriptRejects(c) \/ ScriptUnreachable(c)
               \/ FailOpen(c) \/ FailClosed(c) \/ FallbackMemory(c) \/ Settle(c)
               \/ RefundLost(c)
        PROVE  Fresh'
    BY <1>3 DEF CheckLists, CheckBackend, GetBucket, LoadAdmits, LoadRejects, SwapFails,
                ScriptRejects, ScriptUnreachable, FailOpen, FailClosed, FallbackMemory,
                Settle, RefundLost
  <1>4. ASSUME NEW c \in Calls, MakeBucket(c) PROVE Fresh'
    <2>1. \A b \in Buckets \ {made + 1} : tat'[b] = tat[b]
      BY <1>4 DEF MakeBucket
    <2>2. \A b \in Buckets : Missing(b)' => Missing(b) /\ b # made + 1
      BY <1>4 DEF MakeBucket, Buckets
    <2> QED
      BY <1>4, <2>1, <2>2 DEF MakeBucket
  <1>5. ASSUME NEW c \in Calls, Swap(c) PROVE Fresh'
    <2>1. bucket[c] \in 1..made
      BY <1>5 DEF Swap
    <2>2. \A b \in Buckets \ {bucket[c]} : tat'[b] = tat[b] /\ net'[b] = net[b]
      BY <1>5 DEF Swap, Pay
    <2> QED
      BY <1>5, <2>1, <2>2 DEF Swap
  <1>6. ASSUME NEW c \in Calls, ScriptAllows(c) PROVE Fresh'
    <2>1. \A b \in Buckets \ {0} : tat'[b] = tat[b] /\ net'[b] = net[b]
      BY <1>6 DEF ScriptAllows, Pay
    <2> QED
      BY <1>6, <2>1 DEF ScriptAllows
  <1>7. ASSUME NEW c \in Calls, RefundMemory(c) PROVE Fresh'
    <2>1. \A b \in Buckets \ {current} :
             tat'[b] = tat[b] /\ net'[b] = net[b] /\ foreign'[b] = foreign[b]
      BY <1>7 DEF RefundMemory, GiveBack
    <2> QED
      BY <1>7, <2>1 DEF RefundMemory
  <1>8. ASSUME NEW c \in Calls, RefundRedis(c) PROVE Fresh'
    <2>1. \A b \in Buckets \ {0} :
             tat'[b] = tat[b] /\ net'[b] = net[b] /\ foreign'[b] = foreign[b]
      BY <1>8 DEF RefundRedis, GiveBack
    <2> QED
      BY <1>8, <2>1 DEF RefundRedis
  <1> QED
    BY <1>0, <1>1, <1>2, <1>3, <1>4, <1>5, <1>6, <1>7, <1>8
       DEF Next, Reset, CheckMemory, CheckRedis, Refund

-----------------------------------------------------------------------------
\* A bucket's part of Books and AheadBounded.
Sound(b) == /\ Emission * net[b] <= (tat[b] - born[b]) + Emission * foreign[b]
            /\ tat[b] <= now + Capacity

\* A call that pays on a TAT that admits it keeps the bucket sound, whatever the TAT.
LEMMA PayKeepsSound ==
    ASSUME TypeOK, TypeOK', now' = now, NEW c \in Calls, NEW b \in Buckets, NEW t \in Int,
           at[c] <= now, Admits(t, at[c], Cost[c]), Pay(c, b, t),
           foreign' = foreign,
           Emission * net[b] <= (t - born'[b]) + Emission * foreign[b]
    PROVE  Sound(b)'
  <1> DEFINE paid == Cost[c] * Emission
  <1>1. paid \in Nat /\ Emission \in Nat /\ Capacity \in Nat /\ Cost[c] \in Nat
    BY ConstantTypes
  <1>2. tat'[b] = Later(t, at[c]) + paid /\ net'[b] = net[b] + Cost[c]
    BY DEF Pay, TypeOK
  <1>3. at[c] \in Int /\ net[b] \in Int /\ born'[b] \in Int /\ foreign[b] \in Int /\ now \in Int
    BY DEF TypeOK
  <1>4. Emission * net'[b] = Emission * net[b] + paid
    BY <1>1, <1>2, <1>3, PayArithmetic
  <1>5. Emission * foreign[b] \in Int /\ Emission * net[b] \in Int
    BY <1>1, <1>3, ProductIsInt
  <1>6. (Later(t, at[c]) - at[c]) + paid <= Capacity
    BY DEF Admits, Ahead
  <1>7. Later(t, at[c]) \in Int /\ Later(t, at[c]) >= t
    BY <1>3 DEF Later
  <1> HIDE DEF paid
  <1> DEFINE paidFor == Emission * net[b]
             given   == Emission * foreign[b]
  <1>8. Emission * net'[b] <= (tat'[b] - born'[b]) + given
    <2> HIDE DEF paidFor, given
    <2>1. paidFor <= (t - born'[b]) + given /\ paidFor \in Int /\ given \in Int
      BY <1>5 DEF paidFor, given
    <2>2. Emission * net'[b] = paidFor + paid
      BY <1>4 DEF paidFor
    <2> QED
      BY <1>1, <1>2, <1>3, <1>7, <2>1, <2>2
  <1>9. tat'[b] <= now + Capacity
    BY <1>1, <1>2, <1>3, <1>6, <1>7
  <1> QED
    BY <1>8, <1>9 DEF Sound

\* Giving back in full what goes into the books, or less, keeps the bucket sound.
LEMMA GiveBackKeepsSound ==
    ASSUME TypeOK, TypeOK', now' = now, born' = born, NEW c \in Calls, NEW b \in Buckets,
           Sound(b), GiveBack(c, b), tat'[b] <= now + Capacity,
           tat'[b] >= tat[b] - back[c] * Emission
    PROVE  Sound(b)'
  <1> DEFINE given   == back[c] * Emission
             paidFor == Emission * net[b]
             extra   == Emission * foreign[b]
  <1>1. /\ net[b] \in Int /\ foreign[b] \in Int /\ back[c] \in Int /\ tat[b] \in Int
        /\ tat'[b] \in Int /\ born[b] \in Int /\ Emission \in Int
    BY ConstantTypes DEF TypeOK
  <1>2. given \in Int /\ paidFor \in Int /\ extra \in Int
    BY <1>1, ProductIsInt
  <1>3. CASE bucket[c] = b
    <2>1. net'[b] = net[b] - back[c] /\ foreign'[b] = foreign[b]
      BY <1>3 DEF GiveBack, TypeOK
    <2>2. Emission * net'[b] = paidFor - given
      BY <1>1, <2>1, GiveArithmetic
    <2>3. paidFor <= (tat[b] - born[b]) + extra
      BY DEF Sound
    <2>4. tat'[b] >= tat[b] - given
      OBVIOUS
    <2> HIDE DEF given, paidFor, extra
    <2>5. Emission * net'[b] <= (tat'[b] - born[b]) + extra
      BY <1>1, <1>2, <2>2, <2>3, <2>4
    <2> QED
      BY <2>1, <2>5 DEF Sound, extra
  <1>4. CASE bucket[c] # b
    <2>1. foreign'[b] = foreign[b] + back[c] /\ net'[b] = net[b]
      BY <1>4 DEF GiveBack, TypeOK
    <2>2. Emission * foreign'[b] = extra + given
      BY <1>1, <2>1, PayArithmetic
    <2>3. paidFor <= (tat[b] - born[b]) + extra
      BY DEF Sound
    <2>4. tat'[b] >= tat[b] - given
      OBVIOUS
    <2> HIDE DEF given, paidFor, extra
    <2>5. paidFor <= (tat'[b] - born[b]) + Emission * foreign'[b]
      BY <1>1, <1>2, <2>2, <2>3, <2>4
    <2> QED
      BY <2>1, <2>5 DEF Sound, paidFor
  <1> QED
    BY <1>3, <1>4

\* A step that leaves a bucket's TAT and books alone keeps it sound.
LEMMA UntouchedIsSound ==
    ASSUME TypeOK, now' \in Int, now' >= now, NEW b \in Buckets, Sound(b),
           tat'[b] = tat[b], net'[b] = net[b], foreign'[b] = foreign[b], born'[b] = born[b]
    PROVE  Sound(b)'
  BY ConstantTypes DEF Sound, TypeOK

LEMMA SoundStep == IInv /\ [Next]_vars => (Books /\ AheadBounded)'
  <1> SUFFICES ASSUME IInv, [Next]_vars, NEW b \in Buckets PROVE Sound(b)'
    BY DEF Sound, Books, AheadBounded
  <1>t. TypeOK /\ TypeOK'
    BY TypeStep DEF IInv
  <1>s. Sound(b)
    BY DEF IInv, Books, AheadBounded, Sound
  <1>n. /\ now \in Int /\ Capacity \in Nat /\ Emission \in Nat /\ Emission * 0 = 0
        /\ \A c \in Calls : at[c] \in Nat /\ at[c] <= now
        /\ born[b] \in Int /\ tat[b] \in Int
    BY <1>t, ConstantTypes DEF TypeOK, IInv, Clocks
  <1> USE DEF cache, locals, history
  <1>0. CASE UNCHANGED vars
    BY <1>0, <1>t, <1>s, <1>n, UntouchedIsSound DEF vars
  <1>1. CASE Evict \/ ResetRedis \/ DeleteFails
    BY <1>1, <1>t, <1>s, <1>n, UntouchedIsSound DEF Evict, ResetRedis, DeleteFails
  <1>2. CASE DeleteKey
    <2>1. CASE b = 0
      <3>1. tat'[b] = 0 /\ net'[b] = 0 /\ foreign'[b] = 0 /\ born'[b] = 0 /\ now' = now
        BY <1>2, <2>1, <1>t DEF DeleteKey, TypeOK
      <3>2. now >= 0
        BY <1>t DEF TypeOK
      <3> QED
        BY <3>1, <3>2, <1>n DEF Sound
    <2>2. CASE b # 0
      <3>1. tat'[b] = tat[b] /\ net'[b] = net[b] /\ foreign'[b] = foreign[b] /\ born'[b] = born[b]
        BY <1>2, <2>2, <1>t DEF DeleteKey, TypeOK
      <3>2. now' = now
        BY <1>2 DEF DeleteKey
      <3> QED
        BY <3>1, <3>2, <1>t, <1>s, <1>n, UntouchedIsSound
    <2> QED
      BY <2>1, <2>2
  <1>3. CASE Tick
    <2>1. now' \in Int /\ now' >= now
      BY <1>3, <1>n DEF Tick
    <2> QED
      BY <1>3, <2>1, <1>t, <1>s, <1>n, UntouchedIsSound DEF Tick
  <1>4. ASSUME NEW c \in Calls,
               \/ CheckLists(c) \/ CheckBackend(c) \/ GetBucket(c) \/ LoadAdmits(c)
               \/ LoadRejects(c) \/ SwapFails(c) \/ ScriptRejects(c) \/ ScriptUnreachable(c)
               \/ FailOpen(c) \/ FailClosed(c) \/ FallbackMemory(c) \/ Settle(c)
               \/ RefundLost(c)
        PROVE  Sound(b)'
    <2>1. UNCHANGED <<now, tat, net, foreign, born>>
      BY <1>4 DEF CheckLists, CheckBackend, GetBucket, LoadAdmits, LoadRejects, SwapFails,
                  ScriptRejects, ScriptUnreachable, FailOpen, FailClosed, FallbackMemory,
                  Settle, RefundLost
    <2> QED
      BY <2>1, <1>t, <1>s, <1>n, UntouchedIsSound
  <1>5. ASSUME NEW c \in Calls, MakeBucket(c) PROVE Sound(b)'
    <2>1. UNCHANGED <<now, net, foreign>>
      BY <1>5 DEF MakeBucket
    <2>2. CASE b = made + 1
      <3>1. net[b] = 0 /\ foreign[b] = 0
        BY <2>2, <1>t DEF IInv, Fresh, Missing, TypeOK, Buckets
      <3>2. tat'[b] = at[c] /\ born'[b] = at[c]
        BY <1>5, <2>2, <1>t DEF MakeBucket, TypeOK
      <3> QED
        BY <2>1, <3>1, <3>2, <1>n DEF Sound
    <2>3. CASE b # made + 1
      <3>1. tat'[b] = tat[b] /\ born'[b] = born[b]
        BY <1>5, <2>3, <1>t DEF MakeBucket, TypeOK
      <3> QED
        BY <2>1, <3>1, <1>t, <1>s, <1>n, UntouchedIsSound
    <2> QED
      BY <2>2, <2>3
  <1>6. ASSUME NEW c \in Calls, Swap(c) PROVE Sound(b)'
    <2>1. UNCHANGED <<now, foreign, born>> /\ Pay(c, bucket[c], seen[c])
      BY <1>6 DEF Swap
    <2>2. CASE b = bucket[c]
      <3>1. seen[c] = tat[b] /\ seen[c] \in Int
        BY <1>6, <2>2, <1>t DEF Swap, TypeOK
      <3>2. Admits(seen[c], at[c], Cost[c])
        BY <1>6 DEF Swap, IInv, Swapping
      <3>3. Emission * net[b] <= (seen[c] - born'[b]) + Emission * foreign[b]
        BY <2>1, <3>1, <1>s DEF Sound
      <3> QED
        BY <2>1, <2>2, <3>1, <3>2, <3>3, <1>t, <1>n, PayKeepsSound
    <2>3. CASE b # bucket[c]
      <3>1. tat'[b] = tat[b] /\ net'[b] = net[b]
        BY <2>1, <2>3, <1>t DEF Pay, TypeOK
      <3> QED
        BY <2>1, <3>1, <1>t, <1>s, <1>n, UntouchedIsSound
    <2> QED
      BY <2>2, <2>3
  <1>7. ASSUME NEW c \in Calls, ScriptAllows(c) PROVE Sound(b)'
    <2>1. UNCHANGED <<now, foreign>> /\ Pay(c, 0, ScriptTat(c))
      BY <1>7 DEF ScriptAllows
    <2>2. CASE b = 0
      <3>1. ScriptTat(c) \in Int /\ Admits(ScriptTat(c), at[c], Cost[c])
        BY <1>7, <2>2, <1>t, <1>n DEF ScriptAllows, ScriptTat, TypeOK
      <3>2. CASE keyed
        <4>1. ScriptTat(c) = tat[b] /\ born' = born
          BY <1>7, <2>2, <3>2 DEF ScriptAllows, ScriptTat
        <4>2. Emission * net[b] <= (ScriptTat(c) - born'[b]) + Emission * foreign[b]
          BY <4>1, <1>s DEF Sound
        <4> QED
          BY <2>1, <2>2, <3>1, <4>2, <1>t, <1>n, PayKeepsSound
      <3>3. CASE ~keyed
        <4>1. net[b] = 0 /\ foreign[b] = 0
          BY <2>2, <3>3 DEF IInv, Fresh, Missing
        <4>2. ScriptTat(c) = at[c] /\ born'[b] = at[c]
          BY <1>7, <2>2, <3>3, <1>t DEF ScriptAllows, ScriptTat, TypeOK
        <4>3. Emission * net[b] <= (ScriptTat(c) - born'[b]) + Emission * foreign[b]
          BY <4>1, <4>2, <1>n
        <4> QED
          BY <2>1, <2>2, <3>1, <4>3, <1>t, <1>n, PayKeepsSound
      <3> QED
        BY <3>2, <3>3
    <2>3. CASE b # 0
      <3>1. tat'[b] = tat[b] /\ net'[b] = net[b]
        BY <2>1, <2>3, <1>t DEF Pay, TypeOK
      <3>2. born'[b] = born[b]
        BY <1>7, <2>3, <1>t DEF ScriptAllows, TypeOK
      <3> QED
        BY <2>1, <3>1, <3>2, <1>t, <1>s, <1>n, UntouchedIsSound
    <2> QED
      BY <2>2, <2>3
  <1>8. ASSUME NEW c \in Calls, RefundMemory(c) PROVE Sound(b)'
    <2>1. UNCHANGED <<now, born>> /\ GiveBack(c, current)
      BY <1>8 DEF RefundMemory
    <2>2. back[c] * Emission \in Nat
      BY <1>t, <1>n, ProductIsNat DEF TypeOK
    <2>3. CASE b = current
      <3>1. tat'[b] = tat[b] - back[c] * Emission
        BY <1>8, <2>3, <1>t DEF RefundMemory, TypeOK
      <3>2. tat'[b] <= now + Capacity /\ tat'[b] >= tat[b] - back[c] * Emission
        BY <2>2, <3>1, <1>s, <1>n DEF Sound
      <3> QED
        BY <2>1, <2>3, <3>2, <1>t, <1>s, GiveBackKeepsSound
    <2>4. CASE b # current
      <3>1. tat'[b] = tat[b] /\ net'[b] = net[b] /\ foreign'[b] = foreign[b]
        BY <1>8, <2>1, <2>4, <1>t DEF RefundMemory, GiveBack, TypeOK
      <3> QED
        BY <2>1, <3>1, <1>t, <1>s, <1>n, UntouchedIsSound
    <2> QED
      BY <2>3, <2>4
  <1>9. ASSUME NEW c \in Calls, RefundRedis(c) PROVE Sound(b)'
    <2>1. UNCHANGED <<now, born>> /\ GiveBack(c, 0)
      BY <1>9 DEF RefundRedis
    <2>2. back[c] * Emission \in Nat
      BY <1>t, <1>n, ProductIsNat DEF TypeOK
    <2>3. CASE b = 0
      <3>1. tat'[b] = Later(tat[b] - back[c] * Emission, at[c])
        BY <1>9, <2>3, <1>t DEF RefundRedis, TypeOK
      <3>2. tat'[b] <= now + Capacity /\ tat'[b] >= tat[b] - back[c] * Emission
        BY <2>2, <3>1, <1>s, <1>n DEF Sound, Later
      <3> QED
        BY <2>1, <2>3, <3>2, <1>t, <1>s, GiveBackKeepsSound
    <2>4. CASE b # 0
      <3>1. tat'[b] = tat[b] /\ net'[b] = net[b] /\ foreign'[b] = foreign[b]
        BY <1>9, <2>1, <2>4, <1>t DEF RefundRedis, GiveBack, TypeOK
      <3> QED
        BY <2>1, <3>1, <1>t, <1>s, <1>n, UntouchedIsSound
    <2> QED
      BY <2>3, <2>4
  <1> QED
    BY <1>0, <1>1, <1>2, <1>3, <1>4, <1>5, <1>6, <1>7, <1>8, <1>9
       DEF Next, Reset, CheckMemory, CheckRedis, Refund

LEMMA InvStep == IInv /\ [Next]_vars => IInv'
  BY TypeStep, SoundStep, SwappingStep, ClocksStep, FreshStep DEF IInv

LEMMA GcraIInv == Spec => []IInv
  <1>1. Init => IInv
    BY InvInit
  <1>2. IInv /\ [Next]_vars => IInv'
    BY InvStep
  <1> QED
    BY <1>1, <1>2, PTL DEF Spec

(* QuotaBound, of every behaviour: no interleaving of loads, swaps, refunds *)
(* and resets with stale clocks, in any mixture of backends and policies,   *)
(* lets more units through one bucket than a burst and the elapsed time,    *)
(* save those given back by calls that had not paid into it.                *)
THEOREM GcraQuota == Spec => []QuotaBound
  <1>1. IInv => QuotaBound
    <2> SUFFICES ASSUME IInv, NEW b \in Buckets
                 PROVE  Emission * net[b] <= (now - born[b]) + Capacity + Emission * foreign[b]
      BY DEF QuotaBound
    <2> DEFINE paidFor == Emission * net[b]
               extra   == Emission * foreign[b]
    <2>1. /\ net[b] \in Int /\ foreign[b] \in Int /\ tat[b] \in Int /\ born[b] \in Int
          /\ now \in Int /\ Emission \in Int /\ Capacity \in Int
      BY ConstantTypes DEF IInv, TypeOK
    <2>2. paidFor \in Int /\ extra \in Int
      BY <2>1, ProductIsInt
    <2>3. paidFor <= (tat[b] - born[b]) + extra /\ tat[b] <= now + Capacity
      BY DEF IInv, Books, AheadBounded
    <2> HIDE DEF paidFor, extra
    <2>4. paidFor <= (now - born[b]) + Capacity + extra
      BY <2>1, <2>2, <2>3
    <2> QED
      BY <2>4 DEF paidFor, extra
  <1> QED
    BY <1>1, GcraIInv, PTL

(* AheadBounded, of every behaviour: a call that read its clock early, or   *)
(* lost the race of the compare-and-swap, never pushes a TAT further than   *)
(* one burst ahead of the clock.                                            *)
THEOREM GcraAhead == Spec => []AheadBounded
  <1>1. IInv => AheadBounded
    BY DEF IInv
  <1> QED
    BY <1>1, GcraIInv, PTL

-----------------------------------------------------------------------------
(* Windows and slots (RateWindows).                                        *)

\* The types the proofs need.
Types ==
    /\ algorithm \in Algorithms /\ backend \in {"memory", "redis"}
    /\ clock \in Times
    /\ stage \in [Checks -> {"idle", "read", "decided"}]
    /\ reading \in [Checks -> Times \cup {None}]
    /\ \A c \in Checks : stage[c] # "idle" => reading[c] \in Times
    /\ grant \in [Checks -> Int]
    /\ \A c \in Checks : stage[c] # "decided" => grant[c] = None
    /\ counting \in Int /\ count \in [Ids -> Nat]
    /\ next \in Int /\ returns \in Nat

-----------------------------------------------------------------------------
(* Slots                                                                   *)

NextIsBeyond ==
    algorithm \in {"leaky", "throttle"} =>
        \A c \in Granted : next >= grant[c] + Interval

SlotInv == Types /\ NextIsBeyond /\ SlotsApart

\* Division keeps the order.
LEMMA DivMonotone ==
    ASSUME NEW a \in Nat, NEW b \in Nat, NEW w \in Nat \ {0}, a <= b
    PROVE  a \div w \in Nat /\ b \div w \in Nat /\ a \div w <= b \div w
<1> DEFINE x == a \div w
           y == b \div w
           p == w * x
           q == w * y
<1>1. x \in Nat /\ y \in Nat /\ p \in Nat /\ q \in Nat
    OBVIOUS
<1>2. /\ a = p + (a % w) /\ 0 <= a % w /\ a % w < w /\ a % w \in Int
      /\ b = q + (b % w) /\ 0 <= b % w /\ b % w < w /\ b % w \in Int
    OBVIOUS
<1>3. p < q + w
    <2> HIDE DEF p, q
    <2> QED
        BY <1>1, <1>2
<1> HIDE DEF x, y
<1>4. w * x < w * y + w
    BY <1>3
<1>5. x <= y
    <2>1. SUFFICES ASSUME y + 1 <= x PROVE FALSE
        BY <1>1
    <2>2. w * (y + 1) <= w * x
        BY <2>1, <1>1
    <2>3. w * (y + 1) = w * y + w
        BY <1>1
    <2> QED
        BY <2>2, <2>3, <1>4, <1>1
<1> QED
    BY <1>1, <1>5 DEF x, y

LEMMA DivOfMultiple ==
    ASSUME NEW n \in Nat, NEW w \in Nat \ {0}
    PROVE  (n * w) \div w = n /\ n * w \in Nat
OBVIOUS

LEMMA IdInIds == ASSUME NEW t \in Times PROVE Id(t) \in Ids
<1>1. LastTime \in Nat /\ Window \in Nat \ {0}
    BY WindowsAssumption
<1>2. t \in Nat /\ t <= LastTime
    BY <1>1 DEF Times
<1> QED
    BY <1>1, <1>2, DivMonotone DEF Id, Ids

\* What the three algorithms do with the grants.
LEMMA DecideShape ==
    ASSUME Types, NEW c \in Checks, Decide(c)
    PROVE  /\ stage[c] = "read" /\ stage' = [stage EXCEPT ![c] = "decided"]
           /\ UNCHANGED <<config, clock, reading>>
           /\ reading[c] \in Times /\ c \notin Granted
           /\ \/ grant' = grant
              \/ \E t \in Int : t # None /\ grant' = [grant EXCEPT ![c] = t]
<1>1. reading[c] \in Times /\ reading[c] \in Nat
    BY WindowsAssumption DEF Types, Decide, Times
<1>2. stage[c] = "read" /\ stage' = [stage EXCEPT ![c] = "decided"] /\ UNCHANGED <<config, clock, reading>>
    BY DEF Decide, Remember
<1>3. c \notin Granted
    BY <1>2 DEF Types, Granted
<1>4. ASSUME NEW t, Allow(c, t), t \in Nat
      PROVE  \E u \in Int : u # None /\ grant' = [grant EXCEPT ![c] = u]
    <2>1. t \in Int /\ t # None
        BY <1>4 DEF None
    <2> QED
        BY <1>4, <2>1 DEF Allow
<1>5. FixedWindow(c) => grant' = grant \/ \E u \in Int : u # None /\ grant' = [grant EXCEPT ![c] = u]
    BY <1>1, <1>4 DEF FixedWindow, Reject
<1>6. SlidingWindow(c) => grant' = grant \/ \E u \in Int : u # None /\ grant' = [grant EXCEPT ![c] = u]
    BY <1>1, <1>4 DEF SlidingWindow, Reject
<1>7. ScheduledSlot(c) => grant' = grant \/ \E u \in Int : u # None /\ grant' = [grant EXCEPT ![c] = u]
    <2> DEFINE slot == IF next > reading[c] THEN next ELSE reading[c]
    <2>1. slot \in Nat
        BY <1>1 DEF Types
    <2> QED
        BY <2>1, <1>4 DEF ScheduledSlot, Reject
<1> QED
    BY <1>1, <1>2, <1>3, <1>5, <1>6, <1>7 DEF Decide

LEMMA DecideTypes ==
    ASSUME Types, NEW c \in Checks, Decide(c)
    PROVE  Types'
<1>1. Id(reading[c]) \in Ids /\ Id(reading[c]) \in Int
    BY DecideShape, IdInIds DEF Ids
<1>2. counting' \in Int /\ count' \in [Ids -> Nat] /\ next' \in Int /\ returns' \in Nat
    <2>1. CASE FixedWindow(c)
        <3>1. NewCount(Id(reading[c])) \in [Ids -> Nat]
            BY <1>1 DEF Types, NewCount, Counted
        <3> QED
            BY <2>1, <3>1, <1>1 DEF FixedWindow, Types
    <2>2. CASE SlidingWindow(c)
        BY <2>2 DEF SlidingWindow, Types
    <2>3. CASE ScheduledSlot(c)
        BY <2>3, DecideShape, WindowsAssumption DEF ScheduledSlot, NextSlot, Types, Times
    <2> QED
        BY <2>1, <2>2, <2>3 DEF Decide
<1>3. grant' \in [Checks -> Int]
    BY DecideShape DEF Types
<1> QED
    BY <1>2, <1>3, DecideShape DEF Types, config

LEMMA InitTypes == WindowsInit => Types
BY WindowsAssumption DEF WindowsInit, Types, Times, None, Algorithms

LEMMA TickReadTypes ==
    ASSUME Types, Advance \/ \E c \in Checks : ReadClock(c)
    PROVE  Types'
<1>1. CASE Advance
    BY <1>1, WindowsAssumption DEF Advance, Types, Times, config, calls, state, windowHistory
<1>2. ASSUME NEW c \in Checks, ReadClock(c) PROVE Types'
    BY <1>2 DEF ReadClock, Types, config, state, windowHistory
<1> QED
    BY <1>1, <1>2

LEMMA StutterTypes == Types /\ UNCHANGED windowVars => Types'
BY DEF Types, windowVars, config, calls, state, windowHistory

LEMMA NextTypes == Types /\ [WindowsNext]_windowVars => Types'
BY DecideTypes, TickReadTypes, StutterTypes DEF WindowsNext

\* Steps that decide nothing leave the grants as they are.
LEMMA OthersKeep ==
    ASSUME Types, [WindowsNext]_windowVars, ~ \E c \in Checks : Decide(c)
    PROVE  /\ UNCHANGED <<config, grant, state, returns>>
           /\ \A c \in Granted : reading'[c] = reading[c]
<1>1. CASE UNCHANGED windowVars
    BY <1>1 DEF windowVars, calls, windowHistory
<1>2. CASE Advance
    BY <1>2 DEF Advance, calls, windowHistory
<1>3. ASSUME NEW c \in Checks, ReadClock(c)
      PROVE  /\ UNCHANGED <<config, grant, state, returns>>
             /\ \A d \in Granted : reading'[d] = reading[d]
    BY <1>3 DEF ReadClock, Types, Granted, windowHistory
<1> QED
    BY <1>1, <1>2, <1>3 DEF WindowsNext

LEMMA DecideSlots ==
    ASSUME SlotInv, NEW c \in Checks, Decide(c)
    PROVE  NextIsBeyond' /\ SlotsApart'
<1> DEFINE slot == IF next > reading[c] THEN next ELSE reading[c]
<1>1. SUFFICES ASSUME algorithm \in {"leaky", "throttle"}
               PROVE  /\ \A d \in Granted' : next' >= grant'[d] + Interval
                      /\ \A d, e \in Granted' : d # e =>
                            grant'[d] >= grant'[e] + Interval \/ grant'[e] >= grant'[d] + Interval
    BY DecideShape DEF SlotInv, NextIsBeyond, SlotsApart, config
<1>2. ScheduledSlot(c)
    BY <1>1 DEF Decide, FixedWindow, SlidingWindow
<1>3. Interval \in Nat /\ next \in Int /\ slot \in Int /\ slot >= next /\ grant \in [Checks -> Int]
    BY DecideShape, WindowsAssumption DEF SlotInv, Types, Times
<1>4. CASE grant' = grant /\ next' = next
    BY <1>1, <1>4 DEF SlotInv, NextIsBeyond, SlotsApart, Granted
<1>5. CASE grant' = [grant EXCEPT ![c] = slot] /\ next' = slot + Interval
    <2>1. \A d \in Granted : slot >= grant[d] + Interval
        BY <1>1, <1>3 DEF SlotInv, NextIsBeyond, Granted
    <2>2. Granted' \subseteq Granted \cup {c}
        BY <1>5 DEF Granted, SlotInv, Types
    <2>3. \A d \in Granted : d # c => grant'[d] = grant[d]
        BY <1>5 DEF Granted, SlotInv, Types
    <2>4. c \notin Granted /\ grant'[c] = slot
        BY <1>5, DecideShape DEF SlotInv, Types
    <2>5. \A d \in Granted' : next' >= grant'[d] + Interval
        BY <1>3, <1>5, <2>1, <2>2, <2>3, <2>4 DEF Granted
    <2>6. \A d, e \in Granted' : d # e =>
             grant'[d] >= grant'[e] + Interval \/ grant'[e] >= grant'[d] + Interval
        BY <1>1, <2>1, <2>2, <2>3, <2>4 DEF SlotInv, SlotsApart
    <2> QED
        BY <2>5, <2>6
<1> QED
    BY <1>2, <1>4, <1>5 DEF ScheduledSlot, Allow, Reject, NextSlot

\* The slots of a leaky bucket or a throttle queue are an interval apart.
THEOREM SpecSlotsApart == WindowsSpec => []SlotsApart
<1>1. WindowsInit => SlotInv
    BY InitTypes DEF WindowsInit, SlotInv, NextIsBeyond, SlotsApart, Granted
<1>2. SlotInv /\ [WindowsNext]_windowVars => SlotInv'
    <2> SUFFICES ASSUME SlotInv, [WindowsNext]_windowVars PROVE NextIsBeyond' /\ SlotsApart'
        BY NextTypes DEF SlotInv
    <2>1. CASE \E c \in Checks : Decide(c)
        BY <2>1, DecideSlots
    <2>2. CASE ~ \E c \in Checks : Decide(c)
        BY <2>2, OthersKeep DEF SlotInv, NextIsBeyond, SlotsApart, Granted, config, state
    <2> QED
        BY <2>1, <2>2
<1>3. SlotInv => SlotsApart
    BY DEF SlotInv
<1> QED
    BY <1>1, <1>2, <1>3, PTL DEF WindowsSpec

-----------------------------------------------------------------------------
(* Fixed windows                                                           *)

Held(w) == Cardinality(GrantedBy(w))

\* In memory: every time the memory went back, each window may have been
\* filled once more; the one it counts in is filled up to its count, later
\* ones not since.
MemoryCounts ==
    \A w \in Ids :
        /\ count[w] <= Limit
        /\ Held(w) <= Limit * returns
                        + (IF w < counting THEN Limit ELSE IF w = counting THEN count[w] ELSE 0)

\* In Redis: what is granted was counted, and never beyond the limit.
RedisCounts ==
    \A w \in Ids : Held(w) <= count[w] /\ Held(w) <= Limit

FixedInv ==
    /\ Types
    /\ algorithm = "fixed" => IF backend = "memory" THEN MemoryCounts ELSE RedisCounts

LEMMA HeldIsNat == ASSUME NEW w PROVE Held(w) \in Nat /\ IsFiniteSet(GrantedBy(w))
<1>1. GrantedBy(w) \subseteq Checks
    BY DEF GrantedBy, Granted
<1> QED
    BY <1>1, WindowsAssumption, FS_Subset, FS_CardinalityType DEF Held

\* A grant adds one call to the window of its reading.
LEMMA GrantAdds ==
    ASSUME Types, NEW c \in Checks, Decide(c), Allow(c, reading[c]), NEW v
    PROVE  Held(v)' = IF v = Id(reading[c]) THEN Held(v) + 1 ELSE Held(v)
<1>1. reading[c] # None /\ reading' = reading /\ c \notin Granted
    BY DecideShape, WindowsAssumption DEF Times, None
<1>2. Granted' = Granted \cup {c}
    BY <1>1 DEF Granted, Allow, Types
<1>3. CASE v = Id(reading[c])
    <2>1. GrantedBy(v)' = GrantedBy(v) \cup {c} /\ c \notin GrantedBy(v)
        BY <1>1, <1>2, <1>3 DEF GrantedBy
    <2>2. Cardinality(GrantedBy(v)') = Cardinality(GrantedBy(v)) + 1
        BY <2>1, HeldIsNat, FS_AddElement
    <2> QED
        BY <1>3, <2>2 DEF Held
<1>4. CASE v # Id(reading[c])
    <2>1. GrantedBy(v)' = GrantedBy(v)
        BY <1>1, <1>2, <1>4 DEF GrantedBy
    <2> QED
        BY <1>4, <2>1 DEF Held
<1> QED
    BY <1>3, <1>4

LEMMA SameGrantsHeld ==
    ASSUME grant' = grant, \A d \in Granted : reading'[d] = reading[d]
    PROVE  \A v : Held(v)' = Held(v)
<1>1. Granted' = Granted
    BY DEF Granted
<1>2. ASSUME NEW v PROVE GrantedBy(v)' = GrantedBy(v)
    BY <1>1 DEF GrantedBy
<1> QED
    BY <1>2 DEF Held

LEMMA MemoryKept ==
    ASSUME Types, algorithm = "fixed", backend = "memory", MemoryCounts,
           NEW c \in Checks, Decide(c)
    PROVE  MemoryCounts'
<1> DEFINE w == Id(reading[c])
           B == Limit * returns
<1>1. w \in Ids /\ w \in Int /\ Limit \in Nat \ {0} /\ returns \in Nat /\ B \in Nat
    BY DecideShape, IdInIds, WindowsAssumption DEF Ids, Types
<1>2. FixedWindow(c) /\ counting' = w
        /\ returns' = IF w < counting THEN returns + 1 ELSE returns
    BY DEF Decide, FixedWindow, SlidingWindow, ScheduledSlot
<1>3. Limit * returns' = IF w < counting THEN B + Limit ELSE B
    BY <1>1, <1>2
<1>4. count \in [Ids -> Nat] /\ counting \in Int
    BY DEF Types
<1>5. \A v \in Ids : v \in Int /\ Held(v) \in Nat
    BY HeldIsNat DEF Ids
<1> HIDE DEF B
<1>6. CASE ~ Full(w) /\ Allow(c, reading[c]) /\ count' = NewCount(w)
    <2>1. ASSUME NEW v \in Ids PROVE Held(v)' = IF v = w THEN Held(v) + 1 ELSE Held(v)
        BY <1>6, GrantAdds
    <2>2. count'[w] = (IF w = counting THEN count[w] ELSE 0) + 1 /\ count'[w] <= Limit
            /\ \A v \in Ids : v # w => count'[v] = count[v]
        BY <1>1, <1>4, <1>6 DEF Full, NewCount, Counted
    <2> HIDE DEF w
    <2>3. ASSUME NEW v \in Ids
          PROVE  Held(v)' <= Limit * returns'
                    + (IF v < counting' THEN Limit ELSE IF v = counting' THEN count'[v] ELSE 0)
        <3>1. Held(v) <= B + (IF v < counting THEN Limit
                              ELSE IF v = counting THEN count[v] ELSE 0) /\ count[v] <= Limit
            BY DEF MemoryCounts, B
        <3>2. v \in Int /\ Held(v) \in Nat /\ count[v] \in Nat /\ counting' = w
            BY <1>2, <1>4, <1>5
        <3>3. CASE v # w
            <4>1. Held(v)' = Held(v) /\ count'[v] = count[v]
                BY <2>1, <2>2, <3>3
            <4>2. CASE w < counting
                <5>1. Limit * returns' = B + Limit
                    BY <1>3, <4>2
                <5> QED
                    BY <1>1, <1>4, <3>1, <3>2, <3>3, <4>1, <4>2, <5>1
            <4>3. CASE ~ (w < counting)
                <5>1. Limit * returns' = B
                    BY <1>3, <4>3
                <5> QED
                    BY <1>1, <1>4, <3>1, <3>2, <3>3, <4>1, <4>3, <5>1
            <4> QED
                BY <4>2, <4>3
        <3>4. CASE v = w
            <4>1. Held(v)' = Held(v) + 1
                    /\ count'[v] = (IF v = counting THEN count[v] ELSE 0) + 1
                BY <2>1, <2>2, <3>4
            <4>2. CASE w < counting
                <5>1. Limit * returns' = B + Limit
                    BY <1>3, <4>2
                <5> QED
                    BY <1>1, <1>4, <3>1, <3>2, <3>4, <4>1, <4>2, <5>1
            <4>3. CASE ~ (w < counting)
                <5>1. Limit * returns' = B
                    BY <1>3, <4>3
                <5> QED
                    BY <1>1, <1>4, <3>1, <3>2, <3>4, <4>1, <4>3, <5>1
            <4> QED
                BY <4>2, <4>3
        <3> QED
            BY <3>3, <3>4
    <2> QED
        BY <2>2, <2>3, <1>4 DEF MemoryCounts, Held
<1>7. CASE Full(w) /\ Reject(c, (w + 1) * Window) /\ count' = count
    <2>1. w = counting /\ grant' = grant /\ reading' = reading
        BY <1>1, <1>7, DecideShape DEF Full, Counted, Reject
    <2>2. \A v : Held(v)' = Held(v)
        BY <2>1, SameGrantsHeld
    <2>3. returns' = returns /\ counting' = counting
        BY <2>1, <1>2, <1>4
    <2> QED
        BY <2>2, <2>3, <1>7 DEF MemoryCounts
<1> QED
    BY <1>2, <1>6, <1>7 DEF FixedWindow

LEMMA RedisKept ==
    ASSUME Types, algorithm = "fixed", backend = "redis", RedisCounts,
           NEW c \in Checks, Decide(c)
    PROVE  RedisCounts'
<1> DEFINE w == Id(reading[c])
<1>1. w \in Ids /\ Limit \in Nat
    BY DecideShape, IdInIds, WindowsAssumption
<1>2. FixedWindow(c)
    BY DEF Decide, SlidingWindow, ScheduledSlot
<1>3. count \in [Ids -> Nat] /\ count' = [count EXCEPT ![w] = count[w] + 1]
    BY <1>2 DEF FixedWindow, NewCount, Counted, Types
<1>4. \A v \in Ids : Held(v) \in Nat
    BY HeldIsNat
<1>5. CASE ~ Full(w) /\ Allow(c, reading[c])
    <2>1. ASSUME NEW v \in Ids PROVE Held(v)' = IF v = w THEN Held(v) + 1 ELSE Held(v)
        BY <1>5, GrantAdds
    <2>2. count[w] < Limit
        BY <1>1, <1>3, <1>5 DEF Full, Counted
    <2> HIDE DEF w
    <2>3. ASSUME NEW v \in Ids PROVE Held(v)' <= count'[v] /\ Held(v)' <= Limit
        <3>1. Held(v) \in Nat /\ count[v] \in Nat /\ Held(v) <= count[v] /\ Held(v) <= Limit
            BY <1>3, <1>4 DEF RedisCounts
        <3>2. CASE v # w
            <4>1. Held(v)' = Held(v) /\ count'[v] = count[v]
                BY <1>1, <1>3, <2>1, <3>2
            <4> QED
                BY <3>1, <4>1
        <3>3. CASE v = w
            <4>1. Held(v)' = Held(v) + 1 /\ count'[v] = count[v] + 1 /\ count[v] < Limit
                BY <1>1, <1>3, <2>1, <2>2, <3>3
            <4> QED
                BY <1>1, <3>1, <4>1
        <3> QED
            BY <3>2, <3>3
    <2> QED
        BY <2>3 DEF RedisCounts
<1>6. CASE Full(w) /\ Reject(c, (w + 1) * Window)
    <2>1. \A v : Held(v)' = Held(v)
        BY <1>6, DecideShape, SameGrantsHeld DEF Reject
    <2> HIDE DEF w
    <2>2. ASSUME NEW v \in Ids PROVE Held(v)' <= count'[v] /\ Held(v)' <= Limit
        BY <1>1, <1>3, <1>4, <2>1 DEF RedisCounts
    <2> QED
        BY <2>2 DEF RedisCounts
<1> QED
    BY <1>2, <1>5, <1>6 DEF FixedWindow

\* A window lets its limit through, once more for every time a late call made
\* the memory go back; in Redis it lets its limit through.
THEOREM SpecWindowBound == WindowsSpec => []WindowBound
<1>1. WindowsInit => FixedInv
    <2> SUFFICES ASSUME WindowsInit PROVE MemoryCounts /\ RedisCounts
        BY InitTypes DEF FixedInv
    <2>1. \A v : GrantedBy(v) = {}
        BY DEF WindowsInit, GrantedBy, Granted
    <2>2. \A v : Held(v) = 0
        BY <2>1, FS_EmptySet DEF Held
    <2>3. Limit \in Nat /\ Limit * 0 = 0
        BY WindowsAssumption
    <2> QED
        BY <2>2, <2>3 DEF WindowsInit, MemoryCounts, RedisCounts, Ids, None
<1>2. FixedInv /\ [WindowsNext]_windowVars => FixedInv'
    <2> SUFFICES ASSUME FixedInv, [WindowsNext]_windowVars, algorithm' = "fixed"
                 PROVE  IF backend' = "memory" THEN MemoryCounts' ELSE RedisCounts'
        BY NextTypes DEF FixedInv
    <2>1. CASE \E c \in Checks : Decide(c)
        <3>1. algorithm' = algorithm /\ backend' = backend
            BY <2>1 DEF Decide, config
        <3> QED
            BY <2>1, <3>1, MemoryKept, RedisKept DEF FixedInv, Types
    <2>2. CASE ~ \E c \in Checks : Decide(c)
        <3>1. \A v : Held(v)' = Held(v)
            BY <2>2, OthersKeep, SameGrantsHeld DEF FixedInv
        <3> QED
            BY <2>2, <3>1, OthersKeep DEF FixedInv, MemoryCounts, RedisCounts, config, state
    <2> QED
        BY <2>1, <2>2
<1>3. FixedInv => WindowBound
    <2> SUFFICES ASSUME FixedInv, algorithm = "fixed", NEW w \in Ids
                 PROVE  Held(w) <= Limit * (1 + returns)
        BY DEF WindowBound, Held
    <2> DEFINE B == Limit * returns
    <2>1. Limit \in Nat /\ returns \in Nat /\ B \in Nat /\ Limit * (1 + returns) = B + Limit
        BY WindowsAssumption DEF FixedInv, Types
    <2>2. Held(w) \in Nat /\ count[w] \in Nat
        BY HeldIsNat DEF FixedInv, Types
    <2>3. CASE backend = "memory"
        <3>1. Held(w) <= B + (IF w < counting THEN Limit ELSE IF w = counting THEN count[w] ELSE 0)
                /\ count[w] <= Limit
            BY <2>3 DEF FixedInv, MemoryCounts
        <3> HIDE DEF B
        <3> QED
            BY <2>1, <2>2, <3>1
    <2>4. CASE backend # "memory"
        <3>1. Held(w) <= Limit
            BY <2>4 DEF FixedInv, RedisCounts
        <3> HIDE DEF B
        <3> QED
            BY <2>1, <2>2, <3>1
    <2> QED
        BY <2>3, <2>4
<1> QED
    BY <1>1, <1>2, <1>3, PTL DEF WindowsSpec


-----------------------------------------------------------------------------
(* Sliding windows                                                         *)

\* The types of the log and of what a rejection leaves behind.
FullTypes ==
    /\ Types
    /\ log \subseteq Granted /\ place \in [Checks -> Nat]
    /\ until \in [Checks -> Int] /\ since \in [Checks -> Nat]

\* What was dropped from the log had left the window of a call that decided.
DroppedAreOld ==
    \A d \in Granted \ log : \E e \in Decided : reading[e] - Window >= reading[d]

SlidingInv ==
    /\ FullTypes
    /\ algorithm = "sliding" => DroppedAreOld
    /\ SlidingBound

\* What a decision adds to the history.
LEMMA DecideHistory ==
    ASSUME Types, NEW c \in Checks, Decide(c)
    PROVE  /\ Decided' = Decided \cup {c} /\ c \notin Decided
           /\ late \subseteq late'
           /\ late' # {} => late # {} \/ \E d \in Decided : reading[d] > reading[c]
           /\ c \notin late' => \A d \in Decided : reading[d] <= reading[c]
<1>1. Decided' = Decided \cup {c} /\ c \notin Decided
    BY DecideShape DEF Decided, Types
<1>2. \A d \in Checks : reading[d] \in Int
    BY WindowsAssumption DEF Types, Times, None
<1>3. late' = IF \E d \in Decided : reading[d] > reading[c] THEN late \cup {c} ELSE late
    BY DEF Decide, Remember
<1>4. Decided \subseteq Checks
    BY DEF Decided
<1> QED
    BY <1>1, <1>2, <1>3, <1>4

\* Steps that decide nothing leave the history as it is, and the readings of
\* the calls that decided.
LEMMA OthersHistory ==
    ASSUME Types, [WindowsNext]_windowVars, ~ \E c \in Checks : Decide(c)
    PROVE  /\ Decided' = Decided /\ Granted' = Granted
           /\ UNCHANGED <<config, grant, until, state, windowHistory>>
           /\ \A c \in Decided \cup Granted : reading'[c] = reading[c]
<1>1. CASE UNCHANGED windowVars
    BY <1>1 DEF windowVars, calls, Decided, Granted
<1>2. CASE Advance
    BY <1>2 DEF Advance, calls, Decided, Granted
<1>3. ASSUME NEW c \in Checks, ReadClock(c)
      PROVE  /\ Decided' = Decided /\ Granted' = Granted
             /\ UNCHANGED <<config, grant, until, state, windowHistory>>
             /\ \A d \in Decided \cup Granted : reading'[d] = reading[d]
    BY <1>3 DEF ReadClock, Types, Granted, Decided
<1> QED
    BY <1>1, <1>2, <1>3 DEF WindowsNext

\* The grants of a decision.
LEMMA GrantsAfter ==
    ASSUME Types, NEW c \in Checks, Decide(c)
    PROVE  /\ Reject(c, until'[c]) => Granted' = Granted
           /\ \A t \in Int : Allow(c, t) /\ t # None => Granted' = Granted \cup {c}
           /\ c \notin Granted /\ IsFiniteSet(Granted) /\ Granted \subseteq Decided
<1>1. Granted \subseteq Checks
    BY DEF Granted
<1>2. IsFiniteSet(Granted)
    BY <1>1, WindowsAssumption, FS_Subset
<1>3. c \notin Granted
    BY DecideShape
<1>4. \A t \in Int : Allow(c, t) /\ t # None => Granted' = Granted \cup {c}
    BY DEF Allow, Granted, Types
<1>5. Reject(c, until'[c]) => Granted' = Granted
    BY DEF Reject, Granted
<1>6. Granted \subseteq Decided
    BY DEF Granted, Decided, Types
<1> QED
    BY <1>2, <1>3, <1>4, <1>5, <1>6

\* A sliding window decides with the log of the moment.
LEMMA SlidingShape ==
    ASSUME Types, algorithm = "sliding", NEW c \in Checks, Decide(c)
    PROVE  \/ /\ Granted' = Granted \cup {c} /\ Allow(c, reading[c])
              /\ Cardinality(Live(reading[c] - Window)) < Limit
              /\ Add(c, Live(reading[c] - Window))
           \/ /\ Granted' = Granted /\ UNCHANGED place
              /\ Cardinality(Live(reading[c] - Window)) >= Limit
              /\ log' = Live(reading[c] - Window)
              /\ \E first \in Live(reading[c] - Window) :
                    LET free == reading[first] + Window
                    IN  /\ \A d \in Live(reading[c] - Window) : Before(first, d)
                        /\ Reject(c, IF free < reading[c] THEN reading[c] ELSE free)
<1>1. SlidingWindow(c)
    BY DEF Decide, FixedWindow, ScheduledSlot
<1>2. reading[c] \in Int /\ reading[c] # None
    BY DecideShape, WindowsAssumption DEF Times, None
<1>3. Allow(c, reading[c]) => Granted' = Granted \cup {c}
    BY <1>2, GrantsAfter
<1>4. \A t : Reject(c, t) => Granted' = Granted
    BY DEF Reject, Granted
<1> HIDE DEF Live
<1> QED
    BY <1>1, <1>3, <1>4 DEF SlidingWindow

LEMMA DroppedKept ==
    ASSUME SlidingInv, algorithm = "sliding", NEW c \in Checks, Decide(c)
    PROVE  DroppedAreOld'
<1> DEFINE live == Live(reading[c] - Window)
<1>1. reading' = reading /\ reading[c] \in Int /\ Window \in Int /\ Types
    BY DecideShape, WindowsAssumption DEF SlidingInv, FullTypes, Times
<1>2. Decided' = Decided \cup {c}
    BY <1>1, DecideHistory
<1>3. Granted' \ log' \subseteq (Granted \ log) \cup (log \ live)
    BY <1>1, SlidingShape DEF Add, SlidingInv, FullTypes
<1>4. ASSUME NEW d \in log \ live, d \in Checks PROVE reading[c] - Window >= reading[d]
    <2>1. Before(d, d) /\ reading[d] \in Int
        BY <1>1, <1>4, WindowsAssumption DEF Before, SlidingInv, FullTypes, Types, Times, None
    <2> QED
        BY <1>1, <1>4, <2>1 DEF Live
<1> QED
    BY <1>1, <1>2, <1>3, <1>4 DEF SlidingInv, DroppedAreOld, Granted

\* What a decision does to the types.
LEMMA DecideFullTypes ==
    ASSUME FullTypes, NEW c \in Checks, Decide(c)
    PROVE  FullTypes'
<1>1. Types /\ Types' /\ reading[c] \in Int /\ reading[c] # None
    BY DecideTypes, DecideShape, WindowsAssumption DEF FullTypes, Times, None
<1>2. Cardinality(Granted) \in Nat
    BY <1>1, GrantsAfter, FS_CardinalityType
<1>3. ASSUME NEW t \in Int, Allow(c, t), t # None
      PROVE  Granted \subseteq Granted' /\ c \in Granted' /\ UNCHANGED <<until, since>>
    BY <1>1, <1>3, GrantsAfter DEF Allow
<1>4. ASSUME NEW t \in Int, Reject(c, t)
      PROVE  Granted' = Granted /\ until' \in [Checks -> Int] /\ since' \in [Checks -> Nat]
    BY <1>2, <1>4 DEF FullTypes, Reject, Granted
<1>5. CASE FixedWindow(c)
    <2>1. (Id(reading[c]) + 1) * Window \in Int
        BY <1>1, DecideShape, IdInIds, WindowsAssumption DEF Ids
    <2> QED
        BY <1>1, <1>3, <1>4, <1>5, <2>1 DEF FixedWindow, FullTypes
<1>6. CASE ScheduledSlot(c)
    <2> DEFINE slot == IF next > reading[c] THEN next ELSE reading[c]
    <2>1. slot \in Int /\ slot >= reading[c] /\ reading[c] \in Nat
        BY <1>1, DecideShape, WindowsAssumption DEF Types, Times
    <2>2. slot # None
        BY <2>1 DEF None
    <2> QED
        BY <1>1, <1>3, <1>4, <1>6, <2>1, <2>2 DEF ScheduledSlot, FullTypes
<1>7. CASE SlidingWindow(c)
    <2>1. algorithm = "sliding"
        BY <1>7 DEF SlidingWindow
    <2>2. Live(reading[c] - Window) \subseteq log
        BY DEF Live
    <2>3. CASE Allow(c, reading[c]) /\ Add(c, Live(reading[c] - Window))
        BY <1>1, <1>2, <1>3, <2>2, <2>3 DEF FullTypes, Add
    <2>4. CASE /\ log' = Live(reading[c] - Window) /\ UNCHANGED place
               /\ \E first \in Live(reading[c] - Window) :
                    LET free == reading[first] + Window
                    IN  Reject(c, IF free < reading[c] THEN reading[c] ELSE free)
        <3>1. PICK first \in Live(reading[c] - Window) :
                  LET free == reading[first] + Window
                  IN  Reject(c, IF free < reading[c] THEN reading[c] ELSE free)
            BY <2>4
        <3>2. reading[first] \in Int
            BY <1>1, <2>2, <3>1, WindowsAssumption DEF FullTypes, Types, Granted, Times, None
        <3> DEFINE t == IF reading[first] + Window < reading[c] THEN reading[c]
                                                                ELSE reading[first] + Window
        <3>3. t \in Int /\ Reject(c, t)
            BY <1>1, <3>1, <3>2, WindowsAssumption
        <3> QED
            BY <1>1, <1>4, <2>2, <2>4, <3>3 DEF FullTypes
    <2> QED
        BY <1>1, <2>1, <2>3, <2>4, SlidingShape
<1> QED
    BY <1>5, <1>6, <1>7 DEF Decide

LEMMA InitFullTypes == WindowsInit => FullTypes
<1>1. WindowsInit => None \in Int
    BY DEF None
<1> QED
    BY <1>1, InitTypes DEF WindowsInit, FullTypes

LEMMA NextFullTypes == FullTypes /\ [WindowsNext]_windowVars => FullTypes'
<1> SUFFICES ASSUME FullTypes, [WindowsNext]_windowVars PROVE FullTypes'
    OBVIOUS
<1>1. CASE \E c \in Checks : Decide(c)
    BY <1>1, DecideFullTypes
<1>2. CASE ~ \E c \in Checks : Decide(c)
    <2>1. Types /\ Types'
        BY NextTypes DEF FullTypes
    <2> QED
        BY <1>2, <2>1, OthersHistory DEF FullTypes, state, windowHistory
<1> QED
    BY <1>1, <1>2

\* A call that is let through and not late finds all that its window holds in
\* the log.
LEMMA WindowIsLive ==
    ASSUME SlidingInv, algorithm = "sliding", NEW c \in Checks, Decide(c), c \notin late',
           NEW t \in Int, reading[c] <= t
    PROVE  GrantedIn(t - Window, t) \subseteq Live(reading[c] - Window)
<1>1. reading[c] \in Int /\ Window \in Int /\ Types
    BY DecideShape, WindowsAssumption DEF SlidingInv, FullTypes, Times
<1>2. ASSUME NEW d \in GrantedIn(t - Window, t) PROVE d \in Live(reading[c] - Window)
    <2>1. d \in Granted /\ d \in Checks /\ reading[d] > t - Window
        BY <1>2 DEF GrantedIn, Granted
    <2>2. \A e \in Checks : reading[e] \in Int
        BY <1>1, WindowsAssumption DEF Types, Times, None
    <2>3. d \in log
        <3>1. SUFFICES ASSUME d \notin log PROVE FALSE
            OBVIOUS
        <3>2. PICK e \in Decided : reading[e] - Window >= reading[d]
            BY <2>1, <3>1 DEF SlidingInv, DroppedAreOld
        <3>3. reading[e] <= reading[c] /\ e \in Checks
            BY <1>1, DecideHistory DEF Decided
        <3> QED
            BY <1>1, <2>1, <2>2, <3>2, <3>3
    <2>4. Before(d, d)
        BY <2>1, <2>2 DEF Before, SlidingInv, FullTypes
    <2>5. reading[d] > reading[c] - Window
        BY <1>1, <2>1, <2>2
    <2> QED
        BY <2>3, <2>4, <2>5 DEF Live
<1> QED
    BY <1>2

LEMMA SlidingKept ==
    ASSUME SlidingInv, algorithm = "sliding", NEW c \in Checks, Decide(c)
    PROVE  SlidingBound'
<1> DEFINE live == Live(reading[c] - Window)
<1>1. /\ reading' = reading /\ reading[c] \in Int /\ Window \in Int /\ Types /\ Limit \in Nat
      /\ algorithm' = algorithm
    BY DecideShape, WindowsAssumption DEF SlidingInv, FullTypes, Times, config
<1>2. late \subseteq late'
    BY <1>1, DecideHistory
<1>3. SUFFICES ASSUME NEW t \in Times
               PROVE  Cardinality(GrantedIn(t - Window, t)' \ late') <= Limit
    BY DEF SlidingBound, Times
<1>4. t \in Int /\ Window' = Window
    BY WindowsAssumption DEF Times
<1> DEFINE before == GrantedIn(t - Window, t)
           after  == GrantedIn(t - Window, t)'
<1>5. IsFiniteSet(before) /\ IsFiniteSet(before \ late) /\ Cardinality(before \ late) <= Limit
    <2>1. before \ late \subseteq Granted /\ before \subseteq Granted
        BY DEF GrantedIn
    <2> QED
        BY <1>1, <2>1, GrantsAfter, FS_Subset DEF SlidingInv, SlidingBound
<1>6. CASE after \ late' \subseteq before \ late
    <2>1. Cardinality(after \ late') <= Cardinality(before \ late)
        BY <1>5, <1>6, FS_Subset
    <2>2. Cardinality(after \ late') \in Nat /\ Cardinality(before \ late) \in Nat
        BY <1>5, <1>6, FS_Subset, FS_CardinalityType
    <2> QED
        BY <1>1, <1>5, <2>1, <2>2
<1>7. CASE ~ (after \ late' \subseteq before \ late)
    <2>1. PICK d \in after \ late' : d \notin before \ late
        BY <1>7
    <2>2. d \notin before
        BY <1>2, <2>1
    <2>3. Granted' = Granted \cup {c} /\ Cardinality(live) < Limit /\ d = c
        BY <1>1, <2>1, <2>2, SlidingShape DEF GrantedIn
    <2>4. c \notin late' /\ reading[c] <= t
        BY <1>1, <2>1, <2>3 DEF GrantedIn
    <2>5. before \subseteq live
        BY <1>4, <2>4, WindowIsLive
    <2>6. after \ late' \subseteq live \cup {c}
        BY <1>1, <2>3, <2>5 DEF GrantedIn
    <2>7. live \subseteq Granted
        BY DEF Live, SlidingInv, FullTypes
    <2>8. IsFiniteSet(live) /\ c \notin live
        BY <1>1, <2>7, GrantsAfter, FS_Subset
    <2>9. Cardinality(live \cup {c}) = Cardinality(live) + 1 /\ IsFiniteSet(live \cup {c})
        BY <2>8, FS_AddElement
    <2>10. Cardinality(after \ late') <= Cardinality(live \cup {c})
           /\ Cardinality(live) \in Nat /\ Cardinality(after \ late') \in Nat
        BY <2>6, <2>8, <2>9, FS_Subset, FS_CardinalityType
    <2> QED
        BY <1>1, <2>3, <2>9, <2>10
<1> QED
    BY <1>6, <1>7

\* No window of the clock holds more than the limit of calls that were not
\* late, whatever order calls read the clock and decide in.
THEOREM SpecSlidingBound == WindowsSpec => []SlidingBound
<1>1. WindowsInit => SlidingInv
    <2> SUFFICES ASSUME WindowsInit PROVE SlidingInv
        OBVIOUS
    <2>1. Granted = {}
        BY DEF WindowsInit, Granted
    <2>2. \A t \in Times : GrantedIn(t - Window, t) \ late = {}
        BY <2>1 DEF GrantedIn
    <2> QED
        BY <2>1, <2>2, InitFullTypes, FS_EmptySet, WindowsAssumption
        DEF SlidingInv, DroppedAreOld, SlidingBound
<1>2. SlidingInv /\ [WindowsNext]_windowVars => SlidingInv'
    <2> SUFFICES ASSUME SlidingInv, [WindowsNext]_windowVars, algorithm' = "sliding"
                 PROVE  DroppedAreOld' /\ SlidingBound'
        BY NextFullTypes DEF SlidingInv, SlidingBound
    <2>1. CASE \E c \in Checks : Decide(c)
        <3>1. algorithm' = algorithm
            BY <2>1 DEF Decide, config
        <3> QED
            BY <2>1, <3>1, DroppedKept, SlidingKept
    <2>2. CASE ~ \E c \in Checks : Decide(c)
        <3>1. /\ Decided' = Decided /\ Granted' = Granted
              /\ UNCHANGED <<config, state, windowHistory>>
              /\ \A c \in Decided \cup Granted : reading'[c] = reading[c]
            BY <2>2, OthersHistory DEF SlidingInv, FullTypes
        <3>2. DroppedAreOld'
            BY <3>1 DEF SlidingInv, DroppedAreOld, state, config
        <3>3. ASSUME NEW t PROVE GrantedIn(t - Window, t)' = GrantedIn(t - Window, t)
            BY <3>1 DEF GrantedIn
        <3> QED
            BY <3>1, <3>2, <3>3 DEF SlidingInv, SlidingBound, config, windowHistory
    <2> QED
        BY <2>1, <2>2
<1>3. SlidingInv => SlidingBound
    BY DEF SlidingInv
<1> QED
    BY <1>1, <1>2, <1>3, PTL DEF WindowsSpec

-----------------------------------------------------------------------------
(* Rejections                                                              *)

Scheduled == algorithm \in {"leaky", "throttle"}
Rejected  == Decided \ Granted
Grants    == Cardinality(Granted)

\* Nobody was granted anything since c was rejected.
Last(c) == since[c] = Grants

\* A call that was not late is rejected after every reading that was granted.
SinceTold ==
    \A c \in Rejected :
        /\ since[c] <= Grants
        /\ Last(c) /\ c \notin late => \A d \in Granted : reading[d] <= reading[c]

\* What a fixed window has counted was granted in it, up to the limit.
CountIsHeld == \A w \in Ids : count[w] <= Held(w) \/ Held(w) >= Limit

FixedRejects ==
    algorithm = "fixed" =>
        /\ CountIsHeld
        /\ \A c \in Rejected :
              /\ Held(Id(reading[c])) >= Limit
              /\ until[c] = (Id(reading[c]) + 1) * Window

\* The memory appends: places are apart, and in the order of the readings as
\* long as nobody was late.
Appended ==
    \A d \in Granted :
        /\ place[d] < Grants
        /\ \A e \in Granted :
              /\ place[d] = place[e] => d = e
              /\ late = {} /\ place[d] <= place[e] => reading[d] <= reading[e]

SlidingRejects ==
    algorithm = "sliding" =>
        /\ Appended
        /\ Cardinality(log) <= Limit
        /\ \A c \in Rejected :
              /\ late # {} \/ Cardinality(GrantedIn(reading[c] - Window, reading[c])) >= Limit
              /\ Last(c) => Cardinality(Live(until[c] - Window)) < Limit

ScheduledRejects ==
    Scheduled =>
        /\ next # None => \E d \in Granted : next = grant[d] + Interval
        /\ \A c \in Rejected :
              /\ \E d \in Granted : grant[d] + Interval - reading[c] > Wait
              /\ Last(c) => next = until[c]

RejectInv == FullTypes /\ SinceTold /\ FixedRejects /\ SlidingRejects /\ ScheduledRejects

\* What becomes of a call that decides.
LEMMA Outcome ==
    ASSUME FullTypes, NEW c \in Checks, Decide(c)
    PROVE  /\ Grants \in Nat /\ c \notin Rejected /\ c \notin Granted /\ reading' = reading
           /\ \/ /\ Granted' = Granted \cup {c} /\ Grants' = Grants + 1
                 /\ Rejected' = Rejected /\ UNCHANGED <<until, since>>
                 /\ ~ \E t : Reject(c, t)
              \/ /\ Granted' = Granted /\ Grants' = Grants /\ grant' = grant
                 /\ Rejected' = Rejected \cup {c}
                 /\ since' = [since EXCEPT ![c] = Grants]
                 /\ \A d \in Checks : d # c => until'[d] = until[d]
                 /\ ~ \E t \in Int : t # None /\ Allow(c, t)
<1>1. Types /\ reading' = reading /\ c \notin Granted /\ IsFiniteSet(Granted)
    BY DecideShape, GrantsAfter DEF FullTypes
<1>2. Decided' = Decided \cup {c} /\ c \notin Decided
    BY <1>1, DecideHistory
<1>3. Grants \in Nat /\ c \notin Rejected
    BY <1>1, <1>2, FS_CardinalityType DEF Grants, Rejected
<1>4. ASSUME NEW t \in Int, t # None, Allow(c, t)
      PROVE  /\ Granted' = Granted \cup {c} /\ Grants' = Grants + 1
             /\ Rejected' = Rejected /\ UNCHANGED <<until, since>>
             /\ ~ \E u : Reject(c, u)
    <2>1. Granted' = Granted \cup {c}
        BY <1>1, <1>4, GrantsAfter
    <2>2. Grants' = Grants + 1
        BY <1>1, <2>1, FS_AddElement DEF Grants
    <2>3. grant'[c] # grant[c]
        BY <1>1, <1>4 DEF Allow, Types, Granted
    <2> QED
        BY <1>2, <1>4, <2>1, <2>2, <2>3 DEF Rejected, Allow, Reject
<1>5. ASSUME NEW t, Reject(c, t)
      PROVE  /\ Granted' = Granted /\ Grants' = Grants /\ grant' = grant
             /\ Rejected' = Rejected \cup {c}
             /\ since' = [since EXCEPT ![c] = Grants]
             /\ \A d \in Checks : d # c => until'[d] = until[d]
             /\ ~ \E u \in Int : u # None /\ Allow(c, u)
    <2>1. Granted' = Granted
        BY <1>5 DEF Reject, Granted
    <2>2. ~ \E u \in Int : u # None /\ Allow(c, u)
        BY <1>1, <1>4, <1>5
    <2> QED
        BY <1>1, <1>2, <1>5, <2>1, <2>2 DEF Rejected, Reject, Grants, FullTypes
<1>6. (\E t \in Int : t # None /\ Allow(c, t)) \/ (\E t : Reject(c, t))
    <2>1. reading[c] \in Int /\ reading[c] # None /\ reading[c] \in Nat
        BY <1>1, DecideShape, WindowsAssumption DEF Times, None
    <2>2. FixedWindow(c) \/ SlidingWindow(c) => (Allow(c, reading[c]) \/ \E t : Reject(c, t))
        BY DEF FixedWindow, SlidingWindow
    <2> DEFINE slot == IF next > reading[c] THEN next ELSE reading[c]
    <2>3. slot \in Nat
        BY <1>1, <2>1 DEF Types
    <2>4. slot \in Int /\ slot # None
        BY <2>3 DEF None
    <2>5. ScheduledSlot(c) => (Allow(c, slot) \/ \E t : Reject(c, t))
        BY DEF ScheduledSlot
    <2> HIDE DEF slot
    <2> QED
        BY <2>1, <2>2, <2>4, <2>5 DEF Decide
<1> QED
    BY <1>1, <1>3, <1>4, <1>5, <1>6

LEMMA SinceKept ==
    ASSUME FullTypes, SinceTold, NEW c \in Checks, Decide(c)
    PROVE  SinceTold'
<1>1. /\ Types /\ late \subseteq late' /\ Granted \subseteq Decided
      /\ c \notin late' => \A d \in Decided : reading[d] <= reading[c]
    BY DecideHistory, GrantsAfter DEF FullTypes
<1>2. Rejected \subseteq Checks /\ since \in [Checks -> Nat]
    BY DEF Rejected, Decided, FullTypes
<1>3. CASE /\ Granted' = Granted \cup {c} /\ Grants' = Grants + 1
           /\ Rejected' = Rejected /\ UNCHANGED <<until, since>>
    <2>1. \A d \in Rejected : since'[d] <= Grants' /\ since'[d] # Grants'
        BY <1>2, <1>3, Outcome DEF SinceTold
    <2> QED
        BY <1>3, <2>1 DEF SinceTold, Last
<1>4. CASE /\ Granted' = Granted /\ Grants' = Grants
           /\ Rejected' = Rejected \cup {c}
           /\ since' = [since EXCEPT ![c] = Grants]
    <2>1. ASSUME NEW d \in Rejected, d # c
          PROVE  /\ since'[d] <= Grants'
                 /\ Last(d)' /\ d \notin late' => \A e \in Granted : reading'[e] <= reading'[d]
        BY <1>1, <1>2, <1>4, <2>1, Outcome DEF SinceTold, Last
    <2>2. /\ since'[c] <= Grants'
          /\ c \notin late' => \A e \in Granted : reading'[e] <= reading'[c]
        BY <1>1, <1>2, <1>4, Outcome
    <2> QED
        BY <1>4, <2>1, <2>2 DEF SinceTold
<1> QED
    BY <1>3, <1>4, Outcome

\* A window holds no less after a decision.
LEMMA HeldGrows ==
    ASSUME FullTypes, NEW c \in Checks, Decide(c), NEW v
    PROVE  Held(v) \in Nat /\ Held(v)' \in Nat /\ Held(v) <= Held(v)'
<1>1. Granted \subseteq Granted' /\ reading' = reading
    BY Outcome
<1>2. GrantedBy(v) \subseteq GrantedBy(v)'
    BY <1>1 DEF GrantedBy
<1>3. IsFiniteSet(GrantedBy(v)')
    <2>1. GrantedBy(v)' \subseteq Checks
        BY DEF GrantedBy, Granted
    <2> QED
        BY <2>1, WindowsAssumption, FS_Subset
<1> QED
    BY <1>2, <1>3, HeldIsNat, FS_Subset, FS_CardinalityType DEF Held

LEMMA CountKept ==
    ASSUME FullTypes, algorithm = "fixed", CountIsHeld, NEW c \in Checks, Decide(c)
    PROVE  CountIsHeld'
<1>0. PICK w : w = Id(reading[c])
    OBVIOUS
<1>1. Types /\ w \in Ids /\ Limit \in Nat \ {0} /\ FixedWindow(c)
    BY <1>0, DecideShape, IdInIds, WindowsAssumption
    DEF FullTypes, Decide, SlidingWindow, ScheduledSlot
<1>2. count \in [Ids -> Nat] /\ Counted(w) \in Nat /\ Counted(w) <= count[w]
    BY <1>1 DEF Types, Counted
<1>3. Full(w) => Held(w) >= Limit
    BY <1>1, <1>2, HeldIsNat DEF Full, CountIsHeld
<1>4. count' = count \/ /\ count' = [count EXCEPT ![w] = Counted(w) + 1]
                        /\ Full(w) \/ Allow(c, reading[c])
    BY <1>0, <1>1 DEF FixedWindow, NewCount
<1>5. Allow(c, reading[c]) => Held(w)' = Held(w) + 1
    BY <1>0, <1>1, GrantAdds
<1>6. \A v \in Ids : Held(v) \in Nat /\ Held(v)' \in Nat /\ Held(v) <= Held(v)'
    BY HeldGrows
<1>7. ASSUME NEW v \in Ids PROVE count'[v] <= Held(v)' \/ Held(v)' >= Limit
    <2>1. /\ Held(v) \in Nat /\ Held(v)' \in Nat /\ Held(v) <= Held(v)' /\ count[v] \in Nat
          /\ count[v] <= Held(v) \/ Held(v) >= Limit
        BY <1>2, <1>6 DEF CountIsHeld
    <2>2. CASE count'[v] = count[v]
        BY <1>1, <2>1, <2>2
    <2>3. CASE v = w /\ Full(w)
        BY <1>1, <1>3, <2>1, <2>3
    <2>4. CASE v = w /\ count'[v] = Counted(w) + 1 /\ Allow(c, reading[c])
        BY <1>1, <1>2, <1>5, <2>1, <2>4
    <2> QED
        BY <1>1, <1>2, <1>4, <2>2, <2>3, <2>4
<1> QED
    BY <1>7 DEF CountIsHeld, Held

LEMMA FixedRejectsKept ==
    ASSUME FullTypes, FixedRejects, NEW c \in Checks, Decide(c)
    PROVE  FixedRejects'
<1>1. SUFFICES ASSUME algorithm = "fixed" PROVE FixedRejects'
    BY DecideShape DEF FullTypes, FixedRejects, config
<1>0. PICK w : w = Id(reading[c])
    OBVIOUS
<1>2. /\ Types /\ w \in Ids /\ Limit \in Nat \ {0} /\ FixedWindow(c) /\ CountIsHeld
      /\ reading' = reading /\ reading[c] \in Times /\ Window' = Window
    BY <1>0, <1>1, DecideShape, IdInIds, WindowsAssumption
    DEF FullTypes, Decide, SlidingWindow, ScheduledSlot, FixedRejects
<1>3. CountIsHeld'
    BY <1>1, <1>2, CountKept
<1>4. ASSUME NEW d \in Rejected, until'[d] = until[d]
      PROVE  Held(Id(reading[d]))' >= Limit /\ until'[d] = (Id(reading[d]) + 1) * Window
    <2>1. Held(Id(reading[d])) >= Limit
        BY <1>1 DEF FixedRejects
    <2>2. Held(Id(reading[d]))' >= Held(Id(reading[d])) /\ Held(Id(reading[d]))' \in Nat
            /\ Held(Id(reading[d])) \in Nat
        BY <1>2, HeldGrows
    <2> QED
        BY <1>1, <1>2, <1>4, <2>1, <2>2 DEF FixedRejects
<1>5. ASSUME Rejected' = Rejected \cup {c}, ~ \E t \in Int : t # None /\ Allow(c, t)
      PROVE  Held(w)' >= Limit /\ until'[c] = (w + 1) * Window
    <2>1. reading[c] \in Int /\ reading[c] # None
        BY <1>2, WindowsAssumption DEF Times, None
    <2>2. Full(w) /\ Reject(c, (w + 1) * Window)
        BY <1>0, <1>2, <1>5, <2>1 DEF FixedWindow
    <2>3. Counted(w) >= Limit /\ Counted(w) \in Nat /\ count[w] \in Nat /\ Counted(w) <= count[w]
        BY <1>2, <2>2 DEF Full, Counted, Types
    <2>4. Held(w) \in Nat /\ Held(w)' \in Nat /\ Held(w) <= Held(w)'
        BY HeldGrows
    <2>5. count[w] <= Held(w) \/ Held(w) >= Limit
        BY <1>2 DEF CountIsHeld
    <2>6. until'[c] = (w + 1) * Window
        BY <2>2 DEF Reject, FullTypes
    <2> QED
        BY <1>2, <2>3, <2>4, <2>5, <2>6
<1>6. Rejected \subseteq Checks
    BY DEF Rejected, Decided
<1>7. CASE Rejected' = Rejected /\ UNCHANGED until
    BY <1>2, <1>3, <1>4, <1>7 DEF FixedRejects, Held, GrantedBy
<1>8. CASE /\ Rejected' = Rejected \cup {c} /\ ~ \E t \in Int : t # None /\ Allow(c, t)
           /\ \A d \in Checks : d # c => until'[d] = until[d]
    <2>1. \A d \in Rejected' : Held(Id(reading[d]))' >= Limit
                                  /\ until'[d] = (Id(reading[d]) + 1) * Window
        <3>1. Held(Id(reading[c]))' = Held(w)'
            BY <1>0, <1>2 DEF Held, GrantedBy, Id
        <3> QED
            BY <1>0, <1>4, <1>5, <1>6, <1>8, <3>1
    <2> QED
        BY <1>2, <1>3, <2>1 DEF FixedRejects, Held, GrantedBy
<1> QED
    BY <1>7, <1>8, Outcome

LEMMA AppendedKept ==
    ASSUME FullTypes, algorithm = "sliding", Appended, NEW c \in Checks, Decide(c)
    PROVE  Appended'
<1>1. /\ Types /\ reading' = reading /\ c \notin Granted /\ Grants \in Nat
      /\ Granted \subseteq Decided /\ late \subseteq late'
      /\ late' # {} => late # {} \/ \E d \in Decided : reading[d] > reading[c]
      /\ c \notin late' => \A d \in Decided : reading[d] <= reading[c]
    BY DecideHistory, GrantsAfter, Outcome DEF FullTypes
<1>2. /\ \A d \in Granted : d \in Checks /\ place[d] \in Nat /\ reading[d] \in Int
      /\ reading[c] \in Int
    BY <1>1, DecideShape, WindowsAssumption DEF FullTypes, Types, Granted, Times, None
<1>3. CASE Granted' = Granted /\ UNCHANGED place /\ Grants' = Grants
    BY <1>1, <1>3 DEF Appended
<1>4. CASE /\ Granted' = Granted \cup {c} /\ Grants' = Grants + 1
           /\ place' = [place EXCEPT ![c] = Grants]
    <2>1. place'[c] = Grants /\ \A d \in Granted : d # c /\ place'[d] = place[d]
        BY <1>1, <1>2, <1>4 DEF FullTypes
    <2>2. late' = {} => late = {} /\ \A d \in Granted : reading[d] <= reading[c]
        BY <1>1
    <2>3. ASSUME NEW d \in Granted
          PROVE  /\ place'[d] < Grants' /\ place'[d] < place'[c]
                 /\ late' = {} => reading'[d] <= reading'[c]
        BY <1>1, <1>2, <1>4, <2>1, <2>2 DEF Appended
    <2>4. ASSUME NEW d \in Granted, NEW e \in Granted
          PROVE  /\ place'[d] = place'[e] => d = e
                 /\ late' = {} /\ place'[d] <= place'[e] => reading'[d] <= reading'[e]
        BY <1>1, <2>1, <2>2 DEF Appended
    <2>5. place'[c] \in Nat /\ place'[c] < Grants' /\ reading'[c] \in Int
            /\ \A d \in Granted : place'[d] \in Nat
        BY <1>1, <1>2, <1>4, <2>1
    <2>6. ASSUME NEW d \in Granted'
          PROVE  /\ place'[d] < Grants'
                 /\ \A e \in Granted' :
                       /\ place'[d] = place'[e] => d = e
                       /\ late' = {} /\ place'[d] <= place'[e] => reading'[d] <= reading'[e]
        <3>1. CASE d = c
            BY <1>4, <2>3, <2>5, <3>1
        <3>2. CASE d # c
            BY <1>4, <2>3, <2>4, <2>5, <3>2
        <3> QED
            BY <3>1, <3>2
    <2> QED
        BY <2>6 DEF Appended
<1> QED
    BY <1>1, <1>3, <1>4, SlidingShape, Outcome DEF Add, Grants

\* The log of a decision: what is live, and the call itself when it goes on.
LEMMA LogAfter ==
    ASSUME FullTypes, algorithm = "sliding", NEW c \in Checks, Decide(c)
    PROVE  /\ IsFiniteSet(log) /\ Cardinality(log) \in Nat
           /\ IsFiniteSet(Live(reading[c] - Window)) /\ Live(reading[c] - Window) \subseteq log
           /\ Cardinality(Live(reading[c] - Window)) \in Nat
           /\ Cardinality(Live(reading[c] - Window)) <= Cardinality(log)
<1>1. log \subseteq Granted /\ IsFiniteSet(Granted)
    BY GrantsAfter DEF FullTypes
<1>2. Live(reading[c] - Window) \subseteq log
    BY DEF Live
<1> HIDE DEF Live
<1> QED
    BY <1>1, <1>2, FS_Subset, FS_CardinalityType

LEMMA LogBounded ==
    ASSUME FullTypes, algorithm = "sliding", Cardinality(log) <= Limit,
           NEW c \in Checks, Decide(c)
    PROVE  Cardinality(log') <= Limit
<1> DEFINE live == Live(reading[c] - Window)
<1>1. /\ Types /\ Limit \in Nat /\ c \notin Granted /\ log \subseteq Granted
    BY WindowsAssumption, Outcome DEF FullTypes
<1>2. /\ IsFiniteSet(live) /\ live \subseteq log /\ Cardinality(live) \in Nat
      /\ Cardinality(live) <= Cardinality(log) /\ Cardinality(log) \in Nat
    BY LogAfter
<1>3. log' = live \/ (Add(c, live) /\ Cardinality(live) < Limit)
    BY <1>1, SlidingShape
<1> HIDE DEF live
<1>4. CASE log' = live
    BY <1>1, <1>2, <1>4
<1>5. CASE Add(c, live) /\ Cardinality(live) < Limit
    <2>0. log' = live \cup {c}
        BY <1>5 DEF Add
    <2>1. Cardinality(live \cup {c}) = Cardinality(live) + 1
        BY <1>1, <1>2, FS_AddElement
    <2> QED
        BY <1>1, <1>2, <1>5, <2>0, <2>1
<1> QED
    BY <1>3, <1>4, <1>5

\* As long as nobody was late, what is live when a call is rejected was all
\* let through in the window that ends with it.
LEMMA LiveIsInWindow ==
    ASSUME FullTypes, algorithm = "sliding", Appended, NEW c \in Checks, Decide(c), late' = {}
    PROVE  Live(reading[c] - Window) \subseteq GrantedIn(reading[c] - Window, reading[c])
<1>1. /\ Types /\ late = {} /\ Granted \subseteq Decided
      /\ \A d \in Decided : reading[d] <= reading[c]
    BY DecideHistory, GrantsAfter DEF FullTypes
<1>2. ASSUME NEW d \in Live(reading[c] - Window)
      PROVE  d \in GrantedIn(reading[c] - Window, reading[c])
    <2>1. PICK e \in log : Before(e, d) /\ reading[e] > reading[c] - Window
        BY <1>2 DEF Live
    <2>2. d \in Granted /\ e \in Granted
        BY <1>2 DEF Live, FullTypes
    <2>3. reading[d] \in Int /\ reading[e] \in Int /\ reading[c] \in Int /\ Window \in Int
        BY <1>1, <2>2, DecideShape, WindowsAssumption DEF Types, Granted, Times, None
    <2>4. reading[e] <= reading[d]
        BY <1>1, <2>1, <2>2 DEF Before, Appended
    <2> QED
        BY <1>1, <2>1, <2>2, <2>3, <2>4 DEF GrantedIn
<1> QED
    BY <1>2

\* What is live shrinks with the log.
LEMMA LiveShrinks ==
    ASSUME FullTypes, log' \subseteq log, UNCHANGED <<backend, place>>,
           \A d \in log : reading'[d] = reading[d], NEW t
    PROVE  /\ Live(t)' \subseteq Live(t) /\ IsFiniteSet(Live(t))
           /\ Cardinality(Live(t)') \in Nat /\ Cardinality(Live(t)) \in Nat
           /\ Cardinality(Live(t)') <= Cardinality(Live(t))
<1>1. Live(t)' \subseteq Live(t)
    BY DEF Live, Before
<1>2. Live(t) \subseteq Checks
    BY DEF Live, FullTypes, Granted
<1>3. IsFiniteSet(Live(t))
    BY <1>2, WindowsAssumption, FS_Subset
<1> QED
    BY <1>1, <1>3, FS_Subset, FS_CardinalityType

\* When the call that was rejected is told to come back, the first in the log
\* has left the window.
LEMMA FrontLeaves ==
    ASSUME FullTypes, algorithm = "sliding", Appended, Cardinality(log) <= Limit,
           NEW c \in Checks, Decide(c), Granted' = Granted,
           NEW t \in Int, t = until'[c] - Window
    PROVE  Cardinality(Live(t)') < Limit
<1> DEFINE live == Live(reading[c] - Window)
<1>1. /\ Types /\ reading' = reading /\ backend' = backend /\ Limit \in Nat
      /\ Window \in Int /\ c \notin Granted /\ reading[c] \in Int
    BY WindowsAssumption, Outcome, DecideShape DEF FullTypes, config, Times
<1>2. /\ IsFiniteSet(live) /\ live \subseteq log /\ Cardinality(live) \in Nat
      /\ Cardinality(live) <= Cardinality(log) /\ Cardinality(log) \in Nat
    BY LogAfter
<1>3. /\ UNCHANGED place /\ log' = live
      /\ \E first \in live :
            LET free == reading[first] + Window
            IN  /\ \A d \in live : Before(first, d)
                /\ Reject(c, IF free < reading[c] THEN reading[c] ELSE free)
    BY <1>1, SlidingShape
<1>4. live \subseteq Granted
    BY <1>2 DEF FullTypes
<1> HIDE DEF live
<1>5. PICK first \in live :
            LET free == reading[first] + Window
            IN  /\ \A d \in live : Before(first, d)
                /\ Reject(c, IF free < reading[c] THEN reading[c] ELSE free)
    BY <1>3
<1>6. \A d \in live : reading[d] \in Int /\ place[d] \in Nat
    BY <1>1, <1>4, WindowsAssumption DEF FullTypes, Types, Granted, Times, None
<1>7. reading[first] <= t
    <2>1. until'[c] = IF reading[first] + Window < reading[c] THEN reading[c]
                                                              ELSE reading[first] + Window
        BY <1>5 DEF Reject, FullTypes
    <2> QED
        BY <1>1, <1>5, <1>6, <2>1
<1>8. first \notin Live(t)'
    <2>1. SUFFICES ASSUME first \in Live(t)' PROVE FALSE
        OBVIOUS
    <2>2. PICK d \in live : Before(d, first) /\ reading[d] > t
        BY <1>1, <1>3, <2>1 DEF Live, Before
    <2>3. Before(first, d)
        BY <1>5
    <2>4. reading[d] <= reading[first]
        BY <1>4, <1>5, <1>6, <2>2, <2>3 DEF Before, Appended
    <2> QED
        BY <1>5, <1>6, <1>7, <2>2, <2>4
<1>9. Live(t)' \subseteq live \ {first}
    BY <1>3, <1>8 DEF Live
<1>10. Cardinality(live \ {first}) = Cardinality(live) - 1 /\ IsFiniteSet(live \ {first})
    BY <1>2, <1>5, FS_RemoveElement
<1>11. /\ Cardinality(Live(t)') <= Cardinality(live \ {first})
       /\ Cardinality(Live(t)') \in Nat
    BY <1>9, <1>10, FS_Subset, FS_CardinalityType
<1> QED
    BY <1>1, <1>2, <1>10, <1>11

LEMMA GrantedInGrows ==
    ASSUME FullTypes, NEW c \in Checks, Decide(c), NEW a, NEW b
    PROVE  /\ Cardinality(GrantedIn(a, b)) <= Cardinality(GrantedIn(a, b)')
           /\ Cardinality(GrantedIn(a, b)) \in Nat /\ Cardinality(GrantedIn(a, b)') \in Nat
           /\ IsFiniteSet(GrantedIn(a, b))
<1>1. GrantedIn(a, b) \subseteq GrantedIn(a, b)'
    BY Outcome DEF GrantedIn
<1>2. GrantedIn(a, b)' \subseteq Checks
    BY DEF GrantedIn, Granted
<1>3. IsFiniteSet(GrantedIn(a, b)')
    BY <1>2, WindowsAssumption, FS_Subset
<1> QED
    BY <1>1, <1>3, FS_Subset, FS_CardinalityType

\* A rejection finds the window full as long as nobody was late.
LEMMA RejectedFull ==
    ASSUME FullTypes, algorithm = "sliding", Appended, NEW c \in Checks, Decide(c),
           Granted' = Granted
    PROVE  late' # {} \/ Cardinality(GrantedIn(reading[c] - Window, reading[c])) >= Limit
<1> DEFINE live == Live(reading[c] - Window)
           held == GrantedIn(reading[c] - Window, reading[c])
<1>1. Types /\ Limit \in Nat /\ c \notin Granted
    BY WindowsAssumption, Outcome DEF FullTypes
<1>2. Cardinality(live) >= Limit /\ Cardinality(live) \in Nat
    BY <1>1, SlidingShape, LogAfter
<1>3. late' = {} => live \subseteq held
    BY LiveIsInWindow
<1>4. IsFiniteSet(held) /\ Cardinality(held) \in Nat
    BY GrantedInGrows
<1> HIDE DEF live, held
<1>5. late' = {} => Cardinality(live) <= Cardinality(held)
    BY <1>3, <1>4, FS_Subset
<1> QED
    BY <1>1, <1>2, <1>4, <1>5 DEF held

LEMMA SlidingRejectsKept ==
    ASSUME FullTypes, SinceTold, SlidingRejects, NEW c \in Checks, Decide(c)
    PROVE  SlidingRejects'
<1>1. SUFFICES ASSUME algorithm = "sliding" PROVE SlidingRejects'
    BY DecideShape DEF FullTypes, SlidingRejects, config
<1>2. /\ Types /\ Appended /\ Cardinality(log) <= Limit /\ Limit \in Nat
      /\ reading' = reading /\ backend' = backend
      /\ late \subseteq late' /\ Grants \in Nat /\ c \notin Granted /\ Window \in Int
    BY <1>1, DecideShape, DecideHistory, Outcome, WindowsAssumption
    DEF FullTypes, SlidingRejects, config
<1>3. Appended' /\ Cardinality(log') <= Limit
    BY <1>1, <1>2, AppendedKept, LogBounded
<1>4. Rejected \subseteq Checks /\ until \in [Checks -> Int]
        /\ \A d \in Checks : since[d] \in Nat
    BY DEF Rejected, Decided, FullTypes
<1> DEFINE Full2(d) == late' # {} \/
                       Cardinality(GrantedIn(reading[d] - Window, reading[d])') >= Limit
           Room(d)  == Last(d)' => Cardinality(Live(until[d] - Window)') < Limit
<1>5. ASSUME NEW d \in Rejected PROVE Full2(d)
    <2>1. PICK a, b : a = reading[d] - Window /\ b = reading[d]
        OBVIOUS
    <2>2. late # {} \/ Cardinality(GrantedIn(a, b)) >= Limit
        BY <1>1, <1>5, <2>1 DEF SlidingRejects
    <2>3. /\ Cardinality(GrantedIn(a, b)) <= Cardinality(GrantedIn(a, b)')
          /\ Cardinality(GrantedIn(a, b)) \in Nat /\ Cardinality(GrantedIn(a, b)') \in Nat
        BY GrantedInGrows
    <2>4. late' # {} \/ Cardinality(GrantedIn(a, b)') >= Limit
        BY <1>2, <2>2, <2>3
    <2> QED
        BY <1>2, <2>1, <2>4 DEF GrantedIn
<1>6. CASE /\ Grants' = Grants + 1 /\ Rejected' = Rejected /\ UNCHANGED <<until, since>>
    <2>1. ASSUME NEW d \in Rejected PROVE ~ Last(d)'
        BY <1>2, <1>4, <1>6, <2>1 DEF Last, SinceTold
    <2> QED
        BY <1>1, <1>2, <1>3, <1>5, <1>6, <2>1 DEF SlidingRejects
<1>7. CASE /\ Granted' = Granted /\ Grants' = Grants
           /\ Rejected' = Rejected \cup {c}
           /\ since' = [since EXCEPT ![c] = Grants]
           /\ \A d \in Checks : d # c => until'[d] = until[d]
    <2>1. /\ UNCHANGED place /\ log' \subseteq log
        BY <1>1, <1>2, <1>7, SlidingShape, LogAfter
    <2>2. ASSUME NEW d \in Rejected, d # c, Last(d)'
          PROVE  Cardinality(Live(until[d] - Window)') < Limit
        <3>1. PICK t : t = until[d] - Window
            OBVIOUS
        <3>2. Last(d) /\ until'[d] = until[d]
            BY <1>4, <1>7, <2>2 DEF Last, FullTypes
        <3>3. Cardinality(Live(t)) < Limit
            BY <1>1, <3>1, <3>2 DEF SlidingRejects
        <3>4. /\ Cardinality(Live(t)') \in Nat /\ Cardinality(Live(t)) \in Nat
              /\ Cardinality(Live(t)') <= Cardinality(Live(t))
            BY <1>2, <2>1, LiveShrinks
        <3>5. Cardinality(Live(t)') < Limit
            BY <1>2, <3>3, <3>4
        <3> QED
            BY <1>2, <3>1, <3>2, <3>5 DEF Live, Before
    <2>3. Cardinality(Live(until[c] - Window)') < Limit
        <3>1. until'[c] - Window \in Int
            BY <1>2, DecideFullTypes DEF FullTypes
        <3>2. PICK t \in Int : t = until'[c] - Window
            BY <3>1
        <3>3. Cardinality(Live(t)') < Limit
            BY <1>1, <1>2, <1>7, <3>2, FrontLeaves
        <3> QED
            BY <1>2, <3>2, <3>3 DEF Live, Before
    <2>4. Full2(c)
        <3>1. PICK a, b : a = reading[c] - Window /\ b = reading[c]
            OBVIOUS
        <3>2. late' # {} \/ Cardinality(GrantedIn(a, b)) >= Limit
            BY <1>1, <1>2, <1>7, <3>1, RejectedFull
        <3>3. /\ Cardinality(GrantedIn(a, b)) <= Cardinality(GrantedIn(a, b)')
              /\ Cardinality(GrantedIn(a, b)) \in Nat /\ Cardinality(GrantedIn(a, b)') \in Nat
            BY GrantedInGrows
        <3>4. late' # {} \/ Cardinality(GrantedIn(a, b)') >= Limit
            BY <1>2, <3>2, <3>3
        <3> QED
            BY <1>2, <3>1, <3>4 DEF GrantedIn
    <2> QED
        BY <1>1, <1>2, <1>3, <1>5, <1>7, <2>2, <2>3, <2>4 DEF SlidingRejects
<1> QED
    BY <1>6, <1>7, Outcome

LEMMA ScheduledRejectsKept ==
    ASSUME FullTypes, SinceTold, ScheduledRejects, NEW c \in Checks, Decide(c)
    PROVE  ScheduledRejects'
<1>1. SUFFICES ASSUME Scheduled PROVE ScheduledRejects'
    BY DecideShape DEF FullTypes, ScheduledRejects, Scheduled, config
<1> DEFINE slot == IF next > reading[c] THEN next ELSE reading[c]
<1>2. /\ Types /\ ScheduledSlot(c) /\ reading' = reading /\ algorithm' = algorithm
      /\ Wait \in Nat /\ Interval \in Nat /\ Grants \in Nat /\ c \notin Granted
      /\ reading[c] \in Nat /\ next \in Int
    BY <1>1, DecideShape, Outcome, WindowsAssumption
    DEF FullTypes, Types, Scheduled, Decide, FixedWindow, SlidingWindow, Wait, config, Times
<1>3. Wait' = Wait /\ slot \in Int /\ slot \in Nat
    BY <1>2 DEF Wait
<1>4. Rejected \subseteq Checks /\ until \in [Checks -> Int]
        /\ (\A d \in Checks : since[d] \in Nat) /\ grant \in [Checks -> Int]
        /\ (\A d \in Checks : reading[d] \in Int)
    BY <1>2, WindowsAssumption DEF Rejected, Decided, FullTypes, Types, Times, None
<1>5. CASE Allow(c, slot) /\ next' = slot + Interval
    <2>1. slot # None
        BY <1>3 DEF None
    <2>2. /\ Granted' = Granted \cup {c} /\ Grants' = Grants + 1
          /\ Rejected' = Rejected /\ UNCHANGED <<until, since>>
        BY <1>3, <1>5, <2>1, Outcome
    <2>3. grant'[c] = slot /\ \A d \in Granted : grant'[d] = grant[d]
        BY <1>2, <1>4, <1>5 DEF Allow
    <2> HIDE DEF slot
    <2>4. \E d \in Granted' : next' = grant'[d] + Interval
        BY <1>5, <2>2, <2>3
    <2>5. ASSUME NEW d \in Rejected
          PROVE  /\ \E e \in Granted' : grant'[e] + Interval - reading'[d] > Wait'
                 /\ ~ Last(d)'
        <3>1. PICK e \in Granted : grant[e] + Interval - reading[d] > Wait
            BY <1>1 DEF ScheduledRejects
        <3>2. ~ Last(d)'
            BY <1>2, <1>4, <2>2 DEF Last, SinceTold
        <3> QED
            BY <1>2, <1>3, <2>2, <2>3, <3>1, <3>2
    <2> QED
        BY <2>2, <2>4, <2>5 DEF ScheduledRejects
<1>6. CASE slot - reading[c] > Wait /\ Reject(c, slot) /\ next' = next
    <2>1. /\ Granted' = Granted /\ Grants' = Grants /\ grant' = grant
          /\ Rejected' = Rejected \cup {c}
          /\ since' = [since EXCEPT ![c] = Grants]
          /\ \A d \in Checks : d # c => until'[d] = until[d]
        BY <1>6, Outcome
    <2>2. slot = next /\ next # None /\ until'[c] = next
        BY <1>2, <1>3, <1>4, <1>6 DEF None, Reject
    <2>3. PICK e \in Granted : next = grant[e] + Interval
        BY <1>1, <2>2 DEF ScheduledRejects
    <2>4. grant'[e] + Interval - reading'[c] > Wait'
        <3>1. next - reading[c] > Wait
            BY <1>6, <2>2
        <3>2. grant[e] \in Int /\ Interval \in Int /\ Wait \in Int /\ reading[c] \in Int
            BY <1>2, <1>4, <2>3 DEF Granted
        <3>3. grant[e] + Interval - reading[c] > Wait
            BY <2>3, <3>1, <3>2
        <3> QED
            BY <1>2, <1>3, <2>1, <3>3
    <2>5. ASSUME NEW d \in Rejected, d # c
          PROVE  /\ \E f \in Granted' : grant'[f] + Interval - reading'[d] > Wait'
                 /\ Last(d)' => next' = until'[d]
        BY <1>1, <1>2, <1>3, <1>4, <1>6, <2>1, <2>5 DEF ScheduledRejects, Last, FullTypes
    <2> HIDE DEF slot
    <2> QED
        BY <1>6, <2>1, <2>2, <2>3, <2>4, <2>5 DEF ScheduledRejects
<1> QED
    BY <1>2, <1>5, <1>6 DEF ScheduledSlot, NextSlot

\* Steps that decide nothing leave rejections as they are.
LEMMA OthersKeepRejects ==
    ASSUME RejectInv, [WindowsNext]_windowVars, ~ \E c \in Checks : Decide(c)
    PROVE  RejectInv'
<1>1. /\ Decided' = Decided /\ Granted' = Granted /\ FullTypes /\ FullTypes'
      /\ UNCHANGED <<config, grant, until, state, windowHistory>>
      /\ \A c \in Decided \cup Granted : reading'[c] = reading[c]
    BY NextFullTypes, OthersHistory DEF RejectInv, FullTypes
<1>2. Rejected' = Rejected /\ Grants' = Grants /\ Scheduled' = Scheduled /\ Wait' = Wait
        /\ \A c \in Rejected : reading'[c] = reading[c]
    BY <1>1 DEF Rejected, Grants, Scheduled, Wait, config
<1>3. \A c : Last(c)' = Last(c)
    BY <1>1, <1>2 DEF Last, windowHistory
<1>4. SinceTold'
    BY <1>1, <1>2, <1>3 DEF RejectInv, SinceTold, windowHistory
<1>5. FixedRejects'
    <2>1. \A w : GrantedBy(w)' = GrantedBy(w)
        BY <1>1 DEF GrantedBy
    <2>2. \A w : Held(w)' = Held(w)
        BY <2>1 DEF Held
    <2>3. CountIsHeld' = CountIsHeld
        BY <1>1, <2>2 DEF CountIsHeld, Held, GrantedBy, state
    <2>4. ASSUME NEW c \in Rejected PROVE Held(Id(reading[c]))' = Held(Id(reading[c]))
        <3>1. PICK w : w = Id(reading[c])
            OBVIOUS
        <3> QED
            BY <1>2, <2>2, <3>1 DEF Held, GrantedBy
    <2> QED
        BY <1>1, <1>2, <2>3, <2>4 DEF RejectInv, FixedRejects, config
<1>6. SlidingRejects'
    <2>1. Appended' = Appended
        BY <1>1, <1>2 DEF Appended, state, windowHistory
    <2>2. \A t : Live(t)' = Live(t)
        BY <1>1 DEF Live, Before, state, config, FullTypes
    <2>3. ASSUME NEW c \in Rejected
          PROVE  /\ Live(until[c] - Window)' = Live(until[c] - Window)
                 /\ GrantedIn(reading[c] - Window, reading[c])'
                        = GrantedIn(reading[c] - Window, reading[c])
        <3>1. PICK t : t = until[c] - Window
            OBVIOUS
        <3>2. Live(until[c] - Window)' = Live(until[c] - Window)
            BY <1>1, <2>2, <3>1 DEF Live, Before
        <3> QED
            BY <1>1, <1>2, <3>2 DEF GrantedIn
    <2> QED
        BY <1>1, <1>2, <1>3, <2>1, <2>3 DEF RejectInv, SlidingRejects, config, state, windowHistory
<1>7. ScheduledRejects'
    <2>1. \A c \in Rejected : Last(c)' = Last(c) /\ until'[c] = until[c]
        BY <1>1, <1>3
    <2> QED
        BY <1>1, <1>2, <2>1 DEF RejectInv, ScheduledRejects, state
<1> QED
    BY <1>1, <1>4, <1>5, <1>6, <1>7 DEF RejectInv

LEMMA InitRejects == WindowsInit => RejectInv
<1> SUFFICES ASSUME WindowsInit PROVE RejectInv
    OBVIOUS
<1>1. Granted = {} /\ Decided = {} /\ Rejected = {} /\ log = {} /\ next = None
    BY DEF WindowsInit, Granted, Decided, Rejected
<1>2. Cardinality(log) <= Limit
    BY <1>1, FS_EmptySet, WindowsAssumption
<1>3. CountIsHeld
    <2>1. \A w \in Ids : count[w] = 0 /\ Held(w) \in Nat
        BY HeldIsNat DEF WindowsInit
    <2> QED
        BY <2>1 DEF CountIsHeld
<1> QED
    BY <1>1, <1>2, <1>3, InitFullTypes
    DEF RejectInv, SinceTold, FixedRejects, SlidingRejects, Appended, ScheduledRejects

\* A window is empty of grants after every reading that was granted.
LEMMA RetryFixed ==
    ASSUME RejectInv, algorithm = "fixed", NEW c \in Rejected, c \notin late, Last(c),
           until[c] <= LastTime
    PROVE  ~ Full(Id(until[c]))
<1>1. /\ Types /\ Limit \in Nat \ {0} /\ Window \in Nat \ {0} /\ LastTime \in Nat
      /\ c \in Checks /\ stage[c] = "decided"
    BY WindowsAssumption DEF RejectInv, FullTypes, Rejected, Decided
<1>2. reading[c] \in Times /\ reading[c] \in Nat /\ Id(reading[c]) \in Nat
    BY <1>1, IdInIds DEF Types, Times, Ids
<1>3. PICK w \in Nat : w = Id(reading[c])
    BY <1>2
<1>4. until[c] = (w + 1) * Window
    BY <1>3 DEF RejectInv, FixedRejects
<1>5. (w + 1) * Window \in Nat /\ Id(until[c]) = w + 1
    BY <1>1, <1>4, DivOfMultiple DEF Id
<1>6. w + 1 \in Ids
    <2>1. until[c] \in Times
        BY <1>1, <1>4, <1>5 DEF Times
    <2> QED
        BY <1>5, <2>1, IdInIds
<1>7. GrantedBy(w + 1) = {}
    <2>1. SUFFICES ASSUME NEW d \in Granted, Id(reading[d]) = w + 1 PROVE FALSE
        BY DEF GrantedBy
    <2>2. reading[d] <= reading[c]
        BY DEF RejectInv, SinceTold
    <2>3. reading[d] \in Nat
        BY <1>1 DEF Types, Granted, Times
    <2>4. Id(reading[d]) <= w
        BY <1>1, <1>2, <1>3, <2>2, <2>3, DivMonotone DEF Id
    <2> QED
        BY <2>1, <2>4
<1>8. Held(w + 1) = 0
    BY <1>7, FS_EmptySet DEF Held
<1>9. count[w + 1] = 0
    <2>1. count[w + 1] \in Nat
        BY <1>1, <1>6 DEF Types
    <2>2. count[w + 1] <= Held(w + 1) \/ Held(w + 1) >= Limit
        BY <1>6 DEF RejectInv, FixedRejects, CountIsHeld
    <2> QED
        BY <1>1, <1>8, <2>1, <2>2
<1> QED
    BY <1>1, <1>5, <1>9 DEF Full, Counted

\* Nobody is rejected while there is room, and who is rejected in time and
\* comes back when told to is let through, if nobody else was in the meantime.
THEOREM SpecRejectionsHonest == WindowsSpec => []RejectionsHonest
<1>1. WindowsInit => RejectInv
    BY InitRejects
<1>2. RejectInv /\ [WindowsNext]_windowVars => RejectInv'
    <2> SUFFICES ASSUME RejectInv, [WindowsNext]_windowVars PROVE RejectInv'
        OBVIOUS
    <2>1. ASSUME NEW c \in Checks, Decide(c) PROVE RejectInv'
        <3>1. FullTypes' /\ SinceTold'
            BY <2>1, DecideFullTypes, SinceKept DEF RejectInv
        <3>2. FixedRejects'
            BY <2>1, FixedRejectsKept DEF RejectInv
        <3>3. SlidingRejects' /\ ScheduledRejects'
            BY <2>1, SlidingRejectsKept, ScheduledRejectsKept DEF RejectInv
        <3> QED
            BY <3>1, <3>2, <3>3 DEF RejectInv
    <2>2. CASE ~ \E c \in Checks : Decide(c)
        BY <2>2, OthersKeepRejects
    <2> QED
        BY <2>1, <2>2
<1>3. RejectInv => RejectionsHonest
    <2> SUFFICES ASSUME RejectInv PROVE RetryHonest /\ RejectedOnlyWhenFull
        BY DEF RejectionsHonest
    <2>1. algorithm \in Algorithms /\ (Scheduled <=> algorithm \notin {"fixed", "sliding"})
        BY DEF RejectInv, FullTypes, Types, Algorithms, Scheduled
    <2>2. RetryHonest
        <3>1. SUFFICES ASSUME NEW c \in Rejected, c \notin late, Last(c), until[c] <= LastTime
                       PROVE  Passes(until[c])
            BY DEF RetryHonest, Rejected, Last, Grants
        <3>2. CASE algorithm = "fixed"
            BY <3>1, <3>2, RetryFixed DEF Passes
        <3>3. CASE algorithm = "sliding"
            BY <3>1, <3>3 DEF Passes, RejectInv, SlidingRejects
        <3>4. CASE Scheduled
            <4>1. next = until[c] /\ next \in Int
                BY <3>1, <3>4 DEF RejectInv, ScheduledRejects, FullTypes, Types
            <4>2. next - until[c] <= Wait
                BY <4>1, WindowsAssumption DEF Wait
            <4> QED
                BY <2>1, <3>4, <4>2 DEF Passes
        <3> QED
            BY <2>1, <3>2, <3>3, <3>4
    <2>3. RejectedOnlyWhenFull
        <3>1. SUFFICES ASSUME NEW c \in Rejected
                       PROVE  LET w == Id(reading[c])
                              IN  CASE algorithm = "fixed" -> Cardinality(GrantedBy(w)) >= Limit
                                    [] algorithm = "sliding" -> late # {} \/
                                        Cardinality(GrantedIn(reading[c] - Window, reading[c])) >= Limit
                                    [] OTHER ->
                                        \E d \in Granted : grant[d] + Interval - reading[c] > Wait
            BY DEF RejectedOnlyWhenFull, Rejected
        <3>2. CASE algorithm = "fixed"
            BY <3>2 DEF RejectInv, FixedRejects, Held
        <3>3. CASE algorithm = "sliding"
            BY <3>3 DEF RejectInv, SlidingRejects
        <3>4. CASE Scheduled
            BY <2>1, <3>4 DEF RejectInv, ScheduledRejects
        <3> QED
            BY <2>1, <3>2, <3>3, <3>4
    <2> QED
        BY <2>2, <2>3
<1> QED
    BY <1>1, <1>2, <1>3, PTL DEF WindowsSpec

=============================================================================
