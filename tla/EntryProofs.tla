----------------------------- MODULE EntryProofs -----------------------------
(***************************************************************************)
(* Proofs about how a user comes in: the login by a code (QrLogin) and the *)
(* policy in front of the handlers (ResourceGate), for every set of calls, *)
(* requests and rows.  The two share nothing and are proved apart.         *)
(*                                                                         *)
(* QrLogin.  The invariant that carries the proofs is RunningHaveRaced:    *)
(* when the code is settled, every call still under way was under way when *)
(* it was settled, so that only calls of raced can overwrite it.           *)
(* OneSessionPerCode counts the confirms that did not race against the     *)
(* scans that did.                                                         *)
(*                                                                         *)
(* ResourceGate.  GateInv says of every reload under way that what it has  *)
(* read is still in the tables, or what will make up for it: a cause that  *)
(* it does not clear, its own lateness, or a change about to be read       *)
(* (Excused).  The excuse lasts because causes come up once (CausesFresh)  *)
(* and a reload that found another under way makes that one late, while    *)
(* one that did not clears nothing the other would not (ClearsGrow).       *)
(* GuardHolds does the same for the endpoints guarded since it began.      *)
(***************************************************************************)
EXTENDS QrLogin, ResourceGate, FiniteSetTheorems, TLAPS

-----------------------------------------------------------------------------
(* QrLogin.                                                                *)

\* A call that runs, or has stored, acts for a user, and the user whose
\* confirm runs has scanned the code.
CallsKnown ==
    /\ code.status = "scanned" => code.user \in scanned
    /\ code.status = "confirmed" => code.by \in sessions
    /\ \A c \in Calls : op[c] = "confirm" => who[c] \in scanned
    /\ \A c \in Calls : op[c] = "scan" => who[c] \in Users
    /\ \A c \in Calls : at[c] = "login" => op[c] = "confirm"
    /\ \A c \in Calls : at[c] = "store" /\ op[c] = "confirm" => c \in sessions
    /\ \A c \in Calls : at[c] # "idle" => op[c] # "none"
    /\ \A c \in Calls : at[c] = "idle" => op[c] = "none"

\* Nobody who read the code after it was settled is under way.
RunningHaveRaced == Settled(code) => Running \subseteq raced

\* The confirms that succeeded without racing, and the scans that raced.
Clean == {c \in Calls : op[c] = "confirm" /\ at[c] = "ok"} \ raced
LateScans == {c \in Calls : op[c] = "scan" /\ at[c] = "ok"} \cap raced

\* A settled code has at most one clean confirm more than it was brought back
\* by late scans, an open one at most as many.
CleanCounted ==
    Cardinality(Clean) + (IF Settled(code) THEN 0 ELSE 1) <= 1 + Cardinality(LateScans)

IInv == TypeOK /\ CallsKnown /\ RunningHaveRaced

-----------------------------------------------------------------------------

\* The four shapes of a state of the code.
LEMMA StateShapes ==
    ASSUME TypeOK
    PROVE  \/ code = Absent \/ code = Pending \/ code = Cancelled
           \/ \E u \in Users : code = Scanned(u)
           \/ \E c \in Calls : code = Confirmed(c)
BY DEF TypeOK, States

LEMMA InitIInv == Init => IInv
BY DEF Init, IInv, TypeOK, CallsKnown, RunningHaveRaced, States, Pending, Settled

LEMMA ReadKeeps ==
    ASSUME IInv, NEW c \in Calls, NEW o \in {"scan", "confirm", "cancel"},
           NEW u \in Users \cup {NoUser}, u = NoUser => o = "cancel", Read(c, o, u)
    PROVE  IInv'
<1>1. code' = code /\ sessions' = sessions /\ polled' = polled
        /\ scanned' = scanned /\ raced' = raced
    BY DEF Read, history
<1>2. ~ Settled(code)
    BY StateShapes DEF IInv, Read, Allowed, Settled, Scanned, Absent, Cancelled, Confirmed
<1>3. TypeOK'
    BY <1>1 DEF IInv, TypeOK, Read, CallsKnown
<1>4. o = "confirm" => u \in scanned
    BY DEF IInv, CallsKnown, Read, Allowed, Scanned
<1>5. CallsKnown'
    BY <1>1, <1>4 DEF IInv, TypeOK, Read, CallsKnown
<1>6. RunningHaveRaced'
    BY <1>1, <1>2 DEF RunningHaveRaced, Settled
<1> QED
    BY <1>3, <1>5, <1>6 DEF IInv

LEMMA LoginKeeps ==
    ASSUME IInv, NEW c \in Calls, Login(c)
    PROVE  IInv'
<1>1. TypeOK'
    BY DEF IInv, TypeOK, Login, CallsKnown, history
<1>2. CallsKnown'
    BY DEF IInv, TypeOK, Login, CallsKnown, history
<1>3. RunningHaveRaced'
    BY DEF IInv, TypeOK, Login, RunningHaveRaced, Running, Settled, history
<1> QED
    BY <1>1, <1>2, <1>3 DEF IInv

\* What a store writes.
LEMMA NewStateShapes ==
    ASSUME IInv, NEW c \in Calls, at[c] = "store"
    PROVE  \/ op[c] = "scan" /\ who[c] \in Users /\ NewState(c) = Scanned(who[c])
           \/ op[c] = "confirm" /\ c \in sessions /\ NewState(c) = Confirmed(c)
           \/ op[c] = "cancel" /\ NewState(c) = Cancelled
BY DEF IInv, TypeOK, CallsKnown, NewState

LEMMA StoreKeeps ==
    ASSUME IInv, NEW c \in Calls, Store(c)
    PROVE  IInv'
<1>1. TypeOK'
    <2>1. code' \in States
        BY NewStateShapes DEF Store, States
    <2>2. scanned' \subseteq Users
        BY NewStateShapes DEF IInv, TypeOK, Store
    <2> QED
        BY <2>1, <2>2 DEF IInv, TypeOK, Store, Running
<1>2. CallsKnown'
    BY NewStateShapes DEF IInv, TypeOK, Store, CallsKnown, Scanned, Confirmed, Cancelled
<1>3. RunningHaveRaced'
    BY DEF IInv, TypeOK, Store, RunningHaveRaced, Running
<1> QED
    BY <1>1, <1>2, <1>3 DEF IInv

LEMMA FailKeeps ==
    ASSUME IInv, NEW c \in Calls, Fail(c)
    PROVE  IInv'
<1>1. TypeOK'
    BY DEF IInv, TypeOK, Fail, history
<1>2. CallsKnown'
    BY DEF IInv, TypeOK, Fail, CallsKnown, Running, history
<1>3. RunningHaveRaced'
    BY DEF IInv, TypeOK, Fail, RunningHaveRaced, Running, Settled, history
<1> QED
    BY <1>1, <1>2, <1>3 DEF IInv

LEMMA PollKeeps ==
    ASSUME IInv, Poll
    PROVE  IInv'
<1>1. TypeOK'
    BY DEF IInv, TypeOK, Poll, CallsKnown, call, history
<1>2. CallsKnown'
    BY DEF IInv, Poll, CallsKnown, call, history
<1>3. RunningHaveRaced'
    BY DEF IInv, Poll, RunningHaveRaced, Running, Settled, call, history
<1> QED
    BY <1>1, <1>2, <1>3 DEF IInv

LEMMA ExpireKeeps ==
    ASSUME IInv, Expire
    PROVE  IInv'
<1>1. TypeOK'
    BY DEF IInv, TypeOK, Expire, States, Running, call
<1>2. CallsKnown'
    BY DEF IInv, Expire, CallsKnown, Absent, call
<1>3. RunningHaveRaced'
    BY DEF IInv, Expire, RunningHaveRaced, Running, call
<1> QED
    BY <1>1, <1>2, <1>3 DEF IInv

LEMMA NextIInv == IInv /\ [Next]_vars => IInv'
<1> SUFFICES ASSUME IInv, [Next]_vars PROVE IInv'
    OBVIOUS
<1>1. CASE UNCHANGED vars
    BY <1>1 DEF IInv, TypeOK, CallsKnown, RunningHaveRaced, Running, Settled,
                vars, call, history
<1>2. ASSUME NEW c \in Calls, Request(c) PROVE IInv'
    BY <1>2, ReadKeeps, QrAssumption DEF Request
<1>3. ASSUME NEW c \in Calls, Login(c) \/ Store(c) \/ Fail(c) PROVE IInv'
    BY <1>3, LoginKeeps, StoreKeeps, FailKeeps
<1> QED
    BY <1>1, <1>2, <1>3, PollKeeps, ExpireKeeps DEF Next

LEMMA SpecIInv == Spec => []IInv
BY InitIInv, NextIInv, PTL DEF Spec

\* The variables keep their types; a code names only sessions that exist.
THEOREM SpecTypeOK == Spec => []TypeOK
BY SpecIInv, PTL DEF IInv

\* Every session made through the code belongs to a user who had scanned it.
THEOREM SpecOnlyTheScannerLogsIn == Spec => []OnlyTheScannerLogsIn
<1>1. IInv => OnlyTheScannerLogsIn
    BY DEF IInv, TypeOK, CallsKnown, OnlyTheScannerLogsIn
<1> QED
    BY <1>1, SpecIInv, PTL

\* What settled the code is only overwritten by a call that raced with it.
THEOREM SpecSettledStays == Spec => SettledStays
<1>1. IInv /\ [Next]_vars =>
        [Settled(code) /\ code' # code =>
           code' = Absent \/ \E c \in raced : at[c] = "store" /\ at'[c] = "ok"]_vars
    <2> SUFFICES ASSUME IInv, Next, Settled(code), code' # code, code' # Absent
                 PROVE  \E c \in raced : at[c] = "store" /\ at'[c] = "ok"
        BY DEF vars
    <2>1. PICK c \in Calls : Store(c)
        BY DEF Next, Request, Read, Login, Fail, Poll, Expire
    <2>2. c \in raced
        BY <2>1 DEF IInv, RunningHaveRaced, Running, Store
    <2> QED
        BY <2>1, <2>2 DEF Store, IInv, TypeOK
<1> QED
    BY <1>1, SpecIInv, PTL DEF Spec, SettledStays

LEMMA PolledKept ==
    IInv /\ ConfirmedCanBePolled /\ [Next]_vars => ConfirmedCanBePolled'
<1> SUFFICES ASSUME IInv, ConfirmedCanBePolled, [Next]_vars,
                    NEW d \in Calls, at'[d] = "ok", op'[d] = "confirm"
             PROVE  code' = Confirmed(d) \/ code' = Absent \/ \E e \in raced' : at'[e] = "ok"
    BY DEF ConfirmedCanBePolled, Confirmed
<1>1. ASSUME NEW c \in Calls, Store(c)
      PROVE  code' = Confirmed(d) \/ code' = Absent \/ \E e \in raced' : at'[e] = "ok"
    <2>1. CASE c = d
        BY <1>1, <2>1, NewStateShapes DEF Store, IInv, TypeOK
    <2>2. CASE c # d
        <3>1. at[d] = "ok" /\ op[d] = "confirm"
            BY <1>1, <2>2 DEF Store, IInv, TypeOK
        <3>2. CASE \E e \in raced : at[e] = "ok"
            BY <1>1, <3>2 DEF Store, IInv, TypeOK
        <3>3. CASE code = Confirmed(d) \/ code = Absent
            <4>1. c \in raced
                BY <1>1, <3>3 DEF Store, IInv, RunningHaveRaced, Running, Settled, Confirmed, Absent
            <4> QED
                BY <1>1, <4>1 DEF Store, IInv, TypeOK
        <3> QED
            BY <3>1, <3>2, <3>3 DEF ConfirmedCanBePolled
    <2> QED
        BY <2>1, <2>2
<1>2. CASE ~ \E c \in Calls : Store(c)
    <2>1. /\ code' = code \/ code' = Absent
          /\ raced \subseteq raced'
          /\ \A e \in Calls : at'[e] = "ok" => at[e] = "ok" /\ op'[e] = op[e]
          /\ \A e \in Calls : at[e] = "ok" => at'[e] = "ok"
        BY <1>2 DEF Next, Request, Read, Login, Fail, Poll, Expire, vars, call, history,
                    IInv, TypeOK, Running
    <2> QED
        BY <2>1 DEF ConfirmedCanBePolled, IInv, TypeOK, Confirmed
<1> QED
    BY <1>1, <1>2

\* A confirm that answered with success can be polled.
THEOREM SpecConfirmedCanBePolled == Spec => []ConfirmedCanBePolled
<1>1. Init => ConfirmedCanBePolled
    BY DEF Init, ConfirmedCanBePolled
<1> QED
    BY <1>1, PolledKept, SpecIInv, PTL DEF Spec

-----------------------------------------------------------------------------
(* Counting                                                                *)

LEMMA CountedSetsFinite ==
    ASSUME IInv
    PROVE  /\ IsFiniteSet(Clean) /\ IsFiniteSet(LateScans) /\ IsFiniteSet(raced)
           /\ Cardinality(Clean) \in Nat /\ Cardinality(LateScans) \in Nat
           /\ Cardinality(raced) \in Nat
<1>1. Clean \subseteq Calls /\ LateScans \subseteq Calls /\ raced \subseteq Calls
    BY DEF Clean, LateScans, IInv, TypeOK
<1> QED
    BY <1>1, QrAssumption, FS_Subset, FS_CardinalityType

LEMMA StoreCounted ==
    ASSUME IInv, IInv', CleanCounted, NEW c \in Calls, Store(c)
    PROVE  CleanCounted'
<1> USE CountedSetsFinite
<1>1. at[c] = "store" /\ op' = op /\ at' = [at EXCEPT ![c] = "ok"] /\ code' = NewState(c)
    BY DEF Store
<1>2. raced \subseteq raced' /\ (c \in raced' <=> c \in raced)
        /\ \A d \in Calls : at[d] = "ok" => (d \in raced' <=> d \in raced)
    BY DEF Store, Running
<1>3. CASE op[c] = "scan"
    <2>1. Clean' = Clean /\ ~ Settled(code')
        BY <1>1, <1>2, <1>3, NewStateShapes DEF Clean, IInv, TypeOK, Settled, Scanned
    <2>2. CASE c \in raced
        <3>1. LateScans' = LateScans \cup {c} /\ c \notin LateScans
            BY <1>1, <1>2, <1>3, <2>2 DEF LateScans, IInv, TypeOK
        <3>2. Cardinality(LateScans') = Cardinality(LateScans) + 1
            BY <3>1, FS_AddElement
        <3> QED
            BY <2>1, <3>2 DEF CleanCounted
    <2>3. CASE c \notin raced
        <3>1. LateScans' = LateScans
            BY <1>1, <1>2, <1>3, <2>3 DEF LateScans, IInv, TypeOK
        <3>2. ~ Settled(code)
            BY <1>1, <2>3 DEF IInv, RunningHaveRaced, Running
        <3> QED
            BY <2>1, <3>1, <3>2 DEF CleanCounted
    <2> QED
        BY <2>2, <2>3
<1>4. CASE op[c] = "confirm"
    <2>1. LateScans' = LateScans /\ Settled(code')
        BY <1>1, <1>2, <1>4, NewStateShapes DEF LateScans, IInv, TypeOK, Settled, Confirmed
    <2>2. CASE c \in raced
        <3>1. Clean' = Clean
            BY <1>1, <1>2, <1>4, <2>2 DEF Clean, IInv, TypeOK
        <3> QED
            BY <2>1, <3>1 DEF CleanCounted
    <2>3. CASE c \notin raced
        <3>1. Clean' = Clean \cup {c} /\ c \notin Clean
            BY <1>1, <1>2, <1>4, <2>3 DEF Clean, IInv, TypeOK
        <3>2. Cardinality(Clean') = Cardinality(Clean) + 1
            BY <3>1, FS_AddElement
        <3>3. ~ Settled(code)
            BY <1>1, <2>3 DEF IInv, RunningHaveRaced, Running
        <3> QED
            BY <2>1, <3>2, <3>3 DEF CleanCounted
    <2> QED
        BY <2>2, <2>3
<1>5. CASE op[c] = "cancel"
    <2>1. Clean' = Clean /\ LateScans' = LateScans /\ Settled(code')
        BY <1>1, <1>2, <1>5, NewStateShapes DEF Clean, LateScans, IInv, TypeOK, Settled, Cancelled
    <2> QED
        BY <2>1 DEF CleanCounted
<1> QED
    BY <1>1, <1>3, <1>4, <1>5, NewStateShapes

LEMMA NextCounted ==
    IInv /\ IInv' /\ CleanCounted /\ [Next]_vars => CleanCounted'
<1> SUFFICES ASSUME IInv, IInv', CleanCounted, [Next]_vars PROVE CleanCounted'
    OBVIOUS
<1>1. CASE \E c \in Calls : Store(c)
    BY <1>1, StoreCounted
<1>2. CASE ~ \E c \in Calls : Store(c)
    <2>1. /\ Settled(code) => Settled(code')
          /\ \A e \in Calls : at'[e] = "ok" <=> at[e] = "ok"
          /\ \A e \in Calls : at[e] = "ok" => op'[e] = op[e] /\ (e \in raced' <=> e \in raced)
        BY <1>2 DEF Next, Request, Read, Login, Fail, Poll, Expire, vars, call, history,
                    IInv, TypeOK, Running, Settled, Absent
    <2>2. Clean' = Clean /\ LateScans' = LateScans
        BY <2>1 DEF Clean, LateScans
    <2> QED
        BY <2>1, <2>2, CountedSetsFinite DEF CleanCounted
<1> QED
    BY <1>1, <1>2

\* A code is confirmed once, and once more for every call that raced.
THEOREM SpecOneSessionPerCode == Spec => []OneSessionPerCode
<1>1. Init => CleanCounted
    <2> SUFFICES ASSUME Init PROVE CleanCounted
        OBVIOUS
    <2>1. Clean = {} /\ LateScans = {}
        BY DEF Init, Clean, LateScans
    <2> QED
        BY <2>1, FS_EmptySet DEF CleanCounted
<1>2. IInv /\ CleanCounted => OneSessionPerCode
    <2> SUFFICES ASSUME IInv, CleanCounted PROVE OneSessionPerCode
        OBVIOUS
    <2> DEFINE late == {c \in Calls : op[c] = "confirm" /\ at[c] = "ok"} \cap raced
               all == {c \in Calls : op[c] = "confirm" /\ at[c] = "ok"}
    <2>1. /\ IsFiniteSet(late) /\ IsFiniteSet(Clean) /\ IsFiniteSet(LateScans)
          /\ IsFiniteSet(raced)
        BY CountedSetsFinite, FS_Subset
    <2>4. Cardinality(late) \in Nat /\ Cardinality(LateScans) \in Nat
            /\ Cardinality(Clean) \in Nat /\ Cardinality(raced) \in Nat
        BY <2>1, FS_CardinalityType
    <2>2. /\ Cardinality(late \cup LateScans) = Cardinality(late) + Cardinality(LateScans)
          /\ Cardinality(late \cup LateScans) <= Cardinality(raced)
        <3>1. late \cap LateScans = {} /\ late \cup LateScans \subseteq raced
            BY DEF LateScans
        <3>2. Cardinality(late \cap LateScans) = 0
            BY <3>1, FS_EmptySet
        <3> QED
            <4>1. Cardinality(late \cup LateScans)
                    = Cardinality(late) + Cardinality(LateScans) - Cardinality(late \cap LateScans)
                BY <2>1, FS_Union
            <4>2. Cardinality(late \cup LateScans) <= Cardinality(raced)
                BY <2>1, <3>1, FS_Subset
            <4> QED
                BY <2>4, <3>2, <4>1, <4>2
    <2>3. Cardinality(all) = Cardinality(Clean) + Cardinality(late)
        <3>1. all = Clean \cup late /\ Clean \cap late = {}
            BY DEF Clean
        <3>2. Cardinality(Clean \cap late) = 0
            BY <3>1, FS_EmptySet
        <3> QED
            <4>1. Cardinality(Clean \cup late)
                    = Cardinality(Clean) + Cardinality(late) - Cardinality(Clean \cap late)
                BY <2>1, FS_Union
            <4> HIDE DEF late
            <4>2. Cardinality(Clean \cup late) = Cardinality(Clean) + Cardinality(late)
                BY <2>4, <3>2, <4>1
            <4> QED
                BY <3>1, <4>2
    <2> HIDE DEF late, all
    <2>5. Cardinality(Clean) <= 1 + Cardinality(LateScans)
        BY <2>4 DEF CleanCounted
    <2>6. Cardinality(all) <= 1 + Cardinality(raced)
        BY <2>2, <2>3, <2>4, <2>5
    <2> QED
        BY <2>6 DEF OneSessionPerCode, all
<1> QED
    BY <1>1, <1>2, NextCounted, SpecIInv, PTL DEF Spec

-----------------------------------------------------------------------------
(* ResourceGate: what is known of a request.                               *)

\* Where a request can be, by its operation.
GateLabels(kind) ==
    CASE kind = "create"         -> {"unique", "write"}
      [] kind = "update"         -> {"find", "unique", "write"}
      [] kind = "update_enabled" -> {"find", "write"}
      [] kind = "delete"         -> {"find", "count", "drop"}
      [] kind = "save"           -> {"find_action", "exist", "delete_old", "commit"}
      [] kind = "reload"         -> {}
ReloadLabels == {"read_resources", "read_actions", "replace"}
AllGateLabels == {"idle", "done", "unique", "write", "find", "count", "drop", "find_action",
                  "exist", "delete_old", "commit"} \cup ReloadLabels

GateRow == [state : {"unborn", "row", "gone"}, at : Wanted, enabled : {"on", "off"}]
Rule    == [at : Wanted, actions : SUBSET Actions]
Wish    == [at : Wanted \cup {Keep}, enabled : {"on", "off", "keep"}]

Causes  == {"failed", "overtaken", "button"} \X (GateRequests \cup Nat \cup {"start"})

\* A request of the administration: the rows it knows are bindings or, in a
\* reload, resources.
GateTasks ==
    [op : GateOperations, id : Resources \cup {{}}, wish : Wish, current : Wanted \cup {Keep},
     action : Actions \cup {{}}, asked : SUBSET Resources,
     rows : (SUBSET (Actions \X Resources)) \cup (SUBSET (Resources \X GateRow)),
     rules : SUBSET Rule, elders : SUBSET GateRequests, late : BOOLEAN,
     clears : SUBSET Causes]

\* A request is where its operation can be and has what that needs.
GatePlaced(r) ==
    /\ gpc[r] \in {"idle", "done"} \cup ReloadLabels \cup GateLabels(gtask[r].op)
    /\ gtask[r].op \in {"update", "update_enabled", "delete"} => gtask[r].id \in Resources
    /\ gtask[r].op = "create" => gtask[r].wish.at # Keep /\ gtask[r].wish.enabled # "keep"
    /\ gtask[r].op = "save" => gtask[r].action \in Actions
    /\ Reloading(r) => gtask[r].rows \subseteq Resources \X GateRow
    /\ gpc[r] # "replace" => gtask[r].rules = {}
    /\ ~ Reloading(r) => gtask[r].clears = {}
    /\ r \notin gtask[r].elders

GateTypes ==
    /\ resource \in [Resources -> GateRow]
    /\ bound \subseteq Actions \X Resources
    /\ button \in [Actions -> {"on", "off", "gone"}]
    /\ policy \subseteq Rule
    /\ gtask \in [GateRequests -> GateTasks]
    /\ changes \in Nat /\ queryFailures \in Nat
    /\ due \subseteq Causes
    /\ gpc \in [GateRequests -> AllGateLabels]
    /\ \A r \in GateRequests : GatePlaced(r)

\* A cause that has not come up is nobody's: requests fail or are overtaken
\* once, and changes of buttons are counted.
FreshIn(C) ==
    /\ \A r \in GateRequests : gpc[r] # "done" => <<"failed", r>> \notin C /\ <<"overtaken", r>> \notin C
    /\ \A k \in Nat : k >= changes => <<"button", k>> \notin C
CausesFresh == FreshIn(due) /\ \A r \in GateRequests : FreshIn(gtask[r].clears)

\* A reload that did not find another under way cannot clear what that one
\* will not.
ClearsGrow ==
    \A x, r \in GateRequests :
        Reloading(x) /\ Reloading(r) /\ r \notin gtask[x].elders
            => gtask[x].clears \cap due \subseteq gtask[r].clears

\* A change that is about to be read will have overtaken the reload.
Overtaking(x, r) ==
    /\ x # r /\ gtask[x].op # "reload"
    /\ gpc[x] = "read_resources" \/ (Reloading(x) /\ r \in gtask[x].elders)
Excused(r) ==
    \/ gtask[r].late
    \/ due \ gtask[r].clears # {}
    \/ \E x \in GateRequests : Overtaking(x, r)

\* What a reload has read is in the tables, or it is excused.
ReadHolds ==
    \A r \in GateRequests :
        /\ gpc[r] = "read_actions" => gtask[r].rows = EnabledRows \/ Excused(r)
        /\ gpc[r] = "replace" => gtask[r].rules = RulesOf(EnabledRows) \/ Excused(r)

\* The policy is that of the tables, or somebody knows why not.
PolicyHolds ==
    \/ policy = RulesOf(EnabledRows)
    \/ due # {}
    \/ \E x \in GateRequests : gtask[x].op # "reload" /\ gpc[x] \in ReloadLabels

\* Rules that let nobody pass an endpoint without an action.
RulesGuard(rules, e) ==
    /\ \E rule \in rules : RuleMatches(rule.at, e)
    /\ \A rule \in rules : RuleMatches(rule.at, e) => rule.actions # {}

\* An endpoint guarded since a reload began is guarded by what it has read.
GuardHolds ==
    /\ heldBy \in [GateRequests -> SUBSET Endpoints] /\ held \subseteq Endpoints
    /\ agreed = bound
    /\ \A r \in GateRequests : \A e \in heldBy[r] :
         /\ Reloading(r) /\ Guarded(e)
         /\ gpc[r] = "read_actions" =>
              Matching(e) = {row[1] : row \in {p \in gtask[r].rows : RuleMatches(p[2].at, e)}}
         /\ gpc[r] = "replace" => RulesGuard(gtask[r].rules, e)
    /\ \A e \in held : RulesGuard(policy, e)

GateInv == GateTypes /\ CausesFresh /\ ClearsGrow /\ ReadHolds /\ PolicyHolds /\ GuardHolds

-----------------------------------------------------------------------------
(* The steps.                                                              *)

\* The body of a request has what its operation needs.
LEMMA BodyIs ==
    ASSUME NEW kind \in GateOperations, NEW body \in Bodies(kind)
    PROVE  /\ body \in GateTasks /\ body.op = kind /\ body.clears = {} /\ body.rules = {} /\ body.elders = {}
           /\ kind \in {"update", "update_enabled", "delete"} => body.id \in Resources
           /\ kind = "create" => body.wish.at # Keep /\ body.wish.enabled # "keep"
           /\ kind = "save" => body.action \in Actions
<1>1. NoWish \in Wish
    BY DEF NoWish, Wish
<1>2. /\ NoGateTask \in GateTasks /\ NoGateTask.op = "reload"
      /\ NoGateTask.clears = {} /\ NoGateTask.rules = {} /\ NoGateTask.elders = {}
    BY <1>1 DEF NoGateTask, GateTasks, GateOperations
<1>3. ASSUME NEW id \in Resources \cup {{}}, NEW w \in Wish
      PROVE  LET t == About(kind, id, w)
             IN  t \in GateTasks /\ t.op = kind /\ t.id = id /\ t.wish = w
                 /\ t.clears = {} /\ t.rules = {} /\ t.elders = {}
    BY <1>2 DEF About, GateTasks
<1>4. CASE kind = "create"
    <2>1. PICK w \in Wishes(Wanted, {"on", "off"}) : body = About(kind, {}, w)
        BY <1>4 DEF Bodies
    <2>2. w \in Wish /\ w.at \in Wanted /\ w.enabled # "keep"
        BY DEF Wishes, Wish
    <2>3. w.at # Keep
        BY <2>2, GateAssumption
    <2> QED
        BY <2>1, <2>2, <2>3, <1>3, <1>4
<1>5. CASE kind = "update"
    <2>1. PICK id \in Resources, w \in Wishes(Wanted \cup {Keep}, {"off", "keep"}) :
              body = About(kind, id, w)
        BY <1>5 DEF Bodies
    <2>2. w \in Wish
        BY DEF Wishes, Wish
    <2> QED
        BY <2>1, <2>2, <1>3, <1>5
<1>6. CASE kind = "update_enabled"
    <2>1. PICK id \in Resources, w \in Wishes({Keep}, {"on", "off"}) : body = About(kind, id, w)
        BY <1>6 DEF Bodies
    <2>2. w \in Wish
        BY DEF Wishes, Wish
    <2> QED
        BY <2>1, <2>2, <1>3, <1>6
<1>7. CASE kind = "delete"
    <2>1. PICK id \in Resources : body = About(kind, id, NoWish)
        BY <1>7 DEF Bodies
    <2> QED
        BY <2>1, <1>1, <1>3, <1>7
<1>8. CASE kind = "save"
    <2>1. PICK a \in Actions, asked \in SUBSET Resources : body = Binding(a, asked)
        BY <1>8 DEF Bodies
    <2>2. /\ body \in GateTasks /\ body.op = "save" /\ body.action = a
          /\ body.clears = {} /\ body.rules = {} /\ body.elders = {}
        BY <2>1, <1>2, <1>8 DEF Binding, GateTasks
    <2> QED
        BY <2>2, <1>8
<1>9. CASE kind = "reload"
    BY <1>2, <1>9 DEF Bodies
<1> QED
    BY <1>4, <1>5, <1>6, <1>7, <1>8, <1>9 DEF GateOperations

GateAlone(r) == \A q \in GateRequests \ {r} : gpc'[q] = gpc[q] /\ gtask'[q] = gtask[q]

LEMMA MoveIs ==
    ASSUME GateTypes, NEW r \in GateRequests, NEW label \in AllGateLabels, NEW rec,
           rec \in GateTasks, GateMove(r, label, rec)
    PROVE  /\ GateAlone(r) /\ gpc'[r] = label
           /\ gtask'[r] = IF label = "done" THEN NoGateTask ELSE rec
           /\ gpc' \in [GateRequests -> AllGateLabels] /\ gtask' \in [GateRequests -> GateTasks]
<1>1. NoGateTask \in GateTasks
    BY DEF NoGateTask, NoWish, GateTasks, GateOperations, Wish
<1> QED
    BY <1>1 DEF GateTypes, GateMove, GateAlone

\* What r has after a step is enough when the others stand as they did.
LEMMA PlacesKept ==
    ASSUME GateTypes, NEW r \in GateRequests, GateAlone(r), GatePlaced(r)'
    PROVE  \A q \in GateRequests : GatePlaced(q)'
BY DEF GateTypes, GateAlone, GatePlaced, Reloading

\* A request that has ended has forgotten.
LEMMA DonePlaced ==
    ASSUME NEW r \in GateRequests, gpc'[r] = "done", gtask'[r] = NoGateTask
    PROVE  GatePlaced(r)'
BY DEF GatePlaced, NoGateTask, Reloading

\* A request that works on its way keeps what it is about.
SameBody(t, u) ==
    /\ t \in GateTasks /\ t.op = u.op /\ t.id = u.id /\ t.wish = u.wish /\ t.action = u.action
    /\ t.rules = u.rules /\ t.clears = u.clears /\ t.elders = u.elders

LEMMA MovePlaces ==
    ASSUME GateTypes, NEW r \in GateRequests, NEW label \in AllGateLabels, NEW rec,
           SameBody(rec, gtask[r]), GateMove(r, label, rec),
           ~ Reloading(r), label \in {"done", "read_resources"} \cup GateLabels(gtask[r].op)
    PROVE  /\ GateAlone(r) /\ gpc'[r] = label /\ gtask'[r].clears = {}
           /\ label # "done" => gtask'[r].op = gtask[r].op
           /\ gpc' \in [GateRequests -> AllGateLabels] /\ gtask' \in [GateRequests -> GateTasks]
           /\ \A q \in GateRequests : GatePlaced(q)'
<1>1. /\ GateAlone(r) /\ gpc'[r] = label
      /\ gtask'[r] = IF label = "done" THEN NoGateTask ELSE rec
      /\ gpc' \in [GateRequests -> AllGateLabels] /\ gtask' \in [GateRequests -> GateTasks]
    BY MoveIs DEF SameBody
<1>2. GatePlaced(r) /\ gtask[r] \in GateTasks
    BY DEF GateTypes
<1>3. GatePlaced(r)'
    <2>1. CASE label = "done"
        BY <2>1, <1>1, DonePlaced
    <2>2. CASE label # "done"
        <3>1. label \notin {"read_actions", "replace"}
            BY <2>2 DEF GateLabels, GateOperations, GateTasks, GateTypes
        <3> QED
            BY <1>1, <1>2, <2>2, <3>1 DEF GatePlaced, SameBody, Reloading, ReloadLabels
    <2> QED
        BY <2>1, <2>2
<1> QED
    BY <1>1, <1>2, <1>3, PlacesKept DEF SameBody, GatePlaced, NoGateTask

\* The steps that only look, or give up, ...
Quiet(r) ==
    /\ GateAlone(r) /\ gpc[r] \notin ReloadLabels \cup {"done", "commit"}
    /\ gpc'[r] \notin {"read_actions", "replace"} /\ gtask'[r].clears = {}
    /\ UNCHANGED <<gateTables, policy, changes, due>>

\* ... and those that change the tables, if they do.
Changing(r) ==
    /\ GateAlone(r) /\ gpc[r] \notin ReloadLabels \cup {"done"}
    /\ gtask'[r].clears = {}
    /\ \/ gpc'[r] = "done" /\ UNCHANGED gateTables
       \/ gpc'[r] = "read_resources" /\ gtask'[r].op # "reload"
    /\ bound' = bound \/ gpc[r] = "commit"
    /\ UNCHANGED <<button, policy, changes, due>>

LEMMA BeginStep ==
    ASSUME GateTypes, NEW r \in GateRequests, GateBegin(r)
    PROVE  GateTypes' /\ Quiet(r)
<1>1. PICK kind \in GateScript[r] : \E body \in Bodies(kind) :
          GateMove(r, CASE kind = "create" -> "unique" [] kind = "save" -> "find_action"
                        [] kind = "reload" -> "read_resources" [] OTHER -> "find", body)
    BY DEF GateBegin
<1>2. kind \in GateOperations
    BY GateAssumption
<1>3. PICK body \in Bodies(kind) :
          GateMove(r, CASE kind = "create" -> "unique" [] kind = "save" -> "find_action"
                        [] kind = "reload" -> "read_resources" [] OTHER -> "find", body)
    BY <1>1
<1> DEFINE label == CASE kind = "create" -> "unique" [] kind = "save" -> "find_action"
                      [] kind = "reload" -> "read_resources" [] OTHER -> "find"
<1>4. label \in ({"read_resources"} \cup GateLabels(kind))
      /\ label \in AllGateLabels /\ label \notin {"done", "read_actions", "replace"}
    BY <1>2 DEF GateLabels, GateOperations, AllGateLabels, ReloadLabels
<1>5. GateMove(r, label, body)
    BY <1>3
<1> HIDE DEF label
<1>6. /\ body \in GateTasks /\ body.op = kind /\ body.clears = {} /\ body.rules = {} /\ body.elders = {}
      /\ kind \in {"update", "update_enabled", "delete"} => body.id \in Resources
      /\ kind = "create" => body.wish.at # Keep /\ body.wish.enabled # "keep"
      /\ kind = "save" => body.action \in Actions
    BY <1>2, BodyIs
<1>7. /\ GateAlone(r) /\ gpc'[r] = label /\ gtask'[r] = body
      /\ gpc' \in [GateRequests -> AllGateLabels] /\ gtask' \in [GateRequests -> GateTasks]
    BY <1>4, <1>5, <1>6, MoveIs
<1>8. GatePlaced(r)'
    BY <1>4, <1>6, <1>7 DEF GatePlaced, Reloading, ReloadLabels
<1>9. \A q \in GateRequests : GatePlaced(q)'
    BY <1>7, <1>8, PlacesKept
<1>10. gpc[r] = "idle" /\ UNCHANGED <<gateTables, policy, changes, queryFailures, due>>
    BY DEF GateBegin
<1> QED
    BY <1>4, <1>6, <1>7, <1>9, <1>10 DEF GateTypes, Quiet, gateTables, ReloadLabels

\* A step that looks, from where it is to where it may go.
LEMMA LookStep ==
    ASSUME GateTypes, NEW r \in GateRequests, NEW label \in AllGateLabels, NEW rec,
           SameBody(rec, gtask[r]), GateMove(r, label, rec),
           gpc[r] \notin ReloadLabels \cup {"done", "commit"},
           label \in {"done"} \cup GateLabels(gtask[r].op),
           UNCHANGED <<gateTables, policy, changes, queryFailures, due>>
    PROVE  GateTypes' /\ Quiet(r)
<1>1. ~ Reloading(r)
    BY DEF Reloading, ReloadLabels
<1>2. label \notin {"read_actions", "replace"}
    BY DEF GateLabels, GateTypes, GateTasks, GateOperations
<1> QED
    BY <1>1, <1>2, MovePlaces DEF GateTypes, Quiet, gateTables

LEMMA FindStep ==
    ASSUME GateTypes, NEW r \in GateRequests, GateFind(r)
    PROVE  GateTypes' /\ Quiet(r)
<1> DEFINE t == gtask[r]
           label == IF ~Here(t.id) THEN "done"
                    ELSE CASE t.op = "update" -> "unique" [] t.op = "delete" -> "count"
                           [] OTHER -> "write"
           rec == [t EXCEPT !.current = resource[t.id].at]
<1>1. gpc[r] = "find" /\ GateMove(r, label, rec)
    BY DEF GateFind
<1>2. t \in GateTasks /\ t.op \in {"update", "update_enabled", "delete"} /\ t.id \in Resources
    BY <1>1 DEF GateTypes, GatePlaced, GateLabels, ReloadLabels, GateTasks, GateOperations
<1>3. SameBody(rec, t)
    BY <1>2 DEF SameBody, GateTypes, GateTasks, GateRow
<1>4. label \in {"done"} \cup GateLabels(t.op) /\ label \in AllGateLabels
    BY <1>2 DEF GateLabels, AllGateLabels
<1>5. gpc[r] \notin ReloadLabels \cup {"done", "commit"}
    BY <1>1 DEF ReloadLabels
<1> HIDE DEF t, label, rec
<1> QED
    BY <1>1, <1>3, <1>4, <1>5, LookStep DEF GateFind, t

LEMMA LooksStep ==
    ASSUME GateTypes, NEW r \in GateRequests,
           \/ GateUnique(r) \/ GateCount(r) \/ GateFindAction(r) \/ GateExist(r)
           \/ GateDeleteOld(r)
    PROVE  GateTypes' /\ Quiet(r)
<1> DEFINE t == gtask[r]
<1>1. /\ t \in GateTasks /\ SameBody(t, t) /\ bound \subseteq Actions \X Resources
      /\ gpc[r] \notin {"idle", "done"} \cup ReloadLabels => gpc[r] \in GateLabels(t.op)
      /\ t.op \in GateOperations
    BY DEF SameBody, GateTypes, GatePlaced, GateTasks
<1> HIDE DEF t
<1>2. CASE GateUnique(r)
    <2>1. /\ gpc[r] = "unique" /\ \E label \in {"done", "write"} : GateMove(r, label, t)
          /\ UNCHANGED <<gateTables, policy, changes, queryFailures, due>>
        BY <1>2 DEF GateUnique, GateGoto, t
    <2>2. {"done", "write"} \subseteq ({"done"} \cup GateLabels(t.op)) \cap AllGateLabels
        BY <1>1, <2>1 DEF GateLabels, GateOperations, AllGateLabels, ReloadLabels
    <2> QED
        BY <1>1, <2>1, <2>2, LookStep DEF ReloadLabels, t
<1>3. CASE GateCount(r)
    <2>1. /\ gpc[r] = "count" /\ \E label \in {"done", "drop"} : GateMove(r, label, t)
          /\ UNCHANGED <<gateTables, policy, changes, queryFailures, due>>
        BY <1>3 DEF GateCount, GateGoto, t
    <2>2. {"done", "drop"} \subseteq ({"done"} \cup GateLabels(t.op)) \cap AllGateLabels
        BY <1>1, <2>1 DEF GateLabels, GateOperations, AllGateLabels, ReloadLabels
    <2> QED
        BY <1>1, <2>1, <2>2, LookStep DEF ReloadLabels, t
<1>4. CASE GateFindAction(r)
    <2>1. /\ gpc[r] = "find_action" /\ \E label \in {"done", "exist"} : GateMove(r, label, t)
          /\ UNCHANGED <<gateTables, policy, changes, queryFailures, due>>
        BY <1>4 DEF GateFindAction, GateGoto, t
    <2>2. {"done", "exist"} \subseteq ({"done"} \cup GateLabels(t.op)) \cap AllGateLabels
        BY <1>1, <2>1 DEF GateLabels, GateOperations, AllGateLabels, ReloadLabels
    <2> QED
        BY <1>1, <2>1, <2>2, LookStep DEF ReloadLabels, t
<1>5. CASE GateExist(r)
    <2>1. /\ gpc[r] = "exist" /\ \E label \in {"done", "delete_old"} : GateMove(r, label, t)
          /\ UNCHANGED <<gateTables, policy, changes, queryFailures, due>>
        BY <1>5 DEF GateExist, GateGoto, t
    <2>2. {"done", "delete_old"} \subseteq ({"done"} \cup GateLabels(t.op)) \cap AllGateLabels
        BY <1>1, <2>1 DEF GateLabels, GateOperations, AllGateLabels, ReloadLabels
    <2> QED
        BY <1>1, <2>1, <2>2, LookStep DEF ReloadLabels, t
<1>6. CASE GateDeleteOld(r)
    <2> DEFINE rec == [t EXCEPT !.rows = BindingsOf(t.action)]
    <2>1. /\ gpc[r] = "delete_old" /\ GateMove(r, "commit", rec)
          /\ UNCHANGED <<gateTables, policy, changes, queryFailures, due>>
        BY <1>6 DEF GateDeleteOld, t
    <2>2. "commit" \in GateLabels(t.op) /\ "commit" \in AllGateLabels
        BY <1>1, <2>1 DEF GateLabels, GateOperations, AllGateLabels, ReloadLabels
    <2>3. SameBody(rec, t)
        <3>1. BindingsOf(t.action) \in SUBSET (Actions \X Resources)
            BY <1>1 DEF BindingsOf
        <3> HIDE DEF t
        <3> QED
            BY <1>1, <3>1 DEF SameBody, GateTasks
    <2> HIDE DEF rec
    <2> QED
        BY <1>1, <2>1, <2>2, <2>3, LookStep DEF ReloadLabels, t
<1> QED
    BY <1>2, <1>3, <1>4, <1>5, <1>6

\* A step that may change the tables, from where it is to a reload.
LEMMA ChangeStep ==
    ASSUME GateTypes, NEW r \in GateRequests, NEW label \in {"done", "read_resources"},
           GateMove(r, label, gtask[r]), gpc[r] \in GateLabels(gtask[r].op),
           resource' \in [Resources -> GateRow], bound' \subseteq Actions \X Resources,
           label = "done" => UNCHANGED gateTables, bound' = bound \/ gpc[r] = "commit",
           UNCHANGED <<button, policy, changes, queryFailures, due>>
    PROVE  GateTypes' /\ Changing(r)
<1>1. /\ gtask[r] \in GateTasks /\ SameBody(gtask[r], gtask[r])
      /\ gtask[r].op # "reload" /\ gpc[r] \notin ReloadLabels \cup {"done"}
    BY DEF GateTypes, SameBody, GateLabels, GateTasks, GateOperations, ReloadLabels
<1>2. ~ Reloading(r) /\ label \in AllGateLabels
    BY <1>1 DEF Reloading, ReloadLabels, AllGateLabels
<1> QED
    BY <1>1, <1>2, MovePlaces DEF GateTypes, Changing, gateTables

LEMMA WriteStep ==
    ASSUME GateTypes, NEW r \in GateRequests, GateWrite(r)
    PROVE  GateTypes' /\ Changing(r)
<1> DEFINE t     == gtask[r]
           fresh == {id \in Resources : resource[id].state = "unborn"}
           ids   == IF t.op = "create" THEN fresh ELSE {t.id} \cap {id \in Resources : Here(id)}
           refused == ids = {} \/ (t.wish.at # Keep /\ Taken(t.wish.at, IF t.op = "create" THEN {} ELSE ids))
<1>1. /\ t \in GateTasks /\ gpc[r] = "write" /\ gpc[r] \in GateLabels(t.op)
      /\ t.op = "create" => t.wish.at # Keep /\ t.wish.enabled # "keep"
      /\ resource \in [Resources -> GateRow] /\ bound \subseteq Actions \X Resources
      /\ UNCHANGED <<bound, button, policy, changes, queryFailures, due>>
    BY DEF GateTypes, GatePlaced, GateWrite, ReloadLabels
<1>2. CASE refused
    <2>1. UNCHANGED resource /\ GateMove(r, "done", t)
        BY <1>2 DEF GateWrite, GateGoto
    <2> QED
        BY <1>1, <2>1, ChangeStep DEF gateTables
<1>3. CASE ~ refused
    <2>1. PICK id \in ids : resource' = [resource EXCEPT ![id] =
              [state   |-> "row",
               at      |-> IF t.wish.at = Keep THEN @.at ELSE t.wish.at,
               enabled |-> IF t.wish.enabled = "keep" THEN @.enabled ELSE t.wish.enabled]]
        BY <1>3 DEF GateWrite
    <2>2. GateMove(r, "read_resources", t)
        BY <1>3 DEF GateWrite, GateGoto
    <2>3. id \in Resources /\ t.wish \in Wish
        BY <1>1 DEF GateTasks
    <2>4. resource' \in [Resources -> GateRow]
        BY <1>1, <2>1, <2>3 DEF GateRow, Wish
    <2> QED
        BY <1>1, <2>2, <2>4, ChangeStep
<1> QED
    BY <1>2, <1>3

LEMMA DropStep ==
    ASSUME GateTypes, NEW r \in GateRequests, GateDrop(r)
    PROVE  GateTypes' /\ Changing(r)
<1>1. /\ gtask[r] \in GateTasks /\ gpc[r] = "drop" /\ gpc[r] \in GateLabels(gtask[r].op)
      /\ gtask[r].op \in GateOperations
      /\ resource \in [Resources -> GateRow] /\ bound \subseteq Actions \X Resources
      /\ UNCHANGED <<bound, button, policy, changes, queryFailures, due>>
    BY DEF GateTypes, GatePlaced, GateDrop, ReloadLabels, GateTasks
<1>2. gtask[r].id \in Resources
    BY <1>1 DEF GateTypes, GatePlaced, GateLabels, GateOperations
<1>3. CASE Here(gtask[r].id)
    <2>1. /\ resource' = [resource EXCEPT ![gtask[r].id].state = "gone"]
          /\ GateMove(r, "read_resources", gtask[r])
        BY <1>3 DEF GateDrop, GateGoto
    <2>2. resource' \in [Resources -> GateRow]
        BY <1>1, <1>2, <2>1 DEF GateRow
    <2> QED
        BY <1>1, <2>1, <2>2, ChangeStep
<1>4. CASE ~ Here(gtask[r].id)
    <2>1. UNCHANGED resource /\ GateMove(r, "done", gtask[r])
        BY <1>4 DEF GateDrop, GateGoto
    <2> QED
        BY <1>1, <2>1, ChangeStep DEF gateTables
<1> QED
    BY <1>3, <1>4

LEMMA CommitStep ==
    ASSUME GateTypes, NEW r \in GateRequests, GateCommit(r)
    PROVE  GateTypes' /\ Changing(r)
<1> DEFINE t    == gtask[r]
           left == bound \ t.rows
           new  == {<<t.action, id>> : id \in t.asked}
<1>1. /\ t \in GateTasks /\ gpc[r] = "commit" /\ gpc[r] \in GateLabels(t.op) /\ t.op \in GateOperations
      /\ resource \in [Resources -> GateRow] /\ bound \subseteq Actions \X Resources
      /\ UNCHANGED <<resource, button, policy, changes, queryFailures, due>>
    BY DEF GateTypes, GatePlaced, GateCommit, ReloadLabels, GateTasks
<1>2. t.action \in Actions /\ t.asked \subseteq Resources
    BY <1>1 DEF GateTypes, GatePlaced, GateLabels, GateOperations, GateTasks
<1>3. CASE left \cap new # {}
    <2>1. UNCHANGED bound /\ GateMove(r, "done", t)
        BY <1>3 DEF GateCommit, GateGoto
    <2> QED
        BY <1>1, <2>1, ChangeStep DEF gateTables
<1>4. CASE left \cap new = {}
    <2>1. bound' = left \cup new /\ GateMove(r, "read_resources", t)
        BY <1>4 DEF GateCommit, GateGoto
    <2>2. bound' \subseteq Actions \X Resources
        BY <1>1, <1>2, <2>1
    <2> QED
        BY <1>1, <2>1, <2>2, ChangeStep
<1> QED
    BY <1>3, <1>4

LEMMA EnabledRowsTyped ==
    ASSUME GateTypes PROVE EnabledRows \subseteq Resources \X GateRow
BY DEF GateTypes, EnabledRows, Enabled

LEMMA RulesTyped ==
    ASSUME NEW S \in SUBSET (Resources \X GateRow) PROVE RulesOf(S) \subseteq Rule
<1> SUFFICES ASSUME NEW rule \in RulesOf(S) PROVE rule \in Rule
    OBVIOUS
<1>1. PICK row \in S : rule = [at |-> row[2].at, actions |-> LiveActions(row[1])]
    BY DEF RulesOf
<1>2. row[2].at \in Wanted /\ LiveActions(row[1]) \in SUBSET Actions
    BY DEF GateRow, LiveActions
<1> QED
    BY <1>1, <1>2 DEF Rule

\* A step of a reload that is not its end.
LEMMA ReloadMoves ==
    ASSUME GateTypes, NEW r \in GateRequests, NEW label \in {"read_actions", "replace"}, NEW rec,
           rec \in GateTasks, GateMove(r, label, rec),
           rec.op = gtask[r].op, rec.id = gtask[r].id, rec.wish = gtask[r].wish,
           rec.action = gtask[r].action, rec.rows \subseteq Resources \X GateRow,
           label # "replace" => rec.rules = {}, r \notin rec.elders,
           UNCHANGED <<gateTables, policy, changes, queryFailures, due>>
    PROVE  GateTypes' /\ GateAlone(r) /\ gpc'[r] = label /\ gtask'[r] = rec
<1>1. /\ GateAlone(r) /\ gpc'[r] = label /\ gtask'[r] = rec
      /\ gpc' \in [GateRequests -> AllGateLabels] /\ gtask' \in [GateRequests -> GateTasks]
    BY MoveIs DEF AllGateLabels, ReloadLabels
<1>2. GatePlaced(r)'
    BY <1>1 DEF GateTypes, GatePlaced, Reloading, ReloadLabels
<1> QED
    BY <1>1, <1>2, PlacesKept DEF GateTypes, gateTables

LEMMA ReadResourcesStep ==
    ASSUME GateTypes, NEW r \in GateRequests, GateReadResources(r)
    PROVE  /\ GateTypes' /\ GateAlone(r) /\ gpc[r] = "read_resources"
           /\ gpc'[r] = IF EnabledRows = {} THEN "replace" ELSE "read_actions"
           /\ gtask'[r].rows = EnabledRows /\ gtask'[r].clears = due /\ gtask'[r].rules = {}
           /\ gtask'[r].elders = {x \in GateRequests : Reloading(x)}
           /\ gtask'[r].op = gtask[r].op
           /\ UNCHANGED <<gateTables, policy, changes, due>>
<1> DEFINE rows  == EnabledRows
           elders == {x \in GateRequests : Reloading(x)}
           rec   == [gtask[r] EXCEPT !.rows = rows, !.clears = due, !.elders = elders]
           label == IF rows = {} THEN "replace" ELSE "read_actions"
<1>1. gpc[r] = "read_resources" /\ GateMove(r, label, rec)
    BY DEF GateReadResources
<1>2. rows \subseteq Resources \X GateRow /\ elders \subseteq GateRequests /\ r \notin elders
    BY <1>1, EnabledRowsTyped DEF Reloading
<1>3. gtask[r] \in GateTasks /\ gtask[r].rules = {} /\ due \subseteq Causes
    BY <1>1 DEF GateTypes, GatePlaced
<1> HIDE DEF rows, elders
<1>4. /\ rec \in GateTasks /\ rec.op = gtask[r].op /\ rec.id = gtask[r].id
      /\ rec.wish = gtask[r].wish /\ rec.action = gtask[r].action /\ rec.rules = {}
      /\ rec.rows = rows /\ rec.clears = due /\ rec.elders = elders
    <2>1. rows \in SUBSET (Resources \X GateRow)
        BY <1>2
    <2>2. elders \in SUBSET GateRequests
        BY <1>2
    <2>3. due \in SUBSET Causes
        BY <1>3
    <2>4. rec = [gtask[r] EXCEPT !.rows = rows, !.clears = due, !.elders = elders]
        OBVIOUS
    <2> HIDE DEF rec
    <2>5. rows \in (SUBSET (Actions \X Resources)) \cup (SUBSET (Resources \X GateRow))
        BY ONLY <2>1, Zenon
    <2> QED
        BY <1>3, <2>2, <2>3, <2>4, <2>5 DEF GateTasks
<1>5. UNCHANGED <<gateTables, policy, changes, queryFailures, due>>
    BY DEF GateReadResources
<1>6. label \in {"read_actions", "replace"}
    OBVIOUS
<1>7. GateTypes' /\ GateAlone(r) /\ gpc'[r] = label /\ gtask'[r] = rec
    <2> HIDE DEF rec, label
    <2> QED
        BY <1>1, <1>2, <1>4, <1>5, <1>6, ReloadMoves
<1> QED
    BY <1>1, <1>4, <1>5, <1>7 DEF rows, elders

LEMMA ReadActionsStep ==
    ASSUME GateTypes, NEW r \in GateRequests, GateReadActions(r)
    PROVE  /\ GateTypes' /\ GateAlone(r) /\ gpc[r] = "read_actions" /\ gpc'[r] = "replace"
           /\ gtask'[r] = [gtask[r] EXCEPT !.rules = RulesOf(gtask[r].rows)]
           /\ gtask'[r].rules = RulesOf(gtask[r].rows)
           /\ gtask'[r].op = gtask[r].op /\ gtask'[r].clears = gtask[r].clears
           /\ gtask'[r].elders = gtask[r].elders /\ gtask'[r].late = gtask[r].late
           /\ UNCHANGED <<gateTables, policy, changes, due>>
<1> DEFINE rules == RulesOf(gtask[r].rows)
           rec   == [gtask[r] EXCEPT !.rules = rules]
<1>1. gpc[r] = "read_actions" /\ GateMove(r, "replace", rec)
    BY DEF GateReadActions
<1>2. /\ gtask[r] \in GateTasks /\ gtask[r].rows \subseteq Resources \X GateRow
      /\ r \notin gtask[r].elders
    BY <1>1 DEF GateTypes, GatePlaced, Reloading
<1>3. rules \subseteq Rule
    BY <1>2, RulesTyped
<1> HIDE DEF rules
<1>4. /\ rec \in GateTasks /\ rec.op = gtask[r].op /\ rec.id = gtask[r].id
      /\ rec.wish = gtask[r].wish /\ rec.action = gtask[r].action
      /\ rec.rows = gtask[r].rows /\ rec.rules = rules
      /\ rec.clears = gtask[r].clears /\ rec.elders = gtask[r].elders /\ rec.late = gtask[r].late
    BY <1>2, <1>3 DEF GateTasks
<1>5. UNCHANGED <<gateTables, policy, changes, queryFailures, due>>
    BY DEF GateReadActions
<1>6. GateTypes' /\ GateAlone(r) /\ gpc'[r] = "replace" /\ gtask'[r] = rec
    <2> HIDE DEF rec
    <2> QED
        BY <1>1, <1>2, <1>4, <1>5, ReloadMoves
<1> QED
    BY <1>1, <1>4, <1>5, <1>6 DEF rules

LEMMA FailsStep ==
    ASSUME GateTypes, NEW r \in GateRequests, GateFails(r)
    PROVE  /\ GateTypes' /\ GateAlone(r) /\ gpc[r] \in ReloadLabels \ {"replace"} /\ gpc'[r] = "done"
           /\ gtask'[r] = NoGateTask
           /\ due' = IF gtask[r].op = "reload" THEN due ELSE due \cup {<<"failed", r>>}
           /\ UNCHANGED <<gateTables, policy, changes>>
<1>1. gpc[r] \in ReloadLabels \ {"replace"} /\ GateMove(r, "done", gtask[r])
    BY DEF GateFails, GateGoto, ReloadLabels
<1>2. /\ GateAlone(r) /\ gpc'[r] = "done" /\ gtask'[r] = NoGateTask
      /\ gpc' \in [GateRequests -> AllGateLabels] /\ gtask' \in [GateRequests -> GateTasks]
    BY <1>1, MoveIs DEF AllGateLabels, GateTypes
<1>3. /\ due' = IF gtask[r].op = "reload" THEN due ELSE due \cup {<<"failed", r>>}
      /\ queryFailures' = queryFailures + 1 /\ UNCHANGED <<gateTables, policy, changes>>
    BY DEF GateFails
<1>4. due' \subseteq Causes
    BY <1>3 DEF GateTypes, Causes
<1>5. \A q \in GateRequests : GatePlaced(q)'
    BY <1>2, DonePlaced, PlacesKept
<1> QED
    BY <1>1, <1>2, <1>3, <1>4, <1>5 DEF GateTypes, gateTables

LEMMA ButtonStep ==
    ASSUME GateTypes, NEW a \in Actions, GateButton(a)
    PROVE  /\ GateTypes' /\ due' = due \cup {<<"button", changes>>} /\ changes' = changes + 1
           /\ UNCHANGED <<resource, bound, policy, gpc, gtask>>
<1>1. due' \subseteq Causes
    BY DEF GateTypes, Causes, GateButton
<1>2. button' \in [Actions -> {"on", "off", "gone"}]
    BY DEF GateTypes, GateButton
<1>3. /\ due' = due \cup {<<"button", changes>>} /\ changes' = changes + 1
      /\ UNCHANGED <<resource, bound, policy, gpc, gtask, queryFailures>>
    BY DEF GateButton
<1>4. \A q \in GateRequests : GatePlaced(q)'
    BY <1>3 DEF GateTypes, GatePlaced, Reloading
<1> QED
    BY <1>1, <1>2, <1>3, <1>4 DEF GateTypes

\* The end of a reload: those it found under way are late.
LEMMA ReplaceStep ==
    ASSUME GateTypes, NEW r \in GateRequests, GateReplace(r)
    PROVE  /\ GateTypes' /\ gpc[r] = "replace" /\ gpc'[r] = "done"
           /\ policy' = gtask[r].rules
           /\ due' = (due \ gtask[r].clears) \cup (IF gtask[r].late THEN {<<"overtaken", r>>} ELSE {})
           /\ gtask'[r].clears \subseteq gtask[r].clears
           /\ \A q \in GateRequests \ {r} :
                /\ gpc'[q] = gpc[q]
                /\ gtask'[q].op = gtask[q].op /\ gtask'[q].clears = gtask[q].clears
                /\ gtask'[q].elders = gtask[q].elders /\ gtask'[q].rows = gtask[q].rows
                /\ gtask'[q].rules = gtask[q].rules
                /\ gtask[q].late => gtask'[q].late
                /\ q \in gtask[r].elders /\ Reloading(q) => gtask'[q].late
           /\ UNCHANGED <<gateTables, changes>>
<1>1. /\ gpc[r] = "replace" /\ gpc' = [gpc EXCEPT ![r] = "done"]
      /\ policy' = gtask[r].rules
      /\ due' = (due \ gtask[r].clears) \cup (IF gtask[r].late THEN {<<"overtaken", r>>} ELSE {})
      /\ gtask' = [x \in GateRequests |->
                      IF x \in gtask[r].elders /\ Reloading(x) THEN [gtask[x] EXCEPT !.late = TRUE]
                      ELSE IF x = r THEN NoGateTask ELSE gtask[x]]
      /\ UNCHANGED <<gateTables, changes, queryFailures>>
    BY DEF GateReplace
<1>2. \A x \in GateRequests : gtask[x] \in GateTasks
    BY DEF GateTypes
<1>3. NoGateTask \in GateTasks
    BY DEF NoGateTask, NoWish, GateTasks, GateOperations, Wish
<1>4. gtask' \in [GateRequests -> GateTasks]
    <2>1. ASSUME NEW x \in GateRequests PROVE [gtask[x] EXCEPT !.late = TRUE] \in GateTasks
        <3> DEFINE t == gtask[x]
        <3>1. t \in GateTasks
            BY <1>2
        <3> HIDE DEF t
        <3>2. [t EXCEPT !.late = TRUE] \in GateTasks
            BY <3>1 DEF GateTasks
        <3> QED
            BY <3>2 DEF t
    <2> QED
        BY <1>1, <1>2, <1>3, <2>1
<1>5. gpc' \in [GateRequests -> AllGateLabels] /\ gpc'[r] = "done"
    BY <1>1 DEF GateTypes, AllGateLabels
<1>6. gtask'[r] = NoGateTask
    BY <1>1 DEF GateTypes, GatePlaced
<1>7. ASSUME NEW q \in GateRequests \ {r}
      PROVE  /\ gpc'[q] = gpc[q]
             /\ gtask'[q].op = gtask[q].op /\ gtask'[q].clears = gtask[q].clears
             /\ gtask'[q].elders = gtask[q].elders /\ gtask'[q].rows = gtask[q].rows
             /\ gtask'[q].rules = gtask[q].rules
             /\ gtask'[q].id = gtask[q].id /\ gtask'[q].wish = gtask[q].wish
             /\ gtask'[q].action = gtask[q].action
             /\ gtask[q].late => gtask'[q].late
             /\ q \in gtask[r].elders /\ Reloading(q) => gtask'[q].late
    <2>1. gpc'[q] = gpc[q]
        BY <1>1 DEF GateTypes
    <2>2. gtask'[q] = IF q \in gtask[r].elders /\ Reloading(q) THEN [gtask[q] EXCEPT !.late = TRUE]
                      ELSE gtask[q]
        BY <1>1
    <2>3. gtask[q] \in GateTasks
        BY <1>2
    <2> QED
        BY <2>1, <2>2, <2>3 DEF GateTasks
<1>8. \A q \in GateRequests : GatePlaced(q)'
    <2> SUFFICES ASSUME NEW q \in GateRequests PROVE GatePlaced(q)'
        OBVIOUS
    <2>1. CASE q = r
        BY <2>1, <1>5, <1>6, DonePlaced
    <2>2. CASE q # r
        <3>1. GatePlaced(q)
            BY DEF GateTypes
        <3> QED
            BY <2>2, <3>1, <1>7 DEF GatePlaced, Reloading
    <2> QED
        BY <2>1, <2>2
<1>9. policy' \subseteq Rule /\ due' \subseteq Causes
    BY <1>1, <1>2 DEF GateTypes, GateTasks, Causes
<1>10. GateTypes'
    BY <1>1, <1>4, <1>5, <1>8, <1>9 DEF GateTypes, gateTables
<1>11. gtask'[r].clears \subseteq gtask[r].clears
    BY <1>6 DEF NoGateTask
<1> QED
    BY <1>1, <1>5, <1>7, <1>10, <1>11

-----------------------------------------------------------------------------
(* The invariant.                                                          *)

GateKind == \/ \E r \in GateRequests : Quiet(r)
            \/ \E r \in GateRequests : Changing(r)
            \/ \E r \in GateRequests : GateReadResources(r)
            \/ \E r \in GateRequests : GateReadActions(r)
            \/ \E r \in GateRequests : GateReplace(r)
            \/ \E r \in GateRequests : GateFails(r)
            \/ \E a \in Actions : GateButton(a)

LEMMA StepKinds ==
    ASSUME GateTypes, GateNext
    PROVE  GateTypes' /\ GateKind
<1>1. CASE \E r \in GateRequests : GateStep(r)
    <2>1. PICK r \in GateRequests : GateStep(r)
        BY <1>1
    <2>2. CASE GateBegin(r)
        BY <2>2, BeginStep DEF GateKind
    <2>3. CASE GateFind(r)
        BY <2>3, FindStep DEF GateKind
    <2>4. CASE GateUnique(r) \/ GateCount(r) \/ GateFindAction(r) \/ GateExist(r) \/ GateDeleteOld(r)
        BY <2>4, LooksStep DEF GateKind
    <2>5. CASE GateWrite(r)
        BY <2>5, WriteStep DEF GateKind
    <2>6. CASE GateDrop(r)
        BY <2>6, DropStep DEF GateKind
    <2>7. CASE GateCommit(r)
        BY <2>7, CommitStep DEF GateKind
    <2>8. CASE GateReadResources(r)
        BY <2>8, ReadResourcesStep DEF GateKind
    <2>9. CASE GateReadActions(r)
        BY <2>9, ReadActionsStep DEF GateKind
    <2>10. CASE GateReplace(r)
        BY <2>10, ReplaceStep DEF GateKind
    <2>11. CASE GateFails(r)
        BY <2>11, FailsStep DEF GateKind
    <2> QED
        BY <2>1, <2>2, <2>3, <2>4, <2>5, <2>6, <2>7, <2>8, <2>9, <2>10, <2>11 DEF GateStep
<1>2. CASE \E a \in Actions : GateButton(a)
    BY <1>2, ButtonStep DEF GateKind
<1> QED
    BY <1>1, <1>2 DEF GateNext

\* Causes come up once.
LEMMA CausesKept ==
    ASSUME GateTypes, CausesFresh, GateKind
    PROVE  CausesFresh'
<1>1. CASE \E r \in GateRequests : Quiet(r) \/ Changing(r)
    <2>1. PICK r \in GateRequests : Quiet(r) \/ Changing(r)
        BY <1>1
    <2>2. /\ GateAlone(r) /\ gpc[r] # "done" /\ gtask'[r].clears = {}
          /\ due' = due /\ changes' = changes
        BY <2>1 DEF Quiet, Changing
    <2> QED
        BY <2>2 DEF CausesFresh, FreshIn, GateAlone
<1>2. CASE \E r \in GateRequests : GateReadResources(r)
    <2>1. PICK r \in GateRequests : GateReadResources(r)
        BY <1>2
    <2>2. /\ GateAlone(r) /\ gpc[r] # "done" /\ gtask'[r].clears = due
          /\ due' = due /\ changes' = changes
        BY <2>1, ReadResourcesStep
    <2> QED
        BY <2>2 DEF CausesFresh, FreshIn, GateAlone
<1>3. CASE \E r \in GateRequests : GateReadActions(r)
    <2>1. PICK r \in GateRequests : GateReadActions(r)
        BY <1>3
    <2>2. /\ GateAlone(r) /\ gpc[r] # "done" /\ gtask'[r].clears = gtask[r].clears
          /\ due' = due /\ changes' = changes
        BY <2>1, ReadActionsStep
    <2> QED
        BY <2>2 DEF CausesFresh, FreshIn, GateAlone
<1>4. CASE \E r \in GateRequests : GateReplace(r)
    <2>1. PICK r \in GateRequests : GateReplace(r)
        BY <1>4
    <2>2. /\ gpc'[r] = "done" /\ \A q \in GateRequests \ {r} : gpc'[q] = gpc[q]
          /\ due' \subseteq due \cup {<<"overtaken", r>>} /\ changes' = changes
          /\ \A q \in GateRequests : gtask'[q].clears \subseteq gtask[q].clears
        BY <2>1, ReplaceStep
    <2>3. FreshIn(due)'
        BY <2>2 DEF CausesFresh, FreshIn
    <2>4. \A q \in GateRequests : FreshIn(gtask[q].clears)'
        BY <2>2 DEF CausesFresh, FreshIn
    <2> QED
        BY <2>3, <2>4 DEF CausesFresh
<1>5. CASE \E r \in GateRequests : GateFails(r)
    <2>1. PICK r \in GateRequests : GateFails(r)
        BY <1>5
    <2>2. /\ GateAlone(r) /\ gpc'[r] = "done" /\ gtask'[r].clears = {}
          /\ due' \subseteq due \cup {<<"failed", r>>} /\ changes' = changes
        BY <2>1, FailsStep DEF NoGateTask
    <2>3. FreshIn(due)'
        BY <2>2 DEF CausesFresh, FreshIn, GateAlone
    <2>4. \A q \in GateRequests : FreshIn(gtask[q].clears)'
        BY <2>2 DEF CausesFresh, FreshIn, GateAlone
    <2> QED
        BY <2>3, <2>4 DEF CausesFresh
<1>6. CASE \E a \in Actions : GateButton(a)
    <2>1. /\ due' = due \cup {<<"button", changes>>} /\ changes' = changes + 1
          /\ UNCHANGED <<gpc, gtask>>
        BY <1>6, ButtonStep
    <2>2. changes \in Nat
        BY DEF GateTypes
    <2>3. FreshIn(due)'
        BY <2>1, <2>2 DEF CausesFresh, FreshIn
    <2>4. \A q \in GateRequests : FreshIn(gtask[q].clears)'
        BY <2>1, <2>2 DEF CausesFresh, FreshIn
    <2> QED
        BY <2>3, <2>4 DEF CausesFresh
<1> QED
    BY <1>1, <1>2, <1>3, <1>4, <1>5, <1>6 DEF GateKind

\* What a reload may clear, a later one may clear too.
LEMMA GrowKept ==
    ASSUME GateTypes, CausesFresh, ClearsGrow, GateKind
    PROVE  ClearsGrow'
<1> SUFFICES ASSUME NEW x \in GateRequests, NEW q \in GateRequests,
                    Reloading(x)', Reloading(q)', q \notin gtask'[x].elders,
                    NEW c \in gtask'[x].clears \cap due'
             PROVE  c \in gtask'[q].clears
    BY DEF ClearsGrow
<1>1. CASE \E r \in GateRequests : Quiet(r) \/ Changing(r)
    <2>1. PICK r \in GateRequests : Quiet(r) \/ Changing(r)
        BY <1>1
    <2>2. GateAlone(r) /\ gpc'[r] \notin {"read_actions", "replace"} /\ due' = due
        BY <2>1 DEF Quiet, Changing
    <2> QED
        BY <2>2 DEF ClearsGrow, GateAlone, Reloading
<1>2. CASE \E r \in GateRequests : GateReadResources(r)
    <2>1. PICK r \in GateRequests : GateReadResources(r)
        BY <1>2
    <2>2. /\ GateAlone(r) /\ gtask'[r].clears = due
          /\ gtask'[r].elders = {y \in GateRequests : Reloading(y)} /\ due' = due
        BY <2>1, ReadResourcesStep
    <2> QED
        BY <2>2 DEF ClearsGrow, GateAlone, Reloading
<1>3. CASE \E r \in GateRequests : GateReadActions(r)
    <2>1. PICK r \in GateRequests : GateReadActions(r)
        BY <1>3
    <2>2. /\ GateAlone(r) /\ gpc[r] = "read_actions" /\ gtask'[r].clears = gtask[r].clears
          /\ gtask'[r].elders = gtask[r].elders /\ due' = due
        BY <2>1, ReadActionsStep
    <2> QED
        BY <2>2 DEF ClearsGrow, GateAlone, Reloading
<1>4. CASE \E r \in GateRequests : GateReplace(r)
    <2>1. PICK r \in GateRequests : GateReplace(r)
        BY <1>4
    <2>2. /\ gpc[r] = "replace" /\ gpc'[r] = "done" /\ due' \subseteq due \cup {<<"overtaken", r>>}
          /\ \A y \in GateRequests \ {r} :
                gpc'[y] = gpc[y] /\ gtask'[y].clears = gtask[y].clears
                /\ gtask'[y].elders = gtask[y].elders
        BY <2>1, ReplaceStep
    <2>3. x # r /\ q # r
        BY <2>2 DEF Reloading
    <2>4. c # <<"overtaken", r>>
        BY <2>2, <2>3 DEF CausesFresh, FreshIn
    <2> QED
        BY <2>2, <2>3, <2>4 DEF ClearsGrow, Reloading
<1>5. CASE \E r \in GateRequests : GateFails(r)
    <2>1. PICK r \in GateRequests : GateFails(r)
        BY <1>5
    <2>2. /\ GateAlone(r) /\ gpc[r] # "done" /\ gpc'[r] = "done"
          /\ due' \subseteq due \cup {<<"failed", r>>}
        BY <2>1, FailsStep DEF ReloadLabels
    <2>3. x # r /\ q # r
        BY <2>2 DEF Reloading
    <2>4. c # <<"failed", r>>
        BY <2>2, <2>3 DEF CausesFresh, FreshIn, GateAlone
    <2> QED
        BY <2>2, <2>3, <2>4 DEF ClearsGrow, Reloading, GateAlone
<1>6. CASE \E a \in Actions : GateButton(a)
    <2>1. due' = due \cup {<<"button", changes>>} /\ UNCHANGED <<gpc, gtask>> /\ changes \in Nat
        BY <1>6, ButtonStep DEF GateTypes
    <2>2. c # <<"button", changes>>
        BY <2>1 DEF CausesFresh, FreshIn
    <2> QED
        BY <2>1, <2>2 DEF ClearsGrow, Reloading
<1> QED
    BY <1>1, <1>2, <1>3, <1>4, <1>5, <1>6 DEF GateKind

\* The excuse of a reload lasts as long as it does.
LEMMA ExcusedKept ==
    ASSUME GateTypes, CausesFresh, ClearsGrow, GateKind,
           NEW q \in GateRequests, Reloading(q), Reloading(q)', Excused(q)
    PROVE  Excused(q)'
<1>1. CASE \E r \in GateRequests : Quiet(r) \/ Changing(r)
    <2>1. PICK r \in GateRequests : Quiet(r) \/ Changing(r)
        BY <1>1
    <2>2. /\ GateAlone(r) /\ gpc[r] \notin ReloadLabels /\ due' = due
        BY <2>1 DEF Quiet, Changing
    <2>3. q # r
        BY <2>2 DEF Reloading, ReloadLabels
    <2>4. ASSUME NEW x \in GateRequests, Overtaking(x, q) PROVE Overtaking(x, q)'
        BY <2>2, <2>4 DEF Overtaking, GateAlone, Reloading, ReloadLabels
    <2> QED
        BY <2>2, <2>3, <2>4 DEF Excused, GateAlone
<1>2. CASE \E r \in GateRequests : GateReadResources(r)
    <2>1. PICK r \in GateRequests : GateReadResources(r)
        BY <1>2
    <2>2. /\ GateAlone(r) /\ gpc[r] = "read_resources" /\ due' = due
          /\ gtask'[r].elders = {y \in GateRequests : Reloading(y)}
          /\ gtask'[r].op = gtask[r].op /\ gpc'[r] \in {"read_actions", "replace"}
        BY <2>1, ReadResourcesStep
    <2>3. q # r
        BY <2>2 DEF Reloading
    <2>4. ASSUME NEW x \in GateRequests, Overtaking(x, q) PROVE Overtaking(x, q)'
        BY <2>2, <2>4 DEF Overtaking, GateAlone, Reloading
    <2> QED
        BY <2>2, <2>3, <2>4 DEF Excused, GateAlone
<1>3. CASE \E r \in GateRequests : GateReadActions(r)
    <2>1. PICK r \in GateRequests : GateReadActions(r)
        BY <1>3
    <2>2. /\ GateAlone(r) /\ gpc[r] = "read_actions" /\ gpc'[r] = "replace"
          /\ gtask'[r].op = gtask[r].op /\ gtask'[r].clears = gtask[r].clears
          /\ gtask'[r].elders = gtask[r].elders /\ gtask'[r].late = gtask[r].late /\ due' = due
        BY <2>1, ReadActionsStep
    <2>3. ASSUME NEW x \in GateRequests, Overtaking(x, q) PROVE Overtaking(x, q)'
        BY <2>2, <2>3 DEF Overtaking, GateAlone, Reloading
    <2>4. gtask'[q].late = gtask[q].late /\ gtask'[q].clears = gtask[q].clears
        BY <2>2 DEF GateAlone
    <2> QED
        BY <2>2, <2>3, <2>4 DEF Excused
<1>4. CASE \E r \in GateRequests : GateReplace(r)
    <2>1. PICK r \in GateRequests : GateReplace(r)
        BY <1>4
    <2>2. /\ gpc[r] = "replace" /\ gpc'[r] = "done"
          /\ due \ gtask[r].clears \subseteq due'
          /\ \A y \in GateRequests \ {r} :
                /\ gpc'[y] = gpc[y] /\ gtask'[y].op = gtask[y].op
                /\ gtask'[y].clears = gtask[y].clears /\ gtask'[y].elders = gtask[y].elders
                /\ gtask[y].late => gtask'[y].late
                /\ y \in gtask[r].elders /\ Reloading(y) => gtask'[y].late
        BY <2>1, ReplaceStep
    <2>3. q # r
        BY <2>2 DEF Reloading
    <2>4. CASE gtask[q].late \/ q \in gtask[r].elders
        BY <2>2, <2>3, <2>4 DEF Excused
    <2>5. CASE q \notin gtask[r].elders /\ due \ gtask[q].clears # {}
        <3>1. PICK c \in due : c \notin gtask[q].clears
            BY <2>5
        <3>2. c \notin gtask[r].clears
            BY <2>2, <2>5, <3>1 DEF ClearsGrow, Reloading
        <3>3. c \in due' /\ c \notin gtask'[q].clears
            BY <2>2, <2>3, <3>1, <3>2
        <3> QED
            BY <3>3 DEF Excused
    <2>6. CASE q \notin gtask[r].elders /\ \E x \in GateRequests : Overtaking(x, q)
        <3>1. PICK x \in GateRequests : Overtaking(x, q)
            BY <2>6
        <3>2. x # r
            BY <2>2, <2>6, <3>1 DEF Overtaking
        <3>3. Overtaking(x, q)'
            BY <2>2, <3>1, <3>2 DEF Overtaking, Reloading
        <3> QED
            BY <3>3 DEF Excused
    <2> QED
        BY <2>4, <2>5, <2>6 DEF Excused
<1>5. CASE \E r \in GateRequests : GateFails(r)
    <2>1. PICK r \in GateRequests : GateFails(r)
        BY <1>5
    <2>2. /\ GateAlone(r) /\ gpc[r] # "done" /\ gpc'[r] = "done" /\ due \subseteq due'
          /\ gtask[r].op # "reload" => <<"failed", r>> \in due'
        BY <2>1, FailsStep DEF ReloadLabels
    <2>3. q # r /\ gtask'[q] = gtask[q]
        BY <2>2 DEF Reloading, GateAlone
    <2>4. CASE gtask[q].late \/ due \ gtask[q].clears # {}
        BY <2>2, <2>3, <2>4 DEF Excused
    <2>5. CASE \E x \in GateRequests : Overtaking(x, q)
        <3>1. PICK x \in GateRequests : Overtaking(x, q)
            BY <2>5
        <3>2. CASE x = r
            <4>1. <<"failed", r>> \in due' /\ <<"failed", r>> \notin gtask'[q].clears
                BY <2>2, <2>3, <3>1, <3>2 DEF Overtaking, CausesFresh, FreshIn
            <4> QED
                BY <4>1 DEF Excused
        <3>3. CASE x # r
            <4>1. Overtaking(x, q)'
                BY <2>2, <3>1, <3>3 DEF Overtaking, Reloading, GateAlone
            <4> QED
                BY <4>1 DEF Excused
        <3> QED
            BY <3>2, <3>3
    <2> QED
        BY <2>4, <2>5 DEF Excused
<1>6. CASE \E a \in Actions : GateButton(a)
    <2>1. due \subseteq due' /\ UNCHANGED <<gpc, gtask>>
        BY <1>6, ButtonStep
    <2> QED
        BY <2>1 DEF Excused, Overtaking, Reloading
<1> QED
    BY <1>1, <1>2, <1>3, <1>4, <1>5, <1>6 DEF GateKind

\* The rules of rows are those of the tables.
LEMMA TablesSame ==
    ASSUME UNCHANGED gateTables
    PROVE  /\ EnabledRows' = EnabledRows
           /\ \A S : RulesOf(S)' = RulesOf(S)
           /\ RulesOf(EnabledRows)' = RulesOf(EnabledRows)
BY DEF gateTables, EnabledRows, Enabled, Here, RulesOf, LiveActions

\* A reload that still reads is one that read before.
LEMMA ReadKept ==
    ASSUME GateTypes, CausesFresh, ClearsGrow, ReadHolds, GateKind
    PROVE  ReadHolds'
<1> SUFFICES ASSUME NEW q \in GateRequests, Reloading(q)', ~ Excused(q)'
             PROVE  /\ gpc'[q] = "read_actions" => gtask'[q].rows = EnabledRows'
                    /\ gpc'[q] = "replace" => gtask'[q].rules = RulesOf(EnabledRows)'
    BY DEF ReadHolds, Reloading
<1>0. Reloading(q) => ~ Excused(q)
    BY ExcusedKept
<1>1. CASE \E r \in GateRequests : Quiet(r)
    <2>1. PICK r \in GateRequests : Quiet(r)
        BY <1>1
    <2>2. GateAlone(r) /\ gpc'[r] \notin {"read_actions", "replace"} /\ UNCHANGED gateTables
        BY <2>1 DEF Quiet
    <2>3. q # r
        BY <2>2 DEF Reloading
    <2> QED
        BY <1>0, <2>2, <2>3, TablesSame DEF ReadHolds, GateAlone, Reloading
<1>2. CASE \E r \in GateRequests : Changing(r)
    <2>1. PICK r \in GateRequests : Changing(r)
        BY <1>2
    <2>2. /\ GateAlone(r) /\ gpc'[r] \notin {"read_actions", "replace"}
          /\ \/ UNCHANGED gateTables
             \/ gpc'[r] = "read_resources" /\ gtask'[r].op # "reload"
        BY <2>1 DEF Changing
    <2>3. q # r
        BY <2>2 DEF Reloading
    <2>4. UNCHANGED gateTables
        BY <2>2, <2>3 DEF Excused, Overtaking
    <2> QED
        BY <1>0, <2>2, <2>3, <2>4, TablesSame DEF ReadHolds, GateAlone, Reloading
<1>3. CASE \E r \in GateRequests : GateReadResources(r)
    <2>1. PICK r \in GateRequests : GateReadResources(r)
        BY <1>3
    <2>2. /\ GateAlone(r) /\ UNCHANGED gateTables
          /\ gpc'[r] = IF EnabledRows = {} THEN "replace" ELSE "read_actions"
          /\ gtask'[r].rows = EnabledRows /\ gtask'[r].rules = {}
        BY <2>1, ReadResourcesStep
    <2>3. RulesOf({}) = {}
        BY DEF RulesOf
    <2>4. CASE q = r
        BY <2>2, <2>3, <2>4, TablesSame
    <2>5. CASE q # r
        BY <1>0, <2>2, <2>5, TablesSame DEF ReadHolds, GateAlone, Reloading
    <2> QED
        BY <2>4, <2>5
<1>4. CASE \E r \in GateRequests : GateReadActions(r)
    <2>1. PICK r \in GateRequests : GateReadActions(r)
        BY <1>4
    <2>2. /\ GateAlone(r) /\ UNCHANGED gateTables
          /\ gpc[r] = "read_actions" /\ gpc'[r] = "replace"
          /\ gtask'[r].rules = RulesOf(gtask[r].rows)
        BY <2>1, ReadActionsStep
    <2>3. CASE q = r
        BY <1>0, <2>2, <2>3, TablesSame DEF ReadHolds, Reloading
    <2>4. CASE q # r
        BY <1>0, <2>2, <2>4, TablesSame DEF ReadHolds, GateAlone, Reloading
    <2> QED
        BY <2>3, <2>4
<1>5. CASE \E r \in GateRequests : GateReplace(r)
    <2>1. PICK r \in GateRequests : GateReplace(r)
        BY <1>5
    <2>2. /\ gpc'[r] = "done" /\ UNCHANGED gateTables
          /\ \A y \in GateRequests \ {r} :
                gpc'[y] = gpc[y] /\ gtask'[y].rows = gtask[y].rows
                /\ gtask'[y].rules = gtask[y].rules
        BY <2>1, ReplaceStep
    <2>3. q # r
        BY <2>2 DEF Reloading
    <2> QED
        BY <1>0, <2>2, <2>3, TablesSame DEF ReadHolds, Reloading
<1>6. CASE \E r \in GateRequests : GateFails(r)
    <2>1. PICK r \in GateRequests : GateFails(r)
        BY <1>6
    <2>2. GateAlone(r) /\ gpc'[r] = "done" /\ UNCHANGED gateTables
        BY <2>1, FailsStep
    <2>3. q # r
        BY <2>2 DEF Reloading
    <2> QED
        BY <1>0, <2>2, <2>3, TablesSame DEF ReadHolds, GateAlone, Reloading
<1>7. CASE \E a \in Actions : GateButton(a)
    <2>1. /\ <<"button", changes>> \in due' /\ UNCHANGED <<resource, gpc, gtask>> /\ changes \in Nat
        BY <1>7, ButtonStep DEF GateTypes
    <2>2. <<"button", changes>> \notin gtask'[q].clears
        BY <2>1 DEF CausesFresh, FreshIn
    <2> QED
        BY <2>1, <2>2 DEF Excused
<1> QED
    BY <1>1, <1>2, <1>3, <1>4, <1>5, <1>6, <1>7 DEF GateKind

\* A policy other than the tables' is accounted for.
LEMMA PolicyKept ==
    ASSUME GateTypes, ReadHolds, PolicyHolds, GateKind
    PROVE  PolicyHolds'
<1>1. CASE \E r \in GateRequests : Quiet(r)
    <2>1. PICK r \in GateRequests : Quiet(r)
        BY <1>1
    <2>2. /\ GateAlone(r) /\ gpc[r] \notin ReloadLabels /\ UNCHANGED gateTables
          /\ policy' = policy /\ due' = due
        BY <2>1 DEF Quiet
    <2> QED
        BY <2>2, TablesSame DEF PolicyHolds, GateAlone
<1>2. CASE \E r \in GateRequests : Changing(r)
    <2>1. PICK r \in GateRequests : Changing(r)
        BY <1>2
    <2>2. /\ GateAlone(r) /\ gpc[r] \notin ReloadLabels /\ policy' = policy /\ due' = due
          /\ \/ UNCHANGED gateTables
             \/ gpc'[r] = "read_resources" /\ gtask'[r].op # "reload"
        BY <2>1 DEF Changing
    <2>3. CASE UNCHANGED gateTables
        BY <2>2, <2>3, TablesSame DEF PolicyHolds, GateAlone
    <2>4. CASE gpc'[r] = "read_resources" /\ gtask'[r].op # "reload"
        BY <2>4 DEF PolicyHolds, ReloadLabels
    <2> QED
        BY <2>2, <2>3, <2>4
<1>3. CASE \E r \in GateRequests : GateReadResources(r) \/ GateReadActions(r)
    <2>1. PICK r \in GateRequests : GateReadResources(r) \/ GateReadActions(r)
        BY <1>3
    <2>2. /\ GateAlone(r) /\ gpc'[r] \in ReloadLabels /\ gtask'[r].op = gtask[r].op
          /\ UNCHANGED gateTables /\ policy' = policy /\ due' = due
        BY <2>1, ReadResourcesStep, ReadActionsStep DEF ReloadLabels
    <2> QED
        BY <2>2, TablesSame DEF PolicyHolds, GateAlone
<1>4. CASE \E r \in GateRequests : GateReplace(r)
    <2>1. PICK r \in GateRequests : GateReplace(r)
        BY <1>4
    <2>2. /\ gpc[r] = "replace" /\ policy' = gtask[r].rules /\ UNCHANGED gateTables
          /\ due' = (due \ gtask[r].clears) \cup (IF gtask[r].late THEN {<<"overtaken", r>>} ELSE {})
          /\ \A q \in GateRequests \ {r} : gpc'[q] = gpc[q] /\ gtask'[q].op = gtask[q].op
        BY <2>1, ReplaceStep
    <2>3. CASE gtask[r].rules = RulesOf(EnabledRows)
        BY <2>2, <2>3, TablesSame DEF PolicyHolds
    <2>4. CASE gtask[r].late \/ due \ gtask[r].clears # {}
        BY <2>2, <2>4 DEF PolicyHolds
    <2>5. CASE \E x \in GateRequests : Overtaking(x, r)
        BY <2>2, <2>5 DEF PolicyHolds, Overtaking, ReloadLabels, Reloading
    <2> QED
        BY <2>2, <2>3, <2>4, <2>5 DEF ReadHolds, Excused
<1>5. CASE \E r \in GateRequests : GateFails(r)
    <2>1. PICK r \in GateRequests : GateFails(r)
        BY <1>5
    <2>2. /\ GateAlone(r) /\ policy' = policy /\ UNCHANGED gateTables
          /\ due' = IF gtask[r].op = "reload" THEN due ELSE due \cup {<<"failed", r>>}
        BY <2>1, FailsStep
    <2> QED
        BY <2>2, TablesSame DEF PolicyHolds, GateAlone
<1>6. CASE \E a \in Actions : GateButton(a)
    BY <1>6, ButtonStep DEF PolicyHolds
<1> QED
    BY <1>1, <1>2, <1>3, <1>4, <1>5, <1>6 DEF GateKind

\* Where a request that reads has come from.
LEMMA ReadsFrom ==
    ASSUME GateTypes, GateKind, NEW q \in GateRequests, Reloading(q)'
    PROVE  \/ /\ Reloading(q) /\ gpc'[q] = gpc[q]
              /\ gtask'[q].rows = gtask[q].rows /\ gtask'[q].rules = gtask[q].rules
           \/ GateReadResources(q)
           \/ GateReadActions(q)
<1>1. CASE \E r \in GateRequests : Quiet(r) \/ Changing(r)
    BY <1>1 DEF Quiet, Changing, GateAlone, Reloading
<1>2. CASE \E r \in GateRequests : GateReadResources(r) \/ GateReadActions(r) \/ GateFails(r)
    <2>1. PICK r \in GateRequests : GateReadResources(r) \/ GateReadActions(r) \/ GateFails(r)
        BY <1>2
    <2>2. GateAlone(r) /\ (GateFails(r) => gpc'[r] = "done")
        BY <2>1, ReadResourcesStep, ReadActionsStep, FailsStep
    <2> QED
        BY <2>1, <2>2 DEF GateAlone, Reloading
<1>3. CASE \E r \in GateRequests : GateReplace(r)
    BY <1>3, ReplaceStep DEF Reloading
<1>4. CASE \E a \in Actions : GateButton(a)
    BY <1>4, ButtonStep DEF Reloading
<1> QED
    BY <1>1, <1>2, <1>3, <1>4 DEF GateKind

\* Only the end of a reload changes the policy.
LEMMA PolicyFrom ==
    ASSUME GateTypes, GateKind
    PROVE  LET replacing == {r \in GateRequests : gpc[r] = "replace" /\ gpc'[r] = "done"}
           IN  \/ replacing = {} /\ policy' = policy
               \/ \E r \in GateRequests : replacing = {r} /\ policy' = gtask[r].rules
<1>1. CASE \E r \in GateRequests : Quiet(r) \/ Changing(r)
    BY <1>1 DEF Quiet, Changing, GateAlone, ReloadLabels
<1>2. CASE \E r \in GateRequests : GateReadResources(r) \/ GateReadActions(r) \/ GateFails(r)
    <2>1. PICK r \in GateRequests : GateReadResources(r) \/ GateReadActions(r) \/ GateFails(r)
        BY <1>2
    <2>2. GateAlone(r) /\ gpc[r] # "replace" /\ policy' = policy
        BY <2>1, ReadResourcesStep, ReadActionsStep, FailsStep
    <2> QED
        BY <2>2 DEF GateAlone
<1>3. CASE \E r \in GateRequests : GateReplace(r)
    <2>1. PICK r \in GateRequests : GateReplace(r)
        BY <1>3
    <2>2. /\ gpc[r] = "replace" /\ gpc'[r] = "done" /\ policy' = gtask[r].rules
          /\ \A q \in GateRequests \ {r} : gpc'[q] = gpc[q]
        BY <2>1, ReplaceStep
    <2>3. {q \in GateRequests : gpc[q] = "replace" /\ gpc'[q] = "done"} = {r}
        BY <2>2
    <2> QED
        BY <2>2, <2>3
<1>4. CASE \E a \in Actions : GateButton(a)
    BY <1>4, ButtonStep
<1> QED
    BY <1>1, <1>2, <1>3, <1>4 DEF GateKind

\* A save that changes the bindings is agreed to.
LEMMA AgreedKept ==
    ASSUME GateTypes, agreed = bound, GateKind, GateWatch
    PROVE  agreed' = bound'
<1>1. CASE \E r \in GateRequests : Changing(r)
    BY <1>1 DEF Changing, GateWatch
<1>2. CASE bound' = bound
    BY <1>2 DEF GateWatch
<1> QED
    BY <1>1, <1>2, ReadResourcesStep, ReadActionsStep, ReplaceStep, FailsStep, ButtonStep
    DEF GateKind, Quiet, gateTables

\* What is read of a guarded endpoint guards it.
LEMMA RulesOfGuarded ==
    ASSUME agreed = bound, NEW e \in Endpoints, Guarded(e), NEW rows,
           Matching(e) = {row[1] : row \in {p \in rows : RuleMatches(p[2].at, e)}}
    PROVE  RulesGuard(RulesOf(rows), e)
<1>1. PICK row \in rows : RuleMatches(row[2].at, e)
    BY DEF Guarded
<1>2. [at |-> row[2].at, actions |-> LiveActions(row[1])] \in RulesOf(rows)
    BY <1>1 DEF RulesOf
<1>3. ASSUME NEW rule \in RulesOf(rows), RuleMatches(rule.at, e)
      PROVE  rule.actions # {}
    <2>1. PICK p \in rows : rule = [at |-> p[2].at, actions |-> LiveActions(p[1])]
        BY <1>3 DEF RulesOf
    <2>2. p[1] \in Matching(e)
        BY <1>3, <2>1
    <2>3. PICK a \in Actions : <<a, p[1]>> \in bound /\ button[a] = "on"
        BY <2>2 DEF Guarded
    <2>4. a \in LiveActions(p[1])
        BY <2>3 DEF LiveActions
    <2> QED
        BY <2>1, <2>4
<1> QED
    BY <1>1, <1>2, <1>3 DEF RulesGuard

\* The endpoints of a guarded read are those of the rows read.
LEMMA MatchingRead ==
    ASSUME GateTypes, NEW e \in Endpoints
    PROVE  Matching(e) = {row[1] : row \in {p \in EnabledRows : RuleMatches(p[2].at, e)}}
<1>1. ASSUME NEW id \in Matching(e)
      PROVE  id \in {row[1] : row \in {p \in EnabledRows : RuleMatches(p[2].at, e)}}
    <2> DEFINE p == <<id, resource[id]>>
    <2>1. p \in EnabledRows /\ p[1] = id /\ RuleMatches(p[2].at, e)
        BY DEF Matching, EnabledRows
    <2> HIDE DEF p
    <2> QED
        BY <2>1
<1>2. ASSUME NEW row \in EnabledRows, RuleMatches(row[2].at, e)
      PROVE  row[1] \in Matching(e)
    BY <1>2 DEF Matching, EnabledRows
<1> QED
    BY <1>1, <1>2 DEF Matching

\* Endpoints guarded since a reload began are guarded by what it has read.
LEMMA HeldByKept ==
    ASSUME GateTypes, GuardHolds, GateKind, GateWatch,
           NEW q \in GateRequests, NEW e \in heldBy'[q]
    PROVE  /\ e \in Endpoints /\ Reloading(q)' /\ Guarded(e)'
           /\ gpc'[q] = "read_actions" =>
                Matching(e)' = {row[1] : row \in {p \in gtask'[q].rows : RuleMatches(p[2].at, e)}}
           /\ gpc'[q] = "replace" => RulesGuard(gtask'[q].rules, e)
<1>1. agreed' = bound' /\ agreed = bound
    BY AgreedKept DEF GuardHolds
<1>2. /\ gpc'[q] \in {"read_actions", "replace"}
      /\ e \in IF gpc[q] = "read_resources" THEN GuardedNow ELSE {x \in heldBy[q] : Stays(x)}
    BY DEF GateWatch
<1>3. Reloading(q)'
    BY <1>2 DEF Reloading
<1>4. CASE gpc[q] = "read_resources"
    <2>1. e \in Endpoints /\ Guarded(e)
        BY <1>2, <1>4 DEF GuardedNow
    <2>2. /\ gpc'[q] = IF EnabledRows = {} THEN "replace" ELSE "read_actions"
          /\ gtask'[q].rows = EnabledRows /\ UNCHANGED gateTables
        BY <1>3, <1>4, ReadsFrom, ReadResourcesStep, ReadActionsStep DEF Reloading
    <2>3. Guarded(e)' /\ Matching(e)' = Matching(e)
        BY <1>1, <2>1, <2>2 DEF Guarded, Matching, Enabled, Here, gateTables
    <2>4. Matching(e) = {row[1] : row \in {p \in EnabledRows : RuleMatches(p[2].at, e)}}
        BY <2>1, MatchingRead
    <2>5. EnabledRows # {}
        BY <2>1, <2>4 DEF Guarded
    <2> QED
        BY <1>3, <2>1, <2>2, <2>3, <2>4, <2>5
<1>5. CASE gpc[q] # "read_resources"
    <2>1. e \in heldBy[q] /\ Guarded(e)' /\ Matching(e)' = Matching(e)
        BY <1>2, <1>5 DEF Stays
    <2>2. /\ e \in Endpoints /\ Reloading(q) /\ Guarded(e)
          /\ gpc[q] = "read_actions" =>
                Matching(e) = {row[1] : row \in {p \in gtask[q].rows : RuleMatches(p[2].at, e)}}
          /\ gpc[q] = "replace" => RulesGuard(gtask[q].rules, e)
        BY <2>1 DEF GuardHolds
    <2>3. CASE /\ gpc'[q] = gpc[q]
               /\ gtask'[q].rows = gtask[q].rows /\ gtask'[q].rules = gtask[q].rules
        BY <1>3, <2>1, <2>2, <2>3
    <2>4. CASE GateReadActions(q)
        <3>1. /\ gpc[q] = "read_actions" /\ gpc'[q] = "replace"
              /\ gtask'[q].rules = RulesOf(gtask[q].rows)
            BY <2>4, ReadActionsStep
        <3>2. RulesGuard(RulesOf(gtask[q].rows), e)
            BY <1>1, <2>2, <3>1, RulesOfGuarded
        <3> QED
            BY <1>3, <2>1, <2>2, <3>1, <3>2
    <2> QED
        BY <1>3, <1>5, <2>3, <2>4, ReadsFrom, ReadResourcesStep
<1> QED
    BY <1>4, <1>5

LEMMA GuardKept ==
    ASSUME GateTypes, GuardHolds, GateKind, GateWatch
    PROVE  GuardHolds'
<1>1. agreed' = bound'
    BY AgreedKept DEF GuardHolds
<1>2. heldBy' \in [GateRequests -> SUBSET Endpoints]
    <2>1. ASSUME NEW q \in GateRequests PROVE heldBy'[q] \subseteq Endpoints
        BY HeldByKept
    <2>2. heldBy' = [r \in GateRequests |-> heldBy'[r]]
        BY DEF GateWatch
    <2> QED
        BY <2>1, <2>2
<1> DEFINE replacing == {r \in GateRequests : gpc[r] = "replace" /\ gpc'[r] = "done"}
<1>3. /\ held' \subseteq Endpoints
      /\ \A e \in held' : RulesGuard(policy', e)
    <2>1. held' = IF replacing # {} THEN UNION {heldBy[r] : r \in replacing}
                  ELSE {e \in held : Stays(e)}
        BY DEF GateWatch
    <2>2. CASE replacing = {} /\ policy' = policy
        BY <2>1, <2>2 DEF GuardHolds
    <2>3. CASE \E r \in GateRequests : replacing = {r} /\ policy' = gtask[r].rules
        <3>1. PICK r \in GateRequests : replacing = {r} /\ policy' = gtask[r].rules
            BY <2>3
        <3>2. gpc[r] = "replace"
            BY <3>1
        <3> HIDE DEF replacing
        <3>3. held' = heldBy[r]
            BY <2>1, <3>1
        <3> QED
            BY <3>1, <3>2, <3>3 DEF GuardHolds
    <2> QED
        BY <2>2, <2>3, PolicyFrom
<1>4. \A q \in GateRequests : \A e \in heldBy'[q] :
          /\ Reloading(q)' /\ Guarded(e)'
          /\ gpc'[q] = "read_actions" =>
               Matching(e)' = {row[1] : row \in {p \in gtask'[q].rows : RuleMatches(p[2].at, e)}}
          /\ gpc'[q] = "replace" => RulesGuard(gtask'[q].rules, e)
    BY HeldByKept
<1> HIDE DEF replacing
<1>5. \A e \in held' : RulesGuard(policy, e)'
    BY <1>3 DEF RulesGuard
<1>6. \A q \in GateRequests : \A e \in heldBy'[q] :
          gpc'[q] = "replace" => RulesGuard(gtask[q].rules, e)'
    BY <1>4 DEF RulesGuard
<1> QED
    BY <1>1, <1>2, <1>3, <1>4, <1>5, <1>6 DEF GuardHolds

-----------------------------------------------------------------------------

LEMMA GateInitInv == GateInit => GateInv
<1> SUFFICES ASSUME GateInit PROVE GateInv
    OBVIOUS
<1> DEFINE Rows == [Resources -> [state : {"unborn", "row"}, at : Wanted, enabled : {"on", "off"}]]
<1>1. PICK rows \in Rows, pairs \in SUBSET (Actions \X Resources) : GateStart(rows, pairs)
    BY DEF GateInit
<1>2. /\ resource \in [Resources -> GateRow] /\ bound \subseteq Actions \X Resources
      /\ button \in [Actions -> {"on", "off", "gone"}] /\ agreed = bound
      /\ gpc = [r \in GateRequests |-> "idle"] /\ gtask = [r \in GateRequests |-> NoGateTask]
      /\ heldBy = [r \in GateRequests |-> {}] /\ changes = 0
    BY <1>1 DEF GateStart, GateRow
<1>3. \/ policy = RulesOf(EnabledRows) /\ due = {} /\ held = GuardedNow /\ queryFailures = 0
      \/ policy = {} /\ due = {<<"failed", "start">>} /\ held = {} /\ queryFailures = 1
    BY <1>1 DEF GateStart
<1>4. EnabledRows \subseteq Resources \X GateRow
    BY <1>2 DEF EnabledRows, Enabled
<1>5. policy \subseteq Rule /\ queryFailures \in Nat /\ due \subseteq Causes
    BY <1>3, <1>4, RulesTyped DEF Causes
<1>6. NoGateTask \in GateTasks /\ NoGateTask.rules = {} /\ NoGateTask.clears = {}
      /\ NoGateTask.elders = {} /\ NoGateTask.op = "reload"
    BY DEF NoGateTask, NoWish, GateTasks, GateOperations, Wish
<1>7. GateTypes
    <2>1. gtask \in [GateRequests -> GateTasks] /\ gpc \in [GateRequests -> AllGateLabels]
        BY <1>2, <1>6 DEF AllGateLabels
    <2>2. \A r \in GateRequests : GatePlaced(r)
        BY <1>2, <1>6 DEF GatePlaced, Reloading
    <2> QED
        BY <1>2, <1>5, <2>1, <2>2 DEF GateTypes
<1>8. CausesFresh
    <2>1. FreshIn(due)
        BY <1>3, GateAssumption DEF FreshIn
    <2>2. \A r \in GateRequests : FreshIn(gtask[r].clears)
        BY <1>2, <1>6 DEF FreshIn
    <2> QED
        BY <2>1, <2>2 DEF CausesFresh
<1>9. ClearsGrow /\ ReadHolds
    BY <1>2 DEF ClearsGrow, ReadHolds, Reloading
<1>10. PolicyHolds
    BY <1>3 DEF PolicyHolds
<1>11. GuardHolds
    <2>1. ASSUME NEW e \in GuardedNow PROVE e \in Endpoints /\ RulesGuard(RulesOf(EnabledRows), e)
        <3>1. e \in Endpoints /\ Guarded(e)
            BY DEF GuardedNow
        <3>2. Matching(e) = {row[1] : row \in {p \in EnabledRows : RuleMatches(p[2].at, e)}}
            BY <1>7, <3>1, MatchingRead
        <3> QED
            BY <1>2, <3>1, <3>2, RulesOfGuarded
    <2>2. held \subseteq Endpoints /\ \A e \in held : RulesGuard(policy, e)
        BY <1>3, <2>1
    <2> QED
        BY <1>2, <2>2 DEF GuardHolds
<1> QED
    BY <1>7, <1>8, <1>9, <1>10, <1>11 DEF GateInv

LEMMA GateNextInv == GateInv /\ [GateNext]_gateVars => GateInv'
<1> SUFFICES ASSUME GateInv, [GateNext]_gateVars PROVE GateInv'
    OBVIOUS
<1>1. CASE GateNext
    <2>1. GateTypes' /\ GateKind
        BY <1>1, StepKinds DEF GateInv
    <2>2. CausesFresh' /\ ClearsGrow' /\ ReadHolds' /\ PolicyHolds'
        BY <2>1, CausesKept, GrowKept, ReadKept, PolicyKept DEF GateInv
    <2>3. GuardHolds'
        BY <1>1, <2>1, GuardKept DEF GateInv, GateNext
    <2> QED
        BY <2>1, <2>2, <2>3 DEF GateInv
<1>2. CASE UNCHANGED gateVars
    <2> USE <1>2 DEF gateVars, gateTables, gateHistory
    <2>1. GateTypes'
        BY DEF GateInv, GateTypes, GatePlaced, Reloading
    <2>2. CausesFresh' /\ ClearsGrow'
        BY DEF GateInv, CausesFresh, FreshIn, ClearsGrow, Reloading
    <2>3. EnabledRows' = EnabledRows /\ RulesOf(EnabledRows)' = RulesOf(EnabledRows)
        BY TablesSame
    <2>4. ReadHolds'
        BY <2>3 DEF GateInv, ReadHolds, Excused, Overtaking, Reloading
    <2>5. PolicyHolds'
        BY <2>3 DEF GateInv, PolicyHolds
    <2>6. GuardHolds'
        BY DEF GateInv, GuardHolds, Guarded, Matching, Enabled, Here, RulesGuard, Reloading
    <2> QED
        BY <2>1, <2>2, <2>4, <2>5, <2>6 DEF GateInv
<1> QED
    BY <1>1, <1>2

LEMMA SpecGateInv == GateSpec => []GateInv
<1> QED
    BY GateInitInv, GateNextInv, PTL DEF GateSpec

\* The tables, the rules and what is remembered of the requests have the
\* types the service gives them.
THEOREM SpecGateTypeOK == GateSpec => []GateTypeOK
<1>1. GateInv => GateTypeOK
    BY DEF GateInv, GateTypes, GuardHolds, GateTypeOK, GateRow, Rule
<1> QED
    BY <1>1, SpecGateInv, PTL

\* Whatever is saved, moved, enabled or reloaded at the same time, an endpoint
\* that was guarded ever since the reload began that wrote the policy is not
\* reached without a session and an action (check_any_path).
THEOREM SpecGuardedStaysGuarded == GateSpec => []GuardedStaysGuarded
<1>1. GateInv => GuardedStaysGuarded
    <2> SUFFICES ASSUME GateInv, NEW e \in held, NEW t \in Tokens, RequiresAuth(e), Reaches(e, t)
                 PROVE  t.kind = "valid" /\ t.perms # {}
        BY DEF GuardedStaysGuarded
    <2>1. t.kind = "valid" /\ CheckAnyPath(policy, e, t.perms)
        BY DEF Reaches, Authenticate
    <2>2. RulesGuard(policy, e)
        BY DEF GateInv, GuardHolds
    <2>3. \E rule \in policy : rule.actions \cap t.perms # {}
        BY <2>1, <2>2 DEF CheckAnyPath, RulesGuard
    <2> QED
        BY <2>1, <2>3
<1> QED
    BY <1>1, SpecGateInv, PTL

\* When the administration is at rest the policy is that of the tables,
\* unless a button has changed since, a reload has failed, or one has
\* installed what it read before a later one began (reload_policy).
THEOREM SpecPolicyCatchesUp == GateSpec => []PolicyCatchesUp
<1>1. GateInv => PolicyCatchesUp
    BY DEF GateInv, PolicyHolds, PolicyCatchesUp, GateActiveNow, ReloadLabels
<1> QED
    BY <1>1, SpecGateInv, PTL
==============================================================================
