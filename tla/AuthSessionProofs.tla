-------------------------- MODULE AuthSessionProofs --------------------------
(***************************************************************************)
(* Proofs about AuthSession, for any set of requests and devices, any      *)
(* script, configuration and bounds: however the calls of the requests     *)
(* meet in the store.  Only SpecSessionsShown, at the end, is about        *)
(* requests that come one at a time.                                       *)
(***************************************************************************)
EXTENDS AuthSession, FiniteSetTheorems, TLAPS

-----------------------------------------------------------------------------
(* Time.                                                                   *)

LEMMA SecondBounds ==
    ASSUME NEW t \in Nat
    PROVE  /\ Second(t) \in Nat /\ Second(t) <= t
           /\ Second(t) * TicksPerSecond <= t
           /\ \A x \in Int : x * TicksPerSecond <= t => x <= Second(t)
<1> DEFINE n == TicksPerSecond
           s == t \div n
<1>1. n \in Nat \ {0} /\ s \in Nat
    BY SessionAssumption
<1>2. t = n * s + (t % n) /\ t % n \in 0 .. n - 1
    BY <1>1
<1>3. n * s = s * n /\ n * s \in Nat /\ (s + 1) * n = s * n + n
    BY <1>1
<1>4. s <= n * s
    BY <1>1
<1>5. ASSUME NEW x \in Int, x * n <= t, s + 1 <= x PROVE FALSE
    <2>1. (s + 1) * n <= x * n
        BY <1>1, <1>5
    <2>2. x * n \in Int
        BY <1>1
    <2> HIDE DEF s, n
    <2> QED
        BY <1>1, <1>2, <1>3, <1>5, <2>1, <2>2
<1> HIDE DEF s
<1>6. s * n <= t /\ s <= t
    BY <1>1, <1>2, <1>3, <1>4
<1> QED
    BY <1>1, <1>5, <1>6 DEF Second, s

-----------------------------------------------------------------------------
(* Types.                                                                  *)

\* The labels of an operation.
Labels(op) ==
    CASE op = "login"   -> SweepSteps \cup {"issue", "set_refresh", "set_device"}
                             \cup IF MaxDevices > 0 THEN PolicySteps ELSE {}
      [] op = "refresh" -> CheckSteps \cup IssueSteps
      [] op = "force_refresh"                             -> {"stamp", "set_deny"}
      [] op \in {"unban", "enable"}                       -> {"del_deny"}
      [] op \in {"ban", "disable"}                        -> SweepSteps \cup {"set_banned"}
      [] op \in {"logout", "logout_all", "disable_revoke"} -> SweepSteps \cup {"stamp", "set_deny"}

\* A request is where its operation can be; a disable returns as something
\* else, a login knows its device and a refresh the token presented; one that
\* has not begun knows nothing.
WellPlaced(r) ==
    /\ pc[r] \in Active => pc[r] \in Labels(task[r].op)
    /\ pc[r] = "done" => task[r].op # "disable"
    /\ pc[r] \in Active /\ task[r].op = "login" => task[r].dev \in Devices
    /\ task[r].op = "refresh" => task[r].old \in Requests
    /\ pc[r] = "idle" => task[r] = NoTask

Types == TypeOK /\ \A r \in Requests : WellPlaced(r)

LEMMA InitTypes == Init => Types
<1> USE SessionAssumption DEF Init, Types
<1>1. Init => TypeOK
    BY DEF TypeOK, NoDeny, NoTask, Task, Operations, Second0, Active, Ended, SweepSteps,
           PolicySteps, IssueSteps, CheckSteps, DenySteps
<1>2. Init => \A r \in Requests : WellPlaced(r)
    BY DEF WellPlaced, NoTask, Active, SweepSteps, PolicySteps, IssueSteps, CheckSteps, DenySteps
<1> QED
    BY <1>1, <1>2

\* The part of the types that is about one request.
Typed(label, t) ==
    /\ label \in {"idle"} \cup Active \cup Ended
    /\ t \in Task
    /\ label \in {"get", "read"} => t.todo # {}
    /\ label \in {"del_refresh", "evict_refresh"} => t.rid \in Requests
    /\ label \in {"del_refresh", "del_device", "evict_refresh", "evict_device"}
         => t.cur \in Devices
    /\ label \in IssueSteps \cup {"get_deny"} => t.dev \in Devices
    /\ label \in Active => label \in Labels(t.op)
    /\ label = "done" => t.op # "disable"
    /\ label \in Active /\ t.op = "login" => t.dev \in Devices
    /\ t.op = "refresh" => t.old \in Requests
    /\ label = "idle" => t = NoTask

\* The part that is about the store and the rows.
StoreTyped ==
    /\ now \in 0..MaxTime
    /\ refresh \in [Requests -> Devices \cup {None}]
    /\ device \in [Devices -> Info \cup {None}]
    /\ deny \in [kind : {"none", "refresh", "banned"}, at : Second0, expires : Nat]
    /\ status \in {"enabled", "disabled"} /\ perms \in Nat

LEMMA TypesSplit ==
    Types <=> /\ StoreTyped
              /\ pc \in [Requests -> {"idle"} \cup Active \cup Ended]
              /\ task \in [Requests -> Task]
              /\ \A r \in Requests : Typed(pc[r], task[r])
BY DEF Types, TypeOK, WellPlaced, StoreTyped, Typed

\* One request moves: it is enough to look at that one.
LEMMA OneMoves ==
    ASSUME Types, StoreTyped', NEW r \in Requests, NEW label, NEW t,
           pc' = [pc EXCEPT ![r] = label], task' = [task EXCEPT ![r] = t], Typed(label, t)
    PROVE  Types'
<1>1. /\ pc' \in [Requests -> {"idle"} \cup Active \cup Ended]
      /\ task' \in [Requests -> Task]
    BY TypesSplit DEF Typed
<1>2. \A q \in Requests : Typed(pc'[q], task'[q])
    BY TypesSplit
<1> QED
    BY <1>1, <1>2 DEF Types, TypeOK, WellPlaced, StoreTyped, Typed

\* A request returns.
LEMMA ReturnTypes ==
    ASSUME Types, StoreTyped', NEW r \in Requests, NEW label \in Ended, Return(r, label),
           label = "done" => task[r].op # "disable"
    PROVE  Types'
<1> DEFINE t == [task[r] EXCEPT !.dev = None, !.todo = {}, !.cur = None,
                                !.rid = None, !.found = {}, !.at = 0]
<1>1. 0 \in Second0
    BY SessionAssumption DEF Second0
<1>2. t \in Task /\ t.op = task[r].op /\ t.old = task[r].old
    <2>1. task[r] \in Task
        BY TypesSplit
    <2> QED
        BY <1>1, <2>1 DEF Task
<1>3. label \notin Active /\ label \notin IssueSteps \cup {"idle"}
    BY DEF Active, Ended, SweepSteps, PolicySteps, IssueSteps, CheckSteps, DenySteps
<1>4. Typed(label, t)
    <2>1. t.op = "refresh" => t.old \in Requests
        BY <1>2, TypesSplit DEF Typed
    <2> HIDE DEF t
    <2> QED
        BY <1>2, <1>3, <2>1 DEF Typed, Ended
<1> QED
    BY <1>4, OneMoves DEF Return, Goto

\* A request begins.
LEMMA BeginTypes ==
    ASSUME Types, StoreTyped', NEW r \in Requests, NEW op, NEW label, NEW t,
           Begin(r, op, label, t), Typed(label, t)
    PROVE  Types'
BY OneMoves DEF Begin, Goto

LEMMA FreshTyped ==
    ASSUME NEW op \in Operations
    PROVE  Fresh(op) \in Task /\ Fresh(op).op = op /\ Fresh(op).dev = None
<1>1. 0 \in Second0
    BY SessionAssumption DEF Second0
<1> DEFINE ended == {q \in Requests : pc[q] \in Ended}
<1>2. ended \in SUBSET Requests
    OBVIOUS
<1> HIDE DEF ended
<1>3. NoTask \in Task
    BY <1>1 DEF NoTask, Task, Operations
<1>4. Fresh(op) = [NoTask EXCEPT !.op = op, !.saw = ended]
    BY DEF Fresh, ended
<1> QED
    BY <1>2, <1>3, <1>4 DEF NoTask, Task

LEMMA BeginAnyTypes ==
    ASSUME Types, NEW r \in Requests, BeginAny(r)
    PROVE  Types'
<1>0. StoreTyped
    BY TypesSplit
<1>1. StoreTyped'
    <2>1. UNCHANGED <<now, store>>
        BY DEF BeginAny, BeginLogin, BeginLogout, BeginLogoutAll, BeginRefresh, BeginBan,
               BeginUnban, BeginForceRefresh, BeginDisable, BeginEnable, Begin
    <2>2. UNCHANGED rows \/ BeginForceRefresh(r) \/ BeginDisable(r) \/ BeginEnable(r)
        BY DEF BeginAny, BeginLogin, BeginLogout, BeginLogoutAll, BeginRefresh, BeginBan,
               BeginUnban
    <2>3. status' \in {"enabled", "disabled"} /\ perms' \in Nat
        BY <1>0, <2>2 DEF BeginForceRefresh, BeginDisable, BeginEnable, StoreTyped, rows
    <2> QED
        BY <1>0, <2>1, <2>3 DEF StoreTyped, store
<1> USE FreshTyped DEF Typed, Labels, Operations, Active, Ended, SweepSteps,
        PolicySteps, IssueSteps, CheckSteps, DenySteps
<1>2. CASE BeginLogin(r)
    <2>1. PICK d \in Devices :
            Begin(r, "login", IF ConcurrentLogin THEN "get" ELSE "scan",
                  [Fresh("login") EXCEPT !.dev = d, !.perm = perms,
                                         !.todo = IF ConcurrentLogin THEN {d} ELSE {}])
        BY <1>2 DEF BeginLogin
    <2> DEFINE t == [Fresh("login") EXCEPT !.dev = d, !.perm = perms,
                                           !.todo = IF ConcurrentLogin THEN {d} ELSE {}]
    <2>2. t \in Task /\ t.op = "login" /\ t.dev = d /\ (ConcurrentLogin => t.todo = {d})
        BY <1>0, ZenonT(40) DEF Task, StoreTyped
    <2> HIDE DEF t
    <2>3. Typed("get", t) \/ ~ ConcurrentLogin
        BY <2>2
    <2>4. Typed("scan", t)
        BY <2>2
    <2>5. Typed(IF ConcurrentLogin THEN "get" ELSE "scan", t)
        BY <2>3, <2>4 DEF Typed
    <2> QED
        BY <1>1, <2>1, <2>5, BeginTypes DEF t
<1>3. CASE BeginLogout(r)
    <2>1. PICK d \in Devices : Begin(r, "logout", "get", [Fresh("logout") EXCEPT !.todo = {d}])
        BY <1>3 DEF BeginLogout
    <2> DEFINE t == [Fresh("logout") EXCEPT !.todo = {d}]
    <2>2. t \in Task /\ t.op = "logout" /\ t.todo = {d}
        BY DEF Task
    <2> HIDE DEF t
    <2>3. Typed("get", t)
        BY <2>2
    <2> QED
        BY <1>1, <2>1, <2>3, BeginTypes DEF t
<1>4. CASE BeginRefresh(r)
    <2>1. PICK q \in Requests :
            Begin(r, "refresh", "get_refresh", [Fresh("refresh") EXCEPT !.old = q, !.perm = perms])
        BY <1>4 DEF BeginRefresh
    <2> DEFINE t == [Fresh("refresh") EXCEPT !.old = q, !.perm = perms]
    <2>2. t \in Task /\ t.op = "refresh" /\ t.old \in Requests
        BY <1>0, ZenonT(40) DEF Task, StoreTyped
    <2> HIDE DEF t
    <2>3. Typed("get_refresh", t)
        BY <2>2
    <2> QED
        BY <1>1, <2>1, <2>3, BeginTypes DEF t
<1>5. CASE BeginLogoutAll(r)
    BY <1>1, <1>5, BeginTypes DEF BeginLogoutAll
<1>6. CASE BeginBan(r)
    BY <1>1, <1>6, BeginTypes DEF BeginBan
<1>7. CASE BeginUnban(r)
    BY <1>1, <1>7, BeginTypes DEF BeginUnban
<1>8. CASE BeginForceRefresh(r)
    BY <1>1, <1>8, BeginTypes DEF BeginForceRefresh
<1>9. CASE BeginDisable(r)
    BY <1>1, <1>9, BeginTypes DEF BeginDisable
<1>10. CASE BeginEnable(r)
    BY <1>1, <1>10, BeginTypes DEF BeginEnable
<1> QED
    BY <1>2, <1>3, <1>4, <1>5, <1>6, <1>7, <1>8, <1>9, <1>10 DEF BeginAny

\* What the types say of the request that moves.
LEMMA TypedHere ==
    ASSUME Types, NEW r \in Requests
    PROVE  Typed(pc[r], task[r]) /\ task[r] \in Task /\ StoreTyped
BY TypesSplit

\* A step that leaves the store and the rows alone.
LEMMA StoreKept ==
    ASSUME Types, UNCHANGED <<now, store, rows>>
    PROVE  StoreTyped'
BY TypesSplit DEF StoreTyped, store, rows

\* A step that deletes a refresh key, or a device, or writes one.
LEMMA RefreshWritten ==
    ASSUME Types, NEW k, NEW v \in Devices \cup {None}, refresh' = [refresh EXCEPT ![k] = v],
           UNCHANGED <<now, device, deny, rows>>
    PROVE  StoreTyped'
BY TypesSplit DEF StoreTyped, rows

LEMMA DeviceWritten ==
    ASSUME Types, NEW d, NEW v \in Info \cup {None}, device' = [device EXCEPT ![d] = v],
           UNCHANGED <<now, refresh, deny, rows>>
    PROVE  StoreTyped'
BY TypesSplit DEF StoreTyped, rows

LEMMA DenyWritten ==
    ASSUME Types,
           deny' \in [kind : {"none", "refresh", "banned"}, at : Second0, expires : Nat],
           UNCHANGED <<now, refresh, device, rows>>
    PROVE  StoreTyped'
BY TypesSplit DEF StoreTyped, rows

\* The locals of a request, one changed at a time.
LEMMA TaskWith ==
    ASSUME NEW t \in Task
    PROVE  /\ \A v \in SUBSET Devices : [t EXCEPT !.todo = v] \in Task
           /\ \A v \in Devices \cup {None} : /\ [t EXCEPT !.cur = v] \in Task
                                             /\ [t EXCEPT !.dev = v] \in Task
           /\ \A v \in Requests \cup {None} : [t EXCEPT !.rid = v] \in Task
           /\ \A v \in SUBSET [dev : Devices, rid : Requests, time : 0..MaxTime] :
                [t EXCEPT !.found = v] \in Task
           /\ \A v \in Second0 : [t EXCEPT !.at = v] \in Task /\ [t EXCEPT !.iat = v] \in Task
           /\ \A v \in Operations : [t EXCEPT !.op = v] \in Task
BY DEF Task

LEMMA SecondIsSecond0 ==
    ASSUME StoreTyped
    PROVE  Second(now) \in Second0 /\ 0 \in Second0 /\ now \in Second0
BY SecondBounds, SessionAssumption DEF StoreTyped, Second0

LEMMA SweepTypes ==
    ASSUME Types, NEW r \in Requests, Sweep(r)
    PROVE  Types'
<1> DEFINE t == task[r]
<1>0. Typed(pc[r], t) /\ t \in Task /\ StoreTyped /\ task \in [Requests -> Task]
    BY TypedHere, TypesSplit
<1> USE DEF Labels, Operations, Active, Ended, SweepSteps,
        PolicySteps, IssueSteps, CheckSteps, DenySteps
<1>1. ASSUME pc[r] \in SweepSteps
      PROVE  /\ t.op \in {"login", "logout", "logout_all", "ban", "disable", "disable_revoke"}
             /\ t.op = "login" => t.dev \in Devices
    <2>1. t.op \in Operations
        BY <1>0 DEF Task
    <2>2. pc[r] \in Labels(t.op) /\ (t.op = "login" => t.dev \in Devices)
        BY <1>0, <1>1 DEF Typed
    <2> QED
        BY <1>1, <2>1, <2>2
\* Where the sweep goes when nothing is left to visit.
<1>2. ASSUME pc[r] \in SweepSteps, NEW u \in Task, u.op = t.op, u.dev = t.dev
      PROVE  Typed(AfterSweep(t.op), u)
    BY <1>0, <1>1, <1>2 DEF Typed, AfterSweep
<1>3. CASE Scan(r)
    <2> DEFINE u == [t EXCEPT !.todo = Present]
    <2>1. u \in Task /\ u.op = t.op /\ u.dev = t.dev /\ u.todo = Present
        <3>1. Present \in SUBSET Devices
            BY DEF Present
        <3> HIDE DEF Present
        <3> QED
            BY <1>0, <3>1 DEF Task
    <2>2. task' = [task EXCEPT ![r] = u]
        BY <1>3 DEF Scan
    <2> HIDE DEF u
    <2>3. Present # {} => Typed("get", u)
        BY <1>0, <1>1, <1>3, <2>1 DEF Typed, Scan
    <2>4. Typed(IF Present = {} THEN AfterSweep(t.op) ELSE "get", u)
        BY <1>2, <1>3, <2>1, <2>3 DEF Scan
    <2>5. StoreTyped'
        BY <1>3, StoreKept DEF Scan
    <2> QED
        BY <1>3, <2>2, <2>4, <2>5, OneMoves DEF Scan, Goto
<1>4. CASE SweepGet(r)
    <2>0. StoreTyped'
        BY <1>4, StoreKept DEF SweepGet
    <2>1. PICK d \in t.todo :
             IF device[d] = None
             THEN /\ task' = [task EXCEPT ![r].cur = d]
                  /\ Goto(r, "del_device")
             ELSE /\ task' = [task EXCEPT ![r].cur = d, ![r].rid = device[d].rid]
                  /\ Goto(r, "del_refresh")
        BY <1>4 DEF SweepGet
    <2>2. d \in Devices /\ pc[r] \in SweepSteps
        BY <1>0, <1>4 DEF Task, SweepGet
    <2>3. CASE device[d] = None
        <3> DEFINE u == [t EXCEPT !.cur = d]
        <3>1. u \in Task /\ u.op = t.op /\ u.dev = t.dev /\ u.cur = d
            BY <1>0, <2>2 DEF Task
        <3>2. task' = [task EXCEPT ![r] = u]
            BY <2>1, <2>3
        <3> HIDE DEF u
        <3>3. Typed("del_device", u)
            BY <1>1, <2>2, <3>1 DEF Typed
        <3> QED
            BY <2>0, <2>1, <2>3, <3>2, <3>3, OneMoves DEF Goto
    <2>4. CASE device[d] # None
        <3> DEFINE u == [t EXCEPT !.cur = d, !.rid = device[d].rid]
        <3>0. device[d].rid \in Requests
            BY <1>0, <2>2, <2>4 DEF StoreTyped, Info
        <3>1. u \in Task /\ u.op = t.op /\ u.dev = t.dev /\ u.cur = d /\ u.rid \in Requests
            BY <1>0, <2>2, <3>0 DEF Task
        <3>2. task' = [task EXCEPT ![r] = u]
            BY <1>0, <2>1, <2>4
        <3> HIDE DEF u
        <3>3. Typed("del_refresh", u)
            BY <1>1, <2>2, <3>1 DEF Typed
        <3> QED
            BY <2>0, <2>1, <2>4, <3>2, <3>3, OneMoves DEF Goto
    <2> QED
        BY <2>3, <2>4
<1>5. CASE SweepDelRefresh(r)
    <2>1. StoreTyped'
        BY <1>5, RefreshWritten DEF SweepDelRefresh
    <2>2. Typed("del_device", t)
        BY <1>0, <1>1, <1>5 DEF Typed, SweepDelRefresh
    <2>3. task' = [task EXCEPT ![r] = t]
        BY <1>0, <1>5 DEF SweepDelRefresh
    <2> QED
        BY <1>5, <2>1, <2>2, <2>3, OneMoves DEF SweepDelRefresh, Goto
<1>6. CASE SweepDelDevice(r)
    <2> DEFINE left == t.todo \ {t.cur}
               u == [t EXCEPT !.todo = left, !.cur = None, !.rid = None]
    <2>1. StoreTyped'
        BY <1>6, DeviceWritten DEF SweepDelDevice
    <2>2. u \in Task /\ u.op = t.op /\ u.dev = t.dev /\ u.todo = left
        BY <1>0 DEF Task
    <2>3. /\ task' = [task EXCEPT ![r] = u]
          /\ Goto(r, IF left = {} THEN AfterSweep(t.op) ELSE "get")
        BY <1>0, <1>6 DEF SweepDelDevice
    <2> HIDE DEF left, u
    <2>4. left # {} => Typed("get", u)
        BY <1>1, <1>6, <2>2 DEF Typed, SweepDelDevice
    <2>5. Typed(IF left = {} THEN AfterSweep(t.op) ELSE "get", u)
        BY <1>2, <1>6, <2>2, <2>4 DEF SweepDelDevice
    <2> QED
        BY <2>1, <2>3, <2>5, OneMoves DEF Goto
<1> QED
    BY <1>3, <1>4, <1>5, <1>6 DEF Sweep

LEMMA DevicePolicyTypes ==
    ASSUME Types, NEW r \in Requests, DevicePolicy(r)
    PROVE  Types'
<1> DEFINE t == task[r]
           Found == [dev : Devices, rid : Requests, time : 0..MaxTime]
<1>0. /\ Typed(pc[r], t) /\ t \in Task /\ StoreTyped /\ task \in [Requests -> Task]
      /\ t.todo \subseteq Devices /\ t.found \subseteq Found
    BY TypedHere, TypesSplit DEF Task
<1> USE DEF Labels, Operations, Active, Ended, SweepSteps,
        PolicySteps, IssueSteps, CheckSteps, DenySteps
<1>1. pc[r] \in PolicySteps
    BY DEF DevicePolicy, CountDevices, ReadDevice, PickVictim, EnoughEvicted, EvictRefresh,
           EvictDevice
<1>2. t.op = "login" /\ t.dev \in Devices /\ MaxDevices > 0
    <2>1. t.op \in Operations
        BY <1>0 DEF Task
    <2>2. pc[r] \in Labels(t.op) /\ (t.op = "login" => t.dev \in Devices)
        BY <1>0, <1>1 DEF Typed
    <2> QED
        BY <1>1, <2>1, <2>2
\* Where nothing but the type of the locals matters.
<1>3. ASSUME NEW label \in {"count", "evict", "issue"}, NEW u \in Task, u.op = t.op, u.dev = t.dev
      PROVE  Typed(label, u)
    BY <1>2, <1>3 DEF Typed
<1>4. t = task[r] /\ task = [task EXCEPT ![r] = t]
    BY <1>0
<1>5. CASE CountDevices(r)
    <2>0. StoreTyped'
        BY <1>5, StoreKept DEF CountDevices
    <2> DEFINE u == [t EXCEPT !.todo = Present]
    <2>1. u \in Task /\ u.op = t.op /\ u.dev = t.dev /\ u.todo = Present
        <3>1. Present \in SUBSET Devices
            BY DEF Present
        <3> HIDE DEF Present
        <3> QED
            BY <1>0, <3>1 DEF Task
    <2>2. CASE Cardinality(Present) >= MaxDevices
        <3>1. task' = [task EXCEPT ![r] = u] /\ Goto(r, "read")
            BY <1>5, <2>2 DEF CountDevices
        <3> HIDE DEF u
        <3>2. Present # {}
            BY SessionAssumption, <1>2, <2>2, FS_EmptySet
        <3>3. Typed("read", u)
            BY <1>2, <2>1, <3>2 DEF Typed
        <3> QED
            BY <2>0, <3>1, <3>3, OneMoves DEF Goto
    <2>3. CASE ~ (Cardinality(Present) >= MaxDevices)
        BY <1>0, <1>3, <1>4, <1>5, <2>0, <2>3, OneMoves DEF CountDevices, Goto
    <2> QED
        BY <2>2, <2>3
<1>6. CASE ReadDevice(r)
    <2>0. StoreTyped'
        BY <1>6, StoreKept DEF ReadDevice
    <2>1. PICK d \in t.todo :
            task' = [task EXCEPT
              ![r].todo  = @ \ {d},
              ![r].found = @ \cup IF device[d] = None THEN {}
                                  ELSE {[dev |-> d, rid |-> device[d].rid,
                                         time |-> device[d].time]}]
        BY <1>6 DEF ReadDevice
    <2> DEFINE more == IF device[d] = None THEN {}
                       ELSE {[dev |-> d, rid |-> device[d].rid, time |-> device[d].time]}
               left == t.todo \ {d}
               u == [t EXCEPT !.todo = left, !.found = @ \cup more]
    <2>2. more \subseteq Found
        <3>1. d \in Devices
            BY <1>0
        <3> QED
            BY <1>0, <3>1 DEF StoreTyped, Info
    <2>3. task' = [task EXCEPT ![r] = u]
        BY <1>0, <2>1
    <2> HIDE DEF more
    <2>4. u \in Task /\ u.op = t.op /\ u.dev = t.dev /\ u.todo = left
        <3>1. t.found \cup more \in SUBSET Found /\ left \in SUBSET Devices
            BY <1>0, <2>2
        <3> HIDE DEF left
        <3> QED
            BY <1>0, <3>1 DEF Task
    <2>5. Cardinality(t.todo) > 1 => left # {}
        <3>1. left = {} => t.todo = {d}
            OBVIOUS
        <3>2. Cardinality({d}) = 1
            BY FS_Singleton
        <3> HIDE DEF left
        <3> QED
            BY <3>1, <3>2
    <2> HIDE DEF u, left
    <2>6. Cardinality(t.todo) > 1 => Typed("read", u)
        BY <1>2, <2>4, <2>5 DEF Typed
    <2>7. Typed("evict", u)
        BY <1>3, <2>4
    <2> QED
        BY <1>6, <2>0, <2>3, <2>6, <2>7, OneMoves DEF ReadDevice, Goto
<1>7. CASE PickVictim(r)
    <2>0. StoreTyped'
        BY <1>7, StoreKept DEF PickVictim
    <2>1. PICK v \in t.found :
            task' = [task EXCEPT ![r].cur = v.dev, ![r].rid = v.rid, ![r].found = @ \ {v}]
        BY <1>7 DEF PickVictim
    <2> DEFINE u == [t EXCEPT !.cur = v.dev, !.rid = v.rid, !.found = @ \ {v}]
    <2>2. v.dev \in Devices /\ v.rid \in Requests
        BY <1>0
    <2>3. /\ u \in Task /\ u.op = t.op /\ u.dev = t.dev
          /\ u.cur \in Devices /\ u.rid \in Requests
        BY <1>0, <2>2 DEF Task
    <2>4. task' = [task EXCEPT ![r] = u]
        BY <1>0, <2>1
    <2> HIDE DEF u
    <2>5. Typed("evict_refresh", u)
        BY <1>2, <2>3 DEF Typed
    <2> QED
        BY <1>7, <2>0, <2>4, <2>5, OneMoves DEF PickVictim, Goto
<1>8. CASE EnoughEvicted(r)
    <2>0. StoreTyped'
        BY <1>8, StoreKept DEF EnoughEvicted
    <2> DEFINE u == [t EXCEPT !.found = {}]
    <2>1. u \in Task /\ u.op = t.op /\ u.dev = t.dev
        BY <1>0 DEF Task
    <2>2. task' = [task EXCEPT ![r] = u]
        BY <1>8 DEF EnoughEvicted
    <2> QED
        BY <1>3, <1>8, <2>0, <2>1, <2>2, OneMoves DEF EnoughEvicted, Goto
<1>9. CASE EvictRefresh(r)
    <2>0. StoreTyped'
        BY <1>9, RefreshWritten DEF EvictRefresh
    <2>1. Typed("evict_device", t)
        BY <1>0, <1>2, <1>9 DEF Typed, EvictRefresh
    <2> QED
        BY <1>4, <1>9, <2>0, <2>1, OneMoves DEF EvictRefresh, Goto
<1>10. CASE EvictDevice(r)
    <2>0. StoreTyped'
        BY <1>10, DeviceWritten DEF EvictDevice
    <2> DEFINE u == [t EXCEPT !.cur = None, !.rid = None]
    <2>1. u \in Task /\ u.op = t.op /\ u.dev = t.dev
        BY <1>0 DEF Task
    <2>2. task' = [task EXCEPT ![r] = u]
        BY <1>0, <1>10 DEF EvictDevice
    <2> QED
        BY <1>3, <1>10, <2>0, <2>1, <2>2, OneMoves DEF EvictDevice, Goto
<1> QED
    BY <1>5, <1>6, <1>7, <1>8, <1>9, <1>10 DEF DevicePolicy

LEMMA ChecksTypes ==
    ASSUME Types, NEW r \in Requests, GetRefreshKey(r) \/ CheckBanned(r)
    PROVE  Types'
<1> DEFINE t == task[r]
<1>0. /\ Typed(pc[r], t) /\ t \in Task /\ StoreTyped /\ task \in [Requests -> Task]
      /\ t.op \in Operations /\ task = [task EXCEPT ![r] = t]
    BY TypedHere, TypesSplit DEF Task
<1>1. StoreTyped'
    BY StoreKept DEF GetRefreshKey, CheckBanned
<1> USE DEF Labels, Operations, Active, Ended, SweepSteps,
        PolicySteps, IssueSteps, CheckSteps, DenySteps
<1>2. t.op = "refresh" /\ pc[r] \in CheckSteps /\ t.old \in Requests
    <2>1. pc[r] \in CheckSteps
        BY DEF GetRefreshKey, CheckBanned
    <2>2. pc[r] \in Labels(t.op)
        BY <1>0, <2>1 DEF Typed
    <2> QED
        BY <1>0, <2>1, <2>2 DEF Typed
<1>3. CASE GetRefreshKey(r)
    <2>1. CASE refresh[t.old] = None
        BY <1>1, <1>2, <1>3, <2>1, ReturnTypes DEF GetRefreshKey
    <2>2. CASE refresh[t.old] # None
        <3> DEFINE u == [t EXCEPT !.dev = refresh[t.old]]
        <3>0. t.old \in Requests
            BY <1>0, <1>2 DEF Typed
        <3>1. refresh[t.old] \in Devices
            BY <1>0, <2>2, <3>0 DEF StoreTyped
        <3>2. u \in Task /\ u.op = t.op /\ u.dev \in Devices /\ u.old = t.old
            BY <1>0, <3>1 DEF Task
        <3>3. task' = [task EXCEPT ![r] = u] /\ Goto(r, "get_deny")
            BY <1>3, <2>2 DEF GetRefreshKey
        <3> HIDE DEF u
        <3>4. Typed("get_deny", u)
            BY <1>2, <3>2 DEF Typed
        <3> QED
            BY <1>1, <3>3, <3>4, OneMoves DEF Goto
    <2> QED
        BY <2>1, <2>2
<1>4. CASE CheckBanned(r)
    <2>1. CASE deny.kind = "banned"
        BY <1>1, <1>2, <1>4, <2>1, ReturnTypes DEF CheckBanned
    <2>2. CASE deny.kind # "banned"
        <3>1. Typed("issue", t)
            BY <1>0, <1>2, <1>4 DEF Typed, CheckBanned
        <3> QED
            BY <1>0, <1>1, <1>4, <2>2, <3>1, OneMoves DEF CheckBanned, Goto
    <2> QED
        BY <2>1, <2>2
<1> QED
    BY <1>3, <1>4

LEMMA IssueTypes ==
    ASSUME Types, NEW r \in Requests, IssueTokens(r)
    PROVE  Types'
<1> DEFINE t == task[r]
<1>0. /\ Typed(pc[r], t) /\ t \in Task /\ StoreTyped /\ task \in [Requests -> Task]
      /\ t.op \in Operations /\ task = [task EXCEPT ![r] = t]
    BY TypedHere, TypesSplit DEF Task
<1> USE DEF Labels, Operations, Active, Ended, SweepSteps,
        PolicySteps, IssueSteps, CheckSteps, DenySteps
<1>1. pc[r] \in IssueSteps /\ t.dev \in Devices
    BY <1>0 DEF IssueTokens, Issue, SetRefresh, DelOldRefresh, GetDevice, SetDevice, Typed
<1>2. /\ t.op \in {"login", "refresh"}
      /\ pc[r] \in {"del_old", "get_device"} => t.op = "refresh"
      /\ t.op = "refresh" => t.old \in Requests
    <2>1. pc[r] \in Labels(t.op)
        BY <1>0, <1>1 DEF Typed
    <2> QED
        BY <1>0, <1>1, <2>1 DEF Typed
<1>3. CASE Issue(r)
    <2> DEFINE u == [t EXCEPT !.iat = Second(now)]
    <2>1. StoreTyped'
        BY <1>3, StoreKept DEF Issue
    <2>2. u \in Task /\ u.op = t.op /\ u.dev = t.dev /\ u.old = t.old
        BY <1>0, SecondIsSecond0 DEF Task
    <2>3. task' = [task EXCEPT ![r] = u]
        BY <1>3 DEF Issue
    <2> HIDE DEF u
    <2>4. Typed("set_refresh", u)
        BY <1>1, <1>2, <2>2 DEF Typed
    <2> QED
        BY <1>3, <2>1, <2>3, <2>4, OneMoves DEF Issue, Goto
<1>4. CASE SetRefresh(r)
    <2>1. StoreTyped'
        BY <1>1, <1>4, RefreshWritten DEF SetRefresh
    <2>2. CASE t.op = "login"
        <3> DEFINE u == [t EXCEPT !.at = now]
        <3>1. u \in Task /\ u.op = t.op /\ u.dev = t.dev /\ u.old = t.old
            BY <1>0, SecondIsSecond0 DEF Task
        <3>2. task' = [task EXCEPT ![r] = u] /\ Goto(r, "set_device")
            BY <1>4, <2>2 DEF SetRefresh
        <3> HIDE DEF u
        <3>3. Typed("set_device", u)
            BY <1>1, <2>2, <3>1 DEF Typed
        <3> QED
            BY <2>1, <3>2, <3>3, OneMoves DEF Goto
    <2>3. CASE t.op = "refresh"
        <3>1. Typed("del_old", t)
            BY <1>0, <1>1, <2>3 DEF Typed
        <3> QED
            BY <1>0, <1>4, <2>1, <2>3, <3>1, OneMoves DEF SetRefresh, Goto
    <2> QED
        BY <1>2, <2>2, <2>3
<1>5. CASE DelOldRefresh(r)
    <2>1. StoreTyped'
        BY <1>5, RefreshWritten DEF DelOldRefresh
    <2>2. Typed("get_device", t)
        BY <1>0, <1>1, <1>2, <1>5 DEF Typed, DelOldRefresh
    <2> QED
        BY <1>0, <1>5, <2>1, <2>2, OneMoves DEF DelOldRefresh, Goto
<1>6. CASE GetDevice(r)
    <2>0. StoreTyped'
        BY <1>6, StoreKept DEF GetDevice
    <2>1. CASE device[t.dev] = None
        BY <1>2, <1>6, <2>0, <2>1, ReturnTypes DEF GetDevice
    <2>2. CASE device[t.dev] # None
        <3> DEFINE u == [t EXCEPT !.at = device[t.dev].time]
        <3>0. device[t.dev].time \in Second0
            BY <1>0, <1>1, <2>2 DEF StoreTyped, Info, Second0
        <3>1. u \in Task /\ u.op = t.op /\ u.dev = t.dev /\ u.old = t.old
            BY <1>0, <3>0 DEF Task
        <3>2. task' = [task EXCEPT ![r] = u] /\ Goto(r, "set_device")
            BY <1>6, <2>2 DEF GetDevice
        <3> HIDE DEF u
        <3>3. Typed("set_device", u)
            BY <1>1, <1>2, <1>6, <3>1 DEF Typed, GetDevice
        <3> QED
            BY <2>0, <3>2, <3>3, OneMoves DEF Goto
    <2> QED
        BY <2>1, <2>2
<1>7. CASE SetDevice(r)
    <2>1. [rid |-> r, time |-> t.at] \in Info
        BY <1>0 DEF Task, Info, Second0
    <2>2. StoreTyped'
        BY <1>7, <2>1, DeviceWritten DEF SetDevice
    <2> QED
        BY <1>2, <1>7, <2>2, ReturnTypes DEF SetDevice
<1> QED
    BY <1>3, <1>4, <1>5, <1>6, <1>7 DEF IssueTokens

LEMMA WriteDenyTypes ==
    ASSUME Types, NEW r \in Requests, WriteDeny(r)
    PROVE  Types'
<1> DEFINE t == task[r]
<1>0. /\ Typed(pc[r], t) /\ t \in Task /\ StoreTyped /\ task \in [Requests -> Task]
      /\ t.op \in Operations /\ t.at \in Second0
    BY TypedHere, TypesSplit DEF Task
<1> USE DEF Labels, Operations, Active, Ended, SweepSteps,
        PolicySteps, IssueSteps, CheckSteps, DenySteps
<1>1. pc[r] \in DenySteps
    BY DEF WriteDeny, Stamp, SetDeny, SetBanned, DelDeny
<1>2. /\ t.op \notin {"login", "refresh"}
      /\ pc[r] \in {"stamp", "set_deny"} =>
            t.op \in {"force_refresh", "logout", "logout_all", "disable_revoke"}
      /\ pc[r] = "set_banned" => t.op \in {"ban", "disable"}
      /\ pc[r] = "del_deny" => t.op \in {"unban", "enable"}
    <2>1. pc[r] \in Labels(t.op)
        BY <1>0, <1>1 DEF Typed
    <2> QED
        BY <1>0, <1>1, <2>1
<1>3. CASE Stamp(r)
    <2> DEFINE u == [t EXCEPT !.at = Second(now)]
    <2>1. StoreTyped'
        BY <1>3, StoreKept DEF Stamp
    <2>2. u \in Task /\ u.op = t.op /\ u.dev = t.dev
        BY <1>0, SecondIsSecond0 DEF Task
    <2>3. task' = [task EXCEPT ![r] = u]
        BY <1>3 DEF Stamp
    <2> HIDE DEF u
    <2>4. Typed("set_deny", u)
        BY <1>2, <1>3, <2>2 DEF Typed, Stamp
    <2> QED
        BY <1>3, <2>1, <2>3, <2>4, OneMoves DEF Stamp, Goto
<1>4. CASE SetDeny(r)
    <2>1. now + AccessTimeout * TicksPerSecond \in Nat
        BY <1>0, SessionAssumption DEF StoreTyped
    <2>2. StoreTyped'
        BY <1>0, <1>4, <2>1, DenyWritten DEF SetDeny
    <2> QED
        BY <1>2, <1>4, <2>2, ReturnTypes DEF SetDeny
<1>5. CASE SetBanned(r)
    <2>1. StoreTyped'
        BY <1>5, DenyWritten, SessionAssumption DEF SetBanned, Second0
    <2>2. CASE t.op = "disable"
        <3> DEFINE u == [t EXCEPT !.op = "disable_revoke"]
        <3>1. u \in Task /\ u.op = "disable_revoke"
            BY <1>0 DEF Task
        <3>2. task' = [task EXCEPT ![r] = u] /\ Goto(r, "scan")
            BY <1>5, <2>2 DEF SetBanned
        <3> HIDE DEF u
        <3>3. Typed("scan", u)
            BY <3>1 DEF Typed
        <3> QED
            BY <2>1, <3>2, <3>3, OneMoves DEF Goto
    <2>3. CASE t.op # "disable"
        BY <1>5, <2>1, <2>3, ReturnTypes DEF SetBanned
    <2> QED
        BY <2>2, <2>3
<1>6. CASE DelDeny(r)
    <2>1. StoreTyped'
        BY <1>6, DenyWritten, SessionAssumption DEF DelDeny, NoDeny, Second0
    <2> QED
        BY <1>2, <1>6, <2>1, ReturnTypes DEF DelDeny
<1> QED
    BY <1>3, <1>4, <1>5, <1>6 DEF WriteDeny

LEMMA StepTypes ==
    ASSUME Types, NEW r \in Requests, Step(r)
    PROVE  Types'
BY SweepTypes, DevicePolicyTypes, ChecksTypes, IssueTypes, WriteDenyTypes DEF Step

LEMMA AbortTypes ==
    ASSUME Types, NEW r \in Requests, Abort(r)
    PROVE  Types'
<1>1. StoreTyped'
    BY StoreKept DEF Abort
<1> QED
    BY <1>1, ReturnTypes DEF Abort, Ended

LEMMA TickTypes ==
    ASSUME Types, Tick
    PROVE  Types'
<1>0. StoreTyped
    BY TypesSplit
<1>1. NoDeny \in [kind : {"none", "refresh", "banned"}, at : Second0, expires : Nat]
    BY SessionAssumption DEF NoDeny, Second0
<1>2. StoreTyped'
    BY SessionAssumption, <1>0, <1>1 DEF Tick, StoreTyped, rows
<1> QED
    BY <1>2 DEF Tick, Types, TypeOK, WellPlaced, StoreTyped

LEMMA NextTypes == Types /\ [Next]_vars => Types'
<1> SUFFICES ASSUME Types, [Next]_vars PROVE Types'
    OBVIOUS
<1>1. CASE UNCHANGED vars
    BY <1>1 DEF vars, store, rows, Types, TypeOK, WellPlaced, Present
<1>2. CASE Next
    BY <1>2, TickTypes, BeginAnyTypes, StepTypes, AbortTypes DEF Next
<1> QED
    BY <1>1, <1>2

\* TypeOK with the places of the requests and the keys they are about to touch.
THEOREM SpecTypes == Spec => []Types
BY InitTypes, NextTypes, PTL DEF Spec

\* Every variable keeps its type, and the key a request is about to touch is
\* in its hand.
THEOREM SpecTypeOK == Spec => []TypeOK
<1>1. Types => TypeOK
    BY DEF Types
<1> QED
    BY SpecTypes, <1>1, PTL

-----------------------------------------------------------------------------
(* The inductive invariants.                                               *)

\* The requests that had ended when another began have ended for good, and
\* whoever had ended before them had ended before it.
History ==
    \A r \in Requests :
      /\ \A q \in task[r].saw : pc[q] \in Ended /\ task[q].saw \subseteq task[r].saw
      /\ r \notin task[r].saw

\* A token presented was handed out, and once its key is deleted nobody writes
\* it: its maker has returned.
TokensUsed ==
    \A r \in Requests : task[r].op = "refresh" =>
      /\ pc[task[r].old] = "done"
      /\ pc[r] \in {"get_device", "set_device", "done"} => refresh[task[r].old] = None

\* Who may undo a ban: not another ban.
BanUndoers == Unbans \cup (Revokers \ {"ban"})

\* The time to live of a ban is longer than anything here.
BannedForGood == deny.kind = "banned" => deny.expires = MaxTime

\* While a ban is not stored somebody undid it, or will have by the time a
\* refresh that began later has returned.
BanHolds ==
    /\ BannedForGood
    /\ \A r \in Requests : Did(r, {"ban"}) =>
         /\ deny.kind # "banned" =>
              \E x \in Requests : Doing(x, BanUndoers) /\ ~ Before(x, r)
         /\ \A q \in Requests :
              /\ Before(r, q) /\ task[q].op = "refresh"
              /\ pc[q] \in IssueSteps \cup {"done"}
              => \E x \in Requests :
                   Doing(x, BanUndoers) /\ ~ Before(x, r) /\ ~ Before(q, x)

\* The access token of q is to be refused on account of r.
Covered(r, q) ==
    /\ Did(r, Revokers) /\ Delivered(q) /\ Before(q, r)
    /\ ~ \E x \in Requests : Doing(x, Unbans) /\ ~ Before(x, r)
    /\ ~ \E x \in Requests : Doing(x, Revokers \cup {"disable"}) /\ Overlap(x, r)

\* A token is not issued in the future.
TokensPast == \A q \in Requests : task[q].iat <= Second(now)

\* A time stamp is in the past too, and no earlier than the tokens that were
\* out when its request began.
StampsCover ==
    \A r \in Requests : pc[r] = "set_deny" =>
      /\ task[r].at * TicksPerSecond <= now
      /\ \A q \in task[r].saw : task[q].iat <= task[r].at

\* The deny key stays until the last token that it refuses has expired.
KeyOutlivesTokens ==
    deny.kind = "refresh" => (deny.at + AccessTimeout) * TicksPerSecond <= deny.expires

\* Whatever is written to the deny key since keeps refusing the token.
CoveredIsRefused ==
    \A r, q \in Requests : Covered(r, q) =>
      \/ deny.kind = "banned"
      \/ deny.kind = "refresh" /\ task[q].iat <= deny.at
      \/ Second(now) >= task[q].iat + AccessTimeout

DenyHolds == TokensPast /\ StampsCover /\ KeyOutlivesTokens /\ CoveredIsRefused

\* A request has begun to move the session of a device to a new key.
Moving(x) == pc[x] \in {"del_old", "get_device", "set_device"}

\* A request holds the key to delete and the device it read it from.
Holding(x) == pc[x] \in {"del_refresh", "evict_refresh"}

\* The keys that are found in device entries were made by requests that have
\* returned: nobody writes them any more.
KeysReturned ==
    /\ \A d \in Devices : device[d] # None => pc[device[d].rid] = "done"
    /\ \A x \in Requests :
         /\ \A f \in task[x].found : pc[f.rid] = "done"
         /\ Holding(x) => pc[task[x].rid] = "done"

\* A key is the key of one device.
OneDevicePerKey ==
    /\ \A d, e \in Devices :
         device[d] # None /\ device[e] # None /\ device[d].rid = device[e].rid => d = e
    /\ \A d \in Devices : device[d] # None /\ refresh[device[d].rid] # None
                          => refresh[device[d].rid] = d

\* What a request has read of a key is about the device that has it.
HandsMatch ==
    /\ \A x \in Requests, d \in Devices : device[d] # None =>
         /\ Holding(x) /\ task[x].rid = device[d].rid => task[x].cur = d
         /\ \A f \in task[x].found : f.rid = device[d].rid => f.dev = d
         /\ /\ task[x].op = "refresh" /\ task[x].old = device[d].rid
            /\ pc[x] \in {"get_deny", "issue", "set_refresh", "del_old"}
            => task[x].dev = d
    /\ \A x \in Requests : Moving(x) => refresh[x] = task[x].dev

\* The device entry of a deleted key is about to be deleted or rewritten.
Followed(d) ==
    \E x \in Requests :
      \/ pc[x] \in {"del_device", "evict_device"} /\ task[x].cur = d
      \/ pc[x] \in {"get_device", "set_device"} /\ task[x].dev = d

GoneIsFollowed ==
    NoAborts => \A d \in Devices : device[d] # None => refresh[device[d].rid] = d \/ Followed(d)

SessionsLinked == KeysReturned /\ OneDevicePerKey /\ HandsMatch /\ GoneIsFollowed

-----------------------------------------------------------------------------
(* What every step has in common.                                          *)

\* Only r moves.
Alone(r) == \A q \in Requests \ {r} : pc'[q] = pc[q] /\ task'[q] = task[q]

\* A request that goes on is still itself: a disable becomes the revocation.
LEMMA StepFrame ==
    ASSUME Types, NEW r \in Requests, Step(r) \/ Abort(r)
    PROVE  /\ pc[r] \in Active /\ pc'[r] \in Active \cup Ended
           /\ Alone(r)
           /\ task'[r].saw = task[r].saw /\ task'[r].old = task[r].old
           /\ \/ task'[r].op = task[r].op
              \/ SetBanned(r) /\ task[r].op = "disable" /\ task'[r].op = "disable_revoke"
           /\ Issue(r) \/ task'[r].iat = task[r].iat
           /\ UNCHANGED <<now, rows>>
<1>0. /\ pc \in [Requests -> {"idle"} \cup Active \cup Ended]
      /\ task \in [Requests -> Task]
      /\ Types'
    BY TypesSplit, StepTypes, AbortTypes
<1>1. pc'[r] \in {"idle"} \cup Active \cup Ended
    BY <1>0, TypesSplit DEF Types, TypeOK
<1> USE DEF Active, Ended, SweepSteps, PolicySteps, IssueSteps, CheckSteps, DenySteps
<1>2. Alone(r)
    <2> USE <1>0 DEF Alone, Goto, Return
    <2>1. CASE Sweep(r)
        BY <2>1 DEF Sweep, Scan, SweepGet, SweepDelRefresh, SweepDelDevice
    <2>2. CASE DevicePolicy(r)
        BY <2>2 DEF DevicePolicy, CountDevices, ReadDevice, PickVictim, EnoughEvicted,
                    EvictRefresh, EvictDevice
    <2>3. CASE GetRefreshKey(r) \/ CheckBanned(r)
        BY <2>3 DEF GetRefreshKey, CheckBanned
    <2>4. CASE IssueTokens(r)
        BY <2>4 DEF IssueTokens, Issue, SetRefresh, DelOldRefresh, GetDevice, SetDevice
    <2>5. CASE WriteDeny(r)
        BY <2>5 DEF WriteDeny, Stamp, SetDeny, SetBanned, DelDeny
    <2>6. CASE Abort(r)
        BY <2>6 DEF Abort
    <2> QED
        BY <2>1, <2>2, <2>3, <2>4, <2>5, <2>6 DEF Step
<1> DEFINE Same == /\ task'[r].saw = task[r].saw /\ task'[r].old = task[r].old
                   /\ task'[r].op = task[r].op
           Kept == task'[r].iat = task[r].iat
<1>3. ASSUME NEW label, Return(r, label) PROVE Same /\ Kept /\ pc'[r] = label
    BY <1>0, <1>3 DEF Return, Goto, Task
<1>4. CASE Sweep(r)
    <2>1. Same /\ Kept
        <3>1. CASE Scan(r)
            BY <1>0, <3>1 DEF Scan, Task
        <3>2. CASE SweepGet(r)
            BY <1>0, <3>2 DEF SweepGet, Task
        <3>3. CASE SweepDelRefresh(r)
            BY <1>0, <3>3 DEF SweepDelRefresh
        <3>4. CASE SweepDelDevice(r)
            BY <1>0, <3>4 DEF SweepDelDevice, Task
        <3> QED
            BY <1>4, <3>1, <3>2, <3>3, <3>4 DEF Sweep
    <2>2. pc[r] \in SweepSteps /\ pc'[r] # "idle" /\ UNCHANGED <<now, rows>>
        BY <1>0, <1>4 DEF Sweep, Scan, SweepGet, SweepDelRefresh, SweepDelDevice, Goto,
                          AfterSweep, store
    <2> QED
        BY <1>1, <1>2, <2>1, <2>2
<1>5. CASE DevicePolicy(r)
    <2>1. Same /\ Kept
        <3>1. CASE CountDevices(r)
            BY <1>0, <3>1 DEF CountDevices, Task
        <3>2. CASE ReadDevice(r)
            BY <1>0, <3>2 DEF ReadDevice, Task
        <3>3. CASE PickVictim(r)
            BY <1>0, <3>3 DEF PickVictim, Task
        <3>4. CASE EnoughEvicted(r)
            BY <1>0, <3>4 DEF EnoughEvicted, Task
        <3>5. CASE EvictRefresh(r)
            BY <1>0, <3>5 DEF EvictRefresh
        <3>6. CASE EvictDevice(r)
            BY <1>0, <3>6 DEF EvictDevice, Task
        <3> QED
            BY <1>5, <3>1, <3>2, <3>3, <3>4, <3>5, <3>6 DEF DevicePolicy
    <2>2. pc[r] \in PolicySteps /\ pc'[r] # "idle" /\ UNCHANGED <<now, rows>>
        BY <1>0, <1>5 DEF DevicePolicy, CountDevices, ReadDevice, PickVictim, EnoughEvicted,
                          EvictRefresh, EvictDevice, Goto, store
    <2> QED
        BY <1>1, <1>2, <2>1, <2>2
<1>6. CASE GetRefreshKey(r) \/ CheckBanned(r)
    <2>1. Same /\ Kept
        BY <1>0, <1>3, <1>6 DEF GetRefreshKey, CheckBanned, Task
    <2>2. pc[r] \in CheckSteps /\ pc'[r] # "idle" /\ UNCHANGED <<now, rows>>
        BY <1>0, <1>3, <1>6 DEF GetRefreshKey, CheckBanned, Goto, store
    <2> QED
        BY <1>1, <1>2, <2>1, <2>2
<1>7. CASE IssueTokens(r)
    <2>1. Same /\ (Issue(r) \/ Kept)
        BY <1>0, <1>3, <1>7
           DEF IssueTokens, Issue, SetRefresh, DelOldRefresh, GetDevice, SetDevice, Task
    <2>2. pc[r] \in IssueSteps /\ pc'[r] # "idle" /\ UNCHANGED <<now, rows>>
        BY <1>0, <1>3, <1>7
           DEF IssueTokens, Issue, SetRefresh, DelOldRefresh, GetDevice, SetDevice, Goto, store
    <2> QED
        BY <1>1, <1>2, <2>1, <2>2
<1>8. CASE WriteDeny(r)
    <2>1. pc[r] \in DenySteps /\ pc'[r] # "idle" /\ UNCHANGED <<now, rows>>
        BY <1>0, <1>3, <1>8 DEF WriteDeny, Stamp, SetDeny, SetBanned, DelDeny, Goto, store
    <2>2. task'[r].saw = task[r].saw /\ task'[r].old = task[r].old /\ Kept
        BY <1>0, <1>3, <1>8 DEF WriteDeny, Stamp, SetDeny, SetBanned, DelDeny, Task
    <2>3. \/ task'[r].op = task[r].op
          \/ SetBanned(r) /\ task[r].op = "disable" /\ task'[r].op = "disable_revoke"
        BY <1>0, <1>3, <1>8 DEF WriteDeny, Stamp, SetDeny, SetBanned, DelDeny, Task
    <2> QED
        BY <1>1, <1>2, <2>1, <2>2, <2>3
<1>9. CASE Abort(r)
    BY <1>2, <1>3, <1>9 DEF Abort, store
<1> QED
    BY <1>4, <1>5, <1>6, <1>7, <1>8, <1>9 DEF Step

\* A request that begins has everything that has ended behind it.
LEMMA BeginFrame ==
    ASSUME Types, NEW r \in Requests, BeginAny(r)
    PROVE  /\ pc[r] = "idle" /\ pc'[r] \in {"get", "scan", "get_refresh", "del_deny", "stamp"}
           /\ Alone(r)
           /\ task'[r].saw = {q \in Requests : pc[q] \in Ended}
           /\ task'[r].iat = 0 /\ task'[r].found = {} /\ task'[r].op # "disable_revoke"
           /\ task'[r].op = "refresh" =>
                /\ task'[r].old \in Requests /\ Delivered(task'[r].old)
                /\ pc'[r] = "get_refresh"
           /\ UNCHANGED <<now, store>>
<1> DEFINE Goal ==
             /\ pc[r] = "idle" /\ pc'[r] \in {"get", "scan", "get_refresh", "del_deny", "stamp"}
             /\ Alone(r)
             /\ task'[r].saw = {q \in Requests : pc[q] \in Ended}
             /\ task'[r].iat = 0 /\ task'[r].found = {} /\ task'[r].op # "disable_revoke"
             /\ task'[r].op = "refresh" =>
                  /\ task'[r].old \in Requests /\ Delivered(task'[r].old)
                  /\ pc'[r] = "get_refresh"
             /\ UNCHANGED <<now, store>>
<1> SUFFICES Goal
    OBVIOUS
<1>0. /\ pc \in [Requests -> {"idle"} \cup Active \cup Ended]
      /\ task \in [Requests -> Task]
    BY TypesSplit
<1>1. ASSUME NEW op, NEW label, NEW t, Begin(r, op, label, t)
      PROVE  /\ pc[r] = "idle" /\ Alone(r) /\ UNCHANGED <<now, store>>
             /\ pc'[r] = label /\ task'[r] = t /\ op \in Operations \ {"disable_revoke"}
    BY <1>0, <1>1, SessionAssumption DEF Begin, Goto, Alone
<1> DEFINE ended == {q \in Requests : pc[q] \in Ended}
<1>2. ASSUME NEW op
      PROVE  /\ Fresh(op).op = op /\ Fresh(op).saw = ended
             /\ Fresh(op).iat = 0 /\ Fresh(op).found = {}
             /\ \A d, p, todo : LET f == [Fresh(op) EXCEPT !.dev = d, !.perm = p, !.todo = todo]
                               IN  f.op = op /\ f.saw = ended /\ f.iat = 0 /\ f.found = {}
             /\ \A todo : LET f == [Fresh(op) EXCEPT !.todo = todo]
                          IN  f.op = op /\ f.saw = ended /\ f.iat = 0 /\ f.found = {}
             /\ \A q, p : LET f == [Fresh(op) EXCEPT !.old = q, !.perm = p]
                          IN  /\ f.op = op /\ f.saw = ended /\ f.iat = 0 /\ f.found = {}
                              /\ f.old = q
    BY DEF Fresh, NoTask
<1> HIDE DEF ended
<1>3. ASSUME NEW op \in Operations \ {"disable_revoke"}, NEW label, NEW t, Begin(r, op, label, t),
             label \in {"get", "scan", "get_refresh", "del_deny", "stamp"},
             t.op = op, t.saw = ended, t.iat = 0, t.found = {},
             op = "refresh" => /\ t.old \in Requests /\ Delivered(t.old)
                               /\ label = "get_refresh"
      PROVE  Goal
    BY <1>1, <1>3 DEF ended
<1> HIDE DEF Goal
<1>4. CASE BeginLogin(r)
    <2> DEFINE todo(d) == IF ConcurrentLogin THEN {d} ELSE {}
               t(d) == [Fresh("login") EXCEPT !.dev = d, !.perm = perms, !.todo = todo(d)]
    <2>1. PICK d \in Devices :
            Begin(r, "login", IF ConcurrentLogin THEN "get" ELSE "scan", t(d))
        BY <1>4 DEF BeginLogin
    <2> HIDE DEF todo
    <2>2. t(d).op = "login" /\ t(d).saw = ended /\ t(d).iat = 0 /\ t(d).found = {}
        BY <1>2
    <2> HIDE DEF t
    <2> QED
        BY <1>3, <2>1, <2>2 DEF Operations
<1>5. CASE BeginLogout(r)
    <2> DEFINE t(d) == [Fresh("logout") EXCEPT !.todo = {d}]
    <2>1. PICK d \in Devices : Begin(r, "logout", "get", t(d))
        BY <1>5 DEF BeginLogout
    <2>2. t(d).op = "logout" /\ t(d).saw = ended /\ t(d).iat = 0 /\ t(d).found = {}
        BY <1>2
    <2> HIDE DEF t
    <2> QED
        BY <1>3, <2>1, <2>2 DEF Operations
<1>6. CASE BeginRefresh(r)
    <2> DEFINE t(q) == [Fresh("refresh") EXCEPT !.old = q, !.perm = perms]
    <2>1. PICK q \in Requests : Delivered(q) /\ Begin(r, "refresh", "get_refresh", t(q))
        BY <1>6 DEF BeginRefresh
    <2>2. /\ t(q).op = "refresh" /\ t(q).saw = ended /\ t(q).iat = 0 /\ t(q).found = {}
          /\ t(q).old = q
        BY <1>2
    <2> HIDE DEF t
    <2> QED
        BY <1>3, <2>1, <2>2 DEF Operations
<1>7. CASE BeginLogoutAll(r)
    BY <1>2, <1>7, <1>3 DEF BeginLogoutAll, NoTask, Operations
<1>8. CASE BeginBan(r)
    BY <1>2, <1>8, <1>3 DEF BeginBan, NoTask, Operations
<1>9. CASE BeginUnban(r)
    BY <1>2, <1>9, <1>3 DEF BeginUnban, NoTask, Operations
<1>10. CASE BeginForceRefresh(r)
    BY <1>2, <1>10, <1>3 DEF BeginForceRefresh, NoTask, Operations
<1>11. CASE BeginDisable(r)
    BY <1>2, <1>11, <1>3 DEF BeginDisable, NoTask, Operations
<1>12. CASE BeginEnable(r)
    BY <1>2, <1>12, <1>3 DEF BeginEnable, NoTask, Operations
<1> QED
    BY <1>4, <1>5, <1>6, <1>7, <1>8, <1>9, <1>10, <1>11, <1>12 DEF BeginAny

\* What no step changes any more.
LEMMA LabelsApart ==
    "idle" \notin Active \cup Ended /\ \A label \in Active : label \notin Ended
BY DEF Active, Ended, SweepSteps, PolicySteps, IssueSteps, CheckSteps, DenySteps

\* What no step changes any more.
LEMMA Persists ==
    ASSUME Types, [Next]_vars, NEW q \in Requests
    PROVE  /\ pc[q] \in Ended => pc'[q] = pc[q] /\ task'[q] = task[q]
           /\ pc[q] # "idle" =>
                /\ pc'[q] # "idle" /\ task'[q].saw = task[q].saw /\ task'[q].old = task[q].old
                /\ \/ task'[q].op = task[q].op
                   \/ task[q].op = "disable" /\ task'[q].op = "disable_revoke"
<1>1. CASE pc' = pc /\ task' = task
    BY <1>1
<1>2. ASSUME NEW r \in Requests, Step(r) \/ Abort(r)
      PROVE  q # r => pc'[q] = pc[q] /\ task'[q] = task[q]
    <2>1. Alone(r)
        BY <1>2, StepFrame
    <2> QED
        BY <2>1 DEF Alone
<1>3. ASSUME Step(q) \/ Abort(q)
      PROVE  /\ pc[q] \notin Ended /\ pc'[q] # "idle"
             /\ task'[q].saw = task[q].saw /\ task'[q].old = task[q].old
             /\ \/ task'[q].op = task[q].op
                \/ task[q].op = "disable" /\ task'[q].op = "disable_revoke"
    BY <1>3, StepFrame, LabelsApart
<1>4. ASSUME NEW r \in Requests, BeginAny(r), pc[q] # "idle"
      PROVE  pc'[q] = pc[q] /\ task'[q] = task[q]
    BY <1>4, BeginFrame DEF Alone
<1>5. "idle" \notin Ended
    BY DEF Ended
<1> QED
    BY <1>1, <1>2, <1>3, <1>4, <1>5 DEF Next, Tick, vars

\* Once its key is deleted the exchange is on its way out.
LEMMA RefreshWays ==
    ASSUME Types, NEW r \in Requests, Step(r) \/ Abort(r), task'[r].op = "refresh"
    PROVE  /\ task[r].op = "refresh"
           /\ pc'[r] \in {"get_device", "set_device", "done"} =>
                \/ pc[r] \in {"get_device", "set_device"} /\ refresh' = refresh
                \/ pc[r] = "del_old" /\ refresh' = [refresh EXCEPT ![task[r].old] = None]
<1>1. Typed(pc[r], task[r]) /\ task[r].op = "refresh" /\ pc[r] \in Active
    BY TypesSplit, StepFrame
<1>2. pc[r] \in CheckSteps \cup IssueSteps
    BY <1>1 DEF Typed, Labels
<1>3. pc \in [Requests -> {"idle"} \cup Active \cup Ended]
    BY TypesSplit
<1> USE <1>1, <1>3 DEF Goto, Return, store
<1>4. CASE Abort(r)
    BY <1>4 DEF Abort
<1>5. CASE GetRefreshKey(r) \/ CheckBanned(r)
    BY <1>5 DEF GetRefreshKey, CheckBanned
<1>6. CASE IssueTokens(r)
    BY <1>6 DEF IssueTokens, Issue, SetRefresh, DelOldRefresh, GetDevice, SetDevice
<1>7. ~ Sweep(r) /\ ~ DevicePolicy(r) /\ ~ WriteDeny(r)
    BY <1>2 DEF Sweep, Scan, SweepGet, SweepDelRefresh, SweepDelDevice, DevicePolicy,
         CountDevices, ReadDevice, PickVictim, EnoughEvicted, EvictRefresh, EvictDevice,
         WriteDeny, Stamp, SetDeny, SetBanned, DelDeny, CheckSteps, IssueSteps
<1> QED
    BY <1>4, <1>5, <1>6, <1>7 DEF Step

\* A refresh key is written by the request that made it, before it returns.
LEMMA RefreshWrites ==
    ASSUME NEW r \in Requests, Step(r) \/ Abort(r)
    PROVE  \/ refresh' = refresh
           \/ \E k : refresh' = [refresh EXCEPT ![k] = None]
           \/ pc[r] = "set_refresh" /\ refresh' = [refresh EXCEPT ![r] = task[r].dev]
<1> USE DEF store
<1>1. CASE Sweep(r)
    BY <1>1 DEF Sweep, Scan, SweepGet, SweepDelRefresh, SweepDelDevice
<1>2. CASE DevicePolicy(r)
    BY <1>2 DEF DevicePolicy, CountDevices, ReadDevice, PickVictim, EnoughEvicted,
                EvictRefresh, EvictDevice
<1>3. CASE GetRefreshKey(r) \/ CheckBanned(r) \/ Abort(r)
    BY <1>3 DEF GetRefreshKey, CheckBanned, Abort
<1>4. CASE IssueTokens(r)
    BY <1>4 DEF IssueTokens, Issue, SetRefresh, DelOldRefresh, GetDevice, SetDevice
<1>5. CASE WriteDeny(r)
    BY <1>5 DEF WriteDeny, Stamp, SetDeny, SetBanned, DelDeny
<1> QED
    BY <1>1, <1>2, <1>3, <1>4, <1>5 DEF Step

-----------------------------------------------------------------------------
(* History.                                                                *)

LEMMA InitHistory == Init => History
BY DEF Init, History, NoTask

LEMMA NextHistory == Types /\ History /\ [Next]_vars => History'
<1> SUFFICES ASSUME Types, History, [Next]_vars, NEW r \in Requests
             PROVE  /\ \A q \in task'[r].saw : pc'[q] \in Ended /\ task'[q].saw \subseteq task'[r].saw
                    /\ r \notin task'[r].saw
    BY DEF History
<1>0. task[r].saw \subseteq Requests
    BY TypesSplit DEF Task
<1>1. CASE task'[r].saw = task[r].saw
    BY <1>0, <1>1, Persists DEF History
<1>2. CASE task'[r].saw # task[r].saw
    <2>1. PICK x \in Requests : BeginAny(x) \/ Step(x) \/ Abort(x)
        BY <1>2 DEF Next, vars, Tick
    <2>2. BeginAny(x) /\ x = r
        BY <1>2, <2>1, StepFrame, BeginFrame DEF Alone
    <2>3. task'[r].saw = {q \in Requests : pc[q] \in Ended} /\ pc[r] = "idle"
        BY <2>2, BeginFrame
    <2>4. \A q \in task'[r].saw : pc'[q] \in Ended /\ task'[q].saw = task[q].saw
        BY <2>3, Persists
    <2>5. \A q \in task'[r].saw : task[q].saw \subseteq task'[r].saw
        BY <2>3, TypesSplit DEF History, Task
    <2> QED
        BY <2>3, <2>4, <2>5 DEF Ended
<1> QED
    BY <1>1, <1>2

\* The order of the calls that is recorded is an order: who has ended before a
\* request began has ended, and nothing is recorded about itself.
THEOREM SpecHistory == Spec => []History
BY InitTypes, NextTypes, InitHistory, NextHistory, PTL DEF Spec

-----------------------------------------------------------------------------
(* A token is exchanged once.                                              *)

LEMMA InitTokensUsed == Init => TokensUsed
BY DEF Init, TokensUsed, NoTask

LEMMA NextTokensUsed == Types /\ TokensUsed /\ [Next]_vars => TokensUsed'
<1> SUFFICES ASSUME Types, TokensUsed, [Next]_vars, NEW r \in Requests, task'[r].op = "refresh"
             PROVE  /\ pc'[task'[r].old] = "done"
                    /\ pc'[r] \in {"get_device", "set_device", "done"}
                         => refresh'[task'[r].old] = None
    BY DEF TokensUsed
<1>0. refresh \in [Requests -> Devices \cup {None}]
    BY TypesSplit DEF StoreTyped
<1>1. CASE UNCHANGED vars \/ Tick
    BY <1>1 DEF vars, store, Tick, TokensUsed
<1>2. ASSUME NEW x \in Requests, BeginAny(x)
      PROVE  /\ pc'[task'[r].old] = "done"
             /\ pc'[r] \in {"get_device", "set_device", "done"} => refresh'[task'[r].old] = None
    <2>0. refresh' = refresh
        BY <1>2, BeginFrame DEF store
    <2>1. CASE x = r
        BY <1>2, <2>1, BeginFrame DEF Delivered, Alone
    <2>2. CASE x # r
        <3>1. task'[r] = task[r] /\ pc'[r] = pc[r] /\ task[r].old \in Requests
            BY <1>2, <2>2, BeginFrame, TypesSplit DEF Alone, Typed
        <3> QED
            BY <1>2, <2>0, <3>1, Persists DEF TokensUsed, Ended
    <2> QED
        BY <2>1, <2>2
<1>3. ASSUME NEW x \in Requests, Step(x) \/ Abort(x)
      PROVE  /\ pc'[task'[r].old] = "done"
             /\ pc'[r] \in {"get_device", "set_device", "done"} => refresh'[task'[r].old] = None
    <2>1. task[r].op = "refresh" /\ task'[r].old = task[r].old /\ task[r].old \in Requests
        BY <1>3, StepFrame, TypesSplit DEF Alone, Typed
    <2>2. pc[task[r].old] = "done" /\ pc'[task[r].old] = "done"
        BY <2>1, Persists DEF TokensUsed, Ended
    <2>3. refresh'[task[r].old] = refresh[task[r].old] \/ refresh'[task[r].old] = None
        BY <1>0, <1>3, <2>1, <2>2, RefreshWrites
    <2>4. pc'[r] \in {"get_device", "set_device", "done"} =>
             \/ pc[r] \in {"get_device", "set_device", "done"}
             \/ refresh'[task[r].old] = None
        BY <1>0, <1>3, <2>1, RefreshWays, StepFrame DEF Alone
    <2> QED
        BY <2>1, <2>2, <2>3, <2>4 DEF TokensUsed
<1> QED
    BY <1>1, <1>2, <1>3 DEF Next

\* A refresh exchanges the token of a request that has returned and will not
\* write its key again; once the refresh has deleted the key, it stays away.
THEOREM SpecTokensUsed == Spec => []TokensUsed
BY InitTypes, NextTypes, InitTokensUsed, NextTokensUsed, PTL DEF Spec

\* A refresh token that was exchanged is dead: its key is deleted before the
\* exchange returns, and only the request that made it ever wrote it.
THEOREM SpecUsedTokenIsDead == Spec => []UsedTokenIsDead
<1>1. TokensUsed => UsedTokenIsDead
    BY DEF TokensUsed, UsedTokenIsDead, Did
<1> QED
    BY SpecTokensUsed, <1>1, PTL

-----------------------------------------------------------------------------
(* The deny key.                                                           *)

LEMMA DenyWrites ==
    ASSUME NEW r \in Requests, Step(r) \/ Abort(r)
    PROVE  deny' = deny \/ SetDeny(r) \/ SetBanned(r) \/ DelDeny(r)
<1> USE DEF store
<1>1. CASE Sweep(r)
    BY <1>1 DEF Sweep, Scan, SweepGet, SweepDelRefresh, SweepDelDevice
<1>2. CASE DevicePolicy(r)
    BY <1>2 DEF DevicePolicy, CountDevices, ReadDevice, PickVictim, EnoughEvicted,
                EvictRefresh, EvictDevice
<1>3. CASE GetRefreshKey(r) \/ CheckBanned(r) \/ Abort(r)
    BY <1>3 DEF GetRefreshKey, CheckBanned, Abort
<1>4. CASE IssueTokens(r)
    BY <1>4 DEF IssueTokens, Issue, SetRefresh, DelOldRefresh, GetDevice, SetDevice
<1>5. CASE WriteDeny(r)
    BY <1>5 DEF WriteDeny, Stamp
<1> QED
    BY <1>1, <1>2, <1>3, <1>4, <1>5 DEF Step

\* Which operations write it.
LEMMA DenyOps ==
    ASSUME Types, NEW r \in Requests
    PROVE  /\ pc[r] \in {"stamp", "set_deny"} => task[r].op \in Revokers \ {"ban"}
           /\ pc[r] = "set_banned" => task[r].op \in {"ban", "disable"}
           /\ pc[r] = "del_deny" => task[r].op \in Unbans
<1>1. task[r].op \in Operations /\ (pc[r] \in Active => pc[r] \in Labels(task[r].op))
    BY TypesSplit DEF Typed, Task
<1> QED
    BY <1>1 DEF Labels, Operations, Active, SweepSteps, PolicySteps, IssueSteps, CheckSteps,
                DenySteps, Revokers, Unbans

\* Where requests return.
LEMMA Returns ==
    ASSUME Types, NEW r \in Requests, Step(r) \/ Abort(r), pc'[r] = "done"
    PROVE  \/ task[r].op \in {"login", "refresh"} /\ deny' = deny
           \/ SetDeny(r)
           \/ SetBanned(r) /\ task[r].op = "ban"
           \/ DelDeny(r)
<1>0. /\ pc \in [Requests -> {"idle"} \cup Active \cup Ended]
      /\ task[r].op \in Operations /\ (pc[r] \in Active => pc[r] \in Labels(task[r].op))
    BY TypesSplit DEF Typed, Task
<1> USE <1>0 DEF Goto, Return
<1>1. ~ Sweep(r)
    BY DEF Sweep, Scan, SweepGet, SweepDelRefresh, SweepDelDevice, AfterSweep
<1>2. ~ DevicePolicy(r)
    BY DEF DevicePolicy, CountDevices, ReadDevice, PickVictim, EnoughEvicted,
           EvictRefresh, EvictDevice
<1>3. ~ (GetRefreshKey(r) \/ CheckBanned(r) \/ Abort(r))
    BY DEF GetRefreshKey, CheckBanned, Abort
<1>4. CASE IssueTokens(r)
    <2>1. pc[r] \in IssueSteps /\ deny' = deny
        BY <1>4 DEF IssueTokens, Issue, SetRefresh, DelOldRefresh, GetDevice, SetDevice,
                    IssueSteps, store
    <2> QED
        BY <2>1 DEF Labels, Operations, Active, SweepSteps, PolicySteps, IssueSteps, CheckSteps,
                    DenySteps
<1>5. CASE WriteDeny(r)
    <2>1. ~ Stamp(r)
        BY DEF Stamp
    <2>2. CASE SetBanned(r)
        <3>1. task[r].op # "disable"
            BY <2>2 DEF SetBanned
        <3> QED
            BY <2>2, <3>1, DenyOps DEF SetBanned
    <2> QED
        BY <1>5, <2>1, <2>2 DEF WriteDeny
<1> QED
    BY <1>1, <1>2, <1>3, <1>4, <1>5 DEF Step

\* A refresh that gets past the deny key found nobody banned.
LEMMA RefreshPasses ==
    ASSUME Types, NEW r \in Requests, Step(r) \/ Abort(r), task[r].op = "refresh",
           pc'[r] \in IssueSteps \cup {"done"}
    PROVE  \/ pc[r] \in IssueSteps
           \/ deny.kind # "banned"
<1>1. Typed(pc[r], task[r]) /\ pc[r] \in Active
    BY TypesSplit, StepFrame
<1>2. pc[r] \in CheckSteps \cup IssueSteps
    BY <1>1 DEF Typed, Labels
<1>3. pc \in [Requests -> {"idle"} \cup Active \cup Ended]
    BY TypesSplit
<1>4. ~ Abort(r)
    BY <1>3 DEF Abort, Return, Goto, IssueSteps
<1>5. CASE GetRefreshKey(r)
    BY <1>3, <1>5 DEF GetRefreshKey, Return, Goto, IssueSteps
<1>6. CASE CheckBanned(r)
    BY <1>3, <1>6 DEF CheckBanned, Return, Goto, IssueSteps
<1>7. CASE IssueTokens(r)
    BY <1>7 DEF IssueTokens, Issue, SetRefresh, DelOldRefresh, GetDevice, SetDevice, IssueSteps
<1>8. ~ Sweep(r) /\ ~ DevicePolicy(r) /\ ~ WriteDeny(r)
    BY <1>2 DEF Sweep, Scan, SweepGet, SweepDelRefresh, SweepDelDevice, DevicePolicy,
         CountDevices, ReadDevice, PickVictim, EnoughEvicted, EvictRefresh, EvictDevice,
         WriteDeny, Stamp, SetDeny, SetBanned, DelDeny, CheckSteps, IssueSteps
<1> QED
    BY <1>4, <1>5, <1>6, <1>7, <1>8 DEF Step

\* What was begun goes on being done, and what was before stays before.
LEMMA DoingStays ==
    ASSUME Types, [Next]_vars, NEW x \in Requests, NEW ops, Doing(x, ops),
           "disable" \in ops => "disable_revoke" \in ops
    PROVE  Doing(x, ops)'
BY Persists DEF Doing, Begun

LEMMA BeforeStays ==
    ASSUME Types, [Next]_vars, NEW x \in Requests, NEW r \in Requests, Begun(r)
    PROVE  Before(x, r)' <=> Before(x, r)
BY Persists DEF Before, Begun

\* A request under way is before nobody.
LEMMA ActiveIsBeforeNone ==
    ASSUME Types, History, NEW x \in Requests, NEW r \in Requests, pc[x] \in Active
    PROVE  ~ Before(x, r)
BY LabelsApart DEF History, Before

-----------------------------------------------------------------------------
(* A ban holds.                                                            *)

LEMMA InitBanHolds == Init => BanHolds
BY DEF Init, BanHolds, BannedForGood, NoDeny, Did

LEMMA NextBannedForGood == Types /\ BannedForGood /\ [Next]_vars => BannedForGood'
<1> SUFFICES ASSUME Types, BannedForGood, [Next]_vars PROVE BannedForGood'
    OBVIOUS
<1>1. CASE UNCHANGED vars
    BY <1>1 DEF vars, store, BannedForGood
<1>2. CASE Tick
    BY <1>2 DEF Tick, BannedForGood, NoDeny
<1>3. ASSUME NEW r \in Requests, BeginAny(r) PROVE BannedForGood'
    BY <1>3, BeginFrame DEF store, BannedForGood
<1>4. ASSUME NEW r \in Requests, Step(r) \/ Abort(r) PROVE BannedForGood'
    BY <1>4, DenyWrites DEF SetDeny, SetBanned, DelDeny, NoDeny, BannedForGood
<1> QED
    BY <1>1, <1>2, <1>3, <1>4 DEF Next

LEMMA TickKeepsBan ==
    ASSUME Types, BannedForGood, Tick, deny.kind = "banned"
    PROVE  deny' = deny
<1>1. now \in Nat /\ MaxTime \in Nat
    BY SessionAssumption, TypesSplit DEF StoreTyped
<1> QED
    BY <1>1 DEF Tick, BannedForGood

\* A ban is removed by somebody who undoes bans, and time does not remove it.
LEMMA BanRemoved ==
    ASSUME Types, BannedForGood, [Next]_vars, deny.kind = "banned", deny'.kind # "banned"
    PROVE  \E x \in Requests :
             /\ pc[x] \in Active
             /\ Doing(x, BanUndoers)
<1>1. ~ UNCHANGED vars
    BY DEF vars, store
<1>2. ~ Tick
    BY TickKeepsBan
<1>3. ASSUME NEW x \in Requests PROVE ~ BeginAny(x)
    BY BeginFrame DEF store
<1>4. PICK x \in Requests : Step(x) \/ Abort(x)
    BY <1>1, <1>2, <1>3 DEF Next
<1>5. SetDeny(x) \/ DelDeny(x)
    BY <1>4, DenyWrites DEF SetBanned
<1>6. task[x].op \in BanUndoers /\ pc[x] \in {"set_deny", "del_deny"}
    BY <1>5, DenyOps DEF SetDeny, DelDeny, BanUndoers
<1> QED
    BY <1>6 DEF Doing, Begun, Active, DenySteps

LEMMA NextBanHolds == Types /\ History /\ BanHolds /\ [Next]_vars => BanHolds'
<1> SUFFICES ASSUME Types, History, BanHolds, [Next]_vars, NEW r \in Requests, Did(r, {"ban"})'
             PROVE  /\ deny'.kind # "banned" =>
                         \E x \in Requests : Doing(x, BanUndoers)' /\ ~ Before(x, r)'
                    /\ \A q \in Requests :
                         /\ Before(r, q)' /\ task'[q].op = "refresh"
                         /\ pc'[q] \in IssueSteps \cup {"done"}
                         => \E x \in Requests :
                              Doing(x, BanUndoers)' /\ ~ Before(x, r)' /\ ~ Before(q, x)'
    BY NextBannedForGood DEF BanHolds
<1>0. BannedForGood /\ "disable" \notin BanUndoers
    BY DEF BanHolds, BanUndoers, Unbans, Revokers
\* The witness of the state before is one of the state after.
<1>1. ASSUME NEW x \in Requests, Doing(x, BanUndoers), NEW q \in Requests, Begun(q)
      PROVE  Doing(x, BanUndoers)' /\ (~ Before(x, q) => ~ Before(x, q)')
    BY <1>0, <1>1, DoingStays, BeforeStays
<1>2. ASSUME NEW x \in Requests, Doing(x, BanUndoers), NEW q \in Requests, ~ Before(q, x)
      PROVE  ~ Before(q, x)'
    BY <1>2, BeforeStays DEF Doing
<1>3. CASE Did(r, {"ban"})
    <2>0. Begun(r)
        BY <1>3 DEF Did, Begun
    <2>1. ASSUME deny'.kind # "banned"
          PROVE  \E x \in Requests : Doing(x, BanUndoers)' /\ ~ Before(x, r)'
        <3>1. \E x \in Requests : Doing(x, BanUndoers) /\ ~ Before(x, r)
            BY <1>0, <1>3, <2>1, BanRemoved, ActiveIsBeforeNone DEF BanHolds
        <3> QED
            BY <1>1, <2>0, <3>1
    <2>2. ASSUME NEW q \in Requests, Before(r, q)', task'[q].op = "refresh",
                 pc'[q] \in IssueSteps \cup {"done"}
          PROVE  \E x \in Requests :
                   Doing(x, BanUndoers)' /\ ~ Before(x, r)' /\ ~ Before(q, x)'
        <3>1. Begun(q)
            <4>1. \A x \in Requests : BeginAny(x) => q # x
                BY <2>2, BeginFrame DEF IssueSteps
            <4>2. \A x \in Requests : Step(x) \/ Abort(x) => q # x \/ pc[q] \in Active
                BY StepFrame
            <4>3. pc[q] = "idle" => pc'[q] = "idle"
                <5>1. \A x \in Requests : BeginAny(x) \/ Step(x) \/ Abort(x) => Alone(x)
                    BY BeginFrame, StepFrame
                <5> QED
                    BY <4>1, <4>2, <5>1, LabelsApart DEF Next, vars, Tick, Alone
            <4> QED
                BY <2>2, <4>3 DEF Begun, IssueSteps
        <3>2. Before(r, q) /\ task[q].op = "refresh"
            BY <2>2, <3>1, BeforeStays, Persists DEF Begun
        <3>3. \E x \in Requests : Doing(x, BanUndoers) /\ ~ Before(x, r) /\ ~ Before(q, x)
            <4>1. CASE pc[q] \in IssueSteps \cup {"done"}
                BY <1>3, <3>2, <4>1 DEF BanHolds
            <4>2. CASE pc[q] \notin IssueSteps \cup {"done"}
                <5>1. pc'[q] # pc[q]
                    BY <2>2, <4>2
                <5>2. PICK x \in Requests : BeginAny(x) \/ Step(x) \/ Abort(x)
                    BY <5>1 DEF Next, vars, Tick
                <5>3. x = q
                    BY <5>1, <5>2, BeginFrame, StepFrame DEF Alone
                <5>4. Step(q) \/ Abort(q)
                    BY <3>1, <5>2, <5>3, BeginFrame DEF Begun
                <5>5. deny.kind # "banned" /\ pc[q] \in Active
                    BY <2>2, <3>2, <4>2, <5>4, RefreshPasses, StepFrame
                <5> QED
                    BY <1>3, <5>5, ActiveIsBeforeNone DEF BanHolds
            <4> QED
                BY <4>1, <4>2
        <3> QED
            BY <1>1, <1>2, <2>0, <3>3
    <2> QED
        BY <2>1, <2>2
<1>4. CASE ~ Did(r, {"ban"})
    <2>0. pc'[r] = "done" /\ task'[r].op = "ban"
        BY DEF Did
    <2>1. ~ (pc[r] \in Ended) /\ (pc'[r] # pc[r] \/ task'[r] # task[r])
        BY <1>4, <2>0, Persists DEF Did
    <2>2. PICK x \in Requests : BeginAny(x) \/ Step(x) \/ Abort(x)
        BY <2>1 DEF Next, vars, Tick
    <2>3. x = r
        BY <2>1, <2>2, BeginFrame, StepFrame DEF Alone
    <2>4. Step(r) \/ Abort(r)
        BY <2>0, <2>2, <2>3, BeginFrame
    <2>5. task[r].op = "ban" /\ pc[r] \in Active /\ Alone(r)
        BY <2>0, <2>4, StepFrame
    <2>6. deny'.kind = "banned"
        BY <2>0, <2>4, <2>5, Returns, DenyOps DEF SetDeny, DelDeny, SetBanned, Unbans
    <2>7. ASSUME NEW q \in Requests PROVE ~ Before(r, q)'
        <3>1. task'[q].saw = task[q].saw
            BY <2>4, <2>5, StepFrame DEF Alone
        <3> QED
            BY <2>5, <3>1, LabelsApart DEF Before, History
    <2> QED
        BY <2>6, <2>7
<1> QED
    BY <1>3, <1>4

\* What a ban leaves in the deny key until it is lifted or overwritten.
THEOREM SpecBanHolds == Spec => []BanHolds
BY InitTypes, NextTypes, InitHistory, NextHistory, InitBanHolds, NextBanHolds, PTL DEF Spec

\* After ban_user has returned no refresh that began later succeeds, unless
\* somebody else wrote or deleted the deny key.
THEOREM SpecBanBlocksRefresh == Spec => []BanBlocksRefresh
<1>1. BanHolds => BanBlocksRefresh
    BY DEF BanHolds, BanBlocksRefresh, BanUndoers, Did
<1> QED
    BY SpecBanHolds, <1>1, PTL

-----------------------------------------------------------------------------
(* A revocation holds.                                                     *)

LEMMA InitDenyHolds == Init => DenyHolds
<1>1. Second(0) = 0
    BY SecondBounds
<1> QED
    BY <1>1 DEF Init, DenyHolds, TokensPast, StampsCover, KeyOutlivesTokens, CoveredIsRefused,
                Covered, Did, NoDeny, NoTask

LEMMA TimeGoesOn ==
    ASSUME Types, [Next]_vars
    PROVE  /\ now \in Nat /\ now' \in Nat /\ now <= now'
           /\ Second(now) \in Nat /\ Second(now') \in Nat /\ Second(now) <= Second(now')
<1>1. now \in Nat
    BY SessionAssumption, TypesSplit DEF StoreTyped
<1>2. now' = now \/ now' = now + 1
    <2>1. \A x \in Requests : BeginAny(x) \/ Step(x) \/ Abort(x) => now' = now
        BY BeginFrame, StepFrame
    <2> QED
        BY <2>1 DEF Next, Tick, vars
<1>3. now' \in Nat /\ now <= now'
    BY <1>1, <1>2
<1>4. /\ Second(now) \in Nat /\ Second(now) * TicksPerSecond <= now
      /\ Second(now)' \in Nat /\ \A x \in Int : x * TicksPerSecond <= now' => x <= Second(now')
    BY <1>1, <1>3, SecondBounds
<1>5. Second(now) * TicksPerSecond \in Int
    BY <1>4, SessionAssumption
<1>6. Second(now) * TicksPerSecond <= now'
    BY <1>1, <1>3, <1>4, <1>5
<1> QED
    BY <1>1, <1>3, <1>4, <1>6

LEMMA NextTokensPast == Types /\ TokensPast /\ [Next]_vars => TokensPast'
<1> SUFFICES ASSUME Types, TokensPast, [Next]_vars, NEW q \in Requests
             PROVE  task'[q].iat <= Second(now')
    BY DEF TokensPast
<1>0. /\ task[q].iat \in Nat /\ task[q].iat <= Second(now)
      /\ Second(now) \in Nat /\ Second(now') \in Nat /\ Second(now) <= Second(now')
    <2>1. task[q].iat \in Second0
        BY TypesSplit DEF Task
    <2> QED
        BY <2>1, TimeGoesOn, SessionAssumption DEF TokensPast, Second0
<1>1. CASE task'[q].iat = task[q].iat
    BY <1>0, <1>1
<1>2. CASE task'[q].iat # task[q].iat
    <2>1. PICK x \in Requests : BeginAny(x) \/ Step(x) \/ Abort(x)
        BY <1>2 DEF Next, vars, Tick
    <2>2. x = q
        BY <1>2, <2>1, BeginFrame, StepFrame DEF Alone
    <2>3. CASE BeginAny(q)
        BY <1>0, <2>3, BeginFrame
    <2>4. CASE Step(q) \/ Abort(q)
        <3>1. Issue(q)
            BY <1>2, <2>4, StepFrame
        <3>2. task'[q].iat = Second(now) /\ now' = now
            BY <3>1, TypesSplit DEF Issue, Task
        <3> QED
            BY <1>0, <3>2
    <2> QED
        BY <2>1, <2>2, <2>3, <2>4
<1> QED
    BY <1>1, <1>2

\* The time stamp is taken on the way to the deny key and nowhere else.
LEMMA StampWays ==
    ASSUME Types, NEW r \in Requests, Step(r) \/ Abort(r), pc'[r] = "set_deny"
    PROVE  Stamp(r)
<1>0. /\ pc \in [Requests -> {"idle"} \cup Active \cup Ended]
      /\ task[r].op \in Operations /\ (pc[r] \in Active => pc[r] \in Labels(task[r].op))
    BY TypesSplit DEF Typed, Task
<1> USE <1>0 DEF Goto, Return
<1>1. ~ Sweep(r)
    BY DEF Sweep, Scan, SweepGet, SweepDelRefresh, SweepDelDevice, AfterSweep
<1>2. ~ DevicePolicy(r)
    BY DEF DevicePolicy, CountDevices, ReadDevice, PickVictim, EnoughEvicted,
           EvictRefresh, EvictDevice
<1>3. ~ (GetRefreshKey(r) \/ CheckBanned(r) \/ Abort(r))
    BY DEF GetRefreshKey, CheckBanned, Abort
<1>4. ~ IssueTokens(r)
    BY DEF IssueTokens, Issue, SetRefresh, DelOldRefresh, GetDevice, SetDevice
<1>5. WriteDeny(r) => Stamp(r)
    BY DEF WriteDeny, SetDeny, SetBanned, DelDeny
<1> QED
    BY <1>1, <1>2, <1>3, <1>4, <1>5 DEF Step

LEMMA NextStampsCover ==
    Types /\ History /\ TokensPast /\ StampsCover /\ [Next]_vars => StampsCover'
<1> SUFFICES ASSUME Types, History, TokensPast, StampsCover, [Next]_vars,
                    NEW r \in Requests, pc'[r] = "set_deny"
             PROVE  /\ task'[r].at * TicksPerSecond <= now'
                    /\ \A q \in task'[r].saw : task'[q].iat <= task'[r].at
    BY DEF StampsCover
<1>0. /\ now \in Nat /\ now' \in Nat /\ now <= now'
      /\ Second(now) \in Nat /\ Second(now) * TicksPerSecond <= now
    BY TimeGoesOn, SecondBounds
<1>1. CASE pc[r] = "set_deny" /\ task'[r] = task[r]
    <2>1. task[r].at * TicksPerSecond \in Int
        BY TypesSplit, SessionAssumption DEF Task, Second0
    <2>2. \A q \in task[r].saw : task'[q] = task[q]
        BY TypesSplit, Persists DEF History, Task
    <2> QED
        BY <1>0, <1>1, <2>1, <2>2 DEF StampsCover
<1>2. CASE ~ (pc[r] = "set_deny" /\ task'[r] = task[r])
    <2>1. PICK x \in Requests : BeginAny(x) \/ Step(x) \/ Abort(x)
        BY <1>2 DEF Next, vars, Tick
    <2>2. x = r
        BY <1>2, <2>1, BeginFrame, StepFrame DEF Alone
    <2>3. Stamp(r)
        BY <2>1, <2>2, BeginFrame, StampWays
    <2>4. /\ task'[r].at = Second(now) /\ task'[r].saw = task[r].saw /\ now' = now
          /\ \A q \in Requests : task'[q].iat = task[q].iat
        BY <2>3, TypesSplit DEF Stamp, Task
    <2>5. task[r].saw \subseteq Requests
        BY TypesSplit DEF Task
    <2> QED
        BY <1>0, <2>4, <2>5 DEF TokensPast
<1> QED
    BY <1>1, <1>2

LEMMA NextKeyOutlives ==
    Types /\ StampsCover /\ KeyOutlivesTokens /\ [Next]_vars => KeyOutlivesTokens'
<1> SUFFICES ASSUME Types, StampsCover, KeyOutlivesTokens, [Next]_vars
             PROVE  KeyOutlivesTokens'
    OBVIOUS
<1>1. CASE deny' = deny
    BY <1>1 DEF KeyOutlivesTokens
<1>2. CASE Tick
    BY <1>2 DEF Tick, KeyOutlivesTokens, NoDeny
<1>3. ASSUME NEW x \in Requests, BeginAny(x) PROVE deny' = deny
    BY <1>3, BeginFrame DEF store
<1>4. ASSUME NEW x \in Requests, SetDeny(x) PROVE KeyOutlivesTokens'
    <2> DEFINE at == task[x].at
    <2>1. /\ deny'.at = at /\ deny'.expires = now + AccessTimeout * TicksPerSecond
          /\ at * TicksPerSecond <= now /\ at \in Nat /\ now \in Nat
        BY <1>4, TypesSplit, SessionAssumption
           DEF SetDeny, StampsCover, StoreTyped, Task, Second0
    <2>2. /\ (at + AccessTimeout) * TicksPerSecond
              = at * TicksPerSecond + AccessTimeout * TicksPerSecond
          /\ at * TicksPerSecond \in Nat /\ AccessTimeout * TicksPerSecond \in Nat
        BY <2>1, SessionAssumption
    <2> HIDE DEF at
    <2> QED
        BY <2>1, <2>2 DEF KeyOutlivesTokens
<1>5. ASSUME NEW x \in Requests, SetBanned(x) \/ DelDeny(x) PROVE KeyOutlivesTokens'
    BY <1>5 DEF SetBanned, DelDeny, NoDeny, KeyOutlivesTokens
<1> QED
    BY <1>1, <1>2, <1>3, <1>4, <1>5, DenyWrites DEF Next, vars, store

LEMMA NextCoveredIsRefused ==
    Types /\ History /\ BannedForGood /\ DenyHolds /\ [Next]_vars => CoveredIsRefused'
<1> SUFFICES ASSUME Types, History, BannedForGood, DenyHolds, [Next]_vars,
                    NEW r \in Requests, NEW q \in Requests, Covered(r, q)'
             PROVE  \/ deny'.kind = "banned"
                    \/ deny'.kind = "refresh" /\ task'[q].iat <= deny'.at
                    \/ Second(now') >= task'[q].iat + AccessTimeout
    BY DEF CoveredIsRefused
<1>0. /\ task[q].iat \in Nat /\ deny.at \in Nat /\ deny.expires \in Nat
      /\ AccessTimeout \in Nat /\ TicksPerSecond \in Nat /\ now \in Nat
    BY TypesSplit, SessionAssumption DEF StoreTyped, Task, Second0
<1>1. pc'[r] = "done" /\ task'[r].op \in Revokers /\ q \in task'[r].saw
    BY DEF Covered, Did, Before
<1>2. CASE pc[r] = "done"
    <2>0. task'[r] = task[r] /\ task[r].op \in Revokers /\ q \in task[r].saw /\ Begun(r)
        BY <1>1, <1>2, Persists DEF Ended, Begun
    <2>1. pc[q] \in Ended /\ pc'[q] = pc[q] /\ task'[q] = task[q]
        BY <2>0, Persists DEF History
    <2>2. ASSUME NEW x \in Requests PROVE ~ (Doing(x, Unbans) /\ ~ Before(x, r))
        <3>1. "disable" \notin Unbans
            BY DEF Unbans
        <3> QED
            BY <2>0, <3>1, DoingStays, BeforeStays DEF Covered
    <2>3. ASSUME NEW x \in Requests
          PROVE  ~ (Doing(x, Revokers \cup {"disable"}) /\ Overlap(x, r))
        <3>1. "disable_revoke" \in Revokers \cup {"disable"}
            BY DEF Revokers
        <3>2. Overlap(x, r) => Overlap(x, r)'
            <4>1. Begun(x) => Begun(x)' /\ (Before(r, x)' <=> Before(r, x))
                BY BeforeStays, Persists DEF Begun
            <4>2. Begun(r)' /\ (Before(x, r)' <=> Before(x, r))
                BY <2>0, BeforeStays, Persists DEF Begun
            <4> QED
                BY <4>1, <4>2 DEF Overlap
        <3> QED
            BY <3>1, <3>2, DoingStays DEF Covered
    <2>4. Covered(r, q)
        BY <1>2, <2>0, <2>1, <2>2, <2>3 DEF Covered, Did, Before, Delivered
    <2>5. CASE deny' = deny \/ Second(now) >= task[q].iat + AccessTimeout
        <3>1. Second(now') >= Second(now) /\ Second(now) \in Nat /\ Second(now') \in Nat
            BY TimeGoesOn
        <3> QED
            BY <1>0, <2>1, <2>4, <2>5, <3>1 DEF DenyHolds, CoveredIsRefused
    <2>6. ASSUME Tick, deny' # deny, ~ (Second(now) >= task[q].iat + AccessTimeout)
          PROVE  Second(now') >= task'[q].iat + AccessTimeout
        <3>1. deny.kind = "refresh" /\ task[q].iat <= deny.at
            BY <2>4, <2>6, TickKeepsBan DEF DenyHolds, CoveredIsRefused
        <3>2. deny.expires < now + 1 /\ now' = now + 1
            BY <2>6 DEF Tick
        <3> DEFINE until == (deny.at + AccessTimeout) * TicksPerSecond
        <3>3. until <= deny.expires /\ until \in Int
            BY <1>0, <3>1 DEF DenyHolds, KeyOutlivesTokens
        <3>4. until <= now'
            <4> HIDE DEF until
            <4> QED
                BY <1>0, <3>2, <3>3
        <3>5. deny.at + AccessTimeout <= Second(now') /\ Second(now') \in Nat
            BY <1>0, <3>2, <3>4, SecondBounds
        <3> QED
            BY <1>0, <2>1, <3>1, <3>5
    <2>7. ASSUME NEW x \in Requests, SetDeny(x)
          PROVE  deny'.kind = "refresh" /\ task'[q].iat <= deny'.at
        <3>1. pc[x] = "set_deny" /\ deny'.kind = "refresh" /\ deny'.at = task[x].at
            BY <2>7 DEF SetDeny
        <3>2. Doing(x, Revokers \cup {"disable"}) /\ ~ Before(x, r) /\ x # r
            BY <1>2, <3>1, DenyOps, ActiveIsBeforeNone DEF Doing, Begun, Active, DenySteps
        <3>3. r \in task[x].saw
            BY <2>0, <2>3, <3>2 DEF Overlap, Doing, Before
        <3>4. q \in task[x].saw
            BY <2>0, <3>3 DEF History
        <3> QED
            BY <2>1, <3>1, <3>4 DEF DenyHolds, StampsCover
    <2>8. ASSUME NEW x \in Requests PROVE ~ DelDeny(x)
        BY <2>2, DenyOps, ActiveIsBeforeNone DEF DelDeny, Doing, Begun, Active, DenySteps
    <2>9. ASSUME NEW x \in Requests, SetBanned(x) PROVE deny'.kind = "banned"
        BY <2>9 DEF SetBanned
    <2>10. ASSUME NEW x \in Requests, BeginAny(x) PROVE deny' = deny
        BY <2>10, BeginFrame DEF store
    <2> QED
        BY <2>5, <2>6, <2>7, <2>8, <2>9, <2>10, DenyWrites DEF Next, vars, store
<1>3. CASE pc[r] # "done"
    <2>1. PICK x \in Requests : BeginAny(x) \/ Step(x) \/ Abort(x)
        BY <1>1, <1>3 DEF Next, vars, Tick
    <2>2. x = r
        BY <1>1, <1>3, <2>1, BeginFrame, StepFrame DEF Alone
    <2>3. Step(r) \/ Abort(r)
        BY <1>1, <2>1, <2>2, BeginFrame
    <2>4. /\ pc[r] \in Active /\ Alone(r) /\ task'[r].saw = task[r].saw
          /\ \/ task'[r].op = task[r].op
             \/ task[r].op = "disable" /\ task'[r].op = "disable_revoke"
        BY <2>3, StepFrame
    <2>5. q # r /\ task'[q] = task[q]
        BY <1>1, <2>4 DEF History, Alone
    <2>6. CASE SetDeny(r)
        <3>1. deny'.kind = "refresh" /\ deny'.at = task[r].at /\ task[q].iat <= task[r].at
            BY <1>1, <2>4, <2>6 DEF SetDeny, DenyHolds, StampsCover
        <3> QED
            BY <2>5, <3>1
    <2>7. CASE SetBanned(r)
        BY <2>7 DEF SetBanned
    <2>8. ~ DelDeny(r)
        BY <1>1, <2>4, DenyOps DEF DelDeny, Unbans, Revokers
    <2>9. task[r].op \notin {"login", "refresh"}
        BY <1>1, <2>4 DEF Revokers
    <2> QED
        BY <1>1, <2>3, <2>6, <2>7, <2>8, <2>9, Returns
<1> QED
    BY <1>2, <1>3

\* What a time stamp in the deny key covers and how long the key lives.
THEOREM SpecDenyHolds == Spec => []DenyHolds
<1>1. Types /\ History /\ BannedForGood /\ DenyHolds /\ [Next]_vars => DenyHolds'
    BY NextTokensPast, NextStampsCover, NextKeyOutlives, NextCoveredIsRefused DEF DenyHolds
<1>2. BanHolds => BannedForGood
    BY DEF BanHolds
<1> QED
    BY InitTypes, NextTypes, InitHistory, NextHistory, InitDenyHolds, <1>1, <1>2,
       SpecBanHolds, PTL DEF Spec

\* An access token handed out before a logout, a forced refresh or a ban began
\* is refused once that call has returned, until it expires.
THEOREM SpecRevokedStaysOut == Spec => []RevokedStaysOut
<1>1. Types /\ DenyHolds => RevokedStaysOut
    <2> SUFFICES ASSUME Types, DenyHolds, NEW r \in Requests, NEW q \in Requests, Covered(r, q),
                        Second(now) < task[q].iat + AccessTimeout
                 PROVE  ~ Validates(q)
        BY DEF RevokedStaysOut, Covered
    <2>1. /\ task[q].iat \in Nat /\ deny.at \in Nat /\ AccessTimeout \in Nat
          /\ Second(now) \in Nat
        BY TypesSplit, SessionAssumption, SecondBounds DEF StoreTyped, Task, Second0
    <2>2. deny.kind = "banned" \/ (deny.kind = "refresh" /\ task[q].iat <= deny.at)
        BY <2>1 DEF DenyHolds, CoveredIsRefused
    <2> QED
        BY <2>1, <2>2 DEF Validates
<1> QED
    BY SpecTypes, SpecDenyHolds, <1>1, PTL

-----------------------------------------------------------------------------
(* Sessions.  What a step does to the device entries, to the refresh keys  *)
(* and to what the request has in hand.                                    *)

LEMMA DeviceMoves ==
    ASSUME Types, NEW r \in Requests, Step(r) \/ Abort(r), NEW d \in Devices
    PROVE  /\ \/ device'[d] = None
              \/ device'[d] = device[d]
              \/ /\ pc[r] = "set_device" /\ pc'[r] = "done" /\ d = task[r].dev
                 /\ device'[d].rid = r
           /\ pc[r] \in {"del_device", "evict_device"} /\ d = task[r].cur
                => device'[d] = None \/ pc'[r] = "aborted"
           /\ pc[r] \in {"get_device", "set_device"} /\ d = task[r].dev
                => \/ device'[d] = None
                   \/ device'[d].rid = r
                   \/ pc'[r] = "set_device" /\ task'[r].dev = d
                   \/ pc'[r] = "aborted"
           /\ device' # device => refresh' = refresh
<1>0. /\ pc \in [Requests -> {"idle"} \cup Active \cup Ended]
      /\ task \in [Requests -> Task] /\ device \in [Devices -> Info \cup {None}]
    BY TypesSplit DEF StoreTyped
<1> USE <1>0 DEF Goto, Return, store
<1>1. CASE Sweep(r)
    BY <1>1 DEF Sweep, Scan, SweepGet, SweepDelRefresh, SweepDelDevice
<1>2. CASE DevicePolicy(r)
    BY <1>2 DEF DevicePolicy, CountDevices, ReadDevice, PickVictim, EnoughEvicted,
                EvictRefresh, EvictDevice
<1>3. CASE GetRefreshKey(r) \/ CheckBanned(r)
    BY <1>3 DEF GetRefreshKey, CheckBanned
<1>4. CASE Issue(r) \/ SetRefresh(r) \/ DelOldRefresh(r)
    BY <1>4 DEF Issue, SetRefresh, DelOldRefresh
<1>5. CASE GetDevice(r)
    <2>1. CASE device[task[r].dev] = None
        BY <1>5, <2>1 DEF GetDevice
    <2>2. CASE device[task[r].dev] # None
        <3>1. task'[r].dev = task[r].dev /\ pc'[r] = "set_device" /\ UNCHANGED store
            BY <1>5, <2>2 DEF GetDevice, Task
        <3> QED
            BY <1>5, <3>1 DEF GetDevice
    <2> QED
        BY <2>1, <2>2
<1>6. CASE SetDevice(r)
    BY <1>6 DEF SetDevice
<1>7. CASE WriteDeny(r)
    BY <1>7 DEF WriteDeny, Stamp, SetDeny, SetBanned, DelDeny
<1>8. CASE Abort(r)
    BY <1>8 DEF Abort
<1> QED
    BY <1>1, <1>2, <1>3, <1>4, <1>5, <1>6, <1>7, <1>8 DEF Step, IssueTokens

LEMMA RefreshMoves ==
    ASSUME Types, NEW r \in Requests, Step(r) \/ Abort(r), NEW k \in Requests
    PROVE  \/ refresh'[k] = refresh[k]
           \/ pc[r] = "set_refresh" /\ k = r
           \/ /\ refresh'[k] = None /\ k = task[r].rid
              /\ pc[r] \in {"del_refresh", "evict_refresh"}
              /\ pc'[r] \in {"del_device", "evict_device"} /\ task'[r].cur = task[r].cur
           \/ /\ refresh'[k] = None /\ k = task[r].old
              /\ pc[r] = "del_old" /\ task[r].op = "refresh"
              /\ pc'[r] = "get_device" /\ task'[r].dev = task[r].dev
<1>0. /\ pc \in [Requests -> {"idle"} \cup Active \cup Ended]
      /\ task \in [Requests -> Task] /\ refresh \in [Requests -> Devices \cup {None}]
    BY TypesSplit DEF StoreTyped
<1>1. pc[r] = "del_old" => task[r].op = "refresh"
    <2>1. task[r].op \in Operations /\ (pc[r] \in Active => pc[r] \in Labels(task[r].op))
        BY TypesSplit DEF Typed, Task
    <2> QED
        BY <2>1 DEF Labels, Operations, Active, SweepSteps, PolicySteps, IssueSteps, CheckSteps,
                    DenySteps
<1> USE <1>0 DEF Goto, Return, store
<1>2. CASE Sweep(r)
    BY <1>2 DEF Sweep, Scan, SweepGet, SweepDelRefresh, SweepDelDevice
<1>3. CASE DevicePolicy(r)
    BY <1>3 DEF DevicePolicy, CountDevices, ReadDevice, PickVictim, EnoughEvicted,
                EvictRefresh, EvictDevice
<1>4. CASE GetRefreshKey(r) \/ CheckBanned(r) \/ Abort(r)
    BY <1>4 DEF GetRefreshKey, CheckBanned, Abort
<1>5. CASE IssueTokens(r)
    BY <1>1, <1>5 DEF IssueTokens, Issue, SetRefresh, DelOldRefresh, GetDevice, SetDevice
<1>6. CASE WriteDeny(r)
    BY <1>6 DEF WriteDeny, Stamp, SetDeny, SetBanned, DelDeny
<1> QED
    BY <1>2, <1>3, <1>4, <1>5, <1>6 DEF Step

\* The key and the device in hand come from one device entry, now or when the
\* list was read.
LEMMA HandMoves ==
    ASSUME Types, NEW r \in Requests, Step(r) \/ Abort(r)
    PROVE  /\ pc'[r] \in {"del_refresh", "evict_refresh"} =>
                /\ device' = device
                /\ \/ /\ device[task'[r].cur] # None /\ task'[r].cur \in Devices
                      /\ task'[r].rid = device[task'[r].cur].rid
                   \/ \E f \in task[r].found : task'[r].cur = f.dev /\ task'[r].rid = f.rid
           /\ \A f \in task'[r].found :
                \/ f \in task[r].found
                \/ /\ f.dev \in Devices /\ device[f.dev] # None /\ f.rid = device[f.dev].rid
                   /\ device' = device
<1>0. /\ pc \in [Requests -> {"idle"} \cup Active \cup Ended]
      /\ task \in [Requests -> Task] /\ task[r].todo \subseteq Devices
    BY TypesSplit DEF Task
<1> USE <1>0 DEF Goto, Return, store
<1>1. CASE Scan(r)
    BY <1>1 DEF Scan, AfterSweep, Task
<1>2. CASE SweepGet(r)
    <2>1. PICK d \in task[r].todo :
             IF device[d] = None
             THEN /\ task' = [task EXCEPT ![r].cur = d]
                  /\ Goto(r, "del_device")
             ELSE /\ task' = [task EXCEPT ![r].cur = d, ![r].rid = device[d].rid]
                  /\ Goto(r, "del_refresh")
        BY <1>2 DEF SweepGet
    <2>2. task'[r].found = task[r].found /\ device' = device
        BY <1>2, <2>1 DEF SweepGet, Task
    <2>3. device[d] # None => task'[r].cur = d /\ task'[r].rid = device[d].rid
        BY <2>1 DEF Task
    <2>4. device[d] = None => pc'[r] = "del_device"
        BY <2>1
    <2> QED
        BY <2>2, <2>3, <2>4
<1>3. CASE SweepDelRefresh(r)
    BY <1>3 DEF SweepDelRefresh
<1>4. CASE SweepDelDevice(r)
    BY <1>4 DEF SweepDelDevice, AfterSweep, Task
<1>5. CASE CountDevices(r)
    BY <1>5 DEF CountDevices, Task
<1>6. CASE ReadDevice(r)
    <2>1. PICK d \in task[r].todo :
            task' = [task EXCEPT
              ![r].todo  = @ \ {d},
              ![r].found = @ \cup IF device[d] = None THEN {}
                                  ELSE {[dev |-> d, rid |-> device[d].rid,
                                         time |-> device[d].time]}]
        BY <1>6 DEF ReadDevice
    <2>2. task'[r].found = task[r].found \cup
             IF device[d] = None THEN {}
             ELSE {[dev |-> d, rid |-> device[d].rid, time |-> device[d].time]}
        BY <2>1 DEF Task
    <2>3. pc'[r] \in {"read", "evict"} /\ device' = device
        BY <1>6 DEF ReadDevice
    <2> QED
        BY <2>2, <2>3
<1>7. CASE PickVictim(r)
    <2>1. PICK v \in task[r].found :
            task' = [task EXCEPT ![r].cur = v.dev, ![r].rid = v.rid, ![r].found = @ \ {v}]
        BY <1>7 DEF PickVictim
    <2>2. /\ task'[r].cur = v.dev /\ task'[r].rid = v.rid
          /\ task'[r].found = task[r].found \ {v}
        BY <2>1 DEF Task
    <2> QED
        BY <1>7, <2>2 DEF PickVictim
<1>8. CASE EnoughEvicted(r)
    BY <1>8 DEF EnoughEvicted, Task
<1>9. CASE EvictRefresh(r)
    BY <1>9 DEF EvictRefresh
<1>10. CASE EvictDevice(r)
    BY <1>10 DEF EvictDevice, Task
<1>11. ASSUME NEW label \in Ended, Return(r, label)
       PROVE  task'[r].found = {} /\ pc'[r] = label /\ label \notin {"del_refresh", "evict_refresh"}
    BY <1>11 DEF Task, Ended
<1>12. CASE GetRefreshKey(r) \/ CheckBanned(r) \/ Abort(r)
    BY <1>11, <1>12 DEF GetRefreshKey, CheckBanned, Abort, Ended, Task
<1>13. CASE IssueTokens(r)
    BY <1>11, <1>13 DEF IssueTokens, Issue, SetRefresh, DelOldRefresh, GetDevice, SetDevice,
                        Ended, Task
<1>14. CASE WriteDeny(r)
    BY <1>11, <1>14 DEF WriteDeny, Stamp, SetDeny, SetBanned, DelDeny, Ended, Task
<1> QED
    BY <1>1, <1>2, <1>3, <1>4, <1>5, <1>6, <1>7, <1>8, <1>9, <1>10, <1>12, <1>13, <1>14
       DEF Step, Sweep, DevicePolicy

\* The device of an exchange is the one its token was made for, and the new
\* key is written for the same.
LEMMA ExchangeMoves ==
    ASSUME Types, NEW r \in Requests, Step(r) \/ Abort(r)
    PROVE  /\ task'[r].op = "refresh" /\ pc'[r] \in {"get_deny", "issue", "set_refresh", "del_old"}
                => \/ /\ pc[r] \in {"get_deny", "issue", "set_refresh", "del_old"}
                      /\ task'[r].dev = task[r].dev
                   \/ task'[r].dev = refresh[task[r].old] /\ task'[r].dev # None
           /\ Moving(r)' => \/ Moving(r) /\ task'[r].dev = task[r].dev
                            \/ /\ pc[r] = "set_refresh" /\ task'[r].dev = task[r].dev
                               /\ refresh'[r] = task[r].dev
<1>0. /\ pc \in [Requests -> {"idle"} \cup Active \cup Ended]
      /\ task \in [Requests -> Task] /\ refresh \in [Requests -> Devices \cup {None}]
    BY TypesSplit DEF StoreTyped
<1> USE <1>0 DEF Goto, Return, store, Moving
<1>1. CASE Sweep(r)
    <2>1. task'[r].op = task[r].op
        BY <1>1, StepFrame DEF Step, SetBanned, Sweep, Scan, SweepGet, SweepDelRefresh,
                               SweepDelDevice
    <2>2. pc[r] \in SweepSteps
        BY <1>1 DEF Sweep, Scan, SweepGet, SweepDelRefresh, SweepDelDevice, SweepSteps
    <2>3. task[r].op # "refresh"
        BY <2>2, TypesSplit DEF Typed, Labels, Active, SweepSteps, IssueSteps, CheckSteps
    <2>4. ~ Moving(r)'
        BY <1>1 DEF Sweep, Scan, SweepGet, SweepDelRefresh, SweepDelDevice, AfterSweep
    <2> QED
        BY <2>1, <2>3, <2>4
<1>2. CASE DevicePolicy(r)
    <2>1. pc[r] \in PolicySteps /\ ~ SetBanned(r)
        BY <1>2 DEF DevicePolicy, CountDevices, ReadDevice, PickVictim, EnoughEvicted,
                    EvictRefresh, EvictDevice, PolicySteps, SetBanned
    <2>2. task[r].op # "refresh" /\ task'[r].op = task[r].op
        BY <1>2, <2>1, StepFrame, TypesSplit
           DEF Step, Typed, Labels, Active, PolicySteps, IssueSteps, CheckSteps
    <2>3. ~ Moving(r)'
        BY <1>2 DEF DevicePolicy, CountDevices, ReadDevice, PickVictim, EnoughEvicted,
                    EvictRefresh, EvictDevice
    <2> QED
        BY <2>2, <2>3
<1>3. CASE GetRefreshKey(r)
    BY <1>3 DEF GetRefreshKey, Task
<1>4. CASE CheckBanned(r) \/ Abort(r)
    BY <1>4 DEF CheckBanned, Abort
<1>5. CASE Issue(r)
    BY <1>5 DEF Issue, Task
<1>6. CASE SetRefresh(r)
    BY <1>6 DEF SetRefresh, Task
<1>7. CASE DelOldRefresh(r)
    BY <1>7 DEF DelOldRefresh
<1>8. CASE GetDevice(r)
    BY <1>8 DEF GetDevice, Task
<1>9. CASE SetDevice(r)
    BY <1>9 DEF SetDevice
<1>10. CASE WriteDeny(r)
    BY <1>10 DEF WriteDeny, Stamp, SetDeny, SetBanned, DelDeny
<1> QED
    BY <1>1, <1>2, <1>3, <1>4, <1>5, <1>6, <1>7, <1>8, <1>9, <1>10 DEF Step, IssueTokens

-----------------------------------------------------------------------------
(* Device entries lead to sessions.                                        *)

LEMMA InitSessionsLinked == Init => SessionsLinked
BY DEF Init, SessionsLinked, KeysReturned, OneDevicePerKey, HandsMatch, GoneIsFollowed, NoTask,
       Holding, Moving

\* Nothing happens, or a request begins.
LEMMA QuietSessionsLinked ==
    ASSUME Types, SessionsLinked, device' = device, refresh' = refresh,
           \A x \in Requests :
             \/ pc'[x] = pc[x] /\ task'[x] = task[x]
             \/ /\ pc[x] = "idle" /\ task'[x].found = {}
                /\ pc'[x] \in {"get", "scan", "get_refresh", "del_deny", "stamp"}
    PROVE  SessionsLinked'
<1>0. /\ \A d \in Devices : device[d] # None => device[d].rid \in Requests
      /\ \A x \in Requests : \A f \in task[x].found : f.rid \in Requests
      /\ \A x \in Requests : Holding(x) => task[x].rid \in Requests
    BY TypesSplit DEF StoreTyped, Info, Typed, Holding, Task
<1>1. KeysReturned'
    BY <1>0 DEF SessionsLinked, KeysReturned, Holding
<1>2. OneDevicePerKey'
    BY DEF SessionsLinked, OneDevicePerKey
<1>3. HandsMatch'
    BY DEF SessionsLinked, HandsMatch, Holding, Moving
<1>4. GoneIsFollowed'
    <2>1. NoAborts' => NoAborts
        BY DEF NoAborts
    <2>2. \A d \in Devices : Followed(d) => Followed(d)'
        BY DEF Followed
    <2> QED
        BY <2>1, <2>2 DEF SessionsLinked, GoneIsFollowed
<1> QED
    BY <1>1, <1>2, <1>3, <1>4 DEF SessionsLinked

LEMMA StepSessionsLinked ==
    ASSUME Types, TokensUsed, SessionsLinked, NEW r \in Requests, Step(r) \/ Abort(r)
    PROVE  SessionsLinked'
<1>0. /\ \A d \in Devices : device[d] # None => device[d].rid \in Requests
      /\ \A x \in Requests : \A f \in task[x].found : f.rid \in Requests /\ f.dev \in Devices
      /\ \A x \in Requests : Holding(x) => task[x].rid \in Requests
      /\ \A x \in Requests : task[x].op = "refresh" => task[x].old \in Requests
    BY TypesSplit DEF StoreTyped, Info, Typed, Holding, Task
<1>1. pc[r] \in Active /\ pc[r] # "done" /\ pc[r] # "aborted" /\ Alone(r)
    BY StepFrame, LabelsApart DEF Ended
<1>2. \A k \in Requests : pc[k] = "done" => k # r /\ pc'[k] = "done"
    BY <1>1 DEF Alone
\* A device entry stays, goes, or is the new one of r.
<1>3. ASSUME NEW d \in Devices, device'[d] # None
      PROVE  \/ device'[d] = device[d] /\ device[d].rid # r
             \/ /\ pc[r] = "set_device" /\ pc'[r] = "done" /\ d = task[r].dev
                /\ device'[d].rid = r /\ refresh' = refresh
    <2>1. device'[d] = device[d] => device[d].rid # r
        BY <1>1, <1>3 DEF SessionsLinked, KeysReturned
    <2>2. \/ device'[d] = device[d]
          \/ /\ pc[r] = "set_device" /\ pc'[r] = "done" /\ d = task[r].dev
             /\ device'[d].rid = r
        BY <1>3, DeviceMoves
    <2>3. device'[d] # device[d] => refresh' = refresh
        BY DeviceMoves
    <2> QED
        BY <2>1, <2>2, <2>3
\* The key of a request that is under way is written by nobody else.
<1>4. ASSUME NEW k \in Requests, pc[k] # "done", k # r
      PROVE  refresh'[k] = refresh[k]
    BY <1>4, RefreshMoves DEF SessionsLinked, KeysReturned, Holding, TokensUsed
<1>5. KeysReturned'
    <2>1. ASSUME NEW d \in Devices, device'[d] # None PROVE pc'[device'[d].rid] = "done"
        BY <1>0, <1>2, <1>3, <2>1 DEF SessionsLinked, KeysReturned
    <2>2. ASSUME NEW x \in Requests, NEW f \in task'[x].found PROVE pc'[f.rid] = "done"
        <3>1. CASE f \in task[x].found
            BY <1>0, <1>2, <3>1 DEF SessionsLinked, KeysReturned
        <3>2. CASE f \notin task[x].found
            <4>1. x = r
                BY <1>1, <2>2, <3>2 DEF Alone
            <4>2. f.dev \in Devices /\ device[f.dev] # None /\ f.rid = device[f.dev].rid
                BY <2>2, <3>2, <4>1, HandMoves
            <4> QED
                BY <1>0, <1>2, <4>2 DEF SessionsLinked, KeysReturned
        <3> QED
            BY <3>1, <3>2
    <2>3. ASSUME NEW x \in Requests, Holding(x)' PROVE pc'[task'[x].rid] = "done"
        <3>1. CASE x # r
            BY <1>0, <1>1, <1>2, <2>3, <3>1 DEF SessionsLinked, KeysReturned, Alone, Holding
        <3>2. CASE x = r
            <4>1. \/ /\ device[task'[r].cur] # None /\ task'[r].cur \in Devices
                     /\ task'[r].rid = device[task'[r].cur].rid
                  \/ \E f \in task[r].found : task'[r].cur = f.dev /\ task'[r].rid = f.rid
                BY <2>3, <3>2, HandMoves DEF Holding
            <4> QED
                BY <1>0, <1>2, <3>2, <4>1 DEF SessionsLinked, KeysReturned
        <3> QED
            BY <3>1, <3>2
    <2> QED
        BY <2>1, <2>2, <2>3 DEF KeysReturned
<1>6. OneDevicePerKey'
    <2>1. ASSUME NEW d \in Devices, NEW e \in Devices, device'[d] # None, device'[e] # None,
                 device'[d].rid = device'[e].rid
          PROVE  d = e
        BY <1>3, <2>1 DEF SessionsLinked, OneDevicePerKey
    <2>2. ASSUME NEW d \in Devices, device'[d] # None, refresh'[device'[d].rid] # None
          PROVE  refresh'[device'[d].rid] = d
        <3>1. CASE device'[d] = device[d] /\ device[d].rid # r
            <4>1. refresh'[device[d].rid] = refresh[device[d].rid]
                BY <1>0, <2>2, <3>1, RefreshMoves
            <4> QED
                BY <2>2, <3>1, <4>1 DEF SessionsLinked, OneDevicePerKey
        <3>2. CASE /\ pc[r] = "set_device" /\ d = task[r].dev
                   /\ device'[d].rid = r /\ refresh' = refresh
            BY <3>2 DEF SessionsLinked, HandsMatch, Moving
        <3> QED
            BY <1>3, <2>2, <3>1, <3>2
    <2> QED
        BY <2>1, <2>2 DEF OneDevicePerKey
<1>7. HandsMatch'
    <2>1. ASSUME NEW x \in Requests, NEW d \in Devices, device'[d] # None,
                 Holding(x)', task'[x].rid = device'[d].rid
          PROVE  task'[x].cur = d
        <3>1. CASE x # r
            <4>1. Holding(x) /\ task[x] = task'[x] /\ pc[task[x].rid] = "done"
                BY <1>1, <2>1, <3>1 DEF SessionsLinked, KeysReturned, Alone, Holding
            <4>2. device'[d] = device[d]
                BY <1>1, <1>3, <2>1, <4>1
            <4> QED
                BY <2>1, <4>1, <4>2 DEF SessionsLinked, HandsMatch
        <3>2. CASE x = r
            <4>1. /\ device' = device
                  /\ \/ /\ device[task'[r].cur] # None /\ task'[r].cur \in Devices
                        /\ task'[r].rid = device[task'[r].cur].rid
                     \/ \E f \in task[r].found : task'[r].cur = f.dev /\ task'[r].rid = f.rid
                BY <2>1, <3>2, HandMoves DEF Holding
            <4> QED
                BY <2>1, <3>2, <4>1 DEF SessionsLinked, HandsMatch, OneDevicePerKey
        <3> QED
            BY <3>1, <3>2
    <2>2. ASSUME NEW x \in Requests, NEW d \in Devices, device'[d] # None,
                 NEW f \in task'[x].found, f.rid = device'[d].rid
          PROVE  f.dev = d
        <3>1. CASE f \in task[x].found
            <4>1. pc[f.rid] = "done"
                BY <3>1 DEF SessionsLinked, KeysReturned
            <4>2. device'[d] = device[d]
                BY <1>1, <1>3, <2>2, <4>1
            <4> QED
                BY <2>2, <3>1, <4>2 DEF SessionsLinked, HandsMatch
        <3>2. CASE f \notin task[x].found
            <4>1. x = r
                BY <1>1, <2>2, <3>2 DEF Alone
            <4>2. /\ f.dev \in Devices /\ device[f.dev] # None /\ f.rid = device[f.dev].rid
                  /\ device' = device
                BY <2>2, <3>2, <4>1, HandMoves
            <4> QED
                BY <2>2, <4>2 DEF SessionsLinked, OneDevicePerKey
        <3> QED
            BY <3>1, <3>2
    <2>3. ASSUME NEW x \in Requests, NEW d \in Devices, device'[d] # None,
                 task'[x].op = "refresh", task'[x].old = device'[d].rid,
                 pc'[x] \in {"get_deny", "issue", "set_refresh", "del_old"}
          PROVE  task'[x].dev = d
        <3>1. task[x].op = "refresh" /\ task'[x].old = task[x].old
            BY <1>1, <2>3, StepFrame DEF Alone
        <3>2. pc[task[x].old] = "done"
            BY <3>1 DEF TokensUsed
        <3>3. device'[d] = device[d]
            BY <1>1, <1>3, <2>3, <3>1, <3>2
        <3>4. CASE x # r
            BY <1>1, <2>3, <3>3, <3>4 DEF SessionsLinked, HandsMatch, Alone
        <3>5. CASE x = r
            <4>1. device[d] # None /\ task[r].op = "refresh" /\ task[r].old = device[d].rid
                BY <2>3, <3>1, <3>3, <3>5
            <4>2. \/ /\ pc[r] \in {"get_deny", "issue", "set_refresh", "del_old"}
                     /\ task'[r].dev = task[r].dev
                  \/ task'[r].dev = refresh[task[r].old] /\ task'[r].dev # None
                BY <2>3, <3>5, ExchangeMoves
            <4>3. task[r].dev = d \/ pc[r] \notin {"get_deny", "issue", "set_refresh", "del_old"}
                BY <4>1 DEF SessionsLinked, HandsMatch
            <4>4. refresh[task[r].old] # None => refresh[task[r].old] = d
                BY <4>1 DEF SessionsLinked, OneDevicePerKey
            <4> QED
                BY <3>5, <4>2, <4>3, <4>4
        <3> QED
            BY <3>4, <3>5
    <2>4. ASSUME NEW x \in Requests, Moving(x)' PROVE refresh'[x] = task'[x].dev
        <3>1. CASE x # r
            <4>1. Moving(x) /\ task'[x] = task[x] /\ pc[x] # "done"
                BY <1>1, <2>4, <3>1 DEF Alone, Moving
            <4> QED
                BY <1>4, <3>1, <4>1 DEF SessionsLinked, HandsMatch
        <3>2. CASE x = r
            <4>1. CASE Moving(r) /\ task'[r].dev = task[r].dev
                <5>1. refresh'[r] = refresh[r]
                    BY <1>1, <4>1, RefreshMoves DEF Moving, TokensUsed
                <5> QED
                    BY <3>2, <4>1, <5>1 DEF SessionsLinked, HandsMatch
            <4>2. CASE ~ (Moving(r) /\ task'[r].dev = task[r].dev)
                BY <2>4, <3>2, <4>2, ExchangeMoves
            <4> QED
                BY <4>1, <4>2
        <3> QED
            BY <3>1, <3>2
    <2> QED
        BY <2>1, <2>2, <2>3, <2>4 DEF HandsMatch
<1>8. GoneIsFollowed'
    <2> SUFFICES ASSUME NoAborts', NEW d \in Devices, device'[d] # None,
                        refresh'[device'[d].rid] # d
                 PROVE  Followed(d)'
        BY DEF GoneIsFollowed
    <2>1. NoAborts /\ pc'[r] # "aborted"
        BY <1>1 DEF NoAborts, Alone
    <2>2. device'[d] = device[d] /\ device[d].rid # r
        <3>1. pc[r] = "set_device" => refresh[r] = task[r].dev
            BY DEF SessionsLinked, HandsMatch, Moving
        <3> QED
            BY <1>3, <3>1
    <2>3. CASE refresh[device[d].rid] = d
        <3> DEFINE k == device[d].rid
        <3>1. k \in Requests /\ refresh'[k] # refresh[k] /\ k # r
            BY <1>0, <2>2, <2>3
        <3> HIDE DEF k
        <3>2. CASE /\ k = task[r].rid
                   /\ pc[r] \in {"del_refresh", "evict_refresh"}
                   /\ pc'[r] \in {"del_device", "evict_device"} /\ task'[r].cur = task[r].cur
            BY <2>2, <3>2 DEF SessionsLinked, HandsMatch, Holding, Followed, k
        <3>3. CASE /\ k = task[r].old /\ pc[r] = "del_old" /\ task[r].op = "refresh"
                   /\ pc'[r] = "get_device" /\ task'[r].dev = task[r].dev
            BY <2>2, <3>3 DEF SessionsLinked, HandsMatch, Followed, k
        <3> QED
            BY <3>1, <3>2, <3>3, RefreshMoves
    <2>4. CASE refresh[device[d].rid] # d
        <3>1. PICK x \in Requests :
                 \/ pc[x] \in {"del_device", "evict_device"} /\ task[x].cur = d
                 \/ pc[x] \in {"get_device", "set_device"} /\ task[x].dev = d
            BY <2>1, <2>2, <2>4 DEF SessionsLinked, GoneIsFollowed, Followed
        <3>2. CASE x # r
            BY <1>1, <3>1, <3>2 DEF Alone, Followed
        <3>3. CASE x = r
            <4>1. pc'[r] = "set_device" /\ task'[r].dev = d
                BY <2>1, <2>2, <3>1, <3>3, DeviceMoves
            <4> QED
                BY <4>1 DEF Followed
        <3> QED
            BY <3>2, <3>3
    <2> QED
        BY <2>3, <2>4
<1> QED
    BY <1>5, <1>6, <1>7, <1>8 DEF SessionsLinked

LEMMA NextSessionsLinked == Types /\ TokensUsed /\ SessionsLinked /\ [Next]_vars => SessionsLinked'
<1> SUFFICES ASSUME Types, TokensUsed, SessionsLinked, [Next]_vars PROVE SessionsLinked'
    OBVIOUS
<1>1. CASE UNCHANGED vars \/ Tick
    <2>1. device' = device /\ refresh' = refresh /\ pc' = pc /\ task' = task
        BY <1>1 DEF vars, store, Tick
    <2> QED
        BY <2>1, QuietSessionsLinked
<1>2. ASSUME NEW r \in Requests, BeginAny(r) PROVE SessionsLinked'
    <2>1. /\ device' = device /\ refresh' = refresh
          /\ pc[r] = "idle" /\ task'[r].found = {}
          /\ pc'[r] \in {"get", "scan", "get_refresh", "del_deny", "stamp"}
        BY <1>2, BeginFrame DEF store
    <2>2. Alone(r)
        BY <1>2, BeginFrame
    <2> QED
        BY <2>1, <2>2, QuietSessionsLinked DEF Alone
<1> QED
    BY <1>1, <1>2, StepSessionsLinked DEF Next

\* Refresh keys, device entries and what the requests in flight hold of them.
THEOREM SpecSessionsLinked == Spec => []SessionsLinked
BY InitTypes, NextTypes, InitTokensUsed, NextTokensUsed, InitSessionsLinked, NextSessionsLinked,
   PTL DEF Spec

\* Whenever nothing is running, and no handler was dropped, every device entry
\* leads to a live refresh key, however the requests before met.
THEOREM SpecDeviceLeadsToSession == Spec => []DeviceLeadsToSession
<1>1. Types /\ SessionsLinked => DeviceLeadsToSession
    BY DEF SessionsLinked, GoneIsFollowed, Followed, DeviceLeadsToSession, Quiet, Active,
           SweepSteps, PolicySteps, IssueSteps
<1> QED
    BY SpecTypes, SpecSessionsLinked, <1>1, PTL

-----------------------------------------------------------------------------
(* One request at a time.  The device list is the list of the sessions.    *)

AtMostOne == \A r, q \in Requests : pc[r] \in Active /\ pc[q] \in Active => r = q

\* The devices that the sweep of r is to remove.
Clearing == {"logout_all", "ban", "disable", "disable_revoke"}
Swept(r, d) == task[r].op \in Clearing \/ (task[r].op = "login" /\ task[r].dev = d)

\* What a request is about to remove is what it has read, and the key goes
\* before the device; what it has not visited is still on its list.
SweepKnows(r) ==
    /\ pc[r] \in {"del_refresh", "evict_refresh"} =>
         device[task[r].cur] # None /\ device[task[r].cur].rid = task[r].rid
    /\ pc[r] \in {"del_device", "evict_device"} /\ device[task[r].cur] # None =>
         refresh[device[task[r].cur].rid] = None
    /\ pc[r] \in {"get", "del_refresh", "del_device"} =>
         \A d \in Present : Swept(r, d) => d \in task[r].todo
    /\ pc[r] \in PolicySteps \cup IssueSteps \cup DenySteps => \A d \in Present : ~ Swept(r, d)

Entry(d) == [dev |-> d, rid |-> device[d].rid, time |-> device[d].time]

\* What the policy has found are entries as they stand; it has them all, but
\* for those it has still to read and the one it is removing. Before that it
\* has found nothing.
Unread(r) == CASE pc[r] = "read"                            -> task[r].todo
               [] pc[r] \in {"evict_refresh", "evict_device"} -> {task[r].cur}
               [] OTHER                                      -> {}
PolicyKnows(r) ==
    /\ pc[r] \in SweepSteps \cup DenySteps \cup {"count"} => task[r].found = {}
    /\ pc[r] \in {"read", "evict", "evict_refresh", "evict_device"} =>
         /\ \A v \in task[r].found : v.dev \in Present \ Unread(r) /\ v = Entry(v.dev)
         /\ \A d \in Present \ Unread(r) : Entry(d) \in task[r].found

\* A login that is let through has room for its device, a refresh has one.
IssueKnows(r) ==
    /\ pc[r] \in IssueSteps /\ task[r].op = "login" /\ MaxDevices > 0 =>
         Cardinality(Present) < MaxDevices
    /\ pc[r] \in {"get_deny", "issue", "set_refresh", "del_old"} /\ task[r].op = "refresh" =>
         refresh[task[r].old] = task[r].dev
    /\ pc[r] = "set_device" /\ task[r].op = "refresh" => device[task[r].dev] # None
    /\ NoAborts /\ pc[r] \in {"get_device", "set_device"} /\ task[r].op = "refresh" =>
         device[task[r].dev] # None /\ device[task[r].dev].rid = task[r].old

\* A live refresh key is the one its device names, or is about to be.
Shown(q) == refresh[q] # None => device[refresh[q]] # None /\ device[refresh[q]].rid = q
Entering(q) == Moving(q) /\ refresh[q] = task[q].dev
AllShown == NoAborts => \A q \in Requests : Shown(q) \/ Entering(q)

Knows(r) == pc[r] \in Active => SweepKnows(r) /\ PolicyKnows(r) /\ IssueKnows(r)

SerialInv == /\ AtMostOne /\ DevicesBounded /\ AllShown /\ RevocationClearsSessions
             /\ \A r \in Requests : Knows(r)

\* Where an operation has a place.
LEMMA OpsHere ==
    ASSUME Types, NEW r \in Requests, pc[r] \in Active
    PROVE  /\ pc[r] \in SweepSteps => task[r].op # "refresh"
           /\ pc[r] \in PolicySteps => task[r].op = "login" /\ MaxDevices > 0
           /\ pc[r] \in IssueSteps => task[r].op \in {"login", "refresh"}
           /\ pc[r] \in CheckSteps \cup {"del_old", "get_device"} => task[r].op = "refresh"
           /\ pc[r] \in DenySteps => task[r].op \notin {"login", "refresh"}
           /\ task[r].op \in Operations
<1>1. pc[r] \in Labels(task[r].op) /\ task[r].op \in Operations
    BY TypesSplit DEF Typed, Task
<1> QED
    BY <1>1 DEF Labels, Operations, SweepSteps, PolicySteps, IssueSteps, CheckSteps, DenySteps

\* What the steps find in the locals and in the store.
LEMMA Locals ==
    ASSUME Types, NEW r \in Requests
    PROVE  /\ task \in [Requests -> Task] /\ task[r] \in Task
           /\ pc \in [Requests -> {"idle"} \cup Active \cup Ended]
           /\ refresh \in [Requests -> Devices \cup {None}]
           /\ device \in [Devices -> Info \cup {None}]
           /\ \A d \in Devices : device[d] # None => device[d].rid \in Requests
           /\ None \notin Requests /\ None \notin Devices
           /\ IsFiniteSet(Present) /\ Cardinality(Present) \in Nat /\ Present \subseteq Devices
<1>1. Present \subseteq Devices
    BY DEF Present
<1>2. IsFiniteSet(Present) /\ Cardinality(Present) \in Nat
    BY <1>1, SessionAssumption, FS_Subset, FS_CardinalityType
<1> QED
    BY <1>1, <1>2, TypesSplit, SessionAssumption DEF StoreTyped, Info

\* An entry goes when its request deletes it, and is written at the end of a
\* login or a refresh.
LEMMA EntryMoves ==
    ASSUME Types, NEW r \in Requests, Step(r) \/ Abort(r), NEW d \in Devices
    PROVE  \/ device'[d] = device[d]
           \/ device'[d] = None /\ pc[r] \in {"del_device", "evict_device"} /\ d = task[r].cur
           \/ /\ pc[r] = "set_device" /\ pc'[r] = "done" /\ d = task[r].dev
              /\ device'[d] # None /\ device'[d].rid = r /\ refresh' = refresh
<1>0. /\ pc \in [Requests -> {"idle"} \cup Active \cup Ended]
      /\ device \in [Devices -> Info \cup {None}]
    BY Locals
<1> USE <1>0 DEF Goto, Return, store
<1>1. CASE Sweep(r)
    BY <1>1 DEF Sweep, Scan, SweepGet, SweepDelRefresh, SweepDelDevice
<1>2. CASE DevicePolicy(r)
    BY <1>2 DEF DevicePolicy, CountDevices, ReadDevice, PickVictim, EnoughEvicted,
                EvictRefresh, EvictDevice
<1>3. CASE GetRefreshKey(r) \/ CheckBanned(r)
    BY <1>3 DEF GetRefreshKey, CheckBanned
<1>4. CASE Issue(r) \/ SetRefresh(r) \/ DelOldRefresh(r) \/ GetDevice(r)
    BY <1>4 DEF Issue, SetRefresh, DelOldRefresh, GetDevice
<1>5. CASE SetDevice(r)
    <2>1. pc[r] = "set_device" /\ task[r].at \in Second0
        BY <1>5, Locals DEF SetDevice, Task
    <2>2. [rid |-> r, time |-> task[r].at] # None
        BY <2>1, SessionAssumption DEF Second0
    <2> QED
        BY <1>5, <2>1, <2>2 DEF SetDevice
<1>6. CASE WriteDeny(r)
    BY <1>6 DEF WriteDeny, Stamp, SetDeny, SetBanned, DelDeny
<1>7. CASE Abort(r)
    BY <1>7 DEF Abort
<1> QED
    BY <1>1, <1>2, <1>3, <1>4, <1>5, <1>6, <1>7 DEF Step, IssueTokens

-----------------------------------------------------------------------------
(* What a request knows after each of its steps.                           *)

LEMMA ScanKnows ==
    ASSUME Types, NEW r \in Requests, Knows(r), pc[r] \in Active, Scan(r)
    PROVE  Knows(r)'
<1>1. /\ pc[r] = "scan" /\ task[r].found = {} /\ device' = device
      /\ task' = [task EXCEPT ![r].todo = Present]
    BY DEF Scan, Knows, PolicyKnows, SweepSteps, store
<1>2. /\ task'[r].todo = Present /\ task'[r].op = task[r].op /\ task'[r].found = {}
      /\ Present' = Present
    <2>1. Present' = Present
        BY <1>1 DEF Present
    <2> QED
        BY <1>1, <2>1, Locals DEF Task
<1>3. CASE Present = {} /\ pc'[r] = AfterSweep(task[r].op)
    <2>1. pc'[r] \in {"count", "issue", "set_banned", "stamp"}
            /\ (pc'[r] = "issue" => task[r].op = "login" /\ ~ (MaxDevices > 0))
        BY <1>3 DEF AfterSweep
    <2> QED
        BY <1>2, <1>3, <2>1
        DEF Knows, SweepKnows, PolicyKnows, IssueKnows, SweepSteps, PolicySteps, IssueSteps, DenySteps
<1>4. CASE pc'[r] = "get"
    BY <1>2, <1>4
    DEF Knows, SweepKnows, PolicyKnows, IssueKnows, SweepSteps, PolicySteps, IssueSteps, DenySteps
<1> QED
    BY <1>3, <1>4, Locals DEF Scan, Goto

LEMMA SweepGetKnows ==
    ASSUME Types, NEW r \in Requests, Knows(r), pc[r] \in Active, SweepGet(r)
    PROVE  Knows(r)'
<1>1. /\ pc[r] = "get" /\ task[r].found = {} /\ device' = device
      /\ \A d \in Present : Swept(r, d) => d \in task[r].todo
    BY DEF SweepGet, Knows, PolicyKnows, SweepKnows, SweepSteps, store
<1>2. PICK d \in task[r].todo :
         IF device[d] = None
         THEN /\ task' = [task EXCEPT ![r].cur = d]
              /\ Goto(r, "del_device")
         ELSE /\ task' = [task EXCEPT ![r].cur = d, ![r].rid = device[d].rid]
              /\ Goto(r, "del_refresh")
    BY DEF SweepGet
<1>3. /\ task'[r].cur = d /\ task'[r].todo = task[r].todo /\ task'[r].op = task[r].op
      /\ task'[r].dev = task[r].dev /\ task'[r].found = {}
      /\ device[d] # None => task'[r].rid = device[d].rid
    BY <1>1, <1>2, Locals DEF Task
<1>4. /\ device[d] = None => pc'[r] = "del_device"
      /\ device[d] # None => pc'[r] = "del_refresh"
    BY <1>2, Locals DEF Goto
<1>5. \A e \in Present' : Swept(r, e)' => e \in task'[r].todo
    BY <1>1, <1>3 DEF Present, Swept
<1> QED
    BY <1>1, <1>3, <1>4, <1>5
    DEF Knows, SweepKnows, PolicyKnows, IssueKnows, SweepSteps, PolicySteps, IssueSteps, DenySteps

\* The key goes first.
LEMMA DelRefreshKnows ==
    ASSUME Types, NEW r \in Requests, Knows(r), pc[r] \in Active,
           SweepDelRefresh(r) \/ EvictRefresh(r)
    PROVE  Knows(r)'
<1>1. /\ device[task[r].cur] # None /\ device[task[r].cur].rid = task[r].rid
      /\ refresh' = [refresh EXCEPT ![task[r].rid] = None] /\ task' = task /\ device' = device
    BY DEF SweepDelRefresh, EvictRefresh, Knows, SweepKnows
<1>2. task[r].rid \in Requests
    BY TypesSplit DEF Typed, SweepDelRefresh, EvictRefresh
<1>3. refresh'[device'[task'[r].cur].rid] = None
    BY <1>1, <1>2, Locals
<1>4. Present' = Present /\ (\A d : Swept(r, d)' = Swept(r, d)) /\ (\A d : Entry(d)' = Entry(d))
    BY <1>1 DEF Present, Swept, Entry
<1>5. CASE SweepDelRefresh(r)
    <2>1. pc[r] = "del_refresh" /\ pc'[r] = "del_device"
        BY <1>5, Locals DEF SweepDelRefresh, Goto
    <2> QED
        BY <1>1, <1>3, <1>4, <2>1
        DEF Knows, SweepKnows, PolicyKnows, IssueKnows, SweepSteps, PolicySteps, IssueSteps, DenySteps
<1>6. CASE EvictRefresh(r)
    <2>1. pc[r] = "evict_refresh" /\ pc'[r] = "evict_device" /\ Unread(r)' = Unread(r)
        BY <1>1, <1>6, Locals DEF EvictRefresh, Goto, Unread
    <2>2. SweepKnows(r)'
        BY <1>1, <1>3, <1>4, <2>1
        DEF Knows, SweepKnows, SweepSteps, PolicySteps, IssueSteps, DenySteps
    <2>3. PolicyKnows(r)'
        BY <1>1, <1>4, <2>1
        DEF Knows, PolicyKnows, SweepSteps, DenySteps, Entry
    <2> QED
        BY <2>1, <2>2, <2>3 DEF Knows, IssueKnows, IssueSteps
<1> QED
    BY <1>5, <1>6

LEMMA DelDeviceKnows ==
    ASSUME Types, NEW r \in Requests, Knows(r), pc[r] \in Active, SweepDelDevice(r)
    PROVE  Knows(r)'
<1> DEFINE left == task[r].todo \ {task[r].cur}
<1>1. /\ pc[r] = "del_device" /\ task[r].found = {}
      /\ \A d \in Present : Swept(r, d) => d \in task[r].todo
      /\ task' = [task EXCEPT ![r].todo = left, ![r].cur = None, ![r].rid = None]
      /\ device' = [device EXCEPT ![task[r].cur] = None]
    BY DEF SweepDelDevice, Knows, PolicyKnows, SweepKnows, SweepSteps
<1>2. /\ task'[r].todo = left /\ task'[r].op = task[r].op /\ task'[r].dev = task[r].dev
      /\ task'[r].found = {}
    BY <1>1, Locals DEF Task
<1>3. Present' \subseteq Present \ {task[r].cur}
    BY <1>1, Locals DEF Present
<1>4. \A d \in Present' : Swept(r, d)' => d \in left
    BY <1>1, <1>2, <1>3 DEF Swept
<1>5. CASE left = {} /\ pc'[r] = AfterSweep(task[r].op)
    <2>1. pc'[r] \in {"count", "issue", "set_banned", "stamp"}
            /\ (pc'[r] = "issue" => task[r].op = "login" /\ ~ (MaxDevices > 0))
        BY <1>5 DEF AfterSweep
    <2> QED
        BY <1>2, <1>4, <1>5, <2>1
        DEF Knows, SweepKnows, PolicyKnows, IssueKnows, SweepSteps, PolicySteps, IssueSteps, DenySteps
<1>6. CASE pc'[r] = "get"
    BY <1>2, <1>4, <1>6
    DEF Knows, SweepKnows, PolicyKnows, IssueKnows, SweepSteps, PolicySteps, IssueSteps, DenySteps
<1> QED
    BY <1>5, <1>6, Locals DEF SweepDelDevice, Goto

LEMMA CountKnows ==
    ASSUME Types, NEW r \in Requests, Knows(r), pc[r] \in Active, CountDevices(r)
    PROVE  Knows(r)'
<1>1. /\ pc[r] = "count" /\ task[r].found = {} /\ device' = device
      /\ \A d \in Present : ~ Swept(r, d)
    BY DEF CountDevices, Knows, PolicyKnows, SweepKnows, PolicySteps, store
<1>2. Present' = Present /\ Cardinality(Present) \in Nat /\ MaxDevices \in Nat
    BY <1>1, Locals, SessionAssumption DEF Present
<1>3. CASE task' = [task EXCEPT ![r].todo = Present] /\ pc'[r] = "read"
    <2>1. /\ task'[r].todo = Present /\ task'[r].op = task[r].op /\ task'[r].dev = task[r].dev
          /\ task'[r].found = {} /\ Unread(r)' = Present
        BY <1>1, <1>3, Locals DEF Task, Unread
    <2>2. \A d \in Present' : ~ Swept(r, d)'
        BY <1>1, <1>2, <2>1 DEF Swept
    <2> QED
        BY <1>2, <1>3, <2>1, <2>2
        DEF Knows, SweepKnows, PolicyKnows, IssueKnows, SweepSteps, PolicySteps, IssueSteps, DenySteps
<1>4. CASE task' = task /\ pc'[r] = "issue" /\ ~ (Cardinality(Present) >= MaxDevices)
    <2>1. \A d \in Present' : ~ Swept(r, d)'
        BY <1>1, <1>2, <1>4 DEF Swept
    <2>2. task[r].op = "login" /\ Cardinality(Present') < MaxDevices
        BY <1>1, <1>2, <1>4, OpsHere DEF PolicySteps
    <2> QED
        BY <1>1, <1>2, <1>4, <2>1, <2>2
        DEF Knows, SweepKnows, PolicyKnows, IssueKnows, SweepSteps, PolicySteps, IssueSteps, DenySteps
<1> QED
    BY <1>3, <1>4, Locals DEF CountDevices, Goto

LEMMA ReadKnows ==
    ASSUME Types, NEW r \in Requests, Knows(r), pc[r] \in Active, ReadDevice(r)
    PROVE  Knows(r)'
<1>1. /\ pc[r] = "read" /\ device' = device /\ Unread(r) = task[r].todo
      /\ \A d \in Present : ~ Swept(r, d)
      /\ \A v \in task[r].found : v.dev \in Present \ task[r].todo /\ v = Entry(v.dev)
      /\ \A d \in Present \ task[r].todo : Entry(d) \in task[r].found
    BY DEF ReadDevice, Knows, PolicyKnows, SweepKnows, PolicySteps, store, Unread
<1>2. PICK d \in task[r].todo :
         task' = [task EXCEPT
           ![r].todo  = @ \ {d},
           ![r].found = @ \cup IF device[d] = None THEN {}
                               ELSE {[dev |-> d, rid |-> device[d].rid, time |-> device[d].time]}]
    BY DEF ReadDevice
<1>3. /\ task'[r].todo = task[r].todo \ {d}
      /\ task'[r].found = task[r].found \cup IF device[d] = None THEN {} ELSE {Entry(d)}
      /\ task'[r].op = task[r].op /\ task'[r].dev = task[r].dev
    BY <1>2, Locals DEF Task, Entry
<1>4. d \in Devices /\ task[r].todo \subseteq Devices
    BY <1>2, Locals DEF Task
<1>5. /\ Present' = Present /\ (\A e : Entry(e)' = Entry(e)) /\ Entry(d).dev = d
      /\ (d \in Present <=> device[d] # None)
    BY <1>1, <1>4 DEF Present, Entry
<1>6. pc'[r] = "read" \/ (pc'[r] = "evict" /\ task'[r].todo = {})
    <2>1. pc'[r] = IF Cardinality(task[r].todo) > 1 THEN "read" ELSE "evict"
        BY Locals DEF ReadDevice, Goto
    <2>2. IsFiniteSet(task[r].todo)
        BY <1>4, SessionAssumption, FS_Subset
    <2>3. Cardinality(task[r].todo \ {d}) = Cardinality(task[r].todo) - 1
            /\ IsFiniteSet(task[r].todo \ {d})
        BY <1>2, <2>2, FS_RemoveElement
    <2>4. Cardinality(task[r].todo) \in Nat /\ Cardinality(task[r].todo \ {d}) \in Nat
        BY <2>2, <2>3, FS_CardinalityType
    <2>5. Cardinality(task[r].todo) <= 1 => Cardinality(task[r].todo \ {d}) = 0
        BY <2>3, <2>4
    <2>6. Cardinality(task[r].todo) <= 1 => task[r].todo \ {d} = {}
        BY <2>3, <2>5, FS_EmptySet
    <2> QED
        BY <1>3, <2>1, <2>4, <2>6
<1>7. Unread(r)' = task[r].todo \ {d}
    BY <1>3, <1>6 DEF Unread
<1>8. ASSUME NEW v \in task'[r].found PROVE v.dev \in Present \ Unread(r)' /\ v = Entry(v.dev)
    BY <1>1, <1>2, <1>3, <1>5, <1>7, <1>8
<1>9. ASSUME NEW e \in Present \ Unread(r)' PROVE Entry(e) \in task'[r].found
    BY <1>1, <1>3, <1>5, <1>7, <1>9
<1>10. \A e \in Present' : ~ Swept(r, e)'
    BY <1>1, <1>3, <1>5 DEF Swept
<1>11. SweepKnows(r)'
    BY <1>6, <1>10 DEF SweepKnows
<1>12. PolicyKnows(r)'
    BY <1>5, <1>6, <1>8, <1>9 DEF PolicyKnows, SweepSteps, DenySteps, Entry
<1> QED
    BY <1>6, <1>11, <1>12 DEF Knows, IssueKnows, IssueSteps

LEMMA PickKnows ==
    ASSUME Types, NEW r \in Requests, Knows(r), pc[r] \in Active, PickVictim(r)
    PROVE  Knows(r)'
<1>1. /\ pc[r] = "evict" /\ device' = device /\ Unread(r) = {}
      /\ \A d \in Present : ~ Swept(r, d)
      /\ \A v \in task[r].found : v.dev \in Present /\ v = Entry(v.dev)
      /\ \A d \in Present : Entry(d) \in task[r].found
    BY DEF PickVictim, Knows, PolicyKnows, SweepKnows, PolicySteps, store, Unread
<1>2. PICK v \in task[r].found :
         task' = [task EXCEPT ![r].cur = v.dev, ![r].rid = v.rid, ![r].found = @ \ {v}]
    BY DEF PickVictim
<1>3. /\ task'[r].cur = v.dev /\ task'[r].rid = v.rid /\ task'[r].found = task[r].found \ {v}
      /\ task'[r].op = task[r].op /\ task'[r].dev = task[r].dev
    BY <1>2, Locals DEF Task
<1>4. pc'[r] = "evict_refresh"
    BY Locals DEF PickVictim, Goto
<1>5. /\ Present' = Present /\ (\A e : Entry(e)' = Entry(e))
      /\ \A e : Entry(e).dev = e /\ Entry(e).rid = device[e].rid
    BY <1>1 DEF Present, Entry
<1>6. Unread(r)' = {v.dev}
    BY <1>3, <1>4 DEF Unread
<1>7. device[v.dev] # None /\ device[v.dev].rid = v.rid
    BY <1>1, <1>2, <1>5 DEF Present
<1>8. \A w \in task'[r].found : w.dev \in Present \ {v.dev} /\ w = Entry(w.dev)
    BY <1>1, <1>2, <1>3
<1>9. \A e \in Present \ {v.dev} : Entry(e) \in task'[r].found
    BY <1>1, <1>3, <1>5
<1>10. \A e \in Present' : ~ Swept(r, e)'
    BY <1>1, <1>3, <1>5 DEF Swept
<1>11. SweepKnows(r)'
    BY <1>1, <1>3, <1>4, <1>7, <1>10 DEF SweepKnows
<1>12. PolicyKnows(r)'
    BY <1>4, <1>5, <1>6, <1>8, <1>9 DEF PolicyKnows, SweepSteps, DenySteps, Entry
<1> QED
    BY <1>4, <1>11, <1>12 DEF Knows, IssueKnows, IssueSteps

\* As many devices as entries were found.
LEMMA EnoughKnows ==
    ASSUME Types, NEW r \in Requests, Knows(r), pc[r] \in Active, EnoughEvicted(r)
    PROVE  Knows(r)'
<1>1. /\ pc[r] = "evict" /\ device' = device /\ Unread(r) = {}
      /\ \A d \in Present : ~ Swept(r, d)
      /\ \A v \in task[r].found : v.dev \in Present /\ v = Entry(v.dev)
      /\ \A d \in Present : Entry(d) \in task[r].found
      /\ Cardinality(task[r].found) + 1 <= MaxDevices
      /\ task' = [task EXCEPT ![r].found = {}]
    BY DEF EnoughEvicted, Knows, PolicyKnows, SweepKnows, PolicySteps, store, Unread
<1>2. /\ task'[r].op = task[r].op /\ task'[r].dev = task[r].dev
    BY <1>1, Locals DEF Task
<1>3. pc'[r] = "issue" /\ Present' = Present
    BY <1>1, Locals DEF EnoughEvicted, Goto, Present
<1>4. Cardinality(Present) <= Cardinality(task[r].found) /\ Cardinality(task[r].found) \in Nat
    <2> DEFINE f == [d \in Present |-> Entry(d)]
    <2>1. \A e : Entry(e).dev = e
        BY DEF Entry
    <2>2. f \in [Present -> task[r].found] /\ \A d \in Present : f[d] = Entry(d)
        BY <1>1
    <2> HIDE DEF f
    <2>3. \A d, e \in Present : f[d] = f[e] => d = e
        BY <2>1, <2>2
    <2>4. \A v \in task[r].found : \E d \in Present : f[d] = v
        BY <1>1, <2>2
    <2>5. f \in Surjection(Present, task[r].found) /\ f \in Injection(Present, task[r].found)
        BY <2>2, <2>3, <2>4 DEF Injection, Surjection, IsInjective
    <2>6. Cardinality(task[r].found) = Cardinality(Present)
        BY <2>5, Locals, FS_Surjection
    <2> QED
        BY <2>6, Locals
<1>5. Cardinality(Present') < MaxDevices
    BY <1>1, <1>3, <1>4, Locals, SessionAssumption
<1>6. \A d \in Present' : ~ Swept(r, d)'
    BY <1>1, <1>2, <1>3 DEF Swept
<1>7. task[r].op = "login"
    BY <1>1, OpsHere DEF PolicySteps
<1> QED
    BY <1>2, <1>3, <1>5, <1>6, <1>7
    DEF Knows, SweepKnows, PolicyKnows, IssueKnows, SweepSteps, PolicySteps, IssueSteps, DenySteps

LEMMA EvictDeviceKnows ==
    ASSUME Types, NEW r \in Requests, Knows(r), pc[r] \in Active, EvictDevice(r)
    PROVE  Knows(r)'
<1>1. /\ pc[r] = "evict_device" /\ Unread(r) = {task[r].cur}
      /\ \A d \in Present : ~ Swept(r, d)
      /\ \A v \in task[r].found : v.dev \in Present \ {task[r].cur} /\ v = Entry(v.dev)
      /\ \A d \in Present \ {task[r].cur} : Entry(d) \in task[r].found
      /\ device' = [device EXCEPT ![task[r].cur] = None]
      /\ task' = [task EXCEPT ![r].cur = None, ![r].rid = None]
    BY DEF EvictDevice, Knows, PolicyKnows, SweepKnows, PolicySteps, Unread
<1>2. /\ task'[r].op = task[r].op /\ task'[r].dev = task[r].dev
      /\ task'[r].found = task[r].found
    BY <1>1, Locals DEF Task
<1>3. pc'[r] = "evict"
    BY Locals DEF EvictDevice, Goto
<1>4. Present' = Present \ {task[r].cur}
    BY <1>1, Locals DEF Present
<1>5. \A d \in Present' : Entry(d)' = Entry(d)
    BY <1>1, <1>4, Locals DEF Entry
<1>6. Unread(r)' = {}
    BY <1>3 DEF Unread
<1>7. \A d \in Present' : ~ Swept(r, d)'
    BY <1>1, <1>2, <1>4 DEF Swept
<1>8. \A v \in task'[r].found : v.dev \in Present' /\ v = Entry(v.dev)
    BY <1>1, <1>2, <1>4
<1>9. \A d \in Present' : Entry(d) \in task'[r].found
    BY <1>1, <1>2, <1>4
<1>10. SweepKnows(r)'
    BY <1>3, <1>7 DEF SweepKnows
<1>11. PolicyKnows(r)'
    <2>1. \A v \in task'[r].found : v.dev \in Present' \ Unread(r)' /\ v = Entry(v.dev)'
        BY <1>5, <1>6, <1>8 DEF Entry
    <2>2. \A d \in Present' \ Unread(r)' : Entry(d)' \in task'[r].found
        BY <1>5, <1>9
    <2> QED
        BY <1>3, <2>1, <2>2 DEF PolicyKnows, SweepSteps, DenySteps, Entry
<1> QED
    BY <1>3, <1>10, <1>11 DEF Knows, IssueKnows, IssueSteps

\* A refresh has read the device of its token.
LEMMA ChecksKnow ==
    ASSUME Types, NEW r \in Requests, Knows(r), pc[r] \in Active,
           GetRefreshKey(r) \/ CheckBanned(r)
    PROVE  Knows(r)'
<1>1. task[r].op = "refresh" /\ UNCHANGED <<refresh, device>>
    BY OpsHere DEF GetRefreshKey, CheckBanned, CheckSteps, store
<1>2. ASSUME NEW label \in Ended, Return(r, label) PROVE pc'[r] \notin Active
    BY <1>2, Locals, LabelsApart DEF Return, Goto
<1>3. CASE /\ pc'[r] = "get_deny"
           /\ task' = [task EXCEPT ![r].dev = refresh[task[r].old]]
    <2>1. /\ task'[r].op = "refresh" /\ task'[r].old = task[r].old
          /\ task'[r].dev = refresh[task[r].old]
        BY <1>1, <1>3, Locals DEF Task
    <2> QED
        BY <1>1, <1>3, <2>1
        DEF Knows, SweepKnows, PolicyKnows, IssueKnows, SweepSteps, PolicySteps, IssueSteps, DenySteps
<1>4. CASE pc[r] = "get_deny" /\ pc'[r] = "issue" /\ task' = task
    <2>1. refresh[task[r].old] = task[r].dev
        BY <1>1, <1>4 DEF Knows, IssueKnows
    <2>2. \A d : ~ Swept(r, d)'
        BY <1>1, <1>4 DEF Swept, Clearing
    <2> QED
        BY <1>1, <1>4, <2>1, <2>2
        DEF Knows, SweepKnows, PolicyKnows, IssueKnows, SweepSteps, PolicySteps, IssueSteps, DenySteps
<1>5. "failed" \in Ended
    BY DEF Ended
<1> QED
    BY <1>2, <1>3, <1>4, <1>5, Locals DEF GetRefreshKey, CheckBanned, Goto, Knows

\* The key presented is the one its device names, until the new one takes over.
LEMMA IssueTokensKnow ==
    ASSUME Types, TokensUsed, AllShown, NEW r \in Requests, Knows(r), pc[r] \in Active,
           IssueTokens(r), NoAborts' => NoAborts
    PROVE  Knows(r)'
<1>1. /\ task[r].op \in {"login", "refresh"}
      /\ pc[r] \in {"del_old", "get_device"} => task[r].op = "refresh"
      /\ \A d \in Present : ~ Swept(r, d)
      /\ pc[r] \in IssueSteps
    BY OpsHere DEF IssueTokens, Issue, SetRefresh, DelOldRefresh, GetDevice, SetDevice,
                   IssueSteps, Knows, SweepKnows
<1>2. task[r].op = "refresh" =>
        /\ task[r].old \in Requests /\ task[r].old # r /\ pc[task[r].old] = "done"
    BY TypesSplit, LabelsApart DEF Typed, TokensUsed, Ended
<1>3. ASSUME Return(r, "done") PROVE pc'[r] \notin Active
    BY <1>3, Locals, LabelsApart DEF Return, Goto, Ended
<1>4. CASE Issue(r)
    <2>1. /\ task'[r].op = task[r].op /\ task'[r].old = task[r].old /\ task'[r].dev = task[r].dev
          /\ pc[r] = "issue" /\ pc'[r] = "set_refresh" /\ UNCHANGED <<refresh, device>>
        BY <1>4, Locals DEF Issue, Task, Goto, store
    <2>2. Present' = Present /\ \A d \in Present' : ~ Swept(r, d)'
        BY <1>1, <2>1 DEF Present, Swept
    <2> QED
        BY <1>1, <2>1, <2>2
        DEF Knows, SweepKnows, PolicyKnows, IssueKnows, SweepSteps, PolicySteps, IssueSteps, DenySteps
<1>5. CASE SetRefresh(r)
    <2>1. /\ task'[r].op = task[r].op /\ task'[r].old = task[r].old /\ task'[r].dev = task[r].dev
          /\ pc[r] = "set_refresh" /\ device' = device
          /\ refresh' = [refresh EXCEPT ![r] = task[r].dev]
          /\ pc'[r] = IF task[r].op = "login" THEN "set_device" ELSE "del_old"
        BY <1>5, Locals DEF SetRefresh, Task, Goto
    <2>2. Present' = Present /\ \A d \in Present' : ~ Swept(r, d)'
        BY <1>1, <2>1 DEF Present, Swept
    <2>3. task[r].op = "refresh" => refresh'[task[r].old] = task[r].dev
        BY <1>2, <2>1, Locals DEF Knows, IssueKnows
    <2> QED
        BY <1>1, <2>1, <2>2, <2>3
        DEF Knows, SweepKnows, PolicyKnows, IssueKnows, SweepSteps, PolicySteps, IssueSteps, DenySteps
<1>6. CASE DelOldRefresh(r)
    <2>1. /\ task' = task /\ pc[r] = "del_old" /\ device' = device /\ pc'[r] = "get_device"
          /\ task[r].op = "refresh"
        BY <1>1, <1>6, Locals DEF DelOldRefresh, Goto
    <2>2. Present' = Present /\ \A d \in Present' : ~ Swept(r, d)'
        BY <1>1, <2>1 DEF Present, Swept
    <2>3. refresh[task[r].old] = task[r].dev /\ task[r].dev # None
        BY <2>1, Locals, TypesSplit DEF Knows, IssueKnows, Typed, IssueSteps
    <2>4. NoAborts => device[task[r].dev] # None /\ device[task[r].dev].rid = task[r].old
        <3>1. ~ Moving(task[r].old)
            BY <1>2, <2>1 DEF Moving
        <3> QED
            BY <1>2, <2>1, <2>3, <3>1 DEF AllShown, Entering, Shown
    <2> QED
        BY <2>1, <2>2, <2>4
        DEF Knows, SweepKnows, PolicyKnows, IssueKnows, SweepSteps, PolicySteps, IssueSteps, DenySteps
<1>7. CASE GetDevice(r)
    <2>1. pc[r] = "get_device" /\ task[r].op = "refresh" /\ device' = device
        BY <1>1, <1>7 DEF GetDevice, store
    <2>2. CASE /\ device[task[r].dev] # None /\ pc'[r] = "set_device"
               /\ task' = [task EXCEPT ![r].at = device[task[r].dev].time]
        <3>1. /\ task'[r].op = task[r].op /\ task'[r].old = task[r].old
              /\ task'[r].dev = task[r].dev
            BY <2>2, Locals DEF Task
        <3>2. Present' = Present /\ \A d \in Present' : ~ Swept(r, d)'
            BY <1>1, <2>1, <3>1 DEF Present, Swept
        <3> QED
            BY <2>1, <2>2, <3>1, <3>2
            DEF Knows, SweepKnows, PolicyKnows, IssueKnows, SweepSteps, PolicySteps, IssueSteps,
                DenySteps
    <2> QED
        BY <1>3, <1>7, <2>2, Locals DEF GetDevice, Goto, Knows
<1>8. CASE SetDevice(r)
    BY <1>3, <1>8 DEF SetDevice, Knows
<1> QED
    BY <1>4, <1>5, <1>6, <1>7, <1>8 DEF IssueTokens

LEMMA WriteDenyKnows ==
    ASSUME Types, NEW r \in Requests, Knows(r), pc[r] \in Active, WriteDeny(r)
    PROVE  Knows(r)'
<1>1. ASSUME Return(r, "done") PROVE pc'[r] \notin Active
    BY <1>1, Locals, LabelsApart DEF Return, Goto, Ended
<1>2. /\ \A d \in Present : ~ Swept(r, d)
      /\ task[r].found = {} /\ device' = device
    BY DEF WriteDeny, Stamp, SetDeny, SetBanned, DelDeny, DenySteps, Knows, SweepKnows, PolicyKnows,
           store
<1>3. CASE Stamp(r)
    <2>1. /\ task'[r].op = task[r].op /\ task'[r].dev = task[r].dev /\ task'[r].found = {}
          /\ pc'[r] = "set_deny"
        BY <1>2, <1>3, Locals DEF Stamp, Task, Goto
    <2>2. Present' = Present /\ \A d \in Present' : ~ Swept(r, d)'
        BY <1>2, <2>1 DEF Present, Swept
    <2> QED
        BY <2>1, <2>2
        DEF Knows, SweepKnows, PolicyKnows, IssueKnows, SweepSteps, PolicySteps, IssueSteps, DenySteps
<1>4. CASE pc'[r] = "scan" /\ task' = [task EXCEPT ![r].op = "disable_revoke"]
    <2>1. task'[r].found = {}
        BY <1>2, <1>4, Locals DEF Task
    <2> QED
        BY <1>4, <2>1
        DEF Knows, SweepKnows, PolicyKnows, IssueKnows, SweepSteps, PolicySteps, IssueSteps, DenySteps
<1>5. CASE SetBanned(r)
    BY <1>1, <1>4, <1>5, Locals DEF SetBanned, Goto, Knows
<1> QED
    BY <1>1, <1>3, <1>5 DEF WriteDeny, SetDeny, DelDeny, Knows

\* Whoever rests while a request runs goes on resting.
LEMMA OthersRest ==
    ASSUME AtMostOne, NEW r \in Requests, pc[r] \in Active, Alone(r), NEW q \in Requests, q # r
    PROVE  pc'[q] = pc[q] /\ pc[q] \notin Active /\ task'[q] = task[q] /\ ~ Moving(q)
<1>1. pc[q] \notin Active
    BY DEF AtMostOne
<1> QED
    BY <1>1 DEF Alone, Moving, Active, IssueSteps

LEMMA StepKnows ==
    ASSUME Types, TokensUsed, AtMostOne, AllShown, NEW r \in Requests, Knows(r),
           Step(r) \/ Abort(r), NoAborts' => NoAborts, NEW q \in Requests
    PROVE  Knows(q)'
<1>1. pc[r] \in Active /\ Alone(r)
    BY StepFrame
<1>2. CASE q # r
    BY <1>1, <1>2, OthersRest DEF Knows
<1>3. CASE q = r
    <2>1. CASE Sweep(r)
        BY <1>1, <1>3, <2>1, ScanKnows, SweepGetKnows, DelRefreshKnows, DelDeviceKnows DEF Sweep
    <2>2. CASE DevicePolicy(r)
        BY <1>1, <1>3, <2>2, CountKnows, ReadKnows, PickKnows, EnoughKnows, DelRefreshKnows,
           EvictDeviceKnows DEF DevicePolicy
    <2>3. CASE GetRefreshKey(r) \/ CheckBanned(r)
        BY <1>1, <1>3, <2>3, ChecksKnow
    <2>4. CASE IssueTokens(r)
        BY <1>1, <1>3, <2>4, IssueTokensKnow
    <2>5. CASE WriteDeny(r)
        BY <1>1, <1>3, <2>5, WriteDenyKnows
    <2>6. CASE Abort(r)
        BY <1>3, <2>6, Locals, LabelsApart DEF Abort, Return, Goto, Knows, Ended
    <2> QED
        BY <2>1, <2>2, <2>3, <2>4, <2>5, <2>6 DEF Step
<1> QED
    BY <1>2, <1>3

\* Nobody is running when a request begins.
LEMMA AloneAtStart ==
    ASSUME MaxActive <= 1, NEW r \in Requests, BeginAny(r), NEW q \in Requests
    PROVE  pc[q] \notin Active
<1> DEFINE running == {x \in Requests : pc[x] \in Active}
<1>1. Cardinality(running) < MaxActive
    BY DEF BeginAny, BeginLogin, BeginLogout, BeginLogoutAll, BeginRefresh, BeginBan,
           BeginUnban, BeginForceRefresh, BeginDisable, BeginEnable, Begin
<1>2. IsFiniteSet(running) /\ Cardinality(running) \in Nat
    BY SessionAssumption, FS_Subset, FS_CardinalityType
<1>3. running = {}
    BY <1>1, <1>2, SessionAssumption, FS_EmptySet
<1> QED
    BY <1>3

LEMMA BeginKnows ==
    ASSUME MaxActive <= 1, Types, NEW r \in Requests, BeginAny(r), NEW q \in Requests
    PROVE  Knows(q)' /\ (pc'[q] \in Active => q = r)
<1>1. /\ pc'[r] \in {"get", "scan", "get_refresh", "del_deny", "stamp"}
      /\ Alone(r) /\ task'[r].found = {} /\ UNCHANGED <<refresh, device>>
    BY BeginFrame DEF store
<1>2. CASE q # r
    <2>1. pc'[q] = pc[q] /\ pc[q] \notin Active
        BY <1>1, <1>2, AloneAtStart DEF Alone
    <2> QED
        BY <2>1 DEF Knows
<1>3. CASE q = r
    <2>1. pc'[r] = "get" => \A d \in Devices : Swept(r, d)' => d \in task'[r].todo
        <3>0. pc \in [Requests -> {"idle"} \cup Active \cup Ended]
                /\ task \in [Requests -> Task]
            BY Locals
        <3>1. CASE BeginLogin(r)
            <4>1. PICK d \in Devices :
                    Begin(r, "login", IF ConcurrentLogin THEN "get" ELSE "scan",
                          [Fresh("login") EXCEPT !.dev = d, !.perm = perms,
                                                 !.todo = IF ConcurrentLogin THEN {d} ELSE {}])
                BY <3>1 DEF BeginLogin
            <4> DEFINE t == [Fresh("login") EXCEPT !.dev = d, !.perm = perms,
                                                   !.todo = IF ConcurrentLogin THEN {d} ELSE {}]
            <4>2. t.op = "login" /\ t.dev = d /\ (ConcurrentLogin => t.todo = {d})
                BY DEF Fresh, NoTask
            <4> HIDE DEF t
            <4>3. task'[r] = t /\ pc'[r] = IF ConcurrentLogin THEN "get" ELSE "scan"
                BY <3>0, <4>1 DEF Begin, Goto, t
            <4> QED
                BY <4>2, <4>3 DEF Swept, Clearing
        <3>2. CASE BeginLogout(r)
            <4>1. PICK d \in Devices :
                     Begin(r, "logout", "get", [Fresh("logout") EXCEPT !.todo = {d}])
                BY <3>2 DEF BeginLogout
            <4>2. task'[r].op = "logout"
                BY <3>0, <4>1 DEF Begin, Fresh, NoTask
            <4> QED
                BY <4>2 DEF Swept, Clearing
        <3> QED
            BY <3>0, <3>1, <3>2 DEF BeginAny, BeginLogoutAll, BeginRefresh, BeginBan,
               BeginUnban, BeginForceRefresh, BeginDisable, BeginEnable, Begin, Goto
    <2>2. pc'[r] \in {"del_deny", "stamp"} => \A d \in Devices : ~ Swept(r, d)'
        <3>0. /\ task \in [Requests -> Task] /\ pc \in [Requests -> {"idle"} \cup Active \cup Ended]
            BY Locals
        <3>1. CASE BeginUnban(r) \/ BeginForceRefresh(r) \/ BeginEnable(r)
            <4>1. task'[r].op \in {"unban", "force_refresh", "enable"}
                BY <3>0, <3>1 DEF BeginUnban, BeginForceRefresh, BeginEnable, Begin, Fresh, NoTask
            <4> QED
                BY <4>1 DEF Swept, Clearing
        <3> QED
            BY <3>0, <3>1 DEF BeginAny, BeginLogin, BeginLogout, BeginLogoutAll, BeginRefresh,
               BeginBan, BeginDisable, Begin, Goto
    <2>3. Present' = Present /\ Present \subseteq Devices
        BY <1>1 DEF Present
    <2>4. SweepKnows(r)'
        BY <1>1, <2>1, <2>2, <2>3 DEF SweepKnows, PolicySteps, IssueSteps, DenySteps
    <2> QED
        BY <1>1, <1>3, <2>4
        DEF Knows, PolicyKnows, IssueKnows, PolicySteps, IssueSteps, SweepSteps, DenySteps
<1> QED
    BY <1>2, <1>3

-----------------------------------------------------------------------------
(* The list of the devices is bounded, shows the sessions, and is empty    *)
(* after a revocation.                                                     *)

LEMMA StepBounded ==
    ASSUME Types, DevicesBounded, NEW r \in Requests, Knows(r), Step(r) \/ Abort(r)
    PROVE  DevicesBounded'
<1> SUFFICES ASSUME MaxDevices > 0 PROVE Cardinality(Present') <= MaxDevices
    BY DEF DevicesBounded
<1>0. /\ pc[r] \in Active /\ IsFiniteSet(Present) /\ Cardinality(Present) \in Nat
      /\ MaxDevices \in Nat /\ Cardinality(Present) <= MaxDevices
    BY StepFrame, Locals, SessionAssumption DEF DevicesBounded
<1>1. CASE Present' \subseteq Present
    <2>1. Cardinality(Present') <= Cardinality(Present) /\ IsFiniteSet(Present')
        BY <1>0, <1>1, FS_Subset
    <2>2. Cardinality(Present') \in Nat
        BY <2>1, FS_CardinalityType
    <2> QED
        BY <1>0, <2>1, <2>2
<1>2. CASE ~ (Present' \subseteq Present)
    <2>1. /\ pc[r] = "set_device" /\ Present' \subseteq Present \cup {task[r].dev}
          /\ task[r].dev \notin Present /\ task[r].dev \in Devices
        BY <1>2, EntryMoves DEF Present
    <2>2. task[r].op = "login"
        BY <1>0, <2>1, OpsHere DEF Knows, IssueKnows, IssueSteps, Present
    <2>3. Cardinality(Present) < MaxDevices
        BY <1>0, <2>1, <2>2 DEF Knows, IssueKnows, IssueSteps
    <2> DEFINE more == Present \cup {task[r].dev}
    <2>4. IsFiniteSet(more) /\ Cardinality(more) = Cardinality(Present) + 1
        BY <1>0, <2>1, FS_AddElement
    <2>5. Cardinality(Present') <= Cardinality(more) /\ IsFiniteSet(Present')
        BY <2>1, <2>4, FS_Subset
    <2>6. Cardinality(Present') \in Nat
        BY <2>5, FS_CardinalityType
    <2> QED
        BY <1>0, <2>3, <2>4, <2>5, <2>6
<1> QED
    BY <1>1, <1>2

\* A key that its device names is deleted before its entry goes or changes.
LEMMA ShownStays ==
    ASSUME Types, TokensUsed, NoAborts, NEW r \in Requests, Knows(r), Step(r),
           NEW q \in Requests, Shown(q), ~ (pc[r] = "set_refresh" /\ q = r)
    PROVE  Shown(q)'
<1>0. pc[r] \in Active
    BY StepFrame
<1> SUFFICES ASSUME refresh'[q] # None
             PROVE  device'[refresh'[q]] # None /\ device'[refresh'[q]].rid = q
    BY DEF Shown
<1>1. PICK e \in Devices : refresh[q] = e /\ refresh'[q] = e
    BY RefreshMoves, Locals
<1>2. device[e] # None /\ device[e].rid = q /\ e # None
    BY <1>1, Locals DEF Shown
<1>3. CASE device'[e] = device[e]
    BY <1>1, <1>2, <1>3
<1>4. CASE pc[r] \in {"del_device", "evict_device"} /\ e = task[r].cur
    BY <1>0, <1>1, <1>2, <1>4 DEF Knows, SweepKnows
<1>5. CASE pc[r] = "set_device" /\ e = task[r].dev
    <2>1. CASE task[r].op = "login"
        BY <1>0, <1>2, <1>5, <2>1 DEF Knows, SweepKnows, Swept, Present, IssueSteps
    <2>2. CASE task[r].op = "refresh"
        BY <1>0, <1>1, <1>2, <1>5, <2>2 DEF Knows, IssueKnows, TokensUsed
    <2> QED
        BY <1>0, <1>5, <2>1, <2>2, OpsHere DEF IssueSteps
<1> QED
    BY <1>3, <1>4, <1>5, EntryMoves

LEMMA StepShown ==
    ASSUME Types, TokensUsed, NoAborts, AtMostOne, AllShown, NEW r \in Requests, Knows(r), Step(r),
           NEW q \in Requests
    PROVE  (Shown(q) \/ Entering(q))'
<1>0. /\ pc[r] \in Active /\ Alone(r)
      /\ pc \in [Requests -> {"idle"} \cup Active \cup Ended]
      /\ task \in [Requests -> Task] /\ refresh \in [Requests -> Devices \cup {None}]
      /\ device \in [Devices -> Info \cup {None}]
    BY StepFrame, Locals
<1>1. CASE q # r
    BY <1>0, <1>1, OthersRest, ShownStays DEF AllShown, Entering
<1>2. CASE q = r /\ pc[r] = "set_refresh"
    <2>1. SetRefresh(r)
        BY <1>2 DEF Step, Sweep, Scan, SweepGet, SweepDelRefresh, SweepDelDevice, DevicePolicy,
           CountDevices, ReadDevice, PickVictim, EnoughEvicted, EvictRefresh, EvictDevice,
           GetRefreshKey, CheckBanned, IssueTokens, Issue, DelOldRefresh, GetDevice,
           SetDevice, WriteDeny, Stamp, SetDeny, SetBanned, DelDeny
    <2>2. refresh'[r] = task[r].dev /\ task'[r].dev = task[r].dev
        BY <1>0, <2>1 DEF SetRefresh, Task
    <2>3. pc'[r] \in {"set_device", "del_old"}
        BY <1>0, <2>1 DEF SetRefresh, Goto
    <2> QED
        BY <1>2, <2>2, <2>3 DEF Entering, Moving
<1>3. CASE q = r /\ pc[r] # "set_refresh" /\ Shown(r)
    BY <1>3, ShownStays
<1>4. CASE q = r /\ Entering(r)
    <2>1. DelOldRefresh(r) \/ GetDevice(r) \/ SetDevice(r)
        BY <1>4 DEF Entering, Moving, Step, Sweep, Scan, SweepGet, SweepDelRefresh, SweepDelDevice,
           DevicePolicy, CountDevices, ReadDevice, PickVictim, EnoughEvicted, EvictRefresh,
           EvictDevice, GetRefreshKey, CheckBanned, IssueTokens, Issue, SetRefresh, WriteDeny,
           Stamp, SetDeny, SetBanned, DelDeny
    <2>2. CASE DelOldRefresh(r)
        <3>1. task[r].op = "refresh" /\ pc[task[r].old] = "done"
            BY <1>0, <2>2, OpsHere DEF DelOldRefresh, TokensUsed
        <3>2. task[r].old # r
            BY <2>2, <3>1 DEF DelOldRefresh
        <3> QED
            BY <1>0, <1>4, <2>2, <3>2 DEF DelOldRefresh, Goto, Entering, Moving
    <2>3. CASE GetDevice(r)
        <3>1. task[r].op = "refresh" /\ device[task[r].dev] # None
            BY <1>0, <2>3, OpsHere DEF GetDevice, Knows, IssueKnows
        <3>2. refresh' = refresh /\ task'[r].dev = task[r].dev /\ pc'[r] = "set_device"
            BY <1>0, <2>3, <3>1 DEF GetDevice, Goto, Task, store
        <3> QED
            BY <1>4, <3>2 DEF Entering, Moving
    <2>4. CASE SetDevice(r)
        <3>1. task[r].dev \in Devices /\ task[r].at \in Second0
            BY <2>4, TypesSplit, Locals DEF SetDevice, Typed, IssueSteps, Task
        <3>2. [rid |-> r, time |-> task[r].at] # None
            BY <3>1, SessionAssumption DEF Second0
        <3>3. /\ device'[task[r].dev] = [rid |-> r, time |-> task[r].at]
              /\ refresh'[r] = task[r].dev
            BY <1>0, <1>4, <2>4, <3>1 DEF SetDevice, Entering
        <3> QED
            BY <1>4, <3>2, <3>3 DEF Shown
    <2> QED
        BY <2>1, <2>2, <2>3, <2>4
<1> QED
    BY <1>1, <1>2, <1>3, <1>4 DEF AllShown

\* A sweep of everything is over when its request returns, and keys that were
\* shown are gone with their devices; a finished request writes no key again.
LEMMA StepClears ==
    ASSUME Types, History, AllShown, RevocationClearsSessions, NEW r \in Requests, Knows(r),
           Step(r) \/ Abort(r), NoAborts' => NoAborts
    PROVE  RevocationClearsSessions'
<1> SUFFICES ASSUME NEW x \in Requests, NEW q \in Requests, NoAborts',
                    Did(x, {"logout_all", "ban", "disable_revoke"})', Before(q, x)'
             PROVE  refresh'[q] = None
    BY DEF RevocationClearsSessions
<1>0. /\ pc[r] \in Active /\ Alone(r) /\ task'[r].saw = task[r].saw /\ NoAborts
      /\ pc'[x] = "done" /\ task'[x].op \in {"logout_all", "ban", "disable_revoke"}
      /\ q \in task'[x].saw
    BY StepFrame DEF Did, Before
<1>1. q \in task[x].saw /\ pc[q] \in Ended
    BY <1>0 DEF History, Alone
<1>2. q # r
    BY <1>0, <1>1, LabelsApart
<1>3. CASE x # r
    <2>1. pc[x] = "done" /\ task[x] = task'[x]
        BY <1>0, <1>3 DEF Alone
    <2>2. refresh[q] = None
        BY <1>0, <1>1, <2>1 DEF RevocationClearsSessions, Did, Before, Begun
    <2> QED
        BY <1>2, <2>2, RefreshMoves
<1>4. CASE x = r
    <2>1. task[r].op \in Clearing /\ pc[r] \in DenySteps /\ refresh' = refresh
        <3>1. \/ task'[r].op = task[r].op
              \/ SetBanned(r) /\ task[r].op = "disable"
            BY StepFrame
        <3>2. CASE task[r].op \in {"login", "refresh"}
            BY <1>0, <1>4, <3>1, <3>2
        <3>3. CASE SetDeny(r) \/ DelDeny(r) \/ (SetBanned(r) /\ task[r].op = "ban")
            BY <1>0, <1>4, <3>1, <3>3 DEF SetDeny, DelDeny, SetBanned, DenySteps, Clearing
        <3> QED
            BY <1>0, <1>4, <3>2, <3>3, Returns
    <2>2. Present = {}
        BY <1>0, <2>1 DEF Knows, SweepKnows, Swept
    <2>3. ~ Moving(q)
        BY <1>1 DEF Moving, Ended
    <2>4. Shown(q)
        BY <1>0, <2>3 DEF AllShown, Entering
    <2>5. refresh[q] = None
        BY <2>2, <2>4, Locals DEF Shown, Present
    <2> QED
        BY <2>1, <2>5
<1> QED
    BY <1>3, <1>4

LEMMA InitSerial == Init => SerialInv
<1> SUFFICES ASSUME Init PROVE SerialInv
    OBVIOUS
<1>1. \A r \in Requests : pc[r] = "idle" /\ refresh[r] = None
    BY DEF Init
<1>2. Present = {} /\ Cardinality(Present) = 0
    <2>1. Present = {}
        BY DEF Init, Present
    <2> QED
        BY <2>1, FS_EmptySet
<1>3. DevicesBounded
    BY <1>2, SessionAssumption DEF DevicesBounded
<1> QED
    BY <1>1, <1>3, LabelsApart
    DEF SerialInv, AtMostOne, AllShown, Shown, RevocationClearsSessions, Did, Knows

LEMMA NextSerial ==
    ASSUME MaxActive <= 1
    PROVE  Types /\ History /\ TokensUsed /\ SerialInv /\ [Next]_vars => SerialInv'
<1> SUFFICES ASSUME Types, History, TokensUsed, SerialInv, [Next]_vars PROVE SerialInv'
    OBVIOUS
<1>0. NoAborts' => NoAborts
    BY Persists DEF NoAborts, Ended
<1>1. CASE UNCHANGED vars \/ Tick
    <2>1. UNCHANGED <<refresh, device, pc, task>>
        BY <1>1 DEF vars, store, Tick
    <2> QED
        BY <2>1
        DEF SerialInv, AtMostOne, DevicesBounded, Present, AllShown, NoAborts, Shown, Entering, Moving,
            RevocationClearsSessions, Did, Before, Begun, Knows, SweepKnows, Swept, PolicyKnows,
            Unread, Entry, IssueKnows
<1>2. ASSUME NEW r \in Requests, BeginAny(r) PROVE SerialInv'
    <2>1. /\ pc[r] = "idle" /\ pc'[r] \in {"get", "scan", "get_refresh", "del_deny", "stamp"}
          /\ Alone(r) /\ UNCHANGED <<refresh, device>>
        BY <1>2, BeginFrame DEF store
    <2>2. AtMostOne'
        BY <1>2, BeginKnows DEF AtMostOne
    <2>3. DevicesBounded'
        BY <2>1 DEF SerialInv, DevicesBounded, Present
    <2>4. AllShown'
        <3> SUFFICES ASSUME NoAborts', NEW q \in Requests PROVE (Shown(q) \/ Entering(q))'
            BY DEF AllShown
        <3>1. ~ Moving(q)
            BY <1>2, AloneAtStart DEF Moving, Active, IssueSteps
        <3>2. Shown(q)
            BY <1>0, <3>1 DEF SerialInv, AllShown, Entering
        <3> QED
            BY <2>1, <3>2 DEF Shown
    <2>5. RevocationClearsSessions'
        <3> SUFFICES ASSUME NEW x \in Requests, NEW q \in Requests, NoAborts',
                            Did(x, {"logout_all", "ban", "disable_revoke"})', Before(q, x)'
                     PROVE  refresh'[q] = None
            BY DEF RevocationClearsSessions
        <3>1. pc[x] = "done" /\ task'[x] = task[x]
            BY <2>1 DEF Did, Alone
        <3> QED
            BY <1>0, <2>1, <3>1 DEF SerialInv, RevocationClearsSessions, Did, Before, Begun
    <2> QED
        BY <1>2, <2>2, <2>3, <2>4, <2>5, BeginKnows DEF SerialInv
<1>3. ASSUME NEW r \in Requests, Step(r) \/ Abort(r) PROVE SerialInv'
    <2>1. pc[r] \in Active /\ Alone(r) /\ Knows(r) /\ AtMostOne /\ AllShown
        BY <1>3, StepFrame DEF SerialInv
    <2>2. AtMostOne'
        <3>1. \A q \in Requests : pc'[q] \in Active => q = r
            BY <2>1, OthersRest
        <3> QED
            BY <3>1 DEF AtMostOne
    <2>3. DevicesBounded'
        BY <1>3, <2>1, StepBounded DEF SerialInv
    <2>4. AllShown'
        <3> SUFFICES ASSUME NoAborts', NEW q \in Requests PROVE (Shown(q) \/ Entering(q))'
            BY DEF AllShown
        <3>1. ~ Abort(r)
            BY Locals DEF NoAborts, Abort, Return, Goto
        <3> QED
            BY <1>0, <1>3, <2>1, <3>1, StepShown
    <2>5. RevocationClearsSessions'
        BY <1>0, <1>3, <2>1, StepClears DEF SerialInv
    <2>6. \A q \in Requests : Knows(q)'
        BY <1>0, <1>3, <2>1, StepKnows
    <2> QED
        BY <2>2, <2>3, <2>4, <2>5, <2>6 DEF SerialInv
<1> QED
    BY <1>1, <1>2, <1>3 DEF Next

\* One request at a time, whatever the requests are and whether or not a
\* handler was dropped, the user never holds more devices than max_devices;
\* and while none was dropped, every refresh key alive between requests is the
\* one that its device names, and a logout_all or a ban leaves none that was
\* there before.
THEOREM SpecSessionsShown ==
    ASSUME MaxActive <= 1
    PROVE  Spec => []SessionsShown
<1>1. Types /\ SerialInv => SessionsShown
    BY DEF Types, SerialInv, AllShown, Shown, Entering, Moving, Quiet, Active, IssueSteps,
           NoOrphanSession, SessionsShown
<1> QED
    BY InitTypes, NextTypes, InitHistory, NextHistory, InitTokensUsed, NextTokensUsed,
       InitSerial, NextSerial, <1>1, PTL DEF Spec

=============================================================================
