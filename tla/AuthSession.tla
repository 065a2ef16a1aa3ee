----------------------------- MODULE AuthSession -----------------------------
(***************************************************************************)
(* The session manager of summer-auth/src/session/manager.rs, seen by one  *)
(* user (every key of the store is per user), with the callers in          *)
(* summer-system that read or write the user's row around it.              *)
(*                                                                         *)
(* A request is a process.  Its steps are the calls it makes on the store, *)
(* one by one, with the local code up to the next call; signing a token    *)
(* and taking a time stamp are steps of their own, because time may pass   *)
(* before the value reaches the store.  A refresh token is named after the *)
(* request that made it: its uuid is fresh.                                *)
(*                                                                         *)
(* Bounds: each request of Requests runs once, at most MaxActive at a      *)
(* time; time stops at MaxTime; at most MaxAborts handlers are dropped.    *)
(* refresh_timeout and the 365 days of a ban are longer than MaxTime.      *)
(***************************************************************************)
EXTENDS Integers, FiniteSets

CONSTANTS Requests, Devices, None,
          Script,          \* the operations each request may be
          AccessTimeout,   \* AuthConfig.access_timeout, in seconds
          ConcurrentLogin, \* AuthConfig.concurrent_login
          MaxDevices,      \* AuthConfig.max_devices
          TicksPerSecond,  \* 1 where the store counts whole seconds (MemoryStorage)
          MaxTime, MaxActive, MaxAborts

Operations == {"login", "logout", "logout_all", "refresh", "force_refresh",
               "ban", "unban", "disable", "disable_revoke", "enable"}

ASSUME SessionAssumption ==
    /\ IsFiniteSet(Requests) /\ IsFiniteSet(Devices)
    /\ None \notin Requests \cup Devices \cup [rid : Requests, time : Nat]
    /\ Script \in [Requests -> SUBSET (Operations \ {"disable_revoke"})]
    /\ AccessTimeout \in Nat \ {0} /\ TicksPerSecond \in Nat \ {0}
    /\ ConcurrentLogin \in BOOLEAN
    /\ MaxDevices \in Nat
    /\ MaxTime \in Nat /\ MaxActive \in Nat /\ MaxAborts \in Nat

VARIABLES
    now,      \* the clock, in ticks
    \* the store
    refresh,  \* auth:refresh:{rid} -> the device in its value, None when absent
    device,   \* auth:device:{login}:{device} -> DeviceInfo, None when absent
    deny,     \* auth:deny:{login}
    \* the user's rows
    status,   \* sys_user.status
    perms,    \* the version of the user's permissions
    \* the requests
    pc, task

store == <<refresh, device, deny>>
rows  == <<status, perms>>
vars  == <<now, store, rows, pc, task>>

Second(tick) == tick \div TicksPerSecond

SweepSteps  == {"scan", "get", "del_refresh", "del_device"}
PolicySteps == {"count", "read", "evict", "evict_refresh", "evict_device"}
IssueSteps  == {"issue", "set_refresh", "del_old", "get_device", "set_device"}
CheckSteps  == {"get_refresh", "get_deny"}
DenySteps   == {"stamp", "set_deny", "set_banned", "del_deny"}
Active      == SweepSteps \cup PolicySteps \cup IssueSteps \cup CheckSteps \cup DenySteps
Ended       == {"done", "failed", "aborted"}

NoDeny == [kind |-> "none", at |-> 0, expires |-> 0]

\* The locals of a request.
NoTask == [op    |-> "login",
           dev   |-> None,  \* the device it acts on
           old   |-> None,  \* the refresh token presented
           todo  |-> {},    \* keys of the scan still to visit
           cur   |-> None,  \* the key in hand
           rid   |-> None,  \* info.rid read under that key
           found |-> {},    \* devices_with_time
           at    |-> 0,     \* the time stamp to be stored
           iat   |-> 0,     \* the claims of the access token it made
           perm  |-> 0,
           saw   |-> {}]    \* history: the requests that had ended when it began

Init ==
    /\ now = 0
    /\ refresh = [r \in Requests |-> None]
    /\ device = [d \in Devices |-> None]
    /\ deny = NoDeny
    /\ status = "enabled"
    /\ perms = 0
    /\ pc = [r \in Requests |-> "idle"]
    /\ task = [r \in Requests |-> NoTask]

Goto(r, label) == pc' = [pc EXCEPT ![r] = label]

\* A return forgets the locals; what the caller was told and the history remain.
Return(r, result) ==
    /\ Goto(r, result)
    /\ task' = [task EXCEPT ![r] = [@ EXCEPT !.dev = None, !.todo = {}, !.cur = None,
                                             !.rid = None, !.found = {}, !.at = 0]]

-----------------------------------------------------------------------------
(* How a request begins: the rows its caller reads or writes, and the first *)
(* label of the operation.                                                  *)

Delivered(q) == pc[q] = "done" /\ task[q].op \in {"login", "refresh"}

Fresh(op) == [NoTask EXCEPT !.op = op, !.saw = {q \in Requests : pc[q] \in Ended}]

Begin(r, op, label, locals) ==
    /\ pc[r] = "idle"
    /\ op \in Script[r]
    /\ Cardinality({q \in Requests : pc[q] \in Active}) < MaxActive
    /\ Goto(r, label)
    /\ task' = [task EXCEPT ![r] = locals]
    /\ UNCHANGED <<now, store>>

\* auth_service.login: a disabled user is turned away; the profile is read here.
BeginLogin(r) ==
    /\ status = "enabled"
    /\ \E d \in Devices :
         Begin(r, "login", IF ConcurrentLogin THEN "get" ELSE "scan",
               [Fresh("login") EXCEPT !.dev = d, !.perm = perms,
                                      !.todo = IF ConcurrentLogin THEN {d} ELSE {}])
    /\ UNCHANGED rows

BeginLogout(r) ==
    /\ \E d \in Devices : Begin(r, "logout", "get", [Fresh("logout") EXCEPT !.todo = {d}])
    /\ UNCHANGED rows

BeginLogoutAll(r) ==
    /\ Begin(r, "logout_all", "scan", Fresh("logout_all"))
    /\ UNCHANGED rows

\* auth_service.refresh_token: the profile is loaded before the session manager is asked.
BeginRefresh(r) ==
    /\ \E q \in Requests :
         /\ Delivered(q)
         /\ Begin(r, "refresh", "get_refresh",
                  [Fresh("refresh") EXCEPT !.old = q, !.perm = perms])
    /\ UNCHANGED rows

BeginBan(r) ==
    /\ Begin(r, "ban", "scan", Fresh("ban"))
    /\ UNCHANGED rows

BeginUnban(r) ==
    /\ Begin(r, "unban", "del_deny", Fresh("unban"))
    /\ UNCHANGED rows

\* A change of roles or permissions commits, then forces the user to refresh.
BeginForceRefresh(r) ==
    /\ Begin(r, "force_refresh", "stamp", Fresh("force_refresh"))
    /\ perms' = perms + 1
    /\ UNCHANGED status

BeginDisable(r) ==
    /\ status = "enabled"
    /\ Begin(r, "disable", "scan", Fresh("disable"))
    /\ status' = "disabled"
    /\ UNCHANGED perms

BeginEnable(r) ==
    /\ status = "disabled"
    /\ Begin(r, "enable", "del_deny", Fresh("enable"))
    /\ status' = "enabled"
    /\ UNCHANGED perms

-----------------------------------------------------------------------------
(* cleanup_device, once for every key in todo: get the device, delete the   *)
(* refresh key it names, delete the device.                                 *)

AfterSweep(op) ==
    CASE op = "login"              -> IF MaxDevices > 0 THEN "count" ELSE "issue"
      [] op \in {"ban", "disable"} -> "set_banned"
      [] OTHER                     -> "stamp"

Present == {d \in Devices : device[d] # None}

Scan(r) ==
    /\ pc[r] = "scan"
    /\ task' = [task EXCEPT ![r].todo = Present]
    /\ Goto(r, IF Present = {} THEN AfterSweep(task[r].op) ELSE "get")
    /\ UNCHANGED <<now, store, rows>>

SweepGet(r) ==
    /\ pc[r] = "get"
    /\ \E d \in task[r].todo :
         IF device[d] = None
         THEN /\ task' = [task EXCEPT ![r].cur = d]
              /\ Goto(r, "del_device")
         ELSE /\ task' = [task EXCEPT ![r].cur = d, ![r].rid = device[d].rid]
              /\ Goto(r, "del_refresh")
    /\ UNCHANGED <<now, store, rows>>

\* Mutant: the refresh key is left to its time to live.
SweepDelRefresh_Skipped(r) ==
    /\ pc[r] = "del_refresh"
    /\ Goto(r, "del_device")
    /\ UNCHANGED <<now, store, rows, task>>

SweepDelRefresh(r) ==
    /\ pc[r] = "del_refresh"
    /\ refresh' = [refresh EXCEPT ![task[r].rid] = None]
    /\ Goto(r, "del_device")
    /\ UNCHANGED <<now, device, deny, rows, task>>

\* Mutant: the loop over the scanned keys ends after the first.
SweepDelDevice_FirstOnly(r) ==
    /\ pc[r] = "del_device"
    /\ task' = [task EXCEPT ![r].todo = {}, ![r].cur = None, ![r].rid = None]
    /\ Goto(r, AfterSweep(task[r].op))
    /\ device' = [device EXCEPT ![task[r].cur] = None]
    /\ UNCHANGED <<now, refresh, deny, rows>>

SweepDelDevice(r) ==
    /\ pc[r] = "del_device"
    /\ LET left == task[r].todo \ {task[r].cur} IN
         /\ task' = [task EXCEPT ![r].todo = left, ![r].cur = None, ![r].rid = None]
         /\ Goto(r, IF left = {} THEN AfterSweep(task[r].op) ELSE "get")
    /\ device' = [device EXCEPT ![task[r].cur] = None]
    /\ UNCHANGED <<now, refresh, deny, rows>>

Sweep(r) == Scan(r) \/ SweepGet(r) \/ SweepDelRefresh(r) \/ SweepDelDevice(r)

-----------------------------------------------------------------------------
(* handle_device_policy: the limit on devices, the oldest login goes first. *)

CountDevices(r) ==
    /\ pc[r] = "count"
    /\ IF Cardinality(Present) >= MaxDevices
       THEN task' = [task EXCEPT ![r].todo = Present] /\ Goto(r, "read")
       ELSE UNCHANGED task /\ Goto(r, "issue")
    /\ UNCHANGED <<now, store, rows>>

ReadDevice(r) ==
    /\ pc[r] = "read"
    /\ \E d \in task[r].todo :
         task' = [task EXCEPT
           ![r].todo  = @ \ {d},
           ![r].found = @ \cup IF device[d] = None THEN {}
                               ELSE {[dev |-> d, rid |-> device[d].rid, time |-> device[d].time]}]
    /\ Goto(r, IF Cardinality(task[r].todo) > 1 THEN "read" ELSE "evict")
    /\ UNCHANGED <<now, store, rows>>

\* The device to remove next, among those whose login is the oldest.
PickVictim(r) ==
    /\ pc[r] = "evict"
    /\ Cardinality(task[r].found) + 1 > MaxDevices
    /\ \E v \in task[r].found :
         /\ \A w \in task[r].found : v.time <= w.time
         /\ task' = [task EXCEPT ![r].cur = v.dev, ![r].rid = v.rid, ![r].found = @ \ {v}]
    /\ Goto(r, "evict_refresh")
    /\ UNCHANGED <<now, store, rows>>

EnoughEvicted(r) ==
    /\ pc[r] = "evict"
    /\ Cardinality(task[r].found) + 1 <= MaxDevices
    /\ task' = [task EXCEPT ![r].found = {}]
    /\ Goto(r, "issue")
    /\ UNCHANGED <<now, store, rows>>

EvictRefresh(r) ==
    /\ pc[r] = "evict_refresh"
    /\ refresh' = [refresh EXCEPT ![task[r].rid] = None]
    /\ Goto(r, "evict_device")
    /\ UNCHANGED <<now, device, deny, rows, task>>

EvictDevice(r) ==
    /\ pc[r] = "evict_device"
    /\ device' = [device EXCEPT ![task[r].cur] = None]
    /\ task' = [task EXCEPT ![r].cur = None, ![r].rid = None]
    /\ Goto(r, "evict")
    /\ UNCHANGED <<now, refresh, deny, rows>>

DevicePolicy(r) == \/ CountDevices(r) \/ ReadDevice(r) \/ PickVictim(r)
                   \/ EnoughEvicted(r) \/ EvictRefresh(r) \/ EvictDevice(r)

-----------------------------------------------------------------------------
(* refresh: the checks on the token presented.                              *)

GetRefreshKey(r) ==
    /\ pc[r] = "get_refresh"
    /\ IF refresh[task[r].old] = None
       THEN Return(r, "failed")
       ELSE /\ Goto(r, "get_deny")
            /\ task' = [task EXCEPT ![r].dev = refresh[task[r].old]]
    /\ UNCHANGED <<now, store, rows>>

\* Mutant: refresh does not look at the deny key.
CheckBanned_Skipped(r) ==
    /\ pc[r] = "get_deny"
    /\ Goto(r, "issue")
    /\ UNCHANGED <<now, store, rows, task>>

CheckBanned(r) ==
    /\ pc[r] = "get_deny"
    /\ IF deny.kind = "banned" THEN Return(r, "failed") ELSE Goto(r, "issue") /\ UNCHANGED task
    /\ UNCHANGED <<now, store, rows>>

-----------------------------------------------------------------------------
(* login and refresh: the tokens, the refresh key, the device.              *)

Issue(r) ==
    /\ pc[r] = "issue"
    /\ task' = [task EXCEPT ![r].iat = Second(now)]
    /\ Goto(r, "set_refresh")
    /\ UNCHANGED <<now, store, rows>>

\* A login goes on to the device entry, whose login_time it takes; a refresh to the old key.
SetRefresh(r) ==
    /\ pc[r] = "set_refresh"
    /\ refresh' = [refresh EXCEPT ![r] = task[r].dev]
    /\ IF task[r].op = "login"
       THEN task' = [task EXCEPT ![r].at = now] /\ Goto(r, "set_device")
       ELSE UNCHANGED task /\ Goto(r, "del_old")
    /\ UNCHANGED <<now, device, deny, rows>>

\* Mutant: the rotation leaves the old key in place.
DelOldRefresh_Kept(r) ==
    /\ pc[r] = "del_old"
    /\ Goto(r, "get_device")
    /\ UNCHANGED <<now, store, rows, task>>

DelOldRefresh(r) ==
    /\ pc[r] = "del_old"
    /\ refresh' = [refresh EXCEPT ![task[r].old] = None]
    /\ Goto(r, "get_device")
    /\ UNCHANGED <<now, device, deny, rows, task>>

\* Mutant: the device entry is not moved to the new refresh key.
GetDevice_NotUpdated(r) ==
    /\ pc[r] = "get_device"
    /\ Return(r, "done")
    /\ UNCHANGED <<now, store, rows>>

\* Only info.rid changes: the entry keeps its login_time.
GetDevice(r) ==
    /\ pc[r] = "get_device"
    /\ IF device[task[r].dev] = None
       THEN Return(r, "done")
       ELSE /\ task' = [task EXCEPT ![r].at = device[task[r].dev].time]
            /\ Goto(r, "set_device")
    /\ UNCHANGED <<now, store, rows>>

SetDevice(r) ==
    /\ pc[r] = "set_device"
    /\ device' = [device EXCEPT ![task[r].dev] = [rid |-> r, time |-> task[r].at]]
    /\ Return(r, "done")
    /\ UNCHANGED <<now, refresh, deny, rows>>

IssueTokens(r) == \/ Issue(r) \/ SetRefresh(r) \/ DelOldRefresh(r)
                  \/ GetDevice(r) \/ SetDevice(r)

-----------------------------------------------------------------------------
(* The deny key.                                                            *)

Stamp(r) ==
    /\ pc[r] = "stamp"
    /\ task' = [task EXCEPT ![r].at = Second(now)]
    /\ Goto(r, "set_deny")
    /\ UNCHANGED <<now, store, rows>>

SetDeny(r) ==
    /\ pc[r] = "set_deny"
    /\ deny' = [kind |-> "refresh", at |-> task[r].at,
                expires |-> now + AccessTimeout * TicksPerSecond]
    /\ Return(r, "done")
    /\ UNCHANGED <<now, refresh, device, rows>>

\* disable_user_runtime calls revoke_user_sessions, that is logout_all, after ban_user.
SetBanned(r) ==
    /\ pc[r] = "set_banned"
    /\ deny' = [kind |-> "banned", at |-> 0, expires |-> MaxTime]
    /\ IF task[r].op = "disable"
       THEN task' = [task EXCEPT ![r].op = "disable_revoke"] /\ Goto(r, "scan")
       ELSE Return(r, "done")
    /\ UNCHANGED <<now, refresh, device, rows>>

DelDeny(r) ==
    /\ pc[r] = "del_deny"
    /\ deny' = NoDeny
    /\ Return(r, "done")
    /\ UNCHANGED <<now, refresh, device, rows>>

WriteDeny(r) == Stamp(r) \/ SetDeny(r) \/ SetBanned(r) \/ DelDeny(r)

-----------------------------------------------------------------------------
\* The handler's future is dropped (the client went away) or the process stops.
Abort(r) ==
    /\ pc[r] \in Active
    /\ Cardinality({q \in Requests : pc[q] = "aborted"}) < MaxAborts
    /\ Return(r, "aborted")
    /\ UNCHANGED <<now, store, rows>>

\* Time passes; the store forgets a deny key whose time to live is over.
Tick ==
    /\ now < MaxTime
    /\ now' = now + 1
    /\ deny' = IF deny.kind # "none" /\ deny.expires < now + 1 THEN NoDeny ELSE deny
    /\ UNCHANGED <<refresh, device, rows, pc, task>>

BeginAny(r) == \/ BeginLogin(r) \/ BeginLogout(r) \/ BeginLogoutAll(r) \/ BeginRefresh(r)
               \/ BeginBan(r) \/ BeginUnban(r) \/ BeginForceRefresh(r)
               \/ BeginDisable(r) \/ BeginEnable(r)

Step(r) == \/ Sweep(r) \/ DevicePolicy(r) \/ GetRefreshKey(r) \/ CheckBanned(r)
           \/ IssueTokens(r) \/ WriteDeny(r)

Next == Tick \/ \E r \in Requests : BeginAny(r) \/ Step(r) \/ Abort(r)

Spec == Init /\ [][Next]_vars

-----------------------------------------------------------------------------
(* validate_token: what the middleware would answer now to q's access token. *)

\* Mutant: a token issued in the second of the deny time stamp passes.
Validates_SameSecond(q) ==
    /\ Second(now) <= task[q].iat + AccessTimeout
    /\ \/ deny.kind = "none"
       \/ deny.kind = "refresh" /\ task[q].iat >= deny.at

\* decode_access takes exp < now for expired, without leeway.
Validates(q) ==
    /\ Second(now) <= task[q].iat + AccessTimeout
    /\ \/ deny.kind = "none"
       \/ deny.kind = "refresh" /\ task[q].iat > deny.at

-----------------------------------------------------------------------------
(* Properties.                                                              *)

Revokers == {"logout", "logout_all", "force_refresh", "ban", "disable_revoke"}
Unbans   == {"unban", "enable"}

Begun(r) == pc[r] # "idle"
Did(r, ops) == pc[r] = "done" /\ task[r].op \in ops
Doing(r, ops) == Begun(r) /\ task[r].op \in ops
Before(q, r) == Begun(r) /\ q \in task[r].saw
Overlap(q, r) == q # r /\ Begun(q) /\ Begun(r) /\ ~Before(q, r) /\ ~Before(r, q)
Quiet == \A r \in Requests : pc[r] \notin Active
NoAborts == \A r \in Requests : pc[r] # "aborted"

Info == [rid : Requests, time : 0..MaxTime]
Second0 == 0..MaxTime

Task == [op : Operations, dev : Devices \cup {None}, old : Requests \cup {None},
         todo : SUBSET Devices, cur : Devices \cup {None}, rid : Requests \cup {None},
         found : SUBSET [dev : Devices, rid : Requests, time : 0..MaxTime],
         at : Second0, iat : Second0, perm : Nat, saw : SUBSET Requests]

\* Every variable has its type, and a request holds the keys its next call needs.
TypeOK ==
    /\ now \in 0..MaxTime
    /\ refresh \in [Requests -> Devices \cup {None}]
    /\ device \in [Devices -> Info \cup {None}]
    /\ deny \in [kind : {"none", "refresh", "banned"}, at : Second0, expires : Nat]
    /\ status \in {"enabled", "disabled"} /\ perms \in Nat
    /\ pc \in [Requests -> {"idle"} \cup Active \cup Ended]
    /\ task \in [Requests -> Task]
    /\ \A r \in Requests :
         /\ pc[r] \in {"get", "read"} => task[r].todo # {}
         /\ pc[r] \in {"del_refresh", "evict_refresh"} => task[r].rid \in Requests
         /\ pc[r] \in {"del_refresh", "del_device", "evict_refresh", "evict_device"}
              => task[r].cur \in Devices
         /\ pc[r] \in IssueSteps \cup {"get_deny"} => task[r].dev \in Devices

(* Every device entry leads to a live refresh key when nothing is running:  *)
(* whoever deletes a refresh key, by rotation, cleanup or eviction, also    *)
(* deletes or rewrites the device entry that names it, in whatever order    *)
(* the calls of several requests meet.  A dropped handler breaks it.        *)
DeviceLeadsToSession ==
    Quiet /\ NoAborts =>
      \A d \in Devices : device[d] # None => refresh[device[d].rid] = d

(* A refresh token that was exchanged is dead: no other request can have    *)
(* brought its key back (step 8 of refresh).                                *)
UsedTokenIsDead ==
    \A r \in Requests : Did(r, {"refresh"}) => refresh[task[r].old] = None

(* An access token handed out before a logout, a forced refresh or a ban    *)
(* began is refused once that call has returned, until the second that its  *)
(* exp claim names: the deny key outlives the rest of the token.  In that   *)
(* last second the token still counts as valid and a store that counts      *)
(* fractions of a second may have dropped the key.  Lifting a ban deletes   *)
(* the key, and two revocations at once may store their time stamps in the  *)
(* wrong order; both are excluded here.                                     *)
RevokedStaysOut ==
    \A r, q \in Requests :
      /\ Did(r, Revokers) /\ Delivered(q) /\ Before(q, r)
      /\ Second(now) < task[q].iat + AccessTimeout
      /\ ~\E x \in Requests : Doing(x, Unbans) /\ ~Before(x, r)
      /\ ~\E x \in Requests : Doing(x, Revokers \cup {"disable"}) /\ Overlap(x, r)
      => ~Validates(q)

(* After ban_user has returned no refresh succeeds that began later, unless *)
(* the deny key was deleted or written by someone else in the meantime.     *)
BanBlocksRefresh ==
    \A r, q \in Requests :
      Did(r, {"ban"}) /\ Did(q, {"refresh"}) /\ Before(r, q)
      => \E x \in Requests :
           /\ Doing(x, Unbans \cup (Revokers \ {"ban"}))
           /\ ~Before(x, r) /\ ~Before(q, x)

(* One request at a time, every live refresh key is the one its device      *)
(* names: nobody can refresh a session the device list does not show.       *)
NoOrphanSession ==
    Quiet /\ NoAborts =>
      \A q \in Requests : refresh[q] # None =>
        device[refresh[q]] # None /\ device[refresh[q]].rid = q

(* The user never holds more devices than max_devices.                      *)
DevicesBounded == MaxDevices > 0 => Cardinality(Present) <= MaxDevices

(* One request at a time, logout_all and ban leave no refresh key of an     *)
(* earlier login or refresh alive.                                          *)
RevocationClearsSessions ==
    \A r, q \in Requests :
      NoAborts /\ Did(r, {"logout_all", "ban", "disable_revoke"}) /\ Before(q, r)
      => refresh[q] = None

(* One request at a time, the device list is the list of the sessions, no   *)
(* longer than it may be, and empty after logout_all and ban.               *)
SessionsShown == TypeOK /\ NoOrphanSession /\ DevicesBounded /\ RevocationClearsSessions
=============================================================================
