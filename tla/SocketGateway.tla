---------------------------- MODULE SocketGateway ----------------------------
(***************************************************************************)
(* The Socket.IO gateway of summer-system (socketio/connection, the plugin *)
(* socket_gateway and the job socket_session_gc) for one login, together   *)
(* with the operations of sys_user_service and online_service that put a   *)
(* user out: disable, delete, kick out, kick out one device.               *)
(*                                                                         *)
(* A step is one call on Redis or on the database with the local code up   *)
(* to the next one. Socket ids are fresh, so a socket is one connection.   *)
(* What socketioxide does with a socket between the middleware and the     *)
(* connect handler is external and modelled from how the plugin uses it.   *)
(*                                                                         *)
(* Bounds: every socket connects once, every admin runs once, MaxParties   *)
(* of them take part. A restart that finds nothing running is left out.    *)
(***************************************************************************)
EXTENDS Naturals, FiniteSets

CONSTANTS Sockets, Admins, Devices,
          DeviceOf,     \* the device in the token a socket presents
          MaxParties

ASSUME GatewayAssumption ==
    /\ DeviceOf \in [Sockets -> Devices]
    /\ MaxParties \in Nat

VARIABLES
    status,    \* sys_user.status
    deny,      \* auth:deny:{login}; it outlives the access tokens it is about
    \* the process
    conn,      \* where each connection stands
    handler,   \* its on_disconnect handler
    \* Redis
    session,   \* the sockets with a session key
    index,     \* the members of the login's index set
    \* the operations of an administrator
    pc,
    device,    \* the devices it is about
    ids,       \* the ids it read from the login's index
    found,     \* those with a session
    gc,        \* the collector: its place, what it read
    \* history
    due,       \* the open sockets when the operation read the index
    excused,   \* the sockets not yet attached when an operation read the index,
               \* whose session key ran out, or whose disconnect() failed
    crossed    \* a disable ran across an enable, or was cut short

row     == <<status, deny>>
redis   == <<session, index>>
admin   == <<pc, device, ids, found>>
history == <<due, excused, crossed>>
vars    == <<row, conn, handler, redis, admin, gc, history>>

Steps   == {"ban", "deny", "unban", "members", "fetch", "act", "clean"}
Open    == {s \in Sockets : conn[s] \in {"attached", "ready"}}
Closed  == {s \in Sockets : conn[s] = "closed"}
Busy(a) == pc[a] \in Steps

Init ==
    /\ status = "enabled" /\ deny = "none"
    /\ conn \in [Sockets -> {"idle", "closed"}]
    /\ handler = [s \in Sockets |-> "none"]
    /\ session = {}
    /\ index = {}
    /\ pc \in [Admins -> {"idle", "failed"}]
    /\ Cardinality({s \in Sockets : conn[s] = "idle"})
         + Cardinality({a \in Admins : pc[a] = "idle"}) = MaxParties
    /\ device = [a \in Admins |-> {}]
    /\ ids = [a \in Admins |-> {}]
    /\ found = [a \in Admins |-> {}]
    /\ gc = [at |-> "read", members |-> {}]
    /\ due = [a \in Admins |-> {}] /\ excused = {} /\ crossed = FALSE

-----------------------------------------------------------------------------
(* A connection                                                            *)

\* The sockets S are closed; the handler runs where it is registered.
Close(S) ==
    /\ conn' = [s \in Sockets |-> IF s \in S THEN "closed" ELSE conn[s]]
    /\ handler' = [s \in Sockets |->
                      IF s \in S /\ conn[s] = "ready" THEN "get" ELSE handler[s]]

\* validate_token on the token of the payload. After a time stamp in deny only
\* the token of a later login is good, and a disabled user cannot log in.
Authenticate(s) ==
    /\ conn[s] = "idle"
    /\ deny = "none" \/ (deny = "refresh" /\ status = "enabled")
    /\ conn' = [conn EXCEPT ![s] = "store"]
    /\ UNCHANGED <<row, handler, redis, admin, gc, history>>

\* A banned login, or a token from before the time stamp.
Refuse(s) ==
    /\ conn[s] = "idle" /\ deny # "none"
    /\ Close({s})
    /\ excused' = excused \ {s}
    /\ UNCHANGED <<row, redis, admin, gc, due, crossed>>

\* store: SETEX and three SADDs in one transaction.
Store(s) ==
    /\ conn[s] = "store"
    /\ conn' = [conn EXCEPT ![s] = "stored"]
    /\ session' = session \cup {s}
    /\ index' = index \cup {s}
    /\ UNCHANGED <<row, handler, admin, gc, history>>

\* socketioxide puts the socket into the namespace after the middleware; only
\* then does get_socket find it.
Attach(s) ==
    /\ conn[s] = "stored"
    /\ conn' = [conn EXCEPT ![s] = "attached"]
    /\ UNCHANGED <<row, handler, redis, admin, gc, history>>

\* socket_connected registers on_disconnect.
Connected(s) ==
    /\ conn[s] = "attached"
    /\ conn' = [conn EXCEPT ![s] = "ready"]
    /\ UNCHANGED <<row, handler, redis, admin, gc, history>>

\* The client goes, or the middleware fails: nothing is left of a socket
\* without a handler but its keys.
Leave(s) ==
    /\ conn[s] \in {"store", "stored", "attached", "ready"}
    /\ Close({s})
    /\ excused' = excused \ {s}
    /\ UNCHANGED <<row, redis, admin, gc, due, crossed>>

\* Mutant: the session is stored without a time to live.
Expire_Never(s) == s \in session /\ FALSE /\ UNCHANGED vars

\* Redis drops the session key after session_ttl_seconds; nothing renews it.
Expire(s) ==
    /\ s \in session
    /\ session' = session \ {s}
    /\ excused' = excused \cup ({s} \ Closed)
    /\ UNCHANGED <<row, conn, handler, index, admin, gc, due, crossed>>

\* The transaction of cleanup and cleanup_batch: the sockets S leave the index,
\* the session keys of T go.
Remove(S, T) ==
    /\ index' = index \ S
    /\ session' = session \ T

\* on_disconnect reads the login from the session, then removes what it can:
\* without the session, or when the read fails, the login's index stays as it
\* is; when the removal fails nothing is removed, and nobody tries again.
HandlerGet(s) ==
    /\ handler[s] = "get"
    /\ \E known \in {(s \in session), FALSE} :
        handler' = [handler EXCEPT ![s] = IF known THEN "clean" ELSE "clean_unknown"]
    /\ UNCHANGED <<row, conn, redis, admin, gc, history>>

HandlerClean(s) ==
    /\ handler[s] \in {"clean", "clean_unknown"}
    /\ \/ Remove(IF handler[s] = "clean" THEN {s} ELSE {}, {s})
       \/ UNCHANGED redis
    /\ handler' = [handler EXCEPT ![s] = "none"]
    /\ UNCHANGED <<row, conn, admin, gc, history>>

-----------------------------------------------------------------------------
(* Putting a user out                                                      *)

Goto(a, from, to) == pc[a] = from /\ pc' = [pc EXCEPT ![a] = to]

Begin(a, devices, to) ==
    /\ Goto(a, "idle", to)
    /\ device' = [device EXCEPT ![a] = devices]
    /\ UNCHANGED <<deny, conn, handler, redis, ids, found, gc, due, excused>>

\* update_user: the transaction on the row, then ban_user or unban_user.
BeginDisable(a) ==
    /\ status = "enabled" /\ status' = "disabled"
    /\ Begin(a, Devices, "ban")
    /\ crossed' = (crossed \/ \E b \in Admins : pc[b] = "unban")

BeginEnable(a) ==
    /\ status = "disabled" /\ status' = "enabled"
    /\ Begin(a, {}, "unban")
    /\ UNCHANGED crossed

\* delete_user wants the row disabled.
BeginDelete(a) ==
    /\ status = "disabled" /\ status' = "deleted"
    /\ Begin(a, Devices, "deny")
    /\ UNCHANGED crossed

\* kick_out, of a login or of one device, does not look at the row.
BeginKick(a) ==
    /\ Begin(a, Devices, "deny") \/ \E d \in Devices : Begin(a, {d}, "deny")
    /\ UNCHANGED <<status, crossed>>

\* The deny key of ban_user, of logout and logout_all, of unban_user.
Ban(a) ==
    /\ Goto(a, "ban", "deny")
    /\ deny' = "banned"
    /\ UNCHANGED <<status, conn, handler, redis, device, ids, found, gc, history>>

Deny(a) ==
    /\ Goto(a, "deny", "members")
    /\ deny' = "refresh"
    /\ UNCHANGED <<status, conn, handler, redis, device, ids, found, gc, history>>

Unban(a) ==
    /\ Goto(a, "unban", "done")
    /\ deny' = "none"
    /\ UNCHANGED <<status, conn, handler, redis, device, ids, found, gc, history>>

\* disconnect_login_sockets: SMEMBERS of the login's index,
Members(a) ==
    /\ Goto(a, "members", IF index = {} THEN "done" ELSE "fetch")
    /\ ids' = [ids EXCEPT ![a] = index]
    /\ due' = [due EXCEPT ![a] = IF device[a] = Devices THEN Open ELSE {}]
    /\ excused' = excused \cup {s \in Sockets : conn[s] = "stored"}
    /\ UNCHANGED <<row, conn, handler, redis, device, found, gc, crossed>>

\* MGET of their sessions,
Fetch(a) ==
    /\ Goto(a, "fetch", "act")
    /\ found' = [found EXCEPT ![a] = ids[a] \cap session]
    /\ UNCHANGED <<row, conn, handler, redis, device, ids, gc, history>>

Mine(a) == {s \in found[a] : DeviceOf[s] \in device[a]}

\* Mutant: only sockets whose handler is registered are closed.
Act_ReadyOnly(a) ==
    /\ Goto(a, "act", "clean")
    /\ LET closing == {s \in Mine(a) : conn[s] = "ready"}
       IN  Close(closing) /\ excused' = excused \ closing
    /\ UNCHANGED <<row, redis, device, ids, found, gc, due, crossed>>

\* the loop that closes what get_socket finds; disconnect() may fail;
Act(a) ==
    /\ Goto(a, "act", "clean")
    /\ \E failed \in SUBSET (Mine(a) \cap Open) :
        LET closing == (Mine(a) \cap Open) \ failed
        IN  Close(closing) /\ excused' = (excused \cup failed) \ closing
    /\ UNCHANGED <<row, redis, device, ids, found, gc, due, crossed>>

\* then cleanup_stale_login_index and cleanup_batch.
CleanStale(a) ==
    /\ pc[a] = "clean" /\ ~ ids[a] \subseteq found[a]
    /\ Remove(ids[a] \ found[a], {})
    /\ ids' = [ids EXCEPT ![a] = @ \cap found[a]]
    /\ UNCHANGED <<row, conn, handler, pc, device, found, gc, history>>

\* Mutant: the sessions of other devices go as well.
CleanBatch_All(a) ==
    /\ ids[a] \subseteq found[a]
    /\ Goto(a, "clean", "done")
    /\ Remove(found[a], found[a])
    /\ device' = [device EXCEPT ![a] = {}]
    /\ ids' = [ids EXCEPT ![a] = {}] /\ found' = [found EXCEPT ![a] = {}]
    /\ due' = [due EXCEPT ![a] = @ \ Closed]
    /\ UNCHANGED <<row, conn, handler, gc, excused, crossed>>

CleanBatch(a) ==
    /\ ids[a] \subseteq found[a]
    /\ Goto(a, "clean", "done")
    /\ Remove(Mine(a), Mine(a))
    /\ device' = [device EXCEPT ![a] = {}]
    /\ ids' = [ids EXCEPT ![a] = {}] /\ found' = [found EXCEPT ![a] = {}]
    /\ due' = [due EXCEPT ![a] = @ \ Closed]
    /\ UNCHANGED <<row, conn, handler, gc, excused, crossed>>

\* A call fails, or the handler is dropped.
Abandon(a) ==
    /\ Busy(a)
    /\ pc' = [pc EXCEPT ![a] = "failed"]
    /\ crossed' = (crossed \/ pc[a] = "ban")
    /\ device' = [device EXCEPT ![a] = {}]
    /\ ids' = [ids EXCEPT ![a] = {}] /\ found' = [found EXCEPT ![a] = {}]
    /\ due' = [due EXCEPT ![a] = {}]
    /\ UNCHANGED <<row, conn, handler, redis, gc, excused>>

-----------------------------------------------------------------------------
(* gc_stale_entries and restarts                                           *)

GcStart == [at |-> "read", members |-> {}]

GcRead ==
    /\ gc.at = "read"
    /\ gc' = IF index = {} THEN GcStart ELSE [at |-> "check", members |-> index]
    /\ UNCHANGED <<row, conn, handler, redis, admin, history>>

GcCheck ==
    /\ gc.at = "check"
    /\ gc' = IF gc.members \subseteq session THEN GcStart
             ELSE [gc EXCEPT !.at = "remove", !.members = @ \ session]
    /\ UNCHANGED <<row, conn, handler, redis, admin, history>>

GcRemove ==
    /\ gc.at = "remove"
    /\ index' = index \ gc.members
    /\ gc' = GcStart
    /\ UNCHANGED <<row, conn, handler, session, admin, history>>

\* The process stops and starts: sockets, handlers and operations are gone.
Restart ==
    /\ Open # {} \/ (\E s \in Sockets : conn[s] \in {"store", "stored"}) \/ (\E a \in Admins : Busy(a))
    /\ conn' = [s \in Sockets |-> IF conn[s] = "idle" THEN "idle" ELSE "closed"]
    /\ handler' = [s \in Sockets |-> "none"]
    /\ excused' = excused \cap {s \in Sockets : conn[s] = "idle"}
    /\ pc' = [a \in Admins |-> IF Busy(a) THEN "failed" ELSE pc[a]]
    /\ gc' = GcStart
    /\ crossed' = (crossed \/ \E a \in Admins : pc[a] = "ban")
    /\ device' = [a \in Admins |-> {}] /\ due' = [a \in Admins |-> {}]
    /\ ids' = [a \in Admins |-> {}] /\ found' = [a \in Admins |-> {}]
    /\ UNCHANGED <<row, redis>>

Connection(s) ==
    \/ Authenticate(s) \/ Refuse(s) \/ Store(s) \/ Attach(s) \/ Connected(s) \/ Leave(s)

Handler(s) == HandlerGet(s) \/ HandlerClean(s)

Operation(a) ==
    \/ BeginDisable(a) \/ BeginEnable(a) \/ BeginDelete(a) \/ BeginKick(a)
    \/ Ban(a) \/ Deny(a) \/ Unban(a)
    \/ Members(a) \/ Fetch(a) \/ Act(a) \/ CleanStale(a) \/ CleanBatch(a)
    \/ Abandon(a)

Gc == GcRead \/ GcCheck \/ GcRemove

Next ==
    \/ \E s \in Sockets : Connection(s) \/ Handler(s) \/ Expire(s)
    \/ \E a \in Admins : Operation(a)
    \/ Gc
    \/ Restart

\* A spawned handler is polled, a time to live ends, the cron job runs again
\* and again. Nobody has to connect, to leave or to put anyone out.
Fairness ==
    /\ \A s \in Sockets : WF_vars(Handler(s)) /\ WF_vars(Expire(s))
    /\ WF_vars(Gc)

Spec == Init /\ [][Next]_vars /\ Fairness

-----------------------------------------------------------------------------
(* Properties                                                              *)

\* Every variable has its type; a handler runs only for a closed socket, and
\* a socket's session is never older than its connection.
TypeOK ==
    /\ status \in {"enabled", "disabled", "deleted"}
    /\ deny \in {"none", "banned", "refresh"}
    /\ conn \in [Sockets -> {"idle", "store", "stored", "attached", "ready", "closed"}]
    /\ handler \in [Sockets -> {"none", "get", "clean", "clean_unknown"}]
    /\ \A s \in Sockets : handler[s] # "none" => conn[s] = "closed"
    /\ session \subseteq {s \in Sockets : conn[s] \notin {"idle", "store"}}
    /\ index \subseteq Sockets
    /\ pc \in [Admins -> {"idle", "done", "failed"} \cup Steps]
    /\ device \in [Admins -> SUBSET Devices]
    /\ ids \in [Admins -> SUBSET Sockets] /\ found \in [Admins -> SUBSET Sockets]
    /\ gc \in [at : {"read", "check", "remove"}, members : SUBSET Sockets]
    /\ due \in [Admins -> SUBSET Sockets] /\ excused \subseteq Sockets \ Closed
    /\ crossed \in BOOLEAN

\* An index leads to every session there is, whatever the collector, the
\* handlers and concurrent disconnects remove from it at the same time.
SessionIndexed == session \subseteq index

\* A socket that is open can be found by its session, so that the user can be
\* put out, unless the session ran out under it, an operation cleaned it up
\* while the socket was still connecting, or its disconnect failed.
OpenIsFindable == Open \ session \subseteq excused

\* A socket that was open when disable, delete or kick_out read the login's
\* index is closed when the operation has returned, or it had no session or
\* its disconnect failed. Those still connecting slip through.
PutOutIsOut ==
    \A a \in Admins : pc[a] = "done" => due[a] \subseteq Closed \cup excused

\* Once a user is disabled and nothing is under way, no token from before is
\* accepted, unless an enable ran at the same time or a disable was cut short:
\* update_user writes the row first and the deny key later.
DisabledIsDenied ==
    status # "enabled" /\ (\A a \in Admins : ~ Busy(a)) => deny # "none" \/ crossed

\* Whoever is disabled, deleted or kicked out has left.
UsersArePutOut == PutOutIsOut /\ DisabledIsDenied

\* What a closed connection left in Redis goes away, with or without its
\* handler: the session by its time to live, the indexes by the collector.
ClosedIsForgotten ==
    \A s \in Sockets :
        conn[s] = "closed" ~> s \notin session /\ s \notin index

\* Whoever holds a connection can be found through what Redis knows of it.
SocketsFindable == TypeOK /\ SessionIndexed /\ OpenIsFindable

=============================================================================
