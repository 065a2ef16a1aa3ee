-------------------------- MODULE SocketGatewayProofs --------------------------
(***************************************************************************)
(* Proofs about SocketGateway, for any number of sockets, devices and      *)
(* administrators: the collector, the handlers of closed sockets and the   *)
(* operations that put a user out work on the same keys without a lock.    *)
(***************************************************************************)
EXTENDS SocketGateway, TLAPS

\* Which keys may still name a socket: one that was stored once.
Stored == {s \in Sockets : conn[s] \notin {"idle", "store"}}

\* A socket that holds a connection and has keys, found by get_socket or not yet.
Live(s) == conn[s] \in {"stored", "attached", "ready"}

\* Nobody removes a session's member from the index: what a sweep holds for
\* stale has no session and, sockets being stored once, never gets one again.
IndexHolds ==
    /\ session \subseteq index
    /\ index \subseteq Stored /\ gc.members \subseteq Stored
    /\ gc.at = "remove" => gc.members \cap session = {}
    /\ \A a \in Admins :
         /\ ids[a] \subseteq Stored /\ found[a] \subseteq Stored
         /\ pc[a] \in {"act", "clean"} => (ids[a] \ found[a]) \cap session = {}

\* A live socket without a session is excused; an operation excuses those that
\* are not attached yet when it reads the index, and those it fails to close.
LiveHolds ==
    /\ \A s \in Sockets : Live(s) => s \in session \cup excused
    /\ \A a \in Admins :
         /\ pc[a] \in {"fetch", "act"} =>
              \A s \in ids[a] \cup found[a] : conn[s] = "stored" => s \in excused
         /\ pc[a] = "clean" => \A s \in Mine(a) : Live(s) => s \in excused

\* The sockets an operation is to close are among what it read.
DueHolds ==
    \A a \in Admins :
      /\ \A s \in due[a] : conn[s] \in {"attached", "ready", "closed"}
      /\ pc[a] \notin {"fetch", "act", "clean", "done"} => due[a] = {}
      /\ pc[a] \in {"fetch", "act", "clean"} => due[a] = {} \/ device[a] = Devices
      /\ pc[a] = "fetch" => due[a] \subseteq ids[a] \cup Closed \cup excused
      /\ pc[a] = "act" => due[a] \subseteq found[a] \cup Closed \cup excused
      /\ pc[a] \in {"clean", "done"} => due[a] \subseteq Closed \cup excused

\* A disabled user without a deny key is about to be banned, and nobody is
\* about to lift the ban, unless a disable met an enable or was cut short.
DenyHolds ==
    status # "enabled" /\ ~ crossed =>
      /\ \A a \in Admins : pc[a] # "unban"
      /\ deny = "none" => \E a \in Admins : pc[a] = "ban"

Inv == TypeOK /\ IndexHolds /\ LiveHolds /\ DueHolds /\ DenyHolds

-----------------------------------------------------------------------------
(* Types.                                                                  *)

LEMMA InitInv == Init => Inv
<1> SUFFICES ASSUME Init PROVE Inv
    OBVIOUS
<1>1. TypeOK
    BY DEF Init, TypeOK, Steps
<1>2. IndexHolds /\ LiveHolds /\ DueHolds /\ DenyHolds
    BY DEF Init, IndexHolds, LiveHolds, DueHolds, DenyHolds, Stored, Live, Mine
<1> QED
    BY <1>1, <1>2 DEF Inv

\* Sockets that are closed are closed for good, and the others keep going.
LEMMA Closes ==
    ASSUME TypeOK, NEW S \in SUBSET Sockets, Close(S)
    PROVE  /\ conn' \in [Sockets -> {"idle", "store", "stored", "attached", "ready", "closed"}]
           /\ handler' \in [Sockets -> {"none", "get", "clean", "clean_unknown"}]
           /\ \A s \in Sockets : handler'[s] # "none" => conn'[s] = "closed"
           /\ \A s \in Sockets : conn'[s] = IF s \in S THEN "closed" ELSE conn[s]
BY DEF TypeOK, Close

LEMMA ConnectionTypes ==
    ASSUME TypeOK, NEW s \in Sockets, Connection(s) \/ Handler(s) \/ Expire(s)
    PROVE  TypeOK'
<1> USE DEF TypeOK, row, redis, admin, history, Closed
<1>1. CASE Authenticate(s)
    BY <1>1 DEF Authenticate
<1>2. CASE Refuse(s)
    <2>1. Close({s}) /\ excused' = excused \ {s} /\ UNCHANGED <<row, redis, admin, gc, due, crossed>>
        BY <1>2 DEF Refuse
    <2> QED
        BY <2>1, Closes
<1>3. CASE Store(s)
    BY <1>3 DEF Store
<1>4. CASE Attach(s)
    BY <1>4 DEF Attach
<1>5. CASE Connected(s)
    BY <1>5 DEF Connected
<1>6. CASE Leave(s)
    <2>1. Close({s}) /\ excused' = excused \ {s} /\ UNCHANGED <<row, redis, admin, gc, due, crossed>>
        BY <1>6 DEF Leave
    <2> QED
        BY <2>1, Closes
<1>7. CASE Expire(s)
    BY <1>7 DEF Expire
<1>8. CASE HandlerGet(s)
    BY <1>8 DEF HandlerGet
<1>9. CASE HandlerClean(s)
    BY <1>9 DEF HandlerClean, Remove
<1> QED
    BY <1>1, <1>2, <1>3, <1>4, <1>5, <1>6, <1>7, <1>8, <1>9 DEF Connection, Handler

LEMMA OperationTypes ==
    ASSUME TypeOK, NEW a \in Admins, Operation(a)
    PROVE  TypeOK'
<1> USE DEF TypeOK, row, redis, admin, history, Goto, Steps
<1>1. CASE BeginDisable(a) \/ BeginEnable(a) \/ BeginDelete(a)
    <2>1. CASE BeginDisable(a)
        <3>1. crossed' \in BOOLEAN /\ status' = "disabled" /\ Begin(a, Devices, "ban")
            BY <2>1 DEF BeginDisable
        <3> QED
            BY <3>1 DEF Begin, Closed
    <2>2. CASE BeginEnable(a)
        BY <2>2 DEF BeginEnable, Begin, Closed
    <2>3. CASE BeginDelete(a)
        BY <2>3 DEF BeginDelete, Begin, Closed
    <2> QED
        BY <1>1, <2>1, <2>2, <2>3
<1>2. CASE BeginKick(a)
    <2>1. PICK devices \in SUBSET Devices : Begin(a, devices, "deny")
        BY <1>2 DEF BeginKick
    <2> QED
        BY <1>2, <2>1 DEF BeginKick, Begin, Closed
<1>3. CASE Ban(a) \/ Deny(a) \/ Unban(a)
    BY <1>3 DEF Ban, Deny, Unban, Closed
<1>4. CASE Members(a)
    BY <1>4 DEF Members, Open, Closed
<1>5. CASE Fetch(a)
    BY <1>5 DEF Fetch, Closed
<1>6. CASE Act(a)
    <2>1. PICK failed \in SUBSET (Mine(a) \cap Open) :
            LET closing == (Mine(a) \cap Open) \ failed
            IN  Close(closing) /\ excused' = (excused \cup failed) \ closing
        BY <1>6 DEF Act
    <2> DEFINE closing == (Mine(a) \cap Open) \ failed
    <2>2. closing \subseteq Sockets /\ failed \subseteq Sockets
          /\ \A x \in failed : conn[x] # "closed"
        BY DEF Open
    <2> HIDE DEF closing
    <2>3. Close(closing) /\ excused' = (excused \cup failed) \ closing
        BY <2>1 DEF closing
    <2>4. excused' \subseteq Sockets \ Closed'
        BY <2>2, <2>3, Closes DEF Closed
    <2>5. session \subseteq {x \in Sockets : conn'[x] \notin {"idle", "store"}}
        BY <2>2, <2>3, Closes
    <2>6. /\ UNCHANGED <<status, deny, session, index, device, ids, found, gc, due, crossed>>
          /\ pc' = [pc EXCEPT ![a] = "clean"]
        BY <1>6 DEF Act
    <2>7. /\ conn' \in [Sockets -> {"idle", "store", "stored", "attached", "ready", "closed"}]
          /\ handler' \in [Sockets -> {"none", "get", "clean", "clean_unknown"}]
          /\ \A s \in Sockets : handler'[s] # "none" => conn'[s] = "closed"
        BY <2>2, <2>3, Closes
    <2> QED
        BY <2>4, <2>5, <2>6, <2>7
<1>7. CASE CleanStale(a)
    BY <1>7 DEF CleanStale, Remove, Closed
<1>8. CASE CleanBatch(a)
    BY <1>8 DEF CleanBatch, Remove, Closed
<1>9. CASE Abandon(a)
    BY <1>9 DEF Abandon, Closed
<1> QED
    BY <1>1, <1>2, <1>3, <1>4, <1>5, <1>6, <1>7, <1>8, <1>9 DEF Operation

LEMMA NextTypes == TypeOK /\ [Next]_vars => TypeOK'
<1> SUFFICES ASSUME TypeOK, [Next]_vars PROVE TypeOK'
    OBVIOUS
<1>1. CASE UNCHANGED vars
    BY <1>1 DEF vars, TypeOK, row, redis, admin, history, Closed
<1>2. CASE Gc
    <2>1. CASE GcRead
        BY <2>1 DEF GcRead, GcStart, TypeOK, row, redis, admin, history, Closed
    <2>2. CASE GcCheck
        BY <2>2 DEF GcCheck, GcStart, TypeOK, row, redis, admin, history, Closed
    <2>3. CASE GcRemove
        BY <2>3 DEF GcRemove, GcStart, TypeOK, row, redis, admin, history, Closed
    <2> QED
        BY <1>2, <2>1, <2>2, <2>3 DEF Gc
<1>3. CASE Restart
    <2>1. crossed' \in BOOLEAN
        BY <1>3 DEF Restart
    <2>2. pc' \in [Admins -> {"idle", "done", "failed"} \cup Steps]
        BY <1>3 DEF Restart, TypeOK
    <2>3. excused' \subseteq Sockets \ Closed'
        BY <1>3 DEF Restart, TypeOK, Closed
    <2>4. UNCHANGED <<status, deny, session, index>> /\ gc' = GcStart
        BY <1>3 DEF Restart, row, redis
    <2>5. /\ conn' = [s \in Sockets |-> IF conn[s] = "idle" THEN "idle" ELSE "closed"]
          /\ handler' = [s \in Sockets |-> "none"]
          /\ device' = [b \in Admins |-> {}] /\ due' = [b \in Admins |-> {}]
          /\ ids' = [b \in Admins |-> {}] /\ found' = [b \in Admins |-> {}]
        BY <1>3 DEF Restart
    <2> QED
        BY <2>1, <2>2, <2>3, <2>4, <2>5 DEF TypeOK, GcStart
<1> QED
    BY <1>1, <1>2, <1>3, ConnectionTypes, OperationTypes DEF Next

-----------------------------------------------------------------------------
(* What the steps do to connections and operations.                        *)

\* An administrator starts: nothing but its place and its devices changes.
LEMMA BeginMoves ==
    ASSUME TypeOK, NEW a \in Admins,
           BeginDisable(a) \/ BeginEnable(a) \/ BeginDelete(a) \/ BeginKick(a)
    PROVE  \E devices \in SUBSET Devices, to \in {"ban", "deny", "unban"} : Begin(a, devices, to)
<1>1. CASE BeginDisable(a) \/ BeginEnable(a) \/ BeginDelete(a)
    BY <1>1 DEF BeginDisable, BeginEnable, BeginDelete
<1>2. CASE BeginKick(a)
    BY <1>2 DEF BeginKick
<1> QED
    BY <1>1, <1>2

\* The loop of an operation: what it does not close it excuses.
LEMMA ActMoves ==
    ASSUME TypeOK, NEW a \in Admins, Act(a)
    PROVE  /\ pc[a] = "act" /\ pc' = [pc EXCEPT ![a] = "clean"]
           /\ UNCHANGED <<status, deny, session, index, device, ids, found, gc, due, crossed>>
           /\ conn' \in [Sockets -> {"idle", "store", "stored", "attached", "ready", "closed"}]
           /\ \A s \in Sockets : conn'[s] = conn[s] \/ (conn'[s] = "closed" /\ s \in Open)
           /\ \A s \in Mine(a) \cap Open : conn'[s] = "closed" \/ s \in excused'
           /\ excused \subseteq excused' \cup Closed'
<1>1. PICK failed \in SUBSET (Mine(a) \cap Open) :
        LET closing == (Mine(a) \cap Open) \ failed
        IN  Close(closing) /\ excused' = (excused \cup failed) \ closing
    BY DEF Act
<1> DEFINE closing == (Mine(a) \cap Open) \ failed
<1>2. closing \subseteq Open /\ closing \subseteq Sockets /\ Mine(a) \cap Open \subseteq closing \cup failed
    BY DEF Open
<1>3. Close(closing) /\ excused' = (excused \cup failed) \ closing
    BY <1>1
<1> HIDE DEF closing
<1>4. /\ conn' \in [Sockets -> {"idle", "store", "stored", "attached", "ready", "closed"}]
      /\ \A s \in Sockets : conn'[s] = IF s \in closing THEN "closed" ELSE conn[s]
    BY <1>2, <1>3, Closes
<1>5. \A s \in Mine(a) \cap Open : conn'[s] = "closed" \/ s \in excused'
    BY <1>2, <1>3, <1>4 DEF Open
<1>6. excused \subseteq excused' \cup Closed'
    BY <1>2, <1>3, <1>4 DEF Closed
<1>7. /\ pc[a] = "act" /\ pc' = [pc EXCEPT ![a] = "clean"]
      /\ UNCHANGED <<status, deny, session, index, device, ids, found, gc, due, crossed>>
    BY DEF Act, Goto, row, redis
<1> QED
    BY <1>2, <1>4, <1>5, <1>6, <1>7

\* A connection moves on, or closes: the others stay as they are.
LEMMA ConnectionMoves ==
    ASSUME TypeOK, NEW s \in Sockets,
           Authenticate(s) \/ Refuse(s) \/ Attach(s) \/ Connected(s) \/ Leave(s)
    PROVE  /\ UNCHANGED <<status, deny, session, index, pc, device, ids, found, gc, due, crossed>>
           /\ conn' \in [Sockets -> {"idle", "store", "stored", "attached", "ready", "closed"}]
           /\ \A r \in Sockets \ {s} : conn'[r] = conn[r]
           /\ \/ conn[s] = "idle" /\ conn'[s] = "store"
              \/ conn[s] = "stored" /\ conn'[s] = "attached"
              \/ conn[s] = "attached" /\ conn'[s] = "ready"
              \/ conn'[s] = "closed"
           /\ excused' = excused \/ (conn'[s] = "closed" /\ excused' = excused \ {s})
<1>1. CASE Authenticate(s) \/ Attach(s) \/ Connected(s)
    BY <1>1 DEF Authenticate, Attach, Connected, TypeOK, row, redis, admin, history
<1>2. CASE Refuse(s) \/ Leave(s)
    <2>1. Close({s}) /\ excused' = excused \ {s} /\ UNCHANGED <<row, redis, admin, gc, due, crossed>>
        BY <1>2 DEF Refuse, Leave
    <2> QED
        BY <2>1, Closes DEF row, redis, admin
<1> QED
    BY <1>1, <1>2

-----------------------------------------------------------------------------
(* The index.                                                              *)

LEMMA IndexStep == TypeOK /\ TypeOK' /\ IndexHolds /\ [Next]_vars => IndexHolds'
<1> SUFFICES ASSUME TypeOK, TypeOK', IndexHolds, [Next]_vars PROVE IndexHolds'
    OBVIOUS
<1> USE DEF IndexHolds, Stored
<1>1. CASE UNCHANGED vars
    BY <1>1 DEF vars, row, redis, admin
<1>2. CASE \E s \in Sockets : Connection(s) \/ Handler(s) \/ Expire(s)
    <2>1. PICK s \in Sockets : Connection(s) \/ Handler(s) \/ Expire(s)
        BY <1>2
    <2>2. CASE Authenticate(s) \/ Refuse(s) \/ Attach(s) \/ Connected(s) \/ Leave(s)
        <3>1. \A r \in Sockets : conn[r] \notin {"idle", "store"} => conn'[r] \notin {"idle", "store"}
            BY <2>2, ConnectionMoves
        <3>2. UNCHANGED <<session, index, pc, ids, found, gc>>
            BY <2>2, ConnectionMoves
        <3> QED
            BY <3>1, <3>2
    <2>3. CASE Store(s)
        BY <2>3 DEF Store, TypeOK, admin
    <2>4. CASE Expire(s)
        BY <2>4 DEF Expire, admin
    <2>5. CASE HandlerGet(s)
        BY <2>5 DEF HandlerGet, redis, admin
    <2>6. CASE HandlerClean(s)
        BY <2>6 DEF HandlerClean, Remove, redis, admin
    <2> QED
        BY <2>1, <2>2, <2>3, <2>4, <2>5, <2>6 DEF Connection, Handler
<1>3. CASE \E a \in Admins : Operation(a)
    <2>1. PICK a \in Admins : Operation(a)
        BY <1>3
    <2>2. CASE BeginDisable(a) \/ BeginEnable(a) \/ BeginDelete(a) \/ BeginKick(a)
        BY <2>2, BeginMoves DEF Begin, Goto, redis, TypeOK
    <2>3. CASE Ban(a) \/ Deny(a) \/ Unban(a)
        BY <2>3 DEF Ban, Deny, Unban, Goto, redis, TypeOK
    <2>4. CASE Members(a)
        BY <2>4 DEF Members, Goto, redis, TypeOK
    <2>5. CASE Fetch(a)
        BY <2>5 DEF Fetch, Goto, redis, TypeOK
    <2>6. CASE Act(a)
        <3>1. \A r \in Sockets : conn[r] \notin {"idle", "store"} => conn'[r] \notin {"idle", "store"}
            BY <2>6, ActMoves
        <3>2. UNCHANGED <<session, index, ids, found, gc>> /\ pc[a] = "act" /\ pc' = [pc EXCEPT ![a] = "clean"]
            BY <2>6, ActMoves
        <3> QED
            BY <3>1, <3>2 DEF TypeOK
    <2>7. CASE CleanStale(a)
        BY <2>7 DEF CleanStale, Remove, TypeOK
    <2>8. CASE CleanBatch(a)
        BY <2>8 DEF CleanBatch, Goto, Remove, Mine, TypeOK
    <2>9. CASE Abandon(a)
        BY <2>9 DEF Abandon, redis, TypeOK
    <2> QED
        BY <2>1, <2>2, <2>3, <2>4, <2>5, <2>6, <2>7, <2>8, <2>9 DEF Operation
<1>4. CASE Gc
    <2>1. CASE GcRead
        BY <2>1 DEF GcRead, GcStart, redis, admin
    <2>2. CASE GcCheck
        BY <2>2 DEF GcCheck, GcStart, TypeOK, redis, admin
    <2>3. CASE GcRemove
        BY <2>3 DEF GcRemove, GcStart, TypeOK, admin
    <2> QED
        BY <1>4, <2>1, <2>2, <2>3 DEF Gc
<1>5. CASE Restart
    BY <1>5 DEF Restart, GcStart, TypeOK, redis
<1> QED
    BY <1>1, <1>2, <1>3, <1>4, <1>5 DEF Next

-----------------------------------------------------------------------------
(* The live sockets.                                                       *)

LEMMA LiveStep == TypeOK /\ TypeOK' /\ IndexHolds /\ LiveHolds /\ [Next]_vars => LiveHolds'
<1> SUFFICES ASSUME TypeOK, TypeOK', IndexHolds, LiveHolds, [Next]_vars PROVE LiveHolds'
    OBVIOUS
<1> USE DEF LiveHolds, Live, Mine
<1>1. CASE UNCHANGED vars
    BY <1>1 DEF vars, redis, admin, history
<1>2. CASE \E s \in Sockets : Connection(s) \/ Handler(s) \/ Expire(s)
    <2>1. PICK s \in Sockets : Connection(s) \/ Handler(s) \/ Expire(s)
        BY <1>2
    <2>2. CASE Authenticate(s) \/ Refuse(s) \/ Attach(s) \/ Connected(s) \/ Leave(s)
        <3>1. UNCHANGED <<session, pc, device, ids, found>>
            BY <2>2, ConnectionMoves
        <3>2. \A r \in Sockets : /\ conn'[r] \in {"stored", "attached", "ready"} => Live(r)
                                 /\ conn'[r] = "stored" => conn[r] = "stored"
                                 /\ conn'[r] \in {"stored", "attached", "ready"} /\ r \in excused => r \in excused'
            BY <2>2, ConnectionMoves
        <3>3. \A r \in Sockets : conn'[r] \in {"stored", "attached", "ready"} => r \in session' \cup excused'
            BY <3>1, <3>2
        <3>4. \A b \in Admins : ids[b] \subseteq Sockets /\ found[b] \subseteq Sockets
            BY DEF TypeOK
        <3>5. ASSUME NEW b \in Admins
              PROVE  /\ pc'[b] \in {"fetch", "act"} =>
                           \A r \in ids'[b] \cup found'[b] : conn'[r] = "stored" => r \in excused'
                     /\ pc'[b] = "clean" => \A r \in Mine(b)' : conn'[r] \in {"stored", "attached", "ready"} => r \in excused'
            <4>1. ASSUME pc[b] \in {"fetch", "act"}, NEW r \in ids[b] \cup found[b], conn'[r] = "stored"
                  PROVE  r \in excused'
                BY <3>2, <3>4, <4>1
            <4>2. ASSUME pc[b] = "clean", NEW r \in Mine(b), conn'[r] \in {"stored", "attached", "ready"} PROVE r \in excused'
                BY <3>2, <3>4, <4>2
            <4> QED
                BY <3>1, <4>1, <4>2
        <3> QED
            BY <3>3, <3>5
    <2>3. CASE Store(s)
        <3>1. /\ UNCHANGED <<pc, device, ids, found, excused>> /\ session' = session \cup {s}
              /\ conn[s] = "store" /\ conn' = [conn EXCEPT ![s] = "stored"]
            BY <2>3 DEF Store, admin, history
        <3>2. \A b \in Admins : s \notin ids[b] /\ s \notin found[b]
            BY <3>1 DEF IndexHolds, Stored
        <3> QED
            BY <3>1, <3>2 DEF TypeOK
    <2>4. CASE Expire(s)
        BY <2>4 DEF Expire, admin, Closed
    <2>5. CASE HandlerGet(s)
        BY <2>5 DEF HandlerGet, redis, admin, history
    <2>6. CASE HandlerClean(s)
        <3>1. conn[s] = "closed"
            BY <2>6 DEF HandlerClean, TypeOK
        <3> QED
            BY <2>6, <3>1 DEF HandlerClean, Remove, redis, admin, history
    <2> QED
        BY <2>1, <2>2, <2>3, <2>4, <2>5, <2>6 DEF Connection, Handler
<1>3. CASE \E a \in Admins : Operation(a)
    <2>1. PICK a \in Admins : Operation(a)
        BY <1>3
    <2>2. CASE BeginDisable(a) \/ BeginEnable(a) \/ BeginDelete(a) \/ BeginKick(a)
        <3>1. PICK devices \in SUBSET Devices, to \in {"ban", "deny", "unban"} : Begin(a, devices, to)
            BY <2>2, BeginMoves
        <3> QED
            BY <3>1 DEF Begin, Goto, redis, TypeOK
    <2>3. CASE Ban(a) \/ Deny(a) \/ Unban(a)
        BY <2>3 DEF Ban, Deny, Unban, Goto, redis, history, TypeOK
    <2>4. CASE Members(a)
        BY <2>4 DEF Members, Goto, redis, TypeOK
    <2>5. CASE Fetch(a)
        BY <2>5 DEF Fetch, Goto, redis, history, TypeOK
    <2>6. CASE Act(a)
        <3>1. /\ pc[a] = "act" /\ pc' = [pc EXCEPT ![a] = "clean"]
              /\ UNCHANGED <<session, device, ids, found>>
            BY <2>6, ActMoves
        <3>2. \A r \in Sockets : /\ conn'[r] \in {"stored", "attached", "ready"} => Live(r) /\ conn'[r] = conn[r]
                                 /\ conn'[r] \in {"stored", "attached", "ready"} /\ r \in excused => r \in excused'
            BY <2>6, ActMoves DEF Closed, Open, TypeOK
        <3>3. ASSUME NEW r \in Mine(a), conn'[r] \in {"stored", "attached", "ready"} PROVE r \in excused'
            <4>3. r \in Sockets /\ r \in found[a]
                BY DEF TypeOK
            <4>4. CASE conn[r] = "stored"
                BY <3>1, <3>2, <3>3, <4>3, <4>4
            <4>5. CASE r \in Open
                BY <2>6, ActMoves, <3>3, <4>5
            <4> QED
                BY <3>2, <3>3, <4>3, <4>4, <4>5 DEF Open
        <3>4. \A r \in Sockets : conn'[r] \in {"stored", "attached", "ready"} => r \in session' \cup excused'
            BY <3>1, <3>2
        <3>5. \A b \in Admins : ids[b] \subseteq Sockets /\ found[b] \subseteq Sockets
            BY DEF TypeOK
        <3>6. ASSUME NEW b \in Admins
              PROVE  /\ pc'[b] \in {"fetch", "act"} =>
                           \A r \in ids'[b] \cup found'[b] : conn'[r] = "stored" => r \in excused'
                     /\ pc'[b] = "clean" => \A r \in Mine(b)' : conn'[r] \in {"stored", "attached", "ready"} => r \in excused'
            <4>1. ASSUME pc'[b] \in {"fetch", "act"}, NEW r \in ids[b] \cup found[b], conn'[r] = "stored"
                  PROVE  r \in excused'
                BY <3>1, <3>2, <3>5, <4>1 DEF TypeOK
            <4>2. ASSUME pc'[b] = "clean", b # a, NEW r \in Mine(b), conn'[r] \in {"stored", "attached", "ready"} PROVE r \in excused'
                BY <3>1, <3>2, <3>5, <4>2 DEF TypeOK
            <4> QED
                BY <3>1, <3>3, <4>1, <4>2
        <3> QED
            BY <3>4, <3>6
    <2>7. CASE CleanStale(a)
        BY <2>7 DEF CleanStale, Remove, history, TypeOK
    <2>8. CASE CleanBatch(a)
        <3>1. /\ pc[a] = "clean" /\ pc' = [pc EXCEPT ![a] = "done"]
              /\ session' = session \ Mine(a) /\ UNCHANGED <<conn, excused>>
              /\ \A b \in Admins \ {a} : device'[b] = device[b] /\ ids'[b] = ids[b] /\ found'[b] = found[b]
            BY <2>8 DEF CleanBatch, Goto, Remove, TypeOK
        <3> QED
            BY <3>1 DEF TypeOK
    <2>9. CASE Abandon(a)
        BY <2>9 DEF Abandon, redis, TypeOK
    <2> QED
        BY <2>1, <2>2, <2>3, <2>4, <2>5, <2>6, <2>7, <2>8, <2>9 DEF Operation
<1>4. CASE Gc
    <2>1. UNCHANGED <<conn, session, admin, excused>>
        BY <1>4 DEF Gc, GcRead, GcCheck, GcRemove, redis, history
    <2> QED
        BY <2>1 DEF admin
<1>5. CASE Restart
    <2>1. \A s \in Sockets : conn'[s] \notin {"stored", "attached", "ready"} /\ conn'[s] # "stored"
        BY <1>5 DEF Restart
    <2>2. \A a \in Admins : ids'[a] = {} /\ found'[a] = {}
        BY <1>5 DEF Restart
    <2> QED
        BY <2>1, <2>2
<1> QED
    BY <1>1, <1>2, <1>3, <1>4, <1>5 DEF Next

-----------------------------------------------------------------------------
(* What is due.                                                            *)

\* Whatever a step does, who is closed or excused stays so.
LEMMA DueStep ==
    TypeOK /\ TypeOK' /\ IndexHolds /\ LiveHolds /\ DueHolds /\ [Next]_vars => DueHolds'
<1> SUFFICES ASSUME TypeOK, TypeOK', IndexHolds, LiveHolds, DueHolds, [Next]_vars PROVE DueHolds'
    OBVIOUS
<1> USE DEF DueHolds
<1>1. CASE UNCHANGED vars
    BY <1>1 DEF vars, redis, admin, history, Closed
<1>2. CASE \E s \in Sockets : Connection(s) \/ Handler(s) \/ Expire(s)
    <2>1. PICK s \in Sockets : Connection(s) \/ Handler(s) \/ Expire(s)
        BY <1>2
    <2>2. CASE Authenticate(s) \/ Refuse(s) \/ Attach(s) \/ Connected(s) \/ Leave(s)
        <3>1. UNCHANGED <<pc, device, ids, found, due>>
            BY <2>2, ConnectionMoves
        <3>2. /\ Closed \cup excused \subseteq Closed' \cup excused'
              /\ \A r \in Sockets : conn[r] \in {"attached", "ready", "closed"}
                                     => conn'[r] \in {"attached", "ready", "closed"}
            BY <2>2, ConnectionMoves DEF Closed, TypeOK
        <3> QED
            BY <3>1, <3>2 DEF TypeOK
    <2>3. CASE Store(s)
        BY <2>3 DEF Store, admin, history, Closed, TypeOK
    <2>4. CASE Expire(s)
        BY <2>4 DEF Expire, admin, Closed
    <2>5. CASE Handler(s)
        BY <2>5 DEF Handler, HandlerGet, HandlerClean, admin, history, Closed
    <2> QED
        BY <2>1, <2>2, <2>3, <2>4, <2>5 DEF Connection
<1>3. CASE \E a \in Admins : Operation(a)
    <2>1. PICK a \in Admins : Operation(a)
        BY <1>3
    <2>2. CASE BeginDisable(a) \/ BeginEnable(a) \/ BeginDelete(a) \/ BeginKick(a)
        <3>1. PICK devices \in SUBSET Devices, to \in {"ban", "deny", "unban"} : Begin(a, devices, to)
            BY <2>2, BeginMoves
        <3> QED
            BY <3>1 DEF Begin, Goto, Closed, TypeOK
    <2>3. CASE Ban(a) \/ Deny(a) \/ Unban(a)
        BY <2>3 DEF Ban, Deny, Unban, Goto, history, Closed, TypeOK
    <2>4. CASE Members(a)
        <3>1. /\ pc[a] = "members" /\ pc' = [pc EXCEPT ![a] = IF index = {} THEN "done" ELSE "fetch"]
              /\ ids' = [ids EXCEPT ![a] = index] /\ UNCHANGED <<conn, device, found>>
              /\ due' = [due EXCEPT ![a] = IF device[a] = Devices THEN Open ELSE {}]
              /\ excused \subseteq excused'
            BY <2>4 DEF Members, Goto
        <3>2. Open \subseteq index \cup excused'
            BY <3>1 DEF Open, LiveHolds, Live, IndexHolds
        <3>3. \A b \in Admins \ {a} : /\ pc'[b] = pc[b] /\ ids'[b] = ids[b] /\ due'[b] = due[b]
                                      /\ Closed' = Closed
            BY <3>1 DEF Closed, TypeOK
        <3>4. /\ due'[a] \subseteq Open /\ (due'[a] = {} \/ device[a] = Devices)
              /\ ids'[a] = index
              /\ index = {} => pc'[a] = "done"
              /\ index # {} => pc'[a] = "fetch"
            BY <3>1 DEF TypeOK
        <3> QED
            BY <3>1, <3>2, <3>3, <3>4 DEF Open
    <2>5. CASE Fetch(a)
        <3>1. /\ pc[a] = "fetch" /\ pc' = [pc EXCEPT ![a] = "act"]
              /\ found' = [found EXCEPT ![a] = ids[a] \cap session]
              /\ UNCHANGED <<conn, device, ids, due, excused>>
            BY <2>5 DEF Fetch, Goto, history
        <3>2. due[a] \subseteq found'[a] \cup Closed \cup excused
            BY <3>1 DEF LiveHolds, Live, TypeOK, Closed
        <3> QED
            BY <3>1, <3>2 DEF Closed, TypeOK
    <2>6. CASE Act(a)
        <3>1. /\ pc[a] = "act" /\ pc' = [pc EXCEPT ![a] = "clean"]
              /\ UNCHANGED <<device, ids, found, due>>
            BY <2>6, ActMoves
        <3>2. /\ Closed \cup excused \subseteq Closed' \cup excused'
              /\ \A r \in Sockets : conn[r] \in {"attached", "ready", "closed"}
                                     => conn'[r] \in {"attached", "ready", "closed"}
            BY <2>6, ActMoves DEF Closed, Open, TypeOK
        <3>3. ASSUME NEW r \in due[a] PROVE r \in Closed' \cup excused'
            <4>2. r \in Sockets /\ device[a] = Devices /\ r \in found[a] \cup Closed \cup excused
                BY <3>1 DEF TypeOK
            <4>3. CASE r \in found[a] /\ r \notin Closed
                <5>1. r \in Mine(a) \cap Open
                    BY <4>2, <4>3, GatewayAssumption DEF Mine, Open, Closed
                <5> QED
                    BY <2>6, ActMoves, <4>2, <5>1 DEF Closed
            <4> QED
                BY <3>2, <4>2, <4>3
        <3> QED
            BY <3>1, <3>2, <3>3 DEF TypeOK
    <2>7. CASE CleanStale(a)
        BY <2>7 DEF CleanStale, history, Closed, TypeOK
    <2>8. CASE CleanBatch(a)
        <3>1. /\ pc[a] = "clean" /\ pc' = [pc EXCEPT ![a] = "done"]
              /\ due' = [due EXCEPT ![a] = @ \ Closed] /\ UNCHANGED <<conn, excused>>
              /\ \A b \in Admins \ {a} : device'[b] = device[b] /\ ids'[b] = ids[b] /\ found'[b] = found[b]
            BY <2>8 DEF CleanBatch, Goto, TypeOK
        <3> QED
            BY <3>1 DEF Closed, TypeOK
    <2>9. CASE Abandon(a)
        BY <2>9 DEF Abandon, Closed, TypeOK
    <2> QED
        BY <2>1, <2>2, <2>3, <2>4, <2>5, <2>6, <2>7, <2>8, <2>9 DEF Operation
<1>4. CASE Gc
    <2>1. UNCHANGED <<conn, admin, history>>
        BY <1>4 DEF Gc, GcRead, GcCheck, GcRemove
    <2> QED
        BY <2>1 DEF admin, history, Closed
<1>5. CASE Restart
    BY <1>5 DEF Restart
<1> QED
    BY <1>1, <1>2, <1>3, <1>4, <1>5 DEF Next

-----------------------------------------------------------------------------
(* The deny key.                                                           *)

LEMMA DenyStep == TypeOK /\ DenyHolds /\ [Next]_vars => DenyHolds'
<1> SUFFICES ASSUME TypeOK, DenyHolds, [Next]_vars PROVE DenyHolds'
    OBVIOUS
<1> USE DEF DenyHolds
<1>1. CASE UNCHANGED vars
    BY <1>1 DEF vars, row, admin, history
<1>2. CASE \E s \in Sockets : Connection(s) \/ Handler(s) \/ Expire(s)
    <2>1. PICK s \in Sockets : Connection(s) \/ Handler(s) \/ Expire(s)
        BY <1>2
    <2>2. UNCHANGED <<status, deny, pc, crossed>>
        <3>1. CASE Authenticate(s) \/ Refuse(s) \/ Attach(s) \/ Connected(s) \/ Leave(s)
            BY <3>1, ConnectionMoves
        <3>2. CASE Store(s) \/ Expire(s) \/ Handler(s)
            BY <3>2 DEF Store, Expire, Handler, HandlerGet, HandlerClean, row, admin, history
        <3> QED
            BY <2>1, <3>1, <3>2 DEF Connection
    <2> QED
        BY <2>2
<1>3. CASE \E a \in Admins : Operation(a)
    <2>1. PICK a \in Admins : Operation(a)
        BY <1>3
    <2>2. CASE BeginDisable(a)
        <3>1. /\ pc' = [pc EXCEPT ![a] = "ban"] /\ (~ crossed' => \A b \in Admins : pc[b] # "unban")
            BY <2>2 DEF BeginDisable, Begin, Goto
        <3> QED
            BY <3>1 DEF TypeOK
    <2>3. CASE BeginEnable(a)
        BY <2>3 DEF BeginEnable
    <2>4. CASE BeginDelete(a) \/ BeginKick(a)
        <3>1. /\ pc[a] = "idle" /\ pc' = [pc EXCEPT ![a] = "deny"] /\ UNCHANGED <<deny, crossed>>
              /\ status' # "enabled" => status # "enabled"
            BY <2>4 DEF BeginDelete, BeginKick, Begin, Goto
        <3> QED
            BY <3>1 DEF TypeOK
    <2>5. CASE Ban(a) \/ Deny(a)
        BY <2>5 DEF Ban, Deny, Goto, history, TypeOK
    <2>6. CASE Unban(a)
        BY <2>6 DEF Unban, Goto, history, TypeOK
    <2>7. CASE Members(a) \/ Fetch(a) \/ CleanBatch(a)
        <3>1. UNCHANGED <<status, deny, crossed>>
              /\ \E to \in {"done", "fetch", "act"} : pc[a] \notin {"ban", "unban"} /\ pc' = [pc EXCEPT ![a] = to]
            BY <2>7 DEF Members, Fetch, CleanBatch, Goto, row, history
        <3> QED
            BY <3>1 DEF TypeOK
    <2>8. CASE Act(a)
        <3>1. UNCHANGED <<status, deny, crossed>> /\ pc[a] = "act" /\ pc' = [pc EXCEPT ![a] = "clean"]
            BY <2>8, ActMoves
        <3> QED
            BY <3>1 DEF TypeOK
    <2>9. CASE CleanStale(a)
        BY <2>9 DEF CleanStale, row, history
    <2>10. CASE Abandon(a)
        <3>1. UNCHANGED <<status, deny>> /\ pc' = [pc EXCEPT ![a] = "failed"]
              /\ (~ crossed' => ~ crossed /\ pc[a] # "ban")
            BY <2>10 DEF Abandon, row
        <3> QED
            BY <3>1 DEF TypeOK
    <2> QED
        BY <2>1, <2>2, <2>3, <2>4, <2>5, <2>6, <2>7, <2>8, <2>9, <2>10 DEF Operation
<1>4. CASE Gc
    BY <1>4 DEF Gc, GcRead, GcCheck, GcRemove, row, admin, history
<1>5. CASE Restart
    <2>1. UNCHANGED <<status, deny>> /\ pc' = [a \in Admins |-> IF Busy(a) THEN "failed" ELSE pc[a]]
          /\ (~ crossed' => ~ crossed /\ \A a \in Admins : pc[a] # "ban")
        BY <1>5 DEF Restart, row
    <2> QED
        BY <2>1
<1> QED
    BY <1>1, <1>2, <1>3, <1>4, <1>5 DEF Next

-----------------------------------------------------------------------------
(* The theorems.                                                           *)

LEMMA InvStep == Inv /\ [Next]_vars => Inv'
BY NextTypes, IndexStep, LiveStep, DueStep, DenyStep DEF Inv

LEMMA SpecInv == Spec => []Inv
BY InitInv, InvStep, PTL DEF Spec

\* At every moment the login's index leads to every session, and every open
\* socket has one unless it is excused (ConnectionService, online_service).
THEOREM SpecSocketsFindable == Spec => []SocketsFindable
<1>1. Inv => SocketsFindable
    BY DEF Inv, SocketsFindable, SessionIndexed, OpenIsFindable, IndexHolds, LiveHolds, Live, Open
<1> QED
    BY <1>1, SpecInv, PTL

\* Who was connected when a disable, a delete or a kick out read the index is
\* out when it returns, and a disabled login's tokens are refused.
THEOREM SpecUsersArePutOut == Spec => []UsersArePutOut
<1>1. Inv => PutOutIsOut
    BY DEF Inv, PutOutIsOut, DueHolds
<1>2. Inv => DisabledIsDenied
    BY DEF Inv, DisabledIsDenied, DenyHolds, Busy, Steps
<1> QED
    BY <1>1, <1>2, SpecInv, PTL DEF UsersArePutOut

=============================================================================
