-------------------------- MODULE AdministrationProofs --------------------------
(***************************************************************************)
(* Proofs about Notices, for any requests, users and roles: the rows of a  *)
(* notice fit each other and go with it, a published notice is frozen, and *)
(* what is read stays read. And about DictBundle, for any codes, values    *)
(* and bundles: the dictionary stays consistent. And about MenuTree, for   *)
(* any names, paths and configurations: the menus stay consistent. About   *)
(* CrudPage, for any rows and contracts: rows keep apart, the page fits    *)
(* the interface, and saving what nobody has typed in keeps the column.    *)
(*                                                                         *)
(* The first three go the same way. The properties name the overlaps they  *)
(* except, as the pairs in races. A commit adds the pairs of the request   *)
(* with the operations in its late. So the invariant says, of every        *)
(* request under way, what it has read of the notice (KnowsNotice), what   *)
(* it will write is about (KnowsUsers) and what it will remove             *)
(* (KnowsRows), unless late holds an operation whose commit has made that  *)
(* stale. Effect says what a commit does to the tables, and OthersKnow     *)
(* that a request that does not know of it any longer has the operation in *)
(* its late. Of the dictionary that is KnowsType, KnowsDatum and           *)
(* KnowsBundle, DictEffect and DOthersKnow; of the menus NamesKnown,       *)
(* ParentsKnown and PlanKnown, Overtaken and OvertakenKnows. Of the page,  *)
(* the invariant says what the form, the save under way and each answer    *)
(* hold, and of which row (PageInv).                                       *)
(***************************************************************************)
EXTENDS Notices, DictBundle, MenuTree, CrudPage, FiniteSetTheorems, TLAPS

-----------------------------------------------------------------------------
(* Notices: what is known of a request.                                    *)

\* Where a request can be, by its operation.
Places(o) ==
    CASE o = "create"      -> {"validate", "commit"}
      [] o = "update"      -> {"find", "load_targets", "validate", "commit"}
      [] o = "publish"     -> {"find", "load_targets", "validate", "resolve", "filter", "commit"}
      [] o = "delete"      -> {"find", "delete_targets", "delete_recipients", "delete_notice"}
      [] o = "revoke"      -> {"find", "commit"}
      [] o = "pin"         -> {"find", "commit"}
      [] o = "read"        -> {"visible", "mark"}
      [] o = "delete_user" -> {"find_user", "sweep_recipients", "sweep_targets", "drop_user"}
      [] OTHER             -> {}
AllPlaces == {"idle", "done", "find", "load_targets", "validate", "resolve", "filter", "commit",
              "delete_targets", "delete_recipients", "delete_notice", "visible", "mark",
              "find_user", "sweep_recipients", "sweep_targets", "drop_user"}

Statuses    == {"absent", "draft", "published", "revoked", "deleted"}
NoticeTasks ==
    [op : Operations, who : Users \cup {None}, scope : Scopes \cup {None},
     ids : SUBSET (Users \cup Roles \cup {None}), was : Statuses, to : Scopes,
     aim : SUBSET (Users \cup Roles), found : SUBSET Users, edition : Nat,
     heldT : SUBSET (Users \cup Roles), heldR : SUBSET Users, late : SUBSET Operations]

NoticeTypes ==
    /\ TypeOK /\ editions \in Nat
    /\ task \in [Requests -> NoticeTasks] /\ pc \in [Requests -> AllPlaces]
    /\ races \subseteq Operations \X Operations
    /\ status = "draft" => Holders = {}

\* Whom a target can still name.
Living == users \cup Roles

\* What a request has read of the notice, unless another has committed since.
KnowsNotice(r) ==
    LET t == task[r] IN
    /\ t.op \in {"update", "publish", "delete"} /\ pc[r] # "find" => status # "absent"
    /\ t.op \in {"update", "publish"} /\ pc[r] # "find" /\ status = "published"
          => "publish" \in t.late
    /\ t.op = "publish" /\ pc[r] # "find" /\ Exists /\ "update" \notin t.late =>
         /\ t.to = scope
         /\ pc[r] # "load_targets" => t.aim \cap Living = targets \cap Living
    /\ t.op = "update" /\ pc[r] # "find" =>
         /\ (t.scope = None \/ pc[r] = "load_targets") /\ Exists /\ "update" \notin t.late
              => t.to = scope
         /\ t.scope # None /\ pc[r] # "load_targets" => t.to = t.scope

\* What a request is about to write, unless a user is gone.
KnowsUsers(r) ==
    LET t == task[r] IN
    /\ t.op = "publish" => t.scope = None
    /\ t.op = "create" \/ (t.op = "update" /\ pc[r] \in {"validate", "commit"})
          => t.aim = Scoped(t.to, t.aim)
    /\ t.op \in {"create", "update"} /\ pc[r] = "commit" =>
         /\ t.to = "role" => t.aim # {}
         /\ "delete_user" \notin t.late => t.aim \cap Users \subseteq users
    /\ t.op = "publish" /\ pc[r] = "commit" /\ "delete_user" \notin t.late => t.found \subseteq users

\* What a request is about to remove, unless more was written.
KnowsRows(r) ==
    LET t == task[r] IN
    /\ pc[r] \in {"delete_recipients", "delete_notice"} /\ t.late \cap {"update", "publish"} = {}
          => targets \subseteq t.heldT
    /\ pc[r] = "delete_notice" /\ t.late \cap {"update", "publish"} = {} => Holders \subseteq t.heldR
    /\ t.op \in {"delete_user", "read"} => t.who \in Users
    /\ t.op = "delete_user" => t.heldT \subseteq {t.who} /\ t.heldR \subseteq {t.who}
    /\ pc[r] \in {"sweep_targets", "drop_user"} /\ "publish" \notin t.late
          => Holders \cap {t.who} \subseteq t.heldR
    /\ pc[r] = "drop_user" /\ t.late \cap {"create", "update"} = {}
          => targets \cap {t.who} \subseteq t.heldT
    /\ pc[r] = "mark" => t.edition # 0

Ended(r) == pc[r] \in {"idle", "done"}
Knows(r) ==
    /\ Ended(r) => task[r] = NoTask
    /\ ~ Ended(r) => /\ pc[r] \in Places(task[r].op)
                     /\ KnowsNotice(r) /\ KnowsUsers(r) /\ KnowsRows(r)

NoticeInv ==
    /\ NoticeTypes /\ \A r \in Requests : Knows(r)
    /\ ScopeFits /\ PublishedIsFrozen /\ NoOrphanRows

-----------------------------------------------------------------------------
(* Notices: the steps.                                                     *)

LEMMA NoTaskTyped == NoTask \in NoticeTasks
BY DEF NoTask, NoticeTasks, Operations, Scopes, Statuses

\* A query changes what its request knows, and nothing else.
LEMMA QueryKeeps ==
    ASSUME NoticeInv, NEW r \in Requests, NEW label \in AllPlaces, NEW t \in NoticeTasks,
           Query(r, label, t), Knows(r)'
    PROVE  NoticeInv'
<1>1. /\ UNCHANGED <<notice, rows, people, history>>
      /\ \A q \in Requests \ {r} : pc'[q] = pc[q] /\ task'[q] = task[q]
      /\ pc' \in [Requests -> AllPlaces] /\ task' \in [Requests -> NoticeTasks]
    BY DEF Query, Step, NoticeInv, NoticeTypes
<1> USE <1>1 DEF notice, rows, people, history
<1>2. NoticeTypes'
    BY DEF NoticeInv, NoticeTypes, TypeOK, Holders, NoticeTasks
<1>3. ScopeFits' /\ PublishedIsFrozen' /\ NoOrphanRows'
    BY DEF NoticeInv, ScopeFits, PublishedIsFrozen, NoOrphanRows, Exists, Holders
<1>4. ASSUME NEW q \in Requests \ {r} PROVE Knows(q)'
    <2>1. Knows(q)
        BY DEF NoticeInv
    <2>2. (KnowsNotice(q) => KnowsNotice(q)') /\ (KnowsUsers(q) => KnowsUsers(q)')
        BY DEF KnowsNotice, KnowsUsers, Exists, Living
    <2>3. KnowsRows(q) => KnowsRows(q)'
        BY DEF KnowsRows, Holders
    <2> QED
        BY <2>1, <2>2, <2>3 DEF Knows, Ended
<1> QED
    BY <1>2, <1>3, <1>4 DEF NoticeInv

LEMMA EndKeeps ==
    ASSUME NoticeInv, NEW r \in Requests, End(r)
    PROVE  NoticeInv'
<1>1. Knows(r)'
    BY DEF End, Query, Step, Knows, Ended, NoticeInv, NoticeTypes
<1> QED
    BY <1>1, NoTaskTyped, QueryKeeps DEF End, AllPlaces

\* Where a request moves to by a query, if it does not end.
LEMMA QueryTo ==
    ASSUME NoticeInv, NEW r \in Requests, NEW label \in AllPlaces \ {"idle", "done"},
           NEW t \in NoticeTasks, label \in Places(t.op), Query(r, label, t),
           (KnowsNotice(r) /\ KnowsUsers(r) /\ KnowsRows(r))'
    PROVE  NoticeInv'
<1>1. pc'[r] = label /\ task'[r] = t
    BY DEF Query, Step, NoticeInv, NoticeTypes
<1>2. Knows(r)'
    BY <1>1 DEF Knows, Ended
<1> QED
    BY <1>2, QueryKeeps

LEMMA ScopedTwice ==
    ASSUME NEW s, NEW ids PROVE Scoped(s, Scoped(s, ids)) = Scoped(s, ids)
BY DEF Scoped

LEMMA ScopedTyped ==
    ASSUME NEW s \in Scopes, NEW ids PROVE Scoped(s, ids) \in SUBSET (Users \cup Roles)
BY DEF Scoped, Scopes

LEMMA StartKeeps ==
    ASSUME NoticeInv, NEW r \in Requests, Start(r)
    PROVE  NoticeInv'
<1>0. /\ NoTask \in NoticeTasks /\ NoTask.scope = None /\ NoTask.heldT = {} /\ NoTask.heldR = {}
      /\ pc \in [Requests -> AllPlaces] /\ task \in [Requests -> NoticeTasks]
    BY NoTaskTyped DEF NoTask, NoticeInv, NoticeTypes
<1>1. CASE BeginCreate(r)
    <2>1. PICK s \in Scopes, ids \in (SUBSET Users) \cup (SUBSET Roles) :
              Begin(r, "create", [NoTask EXCEPT !.to = s, !.aim = Scoped(s, ids)], "validate")
        BY <1>1 DEF BeginCreate
    <2> DEFINE t == [[NoTask EXCEPT !.to = s, !.aim = Scoped(s, ids)] EXCEPT !.op = "create"]
    <2>2. t \in NoticeTasks /\ t.op = "create" /\ t.to = s /\ t.aim = Scoped(s, ids)
        BY <1>0, ScopedTyped DEF NoticeTasks, Operations
    <2>3. Query(r, "validate", t)
        BY <2>1 DEF Begin
    <2> HIDE DEF t
    <2>4. pc'[r] = "validate" /\ task'[r] = t
        BY <1>0, <2>3 DEF Query, Step
    <2>5. (KnowsNotice(r) /\ KnowsUsers(r) /\ KnowsRows(r))'
        BY <2>2, <2>4, ScopedTwice DEF KnowsNotice, KnowsUsers, KnowsRows
    <2> QED
        BY <2>2, <2>3, <2>5, QueryTo DEF AllPlaces, Places
<1>2. CASE BeginUpdate(r)
    <2>1. PICK s \in Scopes \cup {None}, ids \in (SUBSET Users) \cup (SUBSET Roles) \cup {{None}} :
              Begin(r, "update", [NoTask EXCEPT !.scope = s, !.ids = ids], "find")
        BY <1>2 DEF BeginUpdate
    <2> DEFINE t == [[NoTask EXCEPT !.scope = s, !.ids = ids] EXCEPT !.op = "update"]
    <2>2. t \in NoticeTasks /\ t.op = "update"
        <3>1. ids \in SUBSET (Users \cup Roles \cup {None})
            OBVIOUS
        <3> QED
            BY <1>0, <3>1 DEF NoticeTasks, Operations
    <2>3. Query(r, "find", t)
        BY <2>1 DEF Begin
    <2> HIDE DEF t
    <2>4. pc'[r] = "find" /\ task'[r] = t
        BY <1>0, <2>3 DEF Query, Step
    <2>5. (KnowsNotice(r) /\ KnowsUsers(r) /\ KnowsRows(r))'
        BY <2>2, <2>4 DEF KnowsNotice, KnowsUsers, KnowsRows
    <2> QED
        BY <2>2, <2>3, <2>5, QueryTo DEF AllPlaces, Places
<1>3. CASE BeginOther(r)
    <2>1. PICK o \in {"delete", "publish", "revoke", "pin"} : Begin(r, o, NoTask, "find")
        BY <1>3 DEF BeginOther
    <2> DEFINE t == [NoTask EXCEPT !.op = o]
    <2>2. t \in NoticeTasks /\ t.op = o /\ t.scope = None
        BY <1>0 DEF NoticeTasks, Operations
    <2>3. Query(r, "find", t)
        BY <2>1 DEF Begin
    <2> HIDE DEF t
    <2>4. pc'[r] = "find" /\ task'[r] = t
        BY <1>0, <2>3 DEF Query, Step
    <2>5. (KnowsNotice(r) /\ KnowsUsers(r) /\ KnowsRows(r))'
        BY <2>2, <2>4 DEF KnowsNotice, KnowsUsers, KnowsRows
    <2> QED
        BY <2>2, <2>3, <2>5, QueryTo DEF AllPlaces, Places
<1>4. CASE BeginRead(r)
    <2>1. PICK u \in Users : Begin(r, "read", [NoTask EXCEPT !.who = u], "visible")
        BY <1>4 DEF BeginRead
    <2> DEFINE t == [[NoTask EXCEPT !.who = u] EXCEPT !.op = "read"]
    <2>2. t \in NoticeTasks /\ t.op = "read" /\ t.who = u
        BY <1>0 DEF NoticeTasks, Operations
    <2>3. Query(r, "visible", t)
        BY <2>1 DEF Begin
    <2> HIDE DEF t
    <2>4. pc'[r] = "visible" /\ task'[r] = t
        BY <1>0, <2>3 DEF Query, Step
    <2>5. (KnowsNotice(r) /\ KnowsUsers(r) /\ KnowsRows(r))'
        BY <2>2, <2>4 DEF KnowsNotice, KnowsUsers, KnowsRows
    <2> QED
        BY <2>2, <2>3, <2>5, QueryTo DEF AllPlaces, Places
<1>5. CASE BeginDeleteUser(r)
    <2>1. PICK u \in Users : Begin(r, "delete_user", [NoTask EXCEPT !.who = u], "find_user")
        BY <1>5 DEF BeginDeleteUser
    <2> DEFINE t == [[NoTask EXCEPT !.who = u] EXCEPT !.op = "delete_user"]
    <2>2. /\ t \in NoticeTasks /\ t.op = "delete_user" /\ t.who = u
          /\ t.heldT = {} /\ t.heldR = {}
        BY <1>0 DEF NoticeTasks, Operations
    <2>3. Query(r, "find_user", t)
        BY <2>1 DEF Begin
    <2> HIDE DEF t
    <2>4. pc'[r] = "find_user" /\ task'[r] = t
        BY <1>0, <2>3 DEF Query, Step
    <2>5. (KnowsNotice(r) /\ KnowsUsers(r) /\ KnowsRows(r))'
        BY <2>2, <2>4 DEF KnowsNotice, KnowsUsers, KnowsRows
    <2> QED
        BY <2>2, <2>3, <2>5, QueryTo DEF AllPlaces, Places
<1> QED
    BY <1>1, <1>2, <1>3, <1>4, <1>5 DEF Start

LEMMA KnowsOf ==
    ASSUME NoticeInv, NEW r \in Requests, ~ Ended(r)
    PROVE  /\ task[r] \in NoticeTasks /\ pc[r] \in Places(task[r].op)
           /\ task[r].op \in Operations
           /\ KnowsNotice(r) /\ KnowsUsers(r) /\ KnowsRows(r)
           /\ pc \in [Requests -> AllPlaces] /\ task \in [Requests -> NoticeTasks]
BY DEF NoticeInv, NoticeTypes, Knows, NoticeTasks

LEMMA FindKeeps ==
    ASSUME NoticeInv, NEW r \in Requests, Find(r)
    PROVE  NoticeInv'
<1>1. pc[r] = "find" /\ ~ Ended(r)
    BY DEF Find, Ended
<1>2. CASE End(r)
    BY <1>2, EndKeeps
<1>3. CASE ~ End(r)
    <2> DEFINE t == [task[r] EXCEPT !.was = status, !.to = scope]
               o == task[r].op
               label == CASE o \in {"update", "publish"} -> "load_targets"
                          [] o = "delete"                -> "delete_targets"
                          [] o \in {"revoke", "pin"}     -> "commit"
    <2>1. Query(r, label, t) /\ Exists /\ ~ Refused(o)
        BY <1>3 DEF Find
    <2>2. o \in {"update", "publish", "delete", "revoke", "pin"}
        BY <1>1, KnowsOf DEF Places, Operations
    <2>3. /\ t \in NoticeTasks /\ t.op = o /\ t.to = scope /\ t.scope = task[r].scope
          /\ t.who = task[r].who /\ t.heldT = task[r].heldT /\ t.heldR = task[r].heldR
        <3>1. task[r] \in NoticeTasks /\ status \in Statuses /\ scope \in Scopes
            BY <1>1, KnowsOf DEF NoticeInv, NoticeTypes, TypeOK, Statuses
        <3> QED
            BY <3>1 DEF NoticeTasks
    <2>4. /\ label \in {"load_targets", "delete_targets", "commit"}
          /\ label \in Places(o) /\ label \in AllPlaces \ {"idle", "done"}
          /\ label = "commit" => o \in {"revoke", "pin"}
          /\ label = "load_targets" <=> o \in {"update", "publish"}
        BY <2>2 DEF Places, AllPlaces
    <2> HIDE DEF t, label
    <2>5. pc'[r] = label /\ task'[r] = t /\ status' = status /\ scope' = scope
        BY <1>1, <2>1, KnowsOf DEF Query, Step, notice
    <2>6. KnowsNotice(r)'
        BY <2>1, <2>2, <2>3, <2>4, <2>5 DEF KnowsNotice, Exists, Refused
    <2>7. KnowsUsers(r)'
        BY <1>1, <2>2, <2>3, <2>4, <2>5, KnowsOf DEF KnowsUsers
    <2>8. KnowsRows(r)'
        BY <2>2, <2>3, <2>4, <2>5 DEF KnowsRows
    <2> QED
        BY <2>1, <2>3, <2>4, <2>6, <2>7, <2>8, QueryTo
<1> QED
    BY <1>2, <1>3

LEMMA LoadTargetsKeeps ==
    ASSUME NoticeInv, NEW r \in Requests, LoadTargets(r)
    PROVE  NoticeInv'
<1> DEFINE old == task[r]
           to  == IF old.scope = None THEN old.to ELSE old.scope
           ids == IF old.op = "publish" \/ old.ids = {None} THEN targets ELSE old.ids
           aim == IF old.op = "publish" THEN ids ELSE Scoped(to, ids)
           t   == [old EXCEPT !.to = to, !.aim = aim]
<1>1. pc[r] = "load_targets" /\ ~ Ended(r) /\ Query(r, "validate", t)
    BY DEF LoadTargets, Ended
<1>2. /\ old \in NoticeTasks /\ old.op \in {"update", "publish"}
      /\ KnowsNotice(r) /\ KnowsUsers(r)
    BY <1>1, KnowsOf DEF Places, Operations
<1>3. to \in Scopes /\ targets \subseteq Users \cup Roles
    BY <1>2 DEF NoticeTasks, NoticeInv, NoticeTypes, TypeOK
<1>4. aim \in SUBSET (Users \cup Roles) /\ (old.op = "publish" => aim = targets)
      /\ (old.op = "update" => aim = Scoped(to, aim))
    BY <1>2, <1>3, ScopedTyped, ScopedTwice
<1> HIDE DEF to, aim
<1>5. /\ t \in NoticeTasks /\ t.op = old.op /\ t.to = to /\ t.aim = aim /\ t.scope = old.scope
      /\ t.late = old.late
    BY <1>2, <1>3, <1>4 DEF NoticeTasks
<1>6. to = IF old.scope = None THEN old.to ELSE old.scope
    BY DEF to
<1> HIDE DEF t
<1>7. /\ pc'[r] = "validate" /\ task'[r] = t
      /\ UNCHANGED <<status, scope, targets, users>>
    BY <1>1, KnowsOf DEF Query, Step, notice, rows, people
<1>8. KnowsNotice(r)'
    <2>1. old.op = "publish" => old.scope = None
        BY <1>2 DEF KnowsUsers
    <2> QED
        BY <1>1, <1>2, <1>4, <1>5, <1>6, <1>7, <2>1 DEF KnowsNotice, Exists, Living
<1>9. KnowsUsers(r)'
    BY <1>2, <1>4, <1>5, <1>7 DEF KnowsUsers
<1>10. KnowsRows(r)'
    BY <1>2, <1>5, <1>7 DEF KnowsRows
<1> QED
    BY <1>1, <1>2, <1>5, <1>8, <1>9, <1>10, QueryTo DEF Places, AllPlaces

LEMMA ValidateKeeps ==
    ASSUME NoticeInv, NEW r \in Requests, Validate(r)
    PROVE  NoticeInv'
<1>1. pc[r] = "validate" /\ ~ Ended(r)
    BY DEF Validate, Ended
<1>2. CASE End(r)
    BY <1>2, EndKeeps
<1>3. CASE ~ End(r)
    <2> DEFINE t == task[r]
               label == IF t.op = "publish" THEN "resolve" ELSE "commit"
    <2>1. Query(r, label, t) /\ Valid(t.to, t.aim)
        BY <1>3 DEF Validate
    <2>2. /\ t \in NoticeTasks /\ t.op \in {"create", "update", "publish"}
          /\ KnowsNotice(r) /\ KnowsUsers(r) /\ KnowsRows(r)
        BY <1>1, KnowsOf DEF Places, Operations
    <2>3. /\ pc'[r] = label /\ task'[r] = t
          /\ UNCHANGED <<status, scope, targets, users>>
        BY <1>1, <2>1, KnowsOf DEF Query, Step, notice, rows, people
    <2> HIDE DEF t
    <2>4. label \in Places(t.op) /\ label \in AllPlaces \ {"idle", "done"}
        BY <2>2 DEF Places, AllPlaces
    <2>5. KnowsNotice(r)'
        BY <1>1, <2>2, <2>3 DEF KnowsNotice, Exists, Living, t
    <2>6. KnowsUsers(r)'
        <3>1. ASSUME t.aim = Scoped(t.to, t.aim)
              PROVE  t.aim \cap Users \subseteq users /\ (t.to = "role" => t.aim # {})
            BY <2>1, <2>2, <3>1, NoticesAssumption DEF Scoped, Valid, NoticeTasks, Scopes
        <3> QED
            BY <1>1, <2>2, <2>3, <3>1 DEF KnowsUsers, t
    <2>7. KnowsRows(r)'
        BY <2>2, <2>3 DEF KnowsRows
    <2> QED
        BY <2>1, <2>2, <2>4, <2>5, <2>6, <2>7, QueryTo
<1> QED
    BY <1>2, <1>3

LEMMA ResolveKeeps ==
    ASSUME NoticeInv, NEW r \in Requests, Resolve(r) \/ Filter(r)
    PROVE  NoticeInv'
<1>1. pc[r] \in {"resolve", "filter"} /\ ~ Ended(r)
    BY DEF Resolve, Filter, Ended
<1>2. /\ task[r] \in NoticeTasks /\ task[r].op = "publish"
      /\ KnowsNotice(r) /\ KnowsUsers(r) /\ KnowsRows(r)
    BY <1>1, KnowsOf DEF Places, Operations
<1>3. users \subseteq Users
    BY DEF NoticeInv, NoticeTypes, TypeOK
<1>4. PICK found \in SUBSET Users, label \in {"filter", "commit"} :
          /\ Query(r, label, [task[r] EXCEPT !.found = found])
          /\ label = "commit" => found \subseteq users
    <2>1. CASE Resolve(r)
        <3>1. task[r].to \in {"all", "role", "user"}
            BY <1>2 DEF NoticeTasks, Scopes
        <3>2. CASE task[r].to = "all"
            BY <1>3, <2>1, <3>2 DEF Resolve
        <3>3. CASE task[r].to = "role"
            <4> DEFINE found == {u \in Users : \E x \in task[r].aim : <<u, x>> \in members}
            <4>1. Query(r, "filter", [task[r] EXCEPT !.found = found])
                BY <2>1, <3>3 DEF Resolve
            <4>2. found \in SUBSET Users
                OBVIOUS
            <4> HIDE DEF found
            <4> QED
                BY <4>1, <4>2
        <3>4. CASE task[r].to = "user"
            <4>1. Query(r, "filter", [task[r] EXCEPT !.found = task[r].aim \cap Users])
                BY <2>1, <3>4 DEF Resolve
            <4> QED
                BY <4>1
        <3> QED
            BY <3>1, <3>2, <3>3, <3>4
    <2>2. CASE Filter(r)
        <3>1. Query(r, "commit", [task[r] EXCEPT !.found = task[r].found \cap users])
            BY <1>2, <2>2 DEF Filter, NoticeTasks
        <3> QED
            BY <1>3, <3>1
    <2> QED
        BY <2>1, <2>2
<1> DEFINE t == [task[r] EXCEPT !.found = found]
<1>5. /\ t \in NoticeTasks /\ t.op = "publish" /\ t.found = found /\ t.to = task[r].to
      /\ t.aim = task[r].aim /\ t.late = task[r].late /\ t.scope = task[r].scope
    BY <1>2 DEF NoticeTasks
<1> HIDE DEF t
<1>6. /\ pc'[r] = label /\ task'[r] = t
      /\ UNCHANGED <<status, scope, targets, users, roles>>
    BY <1>1, <1>4, KnowsOf DEF Query, Step, notice, rows, people, t
<1>7. KnowsNotice(r)'
    BY <1>1, <1>2, <1>5, <1>6 DEF KnowsNotice, Exists, Living
<1>8. KnowsUsers(r)' /\ KnowsRows(r)'
    BY <1>2, <1>4, <1>5, <1>6 DEF KnowsUsers, KnowsRows
<1>9. label \in Places(t.op) /\ label \in AllPlaces \ {"idle", "done"}
    BY <1>5 DEF Places, AllPlaces
<1> QED
    BY <1>4, <1>5, <1>7, <1>8, <1>9, QueryTo DEF t

\* The queries of the deletes, which see what they will remove.
LEMMA DeleteQueriesKeep ==
    ASSUME NoticeInv, NEW r \in Requests, DeleteTargets(r) \/ DeleteRecipients(r)
    PROVE  NoticeInv'
<1>1. pc[r] \in {"delete_targets", "delete_recipients"} /\ ~ Ended(r)
    BY DEF DeleteTargets, DeleteRecipients, Ended
<1>2. /\ task[r] \in NoticeTasks /\ task[r].op = "delete"
      /\ KnowsNotice(r) /\ KnowsUsers(r) /\ KnowsRows(r)
    BY <1>1, KnowsOf DEF Places, Operations
<1>3. targets \in SUBSET (Users \cup Roles) /\ Holders \in SUBSET Users
    BY DEF NoticeInv, NoticeTypes, TypeOK, Holders
<1>4. CASE DeleteTargets(r)
    <2> DEFINE t == [task[r] EXCEPT !.heldT = targets]
    <2>1. t \in NoticeTasks /\ t.op = "delete" /\ t.heldT = targets
        BY <1>2, <1>3 DEF NoticeTasks
    <2>2. Query(r, "delete_recipients", t) /\ pc[r] = "delete_targets"
        BY <1>4 DEF DeleteTargets
    <2> HIDE DEF t
    <2>3. pc'[r] = "delete_recipients" /\ task'[r] = t /\ UNCHANGED <<status, targets>>
        BY <1>1, <2>2, KnowsOf DEF Query, Step, notice, rows
    <2>4. KnowsNotice(r)' /\ KnowsUsers(r)'
        BY <1>2, <2>1, <2>2, <2>3 DEF KnowsNotice, KnowsUsers
    <2>5. KnowsRows(r)'
        BY <2>1, <2>3 DEF KnowsRows
    <2> QED
        BY <2>1, <2>2, <2>4, <2>5, QueryTo DEF Places, AllPlaces
<1>5. CASE DeleteRecipients(r)
    <2> DEFINE t == [task[r] EXCEPT !.heldR = Holders]
    <2>1. /\ t \in NoticeTasks /\ t.op = "delete" /\ t.heldR = Holders
          /\ t.heldT = task[r].heldT /\ t.late = task[r].late
        BY <1>2, <1>3 DEF NoticeTasks
    <2>2. Query(r, "delete_notice", t) /\ pc[r] = "delete_recipients"
        BY <1>5 DEF DeleteRecipients
    <2> HIDE DEF t
    <2>3. /\ pc'[r] = "delete_notice" /\ task'[r] = t
          /\ UNCHANGED <<status, targets, recipients>>
        BY <1>1, <2>2, KnowsOf DEF Query, Step, notice, rows
    <2>4. KnowsNotice(r)' /\ KnowsUsers(r)'
        BY <1>2, <2>1, <2>2, <2>3 DEF KnowsNotice, KnowsUsers
    <2>5. KnowsRows(r)'
        BY <1>2, <2>1, <2>2, <2>3 DEF KnowsRows, Holders
    <2> QED
        BY <2>1, <2>2, <2>4, <2>5, QueryTo DEF Places, AllPlaces
<1> QED
    BY <1>4, <1>5

\* The queries of delete_user.
LEMMA SweepsKeep ==
    ASSUME NoticeInv, NEW r \in Requests,
           FindUser(r) \/ SweepRecipients(r) \/ SweepTargets(r)
    PROVE  NoticeInv'
<1>1. pc[r] \in {"find_user", "sweep_recipients", "sweep_targets"} /\ ~ Ended(r)
    BY DEF FindUser, SweepRecipients, SweepTargets, Ended
<1>2. /\ task[r] \in NoticeTasks /\ task[r].op = "delete_user"
      /\ KnowsNotice(r) /\ KnowsUsers(r) /\ KnowsRows(r)
    BY <1>1, KnowsOf DEF Places, Operations
<1>3. task[r].who \in Users /\ task[r].heldT \subseteq {task[r].who}
      /\ task[r].heldR \subseteq {task[r].who}
    BY <1>2 DEF KnowsRows
<1>4. CASE FindUser(r)
    <2>1. CASE End(r)
        BY <2>1, EndKeeps
    <2>2. CASE Query(r, "sweep_recipients", task[r])
        <3>1. pc'[r] = "sweep_recipients" /\ task'[r] = task[r]
            BY <1>1, <2>2, KnowsOf DEF Query, Step
        <3>2. (KnowsNotice(r) /\ KnowsUsers(r) /\ KnowsRows(r))'
            BY <1>2, <1>3, <3>1 DEF KnowsNotice, KnowsUsers, KnowsRows
        <3> QED
            BY <1>2, <2>2, <3>2, QueryTo DEF Places, AllPlaces
    <2> QED
        BY <1>4, <2>1, <2>2 DEF FindUser
<1>5. CASE SweepRecipients(r)
    <2> DEFINE mine == Holders \cap {task[r].who}
               t    == [task[r] EXCEPT !.heldR = mine]
    <2>1. /\ t \in NoticeTasks /\ t.op = "delete_user" /\ t.heldR = mine
          /\ t.heldT = task[r].heldT /\ t.who = task[r].who
        BY <1>2, <1>3 DEF NoticeTasks
    <2>2. Query(r, "sweep_targets", t)
        BY <1>5 DEF SweepRecipients
    <2> HIDE DEF t
    <2>3. pc'[r] = "sweep_targets" /\ task'[r] = t /\ recipients' = recipients
        BY <1>1, <2>2, KnowsOf DEF Query, Step, rows
    <2>4. (KnowsNotice(r) /\ KnowsUsers(r) /\ KnowsRows(r))'
        BY <1>3, <2>1, <2>3 DEF KnowsNotice, KnowsUsers, KnowsRows, Holders
    <2> QED
        BY <2>1, <2>2, <2>4, QueryTo DEF Places, AllPlaces
<1>6. CASE SweepTargets(r)
    <2> DEFINE mine == targets \cap {task[r].who}
               t    == [task[r] EXCEPT !.heldT = mine]
    <2>1. /\ t \in NoticeTasks /\ t.op = "delete_user" /\ t.heldT = mine
          /\ t.heldR = task[r].heldR /\ t.who = task[r].who /\ t.late = task[r].late
        BY <1>2, <1>3 DEF NoticeTasks
    <2>2. Query(r, "drop_user", t) /\ pc[r] = "sweep_targets"
        BY <1>6 DEF SweepTargets
    <2> HIDE DEF t
    <2>3. /\ pc'[r] = "drop_user" /\ task'[r] = t
          /\ recipients' = recipients /\ targets' = targets
        BY <1>1, <2>2, KnowsOf DEF Query, Step, rows
    <2>4. (KnowsNotice(r) /\ KnowsUsers(r))'
        BY <2>1, <2>3 DEF KnowsNotice, KnowsUsers
    <2>5. KnowsRows(r)'
        BY <1>2, <1>3, <2>1, <2>2, <2>3 DEF KnowsRows, Holders
    <2> QED
        BY <2>1, <2>2, <2>4, <2>5, QueryTo DEF Places, AllPlaces
<1> QED
    BY <1>4, <1>5, <1>6

LEMMA VisibleKeeps ==
    ASSUME NoticeInv, NEW r \in Requests, Visible(r)
    PROVE  NoticeInv'
<1>1. pc[r] = "visible" /\ ~ Ended(r)
    BY DEF Visible, Ended
<1>2. /\ task[r] \in NoticeTasks /\ task[r].op = "read" /\ task[r].who \in Users
    BY <1>1, KnowsOf DEF Places, Operations, KnowsRows
<1>3. CASE End(r)
    BY <1>3, EndKeeps
<1>4. CASE ~ End(r)
    <2> DEFINE t == [task[r] EXCEPT !.edition = recipients[task[r].who]]
    <2>1. Query(r, "mark", t) /\ recipients[task[r].who] # 0
        BY <1>4 DEF Visible
    <2>2. recipients[task[r].who] \in Nat
        BY <1>2 DEF NoticeInv, NoticeTypes, TypeOK
    <2>3. t \in NoticeTasks /\ t.op = "read" /\ t.who = task[r].who /\ t.edition # 0
        BY <1>2, <2>1, <2>2 DEF NoticeTasks
    <2> HIDE DEF t
    <2>4. pc'[r] = "mark" /\ task'[r] = t
        BY <1>1, <2>1, KnowsOf DEF Query, Step
    <2>5. (KnowsNotice(r) /\ KnowsUsers(r) /\ KnowsRows(r))'
        BY <1>2, <2>3, <2>4 DEF KnowsNotice, KnowsUsers, KnowsRows
    <2> QED
        BY <2>1, <2>3, <2>5, QueryTo DEF Places, AllPlaces
<1> QED
    BY <1>3, <1>4

-----------------------------------------------------------------------------
(* Notices: the commits.                                                   *)

\* What the others see of a step that ends r's request.
Advances(r) ==
    /\ pc'[r] = "done" /\ task'[r] = NoTask
    /\ pc' \in [Requests -> AllPlaces] /\ task' \in [Requests -> NoticeTasks]
    /\ \A q \in Requests \ {r} :
         /\ pc'[q] = pc[q] /\ task[q].late \subseteq task'[q].late
         /\ task'[q].op = task[q].op /\ task'[q].who = task[q].who
         /\ task'[q].scope = task[q].scope /\ task'[q].to = task[q].to
         /\ task'[q].aim = task[q].aim /\ task'[q].found = task[q].found
         /\ task'[q].edition = task[q].edition
         /\ task'[q].heldT = task[q].heldT /\ task'[q].heldR = task[q].heldR
         /\ task[q] = NoTask /\ Ended(q) => task'[q] = NoTask

LEMMA StepAdvances ==
    ASSUME NoticeInv, NEW r \in Requests, Step(r, "done", NoTask)
    PROVE  Advances(r)
BY NoTaskTyped DEF Step, Advances, NoticeInv, NoticeTypes, AllPlaces

LEMMA CommitAdvances ==
    ASSUME NoticeInv, NEW r \in Requests, Commit(r)
    PROVE  /\ Advances(r)
           /\ \A q \in Requests \ {r} : q \in Looking => task[r].op \in task'[q].late
           /\ races' = races \cup {<<task[r].op, o>> : o \in task[r].late}
           /\ races' \subseteq Operations \X Operations
<1>1. /\ pc \in [Requests -> AllPlaces] /\ task \in [Requests -> NoticeTasks]
      /\ races \subseteq Operations \X Operations
    BY DEF NoticeInv, NoticeTypes
<1>2. \A q \in Requests : task[q] \in NoticeTasks /\ task[q].op \in Operations
                          /\ task[q].late \in SUBSET Operations
    BY <1>1 DEF NoticeTasks
<1>3. ASSUME NEW q \in Requests
      PROVE  LET t == [task[q] EXCEPT !.late = @ \cup {task[r].op}]
             IN  /\ t \in NoticeTasks /\ t.late = task[q].late \cup {task[r].op}
                 /\ t.op = task[q].op /\ t.who = task[q].who /\ t.scope = task[q].scope
                 /\ t.to = task[q].to /\ t.aim = task[q].aim /\ t.found = task[q].found
                 /\ t.edition = task[q].edition
                 /\ t.heldT = task[q].heldT /\ t.heldR = task[q].heldR
    <2> DEFINE old == task[q]
               o   == task[r].op
    <2>1. old \in NoticeTasks /\ o \in Operations
        BY <1>2
    <2> HIDE DEF old, o
    <2>2. LET t == [old EXCEPT !.late = @ \cup {o}]
          IN  /\ t \in NoticeTasks /\ t.late = old.late \cup {o}
              /\ t.op = old.op /\ t.who = old.who /\ t.scope = old.scope
              /\ t.to = old.to /\ t.aim = old.aim /\ t.found = old.found
              /\ t.edition = old.edition
              /\ t.heldT = old.heldT /\ t.heldR = old.heldR
        BY <2>1 DEF NoticeTasks
    <2> QED
        BY <2>2 DEF old, o
<1>4. /\ pc' = [pc EXCEPT ![r] = "done"]
      /\ task' = [q \in Requests |->
                    IF q = r THEN NoTask
                    ELSE IF q \in Looking THEN [task[q] EXCEPT !.late = @ \cup {task[r].op}]
                    ELSE task[q]]
      /\ races' = races \cup {<<task[r].op, o>> : o \in task[r].late}
    BY DEF Commit
<1>5. pc' \in [Requests -> AllPlaces] /\ pc'[r] = "done" /\ task'[r] = NoTask
    BY <1>1, <1>4 DEF AllPlaces
<1>6. task' \in [Requests -> NoticeTasks]
    BY <1>2, <1>3, <1>4, NoTaskTyped
<1>7. races' \subseteq Operations \X Operations
    BY <1>1, <1>2, <1>4
<1>8. ASSUME NEW q \in Requests \ {r}
      PROVE  /\ pc'[q] = pc[q] /\ task[q].late \subseteq task'[q].late
             /\ task'[q].op = task[q].op /\ task'[q].who = task[q].who
             /\ task'[q].scope = task[q].scope /\ task'[q].to = task[q].to
             /\ task'[q].aim = task[q].aim /\ task'[q].found = task[q].found
             /\ task'[q].edition = task[q].edition
             /\ task'[q].heldT = task[q].heldT /\ task'[q].heldR = task[q].heldR
             /\ Ended(q) => task'[q] = task[q]
             /\ q \in Looking => task[r].op \in task'[q].late
    <2>1. pc'[q] = pc[q]
        BY <1>1, <1>4
    <2>2. CASE q \in Looking
        <3>1. task'[q] = [task[q] EXCEPT !.late = @ \cup {task[r].op}] /\ ~ Ended(q)
            BY <1>4, <2>2 DEF Looking, Running, Ended
        <3> QED
            BY <1>3, <2>1, <3>1
    <2>3. CASE q \notin Looking
        BY <1>4, <2>1, <2>3
    <2> QED
        BY <2>2, <2>3
<1> QED
    BY <1>4, <1>5, <1>6, <1>7, <1>8 DEF Advances

\* What an o that ends may have done to the tables.
Effect(o) ==
    /\ status # "absent" => status' # "absent"
    /\ Exists' => Exists \/ status = "absent"
    /\ status' = "published" => status = "published" \/ o = "publish"
    /\ Exists /\ Exists' /\ o # "update" =>
         scope' = scope /\ targets' \cap Living' = targets \cap Living'
    /\ users' \subseteq users /\ (o # "delete_user" => users' = users)
    /\ targets' \subseteq targets \/ o = "update" \/ (o = "create" /\ status = "absent")
    /\ Holders' \subseteq Holders \/ o = "publish"

\* The others keep what they know, or have seen that somebody committed.
LEMMA OthersKnow ==
    ASSUME NoticeInv, NEW r \in Requests, NEW o, Advances(r), Effect(o),
           o \in {"create", "update", "publish", "delete_user"} =>
               \A q \in Requests \ {r} : q \in Looking => o \in task'[q].late,
           NEW q \in Requests \ {r}
    PROVE  Knows(q)'
<1>1. CASE Ended(q)
    <2>1. task[q] = NoTask
        BY <1>1 DEF NoticeInv, Knows
    <2> QED
        BY <1>1, <2>1 DEF Advances, Knows, Ended
<1>2. CASE ~ Ended(q)
    <2>1. /\ task[q] \in NoticeTasks /\ pc[q] \in Places(task[q].op) /\ task[q].op \in Operations
          /\ KnowsNotice(q) /\ KnowsUsers(q) /\ KnowsRows(q)
        BY <1>2, KnowsOf
    <2>2. /\ pc'[q] = pc[q] /\ task[q].late \subseteq task'[q].late
          /\ task'[q].op = task[q].op /\ task'[q].who = task[q].who
          /\ task'[q].scope = task[q].scope /\ task'[q].to = task[q].to
          /\ task'[q].aim = task[q].aim /\ task'[q].found = task[q].found
          /\ task'[q].edition = task[q].edition
          /\ task'[q].heldT = task[q].heldT /\ task'[q].heldR = task[q].heldR
        BY DEF Advances
    <2>3. /\ o \in {"create", "update", "publish", "delete_user"} /\ q \in Looking
               => o \in task'[q].late
          /\ q \in Looking \/ pc[q] \in {"find", "find_user", "delete_targets",
                                        "sweep_recipients", "visible", "mark"}
        BY <1>2 DEF Looking, Running, Ended
    <2>4. KnowsNotice(q)'
        <3>1. CASE task[q].op \in {"update", "publish", "delete"} /\ pc[q] # "find"
            <4>1. status # "absent" /\ status' # "absent" /\ (Exists' => Exists)
                BY <2>1, <3>1 DEF KnowsNotice, Effect
            <4>2. task[q].op # "delete" => q \in Looking
                BY <2>1, <2>3, <3>1 DEF Places
            <4>3. task[q].op \in {"update", "publish"} /\ status' = "published"
                      => "publish" \in task'[q].late
                BY <2>1, <2>2, <2>3, <3>1, <4>2 DEF KnowsNotice, Effect
            <4>4. task[q].op \in {"update", "publish"} /\ Exists' /\ "update" \notin task'[q].late
                      => /\ Exists /\ "update" \notin task[q].late
                         /\ scope' = scope /\ targets' \cap Living' = targets \cap Living'
                BY <2>2, <2>3, <4>1, <4>2 DEF Effect
            <4>5. Living' \subseteq Living
                BY DEF Living, Effect
            <4> QED
                BY <2>1, <2>2, <3>1, <4>1, <4>3, <4>4, <4>5 DEF KnowsNotice
        <3>2. CASE ~ (task[q].op \in {"update", "publish", "delete"} /\ pc[q] # "find")
            BY <2>2, <3>2 DEF KnowsNotice
        <3> QED
            BY <3>1, <3>2
    <2>5. KnowsUsers(q)'
        <3>1. pc[q] = "commit" => (users' = users \/ "delete_user" \in task'[q].late)
            BY <2>3 DEF Effect
        <3> QED
            BY <2>1, <2>2, <3>1 DEF KnowsUsers
    <2>6. KnowsRows(q)'
        <3>1. pc[q] \in {"delete_recipients", "delete_notice"} =>
                /\ targets' \subseteq targets \/ "update" \in task'[q].late
                /\ Holders' \subseteq Holders \/ "publish" \in task'[q].late
            <4>1. pc[q] \in {"delete_recipients", "delete_notice"} => status # "absent"
                BY <2>1 DEF KnowsNotice, Places, Operations
            <4> QED
                BY <2>3, <4>1 DEF Effect
        <3>2. pc[q] \in {"sweep_targets", "drop_user"} =>
                Holders' \subseteq Holders \/ "publish" \in task'[q].late
            BY <2>3 DEF Effect
        <3>3. pc[q] = "drop_user" =>
                \/ targets' \subseteq targets \/ "update" \in task'[q].late
                \/ "create" \in task'[q].late
            BY <2>3 DEF Effect
        <3> QED
            BY <2>1, <2>2, <3>1, <3>2, <3>3 DEF KnowsRows
    <2> QED
        BY <1>2, <2>1, <2>2, <2>4, <2>5, <2>6 DEF Knows, Ended
<1> QED
    BY <1>1, <1>2

\* What is left to show of a step that ends a request.
LEMMA EffectKeeps ==
    ASSUME NoticeInv, NEW r \in Requests, NEW o, Advances(r), Effect(o),
           o \in {"create", "update", "publish", "delete_user"} =>
               \A q \in Requests \ {r} : q \in Looking => o \in task'[q].late,
           NoticeTypes', ScopeFits', PublishedIsFrozen', NoOrphanRows'
    PROVE  NoticeInv'
<1>1. Knows(r)'
    BY DEF Advances, Knows, Ended
<1>2. \A q \in Requests \ {r} : Knows(q)'
    BY OthersKnow
<1> QED
    BY <1>1, <1>2 DEF NoticeInv

LEMMA CommitCreateKeeps ==
    ASSUME NoticeInv, NEW r \in Requests, CommitCreate(r)
    PROVE  NoticeInv'
<1> DEFINE t == task[r]
<1>1. /\ pc[r] = "commit" /\ ~ Ended(r) /\ t.op = "create" /\ status = "absent"
      /\ status' = "draft" /\ scope' = t.to /\ targets' = t.aim
      /\ UNCHANGED <<pinned, recipients, read, people, editions, frozen>>
    BY DEF CommitCreate, Ended
<1>2. /\ t \in NoticeTasks /\ t.aim = Scoped(t.to, t.aim) /\ (t.to = "role" => t.aim # {})
      /\ "delete_user" \notin t.late => t.aim \cap Users \subseteq users
    BY <1>1, KnowsOf DEF KnowsUsers
<1>3. /\ Advances(r)
      /\ \A q \in Requests \ {r} : q \in Looking => "create" \in task'[q].late
      /\ races' = races \cup {<<"create", o>> : o \in t.late}
      /\ races' \subseteq Operations \X Operations
    BY <1>1, CommitAdvances DEF CommitCreate
<1>4. NoticeTypes /\ Holders = {}
    BY <1>1 DEF NoticeInv, NoticeTypes, TypeOK
<1>5. Holders' = {}
    BY <1>1, <1>4 DEF Holders
<1> HIDE DEF t
<1>6. Effect("create")
    BY <1>1, <1>4, <1>5 DEF Effect, Exists, people
<1>7. NoticeTypes'
    BY <1>1, <1>2, <1>3, <1>4, <1>5 DEF NoticeTypes, TypeOK, NoticeTasks, Advances, people
<1>8. ScopeFits'
    BY <1>1, <1>2 DEF ScopeFits
<1>9. PublishedIsFrozen'
    BY <1>1 DEF PublishedIsFrozen
<1>10. NoOrphanRows'
    <2>1. <<"create", "delete_user">> \notin races' => "delete_user" \notin t.late
        BY <1>3
    <2> QED
        BY <1>1, <1>2, <1>5, <2>1 DEF NoOrphanRows, people
<1> QED
    BY <1>3, <1>6, <1>7, <1>8, <1>9, <1>10, EffectKeeps

LEMMA CommitUpdateKeeps ==
    ASSUME NoticeInv, NEW r \in Requests, CommitUpdate(r)
    PROVE  NoticeInv'
<1> DEFINE t == task[r]
<1>1. /\ pc[r] = "commit" /\ ~ Ended(r) /\ t.op = "update" /\ Exists
      /\ scope' = IF t.scope = None THEN scope ELSE t.scope
      /\ targets' = t.aim /\ pinned' \in BOOLEAN
      /\ UNCHANGED <<status, recipients, read, people, editions, frozen>>
    BY DEF CommitUpdate, Ended
<1>2. /\ t \in NoticeTasks /\ t.aim = Scoped(t.to, t.aim) /\ (t.to = "role" => t.aim # {})
      /\ "delete_user" \notin t.late => t.aim \cap Users \subseteq users
    BY <1>1, KnowsOf DEF KnowsUsers
<1>3. /\ status = "published" => "publish" \in t.late
      /\ t.scope = None /\ "update" \notin t.late => t.to = scope
      /\ t.scope # None => t.to = t.scope
    BY <1>1, KnowsOf DEF KnowsNotice
<1>4. /\ Advances(r)
      /\ \A q \in Requests \ {r} : q \in Looking => "update" \in task'[q].late
      /\ races' = races \cup {<<"update", o>> : o \in t.late}
      /\ races' \subseteq Operations \X Operations
    BY <1>1, CommitAdvances DEF CommitUpdate
<1>5. NoticeTypes /\ NoOrphanRows
    BY DEF NoticeInv
<1>6. Holders' = Holders
    BY <1>1 DEF Holders
<1> HIDE DEF t
<1>7. Effect("update")
    BY <1>1, <1>6 DEF Effect, Exists, people
<1>8. NoticeTypes'
    <2>1. scope' \in Scopes
        BY <1>1, <1>2, <1>5 DEF NoticeTasks, NoticeTypes, TypeOK
    <2>2. targets' \subseteq Users \cup Roles
        BY <1>1, <1>2 DEF NoticeTasks
    <2> QED
        BY <1>1, <1>4, <1>5, <1>6, <2>1, <2>2
        DEF NoticeTypes, TypeOK, NoticeTasks, Advances, people, Exists
<1>9. ScopeFits'
    BY <1>1, <1>2, <1>3, <1>4 DEF ScopeFits
<1>10. PublishedIsFrozen'
    BY <1>1, <1>3, <1>4 DEF PublishedIsFrozen
<1>11. NoOrphanRows'
    <2>1. <<"update", "delete_user">> \notin races' => "delete_user" \notin t.late
        BY <1>4
    <2>2. races \subseteq races'
        BY <1>4
    <2>3. status' # "deleted"
        BY <1>1 DEF Exists
    <2>4. UNCHANGED users
        BY <1>1 DEF people
    <2> QED
        BY <1>1, <1>2, <1>5, <1>6, <2>1, <2>2, <2>3, <2>4 DEF NoOrphanRows
<1> QED
    BY <1>4, <1>7, <1>8, <1>9, <1>10, <1>11, EffectKeeps

LEMMA CommitPublishKeeps ==
    ASSUME NoticeInv, NEW r \in Requests, CommitPublish(r)
    PROVE  NoticeInv'
<1> DEFINE t == task[r]
<1>1. /\ pc[r] = "commit" /\ ~ Ended(r) /\ t.op = "publish" /\ Exists
      /\ status' = "published" /\ editions' = editions + 1
      /\ recipients' = [u \in Users |-> IF u \in t.found THEN editions' ELSE 0]
      /\ read' = {} /\ frozen' = <<t.to, t.aim>>
      /\ UNCHANGED <<scope, pinned, targets, people>>
    BY DEF CommitPublish, Ended
<1>2. /\ t \in NoticeTasks
      /\ "delete_user" \notin t.late => t.found \subseteq users
    BY <1>1, KnowsOf DEF KnowsUsers
<1>3. "update" \notin t.late => t.to = scope /\ t.aim \cap Living = targets \cap Living
    BY <1>1, KnowsOf DEF KnowsNotice
<1>4. /\ Advances(r)
      /\ \A q \in Requests \ {r} : q \in Looking => "publish" \in task'[q].late
      /\ races' = races \cup {<<"publish", o>> : o \in t.late}
      /\ races' \subseteq Operations \X Operations
    BY <1>1, CommitAdvances DEF CommitPublish
<1>5. NoticeTypes /\ NoOrphanRows /\ ScopeFits
    BY DEF NoticeInv
<1>6. editions \in Nat /\ t.found \subseteq Users
    BY <1>2, <1>5 DEF NoticeTypes, NoticeTasks
<1> HIDE DEF t
<1>7. Holders' = t.found
    BY <1>1, <1>6 DEF Holders
<1>8. Effect("publish")
    BY <1>1, <1>7 DEF Effect, Exists, people
<1>9. NoticeTypes'
    <2>1. recipients' \in [Users -> 0 .. editions'] /\ editions' \in Nat
        BY <1>1, <1>6
    <2> QED
        BY <1>1, <1>4, <1>5, <1>7, <2>1
        DEF NoticeTypes, TypeOK, NoticeTasks, Advances, people
<1>10. ScopeFits'
    BY <1>1, <1>4, <1>5 DEF ScopeFits, Exists
<1>11. PublishedIsFrozen'
    <2>1. <<"publish", "update">> \notin races' => "update" \notin t.late
        BY <1>4
    <2>2. frozen'[1] = t.to /\ frozen'[2] = t.aim
        BY <1>1
    <2>3. UNCHANGED <<users, scope, targets>>
        BY <1>1 DEF people
    <2> QED
        BY <1>3, <2>1, <2>2, <2>3 DEF PublishedIsFrozen, Living
<1>12. NoOrphanRows'
    <2>1. <<"publish", "delete_user">> \notin races' => "delete_user" \notin t.late
        BY <1>4
    <2>2. races \subseteq races'
        BY <1>4
    <2>3. UNCHANGED <<users, targets>> /\ status' # "deleted"
        BY <1>1 DEF people
    <2> QED
        BY <1>2, <1>5, <1>7, <2>1, <2>2, <2>3 DEF NoOrphanRows
<1> QED
    BY <1>4, <1>8, <1>9, <1>10, <1>11, <1>12, EffectKeeps

\* What touches neither the rows nor the users.
LEMMA MarksKeep ==
    ASSUME NoticeInv, NEW r \in Requests,
           CommitRevoke(r) \/ CommitPin(r) \/ AssignRole(r) \/ DeleteRole(r) \/ Mark(r)
    PROVE  NoticeInv'
<1>1. /\ Advances(r) /\ UNCHANGED <<scope, targets, recipients, users, editions, frozen>>
      /\ races \subseteq races' /\ races' \subseteq Operations \X Operations
      /\ status' = status \/ (Exists /\ status' = "revoked")
    <2>1. CASE CommitRevoke(r)
        BY <2>1, CommitAdvances DEF CommitRevoke, rows, people
    <2>2. CASE ~ CommitRevoke(r)
        <3>1. /\ Step(r, "done", NoTask) /\ UNCHANGED <<status, history>>
              /\ UNCHANGED <<scope, targets, recipients, users>>
            BY <2>2 DEF CommitPin, AssignRole, DeleteRole, Mark, notice, rows, people
        <3> QED
            BY <3>1, StepAdvances DEF history, NoticeInv, NoticeTypes
    <2> QED
        BY <2>1, <2>2
<1>2. NoticeTypes /\ NoOrphanRows /\ ScopeFits /\ PublishedIsFrozen
    BY DEF NoticeInv
<1>3. Holders' = Holders
    BY <1>1 DEF Holders
<1>4. Effect("pin")
    BY <1>1, <1>3 DEF Effect, Exists, Living
<1>5. pinned' \in BOOLEAN
    BY <1>2 DEF CommitRevoke, CommitPin, AssignRole, DeleteRole, Mark, notice, NoticeTypes, TypeOK
<1>6. read' \subseteq Holders'
    <2>1. CASE Mark(r)
        <3>1. pc[r] = "mark" /\ ~ Ended(r)
            BY <2>1 DEF Mark, Ended
        <3>2. task[r].edition # 0 /\ task[r].who \in Users
            BY <3>1, KnowsOf DEF KnowsRows, Places, Operations
        <3>3. recipients[task[r].who] = task[r].edition => task[r].who \in Holders
            BY <3>2 DEF Holders
        <3> QED
            BY <1>2, <1>3, <2>1, <3>3 DEF Mark, NoticeTypes, TypeOK
    <2>2. CASE ~ Mark(r)
        <3>1. read' = read
            BY <2>2 DEF CommitRevoke, CommitPin, AssignRole, DeleteRole, rows
        <3> QED
            BY <1>2, <1>3, <3>1 DEF NoticeTypes, TypeOK
    <2> QED
        BY <2>1, <2>2
<1>7. roles' \subseteq roles /\ members' \subseteq users' \X roles'
    <2>1. members \subseteq users \X roles /\ users' = users
        BY <1>1, <1>2 DEF NoticeTypes, TypeOK
    <2>2. CASE AssignRole(r)
        BY <2>1, <2>2 DEF AssignRole
    <2>3. CASE DeleteRole(r)
        BY <2>1, <2>3 DEF DeleteRole
    <2>4. CASE ~ AssignRole(r) /\ ~ DeleteRole(r)
        BY <2>1, <2>4 DEF CommitRevoke, CommitPin, Mark, people
    <2> QED
        BY <2>2, <2>3, <2>4
<1>8. NoticeTypes'
    BY <1>1, <1>2, <1>3, <1>5, <1>6, <1>7
    DEF NoticeTypes, TypeOK, NoticeTasks, Advances, Exists
<1>9. ScopeFits' /\ PublishedIsFrozen' /\ NoOrphanRows'
    BY <1>1, <1>2, <1>3 DEF ScopeFits, PublishedIsFrozen, NoOrphanRows, Exists
<1> QED
    BY <1>1, <1>4, <1>8, <1>9, EffectKeeps

LEMMA DeleteNoticeKeeps ==
    ASSUME NoticeInv, NEW r \in Requests, DeleteNotice(r)
    PROVE  NoticeInv'
<1> DEFINE t == task[r]
<1>1. /\ pc[r] = "delete_notice" /\ ~ Ended(r) /\ Remove(t.heldT, t.heldR)
      /\ status' = IF Exists THEN "deleted" ELSE status
      /\ UNCHANGED <<scope, pinned, people, editions, frozen>>
    BY DEF DeleteNotice, Ended
<1>2. /\ t.op = "delete" /\ status # "absent"
      /\ t.late \cap {"update", "publish"} = {} =>
           targets \subseteq t.heldT /\ Holders \subseteq t.heldR
    BY <1>1, KnowsOf DEF Places, Operations, KnowsNotice, KnowsRows
<1>3. /\ Advances(r)
      /\ races' = races \cup {<<"delete", o>> : o \in t.late}
      /\ races' \subseteq Operations \X Operations
    BY <1>1, <1>2, CommitAdvances DEF DeleteNotice
<1>4. NoticeTypes /\ NoOrphanRows
    BY DEF NoticeInv
<1> HIDE DEF t
<1>5. status' = "deleted"
    BY <1>1, <1>2 DEF Exists
<1>6. /\ targets' = targets \ t.heldT /\ Holders' = Holders \ t.heldR
      /\ read' = read \ t.heldR /\ recipients' \in [Users -> 0 .. editions]
    BY <1>1, <1>4 DEF Remove, Holders, NoticeTypes, TypeOK
<1>7. Effect("delete")
    BY <1>1, <1>5, <1>6 DEF Effect, Exists, people
<1>8. NoticeTypes'
    BY <1>1, <1>3, <1>4, <1>5, <1>6 DEF NoticeTypes, TypeOK, NoticeTasks, Advances, people
<1>9. ScopeFits' /\ PublishedIsFrozen'
    BY <1>5 DEF ScopeFits, PublishedIsFrozen, Exists
<1>10. NoOrphanRows'
    <2>1. races' \cap {<<"delete", "update">>, <<"delete", "publish">>} = {}
              => t.late \cap {"update", "publish"} = {}
        BY <1>3
    <2>2. races \subseteq races' /\ users' = users
        BY <1>1, <1>3 DEF people
    <2> QED
        BY <1>2, <1>4, <1>6, <2>1, <2>2 DEF NoOrphanRows
<1> QED
    BY <1>3, <1>7, <1>8, <1>9, <1>10, EffectKeeps

LEMMA DropUserKeeps ==
    ASSUME NoticeInv, NEW r \in Requests, DropUser(r)
    PROVE  NoticeInv'
<1> DEFINE t == task[r]
<1>1. /\ pc[r] = "drop_user" /\ ~ Ended(r) /\ Remove(t.heldT, t.heldR)
      /\ users' = users \ {t.who} /\ members' = {m \in members : m[1] # t.who}
      /\ UNCHANGED <<notice, roles, editions, frozen>>
    BY DEF DropUser, Ended
<1>2. /\ t.op = "delete_user" /\ t.who \in Users
      /\ t.heldT \subseteq {t.who} /\ t.heldR \subseteq {t.who}
      /\ "publish" \notin t.late => Holders \cap {t.who} \subseteq t.heldR
      /\ t.late \cap {"create", "update"} = {} => targets \cap {t.who} \subseteq t.heldT
    BY <1>1, KnowsOf DEF Places, Operations, KnowsRows
<1>3. /\ Advances(r)
      /\ \A q \in Requests \ {r} : q \in Looking => "delete_user" \in task'[q].late
      /\ races' = races \cup {<<"delete_user", o>> : o \in t.late}
      /\ races' \subseteq Operations \X Operations
    BY <1>1, <1>2, CommitAdvances DEF DropUser
<1>4. NoticeTypes /\ NoOrphanRows /\ ScopeFits /\ PublishedIsFrozen
    BY DEF NoticeInv
<1>5. t.who \notin Living'
    BY <1>1, <1>2, NoticesAssumption DEF Living
<1> HIDE DEF t
<1>6. /\ targets' = targets \ t.heldT /\ Holders' = Holders \ t.heldR
      /\ read' = read \ t.heldR /\ recipients' \in [Users -> 0 .. editions]
    BY <1>1, <1>4 DEF Remove, Holders, NoticeTypes, TypeOK
<1>7. UNCHANGED <<status, scope, pinned>> /\ (Exists' <=> Exists)
    BY <1>1 DEF notice, Exists
<1>8. targets' \cap Living' = targets \cap Living'
    BY <1>2, <1>5, <1>6
<1>9. Effect("delete_user")
    BY <1>1, <1>6, <1>7, <1>8 DEF Effect
<1>10. NoticeTypes'
    <2>1. members' \subseteq users' \X roles'
        BY <1>1, <1>4 DEF NoticeTypes, TypeOK
    <2> QED
        BY <1>1, <1>3, <1>4, <1>6, <1>7, <2>1 DEF NoticeTypes, TypeOK, NoticeTasks, Advances
<1>11. ScopeFits'
    <2>1. t.who \notin Roles
        BY <1>2, NoticesAssumption
    <2>2. scope \in Scopes
        BY <1>4 DEF NoticeTypes, TypeOK
    <2>3. ASSUME targets = Scoped(scope, targets)
          PROVE  targets' = Scoped(scope, targets') /\ (scope = "role" => targets' = targets)
        <3>1. CASE scope = "all"
            BY <1>6, <2>3, <3>1 DEF Scoped
        <3>2. CASE scope = "role"
            BY <1>2, <1>6, <2>1, <2>3, <3>2 DEF Scoped
        <3>3. CASE scope = "user"
            BY <1>6, <2>3, <3>3 DEF Scoped
        <3> QED
            BY <2>2, <3>1, <3>2, <3>3 DEF Scopes
    <2>4. races \subseteq races'
        BY <1>3
    <2> QED
        BY <1>4, <1>7, <2>3, <2>4 DEF ScopeFits
<1>12. PublishedIsFrozen'
    <2>1. races \subseteq races' /\ Living' \subseteq Living
        BY <1>1, <1>3 DEF Living
    <2> QED
        BY <1>1, <1>4, <1>7, <1>8, <2>1 DEF PublishedIsFrozen, Living
<1>13. NoOrphanRows'
    <2>1. races \subseteq races'
        BY <1>3
    <2>2. (\A o \in {"create", "update", "publish"} :
               races' \cap {<<"delete_user", o>>, <<o, "delete_user">>} = {})
              => t.late \cap {"create", "update", "publish"} = {}
        BY <1>3
    <2> QED
        BY <1>1, <1>2, <1>4, <1>6, <1>7, <2>1, <2>2 DEF NoOrphanRows
<1> QED
    BY <1>3, <1>9, <1>10, <1>11, <1>12, <1>13, EffectKeeps

-----------------------------------------------------------------------------
(* Notices: the theorems.                                                  *)

\* The queries of the writers write nothing.
LEMMA LookQueries ==
    ASSUME NoticeInv, NEW r \in Requests, Look(r)
    PROVE  \E label, t : Query(r, label, t)
<1>1. CASE Find(r)
    BY <1>1 DEF Find, End
<1>2. CASE LoadTargets(r)
    BY <1>2 DEF LoadTargets
<1>3. CASE Validate(r)
    BY <1>3 DEF Validate, End
<1>4. CASE Resolve(r)
    <2>1. task[r].to \in Scopes
        BY <1>4, KnowsOf DEF Resolve, Ended, NoticeTasks
    <2> QED
        BY <1>4, <2>1 DEF Resolve, Scopes
<1>5. CASE Filter(r)
    BY <1>5 DEF Filter
<1> QED
    BY <1>1, <1>2, <1>3, <1>4, <1>5 DEF Look

LEMMA InitNoticeInv == Init => NoticeInv
<1> SUFFICES ASSUME Init PROVE NoticeInv
    OBVIOUS
<1>1. Holders = {}
    BY DEF Init, Holders
<1>2. NoticeTypes
    <2>1. task \in [Requests -> NoticeTasks] /\ pc \in [Requests -> AllPlaces]
        BY NoTaskTyped DEF Init, AllPlaces
    <2>2. \A r \in Requests : task[r].op \in Operations
        BY DEF Init, NoTask, Operations
    <2>3. recipients \in [Users -> 0 .. editions] /\ editions \in Nat
        BY DEF Init
    <2>4. members \subseteq users \X roles
        BY DEF Init
    <2>5. /\ status = "absent" /\ scope \in Scopes /\ pinned \in BOOLEAN
          /\ targets = {} /\ read = {} /\ races = {}
          /\ users = Users /\ roles = Roles
        BY DEF Init, Scopes
    <2> QED
        BY <1>1, <2>1, <2>2, <2>3, <2>4, <2>5 DEF NoticeTypes, TypeOK
<1>3. \A r \in Requests : Knows(r)
    BY DEF Init, Knows, Ended
<1>4. ScopeFits /\ PublishedIsFrozen /\ NoOrphanRows
    BY <1>1 DEF Init, ScopeFits, PublishedIsFrozen, NoOrphanRows, Exists
<1> QED
    BY <1>2, <1>3, <1>4 DEF NoticeInv

LEMMA NextNoticeInv == NoticeInv /\ [Next]_vars => NoticeInv'
<1> SUFFICES ASSUME NoticeInv, [Next]_vars PROVE NoticeInv'
    OBVIOUS
<1>1. CASE Next
    <2>1. PICK r \in Requests :
              Start(r) \/ Look(r) \/ Write(r) \/ Delete(r) \/ OfUsers(r) \/ Abort(r)
        BY <1>1 DEF Next
    <2>2. CASE Start(r)
        BY <2>2, StartKeeps
    <2>3. CASE Look(r)
        BY <2>3, FindKeeps, LoadTargetsKeeps, ValidateKeeps, ResolveKeeps DEF Look
    <2>4. CASE Write(r)
        BY <2>4, CommitCreateKeeps, CommitUpdateKeeps, CommitPublishKeeps, MarksKeep, EndKeeps
        DEF Write, Vanished
    <2>5. CASE Delete(r)
        BY <2>5, DeleteQueriesKeep, DeleteNoticeKeeps DEF Delete
    <2>6. CASE OfUsers(r)
        BY <2>6, SweepsKeep, DropUserKeeps, MarksKeep, VisibleKeeps DEF OfUsers
    <2>7. CASE Abort(r)
        BY <2>7, EndKeeps DEF Abort
    <2> QED
        BY <2>1, <2>2, <2>3, <2>4, <2>5, <2>6, <2>7
<1>2. CASE UNCHANGED vars
    <2> USE <1>2 DEF vars, notice, rows, people, history
    <2>1. NoticeTypes'
        BY DEF NoticeInv, NoticeTypes, TypeOK, Holders, NoticeTasks
    <2>2. ScopeFits' /\ PublishedIsFrozen' /\ NoOrphanRows'
        BY DEF NoticeInv, ScopeFits, PublishedIsFrozen, NoOrphanRows, Exists, Holders
    <2>3. ASSUME NEW q \in Requests PROVE Knows(q)'
        <3>1. Knows(q)
            BY DEF NoticeInv
        <3>2. (KnowsNotice(q) => KnowsNotice(q)') /\ (KnowsUsers(q) => KnowsUsers(q)')
            BY DEF KnowsNotice, KnowsUsers, Exists, Living
        <3>3. KnowsRows(q) => KnowsRows(q)'
            BY DEF KnowsRows, Holders
        <3> QED
            BY <3>1, <3>2, <3>3 DEF Knows, Ended
    <2> QED
        BY <2>1, <2>2, <2>3 DEF NoticeInv
<1> QED
    BY <1>1, <1>2

LEMMA SpecNoticeInv == Spec => []NoticeInv
<1> QED
    BY InitNoticeInv, NextNoticeInv, PTL DEF Spec

\* The rows of a notice fit each other and go with it, whatever writes them
\* and whatever deletes (sync_notice_targets, sync_notice_users, delete,
\* delete_user), but for the overlaps the properties name.
THEOREM SpecNoticeConsistent == Spec => []NoticeConsistent
<1>1. NoticeInv => NoticeConsistent
    BY DEF NoticeInv, NoticeTypes, NoticeConsistent
<1> QED
    BY <1>1, SpecNoticeInv, PTL

\* Nobody changes what a published notice says, unless an update and a
\* publication overtook each other (update, publish of sys_notice_service).
THEOREM SpecPublishedIsFrozen == Spec => []PublishedIsFrozen
<1>1. NoticeInv => PublishedIsFrozen
    BY DEF NoticeInv
<1> QED
    BY <1>1, SpecNoticeInv, PTL

\* A mark of read is lost only with the row or by a publication after a
\* revocation, unless two publications overlap (sync_notice_users).
THEOREM SpecReadIsKept == Spec => ReadIsKept
<1>1. ASSUME NoticeInv, [Next]_vars
      PROVE  [\A u \in read \ read' :
                 \/ recipients'[u] = 0
                 \/ status = "revoked"
                 \/ <<"publish", "publish">> \in races']_vars
    <2> SUFFICES ASSUME Next, NEW u \in read \ read'
                 PROVE  \/ recipients'[u] = 0
                        \/ status = "revoked"
                        \/ <<"publish", "publish">> \in races'
        BY <1>1
    <2>0. u \in Users
        BY <1>1 DEF NoticeInv, NoticeTypes, TypeOK, Holders
    <2>1. PICK r \in Requests :
              Start(r) \/ Look(r) \/ Write(r) \/ Delete(r) \/ OfUsers(r) \/ Abort(r)
        BY DEF Next
    <2>2. CASE CommitPublish(r)
        <3>1. /\ pc[r] = "commit" /\ ~ Ended(r) /\ task[r].op = "publish" /\ Exists
            BY <2>2 DEF CommitPublish, Ended
        <3>2. status = "published" => "publish" \in task[r].late
            BY <1>1, <3>1, KnowsOf DEF KnowsNotice
        <3>3. status # "draft" /\ status \in Statuses
            BY <1>1 DEF NoticeInv, NoticeTypes, TypeOK, Statuses
        <3>4. races' = races \cup {<<"publish", o>> : o \in task[r].late}
            BY <2>2, <3>1 DEF CommitPublish, Commit
        <3> QED
            BY <3>1, <3>2, <3>3, <3>4 DEF Exists, Statuses
    <2>3. CASE DeleteNotice(r) \/ DropUser(r)
        BY <2>0, <2>3 DEF DeleteNotice, DropUser, Remove
    <2>4. CASE ~ CommitPublish(r) /\ ~ DeleteNotice(r) /\ ~ DropUser(r)
        <3>1. CASE Start(r)
            BY <3>1 DEF Start, BeginCreate, BeginUpdate, BeginOther, BeginRead, BeginDeleteUser,
                       Begin, Query, rows
        <3>2. CASE Look(r)
            <4>1. \E label, t : Query(r, label, t)
                BY <1>1, <3>2, LookQueries
            <4> QED
                BY <4>1 DEF Query, rows
        <3>3. CASE Write(r)
            BY <2>4, <3>3 DEF Write, CommitCreate, Vanished, CommitUpdate, CommitRevoke, CommitPin,
                             End, Query, rows
        <3>4. CASE Delete(r)
            BY <2>4, <3>4 DEF Delete, DeleteTargets, DeleteRecipients, Query, rows
        <3>5. CASE OfUsers(r)
            BY <2>4, <3>5 DEF OfUsers, FindUser, SweepRecipients, SweepTargets, AssignRole,
                             DeleteRole, Visible, Mark, End, Query, rows
        <3>6. CASE Abort(r)
            BY <3>6 DEF Abort, End, Query, rows
        <3> QED
            BY <2>1, <3>1, <3>2, <3>3, <3>4, <3>5, <3>6
    <2> QED
        BY <2>2, <2>3, <2>4
<1> QED
    BY <1>1, SpecNoticeInv, PTL DEF Spec, ReadIsKept

-----------------------------------------------------------------------------
(* DictBundle: what is known of a request.                                 *)

\* Where a request can be, by its operation.
DictPlaces(o) ==
    CASE o = "create_type" -> {"insert_type"}
      [] o = "update_type" -> {"write_type"}
      [] o = "delete_type" -> {"count_data", "delete_type"}
      [] o = "create_data" -> {"check_value", "insert_data"}
      [] o = "update_data" -> {"write_data"}
      [] o = "delete_data" -> {"delete_data"}
      [] o = "apply"       -> {"read_items", "commit"}
AllDictPlaces == {"idle", "done", "insert_type", "write_type", "count_data", "delete_type",
                  "check_value", "insert_data", "write_data", "delete_data", "read_items", "commit"}

Patches   == UNION {[S -> Faces] : S \in SUBSET Nat}
DictTasks ==
    [op : DictOperations, id : Nat, code : Codes \cup {Nothing}, value : Values \cup {Nothing},
     look : Faces \cup {Nothing}, spec : Bundles \cup {Nothing},
     type : {"create", "update", "noop", Nothing}, update : Patches,
     create : SUBSET Values, late : SUBSET DictOperations]

DictTypes ==
    /\ DictTypeOK /\ nextDict \in Nat /\ revalued \in BOOLEAN
    /\ dtask \in [DictRequests -> DictTasks] /\ dpc \in [DictRequests -> AllDictPlaces]
    /\ dictRaces \subseteq DictOperations \X DictOperations

SeedRows ==
    /\ 1 \in DOMAIN dtypes
    /\ dtypes[1] = [code |-> Seed.code, look |-> Seed.look, system |-> TRUE]
    /\ 2 \in DOMAIN ddata
    /\ ddata[2] = [code |-> Seed.code, value |-> Seed.value, look |-> Seed.look, system |-> TRUE]

Used == 1 .. (nextDict - 1)

\* Of types: whom a request writes, and that nobody has the type it deletes.
KnowsType(r) ==
    LET t == dtask[r] IN
    /\ t.op \in {"create_type", "update_type"} => t.look \in Faces
    /\ t.op \in {"create_type", "delete_type"} => t.code \in Codes
    /\ t.op \in {"update_type", "delete_type"} => t.id \in Used \ {1}
    /\ t.op = "delete_type" /\ t.id \in DOMAIN dtypes => dtypes[t.id].code = t.code
    /\ dpc[r] = "delete_type" /\ t.late \cap Valuing = {}
          => \A i \in DOMAIN ddata : ddata[i].code # t.code

\* Of data: that the type is there, and the value not yet.
KnowsDatum(r) ==
    LET t == dtask[r] IN
    /\ t.op = "create_data" => t.code \in Codes /\ t.value \in Values /\ t.look \in Faces
    /\ t.op = "create_data" /\ "delete_type" \notin t.late => TypesOf(t.code) # {}
    /\ dpc[r] = "insert_data" /\ t.late \cap Valuing = {} /\ ~ revalued
          => DataOf(t.code, t.value) = {}
    /\ t.op \in {"update_data", "delete_data"} => t.id \in Used \ {2}
    /\ t.op = "update_data" /\ t.value = Nothing => t.look \in Faces

\* Of a bundle: what its plan says of the tables.
KnowsBundle(r) ==
    LET t == dtask[r] IN
    t.op = "apply" =>
    /\ t.spec \in Bundles /\ t.type \in {"create", "update", "noop"}
    /\ t.type # "create" =>
         /\ t.id \in Used
         /\ t.id \in DOMAIN dtypes => dtypes[t.id].code = t.spec.code
         /\ "delete_type" \notin t.late => t.id \in DOMAIN dtypes
    /\ t.type = "update" => t.id # 1
    /\ t.late = {} /\ t.type = "noop" => dtypes[t.id].look = t.spec.look
    /\ dpc[r] = "commit" =>
         /\ DOMAIN t.update \subseteq Used \ {2} /\ t.create \subseteq ItemsOf(t.spec)
         /\ t.late = {} \/ (t.late \cap Valuing = {} /\ ~ revalued)
               => \A v \in t.create : DataOf(t.spec.code, v) = {}
         /\ t.late = {} =>
               \A v \in ItemsOf(t.spec) \ t.create : \E i \in DataOf(t.spec.code, v) :
                   IF i \in DOMAIN t.update THEN t.update[i] = t.spec.items[v]
                   ELSE ddata[i].look = t.spec.items[v]

DictEnded(r) == dpc[r] \in {"idle", "done"}
KnowsDict(r) ==
    ~ DictEnded(r) => /\ dpc[r] \in DictPlaces(dtask[r].op)
                      /\ KnowsType(r) /\ KnowsDatum(r) /\ KnowsBundle(r)

DictInv ==
    /\ DictTypes /\ SeedRows /\ \A r \in DictRequests : KnowsDict(r)
    /\ ValuesUnique /\ DataHasType /\ BundleConverges

-----------------------------------------------------------------------------
(* DictBundle: the queries.                                                *)

LEMMA NoDictTaskTyped == NoDictTask \in DictTasks
<1>1. [i \in {} |-> Nothing] \in [{} -> Faces] /\ {} \in SUBSET Nat
    OBVIOUS
<1>2. [i \in {} |-> Nothing] \in Patches
    BY <1>1 DEF Patches
<1> QED
    BY <1>2 DEF NoDictTask, DictTasks, DictOperations

\* A query changes what its request knows, and nothing else.
LEMMA DLookKeeps ==
    ASSUME DictInv, NEW r \in DictRequests, NEW label \in AllDictPlaces, NEW t \in DictTasks,
           DLook(r, label, t), KnowsDict(r)'
    PROVE  DictInv'
<1>1. /\ UNCHANGED <<dtypes, ddata, nextDict, bundled, revalued, dictRaces>>
      /\ \A q \in DictRequests \ {r} : dpc'[q] = dpc[q] /\ dtask'[q] = dtask[q]
      /\ dpc' \in [DictRequests -> AllDictPlaces] /\ dtask' \in [DictRequests -> DictTasks]
    BY DEF DLook, DictInv, DictTypes
<1> USE <1>1
<1>2. DictTypes'
    BY DEF DictInv, DictTypes, DictTypeOK, TypesOf
<1>3. SeedRows' /\ ValuesUnique' /\ DataHasType'
    BY DEF DictInv, SeedRows, ValuesUnique, DataHasType, TypesOf, DataOf
<1>4. BundleConverges'
    <2>1. \A c : TypesOf(c)' = TypesOf(c)
        BY DEF TypesOf
    <2>2. \A c, v : DataOf(c, v)' = DataOf(c, v)
        BY DEF DataOf
    <2>3. MatchesOf(bundled)' = MatchesOf(bundled) /\ ItemsOf(bundled)' = ItemsOf(bundled)
        BY <2>2 DEF MatchesOf, ItemsOf
    <2>4. \A m : Updates(bundled, m)' = Updates(bundled, m)
        BY <2>3 DEF Updates, Differs
    <2>5. BundleConverges
        BY DEF DictInv
    <2> QED
        BY <2>1, <2>2, <2>3, <2>4, <2>5 DEF BundleConverges, Differs
<1>5. ASSUME NEW q \in DictRequests \ {r} PROVE KnowsDict(q)'
    <2>1. KnowsDict(q)
        BY DEF DictInv
    <2>2. (KnowsType(q) => KnowsType(q)') /\ (KnowsDatum(q) => KnowsDatum(q)')
        BY DEF KnowsType, KnowsDatum, TypesOf, DataOf, Used
    <2>3. KnowsBundle(q) => KnowsBundle(q)'
        BY DEF KnowsBundle, TypesOf, DataOf, Used
    <2> QED
        BY <2>1, <2>2, <2>3 DEF KnowsDict, DictEnded
<1> QED
    BY <1>2, <1>3, <1>4, <1>5 DEF DictInv

LEMMA DEndKeeps ==
    ASSUME DictInv, NEW r \in DictRequests, DEnd(r)
    PROVE  DictInv'
<1>1. KnowsDict(r)'
    BY DEF DEnd, DLook, KnowsDict, DictEnded, DictInv, DictTypes
<1> QED
    BY <1>1, NoDictTaskTyped, DLookKeeps DEF DEnd, AllDictPlaces

\* Where a request moves to by a query, if it does not end.
LEMMA DLookTo ==
    ASSUME DictInv, NEW r \in DictRequests, NEW label \in AllDictPlaces \ {"idle", "done"},
           NEW t \in DictTasks, label \in DictPlaces(t.op), DLook(r, label, t),
           (KnowsType(r) /\ KnowsDatum(r) /\ KnowsBundle(r))'
    PROVE  DictInv'
<1>1. dpc'[r] = label /\ dtask'[r] = t
    BY DEF DLook, DictInv, DictTypes
<1>2. KnowsDict(r)'
    BY <1>1 DEF KnowsDict, DictEnded
<1> QED
    BY <1>2, DLookKeeps

LEMMA DKnowsOf ==
    ASSUME DictInv, NEW r \in DictRequests, ~ DictEnded(r)
    PROVE  /\ dtask[r] \in DictTasks /\ dpc[r] \in DictPlaces(dtask[r].op)
           /\ dtask[r].op \in DictOperations
           /\ KnowsType(r) /\ KnowsDatum(r) /\ KnowsBundle(r)
           /\ dpc \in [DictRequests -> AllDictPlaces] /\ dtask \in [DictRequests -> DictTasks]
BY DEF DictInv, DictTypes, KnowsDict, DictTasks

\* The first query of a request, which then holds t.
LEMMA DBeginKeeps ==
    ASSUME DictInv, NEW r \in DictRequests, NEW op \in DictOperations, NEW found,
           NEW label \in AllDictPlaces \ {"idle", "done"}, label \in DictPlaces(op),
           NEW t \in DictTasks, DBegin(r, op, found, label, t),
           found /\ dpc'[r] = label /\ dtask'[r] = [t EXCEPT !.op = op]
                 /\ UNCHANGED <<dtypes, ddata, nextDict, revalued>>
              => (KnowsType(r) /\ KnowsDatum(r) /\ KnowsBundle(r))'
    PROVE  DictInv'
<1>1. CASE ~ found
    BY <1>1, DEndKeeps DEF DBegin
<1>2. CASE found
    <2> DEFINE u == [t EXCEPT !.op = op]
    <2>1. u \in DictTasks /\ u.op = op
        BY DEF DictTasks
    <2>2. DLook(r, label, u)
        BY <1>2 DEF DBegin
    <2> HIDE DEF u
    <2>3. dpc'[r] = label /\ dtask'[r] = u /\ UNCHANGED <<dtypes, ddata, nextDict, revalued>>
        BY <2>2 DEF DLook, DictInv, DictTypes
    <2>4. (KnowsType(r) /\ KnowsDatum(r) /\ KnowsBundle(r))'
        BY <1>2, <2>3 DEF u
    <2> QED
        BY <2>1, <2>2, <2>4, DLookTo
<1> QED
    BY <1>1, <1>2

LEMMA BeginTypeKeeps ==
    ASSUME DictInv, NEW r \in DictRequests,
           BeginCreateType(r) \/ BeginUpdateType(r) \/ BeginDeleteType(r)
    PROVE  DictInv'
<1>0. NoDictTask \in DictTasks /\ NoDictTask.late = {}
    BY NoDictTaskTyped DEF NoDictTask
<1>1. CASE BeginCreateType(r)
    <2> PICK c \in Codes, l \in Faces :
            DBegin(r, "create_type", TypesOf(c) = {}, "insert_type",
                   [NoDictTask EXCEPT !.code = c, !.look = l])
        BY <1>1 DEF BeginCreateType
    <2> DEFINE t == [NoDictTask EXCEPT !.code = c, !.look = l]
    <2>1. /\ t \in DictTasks /\ [t EXCEPT !.op = "create_type"].op = "create_type"
          /\ [t EXCEPT !.op = "create_type"].code = c /\ [t EXCEPT !.op = "create_type"].look = l
        BY <1>0 DEF DictTasks
    <2> HIDE DEF t
    <2>2. dpc'[r] = "insert_type" /\ dtask'[r] = [t EXCEPT !.op = "create_type"]
             => (KnowsType(r) /\ KnowsDatum(r) /\ KnowsBundle(r))'
        BY <2>1 DEF KnowsType, KnowsDatum, KnowsBundle
    <2>3. DBegin(r, "create_type", TypesOf(c) = {}, "insert_type", t)
        BY DEF t
    <2> QED
        BY <2>1, <2>2, <2>3, DBeginKeeps DEF DictOperations, AllDictPlaces, DictPlaces
<1>2. CASE BeginUpdateType(r)
    <2> PICK i \in DOMAIN dtypes, l \in Faces :
            DBegin(r, "update_type", ~ dtypes[i].system, "write_type",
                   [NoDictTask EXCEPT !.id = i, !.look = l])
        BY <1>2 DEF BeginUpdateType
    <2> DEFINE t == [NoDictTask EXCEPT !.id = i, !.look = l]
    <2>0. i \in Used /\ i \in Nat /\ (~ dtypes[i].system => i # 1)
        BY DEF DictInv, DictTypes, DictTypeOK, Used, SeedRows
    <2>1. /\ t \in DictTasks /\ [t EXCEPT !.op = "update_type"].op = "update_type"
          /\ [t EXCEPT !.op = "update_type"].id = i /\ [t EXCEPT !.op = "update_type"].look = l
        BY <1>0, <2>0 DEF DictTasks
    <2> HIDE DEF t
    <2>2. ~ dtypes[i].system /\ dpc'[r] = "write_type" /\ dtask'[r] = [t EXCEPT !.op = "update_type"]
             /\ UNCHANGED <<dtypes, ddata, nextDict, revalued>>
             => (KnowsType(r) /\ KnowsDatum(r) /\ KnowsBundle(r))'
        BY <2>0, <2>1 DEF KnowsType, KnowsDatum, KnowsBundle, Used
    <2>3. DBegin(r, "update_type", ~ dtypes[i].system, "write_type", t)
        BY DEF t
    <2> QED
        BY <2>1, <2>2, <2>3, DBeginKeeps DEF DictOperations, AllDictPlaces, DictPlaces
<1>3. CASE BeginDeleteType(r)
    <2> PICK i \in DOMAIN dtypes :
            DBegin(r, "delete_type", ~ dtypes[i].system, "count_data",
                   [NoDictTask EXCEPT !.id = i, !.code = dtypes[i].code])
        BY <1>3 DEF BeginDeleteType
    <2> DEFINE t == [NoDictTask EXCEPT !.id = i, !.code = dtypes[i].code]
    <2>0. i \in Used /\ i \in Nat /\ (~ dtypes[i].system => i # 1) /\ dtypes[i].code \in Codes
        BY DEF DictInv, DictTypes, DictTypeOK, Used, SeedRows, TypeRows
    <2>1. /\ t \in DictTasks /\ [t EXCEPT !.op = "delete_type"].op = "delete_type"
          /\ [t EXCEPT !.op = "delete_type"].id = i
          /\ [t EXCEPT !.op = "delete_type"].code = dtypes[i].code
        BY <1>0, <2>0 DEF DictTasks
    <2> HIDE DEF t
    <2>2. ~ dtypes[i].system /\ dpc'[r] = "count_data" /\ dtask'[r] = [t EXCEPT !.op = "delete_type"]
             /\ UNCHANGED <<dtypes, ddata, nextDict, revalued>>
             => (KnowsType(r) /\ KnowsDatum(r) /\ KnowsBundle(r))'
        BY <2>0, <2>1 DEF KnowsType, KnowsDatum, KnowsBundle, Used
    <2>3. DBegin(r, "delete_type", ~ dtypes[i].system, "count_data", t)
        BY DEF t
    <2> QED
        BY <2>1, <2>2, <2>3, DBeginKeeps DEF DictOperations, AllDictPlaces, DictPlaces
<1> QED
    BY <1>1, <1>2, <1>3

LEMMA BeginDataKeeps ==
    ASSUME DictInv, NEW r \in DictRequests,
           BeginCreateData(r) \/ BeginUpdateData(r) \/ BeginDeleteData(r)
    PROVE  DictInv'
<1>0. NoDictTask \in DictTasks /\ NoDictTask.late = {}
    BY NoDictTaskTyped DEF NoDictTask
<1>1. CASE BeginCreateData(r)
    <2> PICK c \in Codes, v \in Values, l \in Faces :
            DBegin(r, "create_data", TypesOf(c) # {}, "check_value",
                   [NoDictTask EXCEPT !.code = c, !.value = v, !.look = l])
        BY <1>1 DEF BeginCreateData
    <2> DEFINE t == [NoDictTask EXCEPT !.code = c, !.value = v, !.look = l]
               u == [t EXCEPT !.op = "create_data"]
    <2>1. t \in DictTasks /\ u.op = "create_data" /\ u.code = c /\ u.value = v /\ u.look = l
        BY <1>0 DEF DictTasks
    <2>3. DBegin(r, "create_data", TypesOf(c) # {}, "check_value", t)
        OBVIOUS
    <2> HIDE DEF t
    <2>2. TypesOf(c) # {} /\ dpc'[r] = "check_value" /\ dtask'[r] = u
             /\ UNCHANGED <<dtypes, ddata, nextDict, revalued>>
             => (KnowsType(r) /\ KnowsDatum(r) /\ KnowsBundle(r))'
        BY <2>1 DEF KnowsType, KnowsDatum, KnowsBundle, TypesOf
    <2> QED
        BY <2>1, <2>2, <2>3, DBeginKeeps DEF DictOperations, AllDictPlaces, DictPlaces
<1>2. CASE BeginUpdateData(r)
    <2> PICK i \in DOMAIN ddata, v \in Values \cup {Nothing}, l \in Faces \cup {Nothing} :
            /\ v = Nothing <=> l # Nothing
            /\ DBegin(r, "update_data", ~ ddata[i].system, "write_data",
                      [NoDictTask EXCEPT !.id = i, !.value = v, !.look = l])
        BY <1>2 DEF BeginUpdateData
    <2> DEFINE t == [NoDictTask EXCEPT !.id = i, !.value = v, !.look = l]
               u == [t EXCEPT !.op = "update_data"]
    <2>0. i \in Used /\ i \in Nat /\ (~ ddata[i].system => i # 2)
        BY DEF DictInv, DictTypes, DictTypeOK, Used, SeedRows
    <2>1. t \in DictTasks /\ u.op = "update_data" /\ u.id = i /\ u.value = v /\ u.look = l
        BY <1>0, <2>0 DEF DictTasks
    <2>3. DBegin(r, "update_data", ~ ddata[i].system, "write_data", t)
        OBVIOUS
    <2> HIDE DEF t
    <2>2. ~ ddata[i].system /\ dpc'[r] = "write_data" /\ dtask'[r] = u
             /\ UNCHANGED <<dtypes, ddata, nextDict, revalued>>
             => (KnowsType(r) /\ KnowsDatum(r) /\ KnowsBundle(r))'
        BY <2>0, <2>1 DEF KnowsType, KnowsDatum, KnowsBundle, Used
    <2> QED
        BY <2>1, <2>2, <2>3, DBeginKeeps DEF DictOperations, AllDictPlaces, DictPlaces
<1>3. CASE BeginDeleteData(r)
    <2> PICK i \in DOMAIN ddata :
            DBegin(r, "delete_data", ~ ddata[i].system, "delete_data",
                   [NoDictTask EXCEPT !.id = i])
        BY <1>3 DEF BeginDeleteData
    <2> DEFINE t == [NoDictTask EXCEPT !.id = i]
               u == [t EXCEPT !.op = "delete_data"]
    <2>0. i \in Used /\ i \in Nat /\ (~ ddata[i].system => i # 2)
        BY DEF DictInv, DictTypes, DictTypeOK, Used, SeedRows
    <2>1. t \in DictTasks /\ u.op = "delete_data" /\ u.id = i
        BY <1>0, <2>0 DEF DictTasks
    <2>3. DBegin(r, "delete_data", ~ ddata[i].system, "delete_data", t)
        OBVIOUS
    <2> HIDE DEF t
    <2>2. ~ ddata[i].system /\ dpc'[r] = "delete_data" /\ dtask'[r] = u
             /\ UNCHANGED <<dtypes, ddata, nextDict, revalued>>
             => (KnowsType(r) /\ KnowsDatum(r) /\ KnowsBundle(r))'
        BY <2>0, <2>1 DEF KnowsType, KnowsDatum, KnowsBundle, Used
    <2> QED
        BY <2>1, <2>2, <2>3, DBeginKeeps DEF DictOperations, AllDictPlaces, DictPlaces
<1> QED
    BY <1>1, <1>2, <1>3

LEMMA BeginApplyKeeps ==
    ASSUME DictInv, NEW r \in DictRequests, BeginApplyBundle(r)
    PROVE  DictInv'
<1>0. NoDictTask \in DictTasks /\ NoDictTask.late = {}
    BY NoDictTaskTyped DEF NoDictTask
<1>1. PICK spec \in Bundles :
          \/ /\ TypesOf(spec.code) = {}
             /\ DBegin(r, "apply", TRUE, "read_items",
                       [NoDictTask EXCEPT !.spec = spec, !.type = "create"])
          \/ \E i \in TypesOf(spec.code) :
               DBegin(r, "apply", Differs(dtypes[i], spec.look) => MayUpdate(dtypes[i]),
                      "read_items",
                      [NoDictTask EXCEPT !.spec = spec, !.id = i,
                          !.type = IF Differs(dtypes[i], spec.look) THEN "update" ELSE "noop"])
    BY DEF BeginApplyBundle
<1>2. CASE /\ TypesOf(spec.code) = {}
           /\ DBegin(r, "apply", TRUE, "read_items",
                     [NoDictTask EXCEPT !.spec = spec, !.type = "create"])
    <2> DEFINE t == [NoDictTask EXCEPT !.spec = spec, !.type = "create"]
               u == [t EXCEPT !.op = "apply"]
    <2>1. t \in DictTasks /\ u.op = "apply" /\ u.spec = spec /\ u.type = "create" /\ u.late = {}
        BY <1>0 DEF DictTasks
    <2>2. DBegin(r, "apply", TRUE, "read_items", t)
        BY <1>2
    <2> HIDE DEF t
    <2>3. dpc'[r] = "read_items" /\ dtask'[r] = u /\ UNCHANGED <<dtypes, ddata, nextDict, revalued>>
             => (KnowsType(r) /\ KnowsDatum(r) /\ KnowsBundle(r))'
        BY <1>2, <2>1 DEF KnowsType, KnowsDatum, KnowsBundle, TypesOf
    <2> QED
        BY <2>1, <2>2, <2>3, DBeginKeeps DEF DictOperations, AllDictPlaces, DictPlaces
<1>3. ASSUME NEW i \in TypesOf(spec.code),
             DBegin(r, "apply", Differs(dtypes[i], spec.look) => MayUpdate(dtypes[i]),
                    "read_items",
                    [NoDictTask EXCEPT !.spec = spec, !.id = i,
                        !.type = IF Differs(dtypes[i], spec.look) THEN "update" ELSE "noop"])
      PROVE  DictInv'
    <2> DEFINE kind == IF Differs(dtypes[i], spec.look) THEN "update" ELSE "noop"
               t == [NoDictTask EXCEPT !.spec = spec, !.id = i, !.type = kind]
               u == [t EXCEPT !.op = "apply"]
    <2>0. /\ i \in DOMAIN dtypes /\ dtypes[i].code = spec.code
          /\ i \in Used /\ i \in Nat /\ (~ dtypes[i].system => i # 1)
        BY DEF DictInv, DictTypes, DictTypeOK, Used, SeedRows, TypesOf
    <2>1. kind \in {"update", "noop"} /\ (kind = "update" <=> dtypes[i].look # spec.look)
        BY DEF Differs
    <2>2. DBegin(r, "apply", Differs(dtypes[i], spec.look) => MayUpdate(dtypes[i]), "read_items", t)
        BY <1>3
    <2> HIDE DEF kind
    <2>3. /\ t \in DictTasks /\ u.op = "apply" /\ u.spec = spec /\ u.id = i /\ u.type = kind
          /\ u.late = {}
        BY <1>0, <2>0, <2>1 DEF DictTasks
    <2> HIDE DEF t
    <2>4. (Differs(dtypes[i], spec.look) => MayUpdate(dtypes[i]))
             /\ dpc'[r] = "read_items" /\ dtask'[r] = u
             /\ UNCHANGED <<dtypes, ddata, nextDict, revalued>>
             => (KnowsType(r) /\ KnowsDatum(r) /\ KnowsBundle(r))'
        BY <2>0, <2>1, <2>3 DEF KnowsType, KnowsDatum, KnowsBundle, Used, Differs, MayUpdate
    <2> QED
        BY <2>2, <2>3, <2>4, DBeginKeeps DEF DictOperations, AllDictPlaces, DictPlaces
<1> QED
    BY <1>1, <1>2, <1>3

LEMMA CountDataKeeps ==
    ASSUME DictInv, NEW r \in DictRequests, CountData(r)
    PROVE  DictInv'
<1>1. dpc[r] = "count_data" /\ ~ DictEnded(r)
    BY DEF CountData, DictEnded
<1>2. CASE DEnd(r)
    BY <1>2, DEndKeeps
<1>3. CASE ~ DEnd(r)
    <2>1. /\ DLook(r, "delete_type", dtask[r])
          /\ \A i \in DOMAIN ddata : ddata[i].code # dtask[r].code
        BY <1>3 DEF CountData
    <2>2. dtask[r].op = "delete_type" /\ dtask[r] \in DictTasks
        BY <1>1, DKnowsOf DEF DictPlaces, DictOperations
    <2>3. /\ dpc'[r] = "delete_type" /\ dtask'[r] = dtask[r]
          /\ UNCHANGED <<dtypes, ddata, nextDict, revalued>>
        BY <1>1, <2>1, DKnowsOf DEF DLook
    <2>4. (KnowsType(r) /\ KnowsDatum(r) /\ KnowsBundle(r))'
        BY <1>1, <2>1, <2>2, <2>3, DKnowsOf DEF KnowsType, KnowsDatum, KnowsBundle, Used
    <2> QED
        BY <2>1, <2>2, <2>4, DLookTo DEF AllDictPlaces, DictPlaces
<1> QED
    BY <1>2, <1>3

LEMMA CheckValueKeeps ==
    ASSUME DictInv, NEW r \in DictRequests, CheckValue(r)
    PROVE  DictInv'
<1>1. dpc[r] = "check_value" /\ ~ DictEnded(r)
    BY DEF CheckValue, DictEnded
<1>2. CASE DEnd(r)
    BY <1>2, DEndKeeps
<1>3. CASE ~ DEnd(r)
    <2>1. /\ DLook(r, "insert_data", dtask[r])
          /\ DataOf(dtask[r].code, dtask[r].value) = {}
        BY <1>3 DEF CheckValue
    <2>2. dtask[r].op = "create_data" /\ dtask[r] \in DictTasks
        BY <1>1, DKnowsOf DEF DictPlaces, DictOperations
    <2>3. /\ dpc'[r] = "insert_data" /\ dtask'[r] = dtask[r]
          /\ UNCHANGED <<dtypes, ddata, nextDict, revalued>>
        BY <1>1, <2>1, DKnowsOf DEF DLook
    <2>4. (KnowsType(r) /\ KnowsDatum(r) /\ KnowsBundle(r))'
        BY <1>1, <2>1, <2>2, <2>3, DKnowsOf
        DEF KnowsType, KnowsDatum, KnowsBundle, Used, TypesOf, DataOf
    <2> QED
        BY <2>1, <2>2, <2>4, DLookTo DEF AllDictPlaces, DictPlaces
<1> QED
    BY <1>2, <1>3

\* The plan of a bundle says of its items what KnowsBundle does.
LEMMA ReadItemsKeeps ==
    ASSUME DictInv, NEW r \in DictRequests, ReadItems(r)
    PROVE  DictInv'
<1> DEFINE old  == dtask[r]
           spec == old.spec
<1>1. dpc[r] = "read_items" /\ ~ DictEnded(r)
    BY DEF ReadItems, DictEnded
<1>2. CASE DEnd(r)
    BY <1>2, DEndKeeps
<1>3. CASE ~ DEnd(r)
    <2>1. PICK m \in MatchesOf(spec) :
              LET updates == Updates(spec, m) IN
              /\ \A v \in updates : MayUpdate(ddata[m[v]])
              /\ DLook(r, "commit", [old EXCEPT
                                       !.update = [i \in {m[v] : v \in updates} |->
                                                     spec.items[ddata[i].value]],
                                       !.create = {v \in ItemsOf(spec) : m[v] = 0}])
        BY <1>3 DEF ReadItems
    <2>2. old.op = "apply" /\ old \in DictTasks /\ KnowsBundle(r) /\ spec \in Bundles
        BY <1>1, DKnowsOf DEF DictPlaces, DictOperations, KnowsBundle
    <2> DEFINE updates == Updates(spec, m)
               patch   == [i \in {m[v] : v \in updates} |-> spec.items[ddata[i].value]]
               create  == {v \in ItemsOf(spec) : m[v] = 0}
               t       == [old EXCEPT !.update = patch, !.create = create]
    <2>3. ASSUME NEW v \in ItemsOf(spec)
          PROVE  /\ v \in Values /\ spec.items[v] \in Faces
                 /\ m[v] = 0 => DataOf(spec.code, v) = {}
                 /\ m[v] # 0 => m[v] \in DataOf(spec.code, v) /\ m[v] \in Used /\ m[v] \in Nat
                               /\ ddata[m[v]].value = v
        <3>1. v \in Values /\ spec.items[v] \in Faces
            BY <2>2 DEF ItemsOf, Bundles
        <3>2. DOMAIN ddata \subseteq Used /\ 0 \notin Used /\ Used \subseteq Nat
            BY DEF DictInv, DictTypes, DictTypeOK, Used
        <3>3. m[v] \in IF DataOf(spec.code, v) = {} THEN {0} ELSE DataOf(spec.code, v)
            BY DEF MatchesOf
        <3>4. DataOf(spec.code, v) \subseteq DOMAIN ddata
              /\ \A i \in DataOf(spec.code, v) : ddata[i].value = v
            BY DEF DataOf
        <3> QED
            BY <3>1, <3>2, <3>3, <3>4
    <2>4. ASSUME NEW v \in updates
          PROVE  /\ v \in ItemsOf(spec) /\ m[v] # 0 /\ m[v] # 2
                 /\ ddata[m[v]].look # spec.items[v] /\ ~ ddata[m[v]].system
        <3>1. v \in ItemsOf(spec) /\ m[v] # 0 /\ ddata[m[v]].look # spec.items[v]
            BY DEF Updates, Differs
        <3>2. ~ ddata[m[v]].system
            BY <2>1 DEF MayUpdate
        <3> QED
            BY <3>1, <3>2 DEF DictInv, SeedRows
    <2>5. /\ DOMAIN patch \subseteq Used \ {2} /\ DOMAIN patch \in SUBSET Nat
          /\ \A v \in updates : patch[m[v]] = spec.items[v]
          /\ patch \in [DOMAIN patch -> Faces]
        <3>1. DOMAIN patch \subseteq Used \ {2} /\ DOMAIN patch \in SUBSET Nat
            BY <2>3, <2>4
        <3>2. \A v \in updates : patch[m[v]] = spec.items[v]
            BY <2>3, <2>4
        <3> QED
            BY <2>3, <2>4, <3>1, <3>2
    <2>6. /\ create \subseteq ItemsOf(spec) /\ create \subseteq Values
          /\ \A v \in create : DataOf(spec.code, v) = {}
        BY <2>3
    <2>7. ASSUME NEW v \in ItemsOf(spec) \ create
          PROVE  \E i \in DataOf(spec.code, v) :
                     IF i \in DOMAIN patch THEN patch[i] = spec.items[v]
                     ELSE ddata[i].look = spec.items[v]
        <3>1. m[v] \in DataOf(spec.code, v) /\ ddata[m[v]].value = v
            BY <2>3
        <3>2. m[v] \in DOMAIN patch => patch[m[v]] = spec.items[v]
            BY <3>1
        <3>3. m[v] \notin DOMAIN patch => ddata[m[v]].look = spec.items[v]
            <4>1. m[v] \notin DOMAIN patch => v \notin updates
                OBVIOUS
            <4> QED
                BY <2>3, <4>1 DEF Updates, Differs
        <3> QED
            BY <3>1, <3>2, <3>3
    <2>8. patch \in Patches
        BY <2>5 DEF Patches
    <2>9. DLook(r, "commit", t)
        BY <2>1
    <2> HIDE DEF patch, create
    <2>10. /\ t \in DictTasks /\ t.op = "apply" /\ t.spec = spec /\ t.type = old.type
           /\ t.id = old.id /\ t.late = old.late /\ t.update = patch /\ t.create = create
        BY <2>2, <2>6, <2>8 DEF DictTasks
    <2> HIDE DEF t
    <2>11. /\ dpc'[r] = "commit" /\ dtask'[r] = t
           /\ UNCHANGED <<dtypes, ddata, nextDict, revalued>>
        BY <1>1, <2>9, DKnowsOf DEF DLook
    <2>12. KnowsBundle(r)'
        BY <1>1, <2>2, <2>5, <2>6, <2>7, <2>10, <2>11 DEF KnowsBundle, TypesOf, DataOf, Used
    <2>13. (KnowsType(r) /\ KnowsDatum(r))'
        BY <2>10, <2>11 DEF KnowsType, KnowsDatum
    <2> QED
        BY <2>9, <2>10, <2>12, <2>13, DLookTo DEF AllDictPlaces, DictPlaces
<1> QED
    BY <1>2, <1>3

-----------------------------------------------------------------------------
(* DictBundle: the writes.                                                 *)

\* What the write of an operation does to the tables: ids are not used again
\* and rows keep their codes; only who creates adds data, and only who deletes
\* types takes them.
DictEffect(o) ==
    /\ nextDict <= nextDict' /\ (revalued => revalued')
    /\ \A i \in DOMAIN dtypes' : i \in Used =>
           i \in DOMAIN dtypes /\ dtypes'[i].code = dtypes[i].code
    /\ o # "delete_type" => \A i \in DOMAIN dtypes :
           i \in DOMAIN dtypes' /\ dtypes'[i].code = dtypes[i].code
    /\ o \notin Valuing => \A i \in DOMAIN ddata' :
           /\ i \in DOMAIN ddata /\ ddata'[i].code = ddata[i].code
           /\ ~ revalued' => ddata'[i].value = ddata[i].value

LEMMA IdsGrow ==
    ASSUME NEW n \in Nat, NEW m \in Nat, n <= m
    PROVE  1 .. (n - 1) \subseteq 1 .. (m - 1)
OBVIOUS

\* The others keep what they know, or have seen that somebody wrote.
LEMMA DOthersKnow ==
    ASSUME DictInv, NEW r \in DictRequests, ~ DictEnded(r), DWrite(r),
           DictEffect(dtask[r].op), nextDict' \in Nat,
           NEW q \in DictRequests \ {r}
    PROVE  KnowsDict(q)' /\ dtask'[q] \in DictTasks
<1> DEFINE o == dtask[r].op
           t == dtask[q]
<1>1. o \in DictOperations /\ t \in DictTasks /\ t.late \subseteq DictOperations
    BY DKnowsOf DEF DictInv, DictTypes, DictTasks
<1>2. dpc'[q] = dpc[q] /\ dtask'[q] \in DictTasks
    <2>1. dtask'[q] = [t EXCEPT !.late = IF q \in DictRunning THEN @ \cup {o} ELSE @]
        BY DEF DWrite
    <2>2. dpc'[q] = dpc[q]
        BY DEF DWrite, DictInv, DictTypes
    <2> QED
        BY <1>1, <2>1, <2>2 DEF DictTasks
<1>3. CASE DictEnded(q)
    BY <1>2, <1>3 DEF KnowsDict, DictEnded
<1>4. CASE ~ DictEnded(q)
    <2> DEFINE u == dtask'[q]
    <2>1. u = [t EXCEPT !.late = @ \cup {o}]
        BY <1>4 DEF DWrite, DictRunning, DictEnded
    <2>2. /\ u.op = t.op /\ u.id = t.id /\ u.code = t.code /\ u.value = t.value
          /\ u.look = t.look /\ u.spec = t.spec /\ u.type = t.type /\ u.update = t.update
          /\ u.create = t.create /\ u.late = t.late \cup {o}
        BY <1>1, <2>1 DEF DictTasks
    <2> HIDE DEF u
    <2>3. /\ KnowsType(q) /\ KnowsDatum(q) /\ KnowsBundle(q)
          /\ dpc[q] \in DictPlaces(t.op)
        BY <1>4 DEF DictInv, KnowsDict
    <2>4. Used \subseteq Used'
        <3>1. nextDict \in Nat /\ nextDict' \in Nat /\ nextDict <= nextDict'
            BY DEF DictEffect, DictInv, DictTypes
        <3> QED
            BY <3>1, IdsGrow DEF Used
    <2>5. KnowsType(q)'
        <3>1. t.op \in {"update_type", "delete_type"} => t.id \in Used
            BY <2>3 DEF KnowsType
        <3>2. t.op = "delete_type" /\ t.id \in DOMAIN dtypes' => dtypes'[t.id].code = t.code
            BY <2>3, <3>1 DEF KnowsType, DictEffect
        <3>3. dpc[q] = "delete_type" /\ u.late \cap Valuing = {}
                 => \A i \in DOMAIN ddata' : ddata'[i].code # t.code
            <4>1. u.late \cap Valuing = {} => t.late \cap Valuing = {} /\ o \notin Valuing
                BY <2>2
            <4> QED
                BY <2>3, <4>1 DEF KnowsType, DictEffect
        <3> QED
            BY <1>2, <2>2, <2>3, <2>4, <3>2, <3>3 DEF KnowsType, u
    <2>6. KnowsDatum(q)'
        <3>1. t.op = "create_data" /\ "delete_type" \notin u.late
                 => \E i \in DOMAIN dtypes' : dtypes'[i].code = t.code
            BY <2>2, <2>3 DEF KnowsDatum, DictEffect, TypesOf
        <3>2. dpc[q] = "insert_data" /\ u.late \cap Valuing = {} /\ ~ revalued'
                 => ~ \E i \in DOMAIN ddata' : ddata'[i].code = t.code /\ ddata'[i].value = t.value
            <4>1. u.late \cap Valuing = {} => t.late \cap Valuing = {} /\ o \notin Valuing
                BY <2>2
            <4> QED
                BY <2>3, <4>1 DEF KnowsDatum, DictEffect, DataOf
        <3> QED
            BY <1>2, <2>2, <2>3, <2>4, <3>1, <3>2 DEF KnowsDatum, u, TypesOf, DataOf
    <2>7. KnowsBundle(q)'
        <3>1. CASE t.op # "apply"
            BY <2>2, <3>1 DEF KnowsBundle, u
        <3>2. CASE t.op = "apply"
            <4>1. t.type # "create" =>
                    /\ t.id \in DOMAIN dtypes' => dtypes'[t.id].code = t.spec.code
                    /\ "delete_type" \notin u.late => t.id \in DOMAIN dtypes'
                BY <2>2, <2>3, <3>2 DEF KnowsBundle, DictEffect
            <4>2. ASSUME dpc[q] = "commit", u.late \cap Valuing = {}, ~ revalued',
                         NEW v \in t.create
                  PROVE  ~ \E i \in DOMAIN ddata' :
                             ddata'[i].code = t.spec.code /\ ddata'[i].value = v
                <5>1. t.late \cap Valuing = {} /\ o \notin Valuing /\ ~ revalued
                    BY <2>2, <4>2 DEF DictEffect
                <5>2. DataOf(t.spec.code, v) = {}
                    BY <2>3, <3>2, <4>2, <5>1 DEF KnowsBundle
                <5> QED
                    BY <4>2, <5>1, <5>2 DEF DictEffect, DataOf
            <4>3. u.late # {}
                BY <2>2
            <4> QED
                BY <1>2, <2>2, <2>3, <2>4, <3>2, <4>1, <4>2, <4>3 DEF KnowsBundle, u, DataOf
        <3> QED
            BY <3>1, <3>2
    <2> QED
        BY <1>2, <2>2, <2>3, <2>5, <2>6, <2>7 DEF KnowsDict, u
<1> QED
    BY <1>2, <1>3, <1>4

\* What is left to show of a write.
LEMMA DEffectKeeps ==
    ASSUME DictInv, NEW r \in DictRequests, ~ DictEnded(r), DWrite(r),
           DictEffect(dtask[r].op), nextDict' \in Nat, revalued' \in BOOLEAN,
           DictTypeOK', SeedRows', ValuesUnique', DataHasType', BundleConverges'
    PROVE  DictInv'
<1>1. ASSUME NEW q \in DictRequests \ {r} PROVE KnowsDict(q)' /\ dtask'[q] \in DictTasks
    BY DOthersKnow
<1>2. /\ dpc'[r] = "done" /\ dtask'[r] = NoDictTask
      /\ dpc' \in [DictRequests -> AllDictPlaces]
    BY DEF DWrite, DictInv, DictTypes, AllDictPlaces
<1>3. KnowsDict(r)'
    BY <1>2 DEF KnowsDict, DictEnded
<1>4. dtask' \in [DictRequests -> DictTasks]
    <2>1. \A q \in DictRequests : dtask'[q] \in DictTasks
        BY <1>1, <1>2, NoDictTaskTyped
    <2>2. dtask' = [q \in DictRequests |-> dtask'[q]]
        BY DEF DWrite
    <2> QED
        BY <2>1, <2>2
<1>5. dictRaces' \subseteq DictOperations \X DictOperations
    BY DKnowsOf DEF DWrite, DictInv, DictTypes, DictTasks
<1> QED
    BY <1>1, <1>2, <1>3, <1>4, <1>5 DEF DictInv, DictTypes

\* Without the overlaps of a property, the writer itself has seen none.
LEMMA DRaces ==
    ASSUME NEW r \in DictRequests, DWrite(r), NEW A, NEW B
    PROVE  /\ dictRaces \subseteq dictRaces'
           /\ dictRaces' \cap (A \X B) = {} =>
                /\ dictRaces \cap (A \X B) = {}
                /\ dtask[r].op \in A => dtask[r].late \cap B = {}
<1>1. /\ dictRaces \subseteq dictRaces'
      /\ \A o \in dtask[r].late : <<dtask[r].op, o>> \in dictRaces'
    BY DEF DWrite
<1>2. ASSUME dictRaces' \cap (A \X B) = {}, dtask[r].op \in A, NEW o \in dtask[r].late, o \in B
      PROVE  FALSE
    <2>1. <<dtask[r].op, o>> \in A \X B
        BY <1>2
    <2> QED
        BY <1>1, <1>2, <2>1
<1> QED
    BY <1>1, <1>2

\* A write to the types leaves the values as they are.
LEMMA TypesAlone ==
    ASSUME DictInv, NEW r \in DictRequests, DWrite(r), UNCHANGED <<ddata, revalued>>,
           bundled' = Nothing
    PROVE  ValuesUnique' /\ BundleConverges'
<1>1. dictRaces \subseteq dictRaces'
    BY DEF DWrite
<1>2. ValuesUnique'
    BY <1>1 DEF DictInv, ValuesUnique, DataOf
<1> QED
    BY <1>2 DEF BundleConverges

LEMMA InsertTypeKeeps ==
    ASSUME DictInv, NEW r \in DictRequests, InsertType(r)
    PROVE  DictInv'
<1> DEFINE t   == dtask[r]
           row == [code |-> t.code, look |-> t.look, system |-> FALSE]
<1>1. dpc[r] = "insert_type" /\ ~ DictEnded(r)
    BY DEF InsertType, DictEnded
<1>2. CASE DEnd(r)
    BY <1>2, DEndKeeps
<1>3. CASE ~ DEnd(r)
    <2>1. /\ DWrite(r) /\ dtypes' = With(dtypes, nextDict, row) /\ bundled' = Nothing
          /\ UNCHANGED <<ddata, revalued>> /\ nextDict' = nextDict + 1 /\ TypesOf(t.code) = {}
        BY <1>3 DEF InsertType, WriteTypes
    <2>2. t.op = "create_type" /\ t.code \in Codes /\ t.look \in Faces
        BY <1>1, DKnowsOf DEF DictPlaces, DictOperations, KnowsType
    <2>3. /\ row \in TypeRows /\ row.code = t.code
        BY <2>2 DEF TypeRows
    <2> HIDE DEF row
    <2>4. /\ nextDict \in Nat /\ nextDict \notin DOMAIN dtypes
          /\ DOMAIN dtypes \subseteq Used /\ DOMAIN ddata \subseteq Used
        BY DEF DictInv, DictTypes, DictTypeOK, Used
    <2>5. /\ DOMAIN dtypes' = DOMAIN dtypes \cup {nextDict} /\ dtypes'[nextDict] = row
          /\ \A i \in DOMAIN dtypes : dtypes'[i] = dtypes[i]
        BY <2>1, <2>4 DEF With
    <2>6. DictTypeOK'
        <3>1. (DOMAIN dtypes \cup DOMAIN ddata \subseteq 1 .. (nextDict - 1))'
            BY <2>1, <2>4, <2>5 DEF Used, SeedRows, DictInv
        <3>2. ASSUME NEW i \in DOMAIN dtypes'
              PROVE  dtypes'[i] \in TypeRows /\ TypesOf(dtypes[i].code)' = {i}
            <4>1. CASE i = nextDict
                BY <2>1, <2>3, <2>5, <4>1 DEF TypesOf
            <4>2. CASE i # nextDict
                <5>1. i \in DOMAIN dtypes /\ dtypes[i] \in TypeRows /\ TypesOf(dtypes[i].code) = {i}
                    BY <2>5, <4>2 DEF DictInv, DictTypes, DictTypeOK
                <5>2. dtypes[i].code # t.code
                    BY <2>1, <5>1 DEF TypesOf
                <5> QED
                    BY <2>3, <2>5, <5>1, <5>2 DEF TypesOf
            <4> QED
                BY <4>1, <4>2
        <3> QED
            BY <2>1, <3>1, <3>2 DEF DictInv, DictTypes, DictTypeOK
    <2>7. SeedRows'
        BY <2>1, <2>5 DEF DictInv, SeedRows
    <2>8. DataHasType'
        BY <2>1, <2>5, DRaces DEF DictInv, DataHasType, TypesOf, DWrite
    <2>9. DictEffect(t.op)
        BY <2>1, <2>2, <2>4, <2>5 DEF DictEffect, Used
    <2> QED
        BY <1>1, <2>1, <2>4, <2>6, <2>7, <2>8, <2>9, TypesAlone, DEffectKeeps
        DEF DictInv, DictTypes
<1> QED
    BY <1>2, <1>3

LEMMA WriteTypeKeeps ==
    ASSUME DictInv, NEW r \in DictRequests, WriteType(r)
    PROVE  DictInv'
<1> DEFINE t == dtask[r]
<1>1. dpc[r] = "write_type" /\ ~ DictEnded(r)
    BY DEF WriteType, DictEnded
<1>2. CASE DEnd(r)
    BY <1>2, DEndKeeps
<1>3. CASE ~ DEnd(r)
    <2>1. /\ DWrite(r) /\ dtypes' = [dtypes EXCEPT ![t.id].look = t.look] /\ bundled' = Nothing
          /\ UNCHANGED <<ddata, revalued, nextDict>> /\ t.id \in DOMAIN dtypes
        BY <1>3 DEF WriteType, WriteTypes
    <2>2. t.op = "update_type" /\ t.look \in Faces /\ t.id # 1
        BY <1>1, DKnowsOf DEF DictPlaces, DictOperations, KnowsType
    <2>0. DOMAIN dtypes' = DOMAIN dtypes
        BY <2>1
    <2>3. ASSUME NEW i \in DOMAIN dtypes
          PROVE  /\ dtypes'[i] \in TypeRows /\ dtypes'[i].code = dtypes[i].code
                 /\ i # t.id => dtypes'[i] = dtypes[i]
        <3>1. dtypes[i] \in TypeRows
            BY DEF DictInv, DictTypes, DictTypeOK
        <3> QED
            BY <2>1, <2>2, <3>1 DEF TypeRows
    <2>6. DictTypeOK'
        <3>1. ASSUME NEW i \in DOMAIN dtypes'
              PROVE  dtypes'[i] \in TypeRows /\ TypesOf(dtypes[i].code)' = {i}
            <4>1. i \in DOMAIN dtypes /\ TypesOf(dtypes[i].code) = {i}
                BY <2>0 DEF DictInv, DictTypes, DictTypeOK
            <4>2. \A k \in DOMAIN dtypes' : dtypes'[k].code = dtypes'[i].code <=> k = i
                BY <2>0, <2>3, <4>1 DEF TypesOf
            <4> QED
                BY <2>3, <4>1, <4>2 DEF TypesOf
        <3> QED
            BY <2>0, <2>1, <3>1 DEF DictInv, DictTypes, DictTypeOK
    <2>7. SeedRows'
        BY <2>0, <2>1, <2>2, <2>3 DEF DictInv, SeedRows
    <2>8. DataHasType'
        BY <2>0, <2>1, <2>3 DEF DictInv, DataHasType, DWrite, TypesOf
    <2>9. DictEffect(t.op)
        BY <2>0, <2>1, <2>2, <2>3 DEF DictEffect, Used, DictInv, DictTypes
    <2> QED
        BY <1>1, <2>1, <2>6, <2>7, <2>8, <2>9, TypesAlone, DEffectKeeps
        DEF DictInv, DictTypes
<1> QED
    BY <1>2, <1>3

LEMMA DeleteTypeKeeps ==
    ASSUME DictInv, NEW r \in DictRequests, DeleteType(r)
    PROVE  DictInv'
<1> DEFINE t == dtask[r]
<1>1. dpc[r] = "delete_type" /\ ~ DictEnded(r)
    BY DEF DeleteType, DictEnded
<1>2. CASE DEnd(r)
    BY <1>2, DEndKeeps
<1>3. CASE ~ DEnd(r)
    <2>1. /\ DWrite(r) /\ dtypes' = Without(dtypes, t.id) /\ bundled' = Nothing
          /\ UNCHANGED <<ddata, revalued, nextDict>> /\ t.id \in DOMAIN dtypes
        BY <1>3 DEF DeleteType, WriteTypes
    <2>2. t.op = "delete_type" /\ t.id # 1 /\ dtypes[t.id].code = t.code /\ KnowsType(r)
        BY <1>1, <2>1, DKnowsOf DEF DictPlaces, DictOperations, KnowsType
    <2>3. /\ DOMAIN dtypes' = DOMAIN dtypes \ {t.id}
          /\ \A i \in DOMAIN dtypes' : dtypes'[i] = dtypes[i]
        BY <2>1 DEF Without
    <2>6. DictTypeOK'
        <3>1. ASSUME NEW i \in DOMAIN dtypes'
              PROVE  dtypes'[i] \in TypeRows /\ TypesOf(dtypes[i].code)' = {i}
            <4>1. i \in DOMAIN dtypes /\ dtypes[i] \in TypeRows /\ TypesOf(dtypes[i].code) = {i}
                BY <2>3 DEF DictInv, DictTypes, DictTypeOK
            <4> QED
                BY <2>3, <4>1 DEF TypesOf
        <3> QED
            BY <2>1, <2>3, <3>1 DEF DictInv, DictTypes, DictTypeOK
    <2>7. SeedRows'
        BY <2>1, <2>2, <2>3 DEF DictInv, SeedRows
    <2>8. DataHasType'
        <3> SUFFICES ASSUME dictRaces' \cap ((Valuing \X {"delete_type"})
                                             \cup ({"delete_type"} \X Valuing)) = {},
                            NEW i \in DOMAIN ddata
                     PROVE  \E k \in DOMAIN dtypes' : dtypes'[k].code = ddata[i].code
            BY <2>1 DEF DataHasType, TypesOf
        <3>1. /\ dictRaces' \cap (Valuing \X {"delete_type"}) = {}
              /\ dictRaces' \cap ({"delete_type"} \X Valuing) = {}
            OBVIOUS
        <3>2. /\ dictRaces \cap (Valuing \X {"delete_type"}) = {}
              /\ dictRaces \cap ({"delete_type"} \X Valuing) = {} /\ t.late \cap Valuing = {}
            BY <2>1, <2>2, <3>1, DRaces
        <3>3. PICK k \in DOMAIN dtypes : dtypes[k].code = ddata[i].code
            BY <3>2 DEF DictInv, DataHasType, TypesOf
        <3>4. ddata[i].code # t.code
            BY <1>1, <2>2, <3>2 DEF KnowsType
        <3> QED
            BY <2>2, <2>3, <3>3, <3>4
    <2>9. DictEffect(t.op)
        BY <2>1, <2>2, <2>3 DEF DictEffect, Used, DictInv, DictTypes
    <2> QED
        BY <1>1, <2>1, <2>6, <2>7, <2>8, <2>9, TypesAlone, DEffectKeeps
        DEF DictInv, DictTypes
<1> QED
    BY <1>2, <1>3

LEMMA InsertDataKeeps ==
    ASSUME DictInv, NEW r \in DictRequests, InsertData(r)
    PROVE  DictInv'
<1> DEFINE t   == dtask[r]
           row == [code |-> t.code, value |-> t.value, look |-> t.look, system |-> FALSE]
<1>1. dpc[r] = "insert_data" /\ ~ DictEnded(r)
    BY DEF InsertData, DictEnded
<1>2. /\ DWrite(r) /\ ddata' = With(ddata, nextDict, row) /\ bundled' = Nothing
      /\ UNCHANGED <<dtypes, revalued>> /\ nextDict' = nextDict + 1
    BY DEF InsertData, WriteData
<1>3. /\ t.op = "create_data" /\ t.code \in Codes /\ t.value \in Values /\ t.look \in Faces
      /\ KnowsDatum(r)
    BY <1>1, DKnowsOf DEF DictPlaces, DictOperations, KnowsDatum
<1>4. t.op \in Valuing
    BY <1>3 DEF Valuing
<1>5. row \in DataRows /\ row.code = t.code /\ row.value = t.value
    BY <1>3 DEF DataRows
<1> HIDE DEF row
<1>6. /\ nextDict \in Nat /\ nextDict \notin DOMAIN ddata
      /\ DOMAIN dtypes \subseteq Used /\ DOMAIN ddata \subseteq Used
    BY DEF DictInv, DictTypes, DictTypeOK, Used
<1>7. /\ DOMAIN ddata' = DOMAIN ddata \cup {nextDict} /\ ddata'[nextDict] = row
      /\ \A i \in DOMAIN ddata : ddata'[i] = ddata[i]
    BY <1>2, <1>6 DEF With
<1>8. DictTypeOK'
    <2>1. (DOMAIN dtypes \cup DOMAIN ddata \subseteq 1 .. (nextDict - 1))'
        BY <1>2, <1>6, <1>7 DEF Used, SeedRows, DictInv
    <2>2. \A i \in DOMAIN ddata' : ddata'[i] \in DataRows
        BY <1>5, <1>7 DEF DictInv, DictTypes, DictTypeOK
    <2>3. \A i \in DOMAIN dtypes' : dtypes'[i] \in TypeRows /\ TypesOf(dtypes[i].code)' = {i}
        BY <1>2 DEF DictInv, DictTypes, DictTypeOK, TypesOf
    <2> QED
        BY <1>2, <2>1, <2>2, <2>3 DEF DictTypeOK
<1>9. SeedRows'
    BY <1>2, <1>7 DEF DictInv, SeedRows
<1>10. ValuesUnique'
    <2> SUFFICES ASSUME ~ revalued', dictRaces' \cap (Valuing \X Valuing) = {},
                        NEW i \in DOMAIN ddata', NEW k \in DOMAIN ddata',
                        ddata'[i].code = ddata'[k].code, ddata'[i].value = ddata'[k].value
                 PROVE  i = k
        BY DEF ValuesUnique, DataOf
    <2>1. dictRaces \cap (Valuing \X Valuing) = {} /\ t.late \cap Valuing = {}
        BY <1>2, <1>4, DRaces
    <2>2. DataOf(t.code, t.value) = {}
        BY <1>1, <1>2, <1>3, <2>1 DEF KnowsDatum
    <2>3. CASE i \in DOMAIN ddata /\ k \in DOMAIN ddata
        BY <1>2, <1>7, <2>1, <2>3 DEF DictInv, ValuesUnique, DataOf
    <2>4. CASE i = nextDict \/ k = nextDict
        BY <1>5, <1>7, <2>2, <2>4 DEF DataOf
    <2> QED
        BY <1>7, <2>3, <2>4
<1>11. DataHasType'
    <2> SUFFICES ASSUME dictRaces' \cap ((Valuing \X {"delete_type"})
                                         \cup ({"delete_type"} \X Valuing)) = {},
                        NEW i \in DOMAIN ddata'
                 PROVE  TypesOf(ddata[i].code)' # {}
        BY DEF DataHasType
    <2>1. dictRaces' \cap (Valuing \X {"delete_type"}) = {}
        OBVIOUS
    <2>2. t.late \cap {"delete_type"} = {}
        BY <1>2, <1>4, <2>1, DRaces
    <2>3. CASE i = nextDict
        BY <1>2, <1>3, <1>5, <1>7, <2>2, <2>3 DEF KnowsDatum, TypesOf
    <2>4. CASE i \in DOMAIN ddata
        BY <1>2, <1>7, <2>4 DEF DictInv, DataHasType, TypesOf, DWrite
    <2> QED
        BY <1>7, <2>3, <2>4
<1>12. BundleConverges'
    BY <1>2 DEF BundleConverges
<1>13. DictEffect(t.op)
    BY <1>2, <1>3, <1>6 DEF DictEffect, Used, Valuing
<1> QED
    BY <1>1, <1>2, <1>6, <1>8, <1>9, <1>10, <1>11, <1>12, <1>13, DEffectKeeps
    DEF DictInv, DictTypes

LEMMA WriteDatumKeeps ==
    ASSUME DictInv, NEW r \in DictRequests, WriteDatum(r)
    PROVE  DictInv'
<1> DEFINE t == dtask[r]
<1>1. dpc[r] = "write_data" /\ ~ DictEnded(r)
    BY DEF WriteDatum, DictEnded
<1>2. CASE DEnd(r)
    BY <1>2, DEndKeeps
<1>3. CASE ~ DEnd(r)
    <2>1. /\ DWrite(r) /\ ddata' = [ddata EXCEPT ![t.id] = Set(ddata[t.id], t)]
          /\ bundled' = Nothing /\ revalued' = (revalued \/ t.value # Nothing)
          /\ UNCHANGED <<dtypes, nextDict>> /\ t.id \in DOMAIN ddata
        BY <1>3 DEF WriteDatum, WriteData
    <2>2. /\ t.op = "update_data" /\ t.id # 2 /\ t.value \in Values \cup {Nothing}
          /\ t.value = Nothing => t.look \in Faces
        BY <1>1, DKnowsOf DEF DictPlaces, DictOperations, KnowsDatum, DictTasks
    <2>0. DOMAIN ddata' = DOMAIN ddata
        BY <2>1
    <2>3. ASSUME NEW i \in DOMAIN ddata
          PROVE  /\ ddata'[i] \in DataRows /\ ddata'[i].code = ddata[i].code
                 /\ i # t.id => ddata'[i] = ddata[i]
                 /\ t.value = Nothing => ddata'[i].value = ddata[i].value
        <3>1. ddata[i] \in DataRows
            BY DEF DictInv, DictTypes, DictTypeOK
        <3>2. CASE i # t.id
            BY <2>1, <3>1, <3>2
        <3>3. CASE i = t.id
            <4>1. ddata'[i] = Set(ddata[i], t)
                BY <2>1, <3>3
            <4> QED
                BY <2>2, <3>1, <3>3, <4>1 DEF Set, DataRows
        <3> QED
            BY <3>2, <3>3
    <2>4. revalued' \in BOOLEAN /\ (~ revalued' => ~ revalued /\ t.value = Nothing)
        BY <2>1 DEF DictInv, DictTypes
    <2>6. DictTypeOK'
        <3>1. \A i \in DOMAIN dtypes' : dtypes'[i] \in TypeRows /\ TypesOf(dtypes[i].code)' = {i}
            BY <2>1 DEF DictInv, DictTypes, DictTypeOK, TypesOf
        <3> QED
            BY <2>0, <2>1, <2>3, <3>1 DEF DictInv, DictTypes, DictTypeOK
    <2>7. SeedRows'
        BY <2>0, <2>1, <2>2, <2>3 DEF DictInv, SeedRows
    <2>8. ValuesUnique'
        <3> SUFFICES ASSUME ~ revalued', dictRaces' \cap (Valuing \X Valuing) = {},
                            NEW i \in DOMAIN ddata', NEW k \in DOMAIN ddata',
                            ddata'[i].code = ddata'[k].code, ddata'[i].value = ddata'[k].value
                     PROVE  i = k
            BY DEF ValuesUnique, DataOf
        <3>1. dictRaces \cap (Valuing \X Valuing) = {}
            BY <2>1, DRaces
        <3> QED
            BY <2>0, <2>3, <2>4, <3>1 DEF DictInv, ValuesUnique, DataOf
    <2>9. DataHasType'
        BY <2>0, <2>1, <2>3 DEF DictInv, DataHasType, DWrite, TypesOf
    <2>10. BundleConverges'
        BY <2>1 DEF BundleConverges
    <2>11. DictEffect(t.op)
        BY <2>0, <2>1, <2>2, <2>3, <2>4 DEF DictEffect, Used, DictInv, DictTypes
    <2> QED
        BY <1>1, <2>1, <2>4, <2>6, <2>7, <2>8, <2>9, <2>10, <2>11, DEffectKeeps
        DEF DictInv, DictTypes
<1> QED
    BY <1>2, <1>3

LEMMA DeleteDataKeeps ==
    ASSUME DictInv, NEW r \in DictRequests, DeleteData(r)
    PROVE  DictInv'
<1> DEFINE t == dtask[r]
<1>1. dpc[r] = "delete_data" /\ ~ DictEnded(r)
    BY DEF DeleteData, DictEnded
<1>2. CASE DEnd(r)
    BY <1>2, DEndKeeps
<1>3. CASE ~ DEnd(r)
    <2>1. /\ DWrite(r) /\ ddata' = Without(ddata, t.id) /\ bundled' = Nothing
          /\ UNCHANGED <<dtypes, nextDict, revalued>>
        BY <1>3 DEF DeleteData, WriteData
    <2>2. t.op = "delete_data" /\ t.id # 2
        BY <1>1, DKnowsOf DEF DictPlaces, DictOperations, KnowsDatum
    <2>3. /\ DOMAIN ddata' = DOMAIN ddata \ {t.id}
          /\ \A i \in DOMAIN ddata' : ddata'[i] = ddata[i]
        BY <2>1 DEF Without
    <2>6. DictTypeOK'
        <3>1. \A i \in DOMAIN dtypes' : dtypes'[i] \in TypeRows /\ TypesOf(dtypes[i].code)' = {i}
            BY <2>1 DEF DictInv, DictTypes, DictTypeOK, TypesOf
        <3> QED
            BY <2>1, <2>3, <3>1 DEF DictInv, DictTypes, DictTypeOK
    <2>7. SeedRows'
        BY <2>1, <2>2, <2>3 DEF DictInv, SeedRows
    <2>8. ValuesUnique'
        <3>1. dictRaces \subseteq dictRaces'
            BY <2>1 DEF DWrite
        <3> QED
            BY <2>1, <2>3, <3>1 DEF DictInv, ValuesUnique, DataOf
    <2>9. DataHasType'
        BY <2>1, <2>3 DEF DictInv, DataHasType, DWrite, TypesOf
    <2>10. BundleConverges'
        BY <2>1 DEF BundleConverges
    <2>11. DictEffect(t.op)
        BY <2>1, <2>2, <2>3 DEF DictEffect, Used, DictInv, DictTypes
    <2> QED
        BY <1>1, <2>1, <2>6, <2>7, <2>8, <2>9, <2>10, <2>11, DEffectKeeps
        DEF DictInv, DictTypes
<1> QED
    BY <1>2, <1>3

LEMMA IdsFrom ==
    ASSUME NEW a \in Nat, NEW b \in Nat, NEW c \in Nat, a <= b
    PROVE  b .. (c - 1) \subseteq a .. (c - 1)
OBVIOUS

\* What the commit of a bundle knows, and the ids it takes.
LEMMA BundleIds ==
    ASSUME DictInv, NEW r \in DictRequests, CommitBundle(r), ~ DEnd(r)
    PROVE  LET t == dtask[r] IN
           /\ dpc[r] = "commit" /\ ~ DictEnded(r) /\ t.op = "apply" /\ t \in DictTasks
           /\ t.spec \in Bundles /\ KnowsBundle(r) /\ DWrite(r) /\ UNCHANGED revalued
           /\ nextDict \in Nat /\ nextDict' \in Nat /\ nextDict <= nextDict'
           /\ t.type = "create" => nextDict < nextDict'
           /\ bundled' = IF t.late = {} THEN t.spec ELSE Nothing
           /\ \E id \in [t.create -> nextDict .. (nextDict' - 1)] :
                /\ \A v, w \in t.create : id[v] = id[w] => v = w
                /\ ddata' = [i \in DOMAIN ddata \cup {id[v] : v \in t.create} |->
                               IF i \in DOMAIN t.update THEN Refreshed(ddata[i], t.update[i])
                               ELSE IF i \in DOMAIN ddata THEN ddata[i]
                               ELSE LET v == CHOOSE v \in t.create : id[v] = i IN
                                    [code |-> t.spec.code, value |-> v, look |-> t.spec.items[v],
                                     system |-> FALSE]]
<1> DEFINE t    == dtask[r]
           base == IF t.type = "create" THEN nextDict + 1 ELSE nextDict
<1>1. dpc[r] = "commit" /\ ~ DictEnded(r)
    BY DEF CommitBundle, DictEnded
<1>2. t.op = "apply" /\ t \in DictTasks /\ KnowsBundle(r) /\ t.spec \in Bundles
    BY <1>1, DKnowsOf DEF DictPlaces, DictOperations, KnowsBundle
<1>3. /\ nextDict' = base + Cardinality(t.create) /\ DWrite(r) /\ UNCHANGED revalued
      /\ bundled' = IF t.late = {} THEN t.spec ELSE Nothing
    BY DEF CommitBundle
<1>4. Cardinality(t.create) \in Nat
    <2>1. t.create \in SUBSET Values
        BY <1>2 DEF DictTasks
    <2> QED
        BY <2>1, DictAssumption, FS_Subset, FS_CardinalityType
<1>5. /\ nextDict \in Nat /\ nextDict' \in Nat /\ base \in Nat /\ nextDict <= base
      /\ nextDict <= nextDict' /\ (t.type = "create" => nextDict < nextDict')
    BY <1>3, <1>4 DEF DictInv, DictTypes
<1>6. PICK id \in Injection(t.create, base .. (nextDict' - 1)) :
          ddata' = [i \in DOMAIN ddata \cup Range(id) |->
                      IF i \in DOMAIN t.update THEN Refreshed(ddata[i], t.update[i])
                      ELSE IF i \in DOMAIN ddata THEN ddata[i]
                      ELSE LET v == CHOOSE v \in t.create : id[v] = i IN
                           [code |-> t.spec.code, value |-> v, look |-> t.spec.items[v],
                            system |-> FALSE]]
    BY DEF CommitBundle
<1>7. /\ id \in [t.create -> base .. (nextDict' - 1)] /\ DOMAIN id = t.create
      /\ \A v, w \in t.create : id[v] = id[w] => v = w
    <2>1. id \in Injection(t.create, base .. (nextDict' - 1))
        BY <1>6
    <2> QED
        BY <2>1 DEF Injection, IsInjective
<1> HIDE DEF base
<1>8. id \in [t.create -> nextDict .. (nextDict' - 1)]
    <2>1. base .. (nextDict' - 1) \subseteq nextDict .. (nextDict' - 1)
        BY <1>5, IdsFrom
    <2> QED
        BY <1>7, <2>1
<1>9. Range(id) = {id[v] : v \in t.create}
    BY <1>7 DEF Range
<1> QED
    BY <1>1, <1>2, <1>3, <1>5, <1>6, <1>7, <1>8, <1>9

\* What it does to the types.
LEMMA BundleTypes ==
    ASSUME DictInv, NEW r \in DictRequests, CommitBundle(r), ~ DEnd(r)
    PROVE  LET t == dtask[r] IN
           /\ \A i \in DOMAIN dtypes :
                i \in DOMAIN dtypes' /\ dtypes'[i].code = dtypes[i].code
           /\ \A i \in DOMAIN dtypes' :
                /\ i \in DOMAIN dtypes \/ (i = nextDict /\ t.type = "create")
                /\ dtypes'[i] \in TypeRows /\ TypesOf(dtypes[i].code)' = {i}
           /\ dtypes'[1] = dtypes[1]
           /\ "delete_type" \notin t.late => \E i \in DOMAIN dtypes' : dtypes'[i].code = t.spec.code
           /\ t.late = {} => \E i \in DOMAIN dtypes' :
                  dtypes'[i].code = t.spec.code /\ dtypes'[i].look = t.spec.look
<1> DEFINE t   == dtask[r]
           row == [code |-> t.spec.code, look |-> t.spec.look, system |-> FALSE]
<1>1. t.op = "apply" /\ t.spec \in Bundles /\ KnowsBundle(r)
    BY BundleIds
<1>2. row \in TypeRows /\ row.code = t.spec.code /\ row.look = t.spec.look
    BY <1>1 DEF TypeRows, Bundles
<1> HIDE DEF row
<1>3. /\ nextDict \in Nat /\ nextDict \notin DOMAIN dtypes /\ nextDict # 1 /\ 1 \in DOMAIN dtypes
      /\ \A i \in DOMAIN dtypes : dtypes[i] \in TypeRows /\ TypesOf(dtypes[i].code) = {i}
    BY DEF DictInv, DictTypes, DictTypeOK, SeedRows
<1>4. t.type \in {"create", "update", "noop"}
    BY <1>1 DEF KnowsBundle
<1>5. CASE t.type = "create"
    <2>1. dtypes' = With(dtypes, nextDict, row) /\ TypesOf(t.spec.code) = {}
        BY <1>5 DEF CommitBundle, row
    <2>2. /\ DOMAIN dtypes' = DOMAIN dtypes \cup {nextDict} /\ dtypes'[nextDict] = row
          /\ \A i \in DOMAIN dtypes : dtypes'[i] = dtypes[i]
        BY <1>3, <2>1 DEF With
    <2>3. ASSUME NEW i \in DOMAIN dtypes' PROVE TypesOf(dtypes[i].code)' = {i}
        <3>1. \A k \in DOMAIN dtypes' : dtypes'[k].code = dtypes'[i].code <=> k = i
            BY <1>2, <1>3, <2>1, <2>2 DEF TypesOf
        <3> QED
            BY <3>1 DEF TypesOf
    <2> QED
        BY <1>2, <1>3, <1>5, <2>2, <2>3
<1>6. CASE t.type = "update"
    <2>1. dtypes' = [dtypes EXCEPT ![t.id].look = t.spec.look] /\ t.id \in DOMAIN dtypes
        BY <1>6 DEF CommitBundle
    <2>2. t.id # 1 /\ dtypes[t.id].code = t.spec.code /\ t.spec.look \in Faces
        BY <1>1, <1>6, <2>1 DEF KnowsBundle, Bundles
    <2>3. DOMAIN dtypes' = DOMAIN dtypes
        BY <2>1
    <2>4. ASSUME NEW i \in DOMAIN dtypes
          PROVE  /\ dtypes'[i] \in TypeRows /\ dtypes'[i].code = dtypes[i].code
                 /\ i # t.id => dtypes'[i] = dtypes[i]
                 /\ i = t.id => dtypes'[i].look = t.spec.look
        BY <1>3, <2>1, <2>2 DEF TypeRows
    <2>5. ASSUME NEW i \in DOMAIN dtypes' PROVE TypesOf(dtypes[i].code)' = {i}
        <3>1. \A k \in DOMAIN dtypes' : dtypes'[k].code = dtypes'[i].code <=> k = i
            BY <1>3, <2>3, <2>4 DEF TypesOf
        <3> QED
            BY <3>1 DEF TypesOf
    <2> QED
        BY <1>3, <2>1, <2>2, <2>3, <2>4, <2>5
<1>7. CASE t.type = "noop"
    <2>1. dtypes' = dtypes
        BY <1>7 DEF CommitBundle
    <2>2. \A i \in DOMAIN dtypes' : TypesOf(dtypes[i].code)' = {i}
        BY <1>3, <2>1 DEF TypesOf
    <2>3. "delete_type" \notin t.late => t.id \in DOMAIN dtypes /\ dtypes[t.id].code = t.spec.code
        BY <1>1, <1>7 DEF KnowsBundle
    <2>4. t.late = {} => dtypes[t.id].look = t.spec.look
        BY <1>1, <1>7 DEF KnowsBundle
    <2> QED
        BY <1>3, <2>1, <2>2, <2>3, <2>4
<1> QED
    BY <1>4, <1>5, <1>6, <1>7

\* What it does to the data.
LEMMA BundleData ==
    ASSUME DictInv, NEW r \in DictRequests, CommitBundle(r), ~ DEnd(r)
    PROVE  LET t == dtask[r] IN
           \E id \in [t.create -> nextDict .. (nextDict' - 1)] :
              /\ \A v, w \in t.create : id[v] = id[w] => v = w
              /\ DOMAIN ddata' = DOMAIN ddata \cup {id[v] : v \in t.create}
              /\ \A i \in DOMAIN ddata :
                   /\ ddata'[i] \in DataRows /\ (i = 2 => ddata'[i] = ddata[i])
                   /\ ddata'[i].code = ddata[i].code /\ ddata'[i].value = ddata[i].value
                   /\ ddata'[i].look = IF i \in DOMAIN t.update THEN t.update[i] ELSE ddata[i].look
              /\ \A v \in t.create :
                   /\ id[v] \notin DOMAIN ddata /\ ddata'[id[v]] \in DataRows
                   /\ ddata'[id[v]].code = t.spec.code /\ ddata'[id[v]].value = v
                   /\ ddata'[id[v]].look = t.spec.items[v]
<1> DEFINE t == dtask[r]
           row(v) == [code |-> t.spec.code, value |-> v, look |-> t.spec.items[v], system |-> FALSE]
<1>1. PICK id \in [t.create -> nextDict .. (nextDict' - 1)] :
          /\ \A v, w \in t.create : id[v] = id[w] => v = w
          /\ ddata' = [i \in DOMAIN ddata \cup {id[v] : v \in t.create} |->
                         IF i \in DOMAIN t.update THEN Refreshed(ddata[i], t.update[i])
                         ELSE IF i \in DOMAIN ddata THEN ddata[i]
                         ELSE row(CHOOSE v \in t.create : id[v] = i)]
    BY BundleIds
<1>2. /\ dpc[r] = "commit" /\ t.op = "apply" /\ t \in DictTasks /\ t.spec \in Bundles
      /\ KnowsBundle(r) /\ nextDict \in Nat /\ nextDict' \in Nat
    BY BundleIds
<1>3. /\ DOMAIN ddata \subseteq 1 .. (nextDict - 1) /\ \A i \in DOMAIN ddata : ddata[i] \in DataRows
    BY DEF DictInv, DictTypes, DictTypeOK
<1>4. DOMAIN t.update \subseteq Used \ {2} /\ t.create \subseteq ItemsOf(t.spec)
    BY <1>2 DEF KnowsBundle
<1>5. ASSUME NEW i \in DOMAIN t.update PROVE t.update[i] \in Faces
    <2>1. t.update \in Patches
        BY <1>2 DEF DictTasks
    <2> QED
        BY <2>1 DEF Patches
<1>6. DOMAIN ddata' = DOMAIN ddata \cup {id[v] : v \in t.create}
    BY <1>1
<1>7. ASSUME NEW i \in DOMAIN ddata
      PROVE  /\ ddata'[i] \in DataRows /\ (i = 2 => ddata'[i] = ddata[i])
             /\ ddata'[i].code = ddata[i].code /\ ddata'[i].value = ddata[i].value
             /\ ddata'[i].look = IF i \in DOMAIN t.update THEN t.update[i] ELSE ddata[i].look
    <2>1. CASE i \in DOMAIN t.update
        <3>1. ddata'[i] = Refreshed(ddata[i], t.update[i])
            BY <1>1, <2>1
        <3> QED
            BY <1>3, <1>4, <1>5, <2>1, <3>1 DEF Refreshed, DataRows
    <2>2. CASE i \notin DOMAIN t.update
        BY <1>1, <1>3, <2>2
    <2> QED
        BY <2>1, <2>2
<1>8. ASSUME NEW v \in t.create
      PROVE  /\ id[v] \notin DOMAIN ddata /\ ddata'[id[v]] \in DataRows
             /\ ddata'[id[v]].code = t.spec.code /\ ddata'[id[v]].value = v
             /\ ddata'[id[v]].look = t.spec.items[v]
    <2>1. id[v] \notin 1 .. (nextDict - 1)
        BY <1>1, <1>2
    <2>2. id[v] \notin DOMAIN ddata /\ id[v] \notin DOMAIN t.update
        BY <1>3, <1>4, <2>1 DEF Used
    <2>3. (CHOOSE w \in t.create : id[w] = id[v]) = v
        BY <1>1
    <2>4. ddata'[id[v]] = row(v)
        BY <1>1, <2>2, <2>3
    <2>5. row(v) \in DataRows
        BY <1>2, <1>4 DEF DataRows, ItemsOf, Bundles
    <2> QED
        BY <2>2, <2>4, <2>5
<1> QED
    BY <1>1, <1>6, <1>7, <1>8

LEMMA IdsIn ==
    ASSUME NEW n \in Nat \ {0}, NEW m \in Nat, n < m
    PROVE  n \in 1 .. (m - 1)
OBVIOUS

LEMMA AtMostOne ==
    ASSUME NEW S, IsFiniteSet(S), Cardinality(S) <= 1, NEW a \in S, NEW b \in S
    PROVE  a = b
<1>1. Cardinality(S) \in Nat /\ Cardinality({a}) = 1 /\ IsFiniteSet({a})
    BY FS_CardinalityType, FS_Singleton
<1>2. {a} \in SUBSET S
    OBVIOUS
<1>3. Cardinality({a}) <= Cardinality(S) /\ (Cardinality(S) = Cardinality({a}) => S = {a})
    BY <1>2, FS_Subset
<1> QED
    BY <1>1, <1>3

LEMMA CommitBundleKeeps ==
    ASSUME DictInv, NEW r \in DictRequests, CommitBundle(r)
    PROVE  DictInv'
<1> DEFINE t    == dtask[r]
           spec == t.spec
<1>1. CASE DEnd(r)
    BY <1>1, DEndKeeps
<1>2. CASE ~ DEnd(r)
    <2>1. /\ dpc[r] = "commit" /\ ~ DictEnded(r) /\ t.op = "apply" /\ t \in DictTasks
          /\ spec \in Bundles /\ KnowsBundle(r) /\ DWrite(r) /\ UNCHANGED revalued
          /\ nextDict \in Nat /\ nextDict' \in Nat /\ nextDict <= nextDict'
          /\ t.type = "create" => nextDict < nextDict'
          /\ bundled' = IF t.late = {} THEN spec ELSE Nothing
        BY <1>2, BundleIds
    <2>2. /\ \A i \in DOMAIN dtypes :
               i \in DOMAIN dtypes' /\ dtypes'[i].code = dtypes[i].code
          /\ \A i \in DOMAIN dtypes' :
               /\ i \in DOMAIN dtypes \/ (i = nextDict /\ t.type = "create")
               /\ dtypes'[i] \in TypeRows /\ TypesOf(dtypes[i].code)' = {i}
          /\ dtypes'[1] = dtypes[1]
          /\ "delete_type" \notin t.late => \E i \in DOMAIN dtypes' : dtypes'[i].code = spec.code
          /\ t.late = {} => \E i \in DOMAIN dtypes' :
                 dtypes'[i].code = spec.code /\ dtypes'[i].look = spec.look
        BY <1>2, BundleTypes
    <2>3. PICK id \in [t.create -> nextDict .. (nextDict' - 1)] :
              /\ \A v, w \in t.create : id[v] = id[w] => v = w
              /\ DOMAIN ddata' = DOMAIN ddata \cup {id[v] : v \in t.create}
              /\ \A i \in DOMAIN ddata :
                   /\ ddata'[i] \in DataRows /\ (i = 2 => ddata'[i] = ddata[i])
                   /\ ddata'[i].code = ddata[i].code /\ ddata'[i].value = ddata[i].value
                   /\ ddata'[i].look = IF i \in DOMAIN t.update THEN t.update[i] ELSE ddata[i].look
              /\ \A v \in t.create :
                   /\ id[v] \notin DOMAIN ddata /\ ddata'[id[v]] \in DataRows
                   /\ ddata'[id[v]].code = spec.code /\ ddata'[id[v]].value = v
                   /\ ddata'[id[v]].look = spec.items[v]
        BY <1>2, BundleData
    <2>4. /\ DOMAIN dtypes \subseteq Used /\ DOMAIN ddata \subseteq Used /\ 0 \notin Used
          /\ Used \subseteq Used'
        <3>1. Used \subseteq Used'
            BY <2>1, IdsGrow DEF Used
        <3> QED
            BY <3>1 DEF DictInv, DictTypes, DictTypeOK, Used
    <2>5. (DOMAIN dtypes \cup DOMAIN ddata)' \subseteq Used'
        <3>0. nextDict # 0
            BY <2>1, <2>4 DEF DictInv, SeedRows, Used
        <3>1. ASSUME NEW i \in DOMAIN dtypes' PROVE i \in Used'
            <4>1. CASE i = nextDict /\ t.type = "create"
                <5>1. nextDict < nextDict' /\ nextDict \in Nat \ {0}
                    BY <2>1, <3>0, <4>1
                <5> QED
                    BY <2>1, <4>1, <5>1, IdsIn DEF Used
            <4> QED
                BY <2>2, <2>4, <4>1
        <3>2. ASSUME NEW v \in t.create PROVE id[v] \in Used'
            <4>1. 1 <= nextDict /\ id[v] \in nextDict .. (nextDict' - 1)
                BY <2>1, <2>3 DEF DictInv, SeedRows, DictTypes, DictTypeOK
            <4> QED
                BY <2>1, <4>1 DEF Used
        <3> QED
            BY <2>3, <2>4, <3>1, <3>2
    <2>6. \A i \in DOMAIN ddata' : ddata'[i] \in DataRows
        BY <2>3
    <2>7. DictTypeOK'
        <3>1. bundled' \in Bundles \cup {Nothing}
            BY <2>1
        <3> QED
            BY <2>2, <2>5, <2>6, <3>1 DEF DictTypeOK, Used
    <2>8. SeedRows'
        BY <2>2, <2>3 DEF DictInv, SeedRows
    <2> DEFINE made == {id[v] : v \in t.create}
    <2>9. ValuesUnique'
        <3> SUFFICES ASSUME ~ revalued', dictRaces' \cap (Valuing \X Valuing) = {},
                            NEW i \in DOMAIN ddata', NEW k \in DOMAIN ddata',
                            ddata'[i].code = ddata'[k].code, ddata'[i].value = ddata'[k].value
                     PROVE  i = k
            BY DEF ValuesUnique, DataOf
        <3>1. t.op \in Valuing
            BY <2>1 DEF Valuing
        <3>2. dictRaces \cap (Valuing \X Valuing) = {} /\ t.late \cap Valuing = {}
            BY <2>1, <3>1, DRaces
        <3>3. \A v \in t.create : DataOf(spec.code, v) = {}
            BY <2>1, <3>2 DEF KnowsBundle
        <3>4. CASE i \in DOMAIN ddata /\ k \in DOMAIN ddata
            BY <2>1, <2>3, <3>2, <3>4 DEF DictInv, ValuesUnique, DataOf
        <3>5. ASSUME NEW v \in t.create, k = id[v] PROVE i = k
            <4>1. CASE i \in DOMAIN ddata
                BY <2>3, <3>3, <3>5, <4>1 DEF DataOf
            <4>2. ASSUME NEW w \in t.create, i = id[w] PROVE i = k
                BY <2>3, <3>5, <4>2
            <4> QED
                BY <2>3, <4>1, <4>2
        <3>6. ASSUME NEW v \in t.create, i = id[v] PROVE i = k
            <4>1. CASE k \in DOMAIN ddata
                BY <2>3, <3>3, <3>6, <4>1 DEF DataOf
            <4>2. ASSUME NEW w \in t.create, k = id[w] PROVE i = k
                BY <2>3, <3>6, <4>2
            <4> QED
                BY <2>3, <4>1, <4>2
        <3> QED
            BY <2>3, <3>4, <3>5, <3>6
    <2>10. DataHasType'
        <3> SUFFICES ASSUME dictRaces' \cap ((Valuing \X {"delete_type"})
                                             \cup ({"delete_type"} \X Valuing)) = {},
                            NEW i \in DOMAIN ddata'
                     PROVE  \E k \in DOMAIN dtypes' : dtypes'[k].code = ddata'[i].code
            BY DEF DataHasType, TypesOf
        <3>1. dictRaces' \cap (Valuing \X {"delete_type"}) = {} /\ t.op \in Valuing
            BY <2>1 DEF Valuing
        <3>2. t.late \cap {"delete_type"} = {}
            BY <2>1, <3>1, DRaces
        <3>3. CASE i \in DOMAIN ddata
            <4>1. dictRaces \subseteq dictRaces'
                BY <2>1 DEF DWrite
            <4>2. \E k \in DOMAIN dtypes : dtypes[k].code = ddata[i].code
                BY <3>3, <4>1 DEF DictInv, DataHasType, TypesOf
            <4> QED
                BY <2>2, <2>3, <3>3, <4>2
        <3>4. CASE i \in made
            BY <2>2, <2>3, <3>2, <3>4
        <3> QED
            BY <2>3, <3>3, <3>4
    <2>11. BundleConverges'
        <3>1. CASE t.late # {}
            BY <2>1, <3>1 DEF BundleConverges
        <3>2. CASE t.late = {}
            <4>1. PICK b : b = spec
                OBVIOUS
            <4>2. /\ bundled' = b /\ KnowsBundle(r) /\ dpc[r] = "commit" /\ t.op = "apply"
                  /\ \E i \in DOMAIN dtypes' : dtypes'[i].code = b.code /\ dtypes'[i].look = b.look
                BY <2>1, <2>2, <3>2, <4>1
            <4> DEFINE D(v) == {k \in DOMAIN ddata' : ddata'[k].code = b.code /\ ddata'[k].value = v}
            <4>3. ASSUME NEW v \in ItemsOf(b) PROVE \E k \in D(v) : ddata'[k].look = b.items[v]
                <5>1. CASE v \in t.create
                    BY <2>3, <4>1, <5>1
                <5>2. CASE v \notin t.create
                    <6>1. PICK i \in DataOf(b.code, v) :
                              IF i \in DOMAIN t.update THEN t.update[i] = b.items[v]
                              ELSE ddata[i].look = b.items[v]
                        BY <3>2, <4>1, <4>2, <5>2 DEF KnowsBundle
                    <6> QED
                        BY <2>3, <6>1 DEF DataOf
                <5> QED
                    BY <5>1, <5>2
            <4>4. ASSUME NEW v \in ItemsOf(b), Cardinality(D(v)) <= 1, NEW k \in D(v)
                  PROVE  ddata'[k].look = b.items[v]
                <5>1. PICK i \in D(v) : ddata'[i].look = b.items[v]
                    BY <4>3
                <5>2. IsFiniteSet(D(v))
                    <6>1. D(v) \in SUBSET (1 .. (nextDict' - 1))
                        BY <2>5 DEF Used
                    <6>2. IsFiniteSet(1 .. (nextDict' - 1))
                        <7>1. 1 \in Int /\ nextDict' - 1 \in Int
                            BY <2>1
                        <7> QED
                            BY <7>1, FS_Interval
                    <6> QED
                        BY <6>1, <6>2, FS_Subset
                <5>3. i = k
                    BY <4>4, <5>2, AtMostOne
                <5> QED
                    BY <5>1, <5>3
            <4>5. \A v : DataOf(b.code, v)' = D(v)
                BY DEF DataOf
            <4>6. ASSUME \A v \in ItemsOf(b) : Cardinality(D(v)) <= 1,
                         NEW m \in MatchesOf(b)', NEW v \in ItemsOf(b)
                  PROVE  m[v] # 0 /\ ddata'[m[v]].look = b.items[v]
                <5>1. D(v) # {}
                    BY <4>3
                <5>2. m[v] \in IF D(v) = {} THEN {0} ELSE D(v)
                    BY <4>5 DEF MatchesOf
                <5>3. m[v] \in D(v)
                    BY <5>1, <5>2
                <5>4. 0 \notin DOMAIN ddata'
                    BY <2>5 DEF Used
                <5> QED
                    BY <4>4, <4>6, <5>3, <5>4
            <4>7. ASSUME \A v \in ItemsOf(b) : Cardinality(D(v)) <= 1, NEW m \in MatchesOf(b)'
                  PROVE  Updates(b, m)' = {}
                BY <4>6, <4>7 DEF Updates, Differs
            <4> HIDE DEF D
            <4> QED
                BY <4>2, <4>5, <4>6, <4>7 DEF BundleConverges, Differs, TypesOf
        <3> QED
            BY <3>1, <3>2
    <2>12. DictEffect(t.op)
        BY <2>1, <2>2 DEF DictEffect, Used, Valuing, DictInv
    <2> QED
        BY <2>1, <2>7, <2>8, <2>9, <2>10, <2>11, <2>12, DEffectKeeps DEF DictInv, DictTypes
<1> QED
    BY <1>1, <1>2

-----------------------------------------------------------------------------
(* DictBundle: the invariant and the theorem.                              *)

LEMMA DictInitInv == ASSUME DictInit PROVE DictInv
<1>1. /\ dtypes[1] = [code |-> Seed.code, look |-> Seed.look, system |-> TRUE]
      /\ ddata[2] = [code |-> Seed.code, value |-> Seed.value, look |-> Seed.look, system |-> TRUE]
      /\ DOMAIN dtypes = {1} /\ DOMAIN ddata = {2} /\ nextDict = 3
    BY DEF DictInit
<1>2. Seed.code \in Codes /\ Seed.value \in Values /\ Seed.look \in Faces
    BY DictAssumption
<1>3. SeedRows
    BY <1>1 DEF SeedRows
<1>4. dtypes[1] \in TypeRows /\ ddata[2] \in DataRows
    BY <1>1, <1>2 DEF TypeRows, DataRows
<1>5. TypesOf(Seed.code) = {1} /\ DataOf(Seed.code, Seed.value) = {2}
    BY <1>1 DEF TypesOf, DataOf
<1>6. DictTypeOK
    BY <1>1, <1>4, <1>5 DEF DictTypeOK, DictInit
<1>7. DictTypes
    <2>1. dtask \in [DictRequests -> DictTasks]
        BY NoDictTaskTyped DEF DictInit
    <2>2. dpc \in [DictRequests -> AllDictPlaces] /\ dictRaces = {} /\ revalued = FALSE
        BY DEF DictInit, AllDictPlaces
    <2> QED
        BY <1>1, <1>6, <2>1, <2>2 DEF DictTypes
<1>8. ValuesUnique /\ DataHasType
    BY <1>1, <1>5 DEF ValuesUnique, DataHasType
<1>9. BundleConverges
    BY DEF BundleConverges, DictInit
<1>10. \A r \in DictRequests : KnowsDict(r)
    BY DEF KnowsDict, DictEnded, DictInit
<1> QED
    BY <1>3, <1>7, <1>8, <1>9, <1>10 DEF DictInv

LEMMA DictStill ==
    ASSUME DictInv, UNCHANGED dictVars
    PROVE  DictInv'
<1> USE DEF dictVars
<1>1. DictTypes' /\ SeedRows' /\ ValuesUnique' /\ DataHasType'
    BY DEF DictInv, DictTypes, DictTypeOK, SeedRows, ValuesUnique, DataHasType, TypesOf, DataOf, Used
<1>2. BundleConverges'
    <2>1. \A c : TypesOf(c)' = TypesOf(c)
        BY DEF TypesOf
    <2>2. \A c, v : DataOf(c, v)' = DataOf(c, v)
        BY DEF DataOf
    <2>3. MatchesOf(bundled)' = MatchesOf(bundled) /\ ItemsOf(bundled)' = ItemsOf(bundled)
        BY <2>2 DEF MatchesOf, ItemsOf
    <2>4. \A m : Updates(bundled, m)' = Updates(bundled, m)
        BY <2>3 DEF Updates, Differs
    <2>5. BundleConverges
        BY DEF DictInv
    <2> QED
        BY <2>1, <2>2, <2>3, <2>4, <2>5 DEF BundleConverges, Differs
<1>3. ASSUME NEW q \in DictRequests PROVE KnowsDict(q)'
    <2>1. KnowsDict(q)
        BY DEF DictInv
    <2>2. (KnowsType(q) => KnowsType(q)') /\ (KnowsDatum(q) => KnowsDatum(q)')
        BY DEF KnowsType, KnowsDatum, TypesOf, DataOf, Used
    <2>3. KnowsBundle(q) => KnowsBundle(q)'
        BY DEF KnowsBundle, TypesOf, DataOf, Used
    <2> QED
        BY <2>1, <2>2, <2>3 DEF KnowsDict, DictEnded
<1> QED
    BY <1>1, <1>2, <1>3 DEF DictInv

LEMMA DictNextInv ==
    ASSUME DictInv, [DictNext]_dictVars
    PROVE  DictInv'
<1>1. CASE UNCHANGED dictVars
    BY <1>1, DictStill
<1>2. ASSUME NEW r \in DictRequests,
             \/ BeginCreateType(r) \/ BeginUpdateType(r) \/ BeginDeleteType(r)
      PROVE  DictInv'
    BY <1>2, BeginTypeKeeps
<1>3. ASSUME NEW r \in DictRequests,
             \/ BeginCreateData(r) \/ BeginUpdateData(r) \/ BeginDeleteData(r)
      PROVE  DictInv'
    BY <1>3, BeginDataKeeps
<1>4. ASSUME NEW r \in DictRequests,
             \/ CountData(r) \/ CheckValue(r) \/ BeginApplyBundle(r) \/ ReadItems(r)
      PROVE  DictInv'
    BY <1>4, CountDataKeeps, CheckValueKeeps, BeginApplyKeeps, ReadItemsKeeps
<1>5. ASSUME NEW r \in DictRequests,
             \/ InsertType(r) \/ WriteType(r) \/ DeleteType(r)
      PROVE  DictInv'
    BY <1>5, InsertTypeKeeps, WriteTypeKeeps, DeleteTypeKeeps
<1>6. ASSUME NEW r \in DictRequests,
             \/ InsertData(r) \/ WriteDatum(r) \/ DeleteData(r) \/ CommitBundle(r)
      PROVE  DictInv'
    BY <1>6, InsertDataKeeps, WriteDatumKeeps, DeleteDataKeeps, CommitBundleKeeps
<1> QED
    BY <1>1, <1>2, <1>3, <1>4, <1>5, <1>6 DEF DictNext

\* The dictionary stays consistent (DictConsistent), however the requests of
\* the administration and the bundles are interleaved: a code names one
\* type, what the system brought stands as it came, and but for the overlaps
\* that the properties name, a type has no value twice, data has its type, and
\* a bundle applied again finds nothing to do.
THEOREM SpecDictConsistent == DictSpec => []DictConsistent
<1>1. DictInit => DictInv
    BY DictInitInv
<1>2. DictInv /\ [DictNext]_dictVars => DictInv'
    BY DictNextInv
<1>3. DictInv => DictConsistent
    <2>1. DictInv => SystemRowsStand
        BY DEF DictInv, SeedRows, SystemRowsStand, TypesOf, DataOf
    <2> QED
        BY <2>1 DEF DictInv, DictTypes, DictConsistent
<1> QED
    BY <1>1, <1>2, <1>3, PTL DEF DictSpec

-----------------------------------------------------------------------------
(* MenuTree: what a request knows of the table, as long as nobody          *)
(* overtook it. The table and the next id are parameters.                  *)

MenuMatches == [Slots -> 0 .. MaxId]
MenuPlans   == UNION {[S -> {"create", "update", "noop"}] : S \in SUBSET Slots}
MenuTasks   == [op : MenuOperations, id : 0 .. MaxId, row : MenuRows \cup MenuChanges \cup {Unset},
                spec : Specs \cup {Unset}, match : MenuMatches \cup {Unset},
                plan : MenuPlans \cup {Unset}, late : SUBSET MenuOperations]

MenuSteps(op) == CASE op = "create_menu"   -> {"check_name", "write"}
                   [] op = "create_button" -> {"check_parent", "write"}
                   [] op = "update_menu"   -> {"check_name", "write"}
                   [] op = "update_button" -> {"write"}
                   [] op = "delete_menu"   -> {"count_children", "delete"}
                   [] op = "apply"         -> {"snapshot", "commit"}
MenuRuns == {"check_name", "check_parent", "write", "count_children", "delete", "snapshot", "commit"}
Kind(op) == IF op \in {"create_menu", "update_menu"} THEN "menu" ELSE "button"

RowsTyped(table, n) ==
    /\ DOMAIN table \subseteq 1 .. (n - 1)
    /\ \A i \in DOMAIN table : /\ table[i] \in MenuRows
                               /\ table[i].type = "button" => table[i].parent # Root

\* A change is of a row of its kind, if that is still there.
ChangeHolds(table, n, t) ==
    /\ t.op \in {"create_menu", "create_button"} =>
         /\ t.row \in MenuRows /\ t.row.type = Kind(t.op) /\ t.id = 0
         /\ t.op = "create_button" => t.row.parent # Root
         /\ t.op = "create_menu" => t.row.name # Unset
    /\ t.op \in {"update_menu", "update_button"} =>
         /\ t.row \in MenuChanges /\ t.id \in 1 .. n - 1
         /\ t.op = "update_button" => t.row.name = Unset /\ t.row.parent # Root
         /\ t.id \in DOMAIN table => table[t.id].type = Kind(t.op)
    /\ t.op = "apply" => t.spec \in Specs /\ ValidSpec(t.spec)

\* The slots are matched to rows of their type, each to another.
MatchHolds(table, n, t) ==
    /\ t.match \in MenuMatches /\ t.plan \in [Asked(t.spec) -> {"create", "update", "noop"}]
    /\ \A s \in Asked(t.spec) :
         /\ t.plan[s] = "create" <=> t.match[s] = 0
         /\ t.match[s] < n
         /\ t.match[s] \in DOMAIN table => table[t.match[s]].type = TypeOf(s)
         /\ \A q \in Asked(t.spec) : s # q /\ t.match[s] # 0 => t.match[s] # t.match[q]

MenuTyped(table, n, step, t) ==
    /\ t \in MenuTasks
    /\ step \in {"idle", "done"} \cup MenuSteps(t.op)
    /\ step \in MenuRuns => ChangeHolds(table, n, t)
    /\ step = "commit" => MatchHolds(table, n, t)

Named(table, name, id) == \E i \in DOMAIN table \ {id} : table[i].type = "menu" /\ table[i].name = name

\* A name that was free at the check is free.
NamesKnown(table, step, t) ==
    /\ step = "write" /\ t.op \in Naming /\ t.late \cap Naming = {} /\ t.row.name # Unset =>
         ~ Named(table, t.row.name, t.id)
    /\ step = "commit" /\ t.late \cap Naming = {} =>
         \A s \in Asked(t.spec) \ {"button"} : ~ Named(table, t.spec[s].name, t.match[s])

\* A parent that was there is there, and a menu without children has none.
ParentsKnown(table, step, t) ==
    /\ step \in {"check_name", "check_parent", "write"} /\ "delete_menu" \notin t.late
         /\ t.row.parent # Unset => t.row.parent \in DOMAIN table \cup {Root}
    /\ step = "commit" /\ "delete_menu" \notin t.late =>
         \A s \in Asked(t.spec) : t.match[s] \in DOMAIN table \cup {0}
    /\ step = "delete" /\ t.late \cap Placing = {} =>
         \A i \in DOMAIN table : table[i].parent # t.id

\* The plan is that of the table.
PlanKnown(table, step, t) ==
    step = "commit" /\ t.late = {} =>
      /\ t.match \in Matches(table, t.spec) /\ Appliable(table, t.spec, t.match)
      /\ t.plan = Plan(table, t.spec, t.match)

MenuHolds(table, n, step, t) == /\ MenuTyped(table, n, step, t) /\ NamesKnown(table, step, t)
                                /\ ParentsKnown(table, step, t) /\ PlanKnown(table, step, t)

MenuTypes ==
    /\ RowsTyped(menus, nextId) /\ nextId \in 1 .. MaxId + 1
    /\ mpc \in [MenuRequests -> {"idle", "done"} \cup MenuRuns]
    /\ mtask \in [MenuRequests -> MenuTasks]
    /\ synced # Unset => synced \in Specs

Distinct(table) == \A i, j \in DOMAIN table :
    table[i].type = "menu" /\ table[j].type = "menu" /\ table[i].name = table[j].name => i = j
Rooted(table) == \A i \in DOMAIN table : table[i].parent \in DOMAIN table \cup {Root}

\* The properties, and what every request knows.
MenuInv == /\ MenuTypes /\ NamesUnique /\ ParentsExist /\ SyncConverges
           /\ \A r \in MenuRequests : MenuHolds(menus, nextId, mpc[r], mtask[r])

-----------------------------------------------------------------------------
(* MenuTree: the steps that look.                                          *)

\* What overtakes a request does: rows keep their type and their place in the
\* order of the ids, and each write changes what it is there for.
Overtaken(o, old, n, new, m) ==
    /\ n \in Nat /\ m \in Nat /\ n <= m /\ \A i \in DOMAIN new \ DOMAIN old : i \in n .. m - 1
    /\ \A i \in DOMAIN new \cap DOMAIN old : new[i].type = old[i].type
    /\ o \notin Naming =>
         \A i \in DOMAIN new : new[i].type = "menu" =>
            i \in DOMAIN old /\ old[i].type = "menu" /\ new[i].name = old[i].name
    /\ o # "delete_menu" => DOMAIN old \subseteq DOMAIN new
    /\ o \notin Placing =>
         \A i \in DOMAIN new : i \in DOMAIN old /\ new[i].parent = old[i].parent

MenuLater(t, step, o) == [t EXCEPT !.late = IF step \in MenuRuns THEN @ \cup {o} ELSE @]

\* A request that is overtaken knows as much as before of what it may rely on.
LEMMA OvertakenKnows ==
    ASSUME NEW old, NEW n, NEW new, NEW m, NEW o \in MenuOperations, NEW step, NEW t,
           Overtaken(o, old, n, new, m), MenuHolds(old, n, step, t), DOMAIN old \subseteq 1 .. n - 1
    PROVE  MenuHolds(new, m, step, MenuLater(t, step, o))
<1>0. t \in MenuTasks /\ step \in {"idle", "done"} \cup MenuSteps(t.op)
    BY DEF MenuHolds, MenuTyped
<1>1. PICK u : u = MenuLater(t, step, o)
    OBVIOUS
<1>2. /\ u \in MenuTasks /\ u.op = t.op /\ u.id = t.id /\ u.row = t.row /\ u.spec = t.spec
      /\ u.match = t.match /\ u.plan = t.plan
      /\ u.late = IF step \in MenuRuns THEN t.late \cup {o} ELSE t.late
    BY <1>0, <1>1 DEF MenuTasks, MenuLater
<1>3. "commit" \in MenuRuns /\ "write" \in MenuRuns /\ "delete" \in MenuRuns
        /\ "check_name" \in MenuRuns /\ "check_parent" \in MenuRuns
    BY DEF MenuRuns
<1>4. CASE step \in MenuRuns
    <2>1. u.late = t.late \cup {o} /\ ChangeHolds(old, n, t)
        BY <1>2, <1>4 DEF MenuHolds, MenuTyped
    <2>2. ChangeHolds(new, m, u)
        <3>1. ASSUME t.id \in 1 .. n - 1, t.id \in DOMAIN old => old[t.id].type = Kind(t.op)
              PROVE  t.id \in 1 .. m - 1 /\ (t.id \in DOMAIN new => new[t.id].type = Kind(t.op))
            BY <3>1 DEF Overtaken
        <3> QED
            BY <1>2, <2>1, <3>1 DEF ChangeHolds
    <2>3. step = "commit" => MatchHolds(new, m, u)
        <3> SUFFICES ASSUME step = "commit" PROVE MatchHolds(new, m, u)
            OBVIOUS
        <3>1. MatchHolds(old, n, t)
            BY DEF MenuHolds, MenuTyped
        <3>2. ASSUME NEW s \in Asked(t.spec)
              PROVE  /\ t.match[s] < m
                     /\ t.match[s] \in DOMAIN new => new[t.match[s]].type = TypeOf(s)
            <4>1. t.match[s] < n /\ t.match[s] \in 0 .. MaxId
                BY <3>1 DEF MatchHolds, MenuMatches, Asked
            <4>2. t.match[s] < m
                BY <4>1, MenuAssumption DEF Overtaken
            <4>3. t.match[s] \in DOMAIN new => t.match[s] \in DOMAIN old
                BY <4>1, MenuAssumption DEF Overtaken
            <4> QED
                BY <3>1, <4>2, <4>3 DEF MatchHolds, Overtaken
        <3> QED
            BY <1>2, <3>1, <3>2 DEF MatchHolds
    <2>4. MenuTyped(new, m, step, u)
        BY <1>0, <1>2, <2>2, <2>3 DEF MenuTyped
    <2>5. NamesKnown(new, step, u)
        <3>1. ASSUME o \notin Naming, NEW name, NEW id, ~ Named(old, name, id)
              PROVE  ~ Named(new, name, id)
            BY <3>1 DEF Overtaken, Named
        <3>2. u.late \cap Naming = {} => o \notin Naming /\ t.late \cap Naming = {}
            BY <2>1
        <3>3. NamesKnown(old, step, t)
            BY DEF MenuHolds
        <3> QED
            BY <1>2, <3>1, <3>2, <3>3 DEF NamesKnown
    <2>6. ParentsKnown(new, step, u)
        <3>1. ParentsKnown(old, step, t)
            BY DEF MenuHolds
        <3>2. "delete_menu" \notin u.late => DOMAIN old \subseteq DOMAIN new /\ "delete_menu" \notin t.late
            BY <2>1 DEF Overtaken
        <3>3. u.late \cap Placing = {} => o \notin Placing /\ t.late \cap Placing = {}
            BY <2>1
        <3> QED
            BY <1>2, <3>1, <3>2, <3>3 DEF ParentsKnown, Overtaken
    <2>7. PlanKnown(new, step, u)
        BY <2>1 DEF PlanKnown
    <2> QED
        BY <1>1, <2>4, <2>5, <2>6, <2>7 DEF MenuHolds
<1>5. CASE step \notin MenuRuns
    BY <1>0, <1>1, <1>2, <1>3, <1>5 DEF MenuHolds, MenuTyped, NamesKnown, ParentsKnown, PlanKnown
<1> QED
    BY <1>4, <1>5

LEMMA NoMenuTaskTyped == NoMenuTask \in MenuTasks
BY MenuAssumption DEF NoMenuTask, MenuTasks, MenuOperations

\* At rest a request knows nothing.
LEMMA RestHolds ==
    ASSUME NEW table, NEW n
    PROVE  MenuHolds(table, n, "done", NoMenuTask)
BY NoMenuTaskTyped DEF MenuHolds, MenuTyped, NamesKnown, ParentsKnown, PlanKnown, MenuRuns

\* A step that looks, or ends a request.
LEMMA LookKeeps ==
    ASSUME MenuInv, NEW r \in MenuRequests, NEW step \in {"idle", "done"} \cup MenuRuns, NEW t,
           MLook(r, step, t), MenuHolds(menus, nextId, step, t)
    PROVE  MenuInv'
<1>0. /\ mpc \in [MenuRequests -> {"idle", "done"} \cup MenuRuns]
      /\ mtask \in [MenuRequests -> MenuTasks] /\ t \in MenuTasks
    BY DEF MenuInv, MenuTypes, MenuHolds, MenuTyped
<1>1. UNCHANGED <<menus, nextId, synced, menuRaces>>
      /\ mpc' = [mpc EXCEPT ![r] = step] /\ mtask' = [mtask EXCEPT ![r] = t]
    BY DEF MLook
<1>2. MenuTypes'
    BY <1>0, <1>1 DEF MenuInv, MenuTypes, RowsTyped
<1>3. NamesUnique' /\ ParentsExist' /\ SyncConverges'
    BY <1>1 DEF MenuInv, NamesUnique, IsMenu, ParentsExist, SyncConverges, Siblings
<1>4. ASSUME NEW q \in MenuRequests PROVE MenuHolds(menus', nextId', mpc'[q], mtask'[q])
    <2>1. CASE q = r
        BY <1>0, <1>1, <2>1
    <2>2. CASE q # r
        BY <1>0, <1>1, <2>2 DEF MenuInv
    <2> QED
        BY <2>1, <2>2
<1> QED
    BY <1>2, <1>3, <1>4 DEF MenuInv

LEMMA MenuEndKeeps ==
    ASSUME MenuInv, NEW r \in MenuRequests, MEnd(r)
    PROVE  MenuInv'
BY LookKeeps, RestHolds DEF MEnd

\* The requests after a write, and who was overtaken by whom.
LEMMA WriteKeeps ==
    ASSUME MenuInv, NEW r \in MenuRequests, NEW table, MWrite(r, table), mpc[r] \in MenuRuns,
           NEW n \in Nat, nextId' = n, Overtaken(mtask[r].op, menus, nextId, table, n)
    PROVE  /\ \A q \in MenuRequests : MenuHolds(table, n, mpc'[q], mtask'[q])
           /\ mpc' \in [MenuRequests -> {"idle", "done"} \cup MenuRuns]
           /\ mtask' \in [MenuRequests -> MenuTasks]
           /\ menuRaces \subseteq menuRaces'
           /\ \A o \in mtask[r].late : <<mtask[r].op, o>> \in menuRaces'
<1>0. /\ mpc \in [MenuRequests -> {"idle", "done"} \cup MenuRuns]
      /\ mtask \in [MenuRequests -> MenuTasks] /\ DOMAIN menus \subseteq 1 .. nextId - 1
      /\ \A q \in MenuRequests : MenuHolds(menus, nextId, mpc[q], mtask[q])
    BY DEF MenuInv, MenuTypes, RowsTyped
<1>1. /\ mpc' = [mpc EXCEPT ![r] = "done"]
      /\ \A q \in MenuRequests \ {r} :
           mtask'[q] = [mtask[q] EXCEPT !.late =
                           IF q \in MenuRunning THEN @ \cup {mtask[r].op} ELSE @]
      /\ mtask'[r] = NoMenuTask /\ DOMAIN mtask' = MenuRequests
      /\ mtask' = [q \in MenuRequests |-> mtask'[q]]
      /\ menuRaces' = menuRaces \cup {<<mtask[r].op, o>> : o \in mtask[r].late}
    BY DEF MWrite
<1>2. mtask[r].op \in MenuOperations
    BY <1>0 DEF MenuTasks
<1>3. ASSUME NEW q \in MenuRequests
      PROVE  MenuHolds(table, n, mpc'[q], mtask'[q]) /\ mtask'[q] \in MenuTasks
    <2>1. CASE q = r
        BY <1>0, <1>1, <2>1, RestHolds, NoMenuTaskTyped
    <2>2. CASE q # r
        <3>1. q \in MenuRunning <=> mpc[q] \in MenuRuns
            BY <1>0 DEF MenuRunning, MenuRuns
        <3>2. mtask'[q] = MenuLater(mtask[q], mpc[q], mtask[r].op) /\ mpc'[q] = mpc[q]
            BY <1>0, <1>1, <2>2, <3>1 DEF MenuLater
        <3>3. MenuHolds(table, n, mpc[q], MenuLater(mtask[q], mpc[q], mtask[r].op))
            BY <1>0, <1>2, OvertakenKnows
        <3> QED
            BY <3>2, <3>3 DEF MenuHolds, MenuTyped
    <2> QED
        BY <2>1, <2>2
<1> QED
    BY <1>0, <1>1, <1>3

\* The rows that a caller can name.
LEMMA RowsHere ==
    ASSUME MenuInv
    PROVE  /\ MaxId \in Nat /\ nextId \in 1 .. MaxId + 1
           /\ \A i \in DOMAIN menus : /\ i \in 1 .. MaxId /\ i < nextId /\ menus[i] \in MenuRows
                                      /\ menus[i].type = "button" => menus[i].parent # Root
           /\ \A p \in AnyParent : p \in 0 .. MaxId /\ p \in DOMAIN menus \cup {Root}
           /\ \A r \in MenuRequests : /\ MenuHolds(menus, nextId, mpc[r], mtask[r])
                                      /\ mtask[r] \in MenuTasks
BY MenuAssumption DEF MenuInv, MenuTypes, RowsTyped, AnyParent, Root, MenuHolds, MenuTyped

LEMMA RowHere ==
    ASSUME MenuInv, NEW i \in DOMAIN menus
    PROVE  /\ i \in 1 .. MaxId /\ i \in 0 .. MaxId /\ i \in 1 .. nextId - 1 /\ i # 0
           /\ menus[i] \in MenuRows /\ menus[i].type \in {"menu", "button"}
           /\ menus[i].parent \in 0 .. MaxId
<1>0. menus[i] \in MenuRows
    BY DEF MenuInv, MenuTypes, RowsTyped
<1>1. MaxId \in Nat /\ nextId \in 1 .. MaxId + 1
    BY MenuAssumption DEF MenuInv, MenuTypes
<1>2. i \in 1 .. (nextId - 1)
    BY DEF MenuInv, MenuTypes, RowsTyped
<1>3. i \in Int /\ 1 <= i /\ i <= nextId - 1
    BY <1>1, <1>2
<1> QED
    BY <1>0, <1>1, <1>3 DEF MenuRows

LEMMA BeginMenuKeeps ==
    ASSUME MenuInv, NEW r \in MenuRequests,
           BeginCreateMenu(r) \/ BeginCreateButton(r) \/ BeginDeleteMenu(r) \/ BeginApply(r)
    PROVE  MenuInv'
<1> USE DEF MBegin
<1>0. NoMenuTask.late = {} /\ NoMenuTask.id = 0
    BY DEF NoMenuTask
<1>1. CASE BeginCreateMenu(r)
    <2>1. PICK p \in AnyParent, k \in Paths, n \in Names, l \in Looks :
            MBegin(r, "create_menu",
                   [NoMenuTask EXCEPT !.row = [type |-> "menu", parent |-> p, key |-> k,
                                               name |-> n, look |-> l]], "check_name")
        BY <1>1 DEF BeginCreateMenu
    <2>2. PICK row : row = [type |-> "menu", parent |-> p, key |-> k, name |-> n, look |-> l]
        OBVIOUS
    <2>3. row \in MenuRows /\ row.type = "menu" /\ row.parent = p /\ row.name # Unset
        BY <2>2, RowsHere, MenuAssumption DEF MenuRows
    <2>4. PICK t : t = [[NoMenuTask EXCEPT !.row = row] EXCEPT !.op = "create_menu"]
        OBVIOUS
    <2>5. /\ t \in MenuTasks /\ t.op = "create_menu" /\ t.row = row /\ t.id = 0
        BY <2>3, <2>4, NoMenuTaskTyped DEF MenuTasks, MenuOperations, NoMenuTask
    <2>6. MenuHolds(menus, nextId, "check_name", t)
        BY <2>3, <2>5, RowsHere
        DEF MenuHolds, MenuTyped, MenuSteps, ChangeHolds, Kind, NamesKnown, ParentsKnown, PlanKnown
    <2> QED
        BY <2>1, <2>2, <2>4, <2>6, LookKeeps DEF MenuRuns
<1>2. CASE BeginCreateButton(r)
    <2>1. PICK p \in AnyParent \ {Root}, k \in Marks, l \in Looks :
            MBegin(r, "create_button",
                   [NoMenuTask EXCEPT !.row = [type |-> "button", parent |-> p, key |-> k,
                                               name |-> Unset, look |-> l]], "check_parent")
        BY <1>2 DEF BeginCreateButton
    <2>2. PICK row : row = [type |-> "button", parent |-> p, key |-> k, name |-> Unset, look |-> l]
        OBVIOUS
    <2>3. row \in MenuRows /\ row.type = "button" /\ row.parent = p /\ p # Root
        BY <2>1, <2>2, RowsHere DEF MenuRows
    <2>4. PICK t : t = [[NoMenuTask EXCEPT !.row = row] EXCEPT !.op = "create_button"]
        OBVIOUS
    <2>5. /\ t \in MenuTasks /\ t.op = "create_button" /\ t.row = row /\ t.id = 0
        BY <2>3, <2>4, NoMenuTaskTyped DEF MenuTasks, MenuOperations, NoMenuTask
    <2>6. MenuHolds(menus, nextId, "check_parent", t)
        BY <2>3, <2>5, RowsHere
        DEF MenuHolds, MenuTyped, MenuSteps, ChangeHolds, Kind, NamesKnown, ParentsKnown, PlanKnown
    <2> QED
        BY <2>1, <2>2, <2>4, <2>6, LookKeeps DEF MenuRuns
<1>3. CASE BeginDeleteMenu(r)
    <2>1. PICK i \in DOMAIN menus :
            MBegin(r, "delete_menu", [NoMenuTask EXCEPT !.id = i], "count_children")
        BY <1>3 DEF BeginDeleteMenu
    <2>2. i \in 0 .. MaxId
        BY RowHere
    <2>3. PICK t : t = [[NoMenuTask EXCEPT !.id = i] EXCEPT !.op = "delete_menu"]
        OBVIOUS
    <2>4. t \in MenuTasks /\ t.op = "delete_menu"
        BY <2>2, <2>3, NoMenuTaskTyped DEF MenuTasks, MenuOperations, NoMenuTask
    <2>5. MenuHolds(menus, nextId, "count_children", t)
        BY <2>4
        DEF MenuHolds, MenuTyped, MenuSteps, ChangeHolds, NamesKnown, ParentsKnown, PlanKnown
    <2> QED
        BY <2>1, <2>3, <2>5, LookKeeps DEF MenuRuns
<1>4. CASE BeginApply(r)
    <2>1. PICK spec \in Specs :
             ValidSpec(spec) /\ MBegin(r, "apply", [NoMenuTask EXCEPT !.spec = spec], "snapshot")
        BY <1>4 DEF BeginApply
    <2>3. PICK t : t = [[NoMenuTask EXCEPT !.spec = spec] EXCEPT !.op = "apply"]
        OBVIOUS
    <2>4. t \in MenuTasks /\ t.op = "apply" /\ t.spec = spec
        BY <2>3, NoMenuTaskTyped DEF MenuTasks, MenuOperations, NoMenuTask
    <2>5. MenuHolds(menus, nextId, "snapshot", t)
        BY <2>1, <2>4
        DEF MenuHolds, MenuTyped, MenuSteps, ChangeHolds, NamesKnown, ParentsKnown, PlanKnown
    <2> QED
        BY <2>1, <2>3, <2>5, LookKeeps DEF MenuRuns
<1> QED
    BY <1>1, <1>2, <1>3, <1>4

LEMMA BeginUpdateMenuKeeps ==
    ASSUME MenuInv, NEW r \in MenuRequests, BeginUpdateMenu(r)
    PROVE  MenuInv'
<1>1. PICK i \in DOMAIN menus, dto \in MenuChanges :
        /\ dto.parent \in AnyParent \cup {Unset}
        /\ dto.name # Unset => IsMenu(i)
        /\ dto.parent = Root => IsMenu(i)
        /\ MBegin(r, IF IsMenu(i) THEN "update_menu" ELSE "update_button",
                  [NoMenuTask EXCEPT !.id = i, !.row = dto],
                  IF dto.name = Unset THEN "write" ELSE "check_name")
    BY DEF BeginUpdateMenu
<1>3. /\ dto \in MenuChanges /\ (~ IsMenu(i) => dto.name = Unset)
      /\ dto.parent # Unset => dto.parent \in DOMAIN menus \cup {Root}
    BY <1>1, RowsHere
<1>4. PICK op : op = IF IsMenu(i) THEN "update_menu" ELSE "update_button"
    OBVIOUS
<1>5. PICK t : t = [[NoMenuTask EXCEPT !.id = i, !.row = dto] EXCEPT !.op = op]
    OBVIOUS
<1>6. t \in MenuTasks /\ t.op = op /\ t.id = i /\ t.row = dto
    <2>1. i \in 0 .. MaxId
        BY RowHere
    <2>2. i \in 0 .. MaxId /\ op \in MenuOperations
        BY <1>4, <2>1 DEF MenuOperations
    <2> QED
        BY <1>3, <1>5, <2>2, NoMenuTaskTyped DEF MenuTasks, NoMenuTask
<1>7. PICK step : step = IF dto.name = Unset THEN "write" ELSE "check_name"
    OBVIOUS
<1>8. ChangeHolds(menus, nextId, t)
    <2>1. i \in 1 .. nextId - 1 /\ menus[i].type = Kind(op)
        <3>1. i \in 1 .. nextId - 1 /\ menus[i].type \in {"menu", "button"}
            BY RowHere
        <3> QED
            BY <1>4, <3>1 DEF Kind, IsMenu
    <2> QED
        BY <1>1, <1>3, <1>4, <1>6, <2>1 DEF ChangeHolds, Root
<1>9. MenuHolds(menus, nextId, step, t)
    BY <1>3, <1>4, <1>6, <1>7, <1>8
    DEF MenuHolds, MenuTyped, MenuSteps, NamesKnown, ParentsKnown, PlanKnown
<1>10. MLook(r, step, t) /\ step \in MenuRuns
    BY <1>1, <1>4, <1>5, <1>7 DEF MBegin, MenuRuns
<1> QED
    BY <1>9, <1>10, LookKeeps

LEMMA ChecksKeep ==
    ASSUME MenuInv, NEW r \in MenuRequests, CheckName(r) \/ CheckParent(r) \/ CountChildren(r)
    PROVE  MenuInv'
<1>0. mtask[r] \in MenuTasks /\ MenuHolds(menus, nextId, mpc[r], mtask[r])
    BY RowsHere
<1>1. CASE CheckName(r) /\ ~ MEnd(r)
    <2>1. PICK t : t = [mtask[r] EXCEPT !.late = @ \ Naming]
        OBVIOUS
    <2>2. /\ t \in MenuTasks /\ t.op = mtask[r].op /\ t.row = mtask[r].row /\ t.id = mtask[r].id
          /\ t.spec = mtask[r].spec /\ t.late = mtask[r].late \ Naming
        BY <1>0, <2>1 DEF MenuTasks
    <2>3. /\ mpc[r] = "check_name" /\ ~ NameTaken(mtask[r].row.name, mtask[r].id)
          /\ MLook(r, "write", t)
        BY <1>1, <2>1 DEF CheckName
    <2>4. ~ Named(menus, t.row.name, t.id)
        BY <2>2, <2>3 DEF Named, NameTaken, IsMenu
    <2>5. mtask[r].op \in {"create_menu", "update_menu"}
        BY <1>0, <2>3 DEF MenuHolds, MenuTyped, MenuSteps, MenuTasks, MenuOperations
    <2>6. "delete_menu" \notin Naming
        BY DEF Naming
    <2>7. MenuTyped(menus, nextId, "write", t)
        <3>1. ChangeHolds(menus, nextId, t)
            BY <1>0, <2>2, <2>3 DEF MenuHolds, MenuTyped, MenuRuns, ChangeHolds
        <3> QED
            BY <2>2, <2>5, <3>1 DEF MenuTyped, MenuSteps
    <2>8. MenuHolds(menus, nextId, "write", t)
        BY <1>0, <2>2, <2>3, <2>4, <2>6, <2>7 DEF MenuHolds, NamesKnown, ParentsKnown, PlanKnown
    <2> QED
        BY <2>3, <2>8, LookKeeps DEF MenuRuns
<1>2. CASE CheckParent(r) /\ ~ MEnd(r)
    <2>1. PICK t : t = [mtask[r] EXCEPT !.late = {}]
        OBVIOUS
    <2>2. /\ t \in MenuTasks /\ t.op = mtask[r].op /\ t.row = mtask[r].row /\ t.id = mtask[r].id
          /\ t.spec = mtask[r].spec
        BY <1>0, <2>1 DEF MenuTasks
    <2>3. /\ mpc[r] = "check_parent" /\ t.row.parent \in DOMAIN menus
          /\ MLook(r, "write", t)
        BY <1>2, <2>1, <2>2 DEF CheckParent
    <2>4. mtask[r].op = "create_button"
        BY <1>0, <2>3 DEF MenuHolds, MenuTyped, MenuSteps, MenuTasks, MenuOperations
    <2>5. MenuTyped(menus, nextId, "write", t)
        <3>1. ChangeHolds(menus, nextId, t)
            BY <1>0, <2>2, <2>3 DEF MenuHolds, MenuTyped, MenuRuns, ChangeHolds
        <3> QED
            BY <2>2, <2>4, <3>1 DEF MenuTyped, MenuSteps
    <2>6. MenuHolds(menus, nextId, "write", t)
        BY <2>2, <2>3, <2>4, <2>5 DEF MenuHolds, NamesKnown, Naming, ParentsKnown, PlanKnown
    <2> QED
        BY <2>3, <2>6, LookKeeps DEF MenuRuns
<1>3. CASE CountChildren(r) /\ ~ MEnd(r)
    <2>1. PICK t : t = [mtask[r] EXCEPT !.late = {}]
        OBVIOUS
    <2>2. t \in MenuTasks /\ t.op = mtask[r].op /\ t.id = mtask[r].id
        BY <1>0, <2>1 DEF MenuTasks
    <2>3. /\ mpc[r] = "count_children" /\ \A i \in DOMAIN menus : menus[i].parent # t.id
          /\ MLook(r, "delete", t)
        BY <1>3, <2>1, <2>2 DEF CountChildren
    <2>4. mtask[r].op = "delete_menu"
        BY <1>0, <2>3 DEF MenuHolds, MenuTyped, MenuSteps, MenuTasks, MenuOperations
    <2>5. MenuHolds(menus, nextId, "delete", t)
        BY <2>2, <2>3, <2>4
        DEF MenuHolds, MenuTyped, MenuSteps, ChangeHolds, NamesKnown, ParentsKnown, PlanKnown
    <2> QED
        BY <2>3, <2>5, LookKeeps DEF MenuRuns
<1> QED
    BY <1>1, <1>2, <1>3, MenuEndKeeps

-----------------------------------------------------------------------------
(* MenuTree: the writes.                                                   *)

\* A write keeps everything, if it was right whenever nobody overtook it.
LEMMA WriteInv ==
    ASSUME MenuInv, NEW r \in MenuRequests, NEW table, MWrite(r, table), mpc[r] \in MenuRuns,
           NEW n \in 1 .. MaxId + 1, nextId' = n, Overtaken(mtask[r].op, menus, nextId, table, n),
           RowsTyped(table, n), synced' # Unset => synced' \in Specs, SyncConverges',
           Distinct(menus) /\ (mtask[r].op \in Naming => mtask[r].late \cap Naming = {})
             => Distinct(table),
           Rooted(menus) /\ (mtask[r].op \in Placing => "delete_menu" \notin mtask[r].late)
                         /\ (mtask[r].op = "delete_menu" => mtask[r].late \cap Placing = {})
             => Rooted(table)
    PROVE  MenuInv'
<1>1. PICK op, late : op = mtask[r].op /\ late = mtask[r].late
    OBVIOUS
<1>2. menus' = table /\ n \in Nat
    BY MenuAssumption DEF MWrite
<1>3. /\ \A q \in MenuRequests : MenuHolds(table, n, mpc'[q], mtask'[q])
      /\ mpc' \in [MenuRequests -> {"idle", "done"} \cup MenuRuns]
      /\ mtask' \in [MenuRequests -> MenuTasks]
      /\ menuRaces \subseteq menuRaces'
      /\ \A o \in late : <<op, o>> \in menuRaces'
    BY <1>1, <1>2, WriteKeeps
<1>4. MenuTypes'
    BY <1>2, <1>3 DEF MenuTypes
<1>5. NamesUnique'
    <2> SUFFICES ASSUME menuRaces' \cap (Naming \X Naming) = {} PROVE Distinct(table)
        BY <1>2 DEF NamesUnique, Distinct, IsMenu
    <2>1. Distinct(menus)
        BY <1>3 DEF MenuInv, NamesUnique, Distinct, IsMenu
    <2>2. ASSUME op \in Naming, NEW o \in late \cap Naming PROVE FALSE
        <3>1. <<op, o>> \in menuRaces' /\ <<op, o>> \in Naming \X Naming
            BY <1>3, <2>2
        <3> QED
            BY <3>1
    <2> QED
        BY <1>1, <2>1, <2>2
<1>6. ParentsExist'
    <2> SUFFICES ASSUME menuRaces' \cap ((Placing \X {"delete_menu"}) \cup ({"delete_menu"} \X Placing))
                          = {}
                 PROVE  Rooted(table)
        BY <1>2 DEF ParentsExist, Rooted
    <2>1. Rooted(menus)
        BY <1>3 DEF MenuInv, ParentsExist, Rooted
    <2>2. ASSUME op \in Placing, "delete_menu" \in late PROVE FALSE
        <3>1. /\ <<op, "delete_menu">> \in menuRaces'
              /\ <<op, "delete_menu">> \in Placing \X {"delete_menu"}
            BY <1>3, <2>2
        <3> QED
            BY <3>1
    <2>3. ASSUME op = "delete_menu", NEW o \in late \cap Placing PROVE FALSE
        <3>1. <<op, o>> \in menuRaces' /\ <<op, o>> \in {"delete_menu"} \X Placing
            BY <1>3, <2>3
        <3> QED
            BY <3>1
    <2> QED
        BY <1>1, <2>1, <2>2, <2>3
<1> QED
    BY <1>2, <1>3, <1>4, <1>5, <1>6 DEF MenuInv

LEMMA NothingSynced ==
    ASSUME synced' = Unset
    PROVE  (synced' # Unset => synced' \in Specs) /\ SyncConverges'
BY DEF SyncConverges

LEMMA InsertKeeps ==
    ASSUME MenuInv, NEW r \in MenuRequests, Insert(r)
    PROVE  MenuInv'
<1>1. PICK t, row, n, table :
        /\ t = mtask[r] /\ row = t.row /\ n = nextId + 1
        /\ table = [i \in DOMAIN menus \cup {nextId} |-> IF i = nextId THEN row ELSE menus[i]]
    OBVIOUS
<1>2. /\ mpc[r] = "write" /\ t.op \in {"create_menu", "create_button"} /\ nextId <= MaxId
      /\ MWrite(r, table) /\ nextId' = n /\ synced' = Unset
    BY <1>1 DEF Insert
<1>3. /\ row \in MenuRows /\ row.type = Kind(t.op) /\ t.id = 0
      /\ t.op = "create_button" => row.parent # Root
      /\ t.op = "create_menu" => row.name # Unset
      /\ t.op \in Naming /\ t.late \cap Naming = {} /\ row.name # Unset => ~ Named(menus, row.name, 0)
      /\ "delete_menu" \notin t.late /\ row.parent # Unset => row.parent \in DOMAIN menus \cup {Root}
    BY <1>1, <1>2, RowsHere
    DEF MenuHolds, MenuTyped, MenuRuns, ChangeHolds, NamesKnown, ParentsKnown
<1>4. /\ nextId \in Nat /\ n \in Nat /\ n \in 1 .. MaxId + 1 /\ nextId \notin DOMAIN menus
      /\ DOMAIN menus \subseteq 1 .. nextId - 1 /\ RowsTyped(menus, nextId)
    BY <1>1, <1>2, MenuAssumption DEF MenuInv, MenuTypes, RowsTyped
<1>5. /\ DOMAIN table = DOMAIN menus \cup {nextId} /\ table[nextId] = row
      /\ \A i \in DOMAIN menus : i # nextId /\ table[i] = menus[i]
    BY <1>1, <1>4
<1>6. Overtaken(t.op, menus, nextId, table, n)
    <2>1. \A i \in DOMAIN table \ DOMAIN menus : i \in nextId .. n - 1
        BY <1>1, <1>4, <1>5
    <2>2. t.op \notin Naming => row.type = "button"
        BY <1>2, <1>3 DEF Naming, Kind
    <2>3. t.op \in Placing /\ nextId <= n
        BY <1>1, <1>2, <1>4 DEF Placing
    <2> QED
        BY <1>2, <1>4, <1>5, <2>1, <2>2, <2>3 DEF Overtaken
<1>7. RowsTyped(table, n)
    <2>1. DOMAIN table \subseteq 1 .. n - 1
        BY <1>1, <1>4, <1>5, MenuAssumption DEF MenuInv, MenuTypes
    <2>2. row.type = "button" => row.parent # Root
        BY <1>2, <1>3 DEF Kind
    <2> QED
        BY <1>3, <1>4, <1>5, <2>1, <2>2 DEF RowsTyped
<1>8. ASSUME Distinct(menus), t.op \in Naming => t.late \cap Naming = {} PROVE Distinct(table)
    <2>1. CASE row.type = "button"
        BY <1>5, <1>8, <2>1 DEF Distinct
    <2>2. CASE t.op = "create_menu"
        <3>1. \A i \in DOMAIN menus : i # 0
            BY RowHere
        <3>2. \A i \in DOMAIN menus : menus[i].type = "menu" => menus[i].name # row.name
            BY <1>3, <1>8, <2>2, <3>1 DEF Named, Naming
        <3> QED
            BY <1>5, <1>8, <3>2 DEF Distinct
    <2> QED
        BY <1>2, <1>3, <2>1, <2>2 DEF Kind
<1>9. ASSUME Rooted(menus), t.op \in Placing => "delete_menu" \notin t.late PROVE Rooted(table)
    <2>1. row.parent # Unset
        BY <1>3, MenuAssumption DEF MenuRows
    <2> QED
        BY <1>2, <1>3, <1>5, <1>9, <2>1 DEF Rooted, Placing
<1> QED
    BY <1>1, <1>2, <1>4, <1>6, <1>7, <1>8, <1>9, WriteInv, NothingSynced DEF MenuRuns

\* The row after an update.
LEMMA ChangedRow ==
    ASSUME NEW row \in MenuRows, NEW dto \in MenuChanges
    PROVE  /\ ChangedBy(row, dto) \in MenuRows
           /\ ChangedBy(row, dto).type = row.type
           /\ ChangedBy(row, dto).name = (IF dto.name = Unset THEN row.name ELSE dto.name)
           /\ ChangedBy(row, dto).parent = (IF dto.parent = Unset THEN row.parent ELSE dto.parent)
BY DEF ChangedBy, Or, MenuRows, MenuChanges

LEMMA UpdateKeeps ==
    ASSUME MenuInv, NEW r \in MenuRequests, Update(r), ~ MEnd(r)
    PROVE  MenuInv'
<1>1. PICK t, dto, id, row, table :
        /\ t = mtask[r] /\ dto = t.row /\ id = t.id /\ row = ChangedBy(menus[id], dto)
        /\ table = [menus EXCEPT ![id] = row]
    OBVIOUS
<1>2. /\ mpc[r] = "write" /\ t.op \in {"update_menu", "update_button"}
      /\ MWrite(r, table) /\ nextId' = nextId /\ synced' = Unset /\ id \in DOMAIN menus
    BY <1>1 DEF Update
<1>3. /\ dto \in MenuChanges /\ menus[id].type = Kind(t.op)
      /\ t.op = "update_button" => dto.name = Unset /\ dto.parent # Root
      /\ t.op \in Naming /\ t.late \cap Naming = {} /\ dto.name # Unset => ~ Named(menus, dto.name, id)
      /\ "delete_menu" \notin t.late /\ dto.parent # Unset => dto.parent \in DOMAIN menus \cup {Root}
    BY <1>1, <1>2, RowsHere
    DEF MenuHolds, MenuTyped, MenuRuns, ChangeHolds, NamesKnown, ParentsKnown
<1>4. nextId \in Nat /\ nextId \in 1 .. MaxId + 1 /\ RowsTyped(menus, nextId)
    BY MenuAssumption DEF MenuInv, MenuTypes
<1>5. /\ row \in MenuRows /\ row.type = menus[id].type
      /\ row.name = (IF dto.name = Unset THEN menus[id].name ELSE dto.name)
      /\ row.parent = (IF dto.parent = Unset THEN menus[id].parent ELSE dto.parent)
    BY <1>1, <1>2, <1>3, RowHere, ChangedRow
<1>6. /\ DOMAIN table = DOMAIN menus /\ table[id] = row
      /\ \A i \in DOMAIN menus : i # id => table[i] = menus[i]
    BY <1>1, <1>2
<1>7. Overtaken(t.op, menus, nextId, table, nextId)
    <2>1. t.op \notin Naming => row.type = "button"
        BY <1>2, <1>3, <1>5 DEF Naming, Kind
    <2>2. t.op \in Placing /\ nextId <= nextId
        BY <1>2, <1>4 DEF Placing
    <2>3. \A i \in DOMAIN table : table[i].type = menus[i].type
        BY <1>5, <1>6
    <2> QED
        BY <1>2, <1>4, <1>6, <2>1, <2>2, <2>3 DEF Overtaken
<1>8. RowsTyped(table, nextId)
    <2>1. row.type = "button" => row.parent # Root
        BY <1>2, <1>3, <1>4, <1>5 DEF Kind, RowsTyped
    <2> QED
        BY <1>4, <1>5, <1>6, <2>1 DEF RowsTyped
<1>9. ASSUME Distinct(menus), t.op \in Naming => t.late \cap Naming = {} PROVE Distinct(table)
    <2>1. CASE row.type = "button" \/ dto.name = Unset
        BY <1>5, <1>6, <1>9, <2>1 DEF Distinct
    <2>2. CASE t.op = "update_menu" /\ dto.name # Unset
        <3>1. \A i \in DOMAIN menus \ {id} : menus[i].type = "menu" => menus[i].name # row.name
            BY <1>3, <1>5, <1>9, <2>2 DEF Named, Naming
        <3> QED
            BY <1>6, <1>9, <3>1 DEF Distinct
    <2> QED
        BY <1>2, <1>3, <1>5, <2>1, <2>2 DEF Kind
<1>10. ASSUME Rooted(menus), t.op \in Placing => "delete_menu" \notin t.late PROVE Rooted(table)
    BY <1>2, <1>3, <1>5, <1>6, <1>10 DEF Rooted, Placing
<1> QED
    BY <1>1, <1>2, <1>4, <1>7, <1>8, <1>9, <1>10, WriteInv, NothingSynced DEF MenuRuns

LEMMA DeleteKeeps ==
    ASSUME MenuInv, NEW r \in MenuRequests, DeleteMenu(r), ~ MEnd(r)
    PROVE  MenuInv'
<1>1. PICK t, id, table :
        /\ t = mtask[r] /\ id = t.id /\ table = [i \in DOMAIN menus \ {id} |-> menus[i]]
    OBVIOUS
<1>2. /\ mpc[r] = "delete" /\ MWrite(r, table) /\ nextId' = nextId /\ synced' = Unset
    BY <1>1 DEF DeleteMenu
<1>3. t.op = "delete_menu" /\ (t.late \cap Placing = {} => \A i \in DOMAIN menus : menus[i].parent # id)
    BY <1>1, <1>2, RowsHere
    DEF MenuHolds, MenuTyped, MenuSteps, MenuTasks, MenuOperations, ParentsKnown
<1>4. nextId \in Nat /\ nextId \in 1 .. MaxId + 1 /\ RowsTyped(menus, nextId)
    BY MenuAssumption DEF MenuInv, MenuTypes
<1>5. /\ DOMAIN table = DOMAIN menus \ {id} /\ \A i \in DOMAIN table : table[i] = menus[i]
    BY <1>1
<1>6. Overtaken(t.op, menus, nextId, table, nextId)
    BY <1>3, <1>4, <1>5 DEF Overtaken
<1>7. RowsTyped(table, nextId)
    BY <1>4, <1>5 DEF RowsTyped
<1>8. ASSUME Distinct(menus) PROVE Distinct(table)
    BY <1>5, <1>8 DEF Distinct
<1>9. ASSUME Rooted(menus), t.late \cap Placing = {} PROVE Rooted(table)
    BY <1>3, <1>5, <1>9 DEF Rooted
<1> QED
    BY <1>1, <1>2, <1>3, <1>4, <1>6, <1>7, <1>8, <1>9, WriteInv, NothingSynced DEF MenuRuns

\* The row i that a slot is matched to, below a parent; 0 is none.
MatchedTo(table, spec, s, parent, i) ==
    IF spec[s] = Unset \/ Found(table, parent, TypeOf(s), spec[s].key) = {}
      THEN i = 0 ELSE i \in Found(table, parent, TypeOf(s), spec[s].key)

Matched(table, spec, m) ==
    /\ m \in MenuMatches /\ MatchedTo(table, spec, "top", Root, m["top"])
    /\ \A s \in {"sub", "button"} : IF m["top"] = 0 THEN m[s] = 0
                                    ELSE MatchedTo(table, spec, s, m["top"], m[s])

\* What Matches holds.
LEMMA MatchesMean ==
    ASSUME NEW table, DOMAIN table \subseteq 1 .. MaxId, NEW spec \in Specs,
           NEW m \in Matches(table, spec)
    PROVE  Matched(table, spec, m) /\ m.top = m["top"]
<1> DEFINE Pick(parent, slot) ==
            IF spec[slot] = Unset THEN {0}
            ELSE LET f == Found(table, parent, TypeOf(slot), spec[slot].key)
                 IN  IF f = {} THEN {0} ELSE f
           Below(top, slot) == IF top = 0 THEN {0} ELSE Pick(top, slot)
           Rest(t) == {[top |-> t, sub |-> s, button |-> b] :
                          s \in Below(t, "sub"), b \in Below(t, "button")}
<1>0. PICK t \in Pick(Root, "top") : m \in Rest(t)
    <2>1. m \in UNION {Rest(t) : t \in Pick(Root, "top")}
        BY DEF Matches
    <2> HIDE DEF Rest, Pick
    <2> QED
        BY <2>1
<1>1. PICK s \in Below(t, "sub"), b \in Below(t, "button") :
         m = [top |-> t, sub |-> s, button |-> b]
    BY <1>0
<1>2. ASSUME NEW parent, NEW slot, NEW i \in Pick(parent, slot)
      PROVE  MatchedTo(table, spec, slot, parent, i) /\ i \in 0 .. MaxId
    <2>1. Found(table, parent, TypeOf(slot), spec[slot].key) \subseteq 0 .. MaxId /\ 0 \in 0 .. MaxId
        BY MenuAssumption DEF Found
    <2> QED
        BY <1>2, <2>1 DEF MatchedTo
<1>3. t \in 0 .. MaxId /\ MatchedTo(table, spec, "top", Root, t)
    BY <1>2
<1>4. /\ s \in 0 .. MaxId /\ b \in 0 .. MaxId
      /\ IF t = 0 THEN s = 0 /\ b = 0
         ELSE MatchedTo(table, spec, "sub", t, s) /\ MatchedTo(table, spec, "button", t, b)
    <2>1. CASE t = 0
        BY <2>1, MenuAssumption
    <2>2. CASE t # 0
        BY <1>2, <2>2
    <2> QED
        BY <2>1, <2>2
<1>5. m["top"] = t /\ m["sub"] = s /\ m["button"] = b /\ DOMAIN m = Slots
    BY <1>1 DEF Slots
<1>6. m \in MenuMatches
    BY <1>1, <1>3, <1>4, <1>5 DEF MenuMatches, Slots
<1> HIDE DEF Pick, Below
<1>7. m.top = m["top"]
    BY <1>1, <1>5
<1> QED
    BY <1>3, <1>4, <1>5, <1>6, <1>7 DEF Matched

\* A slot that asks for something is matched to a row that is alike, below
\* the row of the menu at the top.
LEMMA MatchedRows ==
    ASSUME NEW table, NEW n \in 1 .. MaxId + 1, RowsTyped(table, n), NEW spec \in Specs,
           NEW m, Matched(table, spec, m), NEW s \in Asked(spec), m[s] # 0
    PROVE  /\ s \in Slots /\ m[s] \in DOMAIN table /\ m[s] \in 1 .. n - 1
           /\ table[m[s]].type = TypeOf(s) /\ table[m[s]].key = spec[s].key
           /\ table[m[s]].parent = (IF s = "top" THEN Root ELSE m["top"])
           /\ s # "top" => m["top"] # 0
<1>1. s \in Slots /\ spec[s] # Unset
    BY DEF Asked
<1>2. CASE s = "top"
    BY <1>1, <1>2 DEF Matched, MatchedTo, Found, RowsTyped, Slots
<1>3. CASE s # "top"
    BY <1>1, <1>3 DEF Matched, MatchedTo, Found, RowsTyped, Slots
<1> QED
    BY <1>2, <1>3

LEMMA SnapshotKeeps ==
    ASSUME MenuInv, NEW r \in MenuRequests, Snapshot(r), ~ MEnd(r)
    PROVE  MenuInv'
<1>1. PICK t, spec : t = mtask[r] /\ spec = t.spec
    OBVIOUS
<1>2. PICK m \in Matches(menus, spec) :
        /\ mpc[r] = "snapshot" /\ Plannable(menus, spec, m) /\ Appliable(menus, spec, m)
        /\ MLook(r, "commit", [t EXCEPT !.match = m, !.plan = Plan(menus, spec, m), !.late = {}])
    BY <1>1 DEF Snapshot
<1>3. t \in MenuTasks /\ t.op = "apply" /\ spec \in Specs /\ ValidSpec(spec)
    BY <1>1, <1>2, RowsHere
    DEF MenuHolds, MenuTyped, MenuSteps, MenuTasks, MenuOperations, MenuRuns, ChangeHolds
<1>4. nextId \in 1 .. MaxId + 1 /\ RowsTyped(menus, nextId) /\ DOMAIN menus \subseteq 1 .. MaxId
    BY RowHere DEF MenuInv, MenuTypes
<1>5. Matched(menus, spec, m) /\ m.top = m["top"] /\ m \in MenuMatches
    BY <1>3, <1>4, MatchesMean DEF Matched
<1>6. PICK plan : plan = Plan(menus, spec, m)
    OBVIOUS
<1>7. /\ plan \in [Asked(spec) -> {"create", "update", "noop"}]
      /\ \A s \in Asked(spec) : plan[s] = "create" <=> m[s] = 0
    BY <1>6 DEF Plan, Action
<1>8. Asked(spec) \in SUBSET Slots /\ plan \in MenuPlans
    BY <1>7 DEF Asked, MenuPlans
<1>9. PICK u : u = [t EXCEPT !.match = m, !.plan = plan, !.late = {}]
    OBVIOUS
<1>10. /\ u \in MenuTasks /\ u.op = "apply" /\ u.spec = spec /\ u.match = m /\ u.plan = plan
       /\ u.late = {}
    BY <1>1, <1>3, <1>5, <1>8, <1>9 DEF MenuTasks
<1>11. MatchHolds(menus, nextId, u)
    <2>1. ASSUME NEW s \in Asked(spec)
          PROVE  m[s] < nextId /\ (m[s] \in DOMAIN menus => menus[m[s]].type = TypeOf(s))
        <3>1. CASE m[s] = 0
            BY <1>4, <3>1, RowHere, MenuAssumption
        <3>2. CASE m[s] # 0
            <4>1. m[s] \in 1 .. nextId - 1 /\ menus[m[s]].type = TypeOf(s)
                BY <1>3, <1>4, <1>5, <3>2, MatchedRows
            <4> QED
                BY <1>4, <4>1, MenuAssumption
        <3> QED
            BY <3>1, <3>2
    <2>2. ASSUME NEW s \in Asked(spec), NEW q \in Asked(spec), s # q, m[s] # 0, m[s] = m[q]
          PROVE  FALSE
        <3>1. /\ s \in Slots /\ menus[m[s]].type = TypeOf(s)
              /\ s # "top" => m["top"] # 0
              /\ menus[m[s]].parent = (IF s = "top" THEN Root ELSE m["top"])
            BY <1>3, <1>4, <1>5, <2>2, MatchedRows
        <3>2. /\ q \in Slots /\ menus[m[q]].type = TypeOf(q)
              /\ q # "top" => m["top"] # 0
              /\ menus[m[q]].parent = (IF q = "top" THEN Root ELSE m["top"])
            BY <1>3, <1>4, <1>5, <2>2, MatchedRows
        <3>3. s = "top" <=> q = "top"
            BY <2>2, <3>1, <3>2 DEF Root
        <3>4. TypeOf(s) = TypeOf(q)
            BY <2>2, <3>1, <3>2
        <3> QED
            BY <2>2, <3>1, <3>2, <3>3, <3>4 DEF Slots, TypeOf
    <2> QED
        BY <1>5, <1>7, <1>10, <2>1, <2>2 DEF MatchHolds
<1>12. MenuTyped(menus, nextId, "commit", u)
    BY <1>3, <1>10, <1>11 DEF MenuTyped, MenuSteps, ChangeHolds
<1>13. NamesKnown(menus, "commit", u)
    <2>1. ASSUME NEW s \in Asked(spec) \ {"button"} PROVE ~ Named(menus, spec[s].name, m[s])
        BY <1>2, <2>1 DEF Appliable, Available, Named
    <2> QED
        BY <1>10, <2>1 DEF NamesKnown
<1>14. ParentsKnown(menus, "commit", u)
    <2>1. ASSUME NEW s \in Asked(spec) PROVE m[s] \in DOMAIN menus \cup {0}
        BY <1>3, <1>4, <1>5, MatchedRows
    <2> QED
        BY <1>10, <2>1 DEF ParentsKnown
<1>15. PlanKnown(menus, "commit", u)
    BY <1>2, <1>6, <1>10 DEF PlanKnown
<1> QED
    BY <1>2, <1>6, <1>9, <1>12, <1>13, <1>14, <1>15, LookKeeps DEF MenuHolds, MenuRuns

-----------------------------------------------------------------------------
(* MenuTree: the commit of a configuration.                                *)

\* The slots end in rows of their own: those that they are matched to, and
\* new ones, which take the next ids.
LEMMA IdsMean ==
    ASSUME nextId \in 1 .. MaxId + 1, NEW t, t.spec \in Specs, MatchHolds(menus, nextId, t),
           NEW ids, ids = IdsOf(t.spec, t.match),
           NEW new, new = {s \in Asked(t.spec) : t.match[s] = 0}
    PROVE  /\ Cardinality(new) \in Nat
           /\ \A s \in Asked(t.spec) :
                IF t.match[s] = 0 THEN ids[s] \in nextId .. nextId + Cardinality(new) - 1
                ELSE ids[s] = t.match[s] /\ ids[s] \in 1 .. nextId - 1
           /\ \A s, q \in Asked(t.spec) : ids[s] = ids[q] => s = q
<1>1. PICK rank : rank = [top |-> 0, button |-> 1, sub |-> 2]
    OBVIOUS
<1>2. PICK Before : Before = [s \in Asked(t.spec) |-> {q \in new : rank[q] < rank[s]}]
    OBVIOUS
<1>3. Asked(t.spec) \subseteq Slots /\ new \subseteq Slots
    BY DEF Asked
<1>4. \A s \in Asked(t.spec) : rank[s] \in Nat /\ \A q \in Asked(t.spec) : rank[s] = rank[q] => s = q
    BY <1>1, <1>3 DEF Slots
<1>5. IsFiniteSet(new) /\ Cardinality(new) \in Nat
    <2>1. Slots = ({"top"} \cup {"sub"}) \cup {"button"}
        BY DEF Slots
    <2>2. IsFiniteSet({"top"}) /\ IsFiniteSet({"sub"}) /\ IsFiniteSet({"button"})
        BY FS_Singleton
    <2>3. IsFiniteSet({"top"} \cup {"sub"})
        BY <2>2, FS_Union
    <2>4. IsFiniteSet(Slots)
        BY <2>1, <2>2, <2>3, FS_Union
    <2> QED
        BY <1>3, <2>4, FS_Subset, FS_CardinalityType
<1>6. nextId \in Nat /\ \A s \in Asked(t.spec) :
        ids[s] = IF t.match[s] # 0 THEN t.match[s] ELSE nextId + Cardinality(Before[s])
    BY <1>1, <1>2, MenuAssumption DEF IdsOf
<1>7. ASSUME NEW s \in new
      PROVE  Cardinality(Before[s]) \in Nat /\ Cardinality(Before[s]) < Cardinality(new)
    <2>1. s \in Asked(t.spec)
        OBVIOUS
    <2>2. Before[s] \subseteq new /\ s \notin Before[s]
        BY <1>2, <1>4, <2>1
    <2>3. IsFiniteSet(Before[s])
        BY <1>5, <2>2, FS_Subset
    <2> QED
        BY <1>5, <2>2, <2>3, FS_Subset, FS_CardinalityType
<1>8. ASSUME NEW s \in new, NEW q \in new, rank[s] < rank[q]
      PROVE  Cardinality(Before[s]) < Cardinality(Before[q])
    <2>1. s \in Asked(t.spec) /\ q \in Asked(t.spec)
        OBVIOUS
    <2>2. Before[s] \subseteq Before[q] /\ s \in Before[q] /\ s \notin Before[s]
        BY <1>2, <1>4, <1>8, <2>1
    <2>3. IsFiniteSet(Before[q])
        BY <1>2, <1>5, <2>1, FS_Subset
    <2> QED
        BY <1>7, <2>2, <2>3, FS_Subset
<1>9. \A s \in Asked(t.spec) : t.match[s] # 0 => t.match[s] \in 1 .. nextId - 1
    <2>1. \A s \in Asked(t.spec) : t.match[s] \in 0 .. MaxId /\ t.match[s] < nextId
        BY <1>3 DEF MatchHolds, MenuMatches
    <2> QED
        BY <1>6, <2>1, MenuAssumption
<1>10. ASSUME NEW s \in new
       PROVE  ids[s] = nextId + Cardinality(Before[s]) /\ ids[s] \in nextId .. nextId + Cardinality(new) - 1
    <2>1. s \in Asked(t.spec) /\ t.match[s] = 0
        OBVIOUS
    <2>2. ids[s] = nextId + Cardinality(Before[s])
        BY <1>6, <2>1
    <2>3. PICK a, b : a = Cardinality(Before[s]) /\ b = Cardinality(new)
        OBVIOUS
    <2>4. a \in Nat /\ b \in Nat /\ a < b
        BY <1>5, <1>7, <2>3
    <2> QED
        BY <1>6, <2>2, <2>3, <2>4
<1>11. ASSUME NEW s \in Asked(t.spec), NEW q \in Asked(t.spec), ids[s] = ids[q] PROVE s = q
    <2>1. CASE s \in new /\ q \in new
        <3>1. Cardinality(Before[s]) = Cardinality(Before[q])
            <4>1. PICK a, b : a = Cardinality(Before[s]) /\ b = Cardinality(Before[q])
                OBVIOUS
            <4>2. a \in Nat /\ b \in Nat
                BY <1>7, <2>1, <4>1
            <4>3. nextId + a = nextId + b
                BY <1>10, <1>11, <2>1, <4>1
            <4> QED
                BY <1>6, <4>1, <4>2, <4>3
        <3>2. ~ (rank[s] < rank[q]) /\ ~ (rank[q] < rank[s])
            BY <1>7, <1>8, <2>1, <3>1
        <3>3. rank[s] = rank[q]
            BY <1>4, <3>2
        <3> QED
            BY <1>4, <3>3
    <2>2. CASE s \notin new /\ q \notin new
        <3>1. t.match[s] # 0 /\ t.match[s] = t.match[q]
            BY <1>6, <1>11, <2>2
        <3> QED
            BY <3>1 DEF MatchHolds
    <2>3. CASE (s \in new /\ q \notin new) \/ (s \notin new /\ q \in new)
        <3>1. \A x \in new : ids[x] \in Int /\ ids[x] >= nextId
            BY <1>5, <1>6, <1>10
        <3>2. \A x \in Asked(t.spec) \ new : ids[x] \in Int /\ ids[x] < nextId
            BY <1>6, <1>9
        <3> QED
            BY <1>6, <1>11, <2>3, <3>1, <3>2
    <2> QED
        BY <2>1, <2>2, <2>3
<1> QED
    BY <1>5, <1>6, <1>9, <1>10, <1>11

\* The row that a slot ends in.
SlotRow(t, ids, s) ==
    IF t.plan[s] = "update" THEN Written(menus[ids[s]], s, t.spec)
    ELSE Created(IF s = "top" THEN Root ELSE ids.top, s, t.spec)

\* What a slot asks for.
LEMMA AskedRow ==
    ASSUME NEW spec \in Specs, NEW s \in Asked(spec)
    PROVE  /\ s \in Slots /\ "top" \in Asked(spec)
           /\ spec[s].key \in Paths \cup Marks /\ spec[s].look \in Looks
           /\ s # "button" => spec[s].name \in Names /\ TypeOf(s) = "menu"
           /\ s = "button" => TypeOf(s) = "button"
<1>1. s \in Slots /\ spec[s] # Unset
    BY DEF Asked
<1>2. /\ spec["top"] \in SubMenus
      /\ spec["sub"] \in SubMenus \cup {Unset}
      /\ spec["button"] \in [key : Marks, look : Looks] \cup {Unset}
    BY DEF Specs
<1>3. "top" \in Asked(spec)
    BY <1>2, MenuAssumption DEF Asked, Slots, SubMenus
<1>4. s # "button" => spec[s] \in SubMenus
    BY <1>1, <1>2 DEF Slots
<1>5. s = "button" => spec[s] \in [key : Marks, look : Looks]
    BY <1>1, <1>2 DEF Slots
<1> QED
    BY <1>1, <1>3, <1>4, <1>5 DEF SubMenus, TypeOf

\* A plan whose rows are there: the rows it leads to and the next id.
Committed(t, ids, slots, table, n) ==
    /\ nextId \in 1 .. MaxId + 1 /\ RowsTyped(menus, nextId)
    /\ t.op = "apply" /\ t.spec \in Specs /\ ValidSpec(t.spec) /\ MatchHolds(menus, nextId, t)
    /\ ids = IdsOf(t.spec, t.match) /\ table = Applied(t)
    /\ slots = {s \in Asked(t.spec) : t.plan[s] # "noop"}
    /\ n = nextId + Cardinality({s \in Asked(t.spec) : t.plan[s] = "create"}) /\ n <= MaxId + 1
    /\ \A s \in Asked(t.spec) : t.plan[s] = "update" => t.match[s] \in DOMAIN menus

LEMMA CommittedIds ==
    ASSUME NEW t, NEW ids, NEW slots, NEW table, NEW n, Committed(t, ids, slots, table, n)
    PROVE  /\ nextId \in Nat /\ n \in 1 .. MaxId + 1 /\ nextId <= n /\ slots \subseteq Asked(t.spec)
           /\ \A s \in Asked(t.spec) :
                /\ ids[s] \in 1 .. n - 1 /\ ids[s] \in 1 .. MaxId
                /\ IF t.plan[s] = "create" THEN ids[s] \in nextId .. n - 1 /\ t.match[s] = 0
                   ELSE ids[s] = t.match[s] /\ t.match[s] # 0 /\ ids[s] \in 1 .. nextId - 1
           /\ \A s, q \in Asked(t.spec) : ids[s] = ids[q] => s = q
<1>1. PICK new : new = {s \in Asked(t.spec) : t.match[s] = 0}
    OBVIOUS
<1>2. new = {s \in Asked(t.spec) : t.plan[s] = "create"}
    BY <1>1 DEF Committed, MatchHolds
<1>3. PICK c : c = Cardinality(new)
    OBVIOUS
<1>4. /\ c \in Nat
      /\ \A s \in Asked(t.spec) :
           IF t.match[s] = 0 THEN ids[s] \in nextId .. nextId + c - 1
           ELSE ids[s] = t.match[s] /\ ids[s] \in 1 .. nextId - 1
      /\ \A s, q \in Asked(t.spec) : ids[s] = ids[q] => s = q
    BY <1>1, <1>3, IdsMean DEF Committed
<1>5. nextId \in Nat /\ nextId >= 1 /\ n = nextId + c /\ n <= MaxId + 1 /\ MaxId \in Nat
    BY <1>2, <1>3, MenuAssumption DEF Committed
<1>6. n \in 1 .. MaxId + 1 /\ nextId <= n
    BY <1>4, <1>5
<1>7. ASSUME NEW s \in Asked(t.spec)
      PROVE  /\ ids[s] \in 1 .. n - 1 /\ ids[s] \in 1 .. MaxId
             /\ IF t.plan[s] = "create" THEN ids[s] \in nextId .. n - 1 /\ t.match[s] = 0
                ELSE ids[s] = t.match[s] /\ t.match[s] # 0 /\ ids[s] \in 1 .. nextId - 1
    <2>1. t.plan[s] = "create" <=> t.match[s] = 0
        BY DEF Committed, MatchHolds
    <2>2. CASE t.match[s] = 0
        BY <1>4, <1>5, <2>1, <2>2
    <2>3. CASE t.match[s] # 0
        BY <1>4, <1>5, <2>1, <2>3
    <2> QED
        BY <2>2, <2>3
<1>9. slots \subseteq Asked(t.spec)
    BY DEF Committed
<1> QED
    BY <1>4, <1>5, <1>6, <1>7, <1>9

LEMMA CommittedTable ==
    ASSUME NEW t, NEW ids, NEW slots, NEW table, NEW n, Committed(t, ids, slots, table, n)
    PROVE  /\ DOMAIN menus \subseteq DOMAIN table
           /\ \A i \in DOMAIN table : i \in DOMAIN menus \/ \E s \in slots : i = ids[s]
           /\ \A s \in slots : ids[s] \in DOMAIN table /\ table[ids[s]] = SlotRow(t, ids, s)
           /\ \A i \in DOMAIN menus : (\A s \in slots : ids[s] # i) => table[i] = menus[i]
<1>1. \A s, q \in Asked(t.spec) : ids[s] = ids[q] => s = q
    BY CommittedIds
<1>2. table = [i \in DOMAIN menus \cup {ids[s] : s \in slots} |->
                 IF \E s \in slots : ids[s] = i
                   THEN SlotRow(t, ids, CHOOSE s \in slots : ids[s] = i) ELSE menus[i]]
    BY DEF Committed, Applied, SlotRow
<1>3. ASSUME NEW s \in slots PROVE table[ids[s]] = SlotRow(t, ids, s)
    <2>1. (CHOOSE q \in slots : ids[q] = ids[s]) = s
        BY <1>1, CommittedIds
    <2> QED
        BY <1>2, <2>1
<1> QED
    BY <1>2, <1>3

\* The row that a slot to be written ends in.
LEMMA CommittedRow ==
    ASSUME NEW t, NEW ids, NEW slots, NEW table, NEW n, Committed(t, ids, slots, table, n),
           NEW s \in slots
    PROVE  /\ table[ids[s]] \in MenuRows /\ table[ids[s]].type = TypeOf(s)
           /\ table[ids[s]].look = t.spec[s].look
           /\ s # "button" => table[ids[s]].name = t.spec[s].name
           /\ s = "button" => table[ids[s]].parent # Root
           /\ IF t.plan[s] = "create"
                THEN /\ table[ids[s]].parent = (IF s = "top" THEN Root ELSE ids["top"])
                     /\ table[ids[s]].key = t.spec[s].key
                ELSE /\ ids[s] \in DOMAIN menus
                     /\ table[ids[s]].parent = menus[ids[s]].parent
                     /\ table[ids[s]].key = menus[ids[s]].key
                     /\ table[ids[s]].type = menus[ids[s]].type
<1>1. /\ s \in Asked(t.spec) /\ t.plan[s] # "noop" /\ t.spec \in Specs
      /\ t.plan[s] \in {"create", "update", "noop"}
    BY DEF Committed, MatchHolds
<1>2. table[ids[s]] = SlotRow(t, ids, s)
    BY CommittedTable
<1>3. CASE t.plan[s] = "create"
    <2>1. PICK parent : parent = IF s = "top" THEN Root ELSE ids["top"]
        OBVIOUS
    <2>2. parent \in 0 .. MaxId /\ (s = "button" => parent # Root)
        <3>1. "top" \in Asked(t.spec)
            BY <1>1, AskedRow
        <3>2. ids["top"] \in 1 .. MaxId
            BY <3>1, CommittedIds
        <3> QED
            BY <2>1, <3>2, MenuAssumption DEF Root
    <2>3. table[ids[s]] = [type |-> TypeOf(s), parent |-> parent, key |-> t.spec[s].key,
                           name |-> IF s = "button" THEN Unset ELSE t.spec[s].name,
                           look |-> t.spec[s].look]
        BY <1>2, <1>3, <2>1 DEF SlotRow, Created
    <2> QED
        BY <1>1, <1>3, <2>1, <2>2, <2>3, AskedRow DEF MenuRows
<1>4. CASE t.plan[s] = "update"
    <2>1. t.match[s] \in DOMAIN menus /\ ids[s] = t.match[s]
        <3>1. t.match[s] \in DOMAIN menus
            BY <1>1, <1>4 DEF Committed
        <3>2. \A q \in Asked(t.spec) : t.plan[q] = "update" => ids[q] = t.match[q]
            BY CommittedIds
        <3> QED
            BY <1>1, <1>4, <3>1, <3>2
    <2>2. /\ menus[ids[s]] \in MenuRows /\ menus[ids[s]].type = TypeOf(s)
          /\ menus[ids[s]].type = "button" => menus[ids[s]].parent # Root
        BY <1>1, <2>1 DEF Committed, RowsTyped, MatchHolds
    <2>3. table[ids[s]] = Written(menus[ids[s]], s, t.spec)
        BY <1>2, <1>4 DEF SlotRow
    <2>4. CASE s = "button"
        BY <1>1, <1>4, <2>1, <2>2, <2>3, <2>4, AskedRow DEF Written, MenuRows
    <2>5. CASE s # "button"
        BY <1>1, <1>4, <2>1, <2>2, <2>3, <2>5, AskedRow DEF Written, MenuRows
    <2> QED
        BY <2>4, <2>5
<1> QED
    BY <1>1, <1>3, <1>4

LEMMA CommitTyped ==
    ASSUME NEW t, NEW ids, NEW slots, NEW table, NEW n, Committed(t, ids, slots, table, n)
    PROVE  RowsTyped(table, n) /\ Overtaken("apply", menus, nextId, table, n)
<1>1. /\ nextId \in Nat /\ n \in Nat /\ nextId <= n /\ RowsTyped(menus, nextId)
      /\ \A s \in slots : s \in Asked(t.spec)
    <2>1. nextId \in Nat /\ n \in 1 .. MaxId + 1 /\ nextId <= n /\ slots \subseteq Asked(t.spec)
        BY CommittedIds
    <2>2. RowsTyped(menus, nextId)
        BY DEF Committed
    <2> QED
        BY <2>1, <2>2, MenuAssumption
<1>2. \A s \in Asked(t.spec) : ids[s] \in 1 .. n - 1 /\ (t.plan[s] = "create" => ids[s] \in nextId .. n - 1)
    BY CommittedIds
<1>3. /\ DOMAIN menus \subseteq DOMAIN table
      /\ \A i \in DOMAIN table : i \in DOMAIN menus \/ \E s \in slots : i = ids[s]
      /\ \A i \in DOMAIN menus : (\A s \in slots : ids[s] # i) => table[i] = menus[i]
    BY CommittedTable
<1>4. ASSUME NEW s \in slots
      PROVE  /\ table[ids[s]] \in MenuRows
             /\ table[ids[s]].type = "button" => table[ids[s]].parent # Root
             /\ t.plan[s] # "create" => ids[s] \in DOMAIN menus /\ table[ids[s]].type = menus[ids[s]].type
    BY CommittedRow DEF TypeOf
<1>5. ASSUME NEW i \in DOMAIN table
      PROVE  /\ i \in 1 .. n - 1 /\ table[i] \in MenuRows
             /\ table[i].type = "button" => table[i].parent # Root
             /\ IF i \in DOMAIN menus THEN table[i].type = menus[i].type ELSE i \in nextId .. n - 1
    <2>1. CASE \E s \in slots : i = ids[s]
        <3>1. PICK s \in slots : i = ids[s]
            BY <2>1
        <3>2. CASE t.plan[s] = "create"
            <4>1. i \in nextId .. n - 1 /\ i \notin DOMAIN menus
                BY <1>1, <1>2, <3>1, <3>2 DEF RowsTyped
            <4> QED
                BY <1>1, <1>2, <1>4, <3>1, <4>1
        <3>3. CASE t.plan[s] # "create"
            BY <1>1, <1>2, <1>4, <3>1, <3>3
        <3> QED
            BY <3>2, <3>3
    <2>2. CASE ~ \E s \in slots : i = ids[s]
        <3>1. i \in DOMAIN menus /\ table[i] = menus[i]
            BY <1>3, <2>2
        <3>2. i \in 1 .. n - 1
            BY <1>1, <3>1 DEF RowsTyped
        <3> QED
            BY <1>1, <3>1, <3>2 DEF RowsTyped
    <2> QED
        BY <2>1, <2>2
<1>6. RowsTyped(table, n)
    BY <1>5 DEF RowsTyped
<1>7. "apply" \in Naming /\ "apply" \in Placing
    BY DEF Naming, Placing
<1> QED
    BY <1>1, <1>3, <1>5, <1>6, <1>7 DEF Overtaken

LEMMA CommitDistinct ==
    ASSUME NEW t, NEW ids, NEW slots, NEW table, NEW n, Committed(t, ids, slots, table, n),
           Distinct(menus),
           \A s \in Asked(t.spec) \ {"button"} : ~ Named(menus, t.spec[s].name, t.match[s])
    PROVE  Distinct(table)
<1>1. /\ \A i \in DOMAIN table : i \in DOMAIN menus \/ \E s \in slots : i = ids[s]
      /\ \A i \in DOMAIN menus : (\A s \in slots : ids[s] # i) => table[i] = menus[i]
    BY CommittedTable
<1>2. /\ slots \subseteq Asked(t.spec) /\ \A s \in slots : s \in Slots
      /\ t.spec \in Specs /\ ValidSpec(t.spec)
    BY CommittedIds DEF Committed, Asked
<1>3. ASSUME NEW s \in slots, table[ids[s]].type = "menu"
      PROVE  s # "button" /\ table[ids[s]].name = t.spec[s].name
    BY <1>3, CommittedRow DEF TypeOf
<1>4. ASSUME NEW s \in slots, NEW q \in slots, s # "button", q # "button", t.spec[s].name = t.spec[q].name
      PROVE  s = q
    <2>1. s \in Slots /\ q \in Slots /\ t.spec[s] # Unset /\ t.spec[q] # Unset
        BY <1>2 DEF Asked
    <2> QED
        BY <1>2, <1>4, <2>1 DEF Slots, ValidSpec
<1>5. ASSUME NEW s \in slots, table[ids[s]].type = "menu",
             NEW j \in DOMAIN menus, menus[j].type = "menu", menus[j].name = table[ids[s]].name
      PROVE  j = ids[s]
    <2>1. s \in Asked(t.spec) \ {"button"} /\ menus[j].name = t.spec[s].name
        BY <1>2, <1>3, <1>5
    <2>2. ~ Named(menus, t.spec[s].name, t.match[s])
        BY <2>1
    <2>3. j = t.match[s]
        BY <1>5, <2>1, <2>2 DEF Named
    <2>4. j \in 1 .. MaxId
        BY <1>5, MenuAssumption DEF Committed, RowsTyped
    <2>5. t.match[s] # 0
        BY <2>3, <2>4, MenuAssumption
    <2>6. \A q \in Asked(t.spec) : t.match[q] # 0 => ids[q] = t.match[q]
        BY CommittedIds
    <2> QED
        BY <2>1, <2>3, <2>5, <2>6
<1>6. SUFFICES ASSUME NEW i \in DOMAIN table, NEW j \in DOMAIN table,
                      table[i].type = "menu", table[j].type = "menu", table[i].name = table[j].name
               PROVE  i = j
    BY DEF Distinct
<1>7. CASE \E s \in slots : i = ids[s]
    <2>1. PICK s \in slots : i = ids[s]
        BY <1>7
    <2>2. CASE \E q \in slots : j = ids[q]
        <3>1. PICK q \in slots : j = ids[q]
            BY <2>2
        <3>2. s = q
            BY <1>3, <1>4, <1>6, <2>1, <3>1
        <3> QED
            BY <2>1, <3>1, <3>2
    <2>3. CASE ~ \E q \in slots : j = ids[q]
        <3>1. j \in DOMAIN menus /\ table[j] = menus[j]
            BY <1>1, <2>3
        <3> QED
            BY <1>5, <1>6, <2>1, <3>1
    <2> QED
        BY <2>2, <2>3
<1>8. CASE ~ \E s \in slots : i = ids[s]
    <2>1. i \in DOMAIN menus /\ table[i] = menus[i]
        BY <1>1, <1>8
    <2>2. CASE \E q \in slots : j = ids[q]
        BY <1>5, <1>6, <2>1, <2>2
    <2>3. CASE ~ \E q \in slots : j = ids[q]
        <3>1. j \in DOMAIN menus /\ table[j] = menus[j]
            BY <1>1, <2>3
        <3> QED
            BY <1>6, <2>1, <3>1 DEF Distinct
    <2> QED
        BY <2>2, <2>3
<1> QED
    BY <1>7, <1>8

LEMMA CommitRooted ==
    ASSUME NEW t, NEW ids, NEW slots, NEW table, NEW n, Committed(t, ids, slots, table, n),
           Rooted(menus), \A s \in Asked(t.spec) : t.match[s] \in DOMAIN menus \cup {0}
    PROVE  Rooted(table)
<1>1. /\ DOMAIN menus \subseteq DOMAIN table
      /\ \A i \in DOMAIN table : i \in DOMAIN menus \/ \E s \in slots : i = ids[s]
      /\ \A s \in slots : ids[s] \in DOMAIN table
      /\ \A i \in DOMAIN menus : (\A s \in slots : ids[s] # i) => table[i] = menus[i]
    BY CommittedTable
<1>2. ids["top"] \in DOMAIN table
    <2>1. "top" \in Asked(t.spec)
        <3>1. t.spec \in Specs /\ slots \subseteq Asked(t.spec)
            BY CommittedIds DEF Committed
        <3>2. t.spec["top"] # Unset
            BY <3>1, MenuAssumption DEF Specs, SubMenus
        <3> QED
            BY <3>2 DEF Asked, Slots
    <2>2. CASE t.plan["top"] = "create"
        <3>1. "top" \in slots
            BY <2>1, <2>2 DEF Committed
        <3> QED
            BY <1>1, <3>1
    <2>3. CASE t.plan["top"] # "create"
        <3>1. ids["top"] = t.match["top"] /\ t.match["top"] # 0
            BY <2>1, <2>3, CommittedIds
        <3> QED
            BY <1>1, <2>1, <3>1
    <2> QED
        BY <2>2, <2>3
<1>3. ASSUME NEW s \in slots
      PROVE  \/ table[ids[s]].parent \in {Root, ids["top"]}
             \/ ids[s] \in DOMAIN menus /\ table[ids[s]].parent = menus[ids[s]].parent
    BY CommittedRow
<1> SUFFICES ASSUME NEW i \in DOMAIN table PROVE table[i].parent \in DOMAIN table \cup {Root}
    BY DEF Rooted
<1>4. CASE \E s \in slots : i = ids[s]
    BY <1>1, <1>2, <1>3, <1>4 DEF Rooted
<1>5. CASE ~ \E s \in slots : i = ids[s]
    BY <1>1, <1>5 DEF Rooted
<1> QED
    BY <1>4, <1>5

\* A row is what a slot asks for, below the row of the menu at the top.
AsAsked(row, spec, s, top) ==
    /\ row.parent = (IF s = "top" THEN Root ELSE top)
    /\ row.type = TypeOf(s) /\ row.key = spec[s].key /\ ~ Changed(row, s, spec)

AllAsAsked(table, spec, ids) ==
    \A s \in Asked(spec) : ids[s] \in DOMAIN table /\ AsAsked(table[ids[s]], spec, s, ids["top"])

NoSiblings(table) == ~ \E i, j \in DOMAIN table :
    i # j /\ table[i].parent = table[j].parent /\ table[i].type = table[j].type
          /\ table[i].key = table[j].key

\* A configuration whose slots are all as asked is matched to them, and asks
\* for nothing.
LEMMA AskedAgain ==
    ASSUME NEW table, DOMAIN table \subseteq 1 .. MaxId, NEW spec \in Specs, NEW ids,
           AllAsAsked(table, spec, ids), NoSiblings(table), NEW m \in Matches(table, spec)
    PROVE  /\ \A s \in Asked(spec) : m[s] = ids[s] /\ m[s] # 0 /\ Action(table, spec, m, s) = "noop"
           /\ m.top # 0
<1>1. Matched(table, spec, m) /\ m.top = m["top"]
    BY MatchesMean
<1>2. "top" \in Asked(spec) /\ \A s \in Asked(spec) : s \in Slots /\ spec[s] # Unset
    BY MenuAssumption DEF Asked, Specs, SubMenus, Slots
<1>3. ASSUME NEW s \in Asked(spec), NEW parent, parent = IF s = "top" THEN Root ELSE ids["top"],
             MatchedTo(table, spec, s, parent, m[s])
      PROVE  m[s] = ids[s] /\ m[s] # 0
    <2>1. ids[s] \in DOMAIN table /\ AsAsked(table[ids[s]], spec, s, ids["top"])
        BY DEF AllAsAsked
    <2>2. ids[s] \in Found(table, parent, TypeOf(s), spec[s].key)
        BY <1>3, <2>1 DEF Found, AsAsked
    <2>3. m[s] \in Found(table, parent, TypeOf(s), spec[s].key)
        BY <1>2, <1>3, <2>2 DEF MatchedTo
    <2>4. m[s] = ids[s]
        BY <2>2, <2>3 DEF Found, NoSiblings
    <2>5. m[s] \in 1 .. MaxId
        BY <2>1, <2>4
    <2> QED
        BY <2>4, <2>5, MenuAssumption
<1>4. m["top"] = ids["top"] /\ m["top"] # 0
    BY <1>1, <1>2, <1>3 DEF Matched
<1>5. ASSUME NEW s \in Asked(spec) PROVE m[s] = ids[s] /\ m[s] # 0
    <2>1. CASE s = "top"
        BY <1>4, <2>1
    <2>2. CASE s # "top"
        <3>1. s \in {"sub", "button"}
            BY <1>2, <2>2 DEF Slots
        <3>2. MatchedTo(table, spec, s, ids["top"], m[s])
            BY <1>1, <1>4, <3>1 DEF Matched
        <3> QED
            BY <1>3, <2>2, <3>2
    <2> QED
        BY <2>1, <2>2
<1>6. ASSUME NEW s \in Asked(spec) PROVE Action(table, spec, m, s) = "noop"
    BY <1>5 DEF Action, AllAsAsked, AsAsked
<1> QED
    BY <1>1, <1>4, <1>5, <1>6

\* A commit that nobody overtook brings its slots to what they ask for.
LEMMA CommitAsAsked ==
    ASSUME NEW t, NEW ids, NEW slots, NEW table, NEW n, Committed(t, ids, slots, table, n),
           t.match \in Matches(menus, t.spec), t.plan = Plan(menus, t.spec, t.match)
    PROVE  AllAsAsked(table, t.spec, ids)
<1>1. /\ t.spec \in Specs /\ nextId \in 1 .. MaxId + 1 /\ RowsTyped(menus, nextId)
      /\ slots = {s \in Asked(t.spec) : t.plan[s] # "noop"}
    BY DEF Committed
<1>2. Matched(menus, t.spec, t.match)
    <2>1. DOMAIN menus \subseteq 1 .. MaxId
        BY <1>1, MenuAssumption DEF RowsTyped
    <2> QED
        BY <1>1, <2>1, MatchesMean
<1>3. \A s \in Asked(t.spec) : s \in Slots /\ "top" \in Asked(t.spec)
    BY <1>1, AskedRow
<1>4. \A s \in Asked(t.spec) :
        IF t.plan[s] = "create" THEN t.match[s] = 0 ELSE ids[s] = t.match[s] /\ t.match[s] # 0
    BY CommittedIds
<1>5. ASSUME NEW s \in Asked(t.spec), t.plan[s] # "create"
      PROVE  /\ ids[s] \in DOMAIN menus /\ menus[ids[s]].type = TypeOf(s)
             /\ menus[ids[s]].key = t.spec[s].key
             /\ menus[ids[s]].parent = (IF s = "top" THEN Root ELSE ids["top"])
    <2>1. ids[s] = t.match[s] /\ t.match[s] # 0
        BY <1>4, <1>5
    <2>2. /\ t.match[s] \in DOMAIN menus /\ menus[t.match[s]].type = TypeOf(s)
          /\ menus[t.match[s]].key = t.spec[s].key
          /\ menus[t.match[s]].parent = (IF s = "top" THEN Root ELSE t.match["top"])
          /\ s # "top" => t.match["top"] # 0
        BY <1>1, <1>2, <2>1, MatchedRows
    <2>3. s # "top" => ids["top"] = t.match["top"]
        BY <1>3, <1>4, <2>2
    <2> QED
        BY <2>1, <2>2, <2>3
<1>6. ASSUME NEW s \in slots
      PROVE  ids[s] \in DOMAIN table /\ AsAsked(table[ids[s]], t.spec, s, ids["top"])
    <2>1. /\ table[ids[s]].type = TypeOf(s) /\ table[ids[s]].look = t.spec[s].look
          /\ s # "button" => table[ids[s]].name = t.spec[s].name
          /\ IF t.plan[s] = "create"
               THEN /\ table[ids[s]].parent = (IF s = "top" THEN Root ELSE ids["top"])
                    /\ table[ids[s]].key = t.spec[s].key
               ELSE /\ table[ids[s]].parent = menus[ids[s]].parent
                    /\ table[ids[s]].key = menus[ids[s]].key
        BY CommittedRow
    <2>2. s \in Asked(t.spec)
        BY <1>1
    <2>3. /\ table[ids[s]].parent = (IF s = "top" THEN Root ELSE ids["top"])
          /\ table[ids[s]].key = t.spec[s].key
        BY <1>5, <2>1, <2>2
    <2>4. ids[s] \in DOMAIN table
        BY CommittedTable
    <2> QED
        BY <2>1, <2>3, <2>4 DEF AsAsked, Changed
<1>7. ASSUME NEW s \in Asked(t.spec), t.plan[s] = "noop"
      PROVE  ids[s] \in DOMAIN table /\ AsAsked(table[ids[s]], t.spec, s, ids["top"])
    <2>1. ids[s] \in DOMAIN menus
        BY <1>5, <1>7
    <2>2. \A q \in slots : ids[q] # ids[s]
        <3>1. \A p, q \in Asked(t.spec) : ids[p] = ids[q] => p = q
            BY CommittedIds
        <3> QED
            BY <1>1, <1>7, <3>1
    <2>3. ids[s] \in DOMAIN table /\ table[ids[s]] = menus[ids[s]]
        BY <2>1, <2>2, CommittedTable
    <2>4. ~ Changed(menus[ids[s]], s, t.spec)
        <3>1. t.plan[s] = Action(menus, t.spec, t.match, s)
            BY DEF Plan
        <3>2. ids[s] = t.match[s] /\ t.match[s] # 0
            BY <1>4, <1>7
        <3> QED
            BY <1>7, <3>1, <3>2 DEF Action
    <2> QED
        BY <1>5, <1>7, <2>3, <2>4 DEF AsAsked
<1> QED
    BY <1>1, <1>6, <1>7 DEF AllAsAsked

\* The names and marks that were free at the plan are so after it.
LEMMA CommitAvailable ==
    ASSUME NEW t, NEW ids, NEW slots, NEW table, NEW n, Committed(t, ids, slots, table, n),
           Appliable(menus, t.spec, t.match), NEW s \in Asked(t.spec)
    PROVE  Available(table, s, t.spec, ids[s])
<1>1. /\ t.spec \in Specs /\ ValidSpec(t.spec) /\ RowsTyped(menus, nextId)
      /\ slots \subseteq Asked(t.spec)
    BY CommittedIds DEF Committed
<1>2. Available(menus, s, t.spec, t.match[s])
    BY DEF Appliable
<1>3. SUFFICES ASSUME NEW i \in DOMAIN table \ {ids[s]}
               PROVE  /\ s # "button" /\ table[i].type = "menu" => table[i].name # t.spec[s].name
                      /\ s = "button" /\ table[i].type = "button" => table[i].key # t.spec[s].key
    BY DEF Available
<1>4. CASE \E q \in slots : i = ids[q]
    <2>1. PICK q \in slots : i = ids[q]
        BY <1>4
    <2>2. table[i].type = TypeOf(q) /\ (q # "button" => table[i].name = t.spec[q].name)
        BY <2>1, CommittedRow
    <2>3. /\ q # s /\ s \in Slots /\ q \in Slots /\ t.spec[s] # Unset /\ t.spec[q] # Unset
        BY <1>1, <1>3, <2>1 DEF Asked
    <2>4. s # "button" /\ q # "button" => t.spec[q].name # t.spec[s].name
        BY <1>1, <2>3 DEF Slots, ValidSpec
    <2> QED
        BY <2>2, <2>3, <2>4 DEF TypeOf
<1>5. CASE ~ \E q \in slots : i = ids[q]
    <2>1. i \in DOMAIN menus /\ table[i] = menus[i]
        BY <1>5, CommittedTable
    <2>2. i # t.match[s]
        <3>1. i \in 1 .. nextId - 1 /\ nextId \in Nat
            BY <1>1, <2>1, CommittedIds DEF RowsTyped
        <3>2. t.match[s] # 0 => ids[s] = t.match[s]
            <4>1. \A q \in Asked(t.spec) : t.match[q] # 0 => ids[q] = t.match[q]
                BY CommittedIds
            <4> QED
                BY <4>1
        <3> QED
            BY <1>3, <3>1, <3>2
    <2> QED
        BY <1>2, <2>1, <2>2 DEF Available
<1> QED
    BY <1>4, <1>5

LEMMA CommitConverges ==
    ASSUME NEW t, NEW ids, NEW slots, NEW table, NEW n, Committed(t, ids, slots, table, n),
           t.match \in Matches(menus, t.spec), t.plan = Plan(menus, t.spec, t.match),
           Appliable(menus, t.spec, t.match), NoSiblings(table), NEW m \in Matches(table, t.spec)
    PROVE  /\ Plannable(table, t.spec, m)
           /\ \A s \in Asked(t.spec) : Action(table, t.spec, m, s) = "noop"
<1>1. AllAsAsked(table, t.spec, ids)
    BY CommitAsAsked
<1>2. t.spec \in Specs /\ DOMAIN table \subseteq 1 .. MaxId
    <2>1. n \in 1 .. MaxId + 1 /\ RowsTyped(table, n)
        BY CommittedIds, CommitTyped
    <2>2. t.spec \in Specs
        BY DEF Committed
    <2> QED
        BY <2>1, <2>2, MenuAssumption DEF RowsTyped
<1>3. \A s \in Asked(t.spec) : m[s] = ids[s] /\ m[s] # 0 /\ Action(table, t.spec, m, s) = "noop"
    BY <1>1, <1>2, AskedAgain
<1>4. \A s \in Asked(t.spec) : Available(table, s, t.spec, ids[s])
    BY CommitAvailable
<1> QED
    BY <1>3, <1>4 DEF Plannable

LEMMA CommitKeeps ==
    ASSUME MenuInv, NEW r \in MenuRequests, CommitApply(r), ~ MEnd(r)
    PROVE  MenuInv'
<1>1. PICK t, ids, slots, table, n :
        /\ t = mtask[r] /\ ids = IdsOf(t.spec, t.match) /\ table = Applied(t)
        /\ slots = {s \in Asked(t.spec) : t.plan[s] # "noop"}
        /\ n = nextId + Cardinality({s \in Asked(t.spec) : t.plan[s] = "create"})
    OBVIOUS
<1>2. /\ mpc[r] = "commit" /\ n <= MaxId + 1
      /\ {t.match[s] : s \in {q \in Asked(t.spec) : t.plan[q] = "update"}} \subseteq DOMAIN menus
      /\ MWrite(r, table) /\ nextId' = n
      /\ synced' = IF t.late = {} THEN t.spec ELSE Unset
    BY <1>1 DEF CommitApply
<1>3. /\ t.op = "apply" /\ t.spec \in Specs /\ ValidSpec(t.spec) /\ MatchHolds(menus, nextId, t)
      /\ NamesKnown(menus, "commit", t) /\ ParentsKnown(menus, "commit", t)
      /\ PlanKnown(menus, "commit", t)
    BY <1>1, <1>2, RowsHere
    DEF MenuHolds, MenuTyped, MenuSteps, MenuTasks, MenuOperations, MenuRuns, ChangeHolds
<1>4. Committed(t, ids, slots, table, n)
    <2>1. nextId \in 1 .. MaxId + 1 /\ RowsTyped(menus, nextId)
        BY DEF MenuInv, MenuTypes
    <2>2. \A s \in Asked(t.spec) : t.plan[s] = "update" => t.match[s] \in DOMAIN menus
        BY <1>2
    <2> QED
        BY <1>1, <1>2, <1>3, <2>1, <2>2 DEF Committed
<1>5. n \in 1 .. MaxId + 1
    BY <1>4, CommittedIds
<1>6. RowsTyped(table, n) /\ Overtaken("apply", menus, nextId, table, n)
    BY <1>4, CommitTyped
<1>7. ASSUME Distinct(menus), t.op \in Naming => t.late \cap Naming = {} PROVE Distinct(table)
    <2>1. \A s \in Asked(t.spec) \ {"button"} : ~ Named(menus, t.spec[s].name, t.match[s])
        BY <1>3, <1>7 DEF NamesKnown, Naming
    <2> QED
        BY <1>4, <1>7, <2>1, CommitDistinct
<1>8. ASSUME Rooted(menus), t.op \in Placing => "delete_menu" \notin t.late PROVE Rooted(table)
    <2>1. \A s \in Asked(t.spec) : t.match[s] \in DOMAIN menus \cup {0}
        BY <1>3, <1>8 DEF ParentsKnown, Placing
    <2> QED
        BY <1>4, <1>8, <2>1, CommitRooted
<1>9. synced' # Unset => synced' \in Specs
    BY <1>2, <1>3
<1>10. SyncConverges'
    <2>0. menus' = table
        BY <1>2 DEF MWrite
    <2>1. CASE t.late = {}
        <3>1. /\ t.match \in Matches(menus, t.spec) /\ Appliable(menus, t.spec, t.match)
              /\ t.plan = Plan(menus, t.spec, t.match)
            BY <1>3, <2>1 DEF PlanKnown
        <3>2. synced' = t.spec
            BY <1>2, <2>1
        <3>3. ASSUME NoSiblings(table), NEW m \in Matches(table, t.spec)
              PROVE  /\ Plannable(table, t.spec, m)
                     /\ \A s \in Asked(t.spec) : Action(table, t.spec, m, s) = "noop"
            BY <1>4, <3>1, <3>3, CommitConverges
        <3> QED
            BY <2>0, <3>2, <3>3 DEF SyncConverges, Siblings, NoSiblings
    <2>2. CASE t.late # {}
        BY <1>2, <2>2, NothingSynced
    <2> QED
        BY <2>1, <2>2
<1> QED
    BY <1>1, <1>2, <1>3, <1>5, <1>6, <1>7, <1>8, <1>9, <1>10, WriteInv DEF MenuRuns

-----------------------------------------------------------------------------
(* MenuTree: the invariant and the theorem.                                *)

LEMMA InitMenuInv == MenuInit => MenuInv
<1> SUFFICES ASSUME MenuInit PROVE MenuInv
    OBVIOUS
<1>1. /\ DOMAIN menus = {} /\ nextId = 1 /\ synced = Unset
      /\ mpc = [r \in MenuRequests |-> "idle"] /\ mtask = [r \in MenuRequests |-> NoMenuTask]
    BY DEF MenuInit
<1>2. MenuTypes
    BY <1>1, NoMenuTaskTyped, MenuAssumption DEF MenuTypes, RowsTyped
<1>3. NamesUnique /\ ParentsExist /\ SyncConverges
    BY <1>1 DEF NamesUnique, ParentsExist, SyncConverges
<1>4. MenuHolds(menus, nextId, "idle", NoMenuTask)
    BY NoMenuTaskTyped DEF MenuHolds, MenuTyped, NamesKnown, ParentsKnown, PlanKnown, MenuRuns
<1> QED
    BY <1>1, <1>2, <1>3, <1>4 DEF MenuInv

LEMMA NextMenuInv == MenuInv /\ [MenuNext]_menuVars => MenuInv'
<1> SUFFICES ASSUME MenuInv, [MenuNext]_menuVars PROVE MenuInv'
    OBVIOUS
<1>1. CASE UNCHANGED menuVars
    BY <1>1 DEF MenuInv, menuVars, MenuTypes, NamesUnique, IsMenu, ParentsExist, SyncConverges, Siblings
<1>2. CASE MenuNext
    <2>1. PICK r \in MenuRequests :
            \/ BeginCreateMenu(r) \/ BeginCreateButton(r) \/ BeginUpdateMenu(r)
            \/ BeginDeleteMenu(r) \/ BeginApply(r)
            \/ CheckName(r) \/ CheckParent(r) \/ Insert(r) \/ Update(r)
            \/ CountChildren(r) \/ DeleteMenu(r) \/ Snapshot(r) \/ CommitApply(r)
        BY <1>2 DEF MenuNext
    <2>2. CASE MEnd(r)
        BY <2>2, MenuEndKeeps
    <2>3. CASE ~ MEnd(r)
        BY <2>1, <2>3, BeginMenuKeeps, BeginUpdateMenuKeeps, ChecksKeep, InsertKeeps, UpdateKeeps,
           DeleteKeeps, SnapshotKeeps, CommitKeeps
    <2> QED
        BY <2>2, <2>3
<1> QED
    BY <1>1, <1>2

\* The table of menus is consistent: rows have their types, a button is below
\* a menu, ids are not given twice, every row hangs on a menu that exists and
\* no two menus have the same name, for any requests in any order, unless a
\* write overtook another that relied on what it changes; and a configuration
\* that was applied undisturbed, planned again, asks for nothing.
THEOREM SpecTreeConsistent == MenuSpec => []TreeConsistent
<1>1. MenuInv => TreeConsistent
    BY DEF MenuInv, MenuTypes, RowsTyped, TreeConsistent, MenuTypeOK
<1> QED
    BY <1>1, InitMenuInv, NextMenuInv, PTL DEF MenuSpec

-----------------------------------------------------------------------------
(* CrudPage: what the form, a save and an answer hold.                     *)

Modes   == {"add", "edit"}
Cells   == {Null, Empty, Off, Preset, Absent, Missing}
               \cup {First(r) : r \in Rows} \cup {Typed(r) : r \in Rows} \cup {Other(r) : r \in Rows}
Panels  == [open : BOOLEAN, mode : Modes, row : Rows]
Savings == [stage : {"sent", "ok", "refused"}, mode : Modes, row : Rows, value : Cells,
            touched : BOOLEAN, basis : Cells, crossed : BOOLEAN]
Answered == [stage : {"none", "done", "failed"}]
Requested == [stage : {"sent"}, row : Rows]
Read     == [stage : {"read"}, row : Rows, value : Cells]

PageTypes ==
    /\ column \in Columns
    /\ db \in [Rows -> Cells] /\ listed \in [Rows -> Cells]
    /\ panel \in Panels /\ form \in Cells
    /\ loading \in BOOLEAN /\ touched \in BOOLEAN /\ crossed \in BOOLEAN
    /\ details \in [1 .. MaxOpenings -> Answered \cup Requested \cup Read]
    /\ saving \in {NoSave} \cup Savings
    /\ openings \in 0 .. MaxOpenings /\ others \in Nat
    /\ basis \in Cells /\ tainted \subseteq Rows

\* A value that is not about another row than r.
AtHome(value, r) ==
    \A other \in Rows \ {r, NewRow} : value \notin {First(other), Typed(other), Other(other)}

\* Whose data is where, but for the rows that are excepted.
DataAtHome ==
    /\ \A r \in Rows \ tainted : AtHome(db[r], r) /\ AtHome(listed[r], r)
    /\ panel.row \notin tainted /\ ~ crossed => AtHome(form, panel.row)
    /\ saving # NoSave /\ saving.row \notin tainted /\ ~ saving.crossed
          => AtHome(saving.value, saving.row)
    /\ \A k \in 1 .. MaxOpenings :
          details[k].stage = "read" /\ details[k].row \notin tainted
              => AtHome(details[k].value, details[k].row)

\* What a form holds in which nobody has typed, and what a save has of it.
Untyped(value, known) == known \in {Null, Missing} \/ value = known

FormKnows ==
    /\ panel.mode = "add" => panel.row = NewRow
    /\ panel.open /\ panel.mode = "edit" /\ ~ touched /\ ~ crossed => Untyped(form, basis)
    /\ \A k \in 1 .. MaxOpenings :
          details[k].stage = "read" /\ ~ contract.detail => details[k].value = Missing

SaveKnows ==
    saving # NoSave =>
        /\ saving.mode = "add" => saving.row = NewRow
        /\ saving.mode = "edit" /\ ~ saving.touched /\ ~ saving.crossed
              => saving.value = Missing \/ Untyped(saving.value, saving.basis)
        /\ ~ ShownIn(saving.mode) => saving.value = Missing
        /\ field.required /\ ShownIn(saving.mode) => saving.value \notin {Empty, Missing}

PageInv == PageTypes /\ DataAtHome /\ FormKnows /\ SaveKnows /\ PageFitsApi

LEMMA AtHomeOf ==
    ASSUME NEW r \in Rows
    PROVE  /\ AtHome(First(r), r) /\ AtHome(Typed(r), r) /\ AtHome(Other(r), r)
           /\ AtHome(Null, r) /\ AtHome(Empty, r) /\ AtHome(Off, r)
           /\ AtHome(Preset, r) /\ AtHome(Absent, r) /\ AtHome(Missing, r)
<1>1. /\ AtHome(First(r), r) /\ AtHome(Typed(r), r) /\ AtHome(Other(r), r)
    BY DEF AtHome, First, Typed, Other
<1>2. /\ AtHome(Null, r) /\ AtHome(Empty, r) /\ AtHome(Off, r)
    BY DEF AtHome, First, Typed, Other, Null, Empty, Off
<1>3. /\ AtHome(Preset, r) /\ AtHome(Absent, r) /\ AtHome(Missing, r)
    BY DEF AtHome, First, Typed, Other, Preset, Absent, Missing
<1> QED
    BY <1>1, <1>2, <1>3

LEMMA BlankCells ==
    /\ field.blank \in {Missing, Empty, Preset, Off} /\ Blank \in {Missing, Empty, Preset, Off}
    /\ \A r \in Rows : AtHome(field.blank, r) /\ AtHome(Blank, r)
<1>1. field.blank \in {Missing, Empty, Preset, Off} /\ Blank \in {Missing, Empty, Preset, Off}
    BY DEF field, PageField, DefaultFormValue, Blank
<1> QED
    BY <1>1, AtHomeOf

\* What the generator made of the column stays as it is.
LEMMA ColumnStays ==
    ASSUME [PageNext]_pageVars
    PROVE  column' = column /\ contract' = contract /\ field' = field
           /\ \A m : ShownIn(m)' = ShownIn(m)
<1>1. column' = column
    BY DEF PageNext, pageVars, OpenAdd, OpenEdit, OpenPanel, ReadDetail, DetailAnswered, Type, Close,
           Submit, Serve, SaveAnswered, Refresh, SomeoneElse
<1> QED
    BY <1>1 DEF contract, field, ShownIn

LEMMA SearchIsHeeded == SearchHeeded
BY DEF SearchHeeded, OnSearchBar, SearchParams, SearchWidget, InferredWidget, QueryParams, RangeOnly

LEMMA PageInitInv == ASSUME PageInit PROVE PageInv
<1>1. PageTypes
    <2>1. \A r \in Rows : db[r] \in Cells
        BY DEF PageInit, Cells
    <2>2. column \in Columns /\ db \in [Rows -> Cells] /\ listed \in [Rows -> Cells]
        BY <2>1 DEF PageInit
    <2>3. panel \in Panels
        BY DEF PageInit, Panels, Modes, Rows
    <2>4. form \in Cells
        BY BlankCells DEF PageInit, Cells
    <2>5. details \in [1 .. MaxOpenings -> Answered]
        BY DEF PageInit, Answered
    <2>6. openings \in 0 .. MaxOpenings
        BY PageAssumption DEF PageInit
    <2> QED
        BY <2>2, <2>3, <2>4, <2>5, <2>6 DEF PageTypes, PageInit, Cells
<1>2. DataAtHome
    <2>1. ASSUME NEW r \in Rows PROVE AtHome(db[r], r)
        BY AtHomeOf DEF PageInit, Rows
    <2> QED
        BY <2>1, BlankCells DEF PageInit, DataAtHome, Rows
<1>3. FormKnows /\ SaveKnows /\ RefusedForCause
    BY DEF PageInit, FormKnows, SaveKnows, RefusedForCause
<1> QED
    BY <1>1, <1>2, <1>3, SearchIsHeeded DEF PageInv, PageFitsApi

-----------------------------------------------------------------------------
(* CrudPage: the form.                                                     *)

\* A new form is about its row.
LEMMA OpenKeeps ==
    ASSUME PageInv, OpenAdd \/ \E r \in Rows : OpenEdit(r)
    PROVE  PageInv'
<1>1. CASE OpenAdd
    <2>1. PageTypes'
        <3>1. openings' \in 0 .. MaxOpenings
            BY <1>1, PageAssumption DEF OpenAdd, OpenPanel, PageInv, PageTypes
        <3>2. panel' \in Panels
            BY <1>1 DEF OpenAdd, OpenPanel, Panels, Modes, Rows
        <3>3. form' \in Cells /\ basis' \in Cells
            BY <1>1, BlankCells DEF OpenAdd, Cells
        <3> QED
            BY <1>1, <3>1, <3>2, <3>3 DEF OpenAdd, OpenPanel, PageInv, PageTypes
    <2>2. DataAtHome'
        BY <1>1, BlankCells DEF OpenAdd, OpenPanel, PageInv, DataAtHome, Rows
    <2>3. FormKnows' /\ SaveKnows' /\ RefusedForCause'
        BY <1>1 DEF OpenAdd, OpenPanel, PageInv, FormKnows, SaveKnows, PageFitsApi, RefusedForCause,
                    contract, field, ShownIn
    <2> QED
        BY <1>1, <2>1, <2>2, <2>3 DEF OpenAdd, PageInv, PageFitsApi, SearchHeeded
<1>2. ASSUME NEW r \in Rows, OpenEdit(r) PROVE PageInv'
    <2> DEFINE value == Known(listed[r], contract.list)
    <2>0. value \in Cells /\ OrElse(value, field.blank) \in Cells
        BY BlankCells DEF Known, OrElse, PageInv, PageTypes, Cells
    <2>1. openings' \in 1 .. MaxOpenings /\ openings' \in 0 .. MaxOpenings
        BY <1>2, PageAssumption DEF OpenEdit, OpenPanel, PageInv, PageTypes
    <2>2. /\ details' \in [1 .. MaxOpenings -> Answered \cup Requested \cup Read]
          /\ \A k \in 1 .. MaxOpenings : details'[k].stage = "read" => details'[k] = details[k]
        BY <1>2, <2>1 DEF OpenEdit, PageInv, PageTypes, Requested
    <2>3. PageTypes'
        <3>1. panel' \in Panels
            BY <1>2 DEF OpenEdit, OpenPanel, Panels, Modes
        <3> QED
            BY <1>2, <2>0, <2>1, <2>2, <3>1 DEF OpenEdit, OpenPanel, PageInv, PageTypes
    <2>4. DataAtHome'
        <3>1. r \notin tainted => AtHome(form', r)
            BY <1>2, BlankCells, AtHomeOf DEF OpenEdit, PageInv, DataAtHome, Known, OrElse
        <3> QED
            BY <1>2, <2>2, <3>1 DEF OpenEdit, OpenPanel, PageInv, DataAtHome
    <2>5. FormKnows'
        <3>1. Untyped(form', basis')
            BY <1>2 DEF OpenEdit, Untyped, OrElse
        <3> QED
            BY <1>2, <2>2, <3>1 DEF OpenEdit, OpenPanel, PageInv, FormKnows, contract
    <2>6. SaveKnows' /\ RefusedForCause'
        BY <1>2 DEF OpenEdit, PageInv, SaveKnows, PageFitsApi, RefusedForCause, contract, field, ShownIn
    <2> QED
        BY <1>2, <2>3, <2>4, <2>5, <2>6 DEF OpenEdit, PageInv, PageFitsApi, SearchHeeded
<1> QED
    BY <1>1, <1>2

LEMMA DetailKeeps ==
    ASSUME PageInv, NEW k \in 1 .. MaxOpenings, ReadDetail(k) \/ DetailAnswered(k)
    PROVE  PageInv'
<1>1. CASE ReadDetail(k)
    <2> DEFINE r == details[k].row
               d == details'[k]
    <2>1. details[k] \in Requested
        BY <1>1 DEF ReadDetail, PageInv, PageTypes, Answered, Requested, Read
    <2>2. r \in Rows /\ Known(db[r], contract.detail) \in Cells
        BY <2>1 DEF Requested, Known, PageInv, PageTypes, Cells
    <2>3. /\ d \in Answered \cup Read
          /\ d.stage = "read" => d.row = r /\ d.value = Known(db[r], contract.detail)
          /\ details' = [details EXCEPT ![k] = d]
        BY <1>1, <2>2 DEF ReadDetail, PageInv, PageTypes, Answered, Read
    <2> HIDE DEF d
    <2>4. PageTypes'
        BY <1>1, <2>3 DEF ReadDetail, PageInv, PageTypes
    <2>5. DataAtHome'
        <3>1. d.stage = "read" /\ d.row \notin tainted => AtHome(d.value, d.row)
            BY <2>2, <2>3, AtHomeOf DEF Known, PageInv, DataAtHome
        <3>2. \A j \in 1 .. MaxOpenings : details'[j] = IF j = k THEN d ELSE details[j]
            BY <2>3 DEF PageInv, PageTypes
        <3> QED
            BY <1>1, <3>1, <3>2 DEF ReadDetail, PageInv, DataAtHome
    <2>6. FormKnows'
        <3>1. \A j \in 1 .. MaxOpenings : details'[j] = IF j = k THEN d ELSE details[j]
            BY <2>3 DEF PageInv, PageTypes
        <3> QED
            BY <1>1, <2>3, <3>1 DEF ReadDetail, PageInv, FormKnows, Known, contract
    <2>7. SaveKnows' /\ RefusedForCause'
        BY <1>1 DEF ReadDetail, PageInv, SaveKnows, PageFitsApi, RefusedForCause, contract, field, ShownIn
    <2> QED
        BY <1>1, <2>4, <2>5, <2>6, <2>7 DEF ReadDetail, PageInv, PageFitsApi, SearchHeeded
<1>2. CASE DetailAnswered(k)
    <2>1. /\ details' \in [1 .. MaxOpenings -> Answered \cup Requested \cup Read]
          /\ \A j \in 1 .. MaxOpenings : details'[j].stage = "read" => details'[j] = details[j]
        BY <1>2 DEF DetailAnswered, PageInv, PageTypes, Answered
    <2>2. SaveKnows' /\ RefusedForCause'
        BY <1>2 DEF DetailAnswered, PageInv, SaveKnows, PageFitsApi, RefusedForCause, contract, field, ShownIn
    <2>3. CASE details[k].stage = "failed"
        BY <1>2, <2>1, <2>2, <2>3 DEF DetailAnswered, PageInv, PageTypes, DataAtHome, FormKnows,
           PageFitsApi, SearchHeeded, contract
    <2>4. CASE details[k].stage = "read"
        <3> DEFINE value == details[k].value
        <3>1. details[k] \in Read
            BY <2>4 DEF PageInv, PageTypes, Answered, Requested, Read
        <3>2. /\ form' = OrElse(value, form)
              /\ basis' = IF Belongs(k) /\ contract.detail THEN value ELSE basis
              /\ crossed' = (crossed \/ ~ Belongs(k))
              /\ UNCHANGED <<column, db, listed, panel, saving, openings, others, touched, tainted>>
            BY <1>2, <2>4 DEF DetailAnswered, FillForm
        <3>3. PageTypes'
            <4>1. form' \in Cells /\ basis' \in Cells
                BY <3>1, <3>2 DEF Read, OrElse, PageInv, PageTypes
            <4>2. crossed' \in BOOLEAN /\ loading' \in BOOLEAN
                BY <1>2, <3>2 DEF DetailAnswered, Belongs, PageInv, PageTypes
            <4> QED
                BY <2>1, <3>2, <4>1, <4>2 DEF PageInv, PageTypes
        <3>4. DataAtHome'
            <4>1. ASSUME panel.row \notin tainted, ~ crossed, Belongs(k)
                  PROVE  AtHome(form', panel.row)
                BY <2>4, <3>2, <4>1 DEF Belongs, OrElse, PageInv, DataAtHome
            <4> QED
                BY <2>1, <3>2, <4>1 DEF PageInv, DataAtHome
        <3>5. FormKnows'
            <4>1. ASSUME Belongs(k), panel.open, panel.mode = "edit", ~ touched, ~ crossed
                  PROVE  Untyped(form', basis')
                BY <2>4, <3>2, <4>1 DEF PageInv, FormKnows, Untyped, OrElse
            <4> QED
                BY <2>1, <3>2, <4>1 DEF PageInv, FormKnows, contract
        <3> QED
            BY <2>2, <3>2, <3>3, <3>4, <3>5 DEF PageInv, PageFitsApi, SearchHeeded
    <2> QED
        BY <1>2, <2>3, <2>4 DEF DetailAnswered
<1> QED
    BY <1>1, <1>2

LEMMA TypeKeeps ==
    ASSUME PageInv, Type \/ Close
    PROVE  PageInv'
<1>1. /\ UNCHANGED <<column, db, listed, loading, details, saving, openings, others, basis,
                     crossed, tainted, refused>>
      /\ form' \in {Typed(panel.row), Blank, field.blank}
      /\ panel' = panel \/ panel' = [panel EXCEPT !.open = FALSE]
      /\ touched' = TRUE \/ (touched' = touched /\ ~ panel'.open)
    BY DEF Type, Close, PageInv, PageTypes, Panels
<1>2. panel' \in Panels /\ panel'.row = panel.row /\ panel'.mode = panel.mode
    BY <1>1 DEF PageInv, PageTypes, Panels
<1>3. PageTypes'
    <2>1. form' \in Cells
        BY <1>1, <1>2, BlankCells DEF Cells, Panels
    <2> QED
        BY <1>1, <1>2, <2>1 DEF PageInv, PageTypes
<1>4. DataAtHome'
    <2>1. AtHome(form', panel.row)
        BY <1>1, AtHomeOf, BlankCells DEF PageInv, PageTypes, Panels
    <2> QED
        BY <1>1, <1>2, <2>1 DEF PageInv, DataAtHome
<1>5. FormKnows'
    BY <1>1, <1>2 DEF PageInv, FormKnows, contract
<1>6. SaveKnows' /\ RefusedForCause'
    BY <1>1 DEF PageInv, SaveKnows, PageFitsApi, RefusedForCause, contract, field, ShownIn
<1> QED
    BY <1>1, <1>3, <1>4, <1>5, <1>6 DEF PageInv, PageFitsApi, SearchHeeded

-----------------------------------------------------------------------------
(* CrudPage: a save.                                                       *)

LEMMA SubmitKeeps ==
    ASSUME PageInv, Submit
    PROVE  PageInv'
<1>1. /\ saving' = [stage |-> "sent", mode |-> panel.mode, row |-> panel.row,
                    value |-> IF ShownIn(panel.mode) THEN form ELSE Missing,
                    touched |-> touched, basis |-> basis, crossed |-> crossed]
      /\ panel.open /\ Validates
      /\ UNCHANGED <<column, db, listed, panel, form, loading, details, openings, others,
                     touched, basis, crossed, tainted, refused>>
    BY DEF Submit
<1>2. panel.mode \in Modes /\ panel.row \in Rows
    BY DEF PageInv, PageTypes, Panels
<1>3. PageTypes'
    <2>1. saving' \in Savings
        BY <1>1, <1>2 DEF PageInv, PageTypes, Savings, Cells
    <2> QED
        BY <1>1, <2>1 DEF PageInv, PageTypes
<1>4. DataAtHome'
    BY <1>1, <1>2, AtHomeOf DEF PageInv, DataAtHome
<1>5. FormKnows'
    BY <1>1 DEF PageInv, FormKnows, contract
<1>6. SaveKnows'
    BY <1>1 DEF PageInv, FormKnows, SaveKnows, Validates, field, ShownIn
<1>7. RefusedForCause'
    BY <1>1 DEF PageInv, PageFitsApi, RefusedForCause, contract, field, ShownIn
<1> QED
    BY <1>1, <1>3, <1>4, <1>5, <1>6, <1>7 DEF PageInv, PageFitsApi, SearchHeeded

\* What a save that is refused lacks.
LEMMA RefusalHasCause ==
    ASSUME PageInv, saving # NoSave,
           ShownIn(saving.mode), contract.create, column.asked.required # "out",
           ~ (column.kind = "decimal" /\ saving.value = Empty),
           ~ (column.kind = "number" /\ PasswordLike(column)),
           NEW known \in BOOLEAN
    PROVE  /\ Acceptable(Known(saving.value, known))
           /\ CreateRequired(column) => saving.value # Missing
<1>1. column.asked.required \in {"default", "in"}
    BY PageAssumption DEF PageInv, PageTypes, Wishes, Answers
<1>2. CreateRequired(column) => field.required
    BY <1>1 DEF field, PageField, FormRequired, Selected, contract
<1>3. CreateRequired(column) => saving.value \notin {Empty, Missing}
    BY <1>2 DEF PageInv, SaveKnows
<1>4. Missing # Empty
    BY DEF Missing, Empty
<1> QED
    BY <1>3, <1>4 DEF Acceptable, Known

LEMMA ServeKeeps ==
    ASSUME PageInv, Serve
    PROVE  PageInv'
<1>1. /\ saving.stage = "sent" /\ (CreateRow \/ UpdateRow)
      /\ UNCHANGED <<column, listed, panel, form, loading, details, openings, others,
                     touched, basis, crossed>>
    BY DEF Serve
<1>2. saving # NoSave /\ saving \in Savings
    BY <1>1 DEF PageInv, PageTypes, NoSave
<1>3. ASSUME NEW known \in BOOLEAN
      PROVE  /\ Known(saving.value, known) \in Cells
             /\ saving.row \notin tainted /\ ~ saving.crossed
                   => AtHome(Known(saving.value, known), saving.row)
    BY <1>2, AtHomeOf DEF Known, Cells, Savings, PageInv, DataAtHome
<1>4. contract.create \in BOOLEAN /\ contract.update \in BOOLEAN
    BY DEF contract, Contract, Selected, Writable
<1>5. ASSUME NEW stage \in {"ok", "refused"}, saving' = [saving EXCEPT !.stage = stage]
      PROVE  /\ saving' \in Savings /\ SaveKnows'
             /\ saving'.row = saving.row /\ saving'.value = saving.value
             /\ saving'.crossed = saving.crossed
    BY <1>1, <1>2, <1>5 DEF Savings, PageInv, SaveKnows, field, ShownIn
<1>6. FormKnows'
    BY <1>1 DEF PageInv, FormKnows, contract
<1>7. SearchHeeded'
    BY <1>1 DEF PageInv, PageFitsApi, SearchHeeded
<1>8. ASSUME NEW stored \in Cells,
             saving.row \notin tainted /\ ~ saving.crossed => AtHome(stored, saving.row),
             Saved(saving.row, stored)
      PROVE  PageInv'
    <2>1. /\ db' = [db EXCEPT ![saving.row] = stored] /\ saving.row \in Rows
          /\ saving' = [saving EXCEPT !.stage = "ok"] /\ refused' = refused
          /\ tainted' = IF saving.crossed THEN tainted \cup {saving.row} ELSE tainted
        BY <1>2, <1>8 DEF Saved, Savings
    <2>2. saving' \in Savings /\ SaveKnows' /\ saving'.row = saving.row
          /\ saving'.value = saving.value /\ saving'.crossed = saving.crossed
        BY <1>5, <2>1
    <2>3. PageTypes'
        BY <1>1, <1>8, <2>1, <2>2 DEF PageInv, PageTypes
    <2>4. DataAtHome'
        <3>1. ASSUME NEW r \in Rows \ tainted' PROVE AtHome(db'[r], r)
            BY <1>8, <2>1 DEF PageInv, PageTypes, DataAtHome
        <3> QED
            BY <1>1, <1>2, <2>1, <2>2, <3>1 DEF PageInv, DataAtHome
    <2>5. RefusedForCause'
        BY <1>1, <2>1 DEF PageInv, PageFitsApi, RefusedForCause, contract, field, ShownIn
    <2> QED
        BY <1>6, <1>7, <2>2, <2>3, <2>4, <2>5 DEF PageInv, PageFitsApi
<1>9. ASSUME Refuse, RefusedForCause'
      PROVE  PageInv'
    <2>1. saving' = [saving EXCEPT !.stage = "refused"] /\ UNCHANGED <<db, tainted>>
        BY <1>9 DEF Refuse
    <2>2. saving' \in Savings /\ SaveKnows' /\ saving'.row = saving.row
          /\ saving'.value = saving.value /\ saving'.crossed = saving.crossed
        BY <1>5, <2>1
    <2>3. PageTypes' /\ DataAtHome'
        BY <1>1, <1>2, <2>1, <2>2 DEF PageInv, PageTypes, DataAtHome
    <2> QED
        BY <1>6, <1>7, <1>9, <2>2, <2>3 DEF PageInv, PageFitsApi
<1>10. CASE CreateRow
    <2> DEFINE value == Taken(contract.create)
               stored == CASE value # Missing -> value
                           [] column.preset   -> Preset
                           [] OTHER           -> Null
    <2>1. saving.mode = "add" /\ saving.row = NewRow
        BY <1>2, <1>10 DEF CreateRow, PageInv, SaveKnows
    <2>2. stored \in Cells
          /\ (saving.row \notin tainted /\ ~ saving.crossed => AtHome(stored, saving.row))
        BY <1>2, <1>3, <1>4, AtHomeOf DEF Taken, Cells, Savings
    <2>3. CASE Saved(NewRow, stored)
        BY <1>8, <2>1, <2>2, <2>3
    <2>4. CASE Refuse /\ refused' = saving
              /\ ~ (Acceptable(value) /\ (CreateRequired(column) => value # Missing))
        <3>1. RefusedForCause'
            <4> SUFFICES ASSUME ShownIn(saving.mode), contract.create, column.asked.required # "out",
                                ~ (column.kind = "decimal" /\ saving.value = Empty),
                                ~ (column.kind = "number" /\ PasswordLike(column))
                         PROVE  FALSE
                BY <1>1, <2>4 DEF RefusedForCause, contract, field, ShownIn
            <4>1. value = saving.value
                BY DEF Taken, Known
            <4> QED
                BY <1>2, <1>4, <2>4, <4>1, RefusalHasCause DEF Taken
        <3> QED
            BY <1>9, <2>4, <3>1
    <2> QED
        BY <1>10, <2>3, <2>4 DEF CreateRow
<1>11. CASE UpdateRow
    <2> DEFINE r == saving.row
               value == Taken(contract.update)
               stored == IF value = Missing THEN db[r] ELSE value
    <2>1. r \in Rows
        BY <1>2 DEF Savings
    <2>2. stored \in Cells
          /\ (saving.row \notin tainted /\ ~ saving.crossed => AtHome(stored, saving.row))
        BY <1>3, <1>4, <2>1 DEF Taken, PageInv, PageTypes, DataAtHome
    <2>3. CASE Saved(r, stored)
        BY <1>8, <2>2, <2>3
    <2>4. CASE Refuse /\ refused' = (IF db[r] = Absent THEN refused ELSE saving)
              /\ ~ (Acceptable(value) /\ db[r] # Absent)
        <3>1. CASE db[r] = Absent
            <4>1. RefusedForCause'
                BY <1>1, <2>4, <3>1 DEF PageInv, PageFitsApi, RefusedForCause, contract, field, ShownIn
            <4> QED
                BY <1>9, <2>4, <4>1
        <3>2. CASE db[r] # Absent
            <4>1. RefusedForCause'
                <5> SUFFICES ASSUME ShownIn(saving.mode), contract.create,
                                    column.asked.required # "out",
                                    ~ (column.kind = "decimal" /\ saving.value = Empty),
                                    ~ (column.kind = "number" /\ PasswordLike(column))
                             PROVE  FALSE
                    BY <1>1, <2>4, <3>2 DEF RefusedForCause, contract, field, ShownIn
                <5> QED
                    BY <1>2, <1>4, <2>4, <3>2, RefusalHasCause DEF Taken
            <4> QED
                BY <1>9, <2>4, <4>1
        <3> QED
            BY <3>1, <3>2
    <2> QED
        BY <1>11, <2>3, <2>4 DEF UpdateRow
<1> QED
    BY <1>1, <1>10, <1>11

LEMMA SaveAnsweredKeeps ==
    ASSUME PageInv, SaveAnswered
    PROVE  PageInv'
<1>1. /\ saving' = NoSave
      /\ UNCHANGED <<column, db, listed, loading, details, openings, others,
                     touched, basis, crossed, tainted, refused>>
      /\ \/ panel' = [panel EXCEPT !.open = FALSE] /\ form' = field.blank
         \/ UNCHANGED <<panel, form>>
    BY DEF SaveAnswered
<1>2. panel' \in Panels /\ panel'.row = panel.row /\ panel'.mode = panel.mode
      /\ (~ panel'.open \/ UNCHANGED <<panel, form>>)
    BY <1>1 DEF PageInv, PageTypes, Panels
<1>3. PageTypes'
    <2>1. form' \in Cells
        BY <1>1, BlankCells DEF PageInv, PageTypes, Cells
    <2> QED
        BY <1>1, <1>2, <2>1 DEF PageInv, PageTypes
<1>4. DataAtHome'
    <2>1. panel.row \in Rows
        BY DEF PageInv, PageTypes, Panels
    <2> QED
        BY <1>1, <1>2, <2>1, BlankCells DEF PageInv, DataAtHome
<1>5. FormKnows'
    BY <1>1, <1>2 DEF PageInv, FormKnows, contract
<1>6. SaveKnows' /\ RefusedForCause' /\ SearchHeeded'
    BY <1>1 DEF PageInv, SaveKnows, PageFitsApi, RefusedForCause, SearchHeeded, contract, field, ShownIn
<1> QED
    BY <1>3, <1>4, <1>5, <1>6 DEF PageInv, PageFitsApi

LEMMA TableKeeps ==
    ASSUME PageInv, Refresh \/ \E r \in Rows : SomeoneElse(r)
    PROVE  PageInv'
<1>1. CASE Refresh
    BY <1>1 DEF Refresh, PageInv, PageTypes, DataAtHome, FormKnows, SaveKnows, PageFitsApi,
                RefusedForCause, SearchHeeded, contract, field, ShownIn
<1>2. ASSUME NEW r \in Rows, SomeoneElse(r) PROVE PageInv'
    <2>1. PICK v \in {Other(r), Absent, Null} : db' = [db EXCEPT ![r] = v]
        BY <1>2 DEF SomeoneElse
    <2>2. AtHome(v, r) /\ v \in Cells
        BY AtHomeOf DEF Cells
    <2>3. PageTypes'
        BY <1>2, <2>1, <2>2 DEF SomeoneElse, PageInv, PageTypes
    <2>4. DataAtHome'
        <3>1. \A q \in Rows : db'[q] = IF q = r THEN v ELSE db[q]
            BY <2>1 DEF PageInv, PageTypes
        <3> QED
            BY <1>2, <2>2, <3>1 DEF SomeoneElse, PageInv, DataAtHome
    <2>5. FormKnows' /\ SaveKnows' /\ RefusedForCause' /\ SearchHeeded'
        BY <1>2 DEF SomeoneElse, PageInv, FormKnows, SaveKnows, PageFitsApi, RefusedForCause,
                    SearchHeeded, contract, field, ShownIn
    <2> QED
        BY <2>3, <2>4, <2>5 DEF PageInv, PageFitsApi
<1> QED
    BY <1>1, <1>2

-----------------------------------------------------------------------------
(* CrudPage: the theorems.                                                 *)

LEMMA PageNextInv ==
    ASSUME PageInv, [PageNext]_pageVars
    PROVE  PageInv'
<1>1. CASE UNCHANGED pageVars
    BY <1>1 DEF pageVars, PageInv, PageTypes, DataAtHome, FormKnows, SaveKnows, PageFitsApi,
                RefusedForCause, SearchHeeded, contract, field, ShownIn
<1>2. CASE PageNext
    BY <1>2, OpenKeeps, DetailKeeps, TypeKeeps, SubmitKeeps, ServeKeeps, SaveAnsweredKeeps, TableKeeps
    DEF PageNext
<1> QED
    BY <1>1, <1>2

LEMMA SpecPageInv == PageSpec => []PageInv
<1>1. PageInit => PageInv
    BY PageInitInv
<1>2. PageInv /\ [PageNext]_pageVars => PageInv'
    BY PageNextInv
<1> QED
    BY <1>1, <1>2, PTL DEF PageSpec

\* A row of the generated page holds only what was meant for it, whatever is
\* opened, answered, typed and saved in whatever order (RowsKeepApart).
THEOREM SpecRowsKeepApart == PageSpec => []RowsKeepApart
<1>1. PageInv => RowsKeepApart
    BY DEF PageInv, DataAtHome, AtHome, RowsKeepApart
<1> QED
    BY <1>1, SpecPageInv, PTL

\* For every column and every wish of the caller the form and the search bar
\* fit the API they were generated with (PageFitsApi).
THEOREM SpecPageFitsApi == PageSpec => []PageFitsApi
<1>1. PageInv => PageFitsApi
    BY DEF PageInv
<1> QED
    BY <1>1, SpecPageInv, PTL

\* A save of a form in which nobody typed writes only where what was read of
\* the row is old or has no value for the field (UntouchedSaveKeeps).
THEOREM SpecUntouchedSaveKeeps == PageSpec => UntouchedSaveKeeps
<1> DEFINE Kept ==
        \A r \in Rows :
            db'[r] # db[r] /\ others' = others /\ saving.mode = "edit" =>
                /\ ~ PasswordLike(column)
                /\ \/ saving.touched \/ saving.crossed
                   \/ saving.basis \in {Null, Missing}
                   \/ saving.basis # db[r]
<1>1. ASSUME PageInv, [PageNext]_pageVars PROVE Kept \/ UNCHANGED pageVars
    <2> SUFFICES ASSUME PageNext, NEW r \in Rows,
                        db'[r] # db[r], others' = others, saving.mode = "edit"
                 PROVE  /\ ~ PasswordLike(column)
                        /\ \/ saving.touched \/ saving.crossed
                           \/ saving.basis \in {Null, Missing}
                           \/ saving.basis # db[r]
        BY <1>1
    <2>1. ASSUME NEW q \in Rows, SomeoneElse(q) PROVE FALSE
        BY <1>1, <2>1 DEF SomeoneElse, PageInv, PageTypes
    <2>2. Serve
        BY <2>1 DEF PageNext, OpenAdd, OpenEdit, ReadDetail, DetailAnswered, Type, Close, Submit,
                    SaveAnswered, Refresh
    <2>3. UpdateRow /\ saving.stage = "sent"
        BY <2>2 DEF Serve, CreateRow
    <2> DEFINE value == Taken(contract.update)
    <2>4. saving \in Savings
        BY <1>1, <2>3 DEF PageInv, PageTypes, NoSave
    <2>5. db' = [db EXCEPT ![saving.row] = IF value = Missing THEN db[saving.row] ELSE value]
        BY <2>3 DEF UpdateRow, Saved, Refuse
    <2>6. r = saving.row /\ value # Missing /\ value = saving.value /\ value # db[r]
        BY <1>1, <2>5 DEF Taken, Known, PageInv, PageTypes
    <2>7. saving # NoSave
        BY <2>3 DEF NoSave
    <2>8. ShownIn("edit")
        BY <1>1, <2>3, <2>6, <2>7 DEF PageInv, SaveKnows
    <2>9. ~ PasswordLike(column)
        BY <2>8 DEF ShownIn, field, PageField, FormVisibility
    <2> QED
        BY <1>1, <2>6, <2>7, <2>9 DEF PageInv, SaveKnows, Untyped
<1>2. UntouchedSaveKeeps <=> [][Kept]_pageVars
    BY DEF UntouchedSaveKeeps
<1> QED
    BY <1>1, <1>2, SpecPageInv, PTL DEF PageSpec

=============================================================================
