------------------------------- MODULE Notices -------------------------------
(***************************************************************************)
(* System notices: sys_notice_service.rs writes them, user_notice_service  *)
(* marks them as read, and sys_user_service.rs and sys_role_service.rs     *)
(* delete the users and roles they are addressed to.  One notice.          *)
(*                                                                         *)
(* A writer runs in a transaction of the database, which reads what is     *)
(* committed when each query runs (READ COMMITTED).  Its queries are       *)
(* steps; its writes show when it commits, which is one step from the      *)
(* UPDATE of the notice's row, whose lock keeps the other writers out, to  *)
(* the COMMIT.  A delete first removes the rows it sees in the other       *)
(* tables: they are locked until it commits, and whoever would remove them *)
(* too waits.  A transaction may be aborted at any moment (an error, a     *)
(* deadlock, a dropped request).  The tables have no foreign keys.         *)
(*                                                                         *)
(* Left out: title, content, level, order, and the enabled flag and expiry *)
(* that also hide a notice.  Bounds: each request of Requests runs once,   *)
(* at most MaxActive at a time.                                            *)
(***************************************************************************)
EXTENDS Integers, FiniteSets

CONSTANTS Requests, Users, Roles,
          Script,    \* the operations each request may be
          None, MaxActive

Operations == {"create", "update", "delete", "publish", "revoke", "pin",
               "read", "delete_user", "delete_role", "assign"}

ASSUME NoticesAssumption ==
    /\ IsFiniteSet(Requests) /\ IsFiniteSet(Users) /\ IsFiniteSet(Roles)
    /\ Users \cap Roles = {} /\ None \notin Users \cup Roles
    /\ Script \in [Requests -> SUBSET Operations]
    /\ MaxActive \in Nat

VARIABLES
    status,     \* publish_status; "absent" before, "deleted" after the row
    scope,      \* notice_scope
    pinned,
    targets,    \* sys_notice_target: the ids of the roles and users addressed
    recipients, \* sys_notice_user: the publication that made the user's row, 0 if none
    read,       \* the users with read_flag
    users, roles, \* the rows of sys_user and sys_role
    members,    \* sys_user_role, as pairs <<user, role>>
    pc, task,
    \* history
    editions,   \* the publications so far
    frozen,     \* scope and targets that the last publication had read
    races       \* <<a, b>>: an a committed that a b had overtaken

notice  == <<status, scope, pinned>>
rows    == <<targets, recipients, read>>
people  == <<users, roles, members>>
history == <<editions, frozen, races>>
vars    == <<notice, rows, people, pc, task, history>>

Scopes == {"all", "role", "user"}

NoTask == [op |-> "read", who |-> None,
           scope |-> None,   \* dto.notice_scope
           ids |-> {None},   \* dto.target_role_ids and target_user_ids; {None} if not given
           was |-> "absent", \* publish_status read
           to |-> "all",     \* the scope it goes by
           aim |-> {},       \* the targets it goes by
           found |-> {},     \* the recipients resolved
           edition |-> 0,    \* the row of the reader
           heldT |-> {}, heldR |-> {}, \* rows removed and not committed
           late |-> {}]      \* history: the writers that have committed since it looked

\* scoped_targets, with normalize_ids
Scoped(s, ids) == CASE s = "all"  -> {}
                    [] s = "role" -> ids \cap Roles
                    [] s = "user" -> ids \cap Users

\* validate_scope_targets
Valid(s, ids) == \/ s = "all"
                 \/ s = "role" /\ Scoped(s, ids) # {} /\ Scoped(s, ids) \subseteq roles
                 \/ s = "user" /\ Scoped(s, ids) # {} /\ Scoped(s, ids) \subseteq users

----------------------------------------------------------------------------
Init ==
    /\ status = "absent" /\ scope = "all" /\ pinned = FALSE
    /\ targets = {} /\ recipients = [u \in Users |-> 0] /\ read = {}
    /\ users = Users /\ roles = Roles
    /\ members \in SUBSET (Users \X Roles)
    /\ pc = [r \in Requests |-> "idle"]
    /\ task = [r \in Requests |-> NoTask]
    /\ editions = 0 /\ frozen = <<"all", {}>> /\ races = {}

Running == {r \in Requests : pc[r] \notin {"idle", "done"}}

Exists == status \notin {"absent", "deleted"}

Step(r, step, t) ==
    /\ pc' = [pc EXCEPT ![r] = step]
    /\ task' = [task EXCEPT ![r] = t]

\* A query: its results, and the step after it.
Query(r, step, t) == Step(r, step, t) /\ UNCHANGED <<notice, rows, people, history>>

End(r) == Query(r, "done", NoTask)

\* The transactions that hold what they have read of the tables, or have
\* removed what they saw.
Looking == {q \in Running : pc[q] \notin {"find", "find_user", "delete_targets",
                                       "sweep_recipients", "visible", "mark"}}

\* The last step of a transaction.
Commit(r) ==
    /\ pc' = [pc EXCEPT ![r] = "done"]
    /\ task' = [q \in Requests |->
                  IF q = r THEN NoTask
                  ELSE IF q \in Looking THEN [task[q] EXCEPT !.late = @ \cup {task[r].op}]
                  ELSE task[q]]
    /\ races' = races \cup {<<task[r].op, o>> : o \in task[r].late}

\* The rows that r would remove are not held by another transaction.
Free(r, T, R) == \A q \in Running \ {r} : /\ task[q].heldT \cap T = {}
                                          /\ task[q].heldR \cap R = {}

----------------------------------------------------------------------------
(* The requests begin. *)

Begin(r, op, t, step) ==
    /\ pc[r] = "idle" /\ op \in Script[r]
    /\ Cardinality(Running) < MaxActive
    /\ Query(r, step, [t EXCEPT !.op = op])

BeginCreate(r) == \E s \in Scopes, ids \in (SUBSET Users) \cup (SUBSET Roles) :
    /\ Begin(r, "create", [NoTask EXCEPT !.to = s, !.aim = Scoped(s, ids)], "validate")
    /\ ids = Scoped(s, ids)

\* Of the ids given, those that the scope given leaves out do not matter.
BeginUpdate(r) ==
    \E s \in Scopes \cup {None}, ids \in (SUBSET Users) \cup (SUBSET Roles) \cup {{None}} :
        /\ s # None /\ ids # {None} => ids = Scoped(s, ids)
        /\ Begin(r, "update", [NoTask EXCEPT !.scope = s, !.ids = ids], "find")

BeginOther(r) == \E op \in {"delete", "publish", "revoke", "pin"} :
    Begin(r, op, NoTask, "find")

BeginRead(r) == \E u \in Users :
    Begin(r, "read", [NoTask EXCEPT !.who = u], "visible")

BeginDeleteUser(r) == \E u \in Users :
    Begin(r, "delete_user", [NoTask EXCEPT !.who = u], "find_user")

----------------------------------------------------------------------------
(* The queries of the writers. *)

\* Mutant: a notice is changed while it is published.
Refused_Publish(op) == op \in {"delete", "publish"} /\ status = "published"

\* Mutant: a published notice is published again.
Refused_Twice(op) == op \in {"update", "delete"} /\ status = "published"

\* What each operation refuses, by the status read.
Refused(op) == \/ op \in {"update", "delete", "publish"} /\ status = "published"
               \/ op = "revoke" /\ status # "published"

Find(r) ==
    /\ pc[r] = "find"
    /\ IF ~Exists \/ Refused(task[r].op) THEN End(r)
       ELSE Query(r, CASE task[r].op \in {"update", "publish"} -> "load_targets"
                       [] task[r].op = "delete"                -> "delete_targets"
                       [] task[r].op \in {"revoke", "pin"}     -> "commit",
                  [task[r] EXCEPT !.was = status, !.to = scope])

LoadTargets(r) ==
    LET t    == task[r]
        to   == IF t.scope = None THEN t.to ELSE t.scope
        ids  == IF t.op = "publish" \/ t.ids = {None} THEN targets ELSE t.ids
    IN
    /\ pc[r] = "load_targets"
    /\ Query(r, "validate",
             [t EXCEPT !.to = to,
                       !.aim = IF t.op = "publish" THEN ids ELSE Scoped(to, ids)])

Validate(r) ==
    LET t == task[r] IN
    /\ pc[r] = "validate"
    /\ IF Valid(t.to, t.aim)
         THEN Query(r, IF t.op = "publish" THEN "resolve" ELSE "commit", t)
         ELSE End(r)

\* resolve_recipient_user_ids: a scope of everybody asks for the users, the
\* others for the members first.
Resolve(r) ==
    LET t == task[r] IN
    /\ pc[r] = "resolve"
    /\ CASE t.to = "all"  -> Query(r, "commit", [t EXCEPT !.found = users])
         [] t.to = "role" -> Query(r, "filter", [t EXCEPT !.found =
                                {u \in Users : \E x \in t.aim : <<u, x>> \in members}])
         [] t.to = "user" -> Query(r, "filter", [t EXCEPT !.found = t.aim \cap Users])

\* filter_existing_user_ids
Filter(r) ==
    /\ pc[r] = "filter"
    /\ Query(r, "commit", [task[r] EXCEPT !.found = @ \cap users])

----------------------------------------------------------------------------
(* The writers commit. *)

CommitCreate(r) ==
    /\ pc[r] = "commit" /\ task[r].op = "create"
    /\ status = "absent"
    /\ status' = "draft"
    /\ scope' = task[r].to
    /\ targets' = task[r].aim
    /\ Commit(r)
    /\ UNCHANGED <<pinned, recipients, read, people, editions, frozen>>

\* An UPDATE of a row that is gone: RecordNotUpdated.
Vanished(r) ==
    /\ pc[r] = "commit" /\ task[r].op \in {"update", "publish", "revoke", "pin"}
    /\ ~Exists
    /\ End(r)

\* Mutant: the targets of before stay beside the new ones.
CommitUpdate_Adds(r) ==
    /\ pc[r] = "commit" /\ task[r].op = "update" /\ Exists
    /\ Free(r, targets, {})
    /\ scope' = IF task[r].scope = None THEN scope ELSE task[r].scope
    /\ targets' = targets \cup task[r].aim
    /\ Commit(r)
    /\ UNCHANGED <<status, pinned, recipients, read, people, editions, frozen>>

\* update, sync_notice_targets
CommitUpdate(r) ==
    /\ pc[r] = "commit" /\ task[r].op = "update" /\ Exists
    /\ Free(r, targets, {})
    /\ scope' = IF task[r].scope = None THEN scope ELSE task[r].scope
    /\ targets' = task[r].aim
    /\ pinned' \in BOOLEAN \* dto.pinned
    /\ Commit(r)
    /\ UNCHANGED <<status, recipients, read, people, editions, frozen>>

\* update, sync_notice_users
CommitPublish(r) ==
    /\ pc[r] = "commit" /\ task[r].op = "publish" /\ Exists
    /\ Free(r, {}, {u \in Users : recipients[u] # 0})
    /\ status' = "published"
    /\ editions' = editions + 1
    /\ recipients' = [u \in Users |-> IF u \in task[r].found THEN editions' ELSE 0]
    /\ read' = {}
    /\ frozen' = <<task[r].to, task[r].aim>>
    /\ Commit(r)
    /\ UNCHANGED <<scope, pinned, targets, people>>

CommitRevoke(r) ==
    /\ pc[r] = "commit" /\ task[r].op = "revoke" /\ Exists
    /\ status' = "revoked"
    /\ Commit(r)
    /\ UNCHANGED <<scope, pinned, rows, people, editions, frozen>>

\* set_pinned is one statement on columns of its own.
CommitPin(r) ==
    /\ pc[r] = "commit" /\ task[r].op = "pin" /\ Exists
    /\ pinned' = ~pinned
    /\ Step(r, "done", NoTask)
    /\ UNCHANGED <<status, scope, rows, people, history>>

\* delete: two statements remove what they see, the third the notice itself.
DeleteTargets(r) ==
    /\ pc[r] = "delete_targets"
    /\ Free(r, targets, {})
    /\ Query(r, "delete_recipients", [task[r] EXCEPT !.heldT = targets])

Holders == {u \in Users : recipients[u] # 0}

\* Mutant: the recipients of a revoked notice stay.
DeleteRecipients_Skip(r) ==
    /\ pc[r] = "delete_recipients"
    /\ Query(r, "delete_notice", task[r])

DeleteRecipients(r) ==
    /\ pc[r] = "delete_recipients"
    /\ Free(r, {}, Holders)
    /\ Query(r, "delete_notice", [task[r] EXCEPT !.heldR = Holders])

Remove(T, R) ==
    /\ targets' = targets \ T
    /\ recipients' = [u \in Users |-> IF u \in R THEN 0 ELSE recipients[u]]
    /\ read' = read \ R

DeleteNotice(r) ==
    /\ pc[r] = "delete_notice"
    /\ Remove(task[r].heldT, task[r].heldR)
    /\ status' = IF Exists THEN "deleted" ELSE status
    /\ Commit(r)
    /\ UNCHANGED <<scope, pinned, people, editions, frozen>>

----------------------------------------------------------------------------
(* The users. *)

\* delete_user, of a user who is disabled
FindUser(r) ==
    /\ pc[r] = "find_user"
    /\ IF task[r].who \in users THEN Query(r, "sweep_recipients", task[r]) ELSE End(r)

SweepRecipients(r) ==
    LET mine == Holders \cap {task[r].who} IN
    /\ pc[r] = "sweep_recipients"
    /\ Free(r, {}, mine)
    /\ Query(r, "sweep_targets", [task[r] EXCEPT !.heldR = mine])

SweepTargets(r) ==
    LET mine == targets \cap {task[r].who} IN
    /\ pc[r] = "sweep_targets"
    /\ Free(r, mine, {})
    /\ Query(r, "drop_user", [task[r] EXCEPT !.heldT = mine])

DropUser(r) ==
    /\ pc[r] = "drop_user"
    /\ Remove(task[r].heldT, task[r].heldR)
    /\ users' = users \ {task[r].who}
    /\ members' = {m \in members : m[1] # task[r].who}
    /\ Commit(r)
    /\ UNCHANGED <<notice, roles, editions, frozen>>

\* update_user gives or takes a role; delete_role asks for members only.
AssignRole(r) == \E u \in users, x \in roles :
    /\ pc[r] = "idle" /\ "assign" \in Script[r]
    /\ members' = IF <<u, x>> \in members THEN members \ {<<u, x>>}
                  ELSE members \cup {<<u, x>>}
    /\ Step(r, "done", NoTask)
    /\ UNCHANGED <<notice, rows, users, roles, history>>

DeleteRole(r) == \E x \in roles :
    /\ pc[r] = "idle" /\ "delete_role" \in Script[r]
    /\ \A m \in members : m[2] # x
    /\ roles' = roles \ {x}
    /\ Step(r, "done", NoTask)
    /\ UNCHANGED <<notice, rows, users, members, history>>

\* read and read_all: the user's row while the notice is visible, then the
\* update by the row's id, which a new publication replaces.
Visible(r) ==
    LET u == task[r].who IN
    /\ pc[r] = "visible"
    /\ IF status = "published" /\ recipients[u] # 0 /\ u \notin read
         THEN Query(r, "mark", [task[r] EXCEPT !.edition = recipients[u]])
         ELSE End(r)

Mark(r) ==
    /\ pc[r] = "mark"
    /\ Free(r, {}, {task[r].who})
    /\ read' = IF recipients[task[r].who] = task[r].edition
                 THEN read \cup {task[r].who} ELSE read
    /\ Step(r, "done", NoTask)
    /\ UNCHANGED <<notice, targets, recipients, people, history>>

----------------------------------------------------------------------------
Abort(r) == r \in Running /\ End(r)

Start(r)   == \/ BeginCreate(r) \/ BeginUpdate(r) \/ BeginOther(r)
              \/ BeginRead(r) \/ BeginDeleteUser(r)
Look(r)    == \/ Find(r) \/ LoadTargets(r) \/ Validate(r) \/ Resolve(r) \/ Filter(r)
Write(r)   == \/ CommitCreate(r) \/ Vanished(r) \/ CommitUpdate(r)
              \/ CommitPublish(r) \/ CommitRevoke(r) \/ CommitPin(r)
Delete(r)  == DeleteTargets(r) \/ DeleteRecipients(r) \/ DeleteNotice(r)
OfUsers(r) == \/ FindUser(r) \/ SweepRecipients(r) \/ SweepTargets(r) \/ DropUser(r)
              \/ AssignRole(r) \/ DeleteRole(r) \/ Visible(r) \/ Mark(r)

Next == \E r \in Requests :
            Start(r) \/ Look(r) \/ Write(r) \/ Delete(r) \/ OfUsers(r) \/ Abort(r)

Spec == Init /\ [][Next]_vars

----------------------------------------------------------------------------
(* Properties. *)

\* The tables and the requests have their types, and nothing hangs on a
\* notice before it is created.
TypeOK ==
    /\ status \in {"absent", "draft", "published", "revoked", "deleted"}
    /\ scope \in Scopes /\ pinned \in BOOLEAN
    /\ targets \subseteq Users \cup Roles
    /\ recipients \in [Users -> 0 .. editions]
    /\ read \subseteq Holders
    /\ users \subseteq Users /\ roles \subseteq Roles
    /\ members \subseteq users \X roles
    /\ status = "absent" => targets = {} /\ Holders = {}
    /\ \A r \in Requests : task[r].op \in Operations

\* The kind of targets is the kind of the scope, and a notice addressed to
\* roles has some, unless an update was overtaken by another: it takes over
\* the scope or the targets it does not change from what it read.
ScopeFits ==
    Exists /\ <<"update", "update">> \notin races =>
        /\ targets = Scoped(scope, targets)
        /\ scope = "role" => targets # {}

\* A published notice says what its publication went by: nobody changes the
\* scope or the targets under it, but for users who are deleted, unless an
\* update and a publication overtook each other.  No other overlap does.
PublishedIsFrozen ==
    status = "published"
    /\ races \cap {<<"update", "publish">>, <<"publish", "update">>} = {} =>
        /\ scope = frozen[1]
        /\ targets \cap (users \cup Roles) = frozen[2] \cap (users \cup Roles)

\* What is deleted leaves no rows behind, be it a notice or a user, unless
\* rows were written between the sweeps of the delete and its end, or for a
\* user who was deleted after the writer had looked.  A writer that is
\* overtaken by the delete of the notice itself writes nothing.
NoOrphanRows ==
    /\ status = "deleted" /\ races \cap {<<"delete", "update">>, <<"delete", "publish">>} = {}
          => targets = {} /\ Holders = {}
    /\ (\A o \in {"create", "update", "publish"} :
             races \cap {<<"delete_user", o>>, <<o, "delete_user">>} = {})
          => (targets \cup Holders) \cap Users \subseteq users

\* What a user has read stays read: the mark is lost only with the row, or
\* when the notice is published anew after a revocation, unless a
\* publication is overtaken by another, which both take effect.
ReadIsKept ==
    [][\A u \in read \ read' :
          \/ recipients'[u] = 0
          \/ status = "revoked"
          \/ <<"publish", "publish">> \in races']_vars

\* The rows of a notice fit each other, whatever wrote them, and go with it.
NoticeConsistent == TypeOK /\ ScopeFits /\ NoOrphanRows
=============================================================================
