----------------------------- MODULE Permissions -----------------------------
(***************************************************************************)
(* How a user's permissions travel: buttons get a bit position when they   *)
(* are created (summer-domain/src/menu.rs), roles bind buttons and users   *)
(* bind roles (sys_role_service.rs, sys_user_service.rs), a login packs    *)
(* the marks it read into a bitmap with the map the process holds, and     *)
(* every later request unpacks the bitmap with the map of that moment      *)
(* (summer-auth/src/bitmap.rs, session/manager.rs).                        *)
(*                                                                         *)
(* One user.  A button's mark is its id: marks that two buttons share are  *)
(* not modelled.  None of these operations but update_user runs in a       *)
(* transaction, so each query is a step.  The sessions are module          *)
(* AuthSession's; here a token is never rotated and time stays within one  *)
(* access_timeout.                                                         *)
(*                                                                         *)
(* Bounds: each request of Requests runs once, at most MaxActive at a      *)
(* time; the clock (whole seconds) stops at MaxTime; at most MaxFailures   *)
(* queries or store calls fail.                                            *)
(***************************************************************************)
EXTENDS Integers, FiniteSets, FiniteSetsExt

CONSTANTS Requests, Buttons, Roles,
          Script,      \* the operations each request may be
          First,       \* the buttons of the seed
          None, MaxTime, MaxActive, MaxFailures

Operations == {"create_button", "sync_button", "update_button", "delete_menu",
               "save_role_permissions", "delete_role", "update_user", "login"}

ASSUME PermissionsAssumption ==
    /\ IsFiniteSet(Requests) /\ IsFiniteSet(Buttons) /\ IsFiniteSet(Roles)
    /\ Script \in [Requests -> SUBSET Operations]
    /\ First \subseteq Buttons
    /\ None \notin Buttons \cup Roles \cup Requests /\ None \notin Nat
    /\ MaxTime \in Nat /\ MaxActive \in Nat /\ MaxFailures \in Nat

VARIABLES
    now, failures,
    \* the tables
    bit,       \* sys_menu.bit_position of each button, None when it has no row
    enabled,   \* the buttons with sys_menu.enabled
    roles,     \* the rows of sys_role
    grants,    \* sys_role_menu, as pairs <<role, button>>
    holds,     \* the user's rows of sys_user_role
    status,    \* sys_user.status
    \* the process and the store
    map,       \* perm_map: [forward |-> mark to bit, reverse |-> bit to mark]
    deny,      \* auth:deny:{login}
    \* the requests, and the tokens they were given
    pc, task, token,
    \* history
    given,     \* every pair <<button, bit>> ever inserted
    raced,     \* the buttons whose position another creation took meanwhile
    mapLost    \* a change of a button that the map in use will not get

tables  == <<bit, enabled, roles, grants, holds, status>>
process == <<map, deny>>
history == <<given, raced, mapLost>>
vars    == <<now, failures, tables, process, pc, task, token, history>>

Rows   == {b \in Buttons : bit[b] # None}
NoDeny == [kind |-> "none", at |-> 0]

NoTask == [op |-> "login", button |-> None, role |-> None,
           asked |-> {},     \* the body: menu_ids, or role_ids
           change |-> FALSE, \* dto.role_ids is present
           wish |-> "keep", was |-> "enabled",
           next |-> 0,       \* next_pos
           seen |-> {},      \* role_ids, permissions or mappings read so far
           late |-> FALSE]   \* history: what it read has changed since

NoToken == [usable |-> FALSE, iat |-> 0, bits |-> {}, list |-> {},
            granted |-> {},     \* history: the permissions read for it
            late |-> FALSE,     \* history: they had changed when it was issued
            blind |-> FALSE,    \* history: the map was behind the table
            unheard |-> FALSE]  \* history: a change was not announced to it

----------------------------------------------------------------------------
(* The bitmap. *)

Mappings == {<<b, bit[b]>> : b \in enabled \cap Rows}

\* PermissionMap::new: where two rows share a bit, the row that comes last
\* in the query's order, which nothing fixes, keeps it.
MapsOf(mappings) ==
    LET marks == {m[1] : m \in mappings}
        used  == {m[2] : m \in mappings}
        fwd   == [b \in marks |-> CHOOSE n \in used : <<b, n>> \in mappings]
    IN  {[forward |-> fwd, reverse |-> r] :
            r \in {f \in [used -> marks] : \A n \in used : <<f[n], n>> \in mappings}}

Encode(perms, m) == {m.forward[p] : p \in perms \cap DOMAIN m.forward}

Decode(bits, m) == {m.reverse[n] : n \in bits \cap DOMAIN m.reverse}

\* generate_access keeps the list only where there is no bitmap.
Claims(perms) == LET bits == Encode(perms, map)
                 IN  [bits |-> bits, list |-> IF bits = {} THEN perms ELSE {}]

\* validate_token: what a presented token may do.
Accepted(t) ==
    /\ t.usable
    /\ \/ deny.kind = "none"
       \/ deny.kind = "refresh" /\ t.iat > deny.at

PermissionsOf(t) == IF t.bits = {} THEN t.list ELSE Decode(t.bits, map)

\* get_user_permissions
PermissionsOfRoles(rs) ==
    {b \in enabled \cap Rows : \E r \in rs : <<r, b>> \in grants}

----------------------------------------------------------------------------
Init ==
    /\ now = 0 /\ failures = 0
    /\ \E f \in {g \in [First -> 0 .. (Cardinality(First) - 1)] :
                    \A b, c \in First : g[b] = g[c] => b = c} :
          bit = [b \in Buttons |-> IF b \in First THEN f[b] ELSE None]
    /\ enabled = First
    /\ roles = Roles
    /\ grants = Roles \X First
    /\ holds \in SUBSET Roles
    /\ status = "enabled"
    /\ map \in MapsOf(Mappings)
    /\ deny = NoDeny
    /\ pc = [r \in Requests |-> "idle"]
    /\ task = [r \in Requests |-> NoTask]
    /\ token = [r \in Requests |-> NoToken]
    /\ given = {<<b, bit[b]>> : b \in First}
    /\ raced = {} /\ mapLost = FALSE

Ended  == {"idle", "done"}
Active == {r \in Requests : pc[r] \notin Ended}

Tick == now < MaxTime /\ now' = now + 1
        /\ UNCHANGED <<failures, tables, process, pc, task, token, history>>

Goto(r, step) == pc' = [pc EXCEPT ![r] = step]
Finish(r)     == Goto(r, "done") /\ task' = [task EXCEPT ![r] = NoTask]
Proceed(r, step) == Goto(r, step) /\ UNCHANGED task

\* A write that readers in flight have missed: `Behind` are those readers.
Overtake(r, Behind, t) ==
    task' = [q \in Requests |-> IF q = r THEN t
                                ELSE [task[q] EXCEPT !.late = @ \/ q \in Behind]]

\* A change that no token issued before it is told of.
Unannounced(unless) ==
    token' = [q \in Requests |->
                [token[q] EXCEPT !.unheard = @ \/ (token[q].usable /\ ~unless)]]

Readers(steps) == {q \in Requests : pc[q] \in steps}

\* Those that hold permissions read before a change, or mappings.
Signing == Readers({"menus", "issue"})
Loading == Readers({"install"})
Ranking == Readers({"insert_row"})

\* The requests that have changed a button and not yet installed a map.
Reloads == Readers({"load", "install"})

----------------------------------------------------------------------------
(* The requests begin. *)

Begin(r, op, t, step) ==
    /\ pc[r] = "idle" /\ op \in Script[r]
    /\ Cardinality(Active) < MaxActive
    /\ task' = [task EXCEPT ![r] = t]
    /\ Goto(r, step)
    /\ UNCHANGED <<now, failures, tables, process, token, history>>

BeginCreate(r) == \E b \in Buttons, op \in {"create_button", "sync_button"} :
    /\ \A n \in 0 .. Cardinality(Buttons) : <<b, n>> \notin given
    /\ \A q \in Active : task[q].button # b
    /\ Begin(r, op, [NoTask EXCEPT !.op = op, !.button = b], "read_max")

BeginUpdateButton(r) == \E b \in Rows :
    Begin(r, "update_button", [NoTask EXCEPT !.op = "update_button", !.button = b,
                               !.change = b \notin enabled], "update_row")

BeginDeleteMenu(r) == \E b \in Rows :
    Begin(r, "delete_menu", [NoTask EXCEPT !.op = "delete_menu", !.button = b],
          "count_bindings")

BeginSave(r) == \E role \in roles, menus \in SUBSET Rows :
    Begin(r, "save_role_permissions",
          [NoTask EXCEPT !.op = "save_role_permissions", !.role = role, !.asked = menus],
          "delete_grants")

BeginDeleteRole(r) == \E role \in roles :
    Begin(r, "delete_role", [NoTask EXCEPT !.op = "delete_role", !.role = role],
          "count_users")

BeginUpdateUser(r) ==
    \E change \in BOOLEAN, ids \in SUBSET roles, wish \in {"keep", "enabled", "disabled"} :
        /\ ~change => ids = {}
        /\ Begin(r, "update_user",
                 [NoTask EXCEPT !.op = "update_user", !.change = change,
                                !.asked = ids, !.wish = wish],
                 "find_user")

BeginLogin(r) ==
    /\ status = "enabled"
    /\ Begin(r, "login", NoTask, "roles")

----------------------------------------------------------------------------
(* Buttons. *)

\* select max(bit_position)
NextPosition ==
    LET used == {bit[b] : b \in Rows} IN IF used = {} THEN 0 ELSE Max(used) + 1

ReadMax(r) ==
    /\ pc[r] = "read_max"
    /\ task' = [task EXCEPT ![r].next = NextPosition]
    /\ Goto(r, "insert_row")
    /\ UNCHANGED <<now, failures, tables, process, token, history>>

\* The menu tools of the MCP server have no sink: their service loads nothing.
InsertRow(r) ==
    /\ pc[r] = "insert_row"
    /\ bit' = [bit EXCEPT ![task[r].button] = task[r].next]
    /\ enabled' = enabled \cup {task[r].button}
    /\ given' = given \cup {<<task[r].button, task[r].next>>}
    /\ IF task[r].op = "sync_button"
         THEN Goto(r, "done") /\ Overtake(r, (Loading \cup Ranking) \ {r}, NoTask)
         ELSE Goto(r, "load") /\ Overtake(r, (Loading \cup Ranking) \ {r}, task[r])
    /\ raced' = IF task[r].late THEN raced \cup {task[r].button} ELSE raced
    /\ mapLost' = (mapLost \/ task[r].op = "sync_button")
    /\ UNCHANGED <<now, failures, roles, grants, holds, status, process, token>>

UpdateRow(r) ==
    /\ pc[r] = "update_row"
    /\ IF task[r].button \in Rows
         THEN /\ enabled' = IF task[r].change THEN enabled \cup {task[r].button}
                            ELSE enabled \ {task[r].button}
              /\ Overtake(r, (Loading \cup Signing) \ {r}, task[r])
              /\ Goto(r, "load")
         ELSE Finish(r) /\ UNCHANGED enabled \* RecordNotUpdated
    /\ UNCHANGED <<now, failures, bit, roles, grants, holds, status, process, token, history>>

CountBindings(r) ==
    /\ pc[r] = "count_bindings"
    /\ IF \E role \in Roles : <<role, task[r].button>> \in grants
         THEN Finish(r) ELSE Proceed(r, "delete_row")
    /\ UNCHANGED <<now, failures, tables, process, token, history>>

\* The step after it is the reload.
DeleteRowThen(r, step) ==
    /\ pc[r] = "delete_row"
    /\ IF task[r].button \in Rows
         THEN /\ bit' = [bit EXCEPT ![task[r].button] = None]
              /\ enabled' = enabled \ {task[r].button}
              /\ Overtake(r, (Loading \cup Signing) \ {r}, task[r])
              /\ Goto(r, step)
         ELSE Finish(r) /\ UNCHANGED <<bit, enabled>> \* rows_affected == 0
    /\ UNCHANGED <<now, failures, roles, grants, holds, status, process, token, history>>

\* Mutant: deleting a button leaves the map alone.
DeleteRow_NoReload(r) == DeleteRowThen(r, "done")

DeleteRow(r) == DeleteRowThen(r, "load")

\* reload_permission_map: the query, then the sink.
LoadAs(r, mappings) ==
    /\ pc[r] = "load"
    /\ task' = [task EXCEPT ![r] = [NoTask EXCEPT !.op = task[r].op, !.seen = mappings]]
    /\ Goto(r, "install")
    /\ UNCHANGED <<now, failures, tables, process, token, history>>

\* Mutant: the map numbers the rows and ignores their positions.
LoadMappings_Enumerate(r) ==
    LoadAs(r, {<<m[1], Cardinality({n \in Mappings : n[2] < m[2]})>> : m \in Mappings})

\* Mutant: position 0 is taken for an unset one.
LoadMappings_SkipZero(r) == LoadAs(r, {m \in Mappings : m[2] > 0})

LoadMappings(r) == LoadAs(r, Mappings)

InstallMap(r) ==
    /\ pc[r] = "install"
    /\ map' \in MapsOf(task[r].seen)
    /\ mapLost' = task[r].late
    /\ Finish(r)
    /\ UNCHANGED <<now, failures, tables, deny, token, given, raced>>

----------------------------------------------------------------------------
(* Roles. *)

DeleteGrants(r) ==
    /\ pc[r] = "delete_grants"
    /\ grants' = {g \in grants : g[1] # task[r].role}
    /\ Goto(r, "insert_grants")
    /\ Overtake(r, Signing, task[r])
    /\ UNCHANGED <<now, failures, bit, enabled, roles, holds, status, process, token, history>>

\* insert_many stops at the unique key (role, menu).
InsertGrants(r) ==
    /\ pc[r] = "insert_grants"
    /\ LET rows == {task[r].role} \X task[r].asked
       IN  IF rows \cap grants = {}
             THEN /\ grants' = grants \cup rows
                  /\ Goto(r, "read_users")
                  /\ Overtake(r, Signing \cup Readers({"insert_grants"}), task[r])
                  /\ UNCHANGED token
             ELSE Finish(r) /\ Unannounced(FALSE) /\ UNCHANGED grants
    /\ UNCHANGED <<now, failures, bit, enabled, roles, holds, status, process, history>>

\* Mutant: nobody is told.
ReadUsers_Skip(r) ==
    /\ pc[r] = "read_users"
    /\ Finish(r)
    /\ UNCHANGED <<now, failures, tables, process, token, history>>

ReadUsers(r) ==
    /\ pc[r] = "read_users"
    /\ IF task[r].role \in holds THEN Proceed(r, "force_refresh") ELSE Finish(r)
    /\ UNCHANGED <<now, failures, tables, process, token, history>>

\* force_refresh: `let _ =` drops the store's error.
ForceRefresh(r) ==
    /\ pc[r] = "force_refresh"
    /\ \/ /\ deny' = [kind |-> "refresh", at |-> now]
          /\ UNCHANGED <<failures, token>>
       \/ /\ failures < MaxFailures
          /\ failures' = failures + 1
          /\ Unannounced(FALSE)
          /\ UNCHANGED deny
    /\ Finish(r)
    /\ UNCHANGED <<now, tables, map, history>>

CountUsers(r) ==
    /\ pc[r] = "count_users"
    /\ IF task[r].role \in holds THEN Finish(r) ELSE Proceed(r, "unbind_role")
    /\ UNCHANGED <<now, failures, tables, process, token, history>>

UnbindRole(r) ==
    /\ pc[r] = "unbind_role"
    /\ grants' = {g \in grants : g[1] # task[r].role}
    /\ Goto(r, "drop_role")
    /\ Unannounced(task[r].role \notin holds)
    /\ Overtake(r, Signing, task[r])
    /\ UNCHANGED <<now, failures, bit, enabled, roles, holds, status, process, history>>

DropRole(r) ==
    /\ pc[r] = "drop_role"
    /\ roles' = roles \ {task[r].role}
    /\ Finish(r)
    /\ UNCHANGED <<now, failures, bit, enabled, grants, holds, status, process,
                   token, history>>

----------------------------------------------------------------------------
(* The user. *)

FindUser(r) ==
    /\ pc[r] = "find_user"
    /\ task' = [task EXCEPT ![r].was = status]
    /\ Goto(r, "commit")
    /\ UNCHANGED <<now, failures, tables, process, token, history>>

\* The transaction takes effect; what the runtime is told depends on the
\* status it had read.
CommitUser(r) ==
    LET t       == task[r]
        current == IF t.wish = "keep" THEN t.was ELSE t.wish
        next    == IF t.was # current THEN IF current = "disabled" THEN "ban" ELSE "unban"
                   ELSE IF t.change /\ current # "disabled" THEN "force_refresh"
                   ELSE "done"
    IN
    /\ pc[r] = "commit"
    /\ status' = IF t.wish = "keep" THEN status ELSE t.wish
    /\ holds' = IF t.change THEN t.asked ELSE holds
    /\ Goto(r, next)
    /\ Overtake(r, Signing, IF next = "done" THEN NoTask ELSE [NoTask EXCEPT !.op = t.op,
                                                             !.change = t.change])
    /\ Unannounced(~t.change \/ current # "disabled")
    /\ UNCHANGED <<now, failures, bit, enabled, roles, grants, process, history>>

\* disable_user_runtime bans and then logs out, which writes the same key;
\* enable_user_runtime deletes it.  The store's error ends the request.
Runtime(r) ==
    /\ pc[r] \in {"ban", "logout_all", "unban"}
    /\ \/ /\ deny' = CASE pc[r] = "ban"        -> [kind |-> "banned", at |-> 0]
                      [] pc[r] = "logout_all" -> [kind |-> "refresh", at |-> now]
                      [] pc[r] = "unban"      -> NoDeny
          /\ IF pc[r] = "ban" THEN Proceed(r, "logout_all")
             ELSE IF pc[r] = "unban" /\ task[r].change THEN Proceed(r, "force_refresh")
             ELSE Finish(r)
          /\ Unannounced(pc[r] # "unban")
          /\ UNCHANGED failures
       \/ /\ failures < MaxFailures
          /\ failures' = failures + 1
          /\ Finish(r)
          /\ Unannounced(FALSE)
          /\ UNCHANGED deny
    /\ UNCHANGED <<now, tables, map, history>>

----------------------------------------------------------------------------
(* Login and refresh: role ids, then menus, then the token. *)

ReadRoles(r) ==
    /\ pc[r] = "roles"
    /\ task' = [task EXCEPT ![r].seen = holds, ![r].late = FALSE]
    /\ Goto(r, "menus")
    /\ UNCHANGED <<now, failures, tables, process, token, history>>

ReadMenus(r) ==
    /\ pc[r] = "menus"
    /\ task' = [task EXCEPT ![r].seen = PermissionsOfRoles(@)]
    /\ Goto(r, "issue")
    /\ UNCHANGED <<now, failures, tables, process, token, history>>

Issue(r) ==
    /\ pc[r] = "issue"
    /\ LET c == Claims(task[r].seen)
       IN  token' = [token EXCEPT ![r] =
                       [usable |-> TRUE, iat |-> now, bits |-> c.bits, list |-> c.list,
                        granted |-> task[r].seen, late |-> task[r].late,
                        blind |-> mapLost \/ Reloads # {}, unheard |-> FALSE]]
    /\ Finish(r)
    /\ UNCHANGED <<now, failures, tables, process, history>>

----------------------------------------------------------------------------
\* A query fails, and with it the request; what it has done stays.
QueryFails(r) ==
    /\ failures < MaxFailures
    /\ pc[r] \in {"read_max", "insert_row", "load", "insert_grants", "read_users", "drop_role"}
    /\ failures' = failures + 1
    /\ Finish(r)
    /\ Unannounced(pc[r] \notin {"insert_grants", "read_users"})
    /\ mapLost' = (mapLost \/ pc[r] = "load")
    /\ UNCHANGED <<now, tables, process, given, raced>>

ButtonStep(r) == \/ ReadMax(r) \/ InsertRow(r) \/ UpdateRow(r)
                 \/ CountBindings(r) \/ DeleteRow(r)
                 \/ LoadMappings(r) \/ InstallMap(r)
RoleStep(r)   == \/ DeleteGrants(r) \/ InsertGrants(r) \/ ReadUsers(r)
                 \/ CountUsers(r) \/ UnbindRole(r) \/ DropRole(r)
UserStep(r)   == FindUser(r) \/ CommitUser(r) \/ Runtime(r) \/ ForceRefresh(r)
LoginStep(r)  == ReadRoles(r) \/ ReadMenus(r) \/ Issue(r)
Start(r)      == \/ BeginCreate(r) \/ BeginUpdateButton(r) \/ BeginDeleteMenu(r)
                 \/ BeginSave(r) \/ BeginDeleteRole(r) \/ BeginUpdateUser(r)
                 \/ BeginLogin(r)

Next == \/ Tick
        \/ \E r \in Requests : \/ Start(r) \/ ButtonStep(r) \/ RoleStep(r)
                               \/ UserStep(r) \/ LoginStep(r) \/ QueryFails(r)

Spec == Init /\ [][Next]_vars

----------------------------------------------------------------------------
(* Properties. *)

\* The tables, the map and the requests have their types.
TypeOK ==
    /\ now \in 0 .. MaxTime /\ failures \in 0 .. MaxFailures
    /\ bit \in [Buttons -> 0 .. Cardinality(Buttons) \cup {None}]
    /\ enabled \subseteq Rows
    /\ roles \subseteq Roles /\ holds \subseteq Roles
    /\ grants \subseteq Roles \X Buttons
    /\ status \in {"enabled", "disabled"}
    /\ DOMAIN map.forward \subseteq Buttons
    /\ DOMAIN map.reverse = {map.forward[b] : b \in DOMAIN map.forward}
    /\ deny.kind \in {"none", "banned", "refresh"} /\ deny.at <= now
    /\ \A r \in Requests : token[r].iat <= now /\ {} \in {token[r].bits, token[r].list}

\* Two buttons that exist have different positions, unless one of them was
\* created while another creation inserted between its max and its insert:
\* create_button reads the maximum and inserts in two queries, and no unique
\* index stands behind it.
BitsApart ==
    \A b, c \in Rows : b # c /\ bit[b] = bit[c] => {b, c} \cap raced # {}

Twins(b, c) == \E n \in 0 .. Cardinality(Buttons) : {<<b, n>>, <<c, n>>} \subseteq given

\* Whatever map the process holds when a token is presented, the token opens
\* only what its user had been granted when it was issued, or a button that
\* was given the position of one of those: the position of a deleted button
\* is given out again, and tokens packed before carry it.
OpensOnlyGranted ==
    \A r \in Requests :
        Accepted(token[r]) =>
            \A m \in PermissionsOf(token[r]) \ token[r].granted :
                \E g \in token[r].granted : Twins(g, m)

\* When no change of a button is on its way to the map, the map is the
\* table's, unless a reload failed, the change came through the MCP tools,
\* or a reload installed what it had read before another change.
MapFollowsTable ==
    Reloads = {} /\ ~mapLost => map \in MapsOf(Mappings)

Announcing == Readers({"insert_grants", "read_users", "force_refresh", "ban", "logout_all",
                       "unban", "unbind_role", "drop_role"})

\* When no change of roles or buttons is under way, a token that is accepted
\* opens nothing its user has lost, unless: its permissions were read before
\* a change and it was issued after; the change was not announced (a query
\* or the store failed, the user was disabled at the time and enabled later,
\* the announcement was overwritten, or the role was deleted while it was
\* being assigned); it carries a list and not a bitmap; or positions are
\* shared or the map is behind.
RevokedIsGone ==
    Announcing = {} /\ Reloads = {} /\ ~mapLost =>
        \A r \in Requests :
            LET t == token[r] IN
            Accepted(t) /\ ~t.late /\ ~t.unheard /\ t.bits # {} =>
                \A m \in PermissionsOf(t) \ PermissionsOfRoles(holds) :
                    \E b \in Buttons \ {m} : Twins(b, m)

\* What a token was granted and its user still has, it opens: packing and
\* unpacking lose nothing, unless the map was behind when it was packed or
\* is now, or two buttons share a position.
KeepsGranted ==
    Reloads = {} /\ ~mapLost =>
        \A r \in Requests :
            LET t == token[r] IN
            Accepted(t) /\ ~t.late /\ ~t.blind =>
                \A m \in (t.granted \cap PermissionsOfRoles(holds)) \ PermissionsOf(t) :
                    \E b \in Buttons \ {m} : Twins(b, m)

\* A position stands for one button, and the map knows it.
MapSound == TypeOK /\ BitsApart /\ MapFollowsTable
=============================================================================
