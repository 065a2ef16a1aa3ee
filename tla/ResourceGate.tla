---------------------------- MODULE ResourceGate -----------------------------
(***************************************************************************)
(* The two layers in front of the system's handlers.  AuthLayer            *)
(* (summer-auth/src/middleware.rs, path_auth.rs) turns a token into a      *)
(* session or refuses the request; ResourcePermissionLayer                 *)
(* (summer-auth/src/resource_permission/mod.rs) compares the session's     *)
(* permissions with a policy that the process holds.  The policy is read   *)
(* from sys_resource and sys_action_resource at the start and after every  *)
(* change made by sys_resource_service.rs, in two queries that nothing     *)
(* serialises; a change of a button in sys_menu does not touch it.         *)
(*                                                                         *)
(* A path is a sequence of segments, a button's mark is its id, and a      *)
(* token carries the marks it was given (module Permissions says which).   *)
(* The check of has_perm in a handler comes after both layers.             *)
(*                                                                         *)
(* Bounds: each request of GateRequests runs once, at most GateActive at a *)
(* time; at most ButtonChanges changes of buttons and GateFailures failed  *)
(* queries.                                                                *)
(***************************************************************************)
EXTENDS Integers, Sequences, FiniteSets

CONSTANTS GateRequests, Resources, Actions,
          Param,          \* the segment {name} of a pattern
          Keep,           \* a field that the body of an update leaves out
          Wanted,         \* the methods and paths the administrator registers
          Endpoints,      \* the methods and paths that users request
          Public,         \* the routes registered for the group, as rules
          GateScript,     \* the operations each request may be
          GateActive, ButtonChanges, GateFailures

GateOperations == {"create", "update", "update_enabled", "delete", "save", "reload"}

ASSUME GateAssumption ==
    /\ IsFiniteSet(Resources) /\ IsFiniteSet(Actions)
    /\ Keep \notin Wanted /\ "start" \notin GateRequests
    /\ GateScript \in [GateRequests -> SUBSET GateOperations]
    /\ GateActive \in Nat /\ ButtonChanges \in Nat /\ GateFailures \in Nat

VARIABLES
    \* the tables
    resource,   \* sys_resource
    bound,      \* sys_action_resource, as pairs <<action, resource>>
    button,     \* the row of each action in sys_menu: "on", "off" or "gone"
    \* the process
    policy,     \* ResourcePermissionRegistry: the set of rules in force
    \* the requests of the administration
    gpc, gtask, changes, queryFailures,
    \* history
    due,        \* why the policy may differ from the tables
    agreed,     \* the bindings, each save that succeeded being one change
    heldBy,     \* the endpoints guarded since each reload began, ...
    held        \* ... and by the policy in force, since its reload began

gateTables  == <<resource, bound, button>>
gateHistory == <<agreed, heldBy, held>>
gateVars    == <<gateTables, policy, gpc, gtask, changes, queryFailures, due, gateHistory>>

NoWish == [at |-> Keep, enabled |-> "keep"]
NoGateTask == [op |-> "reload", id |-> {},
               wish |-> NoWish,  \* the body of create, update, update_enabled
               current |-> Keep, \* the path read by find_resource_by_id
               action |-> {},
               asked |-> {},     \* dto.resource_ids
               rows |-> {},      \* resources, or the bindings deleted so far
               rules |-> {},     \* the policy read, before replace
               elders |-> {},    \* history: the reloads under way when it began
               late |-> FALSE,   \* history: a reload begun later has replaced
               clears |-> {}]    \* history: due when it began

Here(id)  == resource[id].state = "row"
Enabled   == {id \in Resources : Here(id) /\ resource[id].enabled = "on"}

----------------------------------------------------------------------------
(* The two layers. *)

\* RouteRule: a method (or "any") and a pattern of PathAuthConfig.
AntMatches(rule, e) ==
    /\ rule.method \in {"any", e.method}
    /\ LET n == Len(rule.path)
       IN  CASE rule.kind = "tree"     -> Len(e.path) >= n /\ SubSeq(e.path, 1, n) = rule.path
             [] rule.kind = "children" -> Len(e.path) = n + 1 /\ SubSeq(e.path, 1, n) = rule.path
             [] rule.kind = "path"     -> /\ Len(e.path) = n
                                          /\ \A i \in 1..n : rule.path[i] \in {Param, e.path[i]}

\* AuthLayer::for_group: everything, but the routes registered as public.
Included == {[method |-> "any", kind |-> "tree", path |-> <<>>]}

RequiresAuth(e) == /\ \A rule \in Public : ~AntMatches(rule, e)
                   /\ \E rule \in Included : AntMatches(rule, e)

\* AuthMiddleware::call: "refused", "anonymous" or "session".
Authenticate(e, t) == CASE t.kind = "valid" -> "session"
                        [] t.kind # "valid" /\ RequiresAuth(e) -> "refused"
                        [] OTHER -> "anonymous"

\* path_matches of a rule.
PathMatches(pattern, path) ==
    /\ Len(pattern) = Len(path)
    /\ \A i \in 1..Len(path) : pattern[i] \in {Param, path[i]}

RuleMatches(at, e) == at.method = e.method /\ PathMatches(at.path, e.path)

\* ResourcePermissionPolicy::check_any_path: no rule, a rule that asks for
\* nothing, or a rule one of whose actions the user has.
CheckAnyPath(rules, e, perms) ==
    LET matching == {rule \in rules : RuleMatches(rule.at, e)}
    IN  \/ matching = {}
        \/ \E rule \in matching : rule.actions = {} \/ rule.actions \cap perms # {}

\* A request reaches its handler: AuthLayer is outside, then
\* authorize_resource, which lets a request without a session pass.
Reaches(e, t) ==
    CASE Authenticate(e, t) = "refused"   -> FALSE
      [] Authenticate(e, t) = "anonymous" -> TRUE
      [] Authenticate(e, t) = "session"   -> CheckAnyPath(policy, e, t.perms)

Tokens == {[kind |-> k, perms |-> {}] : k \in {"none", "invalid"}}
            \cup {[kind |-> "valid", perms |-> p] : p \in SUBSET Actions}

----------------------------------------------------------------------------
(* Loading the policy. *)

\* load_actions_by_resource: only enabled buttons count.
LiveActions(id) == {a \in Actions : <<a, id>> \in bound /\ button[a] = "on"}

\* The rules of the resources read earlier, with the actions bound now.
RulesOf(rows) == {[at |-> row[2].at, actions |-> LiveActions(row[1])] : row \in rows}

EnabledRows == {<<id, resource[id]>> : id \in Enabled}

\* The resources of an endpoint: each of them must ask for an action, since
\* one that asks for nothing lets everybody in.
Matching(e) == {id \in Enabled : RuleMatches(resource[id].at, e)}
Guarded(e)  == /\ Matching(e) # {}
               /\ \A id \in Matching(e) : \E a \in Actions : <<a, id>> \in agreed /\ button[a] = "on"

GuardedNow == {e \in Endpoints : Guarded(e)}

----------------------------------------------------------------------------
(* The steps of a request. *)

GateMove(r, label, rec) ==
    /\ gpc' = [gpc EXCEPT ![r] = label]
    /\ gtask' = [gtask EXCEPT ![r] = IF label = "done" THEN NoGateTask ELSE rec]
GateGoto(r, label) == GateMove(r, label, gtask[r])
GateActiveNow      == {r \in GateRequests : gpc[r] \notin {"idle", "done"}}

\* The body of a request.
Wishes(paths, enabled) == [at : paths, enabled : enabled]
About(op, id, wish)    == [NoGateTask EXCEPT !.op = op, !.id = id, !.wish = wish]
Binding(a, asked)      == [NoGateTask EXCEPT !.op = "save", !.action = a, !.asked = asked]

Bodies(op) ==
    CASE op = "create" -> {About(op, {}, w) : w \in Wishes(Wanted, {"on", "off"})}
      [] op = "update" ->
           {About(op, id, w) : id \in Resources, w \in Wishes(Wanted \cup {Keep}, {"off", "keep"})}
      [] op = "update_enabled" ->
           {About(op, id, w) : id \in Resources, w \in Wishes({Keep}, {"on", "off"})}
      [] op = "delete" -> {About(op, id, NoWish) : id \in Resources}
      [] op = "save"   -> {Binding(a, asked) : a \in Actions, asked \in SUBSET Resources}
      [] op = "reload" -> {NoGateTask}

\* The request arrives.
GateBegin(r) ==
    /\ gpc[r] = "idle" /\ Cardinality(GateActiveNow) < GateActive
    /\ \E op \in GateScript[r] : \E body \in Bodies(op) :
          GateMove(r, CASE op = "create" -> "unique" [] op = "save" -> "find_action"
                        [] op = "reload" -> "read_resources" [] OTHER -> "find", body)
    /\ UNCHANGED <<gateTables, policy, changes, queryFailures, due>>

\* find_resource_by_id.
GateFind(r) ==
    /\ gpc[r] = "find"
    /\ GateMove(r, IF ~Here(gtask[r].id) THEN "done"
                   ELSE CASE gtask[r].op = "update" -> "unique"
                          [] gtask[r].op = "delete" -> "count" [] OTHER -> "write",
                [gtask[r] EXCEPT !.current = resource[gtask[r].id].at])
    /\ UNCHANGED <<gateTables, policy, changes, queryFailures, due>>

Taken(at, but) == \E id \in Resources \ but : Here(id) /\ resource[id].at = at

\* ensure_method_path_unique; the code of a resource is checked and indexed
\* in the same way and left out.
GateUnique(r) ==
    /\ gpc[r] = "unique"
    /\ LET t  == gtask[r]
           at == IF t.wish.at = Keep THEN t.current ELSE t.wish.at
       IN  GateGoto(r, IF Taken(at, IF t.op = "update" THEN {t.id} ELSE {}) THEN "done" ELSE "write")
    /\ UNCHANGED <<gateTables, policy, changes, queryFailures, due>>

\* insert, or update of the columns the body names; the unique index refuses
\* a method and path that another request took meanwhile.
GateWrite(r) ==
    /\ gpc[r] = "write"
    /\ LET t     == gtask[r]
           fresh == {id \in Resources : resource[id].state = "unborn"}
           ids   == IF t.op = "create" THEN fresh ELSE {t.id} \cap {id \in Resources : Here(id)}
       IN  /\ t.op = "create" => fresh # {}
           /\ IF ids = {} \/ (t.wish.at # Keep /\ Taken(t.wish.at, IF t.op = "create" THEN {} ELSE ids))
              THEN UNCHANGED resource /\ GateGoto(r, "done")
              ELSE /\ \E id \in ids : resource' = [resource EXCEPT ![id] =
                          [state   |-> "row",
                           at      |-> IF t.wish.at = Keep THEN @.at ELSE t.wish.at,
                           enabled |-> IF t.wish.enabled = "keep" THEN @.enabled ELSE t.wish.enabled]]
                   /\ GateGoto(r, "read_resources")
    /\ UNCHANGED <<bound, button, policy, changes, queryFailures, due>>

\* delete: a bound resource stays.
GateCount(r) ==
    /\ gpc[r] = "count"
    /\ GateGoto(r, IF \E a \in Actions : <<a, gtask[r].id>> \in bound THEN "done" ELSE "drop")
    /\ UNCHANGED <<gateTables, policy, changes, queryFailures, due>>

\* Mutant: the policy is not loaded again after a delete.
GateDrop_NoReload(r) ==
    /\ gpc[r] = "drop"
    /\ IF Here(gtask[r].id) THEN resource' = [resource EXCEPT ![gtask[r].id].state = "gone"]
       ELSE UNCHANGED resource
    /\ GateGoto(r, "done")
    /\ UNCHANGED <<bound, button, policy, changes, queryFailures, due>>

GateDrop(r) ==
    /\ gpc[r] = "drop"
    /\ IF Here(gtask[r].id)
       THEN /\ resource' = [resource EXCEPT ![gtask[r].id].state = "gone"]
            /\ GateGoto(r, "read_resources")
       ELSE UNCHANGED resource /\ GateGoto(r, "done")
    /\ UNCHANGED <<bound, button, policy, changes, queryFailures, due>>

\* save_action_resources: find_action_by_id, then ensure_resources_exist.
GateFindAction(r) ==
    /\ gpc[r] = "find_action"
    /\ GateGoto(r, IF button[gtask[r].action] = "gone" THEN "done" ELSE "exist")
    /\ UNCHANGED <<gateTables, policy, changes, queryFailures, due>>

GateExist(r) ==
    /\ gpc[r] = "exist"
    /\ GateGoto(r, IF \A id \in gtask[r].asked : Here(id) THEN "delete_old" ELSE "done")
    /\ UNCHANGED <<gateTables, policy, changes, queryFailures, due>>

BindingsOf(a) == {p \in bound : p[1] = a}

\* Mutant: the old rows are deleted before the transaction.
GateDeleteOld_NoTransaction(r) ==
    /\ gpc[r] = "delete_old"
    /\ bound' = bound \ BindingsOf(gtask[r].action)
    /\ GateMove(r, "commit", [gtask[r] EXCEPT !.rows = {}])
    /\ UNCHANGED <<resource, button, policy, changes, queryFailures, due>>

\* In the transaction: the old rows as this statement sees them, ...
GateDeleteOld(r) ==
    /\ gpc[r] = "delete_old"
    /\ GateMove(r, "commit", [gtask[r] EXCEPT !.rows = BindingsOf(gtask[r].action)])
    /\ UNCHANGED <<gateTables, policy, changes, queryFailures, due>>

\* ... the new ones, and the commit.  The unique index refuses a pair that
\* another save has committed since.
GateCommit(r) ==
    /\ gpc[r] = "commit"
    /\ LET t    == gtask[r]
           left == bound \ t.rows
           new  == {<<t.action, id>> : id \in t.asked}
       IN  IF left \cap new # {} THEN UNCHANGED bound /\ GateGoto(r, "done")
           ELSE bound' = left \cup new /\ GateGoto(r, "read_resources")
    /\ UNCHANGED <<resource, button, policy, changes, queryFailures, due>>

Reloading(r) == gpc[r] \in {"read_actions", "replace"}

\* reload_policy: the enabled resources, ...
GateReadResources(r) ==
    /\ gpc[r] = "read_resources"
    /\ GateMove(r, IF EnabledRows = {} THEN "replace" ELSE "read_actions",
                [gtask[r] EXCEPT !.rows = EnabledRows, !.clears = due,
                        !.elders = {x \in GateRequests : Reloading(x)}])
    /\ UNCHANGED <<gateTables, policy, changes, queryFailures, due>>

\* ... the actions bound to them, ...
GateReadActions(r) ==
    /\ gpc[r] = "read_actions"
    /\ GateMove(r, "replace", [gtask[r] EXCEPT !.rules = RulesOf(gtask[r].rows)])
    /\ UNCHANGED <<gateTables, policy, changes, queryFailures, due>>

\* ... and the registry's lock.  A reload that was under way when this one
\* began will put the older tables back.
GateReplace(r) ==
    /\ gpc[r] = "replace"
    /\ policy' = gtask[r].rules
    /\ due' = (due \ gtask[r].clears) \cup (IF gtask[r].late THEN {<<"overtaken", r>>} ELSE {})
    /\ gtask' = [x \in GateRequests |->
                    IF x \in gtask[r].elders /\ Reloading(x) THEN [gtask[x] EXCEPT !.late = TRUE]
                    ELSE IF x = r THEN NoGateTask ELSE gtask[x]]
    /\ gpc' = [gpc EXCEPT ![r] = "done"]
    /\ UNCHANGED <<gateTables, changes, queryFailures>>

\* A query of the reload fails: the change stays, the policy too.
GateFails(r) ==
    /\ gpc[r] \in {"read_resources", "read_actions"} /\ queryFailures < GateFailures
    /\ queryFailures' = queryFailures + 1
    /\ due' = IF gtask[r].op = "reload" THEN due ELSE due \cup {<<"failed", r>>}
    /\ GateGoto(r, "done")
    /\ UNCHANGED <<gateTables, policy, changes>>

\* update_button and delete_menu of module Permissions, as seen from here.
GateButton(a) ==
    /\ button[a] # "gone" /\ changes < ButtonChanges
    /\ \E b \in {"on", "off", "gone"} \ {button[a]} : button' = [button EXCEPT ![a] = b]
    /\ changes' = changes + 1
    /\ due' = due \cup {<<"button", changes>>}
    /\ UNCHANGED <<resource, bound, policy, gpc, gtask, queryFailures>>

\* History: a save counts when it commits, and an endpoint is held while the
\* same resources match it and all of them ask for an action.
Stays(e) == Guarded(e)' /\ Matching(e)' = Matching(e)

GateWatch ==
    LET replacing == {r \in GateRequests : gpc[r] = "replace" /\ gpc'[r] = "done"}
    IN  /\ agreed' = IF \E r \in GateRequests : gpc[r] = "commit" /\ gpc'[r] # "commit"
                     THEN bound' ELSE agreed
        /\ heldBy' = [r \in GateRequests |->
                         IF gpc'[r] \notin {"read_actions", "replace"} THEN {}
                         ELSE IF gpc[r] = "read_resources" THEN GuardedNow
                         ELSE {e \in heldBy[r] : Stays(e)}]
        /\ held' = IF replacing # {} THEN UNION {heldBy[r] : r \in replacing}
                   ELSE {e \in held : Stays(e)}

----------------------------------------------------------------------------
\* ResourcePermissionPlugin: the policy of the tables, or one that allows
\* everything when they cannot be read.
GateStart(rows, pairs) ==
    /\ resource = rows /\ bound = pairs /\ agreed = pairs
    /\ button = [a \in Actions |-> "on"]
    /\ \/ policy = RulesOf(EnabledRows) /\ due = {} /\ held = GuardedNow /\ queryFailures = 0
       \/ policy = {} /\ due = {<<"failed", "start">>} /\ held = {} /\ queryFailures = 1
    /\ gpc = [r \in GateRequests |-> "idle"] /\ gtask = [r \in GateRequests |-> NoGateTask]
    /\ changes = 0
    /\ heldBy = [r \in GateRequests |-> {}]

\* The tables are as earlier runs left them: a method and path once, as the
\* index has it, and bindings of rows that exist.
GateInit ==
    \E rows \in [Resources -> [state : {"unborn", "row"}, at : Wanted, enabled : {"on", "off"}]],
       pairs \in SUBSET (Actions \X Resources) :
        /\ \A x, y \in Resources :
              rows[x].state = "row" /\ rows[y].state = "row" /\ rows[x].at = rows[y].at => x = y
        /\ \A p \in pairs : rows[p[2]].state = "row"
        /\ GateStart(rows, pairs)

GateStep(r) == \/ GateBegin(r) \/ GateFind(r) \/ GateUnique(r) \/ GateWrite(r)
               \/ GateCount(r) \/ GateDrop(r)
               \/ GateFindAction(r) \/ GateExist(r) \/ GateDeleteOld(r) \/ GateCommit(r)
               \/ GateReadResources(r) \/ GateReadActions(r) \/ GateReplace(r) \/ GateFails(r)

GateNext == /\ \/ \E r \in GateRequests : GateStep(r)
               \/ \E a \in Actions : GateButton(a)
            /\ GateWatch

GateSpec == GateInit /\ [][GateNext]_gateVars

----------------------------------------------------------------------------
(* Properties. *)

GateTypeOK ==
    /\ resource \in [Resources -> [state : {"unborn", "row", "gone"}, at : Wanted,
                                   enabled : {"on", "off"}]]
    /\ bound \subseteq Actions \X Resources
    /\ button \in [Actions -> {"on", "off", "gone"}]
    /\ policy \subseteq [at : Wanted, actions : SUBSET Actions]
    /\ held \subseteq Endpoints

\* Whatever is saved, moved, enabled or reloaded at the same time: while the
\* same resources match an endpoint and each asks for an action, by what the
\* saves that succeeded bound, since the reload began that wrote the policy,
\* nobody reaches its handler without a session and an action.
GuardedStaysGuarded ==
    \A e \in held, t \in Tokens :
        RequiresAuth(e) /\ Reaches(e, t) => t.kind = "valid" /\ t.perms # {}

\* When the administration is at rest the policy is that of the tables,
\* unless a button has changed since, a reload has failed, or one has
\* installed what it read before a later one began.
PolicyCatchesUp ==
    GateActiveNow = {} /\ due = {} => policy = RulesOf(EnabledRows)
=============================================================================
