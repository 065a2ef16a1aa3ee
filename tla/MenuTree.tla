------------------------------ MODULE MenuTree ------------------------------
(***************************************************************************)
(* The table of menus and buttons and the services that write it           *)
(* (summer-domain/src/menu.rs): the calls of the administration, and the   *)
(* synchronisation with a configuration, which is planned against a        *)
(* snapshot and applied in a transaction.  Positions and the permission    *)
(* map are module Permissions'.                                            *)
(*                                                                         *)
(* A query is a step.  What an apply writes shows when it commits; it      *)
(* rolls back when a row that it updates is gone.  The fields that are     *)
(* compared and written alike are one field, `look`; a key is the path of  *)
(* a menu or the mark of a button.                                         *)
(*                                                                         *)
(* Bounds: ids are 1 .. MaxId, given in order; each request of             *)
(* MenuRequests runs once, at most MenuActive at a time; a configuration   *)
(* has one menu at the top, with at most one menu and one button below.    *)
(***************************************************************************)
EXTENDS Integers, FiniteSets

CONSTANTS MenuRequests, MenuScript, Names, Paths, Marks, Looks, Unset, MaxId, MenuActive

MenuOperations == {"create_menu", "create_button", "update_menu", "update_button",
                   "delete_menu", "apply"}

ASSUME MenuAssumption ==
    /\ IsFiniteSet(MenuRequests) /\ IsFiniteSet(Looks)
    /\ MenuScript \in [MenuRequests -> SUBSET MenuOperations]
    /\ MaxId \in Nat /\ MenuActive \in Nat
    /\ Unset \notin Names \cup Paths \cup Marks \cup Looks \cup Nat
    /\ Unset \notin [key : Paths, name : Names, look : Looks] \cup [key : Marks, look : Looks]

VARIABLES menus,    \* id -> row, for the ids in use
          nextId,   \* the sequence of the table
          mpc, mtask,
          \* history
          synced,   \* the configuration applied last, if nothing was written since
          menuRaces \* <<a, b>>: an a wrote that a b had overtaken since its check

menuVars == <<menus, nextId, mpc, mtask, synced, menuRaces>>

Root == 0
MenuRows == [type : {"menu", "button"}, parent : 0 .. MaxId, key : Paths \cup Marks,
             name : Names \cup {Unset}, look : Looks]

\* The body of an update: the fields it names.
MenuChanges == [parent : 0 .. MaxId \cup {Unset}, key : Paths \cup Marks \cup {Unset},
                name : Names \cup {Unset}, look : Looks \cup {Unset}]

\* A configuration: each slot is Unset or what it asks for.
Slots    == {"top", "sub", "button"}
SubMenus == [key : Paths, name : Names, look : Looks]
Specs    == [top : SubMenus, sub : SubMenus \cup {Unset},
             button : [key : Marks, look : Looks] \cup {Unset}]

Asked(spec)   == {s \in Slots : spec[s] # Unset}
TypeOf(slot)  == IF slot = "button" THEN "button" ELSE "menu"

\* validate_menu_config_spec: names are distinct in all the configuration.
ValidSpec(spec) == spec.sub # Unset => spec.sub.name # spec.top.name

NoMenuTask == [op |-> "apply", id |-> 0, row |-> Unset,
               spec |-> Unset, match |-> Unset, plan |-> Unset,
               late |-> {}] \* history: the writers since what it goes by was read

----------------------------------------------------------------------------
(* The plan of a configuration over a snapshot. *)

\* find_existing_menu, find_existing_button: of rows alike, the first in an
\* order that does not decide between them.
Found(table, parent, type, key) ==
    {i \in DOMAIN table : /\ table[i].parent = parent
                          /\ table[i].type = type
                          /\ table[i].key = key}

\* How the slots are matched: to a row, or to none (0).  Below a menu that
\* is not there nothing is.
Matches(table, spec) ==
    LET Pick(parent, slot) ==
            IF spec[slot] = Unset THEN {0}
            ELSE LET f == Found(table, parent, TypeOf(slot), spec[slot].key)
                 IN  IF f = {} THEN {0} ELSE f
        Below(top, slot) == IF top = 0 THEN {0} ELSE Pick(top, slot)
    IN  UNION {{[top |-> t, sub |-> s, button |-> b] :
                    s \in Below(t, "sub"), b \in Below(t, "button")} :
                t \in Pick(Root, "top")}

\* ensure_menu_name_available, ensure_button_auth_mark_available
Available(table, slot, spec, id) ==
    \A i \in DOMAIN table \ {id} :
        /\ slot # "button" /\ table[i].type = "menu" => table[i].name # spec[slot].name
        /\ slot = "button" /\ table[i].type = "button" => table[i].key # spec[slot].key

\* plan_menu_nodes refuses a name that is taken, except below a menu to be
\* created (plan_all_create_for_nodes); apply_menu_nodes refuses it anywhere.
Plannable(table, spec, m) ==
    \A s \in Asked(spec) : (s = "top" \/ m.top # 0) => Available(table, s, spec, m[s])

Appliable(table, spec, m) ==
    \A s \in Asked(spec) : Available(table, s, spec, m[s])

\* menu_changed_fields, button_changed_fields
Changed(row, slot, spec) == \/ row.look # spec[slot].look
                            \/ slot # "button" /\ row.name # spec[slot].name

Action(table, spec, m, s) == IF m[s] = 0 THEN "create"
                             ELSE IF Changed(table[m[s]], s, spec) THEN "update"
                             ELSE "noop"

Plan(table, spec, m) == [s \in Asked(spec) |-> Action(table, spec, m, s)]

\* Mutant: a row is matched and left as it is.
Written_NameOnly(row, slot, spec) ==
    IF slot = "button" THEN row ELSE [row EXCEPT !.name = spec[slot].name]

\* apply_existing_menu, apply_existing_button
Written(row, slot, spec) ==
    IF slot = "button" THEN [row EXCEPT !.look = spec[slot].look]
    ELSE [row EXCEPT !.look = spec[slot].look, !.name = spec[slot].name]

\* create_menu_from_spec, create_button_from_spec
Created(parent, slot, spec) ==
    [type |-> TypeOf(slot), parent |-> parent, key |-> spec[slot].key,
     name |-> IF slot = "button" THEN Unset ELSE spec[slot].name,
     look |-> spec[slot].look]

\* The ids that the rows have which the slots end in; new ones are given in
\* the order of apply_menu_nodes.
IdsOf(spec, m) ==
    LET rank == [top |-> 0, button |-> 1, sub |-> 2]
        new  == {s \in Asked(spec) : m[s] = 0}
    IN  [s \in Asked(spec) |->
           IF m[s] # 0 THEN m[s]
           ELSE nextId + Cardinality({q \in new : rank[q] < rank[s]})]

\* apply_menu_nodes and apply_button_specs over the rows of now.
Applied(t) ==
    LET ids     == IdsOf(t.spec, t.match)
        slots   == {s \in Asked(t.spec) : t.plan[s] # "noop"}
        Row(s)  == IF t.plan[s] = "update" THEN Written(menus[ids[s]], s, t.spec)
                   ELSE Created(IF s = "top" THEN Root ELSE ids.top, s, t.spec)
    IN  [i \in DOMAIN menus \cup {ids[s] : s \in slots} |->
            IF \E s \in slots : ids[s] = i
              THEN Row(CHOOSE s \in slots : ids[s] = i) ELSE menus[i]]

----------------------------------------------------------------------------
MenuInit ==
    /\ menus = [i \in {} |-> Unset]
    /\ nextId = 1
    /\ mpc = [r \in MenuRequests |-> "idle"]
    /\ mtask = [r \in MenuRequests |-> NoMenuTask]
    /\ synced = Unset
    /\ menuRaces = {}

MenuRunning == {r \in MenuRequests : mpc[r] \notin {"idle", "done"}}

\* A step that only looks.
MLook(r, step, t) ==
    /\ mpc' = [mpc EXCEPT ![r] = step]
    /\ mtask' = [mtask EXCEPT ![r] = t]
    /\ UNCHANGED <<menus, nextId, synced, menuRaces>>

MEnd(r) == MLook(r, "done", NoMenuTask)

\* A step that writes ends the request, and overtakes those that run.
MWrite(r, table) ==
    /\ menus' = table
    /\ mpc' = [mpc EXCEPT ![r] = "done"]
    /\ mtask' = [q \in MenuRequests |->
                   IF q = r THEN NoMenuTask
                   ELSE [mtask[q] EXCEPT !.late =
                           IF q \in MenuRunning THEN @ \cup {mtask[r].op} ELSE @]]
    /\ menuRaces' = menuRaces \cup {<<mtask[r].op, o>> : o \in mtask[r].late}

MayBegin(r) == mpc[r] = "idle" /\ Cardinality(MenuRunning) < MenuActive

MBegin(r, op, t, step) ==
    /\ op \in MenuScript[r]
    /\ MLook(r, step, [t EXCEPT !.op = op])

IsMenu(i)    == i \in DOMAIN menus /\ menus[i].type = "menu"
AnyParent    == {Root} \cup {i \in DOMAIN menus : IsMenu(i)}
NameTaken(name, id) == \E i \in DOMAIN menus \ {id} : IsMenu(i) /\ menus[i].name = name

\* The caller names a parent that it has seen.
BeginCreateMenu(r) == \E p \in AnyParent, k \in Paths, n \in Names, l \in Looks :
    MBegin(r, "create_menu",
           [NoMenuTask EXCEPT !.row = [type |-> "menu", parent |-> p, key |-> k,
                                       name |-> n, look |-> l]], "check_name")

BeginCreateButton(r) == \E p \in AnyParent \ {Root}, k \in Marks, l \in Looks :
    MBegin(r, "create_button",
           [NoMenuTask EXCEPT !.row = [type |-> "button", parent |-> p, key |-> k,
                                       name |-> Unset, look |-> l]], "check_parent")

\* The body names any of the fields; the route name is a menu's, and a button
\* is not moved to the root.
BeginUpdateMenu(r) == \E i \in DOMAIN menus :
    \E dto \in MenuChanges :
        /\ dto.parent \in AnyParent \cup {Unset}
        /\ dto.key \in (IF IsMenu(i) THEN Paths ELSE Marks) \cup {Unset}
        /\ dto.name # Unset => IsMenu(i)
        /\ dto.parent = Root => IsMenu(i)
        /\ MBegin(r, IF IsMenu(i) THEN "update_menu" ELSE "update_button",
                  [NoMenuTask EXCEPT !.id = i, !.row = dto],
                  IF dto.name = Unset THEN "write" ELSE "check_name")

BeginDeleteMenu(r) == \E i \in DOMAIN menus :
    MBegin(r, "delete_menu", [NoMenuTask EXCEPT !.id = i], "count_children")

BeginApply(r) == \E spec \in Specs :
    /\ ValidSpec(spec)
    /\ MBegin(r, "apply", [NoMenuTask EXCEPT !.spec = spec], "snapshot")

Naming == {"create_menu", "update_menu", "apply"}

CheckName(r) ==
    LET t == mtask[r] IN
    /\ mpc[r] = "check_name"
    /\ IF NameTaken(t.row.name, t.id) THEN MEnd(r)
       ELSE MLook(r, "write", [t EXCEPT !.late = @ \ Naming])

CheckParent(r) ==
    /\ mpc[r] = "check_parent"
    /\ IF mtask[r].row.parent \in DOMAIN menus
         THEN MLook(r, "write", [mtask[r] EXCEPT !.late = {}])
         ELSE MEnd(r)

Insert(r) ==
    /\ mpc[r] = "write" /\ mtask[r].op \in {"create_menu", "create_button"}
    /\ nextId <= MaxId
    /\ MWrite(r, [i \in DOMAIN menus \cup {nextId} |->
                    IF i = nextId THEN mtask[r].row ELSE menus[i]])
    /\ nextId' = nextId + 1
    /\ synced' = Unset

Or(new, old) == IF new = Unset THEN old ELSE new

\* apply_to
ChangedBy(row, dto) == [row EXCEPT !.parent = Or(dto.parent, @), !.key = Or(dto.key, @),
                                   !.name = Or(dto.name, @), !.look = Or(dto.look, @)]

\* An update of a row that is gone fails.
Update(r) ==
    /\ mpc[r] = "write" /\ mtask[r].op \in {"update_menu", "update_button"}
    /\ IF mtask[r].id \in DOMAIN menus
         THEN /\ MWrite(r, [menus EXCEPT ![mtask[r].id] = ChangedBy(@, mtask[r].row)])
              /\ synced' = Unset
              /\ UNCHANGED nextId
         ELSE MEnd(r)

\* Mutant: a menu is deleted with its children in place.
CountChildren_Skip(r) ==
    /\ mpc[r] = "count_children"
    /\ MLook(r, "delete", [mtask[r] EXCEPT !.late = {}])

\* The roles that hold the menu may forbid it too.
CountChildren(r) ==
    /\ mpc[r] = "count_children"
    /\ \/ MEnd(r)
       \/ /\ \A i \in DOMAIN menus : menus[i].parent # mtask[r].id
          /\ MLook(r, "delete", [mtask[r] EXCEPT !.late = {}])

DeleteMenu(r) ==
    /\ mpc[r] = "delete"
    /\ IF mtask[r].id \in DOMAIN menus
         THEN /\ MWrite(r, [i \in DOMAIN menus \ {mtask[r].id} |-> menus[i]])
              /\ synced' = Unset
              /\ UNCHANGED nextId
         ELSE MEnd(r)

\* apply_menu_config reads all rows once; plan and checks follow in memory.
Snapshot(r) ==
    LET spec == mtask[r].spec IN
    /\ mpc[r] = "snapshot"
    /\ \E m \in Matches(menus, spec) :
         IF Plannable(menus, spec, m) /\ Appliable(menus, spec, m)
           THEN MLook(r, "commit", [mtask[r] EXCEPT !.match = m,
                                       !.plan = Plan(menus, spec, m), !.late = {}])
           ELSE MEnd(r)

CommitApply(r) ==
    LET t       == mtask[r]
        updated == {t.match[s] : s \in {q \in Asked(t.spec) : t.plan[q] = "update"}}
        created == {s \in Asked(t.spec) : t.plan[s] = "create"}
    IN
    /\ mpc[r] = "commit"
    /\ nextId + Cardinality(created) <= MaxId + 1
    /\ IF updated \subseteq DOMAIN menus
         THEN /\ MWrite(r, Applied(t))
              /\ nextId' = nextId + Cardinality(created)
              /\ synced' = IF t.late = {} THEN t.spec ELSE Unset
         ELSE MEnd(r)

MenuNext == \E r \in MenuRequests :
    \/ /\ MayBegin(r)
       /\ \/ BeginCreateMenu(r) \/ BeginCreateButton(r) \/ BeginUpdateMenu(r)
          \/ BeginDeleteMenu(r) \/ BeginApply(r)
    \/ CheckName(r) \/ CheckParent(r) \/ Insert(r) \/ Update(r)
    \/ CountChildren(r) \/ DeleteMenu(r) \/ Snapshot(r) \/ CommitApply(r)

MenuSpec == MenuInit /\ [][MenuNext]_menuVars

----------------------------------------------------------------------------
(* Properties. *)

\* The rows have their types; a button is below a menu, and ids are not
\* given twice.
MenuTypeOK ==
    /\ DOMAIN menus \subseteq 1 .. (nextId - 1)
    /\ \A i \in DOMAIN menus : /\ menus[i] \in MenuRows
                               /\ menus[i].type = "button" => menus[i].parent # Root
    /\ synced # Unset => synced \in Specs

\* No two menus have the same name, unless one was written after its check
\* and another write that names menus in between: the check and the write
\* are two queries, and the table has no unique index.
NamesUnique ==
    menuRaces \cap (Naming \X Naming) = {} =>
        \A i, j \in DOMAIN menus :
            IsMenu(i) /\ IsMenu(j) /\ menus[i].name = menus[j].name => i = j

Placing == {"create_menu", "create_button", "update_menu", "update_button", "apply"}

\* Every row hangs on a menu that exists, unless its parent was deleted
\* while it was being placed there.
ParentsExist ==
    menuRaces \cap ((Placing \X {"delete_menu"}) \cup ({"delete_menu"} \X Placing)) = {} =>
        \A i \in DOMAIN menus : menus[i].parent \in DOMAIN menus \cup {Root}

Siblings == \E i, j \in DOMAIN menus :
    i # j /\ menus[i].parent = menus[j].parent /\ menus[i].type = menus[j].type
          /\ menus[i].key = menus[j].key

\* Applying a configuration brings the table to it: planned again, with
\* nothing written in between, it is accepted and asks for nothing, unless
\* siblings share a path or a mark.
SyncConverges ==
    synced # Unset /\ ~Siblings =>
        \A m \in Matches(menus, synced) :
            /\ Plannable(menus, synced, m)
            /\ \A s \in Asked(synced) : Action(menus, synced, m, s) = "noop"

\* Every row hangs on a menu, menus have names of their own, and a configuration
\* that was applied is what they hold.
TreeConsistent == MenuTypeOK /\ NamesUnique /\ ParentsExist /\ SyncConverges
=============================================================================
