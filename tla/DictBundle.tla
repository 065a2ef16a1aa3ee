----------------------------- MODULE DictBundle -----------------------------
(***************************************************************************)
(* The dictionary types and their values, and the services that write      *)
(* them (summer-domain/src/dict.rs): the calls of the administration, and  *)
(* the bundles, which are planned against two queries and applied in the   *)
(* same transaction.                                                       *)
(*                                                                         *)
(* A query is a step; the first one is a request's first step.  What a     *)
(* bundle writes shows when it commits; it rolls back when a row that it   *)
(* updates is gone, or its type was created by another.  The fields that   *)
(* are compared and written alike are one field, `look`.  Rows of the      *)
(* system come with the installation; no call makes one.                   *)
(*                                                                         *)
(* Bounds: the ids of both tables are drawn from 1 .. MaxDictId; each      *)
(* request of DictRequests runs once, at most DictActive at a time.        *)
(***************************************************************************)
EXTENDS Integers, FiniteSets, Functions

CONSTANTS DictRequests, DictScript, Codes, Values, Faces, Nothing,
          Seed, \* the code and the value that are the system's
          MaxDictId, DictActive

DictOperations == {"create_type", "update_type", "delete_type",
                   "create_data", "update_data", "delete_data", "apply"}

ASSUME DictAssumption ==
    /\ IsFiniteSet(DictRequests) /\ IsFiniteSet(Values)
    /\ DictScript \in [DictRequests -> SUBSET DictOperations]
    /\ Seed \in [code : Codes, value : Values, look : Faces]
    /\ MaxDictId \in Nat /\ DictActive \in Nat
    /\ Nothing \notin Values \cup Faces

VARIABLES dtypes,  \* id -> row
          ddata,   \* id -> row
          nextDict,
          dpc, dtask,
          \* history
          bundled,   \* the bundle applied last, if nothing was written since
          revalued,  \* an update has set a value, which it does not check
          dictRaces  \* <<a, b>>: an a wrote that a b had overtaken since its check

dictVars == <<dtypes, ddata, nextDict, dpc, dtask, bundled, revalued, dictRaces>>

TypeRows == [code : Codes, look : Faces, system : BOOLEAN]
DataRows == [code : Codes, value : Values, look : Faces, system : BOOLEAN]

\* validate_dict_bundle_spec: the values of a bundle are distinct.
Bundles == [code : Codes, look : Faces, items : [Values -> Faces \cup {Nothing}]]

ItemsOf(spec) == {v \in Values : spec.items[v] # Nothing}

NoDictTask == [op |-> "apply", id |-> 0,
               code |-> Nothing, value |-> Nothing, look |-> Nothing, \* the fields given
               spec |-> Nothing,
               type |-> Nothing, \* of a bundle: what it does to its type,
               update |-> [i \in {} |-> Nothing], \* the rows of data it updates, with
               create |-> {},    \*   their look, and the values it creates
               late |-> {}]      \* history: the writers since its check

TypesOf(code)       == {i \in DOMAIN dtypes : dtypes[i].code = code}
DataOf(code, value) == {i \in DOMAIN ddata : ddata[i].code = code /\ ddata[i].value = value}
With(table, id, row) == [i \in DOMAIN table \cup {id} |-> IF i = id THEN row ELSE table[i]]
Without(table, id)  == [i \in DOMAIN table \ {id} |-> table[i]]

DictInit ==
    /\ dtypes = [i \in {1} |-> [code |-> Seed.code, look |-> Seed.look, system |-> TRUE]]
    /\ ddata = [i \in {2} |-> [code |-> Seed.code, value |-> Seed.value, look |-> Seed.look,
                               system |-> TRUE]]
    /\ nextDict = 3
    /\ dpc = [r \in DictRequests |-> "idle"]
    /\ dtask = [r \in DictRequests |-> NoDictTask]
    /\ bundled = Nothing /\ revalued = FALSE /\ dictRaces = {}

DictRunning == {r \in DictRequests : dpc[r] \notin {"idle", "done"}}

DLook(r, step, t) ==
    /\ dpc' = [dpc EXCEPT ![r] = step]
    /\ dtask' = [dtask EXCEPT ![r] = t]
    /\ UNCHANGED <<dtypes, ddata, nextDict, bundled, revalued, dictRaces>>

DEnd(r) == DLook(r, "done", NoDictTask)

\* A step that writes ends the request, and overtakes those that run.
DWrite(r) ==
    /\ dpc' = [dpc EXCEPT ![r] = "done"]
    /\ dtask' = [q \in DictRequests |->
                   IF q = r THEN NoDictTask
                   ELSE [dtask[q] EXCEPT !.late =
                           IF q \in DictRunning THEN @ \cup {dtask[r].op} ELSE @]]
    /\ dictRaces' = dictRaces \cup {<<dtask[r].op, o>> : o \in dtask[r].late}

WriteTypes(r, table) == /\ DWrite(r) /\ dtypes' = table /\ bundled' = Nothing
                        /\ UNCHANGED <<ddata, revalued>>
WriteData(r, table)  == /\ DWrite(r) /\ ddata' = table /\ bundled' = Nothing
                        /\ UNCHANGED dtypes

\* The first query, and what follows it unless it refuses.
DBegin(r, op, found, step, t) ==
    /\ dpc[r] = "idle" /\ op \in DictScript[r]
    /\ Cardinality(DictRunning) < DictActive
    /\ IF found THEN DLook(r, step, [t EXCEPT !.op = op]) ELSE DEnd(r)

----------------------------------------------------------------------------
(* Types. *)

BeginCreateType(r) == \E c \in Codes, l \in Faces :
    DBegin(r, "create_type", TypesOf(c) = {}, "insert_type",
           [NoDictTask EXCEPT !.code = c, !.look = l])

\* The unique index on the code refuses a second row.
InsertType(r) ==
    LET t == dtask[r] IN
    /\ dpc[r] = "insert_type"
    /\ IF TypesOf(t.code) = {}
         THEN /\ nextDict <= MaxDictId
              /\ WriteTypes(r, With(dtypes, nextDict,
                                   [code |-> t.code, look |-> t.look, system |-> FALSE]))
              /\ nextDict' = nextDict + 1
         ELSE DEnd(r)

BeginUpdateType(r) == \E i \in DOMAIN dtypes, l \in Faces :
    DBegin(r, "update_type", ~dtypes[i].system, "write_type",
           [NoDictTask EXCEPT !.id = i, !.look = l])

\* An update of a row that is gone fails.
WriteType(r) ==
    /\ dpc[r] = "write_type"
    /\ IF dtask[r].id \in DOMAIN dtypes
         THEN /\ WriteTypes(r, [dtypes EXCEPT ![dtask[r].id].look = dtask[r].look])
              /\ UNCHANGED nextDict
         ELSE DEnd(r)

BeginDeleteType(r) == \E i \in DOMAIN dtypes :
    DBegin(r, "delete_type", ~dtypes[i].system, "count_data",
           [NoDictTask EXCEPT !.id = i, !.code = dtypes[i].code])

CountData(r) ==
    /\ dpc[r] = "count_data"
    /\ IF \E i \in DOMAIN ddata : ddata[i].code = dtask[r].code
         THEN DEnd(r) ELSE DLook(r, "delete_type", dtask[r])

DeleteType(r) ==
    /\ dpc[r] = "delete_type"
    /\ IF dtask[r].id \in DOMAIN dtypes
         THEN WriteTypes(r, Without(dtypes, dtask[r].id)) /\ UNCHANGED nextDict
         ELSE DEnd(r)

----------------------------------------------------------------------------
(* Data. *)

BeginCreateData(r) == \E c \in Codes, v \in Values, l \in Faces :
    DBegin(r, "create_data", TypesOf(c) # {}, "check_value",
           [NoDictTask EXCEPT !.code = c, !.value = v, !.look = l])

\* Mutant: the value is looked for under every type but its own.
CheckValue_Skip(r) ==
    /\ dpc[r] = "check_value"
    /\ DLook(r, "insert_data", dtask[r])

CheckValue(r) ==
    /\ dpc[r] = "check_value"
    /\ IF DataOf(dtask[r].code, dtask[r].value) # {}
         THEN DEnd(r) ELSE DLook(r, "insert_data", dtask[r])

InsertData(r) ==
    LET t == dtask[r] IN
    /\ dpc[r] = "insert_data"
    /\ nextDict <= MaxDictId
    /\ WriteData(r, With(ddata, nextDict, [code |-> t.code, value |-> t.value, look |-> t.look,
                                          system |-> FALSE]))
    /\ nextDict' = nextDict + 1
    /\ UNCHANGED revalued

\* One of the fields is given.
BeginUpdateData(r) ==
    \E i \in DOMAIN ddata, v \in Values \cup {Nothing}, l \in Faces \cup {Nothing} :
        /\ v = Nothing <=> l # Nothing
        /\ DBegin(r, "update_data", ~ddata[i].system, "write_data",
                  [NoDictTask EXCEPT !.id = i, !.value = v, !.look = l])

Set(row, t) == IF t.value # Nothing THEN [row EXCEPT !.value = t.value]
               ELSE [row EXCEPT !.look = t.look]

\* The value is not checked against the others.
WriteDatum(r) ==
    LET t == dtask[r] IN
    /\ dpc[r] = "write_data"
    /\ IF t.id \in DOMAIN ddata
         THEN /\ WriteData(r, [ddata EXCEPT ![t.id] = Set(@, t)])
              /\ revalued' = (revalued \/ t.value # Nothing)
              /\ UNCHANGED nextDict
         ELSE DEnd(r)

BeginDeleteData(r) == \E i \in DOMAIN ddata :
    DBegin(r, "delete_data", ~ddata[i].system, "delete_data",
           [NoDictTask EXCEPT !.id = i])

DeleteData(r) ==
    /\ dpc[r] = "delete_data"
    /\ IF dtask[r].id \in DOMAIN ddata
         THEN WriteData(r, Without(ddata, dtask[r].id)) /\ UNCHANGED <<nextDict, revalued>>
         ELSE DEnd(r)

----------------------------------------------------------------------------
(* Bundles. *)

\* apply_dict_type_spec and apply_dict_item_spec refuse to update the system's.
MayUpdate(row) == ~row.system

\* dict_type_changed_fields, dict_item_changed_fields
Differs(row, look) == row.look # look

\* apply_dict_bundle's first query, and what it means for the type.
BeginApplyBundle(r) == \E spec \in Bundles :
    \/ /\ TypesOf(spec.code) = {}
       /\ DBegin(r, "apply", TRUE, "read_items",
                 [NoDictTask EXCEPT !.spec = spec, !.type = "create"])
    \/ \E i \in TypesOf(spec.code) :
         LET differs == Differs(dtypes[i], spec.look) IN
         DBegin(r, "apply", differs => MayUpdate(dtypes[i]), "read_items",
                [NoDictTask EXCEPT !.spec = spec, !.id = i,
                    !.type = IF differs THEN "update" ELSE "noop"])

\* The rows that the items are matched to by their value, of several the one
\* that the map kept; 0 for none.
MatchesOf(spec) ==
    {m \in [ItemsOf(spec) -> DOMAIN ddata \cup {0}] :
        \A v \in ItemsOf(spec) : LET d == DataOf(spec.code, v)
                                 IN  m[v] \in IF d = {} THEN {0} ELSE d}

Updates(spec, m) == {v \in ItemsOf(spec) : m[v] # 0 /\ Differs(ddata[m[v]], spec.items[v])}

\* The second query; the plan and the refusals follow in memory.
ReadItems(r) ==
    LET t == dtask[r] IN
    /\ dpc[r] = "read_items"
    /\ \E m \in MatchesOf(t.spec) :
         LET updates == Updates(t.spec, m) IN
         IF \A v \in updates : MayUpdate(ddata[m[v]])
           THEN DLook(r, "commit", [t EXCEPT
                                      !.update = [i \in {m[v] : v \in updates} |->
                                                    t.spec.items[ddata[i].value]],
                                      !.create = {v \in ItemsOf(t.spec) : m[v] = 0}])
           ELSE DEnd(r)

\* Mutant: an item is matched and left as it is.
Refreshed_Noop(row, look) == row

\* apply_dict_item_spec on a row that exists
Refreshed(row, look) == [row EXCEPT !.look = look]

CommitBundle(r) ==
    LET t    == dtask[r]
        spec == t.spec
        base == IF t.type = "create" THEN nextDict + 1 ELSE nextDict
        row(v) == [code |-> spec.code, value |-> v, look |-> spec.items[v], system |-> FALSE]
    IN
    /\ dpc[r] = "commit"
    /\ IF /\ t.type = "create" => TypesOf(spec.code) = {}
          /\ t.type = "update" => t.id \in DOMAIN dtypes
          /\ DOMAIN t.update \subseteq DOMAIN ddata
         THEN /\ nextDict' = base + Cardinality(t.create)
              /\ nextDict' <= MaxDictId + 1
              /\ DWrite(r)
              /\ dtypes' = CASE t.type = "create" ->
                                  With(dtypes, nextDict, [code |-> spec.code, look |-> spec.look,
                                                          system |-> FALSE])
                             [] t.type = "update" -> [dtypes EXCEPT ![t.id].look = spec.look]
                             [] t.type = "noop" -> dtypes
              /\ \E id \in Injection(t.create, base .. nextDict' - 1) :
                   ddata' = [i \in DOMAIN ddata \cup Range(id) |->
                               IF i \in DOMAIN t.update THEN Refreshed(ddata[i], t.update[i])
                               ELSE IF i \in DOMAIN ddata THEN ddata[i]
                               ELSE row(CHOOSE v \in t.create : id[v] = i)]
              /\ bundled' = IF t.late = {} THEN spec ELSE Nothing
              /\ UNCHANGED revalued
         ELSE DEnd(r)

DictNext == \E r \in DictRequests :
    \/ BeginCreateType(r) \/ InsertType(r) \/ BeginUpdateType(r) \/ WriteType(r)
    \/ BeginDeleteType(r) \/ CountData(r) \/ DeleteType(r)
    \/ BeginCreateData(r) \/ CheckValue(r) \/ InsertData(r)
    \/ BeginUpdateData(r) \/ WriteDatum(r) \/ BeginDeleteData(r) \/ DeleteData(r)
    \/ BeginApplyBundle(r) \/ ReadItems(r) \/ CommitBundle(r)

DictSpec == DictInit /\ [][DictNext]_dictVars

----------------------------------------------------------------------------
(* Properties. *)

\* The rows have their types, and a code names one type.
DictTypeOK ==
    /\ DOMAIN dtypes \cup DOMAIN ddata \subseteq 1 .. (nextDict - 1)
    /\ \A i \in DOMAIN dtypes : dtypes[i] \in TypeRows /\ TypesOf(dtypes[i].code) = {i}
    /\ \A i \in DOMAIN ddata : ddata[i] \in DataRows
    /\ bundled \in Bundles \cup {Nothing}

\* What came with the installation is there as it came, whatever is called:
\* updates, deletions and bundles alike leave it.
SystemRowsStand ==
    /\ \E i \in TypesOf(Seed.code) : dtypes[i].system /\ dtypes[i].look = Seed.look
    /\ \E i \in DataOf(Seed.code, Seed.value) : ddata[i].system /\ ddata[i].look = Seed.look

Valuing == {"create_data", "apply"}

\* A type has no value twice, unless an update set one, which is not
\* checked, or two that create values overtook each other: the check and
\* the insert are two queries, and the table has no unique index.
ValuesUnique ==
    ~revalued /\ dictRaces \cap (Valuing \X Valuing) = {} =>
        \A i \in DOMAIN ddata : DataOf(ddata[i].code, ddata[i].value) = {i}

\* Data has its type, unless the type was deleted by a request that ran
\* beside the one that put the data there.
DataHasType ==
    dictRaces \cap ((Valuing \X {"delete_type"}) \cup ({"delete_type"} \X Valuing)) = {} =>
        \A i \in DOMAIN ddata : TypesOf(ddata[i].code) # {}

\* Applying a bundle brings the tables to it: applied again, with nothing
\* written in between, it finds its type and its items as it wants them,
\* unless it has an item whose value two rows share.
BundleConverges ==
    bundled # Nothing /\ (\A v \in ItemsOf(bundled) : Cardinality(DataOf(bundled.code, v)) <= 1) =>
        /\ \E i \in TypesOf(bundled.code) : ~Differs(dtypes[i], bundled.look)
        /\ \A m \in MatchesOf(bundled) : /\ Updates(bundled, m) = {}
                                         /\ \A v \in ItemsOf(bundled) : m[v] # 0

\* The dictionary has a type for all its data, each value once, what the
\* system brought, and what a bundle asked for.
DictConsistent ==
    DictTypeOK /\ SystemRowsStand /\ ValuesUnique /\ DataHasType /\ BundleConverges
=============================================================================
