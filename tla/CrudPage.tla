------------------------------ MODULE CrudPage ------------------------------
(***************************************************************************)
(* What the generators of summer-mcp write for one table: an API with a    *)
(* contract for each call (generation_context.rs, templates/backend) and a *)
(* page with a list, a search bar and a form (frontend_page_generator.rs,  *)
(* templates/frontend/page).  The fields of a form do not touch each       *)
(* other: one column is followed, whatever its kind, its name and what the *)
(* caller asked of the generator, through the page that was generated.     *)
(*                                                                         *)
(* The browser asks for the row's details when the form opens and never    *)
(* takes a request back, so an answer finds whatever form is there.        *)
(*                                                                         *)
(* Names stand for their classes: "password" is hidden and password-like,  *)
(* "token" only the latter, "salt" only the former; "create_by" is an      *)
(* audit actor, "create_time" a time stamp, "sort" a skipped keyword.      *)
(* Of the kinds, "decimal" stands for Uuid, "number" for Float and Time,   *)
(* "date" for DateTime, "json" for Other.  Bounds: MaxOpenings, MaxOthers. *)
(***************************************************************************)
EXTENDS Integers, FiniteSets

CONSTANTS Columns,      \* the columns and what is asked of the generator
          PageRows,     \* rows that exist when the page is opened
          NewRow,       \* the row the page may create
          MaxOpenings,  \* how often the form opens
          MaxOthers     \* changes by others

\* Of a field the caller may ask that it is in or out, and which widget it gets.
Answers == {"default", "in", "out"}
Wishes  == [create : Answers, update : Answers, list : Answers, detail : Answers,
            query : Answers, form : Answers, required : Answers,
            hint : {"default", "value", "range"}, meta : {"default", "value", "range"}]

ASSUME PageAssumption ==
    /\ \A c \in Columns : c.asked \in Wishes
    /\ MaxOpenings \in Nat /\ MaxOthers \in Nat

VARIABLES
    column,
    db,         \* the column in each row
    listed,     \* the rows on the page, as its list was read
    panel,      \* the form: open, in which mode, on which row
    form,       \* what it holds
    loading,    \* detailLoading
    details,    \* the detail requests, by the opening that sent them
    saving,     \* the submit under way
    openings, others,
    \* history
    touched,    \* the user has typed since the form opened
    basis,      \* what was read last of the row that the form is about
    crossed,    \* the answer for another form came in
    tainted,    \* rows that were saved from such a form
    refused     \* the last save the API refused

pageVars == <<column, db, listed, panel, form, loading, details, saving, openings, others,
              touched, basis, crossed, tainted, refused>>

Rows    == PageRows \cup {NewRow}
\* A cell that holds no data, no such row, no such field in an answer or a
\* payload.
Null    == <<"null">>
Empty   == <<"empty">>
Off     == <<"off">>
Preset  == <<"preset">>     \* the default of the database
Absent  == <<"absent">>
Missing == <<"missing">>
NoSave  == [stage |-> "none"]
\* Data carries the row it was meant for.
First(r) == <<"first", r>>
Typed(r) == <<"typed", r>>
Other(r) == <<"other", r>>

-----------------------------------------------------------------------------
(* The contract of the API                                                 *)

HiddenOnRead(c)  == c.name \in {"password", "salt"}
SystemManaged(c) == c.name \in {"create_by", "create_time"}
AuditActor(c)    == c.name = "create_by"
PasswordLike(c)  == c.name \in {"password", "token"}
Skipped(c)       == c.name = "sort"

\* The primary key aside, a column may be written unless its name is blocked.
Writable(c) == ~ SystemManaged(c)

\* What the caller asks for replaces the default.
Selected(asked, default) == IF asked = "default" THEN default ELSE asked = "in"

QueriedByDefault(c) ==
    ~ HiddenOnRead(c) /\ ~ AuditActor(c) /\ c.kind # "json" /\ ~ Skipped(c)

\* The calls that have the field.
Contract(c) ==
    [create |-> Selected(c.asked.create, Writable(c)),
     update |-> Selected(c.asked.update, Writable(c)),
     list   |-> Selected(c.asked.list, ~ HiddenOnRead(c)),
     detail |-> Selected(c.asked.detail, ~ HiddenOnRead(c)),
     query  |-> Selected(c.asked.query, QueriedByDefault(c))]

\* A request that asks for more than a contract allows is turned down.
SelectionAllowed(c) ==
    /\ c.asked.create = "in" \/ c.asked.update = "in" => Writable(c)
    /\ c.asked.list = "in" \/ c.asked.detail = "in" => ~ HiddenOnRead(c)

CreateRequired(c) == ~ c.nullable /\ ~ c.preset

\* A time stamp is searched by its range alone.
RangeOnly(c) == c.kind = "date" /\ c.name = "create_time"

QueryParams(c) == (IF RangeOnly(c) THEN {} ELSE {"value"})
                      \cup (IF c.kind = "date" THEN {"start", "end"} ELSE {})

-----------------------------------------------------------------------------
(* The page                                                                *)

Submitted(c) == Contract(c).create \/ Contract(c).update

\* A field is skipped on the form by default, and may be asked for.
OnForm(c) == Submitted(c) /\ Selected(c.asked.form, c.kind # "json" /\ ~ Skipped(c))

\* A form may have the fields of the two contracts.
FormAllowed(c) == c.asked.form = "in" => Submitted(c)

Generable(c) == SelectionAllowed(c) /\ FormAllowed(c)

\* The modes in which the form has the field.
FormVisibility(c) ==
    CASE PasswordLike(c)                          -> {"add"}
      [] Contract(c).create /\ Contract(c).update -> {"add", "edit"}
      [] Contract(c).create                       -> {"add"}
      [] OTHER                                    -> {"edit"}

\* Mutant: a field without a default is not asked for.
FormRequired_Lax(c) == Selected(c.asked.required, FALSE)

FormRequired(c) == Selected(c.asked.required, Contract(c).create /\ CreateRequired(c))

\* Boxes of text start empty, switches off, the rest undefined.
DefaultFormValue(c) ==
    CASE c.options                        -> Missing
      [] c.kind \in {"string", "decimal"} -> Empty
      [] c.kind = "boolean"               -> IF c.preset THEN Preset ELSE Off
      [] OTHER                            -> Missing

\* What is asked of a widget: field_ui_meta goes before field_hints.
Hint(c) == IF c.asked.meta # "default" THEN c.asked.meta ELSE c.asked.hint

InferredWidget(c) == IF c.kind = "date" /\ ~ PasswordLike(c) THEN "range" ELSE "value"

SearchWidget(c) == IF Hint(c) = "default" THEN InferredWidget(c) ELSE Hint(c)

OnSearchBar(c) == Contract(c).query /\ ~ AuditActor(c) /\ ~ PasswordLike(c) /\ c.kind # "json"

SearchParams(c) == IF SearchWidget(c) = "range" THEN {"start", "end"} ELSE {"value"}

\* What the generator writes into the page for the field.
PageField(c) ==
    [modes    |-> IF OnForm(c) THEN FormVisibility(c) ELSE {},
     required |-> FormRequired(c),
     blank    |-> DefaultFormValue(c)]

-----------------------------------------------------------------------------
(* The page at work                                                        *)

contract == Contract(column)
field    == PageField(column)

ShownIn(mode) == mode \in field.modes

\* The operator ?? of the page.
OrElse(value, other) == IF value \in {Null, Missing} THEN other ELSE value

Known(value, given) == IF given THEN value ELSE Missing

PageInit ==
    /\ column \in {c \in Columns : Generable(c)}
    /\ db \in [Rows -> UNION {{First(r), Null, Absent} : r \in Rows}]
    /\ \A r \in PageRows : db[r] \in {First(r)} \cup (IF column.nullable THEN {Null} ELSE {})
    /\ db[NewRow] = Absent
    /\ listed = db
    /\ panel = [open |-> FALSE, mode |-> "add", row |-> NewRow]
    /\ form = field.blank
    /\ loading = FALSE
    /\ details = [k \in 1 .. MaxOpenings |-> [stage |-> "none"]]
    /\ saving = NoSave
    /\ openings = 0 /\ others = 0
    /\ touched = FALSE /\ basis = Missing /\ crossed = FALSE
    /\ tainted = {} /\ refused = NoSave

\* showFormPanel and the watcher that fills the form.
OpenPanel(mode, row) ==
    /\ ~ panel.open /\ openings < MaxOpenings
    /\ panel' = [open |-> TRUE, mode |-> mode, row |-> row]
    /\ openings' = openings + 1
    /\ touched' = FALSE /\ crossed' = FALSE

OpenAdd ==
    /\ OpenPanel("add", NewRow)
    /\ form' = field.blank
    /\ basis' = Missing
    /\ UNCHANGED <<column, db, listed, loading, details, saving, others, tainted, refused>>

\* Mutant: the form keeps what it held when the list has nothing.
OpenEdit_Keep(r) ==
    /\ listed[r] # Absent
    /\ OpenPanel("edit", r)
    /\ form' = OrElse(Known(listed[r], contract.list), form)
    /\ basis' = Known(listed[r], contract.list)
    /\ loading' = TRUE
    /\ details' = [details EXCEPT ![openings'] = [stage |-> "sent", row |-> r]]
    /\ UNCHANGED <<column, db, listed, saving, others, tainted, refused>>

\* The list's values are put in the form until the row's details are there.
OpenEdit(r) ==
    /\ listed[r] # Absent
    /\ OpenPanel("edit", r)
    /\ form' = OrElse(Known(listed[r], contract.list), field.blank)
    /\ basis' = Known(listed[r], contract.list)
    /\ loading' = TRUE
    /\ details' = [details EXCEPT ![openings'] = [stage |-> "sent", row |-> r]]
    /\ UNCHANGED <<column, db, listed, saving, others, tainted, refused>>

\* get_by_id.
ReadDetail(k) ==
    /\ details[k].stage = "sent"
    /\ LET r == details[k].row
       IN  details' = [details EXCEPT ![k] =
               IF db[r] = Absent THEN [stage |-> "failed"]
               ELSE [stage |-> "read", row |-> r, value |-> Known(db[r], contract.detail)]]
    /\ UNCHANGED <<column, db, listed, panel, form, loading, saving, openings, others,
                   touched, basis, crossed, tainted, refused>>

\* Whether the answer belongs to the form that is open.
Belongs(k) == panel.mode = "edit" /\ panel.row = details[k].row

\* Mutant: a field that the details do not have is reset.
FillForm_Reset(value) == OrElse(value, field.blank)

FillForm(value) == OrElse(value, form)

\* The answer goes into the form, whichever is open by now.
DetailAnswered(k) ==
    /\ details[k].stage \in {"read", "failed"}
    /\ IF details[k].stage = "failed" THEN UNCHANGED <<form, basis, crossed>>
       ELSE /\ form' = FillForm(details[k].value)
            /\ basis' = IF Belongs(k) /\ contract.detail THEN details[k].value ELSE basis
            /\ crossed' = (crossed \/ ~ Belongs(k))
    /\ loading' = FALSE
    /\ details' = [details EXCEPT ![k] = [stage |-> "done"]]
    /\ UNCHANGED <<column, db, listed, panel, saving, openings, others, touched, tainted, refused>>

\* What a cleared box leaves; a switch is never clear.
Blank == IF column.kind = "boolean" THEN Off ELSE field.blank

\* The form is masked while details load.
Type ==
    /\ panel.open /\ ~ loading /\ ShownIn(panel.mode)
    /\ form' \in {Typed(panel.row), Blank}
    /\ touched' = TRUE
    /\ UNCHANGED <<column, db, listed, panel, loading, details, saving, openings, others,
                   basis, crossed, tainted, refused>>

\* handleClose.
Close ==
    /\ panel.open
    /\ panel' = [panel EXCEPT !.open = FALSE]
    /\ form' = field.blank
    /\ UNCHANGED <<column, db, listed, loading, details, saving, openings, others,
                   touched, basis, crossed, tainted, refused>>

\* The rules look at the fields the form shows.
Validates == field.required /\ ShownIn(panel.mode) => form \notin {Empty, Missing}

\* handleSubmit up to its await; the button is dead until the answer.
Submit ==
    /\ panel.open /\ saving.stage = "none" /\ Validates
    /\ saving' = [stage |-> "sent", mode |-> panel.mode, row |-> panel.row,
                  value |-> IF ShownIn(panel.mode) THEN form ELSE Missing,
                  touched |-> touched, basis |-> basis, crossed |-> crossed]
    /\ UNCHANGED <<column, db, listed, panel, form, loading, details, openings, others,
                   touched, basis, crossed, tainted, refused>>

\* A value the API can read: an empty Decimal is none, an empty text only
\* where the field is optional, and the text of a password box is no number.
Acceptable(value) ==
    /\ column.kind = "decimal" => value # Empty
    /\ column.kind = "string" /\ CreateRequired(column) => value # Empty
    /\ column.kind = "number" /\ PasswordLike(column) => value # Typed(saving.row)

Taken(known) == Known(saving.value, known)

Saved(row, value) ==
    /\ db' = [db EXCEPT ![row] = value]
    /\ saving' = [saving EXCEPT !.stage = "ok"]
    /\ tainted' = IF saving.crossed THEN tainted \cup {row} ELSE tainted
    /\ UNCHANGED refused

Refuse ==
    /\ saving' = [saving EXCEPT !.stage = "refused"]
    /\ UNCHANGED <<db, tainted>>

\* create: what is left out is the default of the database.
CreateRow ==
    LET value == Taken(contract.create)
        fits  == Acceptable(value) /\ (CreateRequired(column) => value # Missing)
        stored == CASE value # Missing -> value
                    [] column.preset   -> Preset
                    [] OTHER           -> Null
    IN  /\ saving.mode = "add"
        /\ \/ /\ fits /\ db[NewRow] = Absent
              /\ Saved(NewRow, stored)
           \/ /\ ~ fits
              /\ Refuse
              /\ refused' = saving

\* update: apply_to leaves alone what is left out.
UpdateRow ==
    LET r     == saving.row
        value == Taken(contract.update)
        fits  == Acceptable(value) /\ db[r] # Absent
    IN  /\ saving.mode = "edit"
        /\ \/ /\ fits
              /\ Saved(r, IF value = Missing THEN db[r] ELSE value)
           \/ /\ ~ fits
              /\ Refuse
              /\ refused' = IF db[r] = Absent THEN refused ELSE saving

Serve ==
    /\ saving.stage = "sent"
    /\ CreateRow \/ UpdateRow
    /\ UNCHANGED <<column, listed, panel, form, loading, details, openings, others,
                   touched, basis, crossed>>

\* The rest of handleSubmit: it closes the panel that is open by now.
SaveAnswered ==
    /\ saving.stage \in {"ok", "refused"}
    /\ saving' = NoSave
    /\ IF saving.stage = "ok"
       THEN panel' = [panel EXCEPT !.open = FALSE] /\ form' = field.blank
       ELSE UNCHANGED <<panel, form>>
    /\ UNCHANGED <<column, db, listed, loading, details, openings, others,
                   touched, basis, crossed, tainted, refused>>

\* refreshData, after a save and whenever the user asks.
Refresh ==
    /\ listed # db
    /\ listed' = db
    /\ UNCHANGED <<column, db, panel, form, loading, details, saving, openings, others,
                   touched, basis, crossed, tainted, refused>>

\* Another user's update or a delete.
SomeoneElse(r) ==
    /\ others < MaxOthers /\ db[r] # Absent
    /\ db' \in {[db EXCEPT ![r] = v] :
                   v \in {Other(r), Absent} \cup (IF column.nullable THEN {Null} ELSE {})}
    /\ others' = others + 1
    /\ UNCHANGED <<column, listed, panel, form, loading, details, saving, openings,
                   touched, basis, crossed, tainted, refused>>

PageNext ==
    \/ OpenAdd \/ Type \/ Close \/ Submit \/ Serve \/ SaveAnswered \/ Refresh
    \/ \E r \in Rows : OpenEdit(r) \/ SomeoneElse(r)
    \/ \E k \in 1 .. MaxOpenings : ReadDetail(k) \/ DetailAnswered(k)

PageSpec == PageInit /\ [][PageNext]_pageVars

-----------------------------------------------------------------------------
(* Properties                                                              *)

\* A row holds only what was meant for it: a form that was about another row
\* leaves nothing behind, unless the answer to that one's details came in
\* while this one was open and the form was saved.
RowsKeepApart ==
    \A r \in Rows \ tainted : \A other \in Rows \ {r, NewRow} :
        db[r] \notin {First(other), Typed(other), Other(other)}

\* A save of a form in which nobody typed leaves the row as it is, unless the
\* row changed since it was read, or what was read has no value for the field:
\* then the blank of the form is written.  A password never changes.
UntouchedSaveKeeps ==
    [][\A r \in Rows :
          db'[r] # db[r] /\ others' = others /\ saving.mode = "edit" =>
              /\ ~ PasswordLike(column)
              /\ \/ saving.touched \/ saving.crossed
                 \/ saving.basis \in {Null, Missing}
                 \/ saving.basis # db[r]
      ]_pageVars

\* A form that passes its own rules is refused for a reason that lies outside
\* of them: the form does not have the field, or it has it for changes only;
\* an optional number is left blank; a number has the name of a password and
\* got its box of text.
RefusedForCause ==
    refused # NoSave =>
        \/ ~ ShownIn(refused.mode) \/ ~ contract.create \/ column.asked.required = "out"
        \/ column.kind = "decimal" /\ refused.value = Empty
        \/ column.kind = "number" /\ PasswordLike(column)

\* What the search bar sends is what the API looks at, unless the caller chose
\* the widget.
SearchHeeded ==
    OnSearchBar(column) /\ Hint(column) = "default" =>
        SearchParams(column) \subseteq QueryParams(column)

\* The page and the API were generated for each other.
PageFitsApi == RefusedForCause /\ SearchHeeded
=============================================================================
