-------------------------- MODULE PermissionsProofs --------------------------
(***************************************************************************)
(* Proofs about Permissions, for any number of requests, buttons and       *)
(* roles: positions, the map that is reloaded, the tokens that are packed  *)
(* with one map and unpacked with another, and what a change of a role or  *)
(* of the user's roles leaves of the tokens issued before it.              *)
(***************************************************************************)
EXTENDS Permissions, FiniteSetTheorems, TLAPS

ButtonSteps == {"read_max", "insert_row", "update_row", "count_bindings", "delete_row"}
RoleSteps   == {"delete_grants", "insert_grants", "read_users", "count_users",
                "unbind_role", "drop_role"}
Places      == Ended \cup ButtonSteps \cup RoleSteps \cup
               {"load", "install", "force_refresh", "find_user", "commit", "ban",
                "logout_all", "unban", "roles", "menus", "issue"}

Tasks == [op : Operations, button : Buttons \cup {None}, role : Roles \cup {None},
          asked : SUBSET (Buttons \cup Roles), change : BOOLEAN,
          wish : {"keep", "enabled", "disabled"}, was : {"enabled", "disabled"},
          next : Nat, seen : SUBSET (Roles \cup Buttons \cup (Buttons \X Nat)),
          late : BOOLEAN]

Tokens == [usable : BOOLEAN, iat : Nat, bits : SUBSET Nat, list : SUBSET Buttons,
           granted : SUBSET Buttons, late : BOOLEAN, blind : BOOLEAN, unheard : BOOLEAN]

\* What a request holds belongs to its place.
Fits(r) ==
    LET t == task[r] IN
    /\ pc[r] \in ButtonSteps => t.button \in Buttons
    /\ pc[r] \in RoleSteps => t.role \in Roles
    /\ pc[r] \in {"delete_grants", "insert_grants"} => t.asked \subseteq Buttons
    /\ pc[r] \in {"find_user", "commit"} => t.asked \subseteq Roles
    /\ pc[r] = "menus" => t.seen \subseteq Roles
    /\ pc[r] = "issue" => t.seen \subseteq Buttons
    /\ pc[r] = "install" => t.seen \subseteq given

\* The types, and that the map was made of positions that were given out.
Types ==
    /\ now \in 0 .. MaxTime /\ failures \in 0 .. MaxFailures
    /\ bit \in [Buttons -> Nat \cup {None}] /\ enabled \subseteq Rows
    /\ roles \subseteq Roles /\ holds \subseteq Roles /\ grants \subseteq Roles \X Buttons
    /\ status \in {"enabled", "disabled"}
    /\ given \subseteq Buttons \X Nat /\ \A b \in Rows : <<b, bit[b]>> \in given
    /\ \E mappings \in SUBSET given : map \in MapsOf(mappings)
    /\ deny \in [kind : {"none", "banned", "refresh"}, at : 0 .. now]
    /\ pc \in [Requests -> Places]
    /\ task \in [Requests -> Tasks] /\ \A r \in Requests : Fits(r)
    /\ token \in [Requests -> Tokens] /\ \A r \in Requests : token[r].iat <= now
    /\ raced \subseteq Buttons /\ mapLost \in BOOLEAN

\* A button that is being created is nobody else's and was never there, so
\* that positions are given out once per button and number at most the buttons.
Created    == {m[1] : m \in given}
Creating   == Readers({"read_max", "insert_row"})
Positions ==
    /\ \A m, n \in given : m[1] = n[1] => m = n
    /\ \A r \in Creating : task[r].button \notin Created
    /\ \A r, q \in Creating : r # q => task[r].button # task[q].button
    /\ \A m \in given : m[2] < Cardinality(Created)
    /\ \A r \in Ranking : task[r].next <= Cardinality(Created)

\* Whoever was not overtaken is about to insert above every position.
Ranked ==
    /\ BitsApart
    /\ \A r \in Ranking : ~ task[r].late => \A b \in Rows : bit[b] < task[r].next

\* The map in use is the table's, or is about to be replaced, or is lost; what
\* a reload that was not overtaken has read is the table's.
MapHolds ==
    /\ \A r \in Loading : ~ task[r].late => task[r].seen = Mappings
    /\ MapFollowsTable

\* What login has read and nobody has changed since is so.
ReadIsTrue ==
    \A r \in Requests : ~ task[r].late =>
      /\ pc[r] = "menus" => task[r].seen = holds
      /\ pc[r] = "issue" => task[r].seen \subseteq PermissionsOfRoles(holds)

\* What a token carries was given to what it was granted, and unless the map
\* was behind everything it was granted is carried.
TokensPacked ==
    \A r \in Requests :
      LET t == token[r] IN
      /\ {} \in {t.bits, t.list}
      /\ \A n \in t.bits : \E g \in t.granted : <<g, n>> \in given
      /\ t.usable /\ t.bits = {} => t.list = t.granted
      /\ t.usable /\ ~ t.late /\ ~ t.blind /\ t.bits # {} =>
           \A m \in t.granted : \E n \in t.bits : <<m, n>> \in given

\* Who is about to tell the sessions that roles have changed.
Telling(q) ==
    \/ pc[q] \in {"insert_grants", "read_users"} /\ task[q].role \in holds
    \/ pc[q] = "force_refresh"
    \/ pc[q] = "unban" /\ task[q].change

Dead(t) == deny.kind = "banned" \/ (deny.kind = "refresh" /\ t.iat <= deny.at)

\* A token that holds what no role of the user grants is dead, or is about to
\* be, or was overlooked.
RevokedHolds ==
    \A r \in Requests :
      LET t == token[r] IN
      /\ t.usable /\ ~ t.late /\ ~ t.unheard
      /\ \E m \in t.granted : \A role \in holds : <<role, m>> \notin grants
      => Dead(t) \/ \E q \in Requests : Telling(q)

Inv == Types /\ Positions /\ Ranked /\ MapHolds /\ ReadIsTrue /\ TokensPacked /\ RevokedHolds

-----------------------------------------------------------------------------
(* Operators.                                                              *)

\* A finite, non-empty set of numbers has a maximum: among the sets of those
\* above an element, one is minimal.
LEMMA MaxIs ==
    ASSUME NEW T \in SUBSET Int, IsFiniteSet(T), T # {}
    PROVE  Max(T) \in T /\ \A y \in T : Max(T) >= y
<1> DEFINE above  == [x \in T |-> {y \in T : y > x}]
           aboves == {above[x] : x \in T}
<1>1. aboves \subseteq FiniteSubsetsOf(T) /\ aboves # {}
    <2>1. FiniteSubsetsOf(T) = SUBSET T
        BY FS_FiniteSubsetsOfFinite
    <2>2. \A x \in T : above[x] \in SUBSET T
        OBVIOUS
    <2>3. \E x \in T : above[x] \in aboves
        OBVIOUS
    <2>4. \A A \in aboves : \E x \in T : A = above[x]
        OBVIOUS
    <2> HIDE DEF above, aboves
    <2> QED
        BY <2>1, <2>2, <2>3, <2>4
<1>2. IsWellFoundedOn(StrictSubsetOrdering(T), FiniteSubsetsOf(T))
    BY FS_StrictSubsetOrderingWellFounded
<1>3. PICK A \in aboves : \A B \in aboves : <<B, A>> \notin StrictSubsetOrdering(T)
    <2> HIDE DEF aboves
    <2> QED
        BY <1>1, <1>2, WFMin
<1>4. PICK x \in T : A = above[x]
    BY <1>3
<1>5. ASSUME NEW y \in T, y > x PROVE FALSE
    <2>1. \A z \in T : z > y => z > x
        BY <1>5
    <2>2. above[y] = {z \in T : z > y} /\ above[x] = {z \in T : z > x}
        OBVIOUS
    <2>3. above[y] \subseteq above[x]
        BY <2>1, <2>2
    <2>4. y \in above[x] /\ y \notin above[y]
        BY <1>5, <2>2
    <2>5. above[y] \in aboves /\ above[y] \in SUBSET T /\ above[x] \in SUBSET T
        BY <2>2
    <2>6. <<above[y], above[x]>> \in StrictSubsetOrdering(T)
        <3> HIDE DEF above
        <3> QED
            BY <2>3, <2>4, <2>5 DEF StrictSubsetOrdering
    <2> QED
        BY <1>3, <1>4, <2>5, <2>6
<1>6. \A y \in T : x >= y
    BY <1>4, <1>5
<1> QED
    BY <1>4, <1>6 DEF Max

\* PermissionMap::new: both directions are made of the mappings.
LEMMA MapOf ==
    ASSUME NEW S \in SUBSET (Buttons \X Nat), NEW m \in MapsOf(S)
    PROVE  /\ DOMAIN m.forward = {p[1] : p \in S} /\ DOMAIN m.reverse = {p[2] : p \in S}
           /\ \A b \in DOMAIN m.forward : <<b, m.forward[b]>> \in S
           /\ \A n \in DOMAIN m.reverse : <<m.reverse[n], n>> \in S
<1> DEFINE marks == {p[1] : p \in S}
           used  == {p[2] : p \in S}
           fwd   == [b \in marks |-> CHOOSE n \in used : <<b, n>> \in S]
<1>1. PICK r \in [used -> marks] :
        m = [forward |-> fwd, reverse |-> r] /\ \A n \in used : <<r[n], n>> \in S
    BY DEF MapsOf
<1>2. \A b \in marks : <<b, fwd[b]>> \in S
    <2> TAKE b \in marks
    <2>1. PICK p \in S : p[1] = b
        OBVIOUS
    <2>2. p[2] \in used /\ <<b, p[2]>> \in S
        BY <2>1
    <2> QED
        BY <2>2
<1> HIDE DEF marks, used, fwd
<1>3. DOMAIN fwd = marks
    BY DEF fwd
<1>4. m.forward = fwd /\ m.reverse = r
    BY <1>1
<1> QED
    BY <1>1, <1>2, <1>3, <1>4 DEF marks, used

-----------------------------------------------------------------------------
(* What a step leaves of the requests and of the tokens.                   *)

\* A request keeps what it holds; it may be found overtaken.
Kept(q) ==
    /\ pc'[q] = pc[q]
    /\ task'[q].button = task[q].button /\ task'[q].role = task[q].role
    /\ task'[q].asked = task[q].asked /\ task'[q].change = task[q].change
    /\ task'[q].next = task[q].next /\ task'[q].seen = task[q].seen
    /\ ~ task'[q].late => ~ task[q].late

Alone(r) ==
    /\ pc' \in [Requests -> Places] /\ task' \in [Requests -> Tasks]
    /\ \A q \in Requests \ {r} : Kept(q)

LEMMA GotoAlone ==
    ASSUME Types, NEW r \in Requests, NEW t \in Tasks, NEW step \in Places,
           Goto(r, step), task' = [task EXCEPT ![r] = t]
    PROVE  Alone(r) /\ pc'[r] = step /\ task'[r] = t
BY DEF Types, Goto, Alone, Kept

LEMMA ProceedAlone ==
    ASSUME Types, NEW r \in Requests, NEW step \in Places, Proceed(r, step)
    PROVE  Alone(r) /\ pc'[r] = step /\ task'[r] = task[r]
BY DEF Types, Goto, Proceed, Alone, Kept

LEMMA NoTaskType == NoTask \in Tasks
BY DEF NoTask, Tasks, Operations

LEMMA FinishAlone ==
    ASSUME Types, NEW r \in Requests, Finish(r)
    PROVE  Alone(r) /\ pc'[r] = "done" /\ task'[r] = NoTask
BY NoTaskType, GotoAlone DEF Finish, Places, Ended

LEMMA OvertakeAlone ==
    ASSUME Types, NEW r \in Requests, NEW t \in Tasks, NEW step \in Places, NEW Behind,
           Goto(r, step), Overtake(r, Behind, t)
    PROVE  /\ Alone(r) /\ pc'[r] = step /\ task'[r] = t
           /\ \A q \in Requests \ {r} : ~ task'[q].late => q \notin Behind
<1>1. \A q \in Requests \ {r} : task'[q] = [task[q] EXCEPT !.late = @ \/ q \in Behind]
    BY DEF Overtake
<1>2. \A q \in Requests : task[q] \in Tasks
    BY DEF Types
<1>3. task'[r] = t /\ task' = [q \in Requests |-> task'[q]]
    BY DEF Overtake
<1>4. ASSUME NEW q \in Requests \ {r}
      PROVE  /\ task'[q] \in Tasks
             /\ task'[q].button = task[q].button /\ task'[q].role = task[q].role
             /\ task'[q].asked = task[q].asked /\ task'[q].change = task[q].change
             /\ task'[q].next = task[q].next /\ task'[q].seen = task[q].seen
             /\ ~ task'[q].late => ~ task[q].late /\ q \notin Behind
    <2> DEFINE now_late == task[q].late \/ q \in Behind
    <2>1. now_late \in BOOLEAN /\ (~ now_late => ~ task[q].late /\ q \notin Behind)
        BY <1>2 DEF Tasks
    <2> HIDE DEF now_late
    <2>2. task'[q] = [task[q] EXCEPT !.late = now_late]
        BY <1>1 DEF now_late
    <2> QED
        BY <1>2, <2>1, <2>2 DEF Tasks
<1>5. task' \in [Requests -> Tasks]
    BY <1>3, <1>4
<1>6. pc' \in [Requests -> Places] /\ pc'[r] = step /\ \A q \in Requests \ {r} : pc'[q] = pc[q]
    BY DEF Types, Goto
<1> QED
    BY <1>3, <1>4, <1>5, <1>6 DEF Alone, Kept

\* A token is never changed but for what history notes of it.
SameToken(q) ==
    /\ token'[q].usable = token[q].usable /\ token'[q].iat = token[q].iat
    /\ token'[q].bits = token[q].bits /\ token'[q].list = token[q].list
    /\ token'[q].granted = token[q].granted /\ token'[q].late = token[q].late
    /\ token'[q].blind = token[q].blind
    /\ ~ token'[q].unheard => ~ token[q].unheard

SameTokens == token' \in [Requests -> Tokens] /\ \A q \in Requests : SameToken(q)

LEMMA SameTokensKept == Types /\ UNCHANGED token => SameTokens
BY DEF Types, SameTokens, SameToken

LEMMA UnannouncedKeeps ==
    ASSUME Types, NEW unless, Unannounced(unless)
    PROVE  /\ SameTokens
           /\ \A q \in Requests : ~ unless /\ token[q].usable => token'[q].unheard
<1>1. ASSUME NEW q \in Requests
      PROVE  /\ token'[q] \in Tokens /\ SameToken(q)
             /\ ~ unless /\ token[q].usable => token'[q].unheard
    <2> DEFINE heard_not == token[q].unheard \/ (token[q].usable /\ ~ unless)
    <2>0. token[q] \in Tokens
        BY DEF Types
    <2>1. /\ heard_not \in BOOLEAN /\ (~ heard_not => ~ token[q].unheard)
          /\ (~ unless /\ token[q].usable => heard_not)
        BY <2>0 DEF Tokens
    <2> HIDE DEF heard_not
    <2>2. token'[q] = [token[q] EXCEPT !.unheard = heard_not]
        BY DEF Unannounced, heard_not
    <2> QED
        BY <2>0, <2>1, <2>2 DEF Tokens, SameToken
<1>2. token' = [q \in Requests |-> token'[q]]
    BY DEF Unannounced
<1> QED
    BY <1>1, <1>2 DEF SameTokens

\* A request begins: nothing else changes, and what it is about exists; a
\* button that is created is new.
Starts(r) ==
    /\ Alone(r) /\ UNCHANGED <<now, failures, tables, process, token, history>>
    /\ pc[r] = "idle" /\ ~ task'[r].late
    /\ pc'[r] \in {"read_max", "update_row", "count_bindings", "delete_grants",
                   "count_users", "find_user", "roles"}
    /\ pc'[r] \in ButtonSteps => task'[r].button \in Buttons
    /\ pc'[r] \in RoleSteps => task'[r].role \in Roles
    /\ pc'[r] = "delete_grants" => task'[r].asked \subseteq Buttons
    /\ pc'[r] = "find_user" => task'[r].asked \subseteq Roles
    /\ pc'[r] = "read_max" =>
         /\ \A n \in 0 .. Cardinality(Buttons) : <<task'[r].button, n>> \notin given
         /\ \A q \in Active : task[q].button # task'[r].button

LEMMA BeginAlone ==
    ASSUME Types, NEW r \in Requests, NEW op, NEW t \in Tasks, NEW step \in Places,
           Begin(r, op, t, step)
    PROVE  /\ Alone(r) /\ UNCHANGED <<now, failures, tables, process, token, history>>
           /\ pc[r] = "idle" /\ pc'[r] = step /\ task'[r] = t
BY GotoAlone DEF Begin

LEMMA StartMoves ==
    ASSUME Types, NEW r \in Requests, Start(r)
    PROVE  Starts(r)
<1> USE DEF Starts, ButtonSteps, RoleSteps
<1>0. {"read_max", "update_row", "count_bindings", "delete_grants", "count_users",
       "find_user", "roles"} \subseteq Places
    BY DEF Places
<1>1. CASE BeginCreate(r)
    <2>1. PICK b \in Buttons, op \in {"create_button", "sync_button"} :
            /\ \A n \in 0 .. Cardinality(Buttons) : <<b, n>> \notin given
            /\ \A q \in Active : task[q].button # b
            /\ Begin(r, op, [NoTask EXCEPT !.op = op, !.button = b], "read_max")
        BY <1>1 DEF BeginCreate
    <2> DEFINE t == [NoTask EXCEPT !.op = op, !.button = b]
    <2>2. t \in Tasks /\ t.button = b /\ ~ t.late
        BY DEF NoTask, Tasks, Operations
    <2> HIDE DEF t
    <2>3. Begin(r, op, t, "read_max")
        BY <2>1 DEF t
    <2> QED
        BY <1>0, <2>1, <2>2, <2>3, BeginAlone
<1>2. CASE BeginUpdateButton(r)
    <2>1. PICK b \in Rows :
            Begin(r, "update_button", [NoTask EXCEPT !.op = "update_button", !.button = b,
                                       !.change = b \notin enabled], "update_row")
        BY <1>2 DEF BeginUpdateButton
    <2> DEFINE t == [NoTask EXCEPT !.op = "update_button", !.button = b,
                                   !.change = b \notin enabled]
    <2>2. t \in Tasks /\ t.button = b /\ ~ t.late /\ b \in Buttons
        BY DEF NoTask, Tasks, Operations, Rows
    <2> HIDE DEF t
    <2>3. Begin(r, "update_button", t, "update_row")
        BY <2>1 DEF t
    <2> QED
        BY <1>0, <2>2, <2>3, BeginAlone
<1>3. CASE BeginDeleteMenu(r)
    <2>1. PICK b \in Rows :
            Begin(r, "delete_menu", [NoTask EXCEPT !.op = "delete_menu", !.button = b],
                  "count_bindings")
        BY <1>3 DEF BeginDeleteMenu
    <2> DEFINE t == [NoTask EXCEPT !.op = "delete_menu", !.button = b]
    <2>2. t \in Tasks /\ t.button = b /\ ~ t.late /\ b \in Buttons
        BY DEF NoTask, Tasks, Operations, Rows
    <2> HIDE DEF t
    <2>3. Begin(r, "delete_menu", t, "count_bindings")
        BY <2>1 DEF t
    <2> QED
        BY <1>0, <2>2, <2>3, BeginAlone
<1>4. CASE BeginSave(r)
    <2>1. PICK role \in roles, menus \in SUBSET Rows :
            Begin(r, "save_role_permissions",
                  [NoTask EXCEPT !.op = "save_role_permissions", !.role = role,
                                 !.asked = menus], "delete_grants")
        BY <1>4 DEF BeginSave
    <2> DEFINE t == [NoTask EXCEPT !.op = "save_role_permissions", !.role = role,
                                   !.asked = menus]
    <2>2. /\ t \in Tasks /\ t.role = role /\ t.asked = menus /\ ~ t.late
          /\ role \in Roles /\ menus \subseteq Buttons
        BY DEF NoTask, Tasks, Operations, Rows, Types
    <2> HIDE DEF t
    <2>3. Begin(r, "save_role_permissions", t, "delete_grants")
        BY <2>1 DEF t
    <2> QED
        BY <1>0, <2>2, <2>3, BeginAlone
<1>5. CASE BeginDeleteRole(r)
    <2>1. PICK role \in roles :
            Begin(r, "delete_role", [NoTask EXCEPT !.op = "delete_role", !.role = role],
                  "count_users")
        BY <1>5 DEF BeginDeleteRole
    <2> DEFINE t == [NoTask EXCEPT !.op = "delete_role", !.role = role]
    <2>2. t \in Tasks /\ t.role = role /\ ~ t.late /\ role \in Roles
        BY DEF NoTask, Tasks, Operations, Types
    <2> HIDE DEF t
    <2>3. Begin(r, "delete_role", t, "count_users")
        BY <2>1 DEF t
    <2> QED
        BY <1>0, <2>2, <2>3, BeginAlone
<1>6. CASE BeginUpdateUser(r)
    <2>1. PICK change \in BOOLEAN, ids \in SUBSET roles, wish \in {"keep", "enabled", "disabled"} :
            Begin(r, "update_user",
                  [NoTask EXCEPT !.op = "update_user", !.change = change,
                                 !.asked = ids, !.wish = wish], "find_user")
        BY <1>6 DEF BeginUpdateUser
    <2> DEFINE t == [NoTask EXCEPT !.op = "update_user", !.change = change,
                                   !.asked = ids, !.wish = wish]
    <2>2. t \in Tasks /\ t.asked = ids /\ ~ t.late /\ ids \subseteq Roles
        BY DEF NoTask, Tasks, Operations, Types
    <2> HIDE DEF t
    <2>3. Begin(r, "update_user", t, "find_user")
        BY <2>1 DEF t
    <2> QED
        BY <1>0, <2>2, <2>3, BeginAlone
<1>7. CASE BeginLogin(r)
    <2>1. NoTask \in Tasks /\ ~ NoTask.late
        BY NoTaskType DEF NoTask
    <2> QED
        BY <1>0, <1>7, <2>1, BeginAlone DEF BeginLogin
<1> QED
    BY <1>1, <1>2, <1>3, <1>4, <1>5, <1>6, <1>7 DEF Start

\* select max(bit_position) is above every position, and not far above.
LEMMA NextIs ==
    ASSUME Types, Positions
    PROVE  /\ NextPosition \in Nat /\ NextPosition <= Cardinality(Created)
           /\ \A b \in Rows : bit[b] < NextPosition
<1> DEFINE used == {bit[b] : b \in Rows}
<1>1. IsFiniteSet(Created) /\ Cardinality(Created) \in Nat
    <2>1. Created \in SUBSET Buttons
        BY DEF Types, Created
    <2> QED
        BY <2>1, FS_Subset, FS_CardinalityType, PermissionsAssumption
<1>2. \A b \in Rows : bit[b] \in Nat /\ bit[b] < Cardinality(Created)
    BY <1>1 DEF Types, Positions, Rows
<1>3. used \subseteq 0 .. Cardinality(Created) /\ used \in SUBSET Int
    BY <1>1, <1>2
<1>4. IsFiniteSet(used)
    <2>1. IsFiniteSet(0 .. Cardinality(Created))
        BY <1>1, FS_Interval
    <2> HIDE DEF used
    <2> QED
        BY <1>3, <2>1, FS_Subset
<1>5. CASE used = {}
    BY <1>1, <1>5 DEF NextPosition
<1>6. CASE used # {}
    <2>1. Max(used) \in used /\ \A y \in used : Max(used) >= y
        <3> HIDE DEF used
        <3> QED
            BY <1>3, <1>4, <1>6, MaxIs
    <2>2. NextPosition = Max(used) + 1
        BY <1>6 DEF NextPosition
    <2>3. Max(used) \in Nat /\ Max(used) < Cardinality(Created)
        BY <1>2, <2>1
    <2>4. \A b \in Rows : bit[b] \in Nat /\ bit[b] <= Max(used)
        BY <1>2, <2>1
    <2> QED
        BY <1>1, <2>2, <2>3, <2>4
<1> QED
    BY <1>5, <1>6

-----------------------------------------------------------------------------
(* The steps, one by one.                                                  *)

\* A step that only moves its request on.
Quiet(r) ==
    /\ Alone(r)
    /\ UNCHANGED <<now, bit, enabled, grants, holds, status, map, deny, token, given, raced, mapLost>>
    /\ UNCHANGED failures /\ roles' \subseteq roles

LEMMA ReadMaxMoves ==
    ASSUME Types, Positions, NEW r \in Requests, ReadMax(r)
    PROVE  /\ Quiet(r) /\ pc[r] = "read_max" /\ pc'[r] = "insert_row"
           /\ task'[r].button = task[r].button /\ task'[r].next = NextPosition
<1> DEFINE t == [task[r] EXCEPT !.next = NextPosition]
<1>0. NextPosition \in Nat /\ task[r] \in Tasks
    <2>1. task[r] \in Tasks
        BY DEF Types
    <2> QED
        BY <2>1, NextIs
<1>1. t \in Tasks /\ t.button = task[r].button /\ t.next = NextPosition
    BY <1>0 DEF Tasks
<1> HIDE DEF t
<1>2. task' = [task EXCEPT ![r] = t] /\ Goto(r, "insert_row") /\ pc[r] = "read_max"
    BY DEF ReadMax, Types, t
<1>3. UNCHANGED <<now, failures, tables, process, token, history>>
    BY DEF ReadMax
<1> QED
    BY <1>1, <1>2, <1>3, GotoAlone DEF Quiet, Places, ButtonSteps, tables, process, history

\* The steps that read and go on, or end.
LEMMA CountMoves ==
    ASSUME Types, NEW r \in Requests,
           CountBindings(r) \/ ReadUsers(r) \/ CountUsers(r) \/ DropRole(r)
    PROVE  /\ Quiet(r)
           /\ \/ pc'[r] = "done" /\ task'[r] = NoTask
              \/ task'[r] = task[r]
           /\ \/ CountBindings(r) /\ pc[r] = "count_bindings" /\ pc'[r] \in {"done", "delete_row"}
              \/ /\ ReadUsers(r) /\ pc[r] = "read_users"
                 /\ pc'[r] = IF task[r].role \in holds THEN "force_refresh" ELSE "done"
              \/ CountUsers(r) /\ pc[r] = "count_users" /\ pc'[r] \in {"done", "unbind_role"}
              \/ DropRole(r) /\ pc[r] = "drop_role" /\ pc'[r] = "done"
<1>0. {"done", "delete_row", "force_refresh", "unbind_role"} \subseteq Places
    BY DEF Places, ButtonSteps, RoleSteps, Ended
<1>1. CASE CountBindings(r)
    <2>1. Finish(r) \/ Proceed(r, "delete_row")
        BY <1>1 DEF CountBindings
    <2> QED
        BY <1>0, <1>1, <2>1, FinishAlone, ProceedAlone DEF CountBindings, Quiet, tables, process, history
<1>2. CASE ReadUsers(r)
    <2>1. IF task[r].role \in holds THEN Proceed(r, "force_refresh") ELSE Finish(r)
        BY <1>2 DEF ReadUsers
    <2> QED
        BY <1>0, <1>2, <2>1, FinishAlone, ProceedAlone DEF ReadUsers, Quiet, tables, process, history
<1>3. CASE CountUsers(r)
    <2>1. Finish(r) \/ Proceed(r, "unbind_role")
        BY <1>3 DEF CountUsers
    <2> QED
        BY <1>0, <1>3, <2>1, FinishAlone, ProceedAlone DEF CountUsers, Quiet, tables, process, history
<1>4. CASE DropRole(r)
    <2>1. Finish(r)
        BY <1>4 DEF DropRole
    <2> QED
        BY <1>4, <2>1, FinishAlone DEF DropRole, Quiet, process, history
<1> QED
    BY <1>1, <1>2, <1>3, <1>4

LEMMA InsertRowMoves ==
    ASSUME Types, NEW r \in Requests, InsertRow(r)
    PROVE  /\ Alone(r) /\ UNCHANGED <<now, failures, roles, grants, holds, status, process, token>>
           /\ pc[r] = "insert_row"
           /\ bit' = [bit EXCEPT ![task[r].button] = task[r].next]
           /\ enabled' = enabled \cup {task[r].button}
           /\ given' = given \cup {<<task[r].button, task[r].next>>}
           /\ raced' = IF task[r].late THEN raced \cup {task[r].button} ELSE raced
           /\ \/ pc'[r] = "done" /\ mapLost'
              \/ pc'[r] = "load" /\ mapLost' = mapLost
           /\ \A q \in Requests \ {r} : ~ task'[q].late => q \notin Loading \cup Ranking
<1>0. "load" \in Places /\ "done" \in Places /\ task[r] \in Tasks /\ mapLost \in BOOLEAN
    BY DEF Places, Ended, Types
<1> DEFINE Behind == (Loading \cup Ranking) \ {r}
<1>1. /\ Alone(r)
      /\ \/ pc'[r] = "done" /\ task[r].op = "sync_button"
         \/ pc'[r] = "load" /\ task[r].op # "sync_button"
      /\ \A q \in Requests \ {r} : ~ task'[q].late => q \notin Behind
    <2>1. CASE task[r].op = "sync_button"
        <3>1. Goto(r, "done") /\ Overtake(r, Behind, NoTask)
            BY <2>1 DEF InsertRow
        <3> HIDE DEF Behind
        <3> QED
            BY <1>0, <2>1, <3>1, NoTaskType, OvertakeAlone
    <2>2. CASE task[r].op # "sync_button"
        <3>1. Goto(r, "load") /\ Overtake(r, Behind, task[r])
            BY <2>2 DEF InsertRow
        <3> HIDE DEF Behind
        <3> QED
            BY <1>0, <2>2, <3>1, OvertakeAlone
    <2> QED
        BY <2>1, <2>2
<1>2. mapLost' = (mapLost \/ task[r].op = "sync_button")
    BY DEF InsertRow
<1>3. \/ pc'[r] = "done" /\ mapLost'
      \/ pc'[r] = "load" /\ mapLost' = mapLost
    BY <1>0, <1>1, <1>2
<1>4. /\ UNCHANGED <<now, failures, roles, grants, holds, status, process, token>>
      /\ pc[r] = "insert_row"
      /\ bit' = [bit EXCEPT ![task[r].button] = task[r].next]
      /\ enabled' = enabled \cup {task[r].button}
      /\ given' = given \cup {<<task[r].button, task[r].next>>}
      /\ raced' = IF task[r].late THEN raced \cup {task[r].button} ELSE raced
    BY DEF InsertRow
<1> QED
    BY <1>1, <1>3, <1>4

\* A row changes and the map is on its way, or the row is not there.
LEMMA RowMoves ==
    ASSUME Types, NEW r \in Requests, UpdateRow(r) \/ DeleteRow(r)
    PROVE  /\ Alone(r) /\ pc[r] \in {"update_row", "delete_row"}
           /\ UNCHANGED <<now, failures, roles, grants, holds, status, process, token, history>>
           /\ \/ pc'[r] = "done" /\ UNCHANGED <<bit, enabled>>
              \/ /\ pc'[r] = "load" /\ task[r].button \in Rows
                 /\ \/ /\ UNCHANGED bit
                       /\ enabled' \in {enabled \cup {task[r].button}, enabled \ {task[r].button}}
                    \/ /\ bit' = [bit EXCEPT ![task[r].button] = None]
                       /\ enabled' = enabled \ {task[r].button}
                 /\ \A q \in Requests \ {r} : ~ task'[q].late => q \notin Loading \cup Signing
<1>0. "load" \in Places /\ task[r] \in Tasks
    BY DEF Places, Types
<1> DEFINE Behind == (Loading \cup Signing) \ {r}
<1>1. /\ pc[r] \in {"update_row", "delete_row"}
      /\ UNCHANGED <<now, failures, roles, grants, holds, status, process, token, history>>
    BY DEF UpdateRow, DeleteRow, DeleteRowThen
<1>2. CASE task[r].button \in Rows
    <2>1. Overtake(r, Behind, task[r]) /\ Goto(r, "load")
        BY <1>2 DEF UpdateRow, DeleteRow, DeleteRowThen
    <2>2. \/ /\ UNCHANGED bit
             /\ enabled' \in {enabled \cup {task[r].button}, enabled \ {task[r].button}}
          \/ /\ bit' = [bit EXCEPT ![task[r].button] = None]
             /\ enabled' = enabled \ {task[r].button}
        BY <1>2 DEF UpdateRow, DeleteRow, DeleteRowThen
    <2>3. /\ Alone(r) /\ pc'[r] = "load"
          /\ \A q \in Requests \ {r} : ~ task'[q].late => q \notin Behind
        <3> HIDE DEF Behind
        <3> QED
            BY <1>0, <2>1, OvertakeAlone
    <2> QED
        BY <1>1, <1>2, <2>2, <2>3
<1>3. CASE task[r].button \notin Rows
    <2>1. Finish(r) /\ UNCHANGED <<bit, enabled>>
        BY <1>3 DEF UpdateRow, DeleteRow, DeleteRowThen
    <2> QED
        BY <1>1, <2>1, FinishAlone
<1> QED
    BY <1>2, <1>3

LEMMA LoadMappingsMoves ==
    ASSUME Types, NEW r \in Requests, LoadMappings(r)
    PROVE  /\ Quiet(r) /\ pc[r] = "load" /\ pc'[r] = "install"
           /\ task'[r].seen = Mappings /\ Mappings \subseteq given
<1> DEFINE t == [NoTask EXCEPT !.op = task[r].op, !.seen = Mappings]
<1>1. Mappings \subseteq given /\ given \subseteq Buttons \X Nat
    BY DEF Types, Mappings
<1>2. t \in Tasks /\ t.seen = Mappings
    <2>1. task[r].op \in Operations
        BY DEF Types, Tasks
    <2> QED
        BY <1>1, <2>1 DEF NoTask, Tasks, Operations
<1>3. pc[r] = "load" /\ task' = [task EXCEPT ![r] = t] /\ Goto(r, "install")
    BY DEF LoadMappings, LoadAs
<1>4. UNCHANGED <<now, failures, tables, process, token, history>>
    BY DEF LoadMappings, LoadAs
<1> HIDE DEF t
<1> QED
    BY <1>1, <1>2, <1>3, <1>4, GotoAlone DEF Quiet, Places, tables, process, history

LEMMA InstallMapMoves ==
    ASSUME Types, NEW r \in Requests, InstallMap(r)
    PROVE  /\ Alone(r) /\ UNCHANGED <<now, failures, tables, deny, token, given, raced>>
           /\ pc[r] = "install" /\ pc'[r] = "done" /\ task'[r] = NoTask
           /\ map' \in MapsOf(task[r].seen) /\ mapLost' = task[r].late
BY FinishAlone DEF InstallMap

\* Grants go: whoever is signing with them is overtaken, and the administrator
\* is about to tell, or tells everybody at once that nobody will be told.
LEMMA LoseGrantsMoves ==
    ASSUME Types, NEW r \in Requests, DeleteGrants(r) \/ UnbindRole(r)
    PROVE  /\ Alone(r) /\ task'[r] = task[r] /\ SameTokens
           /\ UNCHANGED <<now, failures, bit, enabled, roles, holds, status, process, history>>
           /\ grants' = {g \in grants : g[1] # task[r].role}
           /\ \A q \in Requests \ {r} : ~ task'[q].late => q \notin Signing
           /\ \/ pc[r] = "delete_grants" /\ pc'[r] = "insert_grants"
              \/ /\ pc[r] = "unbind_role" /\ pc'[r] = "drop_role"
                 /\ \A q \in Requests : task[r].role \in holds /\ token[q].usable => token'[q].unheard
<1>0. {"insert_grants", "drop_role"} \subseteq Places /\ task[r] \in Tasks
    BY DEF Places, RoleSteps, Types
<1>1. CASE DeleteGrants(r)
    <2>1. Goto(r, "insert_grants") /\ Overtake(r, Signing, task[r]) /\ UNCHANGED token
          /\ pc[r] = "delete_grants"
          /\ UNCHANGED <<now, failures, bit, enabled, roles, holds, status, process, history>>
          /\ grants' = {g \in grants : g[1] # task[r].role}
        BY <1>1 DEF DeleteGrants
    <2> QED
        BY <1>0, <2>1, OvertakeAlone, SameTokensKept
<1>2. CASE UnbindRole(r)
    <2>1. Goto(r, "drop_role") /\ Overtake(r, Signing, task[r])
          /\ Unannounced(task[r].role \notin holds)
          /\ pc[r] = "unbind_role"
          /\ UNCHANGED <<now, failures, bit, enabled, roles, holds, status, process, history>>
          /\ grants' = {g \in grants : g[1] # task[r].role}
        BY <1>2 DEF UnbindRole
    <2> DEFINE unless == task[r].role \notin holds
    <2>2. /\ SameTokens
          /\ \A q \in Requests : ~ unless /\ token[q].usable => token'[q].unheard
        <3>1. Unannounced(unless)
            BY <2>1
        <3> HIDE DEF unless
        <3> QED
            BY <3>1, UnannouncedKeeps
    <2> QED
        BY <1>0, <2>1, <2>2, OvertakeAlone
<1> QED
    BY <1>1, <1>2

LEMMA InsertGrantsMoves ==
    ASSUME Types, NEW r \in Requests, InsertGrants(r)
    PROVE  /\ Alone(r) /\ SameTokens /\ pc[r] = "insert_grants"
           /\ UNCHANGED <<now, failures, bit, enabled, roles, holds, status, process, history>>
           /\ \/ /\ pc'[r] = "read_users" /\ task'[r] = task[r]
                 /\ grants' = grants \cup ({task[r].role} \X task[r].asked)
                 /\ \A q \in Requests \ {r} : ~ task'[q].late => q \notin Signing
              \/ /\ pc'[r] = "done" /\ UNCHANGED grants
                 /\ \A q \in Requests : token[q].usable => token'[q].unheard
<1>0. "read_users" \in Places /\ task[r] \in Tasks
    BY DEF Places, RoleSteps, Types
<1> DEFINE rows   == {task[r].role} \X task[r].asked
           Behind == Signing \cup Readers({"insert_grants"})
<1>1. pc[r] = "insert_grants"
      /\ UNCHANGED <<now, failures, bit, enabled, roles, holds, status, process, history>>
    BY DEF InsertGrants
<1>2. \/ /\ grants' = grants \cup rows /\ Goto(r, "read_users")
         /\ Overtake(r, Behind, task[r]) /\ UNCHANGED token
      \/ Finish(r) /\ Unannounced(FALSE) /\ UNCHANGED grants
    BY DEF InsertGrants
<1>3. CASE /\ grants' = grants \cup rows /\ Goto(r, "read_users")
           /\ Overtake(r, Behind, task[r]) /\ UNCHANGED token
    <2>1. /\ Alone(r) /\ pc'[r] = "read_users" /\ task'[r] = task[r]
          /\ \A q \in Requests \ {r} : ~ task'[q].late => q \notin Behind
        <3> HIDE DEF Behind
        <3> QED
            BY <1>0, <1>3, OvertakeAlone
    <2> QED
        BY <1>1, <1>3, <2>1, SameTokensKept
<1>4. CASE Finish(r) /\ Unannounced(FALSE) /\ UNCHANGED grants
    BY <1>1, <1>4, FinishAlone, UnannouncedKeeps
<1> QED
    BY <1>2, <1>3, <1>4

Unheard == \A q \in Requests : token[q].usable => token'[q].unheard

LEMMA UnheardBy == Types /\ Unannounced(FALSE) => SameTokens /\ Unheard
BY UnannouncedKeeps DEF Unheard

\* The store takes the time stamp, or the token keeps what it had and nobody
\* is told.
LEMMA ForceRefreshMoves ==
    ASSUME Types, NEW r \in Requests, ForceRefresh(r)
    PROVE  /\ Alone(r) /\ SameTokens /\ pc[r] = "force_refresh" /\ pc'[r] = "done"
           /\ UNCHANGED <<now, tables, map, history>> /\ failures' \in 0 .. MaxFailures
           /\ deny' = [kind |-> "refresh", at |-> now] \/ (UNCHANGED deny /\ Unheard)
<1>0. MaxFailures \in Nat /\ failures \in 0 .. MaxFailures
    BY PermissionsAssumption DEF Types
<1>1. /\ pc[r] = "force_refresh" /\ Finish(r) /\ UNCHANGED <<now, tables, map, history>>
      /\ \/ /\ deny' = [kind |-> "refresh", at |-> now]
            /\ UNCHANGED <<failures, token>>
         \/ /\ failures < MaxFailures
            /\ failures' = failures + 1
            /\ Unannounced(FALSE)
            /\ UNCHANGED deny
    BY DEF ForceRefresh
<1>2. failures' \in 0 .. MaxFailures
    <2>1. failures' = failures \/ (failures < MaxFailures /\ failures' = failures + 1)
        BY <1>1
    <2> QED
        BY <1>0, <2>1
<1> QED
    BY <1>1, <1>2, FinishAlone, SameTokensKept, UnheardBy

LEMMA FindUserMoves ==
    ASSUME Types, NEW r \in Requests, FindUser(r)
    PROVE  /\ Quiet(r) /\ pc[r] = "find_user" /\ pc'[r] = "commit"
           /\ task'[r].asked = task[r].asked
<1> DEFINE t == [task[r] EXCEPT !.was = status]
<1>1. t \in Tasks /\ t.asked = task[r].asked
    <2>1. task[r] \in Tasks /\ status \in {"enabled", "disabled"}
        BY DEF Types
    <2> QED
        BY <2>1 DEF Tasks
<1>2. /\ pc[r] = "find_user" /\ Goto(r, "commit") /\ task' = [task EXCEPT ![r] = t]
      /\ UNCHANGED <<now, failures, tables, process, token, history>>
    BY DEF FindUser, Types
<1> HIDE DEF t
<1> QED
    BY <1>1, <1>2, GotoAlone DEF Quiet, Places, tables, process, history

\* A change of the user's roles is about to be told, or nobody hears of it.
LEMMA CommitUserMoves ==
    ASSUME Types, NEW r \in Requests, CommitUser(r)
    PROVE  /\ Alone(r) /\ SameTokens /\ pc[r] = "commit"
           /\ pc'[r] \in {"ban", "unban", "force_refresh", "done"}
           /\ UNCHANGED <<now, failures, bit, enabled, roles, grants, process, history>>
           /\ status' \in {"enabled", "disabled"}
           /\ holds' = IF task[r].change THEN task[r].asked ELSE holds
           /\ \A q \in Requests \ {r} : ~ task'[q].late => q \notin Signing
           /\ task[r].change => \/ pc'[r] = "force_refresh"
                                \/ pc'[r] = "unban" /\ task'[r].change
                                \/ Unheard
<1> DEFINE t == task[r]
           current == IF t.wish = "keep" THEN t.was ELSE t.wish
           next    == IF t.was # current THEN IF current = "disabled" THEN "ban" ELSE "unban"
                      ELSE IF t.change /\ current # "disabled" THEN "force_refresh"
                      ELSE "done"
           left    == IF next = "done" THEN NoTask
                      ELSE [NoTask EXCEPT !.op = t.op, !.change = t.change]
           unless  == ~ t.change \/ current # "disabled"
<1>1. /\ pc[r] = "commit" /\ Goto(r, next) /\ Overtake(r, Signing, left) /\ Unannounced(unless)
      /\ status' = IF t.wish = "keep" THEN status ELSE t.wish
      /\ holds' = IF t.change THEN t.asked ELSE holds
      /\ UNCHANGED <<now, failures, bit, enabled, roles, grants, process, history>>
    BY DEF CommitUser
<1>2. /\ t.change \in BOOLEAN /\ t.op \in Operations
      /\ t.wish \in {"keep", "enabled", "disabled"} /\ t.was \in {"enabled", "disabled"}
      /\ status \in {"enabled", "disabled"}
    BY DEF Types, Tasks
<1>3. status' \in {"enabled", "disabled"} /\ current \in {"enabled", "disabled"}
    BY <1>1, <1>2
<1>4. next \in {"ban", "unban", "force_refresh", "done"} /\ next \in Places
    BY DEF Places, Ended
<1>5. left \in Tasks /\ (next # "done" => left.change = t.change)
    <2>1. [NoTask EXCEPT !.op = t.op, !.change = t.change] \in Tasks
          /\ [NoTask EXCEPT !.op = t.op, !.change = t.change].change = t.change
        <3> HIDE DEF t
        <3> QED
            BY <1>2 DEF NoTask, Tasks
    <2> HIDE DEF next
    <2> QED
        BY <2>1, NoTaskType
<1>6. t.change => \/ next = "force_refresh" \/ next = "unban" \/ ~ unless
    BY <1>3
<1> HIDE DEF current, next, left, unless
<1>7. Alone(r) /\ pc'[r] = next /\ task'[r] = left
      /\ \A q \in Requests \ {r} : ~ task'[q].late => q \notin Signing
    BY <1>1, <1>4, <1>5, OvertakeAlone
<1>8. SameTokens /\ (~ unless => Unheard)
    BY <1>1, UnannouncedKeeps DEF Unheard
<1> QED
    BY <1>1, <1>3, <1>4, <1>5, <1>6, <1>7, <1>8

\* The key is written, or deleted or left alone and nobody hears of it.
LEMMA RuntimeMoves ==
    ASSUME Types, NEW r \in Requests, Runtime(r)
    PROVE  /\ Alone(r) /\ SameTokens /\ pc[r] \in {"ban", "logout_all", "unban"}
           /\ pc'[r] \in {"done", "logout_all", "force_refresh"}
           /\ UNCHANGED <<now, tables, map, history>> /\ failures' \in 0 .. MaxFailures
           /\ \/ deny' \in {[kind |-> "banned", at |-> 0], [kind |-> "refresh", at |-> now]}
              \/ Unheard /\ deny' \in {deny, NoDeny}
           /\ pc[r] = "ban" /\ deny' # deny => pc'[r] = "logout_all"
<1>0. MaxFailures \in Nat /\ failures \in 0 .. MaxFailures /\ task[r] \in Tasks
    BY PermissionsAssumption DEF Types
<1>1. pc[r] \in {"ban", "logout_all", "unban"} /\ UNCHANGED <<now, tables, map, history>>
    BY DEF Runtime
<1>2. {"logout_all", "force_refresh", "done"} \subseteq Places
    BY DEF Places, Ended
<1>3. CASE /\ failures < MaxFailures /\ failures' = failures + 1
           /\ Finish(r) /\ Unannounced(FALSE) /\ UNCHANGED deny
    <2>1. failures' \in 0 .. MaxFailures
        BY <1>0, <1>3
    <2> QED
        BY <1>1, <1>3, <2>1, FinishAlone, UnheardBy
<1>4. CASE /\ deny' = CASE pc[r] = "ban"        -> [kind |-> "banned", at |-> 0]
                        [] pc[r] = "logout_all" -> [kind |-> "refresh", at |-> now]
                        [] pc[r] = "unban"      -> NoDeny
           /\ IF pc[r] = "ban" THEN Proceed(r, "logout_all")
              ELSE IF pc[r] = "unban" /\ task[r].change THEN Proceed(r, "force_refresh")
              ELSE Finish(r)
           /\ Unannounced(pc[r] # "unban")
           /\ UNCHANGED failures
    <2>1. /\ Alone(r) /\ pc'[r] \in {"done", "logout_all", "force_refresh"}
          /\ pc[r] = "ban" => pc'[r] = "logout_all"
        BY <1>2, <1>4, ProceedAlone, FinishAlone
    <2> DEFINE unless == pc[r] # "unban"
    <2>2. Unannounced(unless)
        BY <1>4
    <2>3. SameTokens /\ (~ unless => Unheard)
        <3> HIDE DEF unless
        <3> QED
            BY <2>2, UnannouncedKeeps DEF Unheard
    <2>4. CASE pc[r] = "ban"
        BY <1>0, <1>1, <1>4, <2>1, <2>3, <2>4
    <2>5. CASE pc[r] = "logout_all"
        BY <1>0, <1>1, <1>4, <2>1, <2>3, <2>5
    <2>6. CASE pc[r] = "unban"
        BY <1>0, <1>1, <1>4, <2>1, <2>3, <2>6
    <2> QED
        BY <1>1, <2>4, <2>5, <2>6
<1> QED
    BY <1>3, <1>4 DEF Runtime

LEMMA ReadRolesMoves ==
    ASSUME Types, NEW r \in Requests, ReadRoles(r)
    PROVE  /\ Quiet(r) /\ pc[r] = "roles" /\ pc'[r] = "menus" /\ task'[r].seen = holds
<1> DEFINE t == [task[r] EXCEPT !.seen = holds, !.late = FALSE]
<1>1. t \in Tasks /\ t.seen = holds
    <2>1. task[r] \in Tasks /\ holds \subseteq Roles
        BY DEF Types
    <2> QED
        BY <2>1 DEF Tasks
<1>2. /\ pc[r] = "roles" /\ Goto(r, "menus") /\ task' = [task EXCEPT ![r] = t]
      /\ UNCHANGED <<now, failures, tables, process, token, history>>
    <2>1. task \in [Requests -> Tasks]
        BY DEF Types
    <2> QED
        BY <2>1 DEF ReadRoles, Tasks
<1> HIDE DEF t
<1> QED
    BY <1>1, <1>2, GotoAlone DEF Quiet, Places, tables, process, history

LEMMA ReadMenusMoves ==
    ASSUME Types, NEW r \in Requests, ReadMenus(r)
    PROVE  /\ Quiet(r) /\ pc[r] = "menus" /\ pc'[r] = "issue"
           /\ task'[r].seen = PermissionsOfRoles(task[r].seen)
           /\ task'[r].late = task[r].late
<1> DEFINE t == [task[r] EXCEPT !.seen = PermissionsOfRoles(@)]
<1>1. t \in Tasks /\ t.seen = PermissionsOfRoles(task[r].seen) /\ t.late = task[r].late
    <2>1. task[r] \in Tasks /\ PermissionsOfRoles(task[r].seen) \subseteq Buttons
        BY DEF Types, PermissionsOfRoles, Rows
    <2> HIDE DEF PermissionsOfRoles
    <2> QED
        BY <2>1 DEF Tasks
<1>2. /\ pc[r] = "menus" /\ Goto(r, "issue") /\ task' = [task EXCEPT ![r] = t]
      /\ UNCHANGED <<now, failures, tables, process, token, history>>
    <2>1. task \in [Requests -> Tasks]
        BY DEF Types
    <2> QED
        BY <2>1 DEF ReadMenus, Tasks
<1> HIDE DEF t
<1> QED
    BY <1>1, <1>2, GotoAlone DEF Quiet, Places, tables, process, history

\* The map in use, packed by a token.
LEMMA ClaimsAre ==
    ASSUME Types, NEW perms \in SUBSET Buttons
    PROVE  LET c == Claims(perms) IN
           /\ c.bits = {map.forward[p] : p \in perms \cap DOMAIN map.forward}
           /\ c.bits \subseteq Nat
           /\ \A n \in c.bits : \E g \in perms : <<g, n>> \in given
           /\ c.list = IF c.bits = {} THEN perms ELSE {}
<1>1. PICK mappings \in SUBSET given : map \in MapsOf(mappings)
    BY DEF Types
<1>2. mappings \in SUBSET (Buttons \X Nat)
    BY <1>1 DEF Types
<1>3. \A b \in DOMAIN map.forward : <<b, map.forward[b]>> \in given
    BY <1>1, <1>2, MapOf
<1>4. given \subseteq Buttons \X Nat
    BY DEF Types
<1> DEFINE bits == {map.forward[p] : p \in perms \cap DOMAIN map.forward}
<1>5. \A n \in bits : n \in Nat /\ \E g \in perms : <<g, n>> \in given
    BY <1>3, <1>4
<1>6. Claims(perms) = [bits |-> bits, list |-> IF bits = {} THEN perms ELSE {}]
    BY DEF Claims, Encode
<1> HIDE DEF bits
<1>7. Claims(perms).bits = bits /\ Claims(perms).list = IF bits = {} THEN perms ELSE {}
    BY <1>6
<1> QED
    BY <1>5, <1>7 DEF bits

LEMMA IssueMoves ==
    ASSUME Types, NEW r \in Requests, Issue(r)
    PROVE  /\ Alone(r) /\ UNCHANGED <<now, failures, tables, process, history>>
           /\ pc[r] = "issue" /\ pc'[r] = "done" /\ task'[r] = NoTask
           /\ token' \in [Requests -> Tokens]
           /\ \A q \in Requests \ {r} : token'[q] = token[q]
           /\ token'[r].usable /\ token'[r].iat = now
           /\ token'[r].granted = task[r].seen /\ token'[r].late = task[r].late
           /\ token'[r].blind = (mapLost \/ Reloads # {})
           /\ token'[r].bits = Claims(task[r].seen).bits
           /\ token'[r].list = Claims(task[r].seen).list
<1> DEFINE c == Claims(task[r].seen)
           new == [usable |-> TRUE, iat |-> now, bits |-> c.bits, list |-> c.list,
                   granted |-> task[r].seen, late |-> task[r].late,
                   blind |-> mapLost \/ Reloads # {}, unheard |-> FALSE]
<1>1. /\ pc[r] = "issue" /\ token' = [token EXCEPT ![r] = new] /\ Finish(r)
      /\ UNCHANGED <<now, failures, tables, process, history>>
    BY DEF Issue
<1>2. task[r].seen \in SUBSET Buttons
    BY <1>1 DEF Types, Fits
<1>3. c.bits \subseteq Nat /\ c.list \subseteq Buttons
    <2>1. /\ c.bits \subseteq Nat
          /\ c.list = IF c.bits = {} THEN task[r].seen ELSE {}
        <3> HIDE DEF c
        <3> QED
            BY <1>2, ClaimsAre DEF c
    <2> HIDE DEF c
    <2> QED
        BY <1>2, <2>1
<1>4. now \in Nat /\ task[r].late \in BOOLEAN /\ token \in [Requests -> Tokens]
    <2>1. now \in 0 .. MaxTime /\ MaxTime \in Nat
        BY PermissionsAssumption DEF Types
    <2>2. task[r] \in Tasks /\ token \in [Requests -> Tokens]
        BY DEF Types
    <2> QED
        BY <2>1, <2>2 DEF Tasks
<1>5. (mapLost \/ Reloads # {}) \in BOOLEAN
    OBVIOUS
<1> HIDE DEF c
<1>6. new \in Tokens
    BY <1>2, <1>3, <1>4, <1>5 DEF Tokens
<1>7. /\ new.usable /\ new.iat = now /\ new.granted = task[r].seen /\ new.late = task[r].late
      /\ new.blind = (mapLost \/ Reloads # {}) /\ new.bits = c.bits /\ new.list = c.list
    OBVIOUS
<1> HIDE DEF new
<1> QED
    BY <1>1, <1>4, <1>6, <1>7, FinishAlone DEF c

LEMMA QueryFailsMoves ==
    ASSUME Types, NEW r \in Requests, QueryFails(r)
    PROVE  /\ Alone(r) /\ SameTokens /\ pc'[r] = "done"
           /\ pc[r] \in {"read_max", "insert_row", "load", "insert_grants", "read_users", "drop_role"}
           /\ UNCHANGED <<now, tables, process, given, raced>> /\ failures' \in 0 .. MaxFailures
           /\ pc[r] \in {"insert_grants", "read_users"} => Unheard
           /\ mapLost' = (mapLost \/ pc[r] = "load")
<1>0. MaxFailures \in Nat /\ failures \in 0 .. MaxFailures
    BY PermissionsAssumption DEF Types
<1> DEFINE unless == pc[r] \notin {"insert_grants", "read_users"}
<1>1. /\ failures < MaxFailures /\ failures' = failures + 1 /\ Finish(r) /\ Unannounced(unless)
      /\ pc[r] \in {"read_max", "insert_row", "load", "insert_grants", "read_users", "drop_role"}
      /\ UNCHANGED <<now, tables, process, given, raced>>
      /\ mapLost' = (mapLost \/ pc[r] = "load")
    BY DEF QueryFails
<1>2. failures' \in 0 .. MaxFailures
    BY <1>0, <1>1
<1>3. SameTokens /\ (~ unless => Unheard)
    <2> HIDE DEF unless
    <2> QED
        BY <1>1, UnannouncedKeeps DEF Unheard
<1> QED
    BY <1>1, <1>2, <1>3, FinishAlone

-----------------------------------------------------------------------------
(* Types.                                                                  *)

LEMMA RequestsTyped ==
    ASSUME Types, NEW r \in Requests, Alone(r), given \subseteq given', Fits(r)'
    PROVE  /\ pc' \in [Requests -> Places] /\ task' \in [Requests -> Tasks]
           /\ \A q \in Requests : Fits(q)'
<1>1. ASSUME NEW q \in Requests \ {r} PROVE Fits(q)'
    <2>1. Fits(q) /\ Kept(q)
        BY DEF Types, Alone
    <2> QED
        BY <2>1 DEF Fits, Kept
<1> QED
    BY <1>1 DEF Alone

LEMMA TokensTyped ==
    ASSUME Types, SameTokens, UNCHANGED now
    PROVE  token' \in [Requests -> Tokens] /\ \A q \in Requests : token'[q].iat <= now'
BY DEF Types, SameTokens, SameToken

\* What most steps leave alone.
LEMMA TypesKept ==
    ASSUME Types, NEW r \in Requests, Alone(r), Fits(r)', SameTokens,
           UNCHANGED <<now, bit, enabled, given, raced>>,
           failures' \in 0 .. MaxFailures, roles' \subseteq roles, holds' \subseteq Roles,
           grants' \subseteq Roles \X Buttons, status' \in {"enabled", "disabled"},
           \E mappings \in SUBSET given : map' \in MapsOf(mappings),
           deny' \in [kind : {"none", "banned", "refresh"}, at : 0 .. now],
           mapLost' \in BOOLEAN
    PROVE  Types'
<1>1. /\ pc' \in [Requests -> Places] /\ task' \in [Requests -> Tasks]
      /\ \A q \in Requests : Fits(q)'
    BY RequestsTyped
<1>2. token' \in [Requests -> Tokens] /\ \A q \in Requests : token'[q].iat <= now'
    BY TokensTyped
<1>3. (\E mappings \in SUBSET given : map \in MapsOf(mappings))'
    BY DEF MapsOf
<1>4. /\ now' \in 0 .. MaxTime /\ bit' \in [Buttons -> Nat \cup {None}] /\ enabled' \subseteq Rows'
      /\ roles' \subseteq Roles /\ given' \subseteq Buttons \X Nat
      /\ (\A b \in Rows : <<b, bit[b]>> \in given)' /\ raced' \subseteq Buttons
    BY DEF Types, Rows
<1>5. deny' \in [kind : {"none", "banned", "refresh"}, at : 0 .. now']
    OBVIOUS
<1> QED
    BY <1>1, <1>2, <1>3, <1>4, <1>5 DEF Types

LEMMA QuietTypes ==
    ASSUME Types, NEW r \in Requests, Quiet(r), Fits(r)' PROVE Types'
<1>1. /\ failures' \in 0 .. MaxFailures /\ roles' \subseteq roles /\ holds' \subseteq Roles
      /\ grants' \subseteq Roles \X Buttons /\ status' \in {"enabled", "disabled"}
      /\ deny' \in [kind : {"none", "banned", "refresh"}, at : 0 .. now]
      /\ mapLost' \in BOOLEAN
    BY DEF Types, Quiet
<1>2. \E mappings \in SUBSET given : map' \in MapsOf(mappings)
    BY DEF Types, Quiet
<1> QED
    BY <1>1, <1>2, SameTokensKept, TypesKept DEF Quiet

LEMMA ButtonTypes ==
    ASSUME Types, Positions, NEW r \in Requests, ButtonStep(r) PROVE Types'
<1>0. task[r] \in Tasks /\ Fits(r) /\ MaxFailures \in Nat
    BY PermissionsAssumption DEF Types
<1> USE DEF ButtonSteps, RoleSteps
<1>1. CASE ReadMax(r)
    <2>1. Fits(r)'
        BY <1>0, <1>1, ReadMaxMoves DEF Fits
    <2> QED
        BY <1>1, <2>1, ReadMaxMoves, QuietTypes
<1>2. CASE InsertRow(r)
    <2>1. Fits(r)'
        BY <1>2, InsertRowMoves DEF Fits
    <2>2. /\ task[r].button \in Buttons /\ task[r].next \in Nat
          /\ UNCHANGED <<now, failures, roles, grants, holds, status, map, deny, token>>
          /\ bit' = [bit EXCEPT ![task[r].button] = task[r].next]
          /\ enabled' = enabled \cup {task[r].button}
          /\ given' = given \cup {<<task[r].button, task[r].next>>}
          /\ raced' \in {raced, raced \cup {task[r].button}}
          /\ mapLost' \in {TRUE, mapLost}
        BY <1>0, <1>2, InsertRowMoves DEF Fits, Tasks, process
    <2>3. /\ pc' \in [Requests -> Places] /\ task' \in [Requests -> Tasks]
          /\ \A q \in Requests : Fits(q)'
        BY <1>2, <2>1, <2>2, InsertRowMoves, RequestsTyped
    <2>4. (\E mappings \in SUBSET given : map \in MapsOf(mappings))'
        <3>1. PICK mappings \in SUBSET given : map \in MapsOf(mappings)
            BY DEF Types
        <3>2. mappings \in SUBSET given' /\ map' \in MapsOf(mappings)
            BY <2>2, <3>1
        <3> QED
            BY <3>2 DEF MapsOf
    <2>5. bit \in [Buttons -> Nat \cup {None}] /\ enabled \subseteq Rows /\ None \notin Nat
          /\ \A b \in Rows : <<b, bit[b]>> \in given
        BY PermissionsAssumption DEF Types
    <2>6. Rows' = Rows \cup {task[r].button} /\ bit' \in [Buttons -> Nat \cup {None}]
        BY <2>2, <2>5 DEF Rows
    <2>7. (\A b \in Rows : <<b, bit[b]>> \in given)'
        BY <2>2, <2>5, <2>6 DEF Rows
    <2>8. /\ enabled' \subseteq Rows' /\ given' \subseteq Buttons \X Nat /\ raced' \subseteq Buttons
          /\ mapLost' \in BOOLEAN
        <3>1. enabled' \subseteq Rows'
            BY <2>2, <2>5, <2>6
        <3>2. given \subseteq Buttons \X Nat /\ raced \subseteq Buttons /\ mapLost \in BOOLEAN
            BY DEF Types
        <3>3. raced' \subseteq Buttons
            BY <2>2, <3>2
        <3>4. mapLost' \in BOOLEAN
            BY <2>2, <3>2
        <3>5. given' \subseteq Buttons \X Nat
            BY <2>2, <3>2
        <3> QED
            BY <3>1, <3>3, <3>4, <3>5
    <2>9. /\ now' \in 0 .. MaxTime /\ failures' \in 0 .. MaxFailures
          /\ roles' \subseteq Roles /\ holds' \subseteq Roles /\ grants' \subseteq Roles \X Buttons
          /\ status' \in {"enabled", "disabled"}
          /\ deny' \in [kind : {"none", "banned", "refresh"}, at : 0 .. now']
          /\ token' \in [Requests -> Tokens] /\ \A q \in Requests : token'[q].iat <= now'
        BY <2>2 DEF Types
    <2> QED
        BY <2>3, <2>4, <2>6, <2>7, <2>8, <2>9 DEF Types
<1>3. CASE UpdateRow(r) \/ DeleteRow(r)
    <2>1. Fits(r)'
        BY <1>3, RowMoves DEF Fits
    <2>2. /\ UNCHANGED <<now, failures, roles, grants, holds, status, map, deny, token, given,
                         raced, mapLost>>
          /\ \/ UNCHANGED <<bit, enabled>>
             \/ /\ task[r].button \in Rows /\ UNCHANGED bit
                /\ enabled' \in {enabled \cup {task[r].button}, enabled \ {task[r].button}}
             \/ /\ task[r].button \in Rows /\ bit' = [bit EXCEPT ![task[r].button] = None]
                /\ enabled' = enabled \ {task[r].button}
        BY <1>3, RowMoves DEF process, history
    <2>3. /\ pc' \in [Requests -> Places] /\ task' \in [Requests -> Tasks]
          /\ \A q \in Requests : Fits(q)'
        BY <1>3, <2>1, <2>2, RowMoves, RequestsTyped
    <2>4. (\E mappings \in SUBSET given : map \in MapsOf(mappings))'
        BY <2>2 DEF Types, MapsOf
    <2>5. bit \in [Buttons -> Nat \cup {None}] /\ enabled \subseteq Rows
          /\ \A b \in Rows : <<b, bit[b]>> \in given
        BY DEF Types
    <2>6. /\ bit' \in [Buttons -> Nat \cup {None}] /\ Rows' \subseteq Rows /\ enabled' \subseteq Rows'
          /\ \A b \in Rows' : bit'[b] = bit[b]
        BY <2>2, <2>5 DEF Rows
    <2>7. (\A b \in Rows : <<b, bit[b]>> \in given)'
        BY <2>2, <2>5, <2>6
    <2> QED
        BY <2>2, <2>3, <2>4, <2>6, <2>7 DEF Types
<1>4. CASE CountBindings(r)
    <2>1. Fits(r)'
        BY <1>0, <1>4, CountMoves DEF Fits, CountBindings, ReadUsers, CountUsers, DropRole
    <2> QED
        BY <1>4, <2>1, CountMoves, QuietTypes
<1>5. CASE LoadMappings(r)
    <2>1. Fits(r)'
        BY <1>5, LoadMappingsMoves DEF Fits, Quiet
    <2> QED
        BY <1>5, <2>1, LoadMappingsMoves, QuietTypes
<1>6. CASE InstallMap(r)
    <2>1. Fits(r)'
        BY <1>6, InstallMapMoves DEF Fits
    <2>2. task[r].seen \in SUBSET given /\ mapLost' \in BOOLEAN
        BY <1>0, <1>6, InstallMapMoves DEF Fits, Tasks
    <2>3. /\ failures' \in 0 .. MaxFailures /\ roles' \subseteq roles /\ holds' \subseteq Roles
          /\ grants' \subseteq Roles \X Buttons /\ status' \in {"enabled", "disabled"}
          /\ deny' \in [kind : {"none", "banned", "refresh"}, at : 0 .. now]
          /\ UNCHANGED <<now, bit, enabled, given, raced, token>>
        BY <1>6, InstallMapMoves DEF Types, tables
    <2>4. Alone(r) /\ map' \in MapsOf(task[r].seen)
        BY <1>6, InstallMapMoves
    <2> QED
        BY <2>1, <2>2, <2>3, <2>4, SameTokensKept, TypesKept
<1> QED
    BY <1>1, <1>2, <1>3, <1>4, <1>5, <1>6 DEF ButtonStep

LEMMA RoleTypes ==
    ASSUME Types, NEW r \in Requests, RoleStep(r) PROVE Types'
<1>0. task[r] \in Tasks /\ Fits(r)
    BY DEF Types
<1> USE DEF ButtonSteps, RoleSteps
<1>1. CASE DeleteGrants(r) \/ UnbindRole(r)
    <2>1. Fits(r)'
        BY <1>0, <1>1, LoseGrantsMoves DEF Fits
    <2>2. /\ UNCHANGED <<now, failures, bit, enabled, roles, holds, status, map, deny, given,
                         raced, mapLost>>
          /\ grants' \subseteq grants
        BY <1>1, LoseGrantsMoves DEF process, history
    <2>3. /\ failures' \in 0 .. MaxFailures /\ roles' \subseteq roles /\ holds' \subseteq Roles
          /\ grants' \subseteq Roles \X Buttons /\ status' \in {"enabled", "disabled"}
          /\ deny' \in [kind : {"none", "banned", "refresh"}, at : 0 .. now]
          /\ mapLost' \in BOOLEAN /\ \E mappings \in SUBSET given : map' \in MapsOf(mappings)
        BY <2>2 DEF Types
    <2> QED
        BY <1>1, <2>1, <2>2, <2>3, LoseGrantsMoves, TypesKept
<1>2. CASE InsertGrants(r)
    <2>1. Fits(r)'
        BY <1>0, <1>2, InsertGrantsMoves DEF Fits
    <2>2. UNCHANGED <<now, failures, bit, enabled, roles, holds, status, map, deny, given,
                      raced, mapLost>>
        BY <1>2, InsertGrantsMoves DEF process, history
    <2>3. grants' \subseteq Roles \X Buttons
        <3>1. task[r].role \in Roles /\ task[r].asked \subseteq Buttons
            BY <1>0, <1>2, InsertGrantsMoves DEF Fits
        <3>2. grants \subseteq Roles \X Buttons
            BY DEF Types
        <3>3. grants' = grants \/ grants' = grants \cup ({task[r].role} \X task[r].asked)
            BY <1>2, InsertGrantsMoves
        <3> QED
            BY <3>1, <3>2, <3>3
    <2>4. /\ failures' \in 0 .. MaxFailures /\ roles' \subseteq roles /\ holds' \subseteq Roles
          /\ status' \in {"enabled", "disabled"}
          /\ deny' \in [kind : {"none", "banned", "refresh"}, at : 0 .. now]
          /\ mapLost' \in BOOLEAN /\ \E mappings \in SUBSET given : map' \in MapsOf(mappings)
        BY <2>2 DEF Types
    <2> QED
        BY <1>2, <2>1, <2>2, <2>3, <2>4, InsertGrantsMoves, TypesKept
<1>3. CASE ReadUsers(r) \/ CountUsers(r) \/ DropRole(r)
    <2>1. Fits(r)'
        BY <1>0, <1>3, CountMoves DEF Fits, CountBindings, ReadUsers, CountUsers, DropRole
    <2> QED
        BY <1>3, <2>1, CountMoves, QuietTypes
<1> QED
    BY <1>1, <1>2, <1>3 DEF RoleStep

LEMMA UserTypes ==
    ASSUME Types, NEW r \in Requests, UserStep(r) PROVE Types'
<1>0. task[r] \in Tasks /\ Fits(r) /\ now \in 0 .. MaxTime /\ MaxTime \in Nat
    BY PermissionsAssumption DEF Types
<1> USE DEF ButtonSteps, RoleSteps
<1>1. CASE FindUser(r)
    <2>1. Fits(r)'
        BY <1>0, <1>1, FindUserMoves DEF Fits
    <2> QED
        BY <1>1, <2>1, FindUserMoves, QuietTypes
<1>2. CASE CommitUser(r)
    <2>1. Fits(r)'
        BY <1>2, CommitUserMoves DEF Fits
    <2>2. UNCHANGED <<now, failures, bit, enabled, roles, grants, map, deny, given, raced, mapLost>>
        BY <1>2, CommitUserMoves DEF process, history
    <2>3. holds' \subseteq Roles
        <3>1. task[r].asked \subseteq Roles
            BY <1>0, <1>2, CommitUserMoves DEF Fits
        <3>2. holds \subseteq Roles
            BY DEF Types
        <3> QED
            BY <1>2, <3>1, <3>2, CommitUserMoves
    <2>4. /\ failures' \in 0 .. MaxFailures /\ roles' \subseteq roles
          /\ grants' \subseteq Roles \X Buttons
          /\ deny' \in [kind : {"none", "banned", "refresh"}, at : 0 .. now]
          /\ mapLost' \in BOOLEAN /\ \E mappings \in SUBSET given : map' \in MapsOf(mappings)
        BY <2>2 DEF Types
    <2> QED
        BY <1>2, <2>1, <2>2, <2>3, <2>4, CommitUserMoves, TypesKept
<1>3. CASE Runtime(r) \/ ForceRefresh(r)
    <2>1. Fits(r)'
        BY <1>3, RuntimeMoves, ForceRefreshMoves DEF Fits
    <2>2. /\ Alone(r) /\ SameTokens /\ failures' \in 0 .. MaxFailures
          /\ UNCHANGED <<now, bit, enabled, roles, holds, grants, status, map, given, raced, mapLost>>
          /\ deny' \in {[kind |-> "banned", at |-> 0], [kind |-> "refresh", at |-> now], deny, NoDeny}
        BY <1>3, RuntimeMoves, ForceRefreshMoves DEF tables, history
    <2>3. deny' \in [kind : {"none", "banned", "refresh"}, at : 0 .. now]
        <3>1. deny \in [kind : {"none", "banned", "refresh"}, at : 0 .. now] /\ 0 \in 0 .. now /\ now \in 0 .. now
            BY <1>0 DEF Types
        <3> QED
            BY <2>2, <3>1 DEF NoDeny
    <2>4. /\ roles' \subseteq roles /\ holds' \subseteq Roles
          /\ grants' \subseteq Roles \X Buttons /\ status' \in {"enabled", "disabled"}
          /\ mapLost' \in BOOLEAN /\ \E mappings \in SUBSET given : map' \in MapsOf(mappings)
        BY <2>2 DEF Types
    <2> QED
        BY <2>1, <2>2, <2>3, <2>4, TypesKept
<1> QED
    BY <1>1, <1>2, <1>3 DEF UserStep

LEMMA LoginTypes ==
    ASSUME Types, NEW r \in Requests, LoginStep(r) PROVE Types'
<1>0. task[r] \in Tasks /\ Fits(r)
    BY DEF Types
<1> USE DEF ButtonSteps, RoleSteps
<1>1. CASE ReadRoles(r)
    <2>1. holds \subseteq Roles
        BY DEF Types
    <2>2. Fits(r)'
        BY <1>1, <2>1, ReadRolesMoves DEF Fits
    <2> QED
        BY <1>1, <2>2, ReadRolesMoves, QuietTypes
<1>2. CASE ReadMenus(r)
    <2>1. PermissionsOfRoles(task[r].seen) \subseteq Buttons
        BY DEF Types, PermissionsOfRoles, Rows
    <2>2. Fits(r)'
        BY <1>2, <2>1, ReadMenusMoves DEF Fits
    <2> QED
        BY <1>2, <2>2, ReadMenusMoves, QuietTypes
<1>3. CASE Issue(r)
    <2>1. Fits(r)'
        BY <1>3, IssueMoves DEF Fits
    <2>2. /\ pc' \in [Requests -> Places] /\ task' \in [Requests -> Tasks]
          /\ \A q \in Requests : Fits(q)'
        BY <1>3, <2>1, IssueMoves, RequestsTyped DEF history
    <2>3. token' \in [Requests -> Tokens] /\ \A q \in Requests : token'[q].iat <= now'
        <3>1. /\ token' \in [Requests -> Tokens] /\ now' = now /\ token'[r].iat = now
              /\ \A q \in Requests \ {r} : token'[q] = token[q]
            BY <1>3, IssueMoves
        <3>2. now \in Nat /\ \A q \in Requests : token[q].iat <= now
            BY PermissionsAssumption DEF Types
        <3> QED
            BY <3>1, <3>2
    <2>4. UNCHANGED <<now, failures, bit, enabled, roles, grants, holds, status, map, deny, given,
                      raced, mapLost>>
        BY <1>3, IssueMoves DEF tables, process, history
    <2>5. (\E mappings \in SUBSET given : map \in MapsOf(mappings))'
        BY <2>4 DEF Types, MapsOf
    <2> QED
        BY <2>2, <2>3, <2>4, <2>5 DEF Types, Rows
<1> QED
    BY <1>1, <1>2, <1>3 DEF LoginStep

LEMMA FailTypes ==
    ASSUME Types, NEW r \in Requests, QueryFails(r) PROVE Types'
<1>1. Fits(r)'
    BY QueryFailsMoves DEF Fits, ButtonSteps, RoleSteps
<1>2. /\ Alone(r) /\ SameTokens /\ failures' \in 0 .. MaxFailures
      /\ UNCHANGED <<now, bit, enabled, roles, holds, grants, status, map, deny, given, raced>>
      /\ mapLost' \in BOOLEAN
    BY QueryFailsMoves DEF tables, process
<1>3. /\ roles' \subseteq roles /\ holds' \subseteq Roles
      /\ grants' \subseteq Roles \X Buttons /\ status' \in {"enabled", "disabled"}
      /\ deny' \in [kind : {"none", "banned", "refresh"}, at : 0 .. now]
      /\ \E mappings \in SUBSET given : map' \in MapsOf(mappings)
    BY <1>2 DEF Types
<1> QED
    BY <1>1, <1>2, <1>3, TypesKept

LEMMA NextTypes == Types /\ Positions /\ [Next]_vars => Types'
<1> SUFFICES ASSUME Types, Positions, [Next]_vars PROVE Types'
    OBVIOUS
<1>1. CASE UNCHANGED <<tables, process, pc, task, token, history>>
             /\ failures' = failures /\ now' \in {now, now + 1} /\ now' \in 0 .. MaxTime
    <2>1. deny' \in [kind : {"none", "banned", "refresh"}, at : 0 .. now']
          /\ \A q \in Requests : token'[q].iat <= now'
        <3>1. /\ now \in Nat /\ deny' = deny /\ token' = token /\ now' \in {now, now + 1}
              /\ \A q \in Requests : token[q].iat \in Nat /\ token[q].iat <= now
            BY <1>1, PermissionsAssumption DEF Types, process, Tokens
        <3>2. 0 .. now \subseteq 0 .. now'
            BY <3>1
        <3>3. deny \in [kind : {"none", "banned", "refresh"}, at : 0 .. now]
            BY DEF Types
        <3>4. \A q \in Requests : token'[q].iat <= now'
            BY <3>1
        <3> QED
            BY <3>1, <3>2, <3>3, <3>4
    <2>2. (\E mappings \in SUBSET given : map \in MapsOf(mappings))'
        BY <1>1 DEF Types, MapsOf, history, process
    <2>3. \A q \in Requests : Fits(q)'
        BY <1>1 DEF Types, Fits, history
    <2> QED
        BY <1>1, <2>1, <2>2, <2>3 DEF Types, Rows, tables, process, history
<1>2. CASE UNCHANGED vars
    BY <1>1, <1>2 DEF vars, Types
<1>3. CASE Tick
    <2>1. now' \in 0 .. MaxTime
        BY <1>3, PermissionsAssumption DEF Types, Tick
    <2> QED
        BY <1>1, <1>3, <2>1 DEF Tick
<1>4. ASSUME NEW r \in Requests, Start(r) PROVE Types'
    <2>1. Starts(r)
        BY <1>4, StartMoves
    <2>2. Fits(r)'
        BY <2>1 DEF Starts, Fits, ButtonSteps, RoleSteps
    <2>3. Quiet(r)
        BY <2>1 DEF Starts, Quiet, tables, process, history
    <2> QED
        BY <2>2, <2>3, QuietTypes
<1> QED
    BY <1>2, <1>3, <1>4, ButtonTypes, RoleTypes, UserTypes, LoginTypes, FailTypes DEF Next

\* The steps of roles, users and logins do not touch the buttons.
ButtonsAlone(r) ==
    /\ Alone(r) /\ UNCHANGED <<bit, enabled, map, given, raced, mapLost>>
    /\ pc[r] \notin {"read_max", "insert_row", "load", "install"}
    /\ pc'[r] \notin {"read_max", "insert_row", "load", "install"}

LEMMA OtherMoves ==
    ASSUME Types, NEW r \in Requests,
           CountBindings(r) \/ RoleStep(r) \/ UserStep(r) \/ LoginStep(r)
    PROVE  ButtonsAlone(r)
<1> USE DEF ButtonsAlone
<1>1. CASE CountBindings(r) \/ ReadUsers(r) \/ CountUsers(r) \/ DropRole(r)
    BY <1>1, CountMoves DEF Quiet
<1>2. CASE DeleteGrants(r) \/ UnbindRole(r)
    BY <1>2, LoseGrantsMoves DEF process, history
<1>3. CASE InsertGrants(r)
    BY <1>3, InsertGrantsMoves DEF process, history
<1>4. CASE FindUser(r)
    BY <1>4, FindUserMoves DEF Quiet
<1>5. CASE CommitUser(r)
    BY <1>5, CommitUserMoves DEF process, history
<1>6. CASE Runtime(r)
    BY <1>6, RuntimeMoves DEF tables, history
<1>7. CASE ForceRefresh(r)
    BY <1>7, ForceRefreshMoves DEF tables, history
<1>8. CASE ReadRoles(r)
    BY <1>8, ReadRolesMoves DEF Quiet
<1>9. CASE ReadMenus(r)
    BY <1>9, ReadMenusMoves DEF Quiet
<1>10. CASE Issue(r)
    BY <1>10, IssueMoves DEF tables, process, history
<1> QED
    BY <1>1, <1>2, <1>3, <1>4, <1>5, <1>6, <1>7, <1>8, <1>9, <1>10
       DEF RoleStep, UserStep, LoginStep

-----------------------------------------------------------------------------
(* Positions.                                                              *)

LEMMA CreatedFinite ==
    Types => /\ IsFiniteSet(Created) /\ Cardinality(Created) \in Nat
             /\ Created \subseteq Buttons /\ Cardinality(Created) <= Cardinality(Buttons)
             /\ Cardinality(Buttons) \in Nat
<1> SUFFICES ASSUME Types
             PROVE  /\ IsFiniteSet(Created) /\ Cardinality(Created) \in Nat
                    /\ Created \subseteq Buttons /\ Cardinality(Created) <= Cardinality(Buttons)
                    /\ Cardinality(Buttons) \in Nat
    OBVIOUS
<1>1. Created \in SUBSET Buttons
    BY DEF Types, Created
<1> QED
    BY <1>1, FS_Subset, FS_CardinalityType, PermissionsAssumption

LEMMA PositionsKept ==
    ASSUME Types, Types', Positions, NEW r \in Requests, Alone(r), UNCHANGED given,
           pc'[r] \in {"read_max", "insert_row"} =>
             pc[r] \in {"read_max", "insert_row"} /\ task'[r].button = task[r].button,
           pc'[r] = "insert_row" => task'[r].next <= Cardinality(Created)
    PROVE  Positions'
<1>1. \A q \in Requests : /\ q \in Creating' => q \in Creating /\ task'[q].button = task[q].button
                          /\ q \in Ranking' => task'[q].next <= Cardinality(Created)
    BY DEF Alone, Kept, Creating, Ranking, Readers, Positions
<1>2. Created' = Created /\ Creating' \subseteq Requests /\ Ranking' \subseteq Requests
    BY DEF Created, Creating, Ranking, Readers
<1>3. /\ \A m, n \in given : m[1] = n[1] => m = n
      /\ \A q \in Creating : task[q].button \notin Created
      /\ \A q, s \in Creating : q # s => task[q].button # task[s].button
      /\ \A m \in given : m[2] < Cardinality(Created)
    BY DEF Positions
<1>4. \A q \in Creating' : q \in Creating /\ task'[q].button = task[q].button
    BY <1>1, <1>2
<1>5. \A q \in Ranking' : task'[q].next <= Cardinality(Created)'
    BY <1>1, <1>2
<1>6. \A m \in given' : m[2] < Cardinality(Created)'
    BY <1>2, <1>3
<1> QED
    BY <1>2, <1>3, <1>4, <1>5, <1>6 DEF Positions

LEMMA PositionsInserted ==
    ASSUME Types, Types', Positions, NEW r \in Requests, InsertRow(r)
    PROVE  Positions'
<1> DEFINE b == task[r].button
           n == task[r].next
<1>1. /\ Alone(r) /\ pc[r] = "insert_row" /\ pc'[r] \in {"done", "load"}
      /\ given' = given \cup {<<b, n>>}
    BY InsertRowMoves
<1>2. r \in Creating /\ r \in Ranking /\ b \notin Created
    BY <1>1 DEF Creating, Ranking, Readers, Positions
<1>3. Created' = Created \cup {b}
    <2>1. \A m \in given' : m \in given \/ m[1] = b
        BY <1>1
    <2>2. <<b, n>> \in given' /\ <<b, n>>[1] = b /\ given \subseteq given'
        BY <1>1
    <2> HIDE DEF b, n
    <2> QED
        BY <2>1, <2>2 DEF Created
<1>4. Cardinality(Created') = Cardinality(Created) + 1 /\ Cardinality(Created) \in Nat
    BY <1>2, <1>3, CreatedFinite, FS_AddElement
<1>5. n \in Nat /\ n <= Cardinality(Created)
    BY <1>2 DEF Positions, Types, Tasks
<1>6. given \subseteq Buttons \X Nat
    BY DEF Types
<1>7. \A q \in Requests : /\ q \in Creating' => q \in Creating /\ q # r /\ task'[q].button = task[q].button
                          /\ q \in Ranking' => q \in Ranking /\ task'[q].next = task[q].next
    BY <1>1 DEF Alone, Kept, Creating, Ranking, Readers
<1>8. Creating' \subseteq Requests /\ Ranking' \subseteq Requests
    BY DEF Creating, Ranking, Readers
<1>9. \A m \in given : m[1] \in Created
    BY DEF Created
<1>10. \A m, o \in given' : m[1] = o[1] => m = o
    BY <1>1, <1>2, <1>6, <1>9 DEF Positions
<1>11. \A q \in Creating' : task'[q].button \notin Created'
    BY <1>2, <1>3, <1>7, <1>8 DEF Positions
<1>12. \A q, s \in Creating' : q # s => task'[q].button # task'[s].button
    BY <1>7, <1>8 DEF Positions
<1>13. \A m \in given' : m[2] < Cardinality(Created')
    <2>1. \A m \in given : m[2] \in Nat /\ m[2] < Cardinality(Created)
        BY <1>6 DEF Positions
    <2> QED
        BY <1>1, <1>4, <1>5, <2>1
<1>14. \A q \in Ranking' : task'[q].next <= Cardinality(Created')
    <2>1. \A q \in Ranking : task[q].next \in Nat /\ task[q].next <= Cardinality(Created)
        BY DEF Positions, Types, Tasks, Ranking, Readers
    <2> QED
        BY <1>4, <1>7, <1>8, <2>1
<1> QED
    BY <1>10, <1>11, <1>12, <1>13, <1>14 DEF Positions

LEMMA PositionsStarted ==
    ASSUME Types, Types', Positions, NEW r \in Requests, Start(r)
    PROVE  Positions'
<1>1. Starts(r)
    BY StartMoves
<1>2. CASE pc'[r] # "read_max"
    BY <1>1, <1>2, PositionsKept DEF Starts, history
<1>3. CASE pc'[r] = "read_max"
    <2> DEFINE b == task'[r].button
    <2>1. /\ Alone(r) /\ given' = given /\ pc[r] = "idle"
          /\ \A n \in 0 .. Cardinality(Buttons) : <<b, n>> \notin given
          /\ \A q \in Active : task[q].button # b
        BY <1>1, <1>3 DEF Starts, history
    <2>2. b \notin Created
        <3>1. \A m \in given : m[2] \in Nat /\ m[2] < Cardinality(Created) /\ m = <<m[1], m[2]>>
            BY DEF Types, Positions
        <3>2. \A m \in given : m[2] \in 0 .. Cardinality(Buttons)
            BY <3>1, CreatedFinite
        <3> QED
            BY <2>1, <3>1, <3>2 DEF Created
    <2>3. Created' = Created
        BY <2>1 DEF Created
    <2>4. \A q \in Requests : q \in Creating' => \/ q = r
                                                 \/ q \in Creating /\ task'[q].button = task[q].button /\ task'[q].button # b
        BY <2>1 DEF Alone, Kept, Creating, Readers, Active, Ended
    <2>5. \A q \in Requests : q \in Ranking' => q \in Ranking /\ task'[q].next = task[q].next
        BY <1>3, <2>1 DEF Alone, Kept, Ranking, Readers
    <2>6. Creating' \subseteq Requests /\ Ranking' \subseteq Requests /\ Creating \subseteq Requests
        BY DEF Creating, Ranking, Readers
    <2>7. \A q \in Creating' : task'[q].button \notin Created'
        BY <2>2, <2>3, <2>4, <2>6 DEF Positions
    <2>8. \A q, s \in Creating' : q # s => task'[q].button # task'[s].button
        <3> HIDE DEF b
        <3> QED
            BY <2>4, <2>6 DEF Positions, b
    <2>9. \A q \in Ranking' : task'[q].next <= Cardinality(Created')
        BY <2>3, <2>5, <2>6 DEF Positions
    <2> QED
        BY <2>1, <2>3, <2>7, <2>8, <2>9 DEF Positions
<1> QED
    BY <1>2, <1>3

LEMMA PositionsUnchanged ==
    ASSUME Positions, UNCHANGED <<pc, task, given>> PROVE Positions'
BY DEF Positions, Created, Creating, Ranking, Readers

LEMMA NextPositions == Types /\ Types' /\ Positions /\ [Next]_vars => Positions'
<1> SUFFICES ASSUME Types, Types', Positions, [Next]_vars PROVE Positions'
    OBVIOUS
<1>1. CASE UNCHANGED vars \/ Tick
    BY <1>1, PositionsUnchanged DEF vars, Tick, history
<1>2. ASSUME NEW r \in Requests, Start(r) PROVE Positions'
    BY <1>2, PositionsStarted
<1>3. ASSUME NEW r \in Requests, ButtonStep(r) PROVE Positions'
    <2>1. CASE ReadMax(r)
        <3>1. task'[r].next <= Cardinality(Created)
            BY <2>1, ReadMaxMoves, NextIs
        <3> QED
            BY <2>1, <3>1, ReadMaxMoves, PositionsKept DEF Quiet
    <2>2. CASE InsertRow(r)
        BY <2>2, PositionsInserted
    <2>3. CASE UpdateRow(r) \/ DeleteRow(r)
        BY <2>3, RowMoves, PositionsKept DEF history
    <2>4. CASE CountBindings(r)
        BY <2>4, OtherMoves, PositionsKept DEF ButtonsAlone
    <2>5. CASE LoadMappings(r)
        BY <2>5, LoadMappingsMoves, PositionsKept DEF Quiet
    <2>6. CASE InstallMap(r)
        BY <2>6, InstallMapMoves, PositionsKept
    <2> QED
        BY <1>3, <2>1, <2>2, <2>3, <2>4, <2>5, <2>6 DEF ButtonStep
<1>4. ASSUME NEW r \in Requests, RoleStep(r) \/ UserStep(r) \/ LoginStep(r) PROVE Positions'
    BY <1>4, OtherMoves, PositionsKept DEF ButtonsAlone
<1>5. ASSUME NEW r \in Requests, QueryFails(r) PROVE Positions'
    BY <1>5, QueryFailsMoves, PositionsKept
<1> QED
    BY <1>1, <1>2, <1>3, <1>4, <1>5 DEF Next

-----------------------------------------------------------------------------
(* Positions apart.                                                        *)

LEMMA RankedKept ==
    ASSUME Types, Ranked, NEW r \in Requests, Alone(r), pc'[r] # "insert_row",
           Rows' \subseteq Rows, \A b \in Rows' : bit'[b] = bit[b], UNCHANGED raced
    PROVE  Ranked'
<1>1. \A q \in Requests : q \in Ranking' => /\ q \in Ranking /\ task'[q].next = task[q].next
                                            /\ ~ task'[q].late => ~ task[q].late
    BY DEF Alone, Kept, Ranking, Readers
<1>2. Ranking' \subseteq Requests
    BY DEF Ranking, Readers
<1>3. \A q \in Ranking' : ~ task'[q].late => \A b \in Rows' : bit'[b] < task'[q].next
    BY <1>1, <1>2 DEF Ranked
<1>4. BitsApart'
    BY DEF Ranked, BitsApart
<1> QED
    BY <1>3, <1>4 DEF Ranked

\* What one creation inserts is above all others, or it was overtaken.
LEMMA RankedInserted ==
    ASSUME Types, Positions, Ranked, NEW r \in Requests, InsertRow(r)
    PROVE  Ranked'
<1> DEFINE b == task[r].button
           n == task[r].next
<1>1. /\ Alone(r) /\ pc[r] = "insert_row" /\ pc'[r] \in {"done", "load"}
      /\ bit' = [bit EXCEPT ![b] = n]
      /\ raced' = IF task[r].late THEN raced \cup {b} ELSE raced
      /\ \A q \in Requests \ {r} : ~ task'[q].late => q \notin Ranking
    BY InsertRowMoves
<1>2. \A q \in Requests : q \in Ranking' => q # r /\ q \in Ranking
    BY <1>1 DEF Alone, Kept, Ranking, Readers
<1>3. \A q \in Ranking' : ~ task'[q].late => FALSE
    BY <1>1, <1>2 DEF Ranking, Readers
<1>4. /\ bit \in [Buttons -> Nat \cup {None}] /\ n \in Nat
      /\ r \in Ranking
    BY <1>1 DEF Types, Tasks, Ranking, Readers
<1>5. \A c \in Rows' : c # b => c \in Rows /\ bit'[c] = bit[c] /\ bit[c] \in Nat
    BY <1>1, <1>4 DEF Rows
<1>6. ~ task[r].late => \A c \in Rows : bit[c] < n
    BY <1>4 DEF Ranked
<1>7. b \in Rows' => bit'[b] = n
    BY <1>1, <1>4 DEF Rows
<1>8. raced \subseteq raced' /\ (task[r].late => b \in raced')
    BY <1>1
<1>9. ASSUME NEW c \in Rows', NEW d \in Rows', c # d, bit'[c] = bit'[d]
      PROVE  {c, d} \cap raced' # {}
    <2>1. CASE c # b /\ d # b
        BY <1>5, <1>8, <1>9, <2>1 DEF Ranked, BitsApart
    <2>2. CASE c = b \/ d = b
        <3>1. task[r].late
            BY <1>5, <1>6, <1>7, <1>9, <1>4, <2>2
        <3> QED
            BY <1>8, <2>2, <3>1
    <2> QED
        BY <2>1, <2>2
<1>10. BitsApart'
    BY <1>9 DEF BitsApart
<1> QED
    BY <1>3, <1>10 DEF Ranked

LEMMA RankedUnchanged == Ranked /\ UNCHANGED <<pc, task, bit, raced>> => Ranked'
BY DEF Ranked, Ranking, Readers, BitsApart, Rows

LEMMA NextRanked == Types /\ Positions /\ Ranked /\ [Next]_vars => Ranked'
<1> SUFFICES ASSUME Types, Positions, Ranked, [Next]_vars PROVE Ranked'
    OBVIOUS
<1>0. UNCHANGED bit => Rows' \subseteq Rows /\ \A b \in Rows' : bit'[b] = bit[b]
    BY DEF Rows
<1>1. CASE UNCHANGED vars \/ Tick
    BY <1>1, RankedUnchanged DEF vars, Tick, tables, history
<1>2. ASSUME NEW r \in Requests, Start(r) PROVE Ranked'
    BY <1>0, <1>2, StartMoves, RankedKept DEF Starts, tables, history
<1>3. ASSUME NEW r \in Requests, ButtonStep(r) PROVE Ranked'
    <2>1. CASE ReadMax(r)
        <3>1. /\ Alone(r) /\ UNCHANGED <<bit, raced>> /\ pc'[r] = "insert_row"
              /\ task'[r].next = NextPosition
            BY <2>1, ReadMaxMoves DEF Quiet
        <3>2. \A q \in Requests \ {r} : q \in Ranking' => /\ q \in Ranking /\ task'[q].next = task[q].next
                                                          /\ ~ task'[q].late => ~ task[q].late
            BY <3>1 DEF Alone, Kept, Ranking, Readers
        <3>3. Rows' = Rows /\ Ranking' \subseteq Requests
            BY <3>1 DEF Rows, Ranking, Readers
        <3>4. \A q \in Ranking' : ~ task'[q].late => \A b \in Rows' : bit'[b] < task'[q].next
            BY <3>1, <3>2, <3>3, NextIs DEF Ranked
        <3>5. BitsApart'
            BY <3>1 DEF Ranked, BitsApart, Rows
        <3> QED
            BY <3>4, <3>5 DEF Ranked
    <2>2. CASE InsertRow(r)
        BY <2>2, RankedInserted
    <2>3. CASE UpdateRow(r) \/ DeleteRow(r)
        <3>1. Rows' \subseteq Rows /\ \A b \in Rows' : bit'[b] = bit[b]
            BY <1>0, <2>3, RowMoves DEF Rows, Types
        <3> QED
            BY <2>3, <3>1, RowMoves, RankedKept DEF history
    <2>4. CASE CountBindings(r)
        BY <1>0, <2>4, OtherMoves, RankedKept DEF ButtonsAlone
    <2>5. CASE LoadMappings(r)
        BY <1>0, <2>5, LoadMappingsMoves, RankedKept DEF Quiet
    <2>6. CASE InstallMap(r)
        BY <1>0, <2>6, InstallMapMoves, RankedKept DEF tables
    <2> QED
        BY <1>3, <2>1, <2>2, <2>3, <2>4, <2>5, <2>6 DEF ButtonStep
<1>4. ASSUME NEW r \in Requests, RoleStep(r) \/ UserStep(r) \/ LoginStep(r) PROVE Ranked'
    BY <1>0, <1>4, OtherMoves, RankedKept DEF ButtonsAlone
<1>5. ASSUME NEW r \in Requests, QueryFails(r) PROVE Ranked'
    BY <1>0, <1>5, QueryFailsMoves, RankedKept DEF tables
<1> QED
    BY <1>1, <1>2, <1>3, <1>4, <1>5 DEF Next

-----------------------------------------------------------------------------
(* The map.                                                                *)

\* A step that changes neither the buttons nor who reloads.
LEMMA MapKept ==
    ASSUME Types, MapHolds, NEW r \in Requests, Alone(r),
           UNCHANGED <<bit, enabled, map>>, mapLost => mapLost',
           pc'[r] # "install" \/ (~ task'[r].late => task'[r].seen = Mappings),
           pc[r] \in {"load", "install"} => pc'[r] \in {"load", "install"} \/ mapLost'
    PROVE  MapHolds'
<1>1. Mappings' = Mappings
    BY DEF Mappings, Rows
<1>2. \A q \in Requests \ {r} : q \in Loading' => /\ q \in Loading /\ task'[q].seen = task[q].seen
                                                  /\ ~ task'[q].late => ~ task[q].late
    BY DEF Alone, Kept, Loading, Readers
<1>3. Loading' \subseteq Requests /\ (r \in Loading' => pc'[r] = "install")
    BY DEF Loading, Readers
<1>4. \A q \in Loading' : ~ task'[q].late => task'[q].seen = Mappings'
    BY <1>1, <1>2, <1>3 DEF MapHolds
<1>5. Reloads' = {} /\ ~ mapLost' => Reloads = {} /\ ~ mapLost
    BY DEF Alone, Kept, Reloads, Readers
<1>6. MapFollowsTable'
    <2>1. map' = map /\ MapsOf(Mappings)' = MapsOf(Mappings')
        BY DEF MapsOf
    <2> HIDE DEF MapsOf
    <2> QED
        BY <1>1, <1>5, <2>1 DEF MapHolds, MapFollowsTable
<1> QED
    BY <1>4, <1>6 DEF MapHolds

\* A step that changes a button: the readers are overtaken, and the map is on
\* its way or lost.
LEMMA MapBehind ==
    ASSUME Types, NEW r \in Requests, Alone(r), pc'[r] # "install",
           \A q \in Requests \ {r} : ~ task'[q].late => q \notin Loading,
           pc'[r] = "load" \/ mapLost'
    PROVE  MapHolds'
<1>1. \A q \in Loading' : task'[q].late
    BY DEF Alone, Kept, Loading, Readers
<1>2. Reloads' # {} \/ mapLost'
    BY DEF Reloads, Readers
<1> QED
    BY <1>1, <1>2 DEF MapHolds, MapFollowsTable

LEMMA NextMapHolds == Types /\ Positions /\ MapHolds /\ [Next]_vars => MapHolds'
<1> SUFFICES ASSUME Types, Positions, MapHolds, [Next]_vars PROVE MapHolds'
    OBVIOUS
<1>1. CASE UNCHANGED vars \/ Tick
    <2>1. UNCHANGED <<bit, enabled, map, mapLost, pc, task>>
        BY <1>1 DEF vars, Tick, tables, process, history
    <2>2. Mappings' = Mappings /\ Loading' = Loading /\ Reloads' = Reloads
        BY <2>1 DEF Mappings, Rows, Loading, Reloads, Readers
    <2>3. MapsOf(Mappings)' = MapsOf(Mappings')
        BY DEF MapsOf
    <2> HIDE DEF MapsOf
    <2>4. MapFollowsTable'
        BY <2>1, <2>2, <2>3 DEF MapHolds, MapFollowsTable
    <2> QED
        BY <2>1, <2>2, <2>4 DEF MapHolds
<1>2. ASSUME NEW r \in Requests, Start(r) PROVE MapHolds'
    <2>1. /\ Alone(r) /\ UNCHANGED <<bit, enabled, map, mapLost>> /\ pc[r] = "idle"
          /\ pc'[r] # "install"
        BY <1>2, StartMoves DEF Starts, tables, process, history
    <2> QED
        BY <2>1, MapKept
<1>3. ASSUME NEW r \in Requests, ButtonStep(r) PROVE MapHolds'
    <2>1. CASE ReadMax(r)
        BY <2>1, ReadMaxMoves, MapKept DEF Quiet
    <2>2. CASE InsertRow(r)
        BY <2>2, InsertRowMoves, MapBehind
    <2>3. CASE UpdateRow(r) \/ DeleteRow(r)
        <3>1. /\ Alone(r) /\ pc[r] \in {"update_row", "delete_row"} /\ UNCHANGED <<map, mapLost>>
              /\ \/ pc'[r] = "done" /\ UNCHANGED <<bit, enabled>>
                 \/ /\ pc'[r] = "load"
                    /\ \A q \in Requests \ {r} : ~ task'[q].late => q \notin Loading
            BY <2>3, RowMoves DEF process, history
        <3> QED
            BY <3>1, MapKept, MapBehind
    <2>4. CASE CountBindings(r)
        BY <2>4, OtherMoves, MapKept DEF ButtonsAlone
    <2>5. CASE LoadMappings(r)
        BY <2>5, LoadMappingsMoves, MapKept DEF Quiet
    <2>6. CASE InstallMap(r)
        <3>1. /\ Alone(r) /\ pc[r] = "install" /\ pc'[r] = "done" /\ UNCHANGED <<bit, enabled>>
              /\ map' \in MapsOf(task[r].seen) /\ mapLost' = task[r].late
            BY <2>6, InstallMapMoves DEF tables
        <3>2. Mappings' = Mappings
            BY <3>1 DEF Mappings, Rows
        <3>3. \A q \in Loading' : /\ q \in Loading /\ task'[q].seen = task[q].seen
                                  /\ ~ task'[q].late => ~ task[q].late
            BY <3>1 DEF Alone, Kept, Loading, Readers
        <3>4. ~ task[r].late => task[r].seen = Mappings
            BY <3>1 DEF MapHolds, Loading, Readers
        <3>5. MapFollowsTable'
            <4>1. ~ mapLost' => map' \in MapsOf(Mappings')
                BY <3>1, <3>2, <3>4
            <4>2. MapsOf(Mappings)' = MapsOf(Mappings')
                BY DEF MapsOf
            <4> HIDE DEF MapsOf
            <4> QED
                BY <4>1, <4>2 DEF MapFollowsTable
        <3> QED
            BY <3>2, <3>3, <3>5 DEF MapHolds
    <2> QED
        BY <1>3, <2>1, <2>2, <2>3, <2>4, <2>5, <2>6 DEF ButtonStep
<1>4. ASSUME NEW r \in Requests, RoleStep(r) \/ UserStep(r) \/ LoginStep(r) PROVE MapHolds'
    BY <1>4, OtherMoves, MapKept DEF ButtonsAlone
<1>5. ASSUME NEW r \in Requests, QueryFails(r) PROVE MapHolds'
    <2>1. /\ Alone(r) /\ pc'[r] = "done" /\ UNCHANGED <<bit, enabled, map>>
          /\ mapLost' = (mapLost \/ pc[r] = "load") /\ pc[r] # "install"
        BY <1>5, QueryFailsMoves DEF tables, process
    <2> QED
        BY <2>1, MapKept
<1> QED
    BY <1>1, <1>2, <1>3, <1>4, <1>5 DEF Next

-----------------------------------------------------------------------------
(* What login reads.                                                       *)

\* What the user's roles grant does not shrink.
LEMMA ReadKept ==
    ASSUME ReadIsTrue, NEW r \in Requests, Alone(r), pc'[r] \notin {"menus", "issue"},
           UNCHANGED holds, PermissionsOfRoles(holds) \subseteq PermissionsOfRoles(holds)'
    PROVE  ReadIsTrue'
<1>1. ASSUME NEW q \in Requests \ {r}, ~ task'[q].late
      PROVE  /\ pc'[q] = "menus" => task'[q].seen = holds'
             /\ pc'[q] = "issue" => task'[q].seen \subseteq PermissionsOfRoles(holds)'
    <2>1. pc'[q] = pc[q] /\ task'[q].seen = task[q].seen /\ ~ task[q].late
        BY <1>1 DEF Alone, Kept
    <2> QED
        BY <2>1 DEF ReadIsTrue
<1> HIDE DEF PermissionsOfRoles
<1> QED
    BY <1>1 DEF ReadIsTrue

\* Whoever has read what changes is overtaken.
LEMMA ReadOvertaken ==
    ASSUME NEW r \in Requests, Alone(r), pc'[r] \notin {"menus", "issue"},
           \A q \in Requests \ {r} : ~ task'[q].late => q \notin Signing
    PROVE  ReadIsTrue'
<1>1. \A q \in Requests \ {r} : task'[q].late \/ pc'[q] \notin {"menus", "issue"}
    BY DEF Alone, Kept, Signing, Readers
<1> HIDE DEF PermissionsOfRoles
<1> QED
    BY <1>1 DEF ReadIsTrue

LEMMA NextReadIsTrue == Types /\ Positions /\ ReadIsTrue /\ [Next]_vars => ReadIsTrue'
<1> SUFFICES ASSUME Types, Positions, ReadIsTrue, [Next]_vars PROVE ReadIsTrue'
    OBVIOUS
<1>0. UNCHANGED <<bit, enabled, grants, holds>>
        => PermissionsOfRoles(holds) \subseteq PermissionsOfRoles(holds)'
    BY DEF PermissionsOfRoles, Rows
<1>1. CASE UNCHANGED vars \/ Tick
    <2>1. UNCHANGED <<bit, enabled, grants, holds, pc, task>>
        BY <1>1 DEF vars, Tick, tables
    <2> QED
        BY <2>1 DEF ReadIsTrue, PermissionsOfRoles, Rows
<1>2. ASSUME NEW r \in Requests, Start(r) PROVE ReadIsTrue'
    <2>1. /\ Alone(r) /\ pc'[r] \notin {"menus", "issue"}
          /\ UNCHANGED <<bit, enabled, grants, holds>>
        BY <1>2, StartMoves DEF Starts, tables
    <2> QED
        BY <1>0, <2>1, ReadKept
<1>3. ASSUME NEW r \in Requests, ButtonStep(r) PROVE ReadIsTrue'
    <2>1. CASE ReadMax(r)
        BY <1>0, <2>1, ReadMaxMoves, ReadKept DEF Quiet
    <2>2. CASE InsertRow(r)
        <3> DEFINE b == task[r].button
        <3>1. /\ Alone(r) /\ pc[r] = "insert_row" /\ pc'[r] \in {"done", "load"}
              /\ UNCHANGED <<grants, holds>>
              /\ bit' = [bit EXCEPT ![b] = task[r].next] /\ enabled' = enabled \cup {b}
            BY <2>2, InsertRowMoves
        <3>2. task[r].next \in Nat /\ None \notin Nat /\ bit \in [Buttons -> Nat \cup {None}]
            BY PermissionsAssumption DEF Types, Tasks
        <3>3. enabled \subseteq enabled' /\ Rows \subseteq Rows'
            BY <3>1, <3>2 DEF Rows
        <3>4. PermissionsOfRoles(holds) \subseteq PermissionsOfRoles(holds)'
            BY <3>1, <3>3 DEF PermissionsOfRoles
        <3> QED
            BY <3>1, <3>4, ReadKept
    <2>3. CASE UpdateRow(r) \/ DeleteRow(r)
        <3>1. /\ Alone(r) /\ UNCHANGED <<grants, holds>>
              /\ \/ pc'[r] = "done" /\ UNCHANGED <<bit, enabled>>
                 \/ /\ pc'[r] = "load"
                    /\ \A q \in Requests \ {r} : ~ task'[q].late => q \notin Signing
            BY <2>3, RowMoves
        <3> QED
            BY <1>0, <3>1, ReadKept, ReadOvertaken
    <2>4. CASE CountBindings(r)
        BY <1>0, <2>4, CountMoves, ReadKept DEF Quiet
    <2>5. CASE LoadMappings(r)
        BY <1>0, <2>5, LoadMappingsMoves, ReadKept DEF Quiet
    <2>6. CASE InstallMap(r)
        BY <1>0, <2>6, InstallMapMoves, ReadKept DEF tables
    <2> QED
        BY <1>3, <2>1, <2>2, <2>3, <2>4, <2>5, <2>6 DEF ButtonStep
<1>4. ASSUME NEW r \in Requests, RoleStep(r) PROVE ReadIsTrue'
    <2>1. CASE DeleteGrants(r) \/ UnbindRole(r)
        BY <2>1, LoseGrantsMoves, ReadOvertaken
    <2>2. CASE InsertGrants(r)
        <3>1. /\ Alone(r) /\ pc'[r] \notin {"menus", "issue"} /\ UNCHANGED <<bit, enabled, holds>>
              /\ \/ UNCHANGED grants
                 \/ \A q \in Requests \ {r} : ~ task'[q].late => q \notin Signing
            BY <2>2, InsertGrantsMoves
        <3> QED
            BY <1>0, <3>1, ReadKept, ReadOvertaken
    <2>3. CASE ReadUsers(r) \/ CountUsers(r) \/ DropRole(r)
        BY <1>0, <2>3, CountMoves, ReadKept DEF Quiet
    <2> QED
        BY <1>4, <2>1, <2>2, <2>3 DEF RoleStep
<1>5. ASSUME NEW r \in Requests, UserStep(r) PROVE ReadIsTrue'
    <2>1. CASE FindUser(r)
        BY <1>0, <2>1, FindUserMoves, ReadKept DEF Quiet
    <2>2. CASE CommitUser(r)
        BY <2>2, CommitUserMoves, ReadOvertaken
    <2>3. CASE Runtime(r)
        BY <1>0, <2>3, RuntimeMoves, ReadKept DEF tables
    <2>4. CASE ForceRefresh(r)
        BY <1>0, <2>4, ForceRefreshMoves, ReadKept DEF tables
    <2> QED
        BY <1>5, <2>1, <2>2, <2>3, <2>4 DEF UserStep
<1>6. ASSUME NEW r \in Requests, LoginStep(r) PROVE ReadIsTrue'
    <2>1. CASE ReadRoles(r)
        <3>1. /\ Alone(r) /\ UNCHANGED <<bit, enabled, grants, holds>>
              /\ pc'[r] = "menus" /\ task'[r].seen = holds
            BY <2>1, ReadRolesMoves DEF Quiet
        <3>2. \A q \in Requests \ {r} : /\ pc'[q] = pc[q] /\ task'[q].seen = task[q].seen
                                        /\ ~ task'[q].late => ~ task[q].late
            BY <3>1 DEF Alone, Kept
        <3> QED
            BY <3>1, <3>2 DEF ReadIsTrue, PermissionsOfRoles, Rows
    <2>2. CASE ReadMenus(r)
        <3>1. /\ Alone(r) /\ UNCHANGED <<bit, enabled, grants, holds>>
              /\ pc[r] = "menus" /\ pc'[r] = "issue"
              /\ task'[r].seen = PermissionsOfRoles(task[r].seen) /\ task'[r].late = task[r].late
            BY <2>2, ReadMenusMoves DEF Quiet
        <3>2. \A q \in Requests \ {r} : /\ pc'[q] = pc[q] /\ task'[q].seen = task[q].seen
                                        /\ ~ task'[q].late => ~ task[q].late
            BY <3>1 DEF Alone, Kept
        <3>3. PermissionsOfRoles(holds)' = PermissionsOfRoles(holds)
            BY <3>1 DEF PermissionsOfRoles, Rows
        <3>4. ~ task[r].late => task[r].seen = holds
            BY <3>1 DEF ReadIsTrue
        <3> HIDE DEF PermissionsOfRoles
        <3> QED
            BY <3>1, <3>2, <3>3, <3>4 DEF ReadIsTrue
    <2>3. CASE Issue(r)
        BY <1>0, <2>3, IssueMoves, ReadKept DEF tables
    <2> QED
        BY <1>6, <2>1, <2>2, <2>3 DEF LoginStep
<1>7. ASSUME NEW r \in Requests, QueryFails(r) PROVE ReadIsTrue'
    BY <1>0, <1>7, QueryFailsMoves, ReadKept DEF tables
<1> QED
    BY <1>1, <1>2, <1>3, <1>4, <1>5, <1>6, <1>7 DEF Next

-----------------------------------------------------------------------------
(* What tokens carry.                                                      *)

LEMMA PackedKept ==
    ASSUME TokensPacked, SameTokens, given \subseteq given' PROVE TokensPacked'
BY DEF TokensPacked, SameTokens, SameToken

\* generate_access packs what was read with the map in use.
LEMMA PackedIssued ==
    ASSUME Types, MapHolds, ReadIsTrue, TokensPacked, NEW r \in Requests, Issue(r)
    PROVE  TokensPacked'
<1> DEFINE perms == task[r].seen
           c == Claims(perms)
<1>1. /\ pc[r] = "issue" /\ UNCHANGED given
      /\ \A q \in Requests \ {r} : token'[q] = token[q]
      /\ token'[r].granted = perms /\ token'[r].late = task[r].late
      /\ token'[r].blind = (mapLost \/ Reloads # {})
      /\ token'[r].bits = c.bits /\ token'[r].list = c.list
    BY IssueMoves DEF history
<1>2. perms \in SUBSET Buttons
    BY <1>1 DEF Types, Fits
<1>3. /\ c.bits = {map.forward[p] : p \in perms \cap DOMAIN map.forward}
      /\ \A n \in c.bits : \E g \in perms : <<g, n>> \in given
      /\ c.list = IF c.bits = {} THEN perms ELSE {}
    <2> HIDE DEF perms, c
    <2> QED
        BY <1>2, ClaimsAre DEF c
<1>4. ASSUME ~ task[r].late, ~ mapLost, Reloads = {}, NEW m \in perms
      PROVE  \E n \in c.bits : <<m, n>> \in given
    <2>1. map \in MapsOf(Mappings)
        BY <1>4 DEF MapHolds, MapFollowsTable
    <2>2. Mappings \subseteq given /\ Mappings \in SUBSET (Buttons \X Nat)
        BY DEF Types, Mappings
    <2>3. m \in enabled \cap Rows
        BY <1>1, <1>4 DEF ReadIsTrue, PermissionsOfRoles
    <2>4. m \in DOMAIN map.forward
        <3>1. <<m, bit[m]>> \in Mappings /\ <<m, bit[m]>>[1] = m
            BY <2>3 DEF Mappings
        <3>2. DOMAIN map.forward = {p[1] : p \in Mappings}
            BY <2>1, <2>2, MapOf
        <3> QED
            BY <3>1, <3>2
    <2>5. <<m, map.forward[m]>> \in Mappings
        BY <2>1, <2>2, <2>4, MapOf
    <2> HIDE DEF c, perms
    <2> QED
        BY <1>3, <1>4, <2>2, <2>4, <2>5
<1> HIDE DEF c, perms
<1>5. ASSUME NEW q \in Requests \ {r}
      PROVE  /\ {} \in {token'[q].bits, token'[q].list}
             /\ \A n \in token'[q].bits : \E g \in token'[q].granted : <<g, n>> \in given'
             /\ token'[q].usable /\ token'[q].bits = {} => token'[q].list = token'[q].granted
             /\ token'[q].usable /\ ~ token'[q].late /\ ~ token'[q].blind /\ token'[q].bits # {} =>
                  \A m \in token'[q].granted : \E n \in token'[q].bits : <<m, n>> \in given'
    BY <1>1 DEF TokensPacked
<1>6. /\ {} \in {token'[r].bits, token'[r].list}
      /\ \A n \in token'[r].bits : \E g \in token'[r].granted : <<g, n>> \in given'
      /\ token'[r].usable /\ token'[r].bits = {} => token'[r].list = token'[r].granted
      /\ token'[r].usable /\ ~ token'[r].late /\ ~ token'[r].blind /\ token'[r].bits # {} =>
           \A m \in token'[r].granted : \E n \in token'[r].bits : <<m, n>> \in given'
    BY <1>1, <1>3, <1>4
<1> QED
    BY <1>5, <1>6 DEF TokensPacked

\* Every other step leaves the tokens what they carry.
LEMMA StepTokens ==
    ASSUME Types, Positions, NEW r \in Requests,
           \/ Start(r) \/ ButtonStep(r) \/ RoleStep(r) \/ UserStep(r) \/ QueryFails(r)
           \/ ReadRoles(r) \/ ReadMenus(r)
    PROVE  SameTokens /\ given \subseteq given' /\ UNCHANGED now
<1>1. CASE Start(r)
    BY <1>1, StartMoves, SameTokensKept DEF Starts, history
<1>2. CASE ButtonStep(r)
    <2>1. CASE InsertRow(r)
        BY <2>1, InsertRowMoves, SameTokensKept
    <2>2. CASE UpdateRow(r) \/ DeleteRow(r)
        BY <2>2, RowMoves, SameTokensKept DEF history
    <2>3. CASE ReadMax(r) \/ CountBindings(r) \/ LoadMappings(r)
        BY <2>3, ReadMaxMoves, CountMoves, LoadMappingsMoves, SameTokensKept DEF Quiet
    <2>4. CASE InstallMap(r)
        BY <2>4, InstallMapMoves, SameTokensKept
    <2> QED
        BY <1>2, <2>1, <2>2, <2>3, <2>4 DEF ButtonStep
<1>3. CASE RoleStep(r)
    <2>1. CASE DeleteGrants(r) \/ UnbindRole(r)
        BY <2>1, LoseGrantsMoves DEF history
    <2>2. CASE InsertGrants(r)
        BY <2>2, InsertGrantsMoves DEF history
    <2>3. CASE ReadUsers(r) \/ CountUsers(r) \/ DropRole(r)
        BY <2>3, CountMoves, SameTokensKept DEF Quiet
    <2> QED
        BY <1>3, <2>1, <2>2, <2>3 DEF RoleStep
<1>4. CASE UserStep(r)
    <2>1. CASE FindUser(r)
        BY <2>1, FindUserMoves, SameTokensKept DEF Quiet
    <2>2. CASE CommitUser(r)
        BY <2>2, CommitUserMoves DEF history
    <2>3. CASE Runtime(r) \/ ForceRefresh(r)
        BY <2>3, RuntimeMoves, ForceRefreshMoves DEF history
    <2> QED
        BY <1>4, <2>1, <2>2, <2>3 DEF UserStep
<1>5. CASE QueryFails(r)
    BY <1>5, QueryFailsMoves
<1>6. CASE ReadRoles(r) \/ ReadMenus(r)
    BY <1>6, ReadRolesMoves, ReadMenusMoves, SameTokensKept DEF Quiet
<1> QED
    BY <1>1, <1>2, <1>3, <1>4, <1>5, <1>6

LEMMA NextTokensPacked ==
    /\ Types /\ Positions /\ MapHolds /\ ReadIsTrue /\ TokensPacked /\ [Next]_vars
    => TokensPacked'
<1> SUFFICES ASSUME Types, Positions, MapHolds, ReadIsTrue, TokensPacked, [Next]_vars
             PROVE  TokensPacked'
    OBVIOUS
<1>1. CASE UNCHANGED vars \/ Tick
    <2>1. UNCHANGED <<token, given>>
        BY <1>1 DEF vars, Tick, history
    <2> QED
        BY <2>1, SameTokensKept, PackedKept
<1>2. ASSUME NEW r \in Requests,
             \/ Start(r) \/ ButtonStep(r) \/ RoleStep(r) \/ UserStep(r) \/ QueryFails(r)
             \/ ReadRoles(r) \/ ReadMenus(r)
      PROVE  TokensPacked'
    BY <1>2, StepTokens, PackedKept
<1>3. ASSUME NEW r \in Requests, Issue(r) PROVE TokensPacked'
    BY <1>3, PackedIssued
<1> QED
    BY <1>1, <1>2, <1>3 DEF Next, LoginStep

-----------------------------------------------------------------------------
(* What changes of roles leave of the tokens.                              *)

\* A step that leaves the key, the user's roles and what they grant.
LEMMA RevokedKept ==
    ASSUME RevokedHolds, NEW r \in Requests, Alone(r), SameTokens,
           UNCHANGED <<deny, holds>>,
           \A g \in grants : g[1] \in holds => g \in grants',
           Telling(r) => Telling(r)'
    PROVE  RevokedHolds'
<1>1. ASSUME NEW q \in Requests, Telling(q) PROVE Telling(q)'
    BY <1>1 DEF Alone, Kept, Telling
<1>2. ASSUME NEW q \in Requests,
             token'[q].usable, ~ token'[q].late, ~ token'[q].unheard,
             NEW m \in token'[q].granted, \A role \in holds' : <<role, m>> \notin grants'
      PROVE  Dead(token[q])' \/ \E p \in Requests : Telling(p)'
    <2>1. /\ token[q].usable /\ ~ token[q].late /\ ~ token[q].unheard /\ m \in token[q].granted
          /\ token'[q].iat = token[q].iat
        BY <1>2 DEF SameTokens, SameToken
    <2>2. ASSUME NEW role \in holds PROVE <<role, m>> \notin grants
        <3>1. <<role, m>>[1] \in holds /\ <<role, m>> \notin grants'
            BY <1>2, <2>2
        <3> QED
            BY <3>1
    <2>3. Dead(token[q]) \/ \E p \in Requests : Telling(p)
        <3> HIDE DEF Dead, Telling
        <3> QED
            BY <2>1, <2>2 DEF RevokedHolds
    <2>4. Dead(token[q]) => Dead(token[q])'
        BY <2>1 DEF Dead
    <2> HIDE DEF Dead, Telling
    <2> QED
        BY <1>1, <2>3, <2>4
<1> HIDE DEF Dead, Telling
<1> QED
    BY <1>2 DEF RevokedHolds

\* Nobody hears of the change, as history notes.
LEMMA RevokedUnheard ==
    ASSUME SameTokens, Unheard PROVE RevokedHolds'
<1>1. \A q \in Requests : token'[q].usable => token'[q].unheard
    BY DEF SameTokens, SameToken, Unheard
<1> QED
    BY <1>1 DEF RevokedHolds

LEMMA RevokedTelling ==
    ASSUME NEW r \in Requests, Telling(r)' PROVE RevokedHolds'
<1> HIDE DEF Telling
<1> QED
    BY DEF RevokedHolds

\* The key puts every token that was issued out.
LEMMA RevokedDead ==
    ASSUME Types, SameTokens,
           deny' \in {[kind |-> "banned", at |-> 0], [kind |-> "refresh", at |-> now]}
    PROVE  RevokedHolds'
<1>1. \A q \in Requests : token'[q].iat <= now
    BY DEF Types, SameTokens, SameToken
<1>2. deny'.kind = "banned" \/ (deny'.kind = "refresh" /\ deny'.at = now)
    OBVIOUS
<1>3. \A q \in Requests : Dead(token[q])'
    BY <1>1, <1>2 DEF Dead
<1> HIDE DEF Dead
<1> QED
    BY <1>3 DEF RevokedHolds

\* A token holds what its user had when it was issued, or is noted late.
LEMMA RevokedIssued ==
    ASSUME Types, ReadIsTrue, RevokedHolds, NEW r \in Requests, Issue(r)
    PROVE  RevokedHolds'
<1>1. /\ Alone(r) /\ pc[r] = "issue" /\ UNCHANGED <<deny, holds, grants>>
      /\ \A q \in Requests \ {r} : token'[q] = token[q]
      /\ token'[r].granted = task[r].seen /\ token'[r].late = task[r].late
    BY IssueMoves DEF tables, process
<1>2. ASSUME NEW q \in Requests, Telling(q) PROVE Telling(q)'
    BY <1>1, <1>2 DEF Alone, Kept, Telling
<1>3. ASSUME ~ task[r].late, NEW m \in task[r].seen
      PROVE  \E role \in holds : <<role, m>> \in grants
    <2>1. m \in PermissionsOfRoles(holds)
        BY <1>1, <1>3 DEF ReadIsTrue
    <2> QED
        BY <2>1 DEF PermissionsOfRoles
<1>4. ASSUME NEW q \in Requests,
             token'[q].usable, ~ token'[q].late, ~ token'[q].unheard,
             NEW m \in token'[q].granted, \A role \in holds' : <<role, m>> \notin grants'
      PROVE  Dead(token[q])' \/ \E p \in Requests : Telling(p)'
    <2>1. q # r
        BY <1>1, <1>3, <1>4
    <2>2. token'[q] = token[q]
        BY <1>1, <2>1
    <2>3. Dead(token[q]) \/ \E p \in Requests : Telling(p)
        <3> HIDE DEF Dead, Telling
        <3> QED
            BY <1>1, <1>4, <2>2 DEF RevokedHolds
    <2>4. Dead(token[q]) => Dead(token[q])'
        BY <1>1, <2>2 DEF Dead
    <2> HIDE DEF Dead, Telling
    <2> QED
        BY <1>2, <2>3, <2>4
<1> HIDE DEF Dead, Telling
<1> QED
    BY <1>4 DEF RevokedHolds

LEMMA NextRevokedHolds ==
    Types /\ Positions /\ ReadIsTrue /\ RevokedHolds /\ [Next]_vars => RevokedHolds'
<1> SUFFICES ASSUME Types, Positions, ReadIsTrue, RevokedHolds, [Next]_vars
             PROVE  RevokedHolds'
    OBVIOUS
<1>1. CASE UNCHANGED vars \/ Tick
    <2>1. UNCHANGED <<token, deny, holds, grants, pc, task>>
        BY <1>1 DEF vars, Tick, tables, process
    <2> QED
        BY <2>1 DEF RevokedHolds, Dead, Telling
<1>2. ASSUME NEW r \in Requests, Start(r) PROVE RevokedHolds'
    <2>1. /\ Alone(r) /\ pc[r] = "idle" /\ UNCHANGED <<token, deny, holds, grants>>
        BY <1>2, StartMoves DEF Starts, tables, process
    <2>2. ~ Telling(r)
        BY <2>1 DEF Telling
    <2> QED
        BY <2>1, <2>2, SameTokensKept, RevokedKept
<1>3. ASSUME NEW r \in Requests, ButtonStep(r) PROVE RevokedHolds'
    <2>1. Alone(r) /\ UNCHANGED <<token, deny, holds, grants>>
        <3>1. CASE InsertRow(r)
            BY <3>1, InsertRowMoves DEF process
        <3>2. CASE UpdateRow(r) \/ DeleteRow(r)
            BY <3>2, RowMoves DEF process
        <3>3. CASE ReadMax(r) \/ CountBindings(r) \/ LoadMappings(r)
            BY <3>3, ReadMaxMoves, CountMoves, LoadMappingsMoves DEF Quiet
        <3>4. CASE InstallMap(r)
            BY <3>4, InstallMapMoves DEF tables
        <3> QED
            BY <1>3, <3>1, <3>2, <3>3, <3>4 DEF ButtonStep
    <2>2. pc[r] \in {"read_max", "insert_row", "update_row", "delete_row", "count_bindings",
                     "load", "install"}
        BY <1>3 DEF ButtonStep, ReadMax, InsertRow, UpdateRow, CountBindings, DeleteRow,
                    DeleteRowThen, LoadMappings, LoadAs, InstallMap
    <2>3. ~ Telling(r)
        BY <2>2 DEF Telling
    <2> QED
        BY <2>1, <2>3, SameTokensKept, RevokedKept
<1>4. ASSUME NEW r \in Requests, DeleteGrants(r) PROVE RevokedHolds'
    <2>1. /\ Alone(r) /\ task'[r] = task[r] /\ SameTokens /\ UNCHANGED <<deny, holds>>
          /\ grants' = {g \in grants : g[1] # task[r].role}
          /\ pc[r] = "delete_grants" /\ pc'[r] = "insert_grants"
        BY <1>4, LoseGrantsMoves DEF process, DeleteGrants
    <2>2. CASE task[r].role \in holds
        <3>1. Telling(r)'
            BY <2>1, <2>2 DEF Telling
        <3> QED
            BY <3>1, RevokedTelling
    <2>3. CASE task[r].role \notin holds
        <3>1. ~ Telling(r) /\ \A g \in grants : g[1] \in holds => g \in grants'
            BY <2>1, <2>3 DEF Telling
        <3> QED
            BY <2>1, <3>1, RevokedKept
    <2> QED
        BY <2>2, <2>3
<1>5. ASSUME NEW r \in Requests, UnbindRole(r) PROVE RevokedHolds'
    <2>1. /\ Alone(r) /\ SameTokens /\ UNCHANGED <<deny, holds>>
          /\ grants' = {g \in grants : g[1] # task[r].role}
          /\ pc[r] = "unbind_role"
          /\ task[r].role \in holds => Unheard
        BY <1>5, LoseGrantsMoves DEF process, UnbindRole, Unheard
    <2>2. CASE task[r].role \in holds
        BY <2>1, <2>2, RevokedUnheard
    <2>3. CASE task[r].role \notin holds
        <3>1. ~ Telling(r) /\ \A g \in grants : g[1] \in holds => g \in grants'
            BY <2>1, <2>3 DEF Telling
        <3> QED
            BY <2>1, <3>1, RevokedKept
    <2> QED
        BY <2>2, <2>3
<1>6. ASSUME NEW r \in Requests, InsertGrants(r) PROVE RevokedHolds'
    <2>1. /\ Alone(r) /\ SameTokens /\ UNCHANGED <<deny, holds>> /\ pc[r] = "insert_grants"
          /\ \/ /\ pc'[r] = "read_users" /\ task'[r] = task[r] /\ grants \subseteq grants'
             \/ Unheard
        BY <1>6, InsertGrantsMoves DEF process, Unheard
    <2>2. CASE pc'[r] = "read_users" /\ task'[r] = task[r] /\ grants \subseteq grants'
        <3>1. Telling(r) => Telling(r)'
            BY <2>1, <2>2 DEF Telling
        <3> QED
            BY <2>1, <2>2, <3>1, RevokedKept
    <2> QED
        BY <2>1, <2>2, RevokedUnheard
<1>7. ASSUME NEW r \in Requests, ReadUsers(r) \/ CountUsers(r) \/ DropRole(r) PROVE RevokedHolds'
    <2>1. /\ Alone(r) /\ UNCHANGED <<deny, holds, grants, token>>
          /\ \/ pc[r] = "read_users" /\ (task[r].role \in holds => pc'[r] = "force_refresh")
             \/ pc[r] \in {"count_users", "drop_role"}
        <3>1. CASE ReadUsers(r)
            BY <3>1, CountMoves DEF Quiet, ReadUsers, Proceed, Goto, Types
        <3>2. CASE CountUsers(r) \/ DropRole(r)
            BY <3>2, CountMoves DEF Quiet, CountUsers, DropRole
        <3> QED
            BY <1>7, <3>1, <3>2
    <2>2. Telling(r) => Telling(r)'
        BY <2>1 DEF Telling
    <2> QED
        BY <2>1, <2>2, SameTokensKept, RevokedKept
<1>8. ASSUME NEW r \in Requests, FindUser(r) \/ ReadRoles(r) \/ ReadMenus(r) PROVE RevokedHolds'
    <2>1. /\ Alone(r) /\ UNCHANGED <<deny, holds, grants, token>>
          /\ pc[r] \in {"find_user", "roles", "menus"}
        BY <1>8, FindUserMoves, ReadRolesMoves, ReadMenusMoves DEF Quiet
    <2>2. ~ Telling(r)
        BY <2>1 DEF Telling
    <2> QED
        BY <2>1, <2>2, SameTokensKept, RevokedKept
<1>9. ASSUME NEW r \in Requests, CommitUser(r) PROVE RevokedHolds'
    <2>1. /\ Alone(r) /\ SameTokens /\ UNCHANGED <<deny, grants>> /\ pc[r] = "commit"
          /\ holds' = IF task[r].change THEN task[r].asked ELSE holds
          /\ task[r].change => \/ pc'[r] = "force_refresh"
                               \/ pc'[r] = "unban" /\ task'[r].change
                               \/ Unheard
        BY <1>9, CommitUserMoves DEF process
    <2>2. CASE task[r].change
        <3>1. Telling(r)' \/ Unheard
            BY <2>1, <2>2 DEF Telling
        <3> QED
            BY <2>1, <3>1, RevokedTelling, RevokedUnheard
    <2>3. CASE ~ task[r].change
        <3>1. ~ Telling(r) /\ UNCHANGED holds
            BY <2>1, <2>3 DEF Telling
        <3> QED
            BY <2>1, <3>1, RevokedKept
    <2> QED
        BY <2>2, <2>3
<1>10. ASSUME NEW r \in Requests, Runtime(r) \/ ForceRefresh(r) PROVE RevokedHolds'
    <2>1. /\ SameTokens
          /\ \/ deny' \in {[kind |-> "banned", at |-> 0], [kind |-> "refresh", at |-> now]}
             \/ Unheard
        BY <1>10, RuntimeMoves, ForceRefreshMoves
    <2> QED
        BY <2>1, RevokedDead, RevokedUnheard
<1>11. ASSUME NEW r \in Requests, QueryFails(r) PROVE RevokedHolds'
    <2>1. /\ Alone(r) /\ SameTokens /\ UNCHANGED <<deny, holds, grants>>
          /\ \/ Unheard
             \/ pc[r] \in {"read_max", "insert_row", "load", "drop_role"}
        BY <1>11, QueryFailsMoves DEF tables, process
    <2>2. CASE pc[r] \in {"read_max", "insert_row", "load", "drop_role"}
        <3>1. ~ Telling(r)
            BY <2>2 DEF Telling
        <3> QED
            BY <2>1, <3>1, RevokedKept
    <2> QED
        BY <2>1, <2>2, RevokedUnheard
<1> QED
    BY <1>1, <1>2, <1>3, <1>4, <1>5, <1>6, <1>7, <1>8, <1>9, <1>10, <1>11, RevokedIssued
    DEF Next, RoleStep, UserStep, LoginStep

-----------------------------------------------------------------------------
(* The invariant.                                                          *)

LEMMA InitInv == Init => Inv
<1> SUFFICES ASSUME Init PROVE Inv
    OBVIOUS
<1>1. PICK f \in [First -> 0 .. (Cardinality(First) - 1)] :
        /\ \A b, c \in First : f[b] = f[c] => b = c
        /\ bit = [b \in Buttons |-> IF b \in First THEN f[b] ELSE None]
    BY DEF Init
<1>2. /\ First \subseteq Buttons /\ None \notin Nat /\ MaxTime \in Nat /\ MaxFailures \in Nat
      /\ IsFiniteSet(First) /\ Cardinality(First) \in Nat
    BY PermissionsAssumption, FS_Subset, FS_CardinalityType
<1>3. \A b \in First : f[b] \in Nat /\ f[b] < Cardinality(First) /\ bit[b] = f[b]
    BY <1>1, <1>2
<1>4. Rows = First /\ bit \in [Buttons -> Nat \cup {None}]
    <2>1. \A b \in Buttons : bit[b] = IF b \in First THEN f[b] ELSE None
        BY <1>1
    <2>2. Rows = First
        BY <1>2, <1>3, <2>1 DEF Rows
    <2> QED
        BY <1>1, <1>3, <2>2
<1>5. given = {<<b, bit[b]>> : b \in First} /\ enabled = First
    BY DEF Init
<1>6. given \subseteq Buttons \X Nat /\ Mappings \subseteq given
    BY <1>2, <1>3, <1>4, <1>5 DEF Mappings
<1>7. /\ pc = [r \in Requests |-> "idle"] /\ task = [r \in Requests |-> NoTask]
      /\ token = [r \in Requests |-> NoToken] /\ map \in MapsOf(Mappings)
      /\ now = 0 /\ failures = 0 /\ roles = Roles /\ grants = Roles \X First
      /\ holds \in SUBSET Roles /\ status = "enabled" /\ deny = NoDeny
      /\ raced = {} /\ mapLost = FALSE
    BY DEF Init
<1>8. \A S : "idle" \notin S => Readers(S) = {}
    BY <1>7 DEF Readers
<1>9. Types
    <2>1. /\ now \in 0 .. MaxTime /\ failures \in 0 .. MaxFailures
          /\ deny \in [kind : {"none", "banned", "refresh"}, at : 0 .. now]
        BY <1>2, <1>7 DEF NoDeny
    <2>2. /\ pc \in [Requests -> Places] /\ task \in [Requests -> Tasks]
          /\ \A r \in Requests : Fits(r)
        <3>1. "idle" \in Places
            BY DEF Places, Ended
        <3> QED
            BY <1>7, <3>1, NoTaskType DEF Fits, ButtonSteps, RoleSteps
    <2>3. token \in [Requests -> Tokens] /\ \A r \in Requests : token[r].iat <= now
        BY <1>7 DEF NoToken, Tokens
    <2>4. \A b \in Rows : <<b, bit[b]>> \in given
        BY <1>4, <1>5
    <2>5. \E mappings \in SUBSET given : map \in MapsOf(mappings)
        <3> HIDE DEF MapsOf, Mappings
        <3> QED
            BY <1>6, <1>7
    <2>6. grants \subseteq Roles \X Buttons
        BY <1>2, <1>7
    <2> HIDE DEF MapsOf, Rows
    <2> QED
        BY <1>4, <1>5, <1>6, <1>7, <2>1, <2>2, <2>3, <2>4, <2>5, <2>6 DEF Types
<1>10. Positions
    <2>1. Created = First
        <3>1. \A b \in First : <<b, bit[b]>> \in given /\ <<b, bit[b]>>[1] = b
            BY <1>5
        <3>2. \A m \in given : m[1] \in First
            BY <1>5
        <3> QED
            BY <3>1, <3>2 DEF Created
    <2>2. Creating = {} /\ Ranking = {}
        BY <1>8 DEF Creating, Ranking
    <2>3. \A m, n \in given : m[1] = n[1] => m = n
        BY <1>5
    <2>4. \A m \in given : m[2] < Cardinality(Created)
        BY <1>3, <1>5, <2>1
    <2> HIDE DEF Created
    <2> QED
        BY <2>2, <2>3, <2>4 DEF Positions
<1>11. Ranked
    <2>1. Ranking = {}
        BY <1>8 DEF Ranking
    <2> QED
        BY <1>1, <1>3, <1>4, <2>1 DEF Ranked, BitsApart
<1>12. MapHolds
    <2>1. Loading = {}
        BY <1>8 DEF Loading
    <2> HIDE DEF MapsOf, Mappings
    <2> QED
        BY <1>7, <2>1 DEF MapHolds, MapFollowsTable
<1>13. ReadIsTrue /\ TokensPacked /\ RevokedHolds
    BY <1>7 DEF ReadIsTrue, TokensPacked, RevokedHolds, NoToken
<1> QED
    BY <1>9, <1>10, <1>11, <1>12, <1>13 DEF Inv

LEMMA NextInv == Inv /\ [Next]_vars => Inv'
<1> SUFFICES ASSUME Inv, [Next]_vars PROVE Inv'
    OBVIOUS
<1>1. Types /\ Positions /\ Ranked /\ MapHolds /\ ReadIsTrue /\ TokensPacked /\ RevokedHolds
    BY DEF Inv
<1>2. Types'
    BY <1>1, NextTypes
<1>3. Positions'
    BY <1>1, <1>2, NextPositions
<1>4. Ranked' /\ MapHolds' /\ ReadIsTrue'
    BY <1>1, NextRanked, NextMapHolds, NextReadIsTrue
<1>5. TokensPacked' /\ RevokedHolds'
    BY <1>1, NextTokensPacked, NextRevokedHolds
<1> QED
    BY <1>2, <1>3, <1>4, <1>5 DEF Inv

LEMMA SpecInv == Spec => []Inv
BY InitInv, NextInv, PTL DEF Spec

-----------------------------------------------------------------------------
(* What follows.                                                           *)

\* The map in use: whatever it maps was given out once.
LEMMA MapIs ==
    ASSUME Types
    PROVE  /\ \A n \in DOMAIN map.reverse : <<map.reverse[n], n>> \in given
           /\ \A b \in DOMAIN map.forward : <<b, map.forward[b]>> \in given
<1>1. PICK mappings \in SUBSET given : map \in MapsOf(mappings)
    BY DEF Types
<1>2. mappings \in SUBSET (Buttons \X Nat)
    BY <1>1 DEF Types
<1> QED
    BY <1>1, <1>2, MapOf

\* And when it follows the table it maps what is enabled.
LEMMA TableMapIs ==
    ASSUME Types, map \in MapsOf(Mappings)
    PROVE  /\ \A n \in DOMAIN map.reverse : <<map.reverse[n], n>> \in Mappings
           /\ \A b \in enabled \cap Rows : bit[b] \in DOMAIN map.reverse
<1>1. Mappings \in SUBSET (Buttons \X Nat)
    BY DEF Types, Mappings
<1>2. /\ \A n \in DOMAIN map.reverse : <<map.reverse[n], n>> \in Mappings
      /\ DOMAIN map.reverse = {p[2] : p \in Mappings}
    BY <1>1, MapOf
<1>3. \A b \in enabled \cap Rows : <<b, bit[b]>> \in Mappings /\ <<b, bit[b]>>[2] = bit[b]
    BY DEF Mappings
<1> QED
    BY <1>2, <1>3

LEMMA TwinsAre ==
    ASSUME Types, Positions, NEW b, NEW c, NEW n, <<b, n>> \in given, <<c, n>> \in given
    PROVE  Twins(b, c)
<1>1. n \in Nat /\ n < Cardinality(Created)
    BY DEF Types, Positions
<1>2. n \in 0 .. Cardinality(Buttons)
    BY <1>1, CreatedFinite
<1> QED
    BY <1>2 DEF Twins

LEMMA TypesAre == ASSUME Types, Positions, TokensPacked PROVE TypeOK
<1>1. bit \in [Buttons -> 0 .. Cardinality(Buttons) \cup {None}]
    <2>1. ASSUME NEW b \in Buttons, bit[b] # None PROVE bit[b] \in 0 .. Cardinality(Buttons)
        <3>1. <<b, bit[b]>> \in given /\ bit[b] \in Nat
            BY <2>1 DEF Types, Rows
        <3>2. bit[b] < Cardinality(Created)
            BY <3>1 DEF Positions
        <3> QED
            BY <3>1, <3>2, CreatedFinite
    <2> QED
        BY <2>1 DEF Types
<1>2. DOMAIN map.forward \subseteq Buttons
    BY MapIs DEF Types
<1>3. DOMAIN map.reverse = {map.forward[b] : b \in DOMAIN map.forward}
    <2>1. PICK mappings \in SUBSET given : map \in MapsOf(mappings)
        BY DEF Types
    <2>2. mappings \in SUBSET (Buttons \X Nat)
        BY <2>1 DEF Types
    <2>3. /\ DOMAIN map.forward = {p[1] : p \in mappings}
          /\ DOMAIN map.reverse = {p[2] : p \in mappings}
          /\ \A b \in DOMAIN map.forward : <<b, map.forward[b]>> \in mappings
        BY <2>1, <2>2, MapOf
    <2>4. \A p \in mappings : p = <<p[1], p[2]>> /\ <<p[1], map.forward[p[1]]>> \in mappings
        BY <2>2, <2>3
    <2>5. ASSUME NEW p \in mappings PROVE map.forward[p[1]] = p[2]
        <3>1. <<p[1], map.forward[p[1]]>> = p
            BY <2>1, <2>4 DEF Positions
        <3> QED
            BY <3>1
    <2>6. \A b \in DOMAIN map.forward : <<b, map.forward[b]>>[2] = map.forward[b]
        OBVIOUS
    <2> QED
        BY <2>3, <2>5, <2>6
<1>4. deny.kind \in {"none", "banned", "refresh"} /\ deny.at <= now
    BY DEF Types
<1>5. \A r \in Requests : token[r].iat <= now /\ {} \in {token[r].bits, token[r].list}
    BY DEF Types, TokensPacked
<1> QED
    BY <1>1, <1>2, <1>3, <1>4, <1>5 DEF Types, TypeOK

\* create_button and reload_permission_map: at any time two buttons that exist
\* have different positions, unless one was inserted while another creation was
\* between its maximum and its insert; and when no change of a button is on its
\* way, the map is made of the table.
THEOREM SpecMapSound == Spec => []MapSound
<1>1. Inv => MapSound
    BY TypesAre DEF Inv, Ranked, MapHolds, MapSound
<1> QED
    BY <1>1, SpecInv, PTL

LEMMA OpensOnly == ASSUME Types, Positions, TokensPacked PROVE OpensOnlyGranted
<1>1. ASSUME NEW r \in Requests, Accepted(token[r]),
             NEW m \in PermissionsOf(token[r]) \ token[r].granted
      PROVE  \E g \in token[r].granted : Twins(g, m)
    <2>1. token[r].usable
        BY <1>1 DEF Accepted
    <2>2. token[r].bits # {}
        BY <1>1, <2>1 DEF PermissionsOf, TokensPacked
    <2>3. PICK n \in token[r].bits \cap DOMAIN map.reverse : m = map.reverse[n]
        BY <1>1, <2>2 DEF PermissionsOf, Decode
    <2>4. PICK g \in token[r].granted : <<g, n>> \in given
        BY <2>3 DEF TokensPacked
    <2>5. <<m, n>> \in given
        BY <2>3, MapIs
    <2> QED
        BY <2>4, <2>5, TwinsAre
<1> HIDE DEF Accepted, PermissionsOf, Twins
<1> QED
    BY <1>1 DEF OpensOnlyGranted

\* generate_access and validate_token: whatever map the process holds when a
\* token is presented, the token opens what its user had been granted when it
\* was issued, or a button that was given the position of one of those.
THEOREM SpecOpensOnlyGranted == Spec => []OpensOnlyGranted
<1>1. Inv => OpensOnlyGranted
    BY OpensOnly DEF Inv
<1> QED
    BY <1>1, SpecInv, PTL

LEMMA Keeps == ASSUME Types, Positions, MapHolds, TokensPacked PROVE KeepsGranted
<1>1. ASSUME Reloads = {}, ~ mapLost, NEW r \in Requests, Accepted(token[r]),
             ~ token[r].late, ~ token[r].blind,
             NEW m \in (token[r].granted \cap PermissionsOfRoles(holds)) \ PermissionsOf(token[r])
      PROVE  \E b \in Buttons \ {m} : Twins(b, m)
    <2>1. map \in MapsOf(Mappings)
        BY <1>1 DEF MapHolds, MapFollowsTable
    <2>2. token[r].usable
        BY <1>1 DEF Accepted
    <2>3. token[r].bits # {}
        BY <1>1, <2>2 DEF PermissionsOf, TokensPacked
    <2>4. PICK n \in token[r].bits : <<m, n>> \in given
        BY <1>1, <2>2, <2>3 DEF TokensPacked
    <2>5. m \in enabled \cap Rows
        BY <1>1 DEF PermissionsOfRoles
    <2>6. <<m, bit[m]>> \in given
        BY <2>5 DEF Types
    <2>7. n = bit[m]
        <3>1. <<m, n>> = <<m, bit[m]>>
            BY <2>4, <2>6 DEF Positions
        <3> QED
            BY <3>1
    <2>8. n \in DOMAIN map.reverse
        BY <2>1, <2>5, <2>7, TableMapIs
    <2> DEFINE b == map.reverse[n]
    <2>9. <<b, n>> \in given
        BY <2>8, MapIs
    <2>10. b # m
        <3>1. b \in Decode(token[r].bits, map)
            BY <2>4, <2>8 DEF Decode
        <3> QED
            BY <1>1, <2>3, <3>1 DEF PermissionsOf
    <2>11. b \in Buttons
        BY <2>9 DEF Types
    <2> HIDE DEF b
    <2>12. Twins(b, m)
        BY <2>4, <2>9, TwinsAre
    <2> QED
        BY <2>10, <2>11, <2>12
<1> HIDE DEF Accepted, PermissionsOf, PermissionsOfRoles, Twins
<1> QED
    BY <1>1 DEF KeepsGranted

\* PermissionMap::encode and decode: a token opens what it was granted and its
\* user still has, unless the map was behind when it was packed or is now, or
\* another button was given the same position.
THEOREM SpecKeepsGranted == Spec => []KeepsGranted
<1>1. Inv => KeepsGranted
    BY Keeps DEF Inv
<1> QED
    BY <1>1, SpecInv, PTL

LEMMA Revoked ==
    ASSUME Types, Positions, MapHolds, TokensPacked, RevokedHolds PROVE RevokedIsGone
<1>1. ASSUME Announcing = {}, Reloads = {}, ~ mapLost, NEW r \in Requests, Accepted(token[r]),
             ~ token[r].late, ~ token[r].unheard, token[r].bits # {},
             NEW m \in PermissionsOf(token[r]) \ PermissionsOfRoles(holds)
      PROVE  \E b \in Buttons \ {m} : Twins(b, m)
    <2>1. map \in MapsOf(Mappings)
        BY <1>1 DEF MapHolds, MapFollowsTable
    <2>2. PICK n \in token[r].bits \cap DOMAIN map.reverse : m = map.reverse[n]
        BY <1>1 DEF PermissionsOf, Decode
    <2>3. <<m, n>> \in Mappings
        BY <2>1, <2>2, TableMapIs
    <2>4. m \in enabled \cap Rows /\ <<m, n>> \in given
        BY <2>3 DEF Mappings, Types
    <2>5. PICK g \in token[r].granted : <<g, n>> \in given
        BY <2>2 DEF TokensPacked
    <2>6. g # m
        <3> SUFFICES ASSUME g = m PROVE FALSE
            OBVIOUS
        <3>1. \A role \in holds : <<role, m>> \notin grants
            BY <1>1, <2>4 DEF PermissionsOfRoles
        <3>2. Dead(token[r]) \/ \E q \in Requests : Telling(q)
            <4>1. token[r].usable
                BY <1>1 DEF Accepted
            <4> HIDE DEF Dead, Telling
            <4> QED
                BY <1>1, <2>5, <3>1, <4>1 DEF RevokedHolds
        <3>3. \A q \in Requests : ~ Telling(q)
            BY <1>1 DEF Announcing, Readers, Telling
        <3>4. ~ Dead(token[r])
            BY <1>1 DEF Accepted, Dead, Types, Tokens
        <3> QED
            BY <3>2, <3>3, <3>4
    <2>7. g \in Buttons /\ Twins(g, m)
        BY <2>4, <2>5, TwinsAre DEF Types
    <2> QED
        BY <2>6, <2>7
<1> HIDE DEF Accepted, PermissionsOf, PermissionsOfRoles, Twins
<1> QED
    BY <1>1 DEF RevokedIsGone

\* save_role_permissions, update_user and delete_role: when no change is under
\* way, a token that is accepted opens nothing its user has lost, but for the
\* exceptions the property names.
THEOREM SpecRevokedIsGone == Spec => []RevokedIsGone
<1>1. Inv => RevokedIsGone
    BY Revoked DEF Inv
<1> QED
    BY <1>1, SpecInv, PTL

=============================================================================
