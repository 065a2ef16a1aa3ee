------------------------------- MODULE QrLogin -------------------------------
(***************************************************************************)
(* Login by QR code (summer-auth/src/qrcode.rs): a web page shows a code   *)
(* and polls it; a mobile client scans it, then confirms or cancels. Every *)
(* call reads the state of the code, decides, and overwrites the state     *)
(* later; confirm logs the user in between. The login itself is one step   *)
(* here, its own calls are those of AuthSession.                           *)
(*                                                                         *)
(* One code: codes are fresh uuids under keys of their own. Bound: every   *)
(* call of Calls is made once.                                             *)
(***************************************************************************)
EXTENDS Naturals, FiniteSets

CONSTANTS Calls, Users, NoUser, NoCall

ASSUME QrAssumption ==
    NoUser \notin Users /\ NoCall \notin Calls /\ IsFiniteSet(Calls)

VARIABLES
    code,       \* the value of auth:qr:{code}
    at, op, who, \* where a call stands, what it does, for which user
    sessions,   \* the calls whose login succeeded
    polled,     \* the sessions whose tokens the web page was handed
    \* history
    scanned,    \* the users a scan was stored for
    raced       \* calls that were under way when the code was settled or expired

call == <<at, op, who>>
history == <<scanned, raced>>
vars == <<code, call, sessions, polled, history>>

Absent      == [status |-> "absent",    user |-> NoUser, by |-> NoCall]
Pending     == [status |-> "pending",   user |-> NoUser, by |-> NoCall]
Scanned(u)  == [status |-> "scanned",   user |-> u,      by |-> NoCall]
Confirmed(c) == [status |-> "confirmed", user |-> NoUser, by |-> c]
Cancelled   == [status |-> "cancelled", user |-> NoUser, by |-> NoCall]

States == {Absent, Pending, Cancelled}
            \cup {Scanned(u) : u \in Users} \cup {Confirmed(c) : c \in Calls}

Running == {c \in Calls : at[c] \in {"login", "store"}}
Settled(state) == state.status \in {"absent", "confirmed", "cancelled"}

Init ==
    /\ code = Pending      \* create_qr_code
    /\ at = [c \in Calls |-> "idle"]
    /\ op = [c \in Calls |-> "none"]
    /\ who = [c \in Calls |-> NoUser]
    /\ sessions = {} /\ polled = {}
    /\ scanned = {} /\ raced = {}

\* Mutant: a code that was confirmed can be scanned again.
Allowed_Rescan(o, u) ==
    \/ o = "scan"    /\ code.status \in {"pending", "confirmed"}
    \/ o = "confirm" /\ code = Scanned(u)
    \/ o = "cancel"  /\ code.status \in {"pending", "scanned"}

\* The match on the state that was read.
Allowed(o, u) ==
    \/ o = "scan"    /\ code.status = "pending"
    \/ o = "confirm" /\ code = Scanned(u)
    \/ o = "cancel"  /\ code.status \in {"pending", "scanned"}

\* A call that is refused ends without a trace and is left out.
Read(c, o, u) ==
    /\ at[c] = "idle"
    /\ Allowed(o, u)
    /\ at' = [at EXCEPT ![c] = IF o = "confirm" THEN "login" ELSE "store"]
    /\ op' = [op EXCEPT ![c] = o]
    /\ who' = [who EXCEPT ![c] = u]
    /\ UNCHANGED <<code, sessions, polled, history>>

Login(c) ==
    /\ at[c] = "login"
    /\ at' = [at EXCEPT ![c] = "store"]
    /\ sessions' = sessions \cup {c}
    /\ UNCHANGED <<code, op, who, polled, history>>

NewState(c) ==
    CASE op[c] = "scan"    -> Scanned(who[c])
      [] op[c] = "confirm" -> Confirmed(c)
      [] op[c] = "cancel"  -> Cancelled

\* Mutant: the answer comes before the state is stored, which may fail.
Store_Unchecked(c) ==
    /\ at[c] = "store"
    /\ code' \in {code, NewState(c)}
    /\ at' = [at EXCEPT ![c] = "ok"]
    /\ raced' = IF Settled(code') THEN raced \cup (Running \ {c}) ELSE raced
    /\ scanned' = IF op[c] = "scan" THEN scanned \cup {who[c]} ELSE scanned
    /\ UNCHANGED <<op, who, sessions, polled>>

Store(c) ==
    /\ at[c] = "store"
    /\ code' = NewState(c)
    /\ at' = [at EXCEPT ![c] = "ok"]
    /\ raced' = IF Settled(code') THEN raced \cup (Running \ {c}) ELSE raced
    /\ scanned' = IF op[c] = "scan" THEN scanned \cup {who[c]} ELSE scanned
    /\ UNCHANGED <<op, who, sessions, polled>>

\* The login or the store fails, or the request is dropped: a session that
\* was made stays.
Fail(c) ==
    /\ c \in Running
    /\ at' = [at EXCEPT ![c] = "failed"]
    /\ UNCHANGED <<code, op, who, sessions, polled, history>>

\* get_qr_code_state hands the tokens out as often as it is asked.
Poll ==
    /\ code.status = "confirmed"
    /\ polled' = polled \cup {code.by}
    /\ UNCHANGED <<code, call, sessions, history>>

\* The time to live of the last write ends.
Expire ==
    /\ code # Absent
    /\ code' = Absent
    /\ raced' = raced \cup Running
    /\ UNCHANGED <<call, sessions, polled, scanned>>

Request(c) ==
    \/ \E u \in Users, o \in {"scan", "confirm"} : Read(c, o, u)
    \/ Read(c, "cancel", NoUser)

Next ==
    \/ \E c \in Calls : Request(c) \/ Login(c) \/ Store(c) \/ Fail(c)
    \/ Poll
    \/ Expire

Spec == Init /\ [][Next]_vars

-----------------------------------------------------------------------------
(* Properties                                                              *)

\* The types, and that only logged-in confirms are named by a code.
TypeOK ==
    /\ code \in States
    /\ at \in [Calls -> {"idle", "login", "store", "ok", "failed"}]
    /\ op \in [Calls -> {"none", "scan", "confirm", "cancel"}]
    /\ who \in [Calls -> Users \cup {NoUser}]
    /\ sessions \subseteq {c \in Calls : op[c] = "confirm"}
    /\ polled \subseteq sessions /\ raced \subseteq Calls
    /\ scanned \subseteq Users

\* Tokens a web page is handed belong to a user who scanned this code and then
\* confirmed it, whatever else overwrote the state in between.
OnlyTheScannerLogsIn == \A c \in sessions : who[c] \in scanned

\* A code that was confirmed, cancelled or has expired is only overwritten by
\* a call that had read it before: a confirm may undo a cancel, a scan may undo
\* a confirm and both may bring an expired code back, but no later call can.
SettledStays ==
    [][Settled(code) /\ code' # code =>
         code' = Absent \/ \E c \in raced : at[c] = "store" /\ at'[c] = "ok"]_vars

\* A code is confirmed once, and once more for every call that raced with what
\* settled it: the web page may then be handed the tokens of two users.
OneSessionPerCode ==
    Cardinality({c \in Calls : op[c] = "confirm" /\ at[c] = "ok"}) <= 1 + Cardinality(raced)

\* The tokens of a confirm that answered with success can be polled until the
\* code expires or a call that raced with it overwrites them.
ConfirmedCanBePolled ==
    \A c \in Calls : at[c] = "ok" /\ op[c] = "confirm" =>
        code = Confirmed(c) \/ code = Absent \/ \E d \in raced : at[d] = "ok"

=============================================================================
