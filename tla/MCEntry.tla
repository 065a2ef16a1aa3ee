------------------------------ MODULE MCEntry --------------------------------
(* How a user comes in: by a code that a phone confirms, and then, with    *)
(* each request, through the two layers in front of the handlers and the   *)
(* rate limit of its handler.  The three share nothing, so a behaviour     *)
(* works on one of them.                                                   *)
EXTENDS QrLogin, ResourceGate, RateWindows, TLC

VARIABLE side

Get(path) == [method |-> "GET", path |-> path]

\* The wide pattern matches both endpoints, and one of them is public.
MCWanted    == {Get(<<"role", "list">>), Get(<<"role", Param>>)}
MCEndpoints == {Get(<<"role", "list">>), Get(<<"role", "7">>)}
MCPublic    == {[method |-> "GET", kind |-> "path", path |-> <<"role", "7">>]}

MCGateScript == [g1 |-> {"create", "save"},
                 g2 |-> {"update", "update_enabled", "delete"},
                 g3 |-> {"reload"}]
MCSymmetry   == UNION {Permutations(S) : S \in {Resources, Actions, Users}}

\* One resource is there, and asks for one action.
MCRow(here) ==
    [state |-> IF here THEN "row" ELSE "unborn", at |-> Get(<<"role", "list">>), enabled |-> "on"]
MCGateInit  == \E id \in Resources, a \in Actions :
                   GateStart([x \in Resources |-> MCRow(x = id)], {<<a, id>>})

\* The checks are interchangeable: they read the clock in the order of their
\* numbers.
InOrder == \A m, n \in Checks : m < n /\ stage'[n] # "idle" => stage'[m] # "idle"

AllInit == /\ Init /\ MCGateInit /\ WindowsInit
           /\ \/ side = "windows"
              \/ side \in {"code", "gate"} /\ algorithm = "fixed" /\ backend = "memory"
AllNext == /\ \/ side = "code" /\ Next /\ UNCHANGED <<gateVars, windowVars>>
              \/ side = "gate" /\ GateNext /\ UNCHANGED <<vars, windowVars>>
              \/ side = "windows" /\ WindowsNext /\ InOrder /\ UNCHANGED <<vars, gateVars>>
           /\ UNCHANGED side
AllSpec == AllInit /\ [][AllNext]_<<vars, gateVars, windowVars, side>>
=============================================================================
