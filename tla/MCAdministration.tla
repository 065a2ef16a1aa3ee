-------------------------- MODULE MCAdministration --------------------------
(* The tables that the administration writes: notices, menus, dictionary.  *)
(* They share nothing, so a behaviour works on one of them.                *)
EXTENDS Notices, MenuTree, DictBundle, TLC

\* The notice is created; then two changes and a reader run against it.
MCScript == [r1 |-> {"create"},
             r2 |-> {"update", "publish", "delete"},
             r3 |-> {"update", "publish", "revoke", "delete_user", "delete_role"},
             r4 |-> {"publish", "read", "pin", "assign"}]

MCMenuScript == [r1 |-> {"create_menu"},
                 r2 |-> {"create_menu", "create_button", "apply"},
                 r3 |-> MenuOperations]
MCDictScript == [r1 |-> {"create_type"},
                 r2 |-> {"create_data", "apply"},
                 r3 |-> DictOperations]
MCSeed       == [code |-> "c1", value |-> "v1", look |-> "f1"]

MCSymmetry == Permutations(Users) \cup Permutations(Names) \cup Permutations(Looks)

NoticesIdle == \A r \in Requests : pc[r] = "idle"
MenuIdle    == \A r \in MenuRequests : mpc[r] = "idle"
DictIdle    == \A r \in DictRequests : dpc[r] = "idle"

\* One of the users is a member of the role.
AllInit == Init /\ Cardinality(members) = 1 /\ MenuInit /\ DictInit
AllNext == \/ MenuIdle /\ DictIdle /\ Next /\ UNCHANGED <<menuVars, dictVars>>
           \/ NoticesIdle /\ DictIdle /\ MenuNext /\ UNCHANGED <<vars, dictVars>>
           \/ NoticesIdle /\ MenuIdle /\ DictNext /\ UNCHANGED <<vars, menuVars>>
AllSpec == AllInit /\ [][AllNext]_<<vars, menuVars, dictVars>>
=============================================================================
