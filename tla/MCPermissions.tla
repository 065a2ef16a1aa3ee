---------------------------- MODULE MCPermissions ----------------------------
EXTENDS Permissions, TLC

\* Two changes may overlap each other and the logins of one user.
MCScript == [r1 |-> {"login"},
             r2 |-> {"save_role_permissions", "delete_role", "update_user", "update_button"},
             r3 |-> {"save_role_permissions", "update_user", "delete_menu",
                     "create_button"},
             r4 |-> {"create_button", "sync_button"}]

\* The buttons that do not exist yet are alike.
MCSymmetry == Permutations(Buttons \ First)
=============================================================================
