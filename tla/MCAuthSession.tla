--------------------------- MODULE MCAuthSession ---------------------------
(* Instances of AuthSession for TLC: which operation each request may be.  *)
EXTENDS AuthSession, TLC

CONSTANTS r1, r2, r3, r4, r5, d1, d2, d3

Everything  == Operations \ {"disable_revoke"}

\* A session, two requests of the user, and one or two of anybody.
RaceScript == (r1 :> {"login"}) @@ (r2 :> {"login", "refresh"})
           @@ (r3 :> {"refresh", "logout_all", "ban"})
           @@ (r4 :> {"force_refresh", "unban"})

\* One request at a time, any of them, in any order.
SerialScript == [r \in Requests |-> Everything]

SerialSymmetry  == Permutations(Requests) \cup Permutations(Devices)
=============================================================================
