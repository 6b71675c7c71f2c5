--------------------------- MODULE MCUserSessions ---------------------------
(***************************************************************************)
(* UserSessions with two tenants: an admin and another user in the first,  *)
(* and a user of the second who is still to be created.                    *)
(***************************************************************************)
EXTENDS UserSessions, TLC

CONSTANTS t1, t2, a1, a2, u1, k1

Symmetry ==
    Permutations(Sessions) \cup Permutations(Ops) \cup Permutations(Passwords)

MCTenantOf == a1 :> t1 @@ u1 :> t1 @@ k1 :> t1 @@ a2 :> t2

=============================================================================
