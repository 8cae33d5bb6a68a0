--------------------------- MODULE MCBackendPool ---------------------------
(* BackendPool for TLC: two clients of one role compete with one of another. *)
EXTENDS BackendPool, TLC

CONSTANTS c1, c2, c3, r1, r2

MCRoleOf == (c1 :> r1) @@ (c2 :> r1) @@ (c3 :> r2)
=============================================================================
