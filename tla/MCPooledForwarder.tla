------------------------- MODULE MCPooledForwarder -------------------------
(* PooledForwarder for TLC: two clients of one role share the pool. *)
EXTENDS PooledForwarder, TLC

CONSTANTS c1, c2, r1

MCRoleOf == (c1 :> r1) @@ (c2 :> r1)

\* Clients of one role, and connections, are interchangeable in the safety
\* properties.
Symmetry == Permutations(Clients) \cup Permutations(Conns)
=============================================================================
