---------------------------- MODULE MCAuthGuard ----------------------------
(* Small instances of AuthGuard for TLC. *)
EXTENDS AuthGuard, TLC

CONSTANTS d1, root, a, b, e1, r1, r2, n1, n2

\* Slots, nodes and the names other than the administrator's are interchangeable.
Symmetric == Permutations(Requests) \cup Permutations(Nodes)
             \cup Permutations(Names \ {Administrator})

=============================================================================
