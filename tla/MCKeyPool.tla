---------------------------- MODULE MCKeyPool ----------------------------
(* Small instances of KeyPool for TLC. *)
EXTENDS KeyPoolLive, TLC

CONSTANTS h1, h2, c1, c2, a1, k1, k2

MCBase == [code \in {"402", "409", "429", "5xx"} |-> IF code = "5xx" THEN 3 ELSE 1]

Symmetric == Permutations({h1, h2}) \cup Permutations({k1, k2})

==========================================================================
