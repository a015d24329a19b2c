----------------------------- MODULE Mappings -----------------------------
(* Partial functions: tables by primary key, tasks by slot. *)
EXTENDS Functions

\* The empty mapping, a mapping with an entry set, and with one removed.
Empty == [x \in {} |-> x]
Put(f, x, v) == [y \in DOMAIN f \cup {x} |-> IF y = x THEN v ELSE f[y]]
Drop(f, x) == Restrict(f, DOMAIN f \ {x})

IsMapping(f, S, T) ==
    /\ DOMAIN f \subseteq S
    /\ f = [x \in DOMAIN f |-> f[x]]
    /\ \A x \in DOMAIN f : f[x] \in T

==========================================================================
