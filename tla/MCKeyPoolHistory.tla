------------------------- MODULE MCKeyPoolHistory -------------------------
(* Small instances of KeyPoolHistory for TLC. *)
EXTENDS KeyPoolHistory, TLC

CONSTANTS h1, h2, c1, c2, a1, k1, k2

MCBase == [code \in {"402", "409", "429", "5xx"} |-> IF code = "5xx" THEN 3 ELSE 1]

Symmetric == Permutations({h1, h2}) \cup Permutations({c1, c2})

\* Bound: two checks are in progress at once only while nothing else is.
TwoChecksAlone ==
    Cardinality(DOMAIN check) <= 1 \/ DOMAIN req \cup DOMAIN toggle = {}

\* Two states are told apart by what a step can still read of them. A check
\* edits three columns and commits those that it changed, a toggle commits
\* is_enabled, and Flush reads no other column of a copy.
Ruled(rows) ==
    [i \in DOMAIN rows |-> <<rows[i].status, rows[i].tier, rows[i].fail_streak>>]

LiveColumns ==
    <<now, key, nextId, okLog, failLog, req, history,
      [c \in DOMAIN check |->
         <<check[c].todo, Ruled(check[c].loaded), Ruled(check[c].edited)>>],
      [a \in DOMAIN toggle |-> <<toggle[a].id, toggle[a].row.is_enabled>>]>>

==========================================================================
