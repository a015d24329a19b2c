----------------------------- MODULE ClientKeys -----------------------------
(***************************************************************************)
(* The client keys ("np-...") of users: generation with and without        *)
(* rotation, activation, deletion, and their use.                          *)
(*                                                                         *)
(* An UPDATE locks until its transaction ends: the rows it found           *)
(* (Postgres, READ COMMITTED) or the database (SQLite). Postgres' UPDATE   *)
(* does not see rows that another transaction inserts while it runs or     *)
(* waits. Postgres numbers keys as they are generated; SQLite gives a row  *)
(* the id that follows the highest one in the table, which may be the id   *)
(* of a key that has been deleted.                                         *)
(***************************************************************************)
EXTENDS Integers, FiniteSets, Mappings

CONSTANTS
    Users,
    Requests,      \* slots for requests in progress
    LocksTable,    \* TRUE for SQLite
    Rotates,       \* what clients ask for: a set of BOOLEAN
    MaxKeys        \* bound on the keys generated in a behaviour

ASSUME ClientKeysAssumption ==
    LocksTable \in BOOLEAN /\ Rotates \subseteq BOOLEAN /\ MaxKeys \in Nat

VARIABLES
    row,        \* client_api_keys: key -> user_id, is_active
    request,    \* slot -> the request in progress
    generated   \* keys generated

vars == <<row, request, generated>>

Init == row = Empty /\ request = Empty /\ generated = 0

At(s, phase) == s \in DOMAIN request /\ request[s].phase = phase
KeysOf(u) == {k \in DOMAIN row : row[k].user = u}

\* Keys whose row a rotation that has not committed has updated
Locked == UNION {request[s].keys : s \in {x \in DOMAIN request : At(x, "rotated")}}

\* Faulty: SQLite is taken to lock rows.
FreeRows(s, ks) == ks \cap Locked = {}

\* Whether a statement of s may write the rows of the keys ks now
Free(s, ks) ==
    IF LocksTable THEN \A x \in DOMAIN request \ {s} : ~At(x, "rotated")
    ELSE ks \cap Locked = {}

---------------------------------------------------------------------------
(* POST /client-keys *)

BeginRotation(s, u) ==
    /\ TRUE \in Rotates
    /\ s \notin DOMAIN request /\ generated < MaxKeys
    /\ generated' = generated + 1
    /\ request' = Put(request, s, [phase |-> "rotating", user |-> u, keys |-> KeysOf(u),
         new |-> generated + 1])
    /\ UNCHANGED row

\* UPDATE ... SET is_active = FALSE of all keys of the user: those the statement
\* has found, once it has the locks.
Rotate(s) ==
    /\ At(s, "rotating")
    /\ Free(s, request[s].keys)
    /\ request' = [request EXCEPT ![s].phase = "rotated", ![s].keys =
         IF LocksTable THEN KeysOf(request[s].user) ELSE @ \cap DOMAIN row]
    /\ UNCHANGED <<row, generated>>

\* The same without rotation
Generate(s, u) ==
    /\ FALSE \in Rotates
    /\ s \notin DOMAIN request /\ generated < MaxKeys
    /\ generated' = generated + 1
    /\ request' = Put(request, s, [phase |-> "single", user |-> u, keys |-> {},
         new |-> generated + 1])
    /\ UNCHANGED row

\* Faulty: as many as there are rows.
NewKeysCounted(s) ==
    IF LocksTable THEN {Cardinality(DOMAIN row)} ELSE {request[s].new}

\* The id that the row of s gets
NewKeys(s) ==
    IF LocksTable
    THEN {n \in 1..MaxKeys : (\A k \in DOMAIN row : k < n) /\ (n > 1 => n - 1 \in DOMAIN row)}
    ELSE {request[s].new}

\* The commit inserts the new key.
Commit(s) ==
    /\ At(s, "rotated") \/ At(s, "single")
    /\ Free(s, {})
    /\ LET retired == [k \in DOMAIN row |-> [row[k] EXCEPT !.active =
                         @ /\ k \notin request[s].keys]]
       IN \E new \in NewKeys(s) :
            row' = Put(retired, new, [user |-> request[s].user, active |-> TRUE])
    /\ request' = Drop(request, s)
    /\ UNCHANGED generated

\* A statement fails, or has waited for too long for a lock.
RollBack(s) ==
    /\ s \in DOMAIN request
    /\ request' = Drop(request, s)
    /\ UNCHANGED <<row, generated>>

---------------------------------------------------------------------------
(* PATCH and DELETE /client-keys/{id} *)

FindKey(s, k, v) ==
    /\ s \notin DOMAIN request
    /\ k \in DOMAIN row
    /\ request' = Put(request, s,
         [phase |-> "found", key |-> k, value |-> v, read |-> row[k].active])
    /\ UNCHANGED <<row, generated>>

\* A value equal to the one read is not written. The row is found by its id alone,
\* and on SQLite may by now be another user's.
SetActive(s) ==
    /\ At(s, "found")
    /\ LET k == request[s].key
       IN IF request[s].value = request[s].read THEN row' = row
          ELSE /\ k \in DOMAIN row
               /\ Free(s, {k})
               /\ row' = [row EXCEPT ![k].active = request[s].value]
    /\ request' = Drop(request, s)
    /\ UNCHANGED generated

DeleteKey(s, k) ==
    /\ s \notin DOMAIN request
    /\ k \in DOMAIN row /\ Free(s, {k})
    /\ row' = Drop(row, k)
    /\ UNCHANGED <<request, generated>>

---------------------------------------------------------------------------
Next == \E s \in Requests :
    \/ \E u \in Users : BeginRotation(s, u) \/ Generate(s, u)
    \/ Rotate(s) \/ Commit(s) \/ RollBack(s)
    \/ \E k \in DOMAIN row, v \in BOOLEAN : FindKey(s, k, v)
    \/ SetActive(s)
    \/ \E k \in DOMAIN row : DeleteKey(s, k)

Spec == Init /\ [][Next]_vars

---------------------------------------------------------------------------
(* Properties *)

Generating ==
    [phase : {"rotating", "rotated", "single"}, user : Users,
     keys : SUBSET (1..MaxKeys), new : 1..MaxKeys]
Patching == [phase : {"found"}, key : 1..MaxKeys, value : BOOLEAN, read : BOOLEAN]

TypeOK ==
    /\ IsMapping(row, 1..MaxKeys, [user : Users, active : BOOLEAN])
    /\ IsMapping(request, Requests, Generating \cup Patching)
    /\ generated \in 0..MaxKeys

ActiveKeys(u) == {k \in KeysOf(u) : row[k].active}

\* frontend/index.html:145: generating a key "automatically disables the old
\* keys". When a rotation commits, whatever was generated, activated or rotated
\* meanwhile, its key is the only active one of the user.
RotationLeavesOne ==
    [][\A s \in Requests : At(s, "rotated") /\ Commit(s) =>
         \A u \in {request[s].user} : \E new \in NewKeys(s) : ActiveKeys(u)' = {new}]_vars

===========================================================================
