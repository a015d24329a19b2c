------------------------- MODULE ClientKeys_proof -------------------------
(***************************************************************************)
(* Proofs about ClientKeys: types, and that a rotation on SQLite leaves    *)
(* its key as the only active one.                                         *)
(***************************************************************************)
EXTENDS ClientKeys, TLAPS

Rows == [user : Users, active : BOOLEAN]
Tasks == Generating \cup Patching

\* What Rotate makes of a request
RotatedWith(q, ks) == [q EXCEPT !.phase = "rotated", !.keys = ks]

LEMMA RotatedTyped ==
    ASSUME NEW q \in Generating, NEW ks \in SUBSET (1..MaxKeys)
    PROVE  LET new == RotatedWith(q, ks)
           IN  /\ new \in Generating /\ new.phase = "rotated"
               /\ new.keys = ks /\ new.user = q.user /\ new.new = q.new
BY DEF RotatedWith, Generating

LEMMA RotateIs ==
    ASSUME NEW s, Rotate(s)
    PROVE  \E ks : /\ request' = [request EXCEPT ![s] = RotatedWith(request[s], ks)]
                   /\ ks = IF LocksTable THEN KeysOf(request[s].user)
                           ELSE request[s].keys \cap DOMAIN row
BY DEF Rotate, RotatedWith, At

LEMMA PhaseTyped ==
    ASSUME TypeOK, NEW s \in DOMAIN request
    PROVE  /\ s \in Requests /\ request[s] \in Tasks
           /\ request[s].phase \in {"rotating", "rotated", "single"} <=> request[s] \in Generating
           /\ request[s].phase = "found" <=> request[s] \in Patching
BY DEF TypeOK, IsMapping, Tasks, Generating, Patching

LEMMA DropTyped ==
    ASSUME TypeOK, NEW s, request' = Drop(request, s)
    PROVE  IsMapping(request, Requests, Tasks)'
BY DEF TypeOK, IsMapping, Drop, Restrict, Tasks

LEMMA PutTyped ==
    ASSUME TypeOK, NEW s \in Requests, NEW q \in Tasks, request' = Put(request, s, q)
    PROVE  IsMapping(request, Requests, Tasks)'
BY DEF TypeOK, IsMapping, Put, Tasks

LEMMA KeysTyped == ASSUME TypeOK, NEW u PROVE KeysOf(u) \subseteq 1..MaxKeys
BY DEF TypeOK, IsMapping, KeysOf

---------------------------------------------------------------------------
(* Types *)

LEMMA InitTypeOK == Init => TypeOK
BY ClientKeysAssumption DEF Init, TypeOK, IsMapping, Empty

LEMMA CommitTyped ==
    ASSUME TypeOK, NEW s \in Requests, Commit(s)
    PROVE  TypeOK'
<1> DEFINE retired == [k \in DOMAIN row |-> [row[k] EXCEPT !.active =
                          @ /\ k \notin request[s].keys]]
           new == [user |-> request[s].user, active |-> TRUE]
<1>1. s \in DOMAIN request /\ request[s] \in Generating
  BY PhaseTyped DEF Commit, At
<1>2. new \in Rows /\ NewKeys(s) \subseteq 1..MaxKeys
  BY <1>1 DEF Generating, Rows, NewKeys
<1>3. \A k \in DOMAIN row : row[k] \in Rows /\ k \in 1..MaxKeys
  BY DEF TypeOK, IsMapping, Rows
<1>4. \A k \in DOMAIN row : retired[k] \in Rows
  BY <1>3 DEF Rows
<1>5. PICK n \in NewKeys(s) : row' = Put(retired, n, new)
  BY DEF Commit
<1>6. IsMapping(row, 1..MaxKeys, Rows)'
  <2> HIDE DEF new
  <2>1. DOMAIN retired = DOMAIN row
    OBVIOUS
  <2> HIDE DEF retired
  <2> QED
    BY <1>2, <1>3, <1>4, <1>5, <2>1 DEF IsMapping, Put
<1> QED
  BY <1>6, DropTyped DEF Commit, TypeOK, Tasks, Rows

LEMMA SetActiveTyped ==
    ASSUME TypeOK, NEW s \in Requests, SetActive(s)
    PROVE  TypeOK'
<1> DEFINE k == request[s].key
<1>1. request[s].value \in BOOLEAN /\ request[s] \in Patching
  BY PhaseTyped DEF SetActive, At, Patching
<1>2. IsMapping(row, 1..MaxKeys, Rows)
  BY DEF TypeOK, Rows
<1>3. CASE row' = row
  BY <1>3, DropTyped DEF SetActive, TypeOK, Tasks, IsMapping
<1>4. CASE k \in DOMAIN row /\ row' = [row EXCEPT ![k].active = request[s].value]
  <2>1. [row[k] EXCEPT !.active = request[s].value] \in Rows
    BY <1>1, <1>2, <1>4 DEF IsMapping, Rows
  <2>2. IsMapping(row, 1..MaxKeys, Rows)'
    BY <1>2, <1>4, <2>1 DEF IsMapping
  <2> QED
    BY <2>2, DropTyped DEF SetActive, TypeOK, Tasks, Rows
<1> QED
  BY <1>3, <1>4 DEF SetActive

LEMMA NextTypeOK == TypeOK /\ [Next]_vars => TypeOK'
<1> SUFFICES ASSUME TypeOK, [Next]_vars PROVE TypeOK'
  OBVIOUS
<1> USE ClientKeysAssumption
<1>1. CASE UNCHANGED vars
  BY <1>1 DEF vars, TypeOK, IsMapping
<1>2. ASSUME NEW s \in Requests, NEW u \in Users, BeginRotation(s, u) \/ Generate(s, u)
      PROVE  TypeOK'
  <2>1. generated + 1 \in 1..MaxKeys /\ generated' = generated + 1 /\ row' = row
    <3>1. generated < MaxKeys /\ generated' = generated + 1 /\ row' = row
      BY <1>2 DEF BeginRotation, Generate
    <3>2. generated \in 0..MaxKeys
      BY DEF TypeOK
    <3> QED
      BY <3>1, <3>2
  <2>2. PICK q \in Generating : request' = Put(request, s, q)
    <3> DEFINE task(phase, ks) ==
                 [phase |-> phase, user |-> u, keys |-> ks, new |-> generated + 1]
    <3>1. task("rotating", KeysOf(u)) \in Generating /\ task("single", {}) \in Generating
      BY <2>1, KeysTyped DEF Generating
    <3>2. \/ request' = Put(request, s, task("rotating", KeysOf(u)))
          \/ request' = Put(request, s, task("single", {}))
      BY <1>2 DEF BeginRotation, Generate
    <3> HIDE DEF task
    <3> QED
      BY <3>1, <3>2
  <2>3. IsMapping(request, Requests, Tasks)'
    BY <2>2, PutTyped DEF Tasks
  <2> QED
    BY <2>1, <2>3 DEF TypeOK, Tasks, IsMapping
<1>3. ASSUME NEW s \in Requests, Rotate(s)
      PROVE  TypeOK'
  <2>1. PICK ks : /\ request' = [request EXCEPT ![s] = RotatedWith(request[s], ks)]
                  /\ ks = IF LocksTable THEN KeysOf(request[s].user)
                          ELSE request[s].keys \cap DOMAIN row
    BY <1>3, RotateIs
  <2>2. s \in DOMAIN request /\ request[s] \in Generating
    BY <1>3, PhaseTyped DEF Rotate, At
  <2>3. ks \in SUBSET (1..MaxKeys)
    BY <2>1, <2>2, KeysTyped DEF Generating
  <2>4. RotatedWith(request[s], ks) \in Generating
    BY <2>2, <2>3, RotatedTyped
  <2>5. IsMapping(request, Requests, Tasks)'
    <3>1. IsMapping(request, Requests, Tasks) /\ RotatedWith(request[s], ks) \in Tasks
      BY <2>4 DEF TypeOK, Tasks
    <3>2. request' = [request EXCEPT ![s] = RotatedWith(request[s], ks)]
      BY <2>1
    <3> QED
      BY <3>1, <3>2 DEF IsMapping
  <2> QED
    BY <1>3, <2>5 DEF Rotate, TypeOK, Tasks, IsMapping
<1>4. ASSUME NEW s \in Requests, RollBack(s)
      PROVE  TypeOK'
  BY <1>4, DropTyped DEF RollBack, TypeOK, Tasks, IsMapping
<1>5. ASSUME NEW s \in Requests, NEW k \in DOMAIN row, NEW v \in BOOLEAN, FindKey(s, k, v)
      PROVE  TypeOK'
  <2> DEFINE q == [phase |-> "found", key |-> k, value |-> v, read |-> row[k].active]
  <2>1. q \in Tasks
    BY DEF TypeOK, IsMapping, Tasks, Patching
  <2>2. request' = Put(request, s, q)
    BY <1>5 DEF FindKey
  <2>3. IsMapping(request, Requests, Tasks)'
    BY <2>1, <2>2, PutTyped
  <2> QED
    BY <1>5, <2>3 DEF FindKey, TypeOK, Tasks, IsMapping
<1>6. ASSUME NEW s \in Requests, NEW k \in DOMAIN row, DeleteKey(s, k)
      PROVE  TypeOK'
  BY <1>6 DEF DeleteKey, Drop, Restrict, TypeOK, IsMapping
<1> QED
  BY <1>1, <1>2, <1>3, <1>4, <1>5, <1>6, CommitTyped, SetActiveTyped DEF Next

\* Rows and requests keep their types under any overlap, on either database.
THEOREM TypeCorrect == Spec => []TypeOK
BY InitTypeOK, NextTypeOK, PTL DEF Spec

---------------------------------------------------------------------------
(* Rotation on SQLite *)

\* What a rotation has found is what its user has, as long as it has the lock.
RotationsHold ==
    \A s \in DOMAIN request :
        request[s].phase = "rotated" => request[s].keys = KeysOf(request[s].user)

\* Rows change only where no other request has rotated.
LEMMA RowsLocked ==
    ASSUME LocksTable, [Next]_vars, row' # row
    PROVE  \E s \in Requests :
             /\ \A x \in DOMAIN request \ {s} : request[x].phase # "rotated"
             /\ request' = Drop(request, s) \/ (request' = request /\ s \notin DOMAIN request)
BY DEF Next, vars, BeginRotation, Generate, Rotate, Commit, RollBack, FindKey, SetActive,
       DeleteKey, Free, At

LEMMA NextHolds ==
    ASSUME LocksTable
    PROVE  TypeOK /\ RotationsHold /\ [Next]_vars => RotationsHold'
<1> SUFFICES ASSUME TypeOK, RotationsHold, [Next]_vars,
                    NEW s \in DOMAIN request', request'[s].phase = "rotated"
             PROVE  request'[s].keys = KeysOf(request[s].user)'
  BY DEF RotationsHold
<1>1. CASE row' # row
  BY <1>1, RowsLocked DEF Drop, Restrict
<1>2. CASE row' = row
  <2>1. CASE s \in DOMAIN request /\ request'[s] = request[s]
    BY <1>2, <2>1 DEF RotationsHold, KeysOf
  <2>2. CASE Rotate(s)
    <3>1. PICK ks : /\ request' = [request EXCEPT ![s] = RotatedWith(request[s], ks)]
                    /\ ks = KeysOf(request[s].user)
      BY <2>2, RotateIs
    <3>2. s \in DOMAIN request /\ request[s] \in Generating
      BY <2>2, PhaseTyped DEF Rotate, At
    <3>3. ks \in SUBSET (1..MaxKeys)
      BY <3>1, KeysTyped
    <3>4. request'[s].keys = ks /\ request'[s].user = request[s].user
      BY <3>1, <3>2, <3>3, RotatedTyped
    <3> QED
      BY <1>2, <3>1, <3>4 DEF KeysOf
  <2>3. ASSUME NEW x \in Requests, Rotate(x), x # s
        PROVE  s \in DOMAIN request /\ request'[s] = request[s]
    BY <2>3 DEF Rotate
  <2>4. ASSUME NEW x, NEW q, request' = Put(request, x, q), q.phase # "rotated"
        PROVE  s \in DOMAIN request /\ request'[s] = request[s]
    BY <2>4 DEF Put
  <2>5. ASSUME NEW x, request' = Drop(request, x)
        PROVE  s \in DOMAIN request /\ request'[s] = request[s]
    BY <2>5 DEF Drop, Restrict
  <2>6. ASSUME NEW x, NEW u, BeginRotation(x, u) \/ Generate(x, u)
        PROVE  s \in DOMAIN request /\ request'[s] = request[s]
    <3> DEFINE task(phase, ks) ==
                 [phase |-> phase, user |-> u, keys |-> ks, new |-> generated + 1]
    <3>1. \A phase, ks : task(phase, ks).phase = phase
      OBVIOUS
    <3>2. \/ request' = Put(request, x, task("rotating", KeysOf(u)))
          \/ request' = Put(request, x, task("single", {}))
      BY <2>6 DEF BeginRotation, Generate
    <3> HIDE DEF task
    <3> QED
      BY <2>4, <3>1, <3>2
  <2>7. ASSUME NEW x, NEW k, NEW v, FindKey(x, k, v)
        PROVE  s \in DOMAIN request /\ request'[s] = request[s]
    BY <2>4, <2>7 DEF FindKey
  <2> QED
    BY <2>1, <2>2, <2>3, <2>5, <2>6, <2>7
    DEF Next, vars, Commit, RollBack, SetActive, DeleteKey
<1> QED
  BY <1>1, <1>2

\* On a database that locks as a whole, the key of a rotation that commits is the
\* only active one of its user.
THEOREM RotationSafe == ASSUME LocksTable PROVE Spec => RotationLeavesOne
<1>1. Init => RotationsHold
  BY DEF Init, RotationsHold, Empty
<1>2. TypeOK /\ RotationsHold /\ [Next]_vars =>
        [\A s \in Requests : At(s, "rotated") /\ Commit(s) =>
           \A u \in {request[s].user} :
             \E new \in NewKeys(s) : ActiveKeys(u)' = {new}]_vars
  <2> SUFFICES ASSUME TypeOK, RotationsHold, NEW s \in Requests, At(s, "rotated"), Commit(s),
                      NEW u, u = request[s].user
               PROVE  \E n \in NewKeys(s) : ActiveKeys(u)' = {n}
    OBVIOUS
  <2> DEFINE retired == [k \in DOMAIN row |-> [row[k] EXCEPT !.active =
                            @ /\ k \notin request[s].keys]]
             new == [user |-> u, active |-> TRUE]
  <2>1. request[s].keys = KeysOf(u)
    BY DEF RotationsHold, At
  <2>2. PICK n \in NewKeys(s) : row' = Put(retired, n, new)
    BY DEF Commit
  <2>3. \A k \in DOMAIN row : retired[k].user = u => ~retired[k].active
    BY <2>1 DEF TypeOK, IsMapping, KeysOf
  <2>4. DOMAIN retired = DOMAIN row /\ new.user = u /\ new.active
    OBVIOUS
  <2> HIDE DEF retired, new
  <2>5. DOMAIN row' = DOMAIN row \cup {n}
    BY <2>2, <2>4 DEF Put
  <2>6. \A k \in DOMAIN row' : row'[k] = IF k = n THEN new ELSE retired[k]
    BY <2>2, <2>4 DEF Put
  <2> QED
    BY <2>3, <2>4, <2>5, <2>6 DEF ActiveKeys, KeysOf
<1> QED
  BY <1>1, <1>2, NextHolds, InitTypeOK, NextTypeOK, PTL DEF Spec, RotationLeavesOne

===========================================================================
