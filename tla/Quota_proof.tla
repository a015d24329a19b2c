--------------------------- MODULE Quota_proof ---------------------------
(***************************************************************************)
(* Proofs about Quota: what bodies are sent, for any numbers; the types of *)
(* its state; the quota a request finds, and how far a user gets above it. *)
(***************************************************************************)
EXTENDS QuotaHistory, FiniteSetTheorems, WellFoundedInduction, TLAPS

---------------------------------------------------------------------------
(* Bodies *)

\* Of four fields that are numbers, none is left unconverted.
LEMMA ConvertedFields ==
    ASSUME NEW body
    PROVE  Unconverted(body) = {} <=> \A field \in Fields : body.fields[field].kind = "number"
<1>1. DOMAIN Converted = {1, 2, 3, 4}
  BY DEF Converted
<1>2. /\ Converted[1] = "width" /\ Converted[2] = "height"
      /\ Converted[3] = "steps" /\ Converted[4] = "n_samples"
  BY DEF Converted
<1> QED
  BY <1>1, <1>2 DEF Unconverted, Fields

LEMMA NumberValue ==
    ASSUME NEW body \in Objects, DOMAIN body.fields = Fields, NEW field \in Fields,
           body.fields[field].kind = "number"
    PROVE  body.fields[field].halves \in Int
<1>1. PICK F \in SUBSET Fields : body.fields \in [F -> Values]
  BY DEF Objects
<1>2. body.fields[field] \in Values
  BY <1>1
<1> QED
  BY <1>2, AdmissionAssumption DEF Values, Number

\* int() takes off less than one.
LEMMA WholeBounds ==
    ASSUME NEW h \in Int
    PROVE  /\ Whole(h) \in Int
           /\ h >= 2 => Whole(h) > 0 /\ 2 * Whole(h) <= h
           /\ Whole(h) > 0 => h >= 2 /\ h - 2 < 2 * Whole(h)
BY DEF Whole

\* A product of whole parts against the product of the numbers.
LEMMA ProductBounds ==
    ASSUME NEW a \in Int, NEW b \in Int, a >= 2, b >= 2
    PROVE  /\ 4 * (Whole(a) * Whole(b)) <= a * b
           /\ (a - 2) * (b - 2) < 4 * (Whole(a) * Whole(b))
<1> DEFINE x == 2 * Whole(a)
           y == 2 * Whole(b)
<1>1. x \in Int /\ y \in Int /\ 0 < x /\ 0 < y
  BY WholeBounds
<1>2. x <= a /\ y <= b /\ a - 2 < x /\ b - 2 < y
  BY WholeBounds
<1>3. x * y = 4 * (Whole(a) * Whole(b))
  BY WholeBounds
<1>4. x * y <= a * y /\ a * y <= a * b
  <2>1. \A c, d, e \in Int : c <= d /\ e >= 0 => c * e <= d * e /\ e * c <= e * d
    OBVIOUS
  <2> QED
    BY <1>1, <1>2, <2>1
<1>5. (a - 2) * (b - 2) <= x * (b - 2) /\ x * (b - 2) < x * y
  <2>1. \A c, d, e \in Int : c <= d /\ e >= 0 => c * e <= d * e
    OBVIOUS
  <2>2. \A c, d, e \in Int : c < d /\ e > 0 => e * c < e * d
    OBVIOUS
  <2>3. a - 2 \in Int /\ b - 2 \in Int /\ a - 2 <= x /\ b - 2 >= 0
    BY <1>1, <1>2
  <2> QED
    BY <1>1, <1>2, <2>1, <2>2, <2>3
<1>6. /\ x * y \in Int /\ a * y \in Int /\ a * b \in Int
      /\ (a - 2) * (b - 2) \in Int /\ x * (b - 2) \in Int
  BY <1>1
<1>7. x * y <= a * b
  <2> HIDE DEF x, y
  <2> QED
    BY <1>4, <1>6
<1>8. (a - 2) * (b - 2) < x * y
  <2> HIDE DEF x, y
  <2> QED
    BY <1>5, <1>6
<1> QED
  BY <1>3, <1>7, <1>8

\* What the limits allow passes them, and what passes them is nearly allowed.
LEMMA LimitsModest ==
    ASSUME NEW body \in Objects, Numeric(body), MaxSamples > 0
    PROVE  /\ Modest(body) => WithinLimits(body)
           /\ WithinLimits(body) => NearlyModest(body)
<1> DEFINE a == Asks(body, "width")
           b == Asks(body, "height")
           s == Asks(body, "steps")
           n == Asks(body, "n_samples")
<1>1. a \in Int /\ b \in Int /\ s \in Int /\ n \in Int
  BY NumberValue DEF Numeric, Asks, Fields
<1>2. /\ AsInt(body, "width") = Whole(a) /\ AsInt(body, "height") = Whole(b)
      /\ AsInt(body, "steps") = Whole(s) /\ AsInt(body, "n_samples") = Whole(n)
  BY DEF AsInt, Asks
<1>3. MaxPixels \in Int /\ MaxSteps \in Int /\ MaxSamples \in Int
  BY AdmissionAssumption
<1>4. /\ s \in 2 .. 2 * MaxSteps => Whole(s) \in 1 .. MaxSteps
      /\ Whole(s) \in 1 .. MaxSteps => s \in 2 .. 2 * MaxSteps + 1
  <2> HIDE DEF s
  <2> QED
    BY <1>1, <1>3 DEF Whole
<1>5. /\ n = 2 * MaxSamples => Whole(n) = MaxSamples
      /\ Whole(n) = MaxSamples => n \in 2 * MaxSamples .. 2 * MaxSamples + 1
  <2> HIDE DEF n
  <2> QED
    BY <1>1, <1>3 DEF Whole
<1>6. /\ a >= 2 <=> Whole(a) > 0
      /\ b >= 2 <=> Whole(b) > 0
  BY <1>1, WholeBounds
<1>7. Whole(a) \in Int /\ Whole(b) \in Int /\ Whole(a) * Whole(b) \in Int
  BY <1>1, WholeBounds
<1>8. ASSUME Modest(body) PROVE WithinLimits(body)
  <2>1. a >= 2 /\ b >= 2 /\ a * b <= 4 * MaxPixels
    BY <1>8 DEF Modest
  <2>2. 4 * (Whole(a) * Whole(b)) <= a * b
    BY <1>1, <2>1, ProductBounds
  <2>3. Whole(a) * Whole(b) <= MaxPixels
    <3>1. a * b \in Int
      BY <1>1
    <3> HIDE DEF a, b
    <3> QED
      BY <1>3, <1>7, <2>1, <2>2, <3>1
  <2>4. s \in 2 .. 2 * MaxSteps /\ n = 2 * MaxSamples
    BY <1>8 DEF Modest
  <2> QED
    BY <1>2, <1>4, <1>5, <1>6, <2>1, <2>3, <2>4 DEF WithinLimits
<1>9. ASSUME WithinLimits(body) PROVE NearlyModest(body)
  <2>1. /\ Whole(a) > 0 /\ Whole(b) > 0 /\ Whole(a) * Whole(b) <= MaxPixels
        /\ Whole(s) \in 1 .. MaxSteps /\ Whole(n) = MaxSamples
    BY <1>2, <1>9 DEF WithinLimits
  <2>2. a >= 2 /\ b >= 2
    BY <1>6, <2>1
  <2>3. (a - 2) * (b - 2) < 4 * (Whole(a) * Whole(b))
    BY <1>1, <2>2, ProductBounds
  <2>4. (a - 2) * (b - 2) < 4 * MaxPixels
    <3>1. (a - 2) * (b - 2) \in Int
      BY <1>1
    <3> HIDE DEF a, b
    <3> QED
      BY <1>3, <1>7, <2>1, <2>3, <3>1
  <2> QED
    BY <1>4, <1>5, <2>1, <2>2, <2>4 DEF NearlyModest
<1> QED
  BY <1>8, <1>9

\* A body that is sent is an object with four numbers, within the limits.
LEMMA SentNumbers ==
    ASSUME NEW body \in Objects, ModelAllowed(body)
    PROVE  Verdict(body) = "sent" <=> Numeric(body) /\ WithinLimits(body)
<1>1. body.kind = "object"
  BY DEF Objects
<1>2. ~ModelRefused(body) /\ ~(Limited /\ body.model = "unhashable")
  BY DEF ModelRefused, ModelAllowed
<1>3. Verdict(body) = Validated(body)
  BY <1>1, <1>2 DEF Verdict
<1> QED
  BY <1>3, ConvertedFields DEF Validated, Numeric

\* Whatever numbers bodies hold, those that ask for what the limits allow are sent,
\* and those that are sent ask for little more.
LEMMA SentIsModest ==
    ASSUME MaxSamples > 0
    PROVE  OnlyNearlyModestSent /\ AllModestSent
<1>1. ASSUME NEW body \in Bodies, Verdict(body) = "sent"
      PROVE  body \in Allowed /\ NearlyModest(body)
  <2>1. body.kind = "object" /\ ~ModelRefused(body) /\ ~(Limited /\ body.model = "unhashable")
    BY <1>1 DEF Verdict
  <2>2. body \in Objects
    BY <2>1 DEF Bodies
  <2>3. body.model \in {"absent", "listed", "unlisted", "unhashable"}
    BY <2>2 DEF Objects
  <2>4. ModelAllowed(body)
    BY <2>1, <2>3 DEF ModelRefused, ModelAllowed
  <2> QED
    BY <1>1, <2>2, <2>4, SentNumbers, LimitsModest DEF Allowed
<1>2. ASSUME NEW body \in Allowed, Modest(body)
      PROVE  body \in Bodies /\ Verdict(body) = "sent"
  <2>1. body \in Objects /\ ModelAllowed(body) /\ Numeric(body)
    BY <1>2 DEF Allowed, Modest
  <2> QED
    BY <1>2, <2>1, SentNumbers, LimitsModest DEF Bodies
<1> QED
  BY <1>1, <1>2 DEF OnlyNearlyModestSent, AllModestSent, Sent

\* Whatever numbers bodies hold, what goes upstream asks for less than a row and a
\* column of pixels, a step and a sample above the limits, and what asks for no more
\* than the limits is not turned away for it.
THEOREM AdmissionSafe == ASSUME MaxSamples > 0 PROVE Spec => []LimitsKept
<1>1. LimitsKept
  BY SentIsModest DEF LimitsKept
<1> QED
  BY <1>1, PTL

---------------------------------------------------------------------------
(* Quotas *)

LEMMA MaxOfOne == ASSUME NEW x \in Int PROVE Max({x}) = x
BY DEF Max

LEMMA FixedType ==
    ASSUME NEW m \in Given(ManualRpms)
    PROVE  Fixed(m) \in Nat
<1>1. CASE m = {}
  BY <1>1, QuotaAssumption DEF Fixed, NotNegative
<1>2. CASE m # {}
  <2>1. PICK x \in ManualRpms : m = {x}
    BY <1>2 DEF Given
  <2>2. x \in Int
    BY QuotaAssumption
  <2> QED
    BY <1>2, <2>1, <2>2, MaxOfOne DEF Fixed, NotNegative
<1> QED
  BY <1>1, <1>2

LEMMA ComputedType ==
    ASSUME NEW n \in Nat
    PROVE  /\ Computed(n) \in Nat
           /\ PerKeyRpm >= 0 => Computed(0) <= Computed(n)
<1>1. BaseRpm \in Int /\ PerKeyRpm \in Int /\ MaxRpm \in Int /\ n * PerKeyRpm \in Int
  BY QuotaAssumption
<1>2. PerKeyRpm >= 0 => n * PerKeyRpm >= 0
  <2>1. \A a, b \in Nat : a * b >= 0
    OBVIOUS
  <2> QED
    BY <1>1, <2>1
<1>3. 0 * PerKeyRpm = 0
  BY <1>1
<1> QED
  BY <1>1, <1>2, <1>3 DEF Computed, NotNegative, Least

LEMMA CountedType ==
    ASSUME enabled \subseteq Keys, healthy \subseteq Keys, NEW u
    PROVE  /\ Cardinality(Counted(u)) \in Nat
           /\ Contributed(u) = {} => Cardinality(Counted(u)) = 0
<1>1. IsFiniteSet(Counted(u))
  BY QuotaAssumption, FS_Subset DEF Counted
<1>2. Contributed(u) = {} => Counted(u) = {}
  BY DEF Counted, Contributed
<1> QED
  BY <1>1, <1>2, FS_CardinalityType, FS_EmptySet

LEMMA RpmType ==
    ASSUME enabled \subseteq Keys, healthy \subseteq Keys, NEW u,
           NEW m \in Given(ManualRpms)
    PROVE  Rpm(u, m) \in Nat
BY FixedType, ComputedType, CountedType DEF Rpm

---------------------------------------------------------------------------
(* Types *)

\* A request with its quota found, and one sent
RatedAt(q, n) == [q EXCEPT !.phase = "rated", !.rpm = n]
SentAt(q, t) == [q EXCEPT !.phase = "sent", !.since = t]

LEMMA RatedTyped ==
    ASSUME NEW q \in RequestStates, NEW n \in Nat
    PROVE  RatedAt(q, n) \in RequestStates /\ RatedAt(q, n).since = q.since
BY DEF RatedAt, RequestStates, Phases

LEMMA SentTyped ==
    ASSUME NEW q \in RequestStates, NEW t \in 0..MaxTime
    PROVE  SentAt(q, t) \in RequestStates /\ SentAt(q, t).since = t
BY DEF SentAt, RequestStates, Phases

\* The requests after those of request have been put, moved or dropped
LEMMA PutTyped ==
    ASSUME TypeOK, NEW r \in Requests, NEW q \in RequestStates, q.since <= now,
           request' = Put(request, r, q)
    PROVE  /\ IsMapping(request, Requests, RequestStates)'
           /\ \A x \in DOMAIN request' : request'[x].since <= now
BY DEF TypeOK, IsMapping, Put

LEMMA MoveTyped ==
    ASSUME TypeOK, NEW r \in DOMAIN request, NEW q \in RequestStates, q.since <= now,
           request' = [request EXCEPT ![r] = q]
    PROVE  /\ IsMapping(request, Requests, RequestStates)'
           /\ \A x \in DOMAIN request' : request'[x].since <= now
BY DEF TypeOK, IsMapping

LEMMA DropTyped ==
    ASSUME TypeOK, NEW r, request' = Drop(request, r)
    PROVE  /\ IsMapping(request, Requests, RequestStates)'
           /\ \A x \in DOMAIN request' : request'[x].since <= now
BY DEF TypeOK, IsMapping, Drop, Restrict

\* The rows after a request has left its own
LEMMA LeaveTyped ==
    ASSUME TypeOK, NEW r \in DOMAIN request, NEW latency \in {NotSent} \cup 0..MaxTime,
           Leave(r, latency)
    PROVE  log' \in Seq(Rows) /\ \A i \in DOMAIN log' : log'[i].at <= now
<1> DEFINE row == [user |-> request[r].user, at |-> now, latency |-> latency]
<1>1. row \in Rows /\ log \in Seq(Rows) /\ now \in Int
  BY QuotaAssumption DEF TypeOK, IsMapping, RequestStates, Rows
<1>2. log' = Append(log, row)
  BY DEF Leave
<1>3. log' \in Seq(Rows) /\ DOMAIN log' = 1..(Len(log) + 1)
  BY <1>1, <1>2
<1>4. \A i \in DOMAIN log : log'[i] = log[i]
  BY <1>1, <1>2
<1>5. log'[Len(log) + 1] = row /\ row.at = now
  BY <1>1, <1>2
<1>6. DOMAIN log = 1..Len(log) /\ Len(log) \in Nat
  BY <1>1
<1> QED
  BY <1>1, <1>3, <1>4, <1>5, <1>6 DEF TypeOK

LEMMA InitTypeOK == Init => TypeOK
BY QuotaAssumption DEF Init, TypeOK, IsMapping, Empty, Given

LEMMA NextTypeOK == TypeOK /\ [Next]_vars => TypeOK'
<1> SUFFICES ASSUME TypeOK, [Next]_vars PROVE TypeOK'
  OBVIOUS
<1> USE QuotaAssumption
<1>1. now \in Int /\ now \in 0..MaxTime
  BY DEF TypeOK
<1>2. \A r \in DOMAIN request :
        /\ r \in Requests /\ request[r] \in RequestStates
        /\ request[r].since \in 0..now
  BY <1>1 DEF TypeOK, IsMapping, RequestStates
<1>3. CASE UNCHANGED vars
  BY <1>3 DEF vars, TypeOK, IsMapping
<1>4. CASE Tick
  <2>1. \A i \in DOMAIN log : log[i].at \in 0..now
    <3>1. \A i \in DOMAIN log : log[i] \in Rows
      BY DEF TypeOK
    <3> QED
      BY <1>1, <3>1 DEF TypeOK, Rows
  <2>2. now' \in 0..MaxTime /\ now' = now + 1
    BY <1>1, <1>4 DEF Tick
  <2>3. \A i \in DOMAIN log : log[i].at <= now'
    BY <1>1, <2>1, <2>2
  <2>4. \A r \in DOMAIN request : request[r].since <= now'
    BY <1>1, <1>2, <2>2
  <2> QED
    BY <1>4, <2>2, <2>3, <2>4 DEF Tick, TypeOK, IsMapping
<1>5. ASSUME NEW r \in Requests, NEW u \in Users, Authenticate(r, u)
      PROVE  TypeOK'
  <2>1. PICK q \in RequestStates : q.since <= now /\ request' = Put(request, r, q)
    <3> DEFINE q == [phase |-> IF BaseRpmContributorOnly /\ ~IsFixed(manual[u]) THEN "new"
                              ELSE "rating",
                     user |-> u, manual |-> manual[u], rpm |-> 0, since |-> now]
    <3>1. q \in RequestStates /\ q.since <= now
      BY <1>1 DEF RequestStates, Phases, TypeOK
    <3>2. request' = Put(request, r, q)
      BY <1>5 DEF Authenticate
    <3> QED
      BY <3>1, <3>2
  <2>2. started' \in 0..MaxRequests
    BY <1>5 DEF Authenticate, TypeOK
  <2> QED
    BY <1>5, <2>1, <2>2, PutTyped DEF Authenticate, TypeOK
<1>6. ASSUME NEW r \in DOMAIN request, NEW q \in RequestStates, q.since <= now,
             request' = [request EXCEPT ![r] = q],
             UNCHANGED <<now, active, manual, enabled, healthy, log, started>>
      PROVE  TypeOK'
  BY <1>6, MoveTyped DEF TypeOK
<1>7. ASSUME NEW r \in DOMAIN request, NEW phase \in Phases, Move(r, phase),
             UNCHANGED <<now, active, manual, enabled, healthy, log, started>>
      PROVE  TypeOK'
  <2> DEFINE q == [request[r] EXCEPT !.phase = phase]
  <2>1. q \in RequestStates /\ q.since <= now /\ request' = [request EXCEPT ![r] = q]
    BY <1>1, <1>2, <1>7 DEF RequestStates, Move
  <2> QED
    BY <1>6, <1>7, <2>1
<1>8. ASSUME NEW r, CountContributed(r) \/ Admit(r) PROVE TypeOK'
  BY <1>7, <1>8 DEF CountContributed, Admit, At, Phases
<1>9. ASSUME NEW r, CountHealthy(r) PROVE TypeOK'
  <2> DEFINE rpm == IF IsFixed(request[r].manual) THEN Fixed(request[r].manual)
                    ELSE Computed(Cardinality(Counted(request[r].user)))
             q == RatedAt(request[r], rpm)
  <2>1. r \in DOMAIN request
    BY <1>9 DEF CountHealthy, At
  <2>2. rpm \in Nat
    <3>1. request[r].manual \in Given(ManualRpms)
      BY <1>2, <2>1 DEF RequestStates
    <3>2. Cardinality(Counted(request[r].user)) \in Nat
      BY CountedType DEF TypeOK
    <3> QED
      BY <3>1, <3>2, FixedType, ComputedType
  <2> HIDE DEF rpm
  <2>3. q \in RequestStates /\ q.since <= now
    <3>1. request[r] \in RequestStates
      BY <1>2, <2>1
    <3>2. q \in RequestStates /\ q.since = request[r].since
      BY <2>2, <3>1, RatedTyped
    <3>3. request[r].since \in 0..now
      BY <1>2, <2>1
    <3> QED
      BY <1>1, <3>2, <3>3
  <2>4. request' = [request EXCEPT ![r] = q]
    BY <1>9, <2>1 DEF CountHealthy, RatedAt, rpm
  <2> QED
    BY <1>6, <1>9, <2>1, <2>3, <2>4 DEF CountHealthy
<1>10. ASSUME NEW r, NEW verdict, Send(r, verdict) PROVE TypeOK'
  <2> DEFINE q == SentAt(request[r], now)
  <2>1. r \in DOMAIN request
    BY <1>10 DEF Send, At
  <2>2. q \in RequestStates /\ q.since <= now
    <3>1. request[r] \in RequestStates
      BY <1>2, <2>1
    <3> QED
      BY <1>1, <1>2, <2>1, <3>1, SentTyped
  <2>3. request' = [request EXCEPT ![r] = q]
    BY <1>10, <2>1 DEF Send, SentAt
  <2> QED
    BY <1>6, <1>10, <2>1, <2>2, <2>3 DEF Send
<1>11. ASSUME NEW r \in DOMAIN request, NEW latency \in {NotSent} \cup 0..MaxTime,
              Leave(r, latency), UNCHANGED <<now, active, manual, enabled, healthy, started>>
       PROVE  TypeOK'
  BY <1>11, LeaveTyped, DropTyped DEF Leave, TypeOK
<1>12. ASSUME NEW r, NEW verdict, Refuse(r) \/ Reject(r, verdict) PROVE TypeOK'
  BY <1>11, <1>12 DEF Refuse, Reject, At
<1>13. ASSUME NEW r, Answer(r) PROVE TypeOK'
  <2>1. r \in DOMAIN request
    BY <1>13 DEF Answer, At
  <2>2. now - request[r].since \in 0..MaxTime
    BY <1>1, <1>2, <2>1
  <2> QED
    BY <1>11, <1>13, <2>1, <2>2 DEF Answer
<1>14. ASSUME NEW r, Vanish(r) PROVE TypeOK'
  BY <1>14, DropTyped DEF Vanish, TypeOK
<1>15. ASSUME NEW u \in Users, NEW m \in Given(ManualRpms), NEW a, UpdateUser(u, m, a)
       PROVE  TypeOK'
  BY <1>15 DEF UpdateUser, TypeOK, IsMapping
<1>16. ASSUME NEW k \in Keys, ToggleKey(k) \/ ChangeStatus(k) PROVE TypeOK'
  BY <1>16 DEF ToggleKey, ChangeStatus, SymDiff, TypeOK, IsMapping
<1> QED
  BY <1>3, <1>4, <1>5, <1>8, <1>9, <1>10, <1>12, <1>13, <1>14, <1>15, <1>16 DEF Next

\* Rows and requests in progress keep their types, and quotas are never negative.
THEOREM TypeCorrect == Spec => []TypeOK
BY InitTypeOK, NextTypeOK, PTL DEF Spec

---------------------------------------------------------------------------
(* The highest of some numbers *)

\* By induction on the subsets of S: one that is minimal among those without a
\* highest element has one as soon as an element is taken out.
LEMMA HighestExists ==
    ASSUME NEW S \in SUBSET Int, IsFiniteSet(S), S # {}
    PROVE  \E x \in S : \A y \in S : x >= y
<1> DEFINE HasHighest(A) == \E x \in A : \A y \in A : x >= y
           Without == {A \in SUBSET S : A # {} /\ ~HasHighest(A)}
<1>1. SUFFICES ASSUME Without # {} PROVE FALSE
  OBVIOUS
<1>2. Without \subseteq FiniteSubsetsOf(S)
  BY FS_FiniteSubsetsOfFinite
<1>3. PICK A \in Without : \A B \in Without : <<B, A>> \notin StrictSubsetOrdering(S)
  <2> HIDE DEF Without
  <2> QED
    BY <1>1, <1>2, FS_StrictSubsetOrderingWellFounded, WFMin
<1>4. PICK x \in A : TRUE
  OBVIOUS
<1> DEFINE B == A \ {x}
<1>5. <<B, A>> \in StrictSubsetOrdering(S)
  BY <1>4 DEF StrictSubsetOrdering
<1>6. B = {} \/ HasHighest(B)
  BY <1>3, <1>5
<1>7. CASE B = {}
  <2>1. \A y \in A : x >= y
    BY <1>4, <1>7
  <2> QED
    BY <1>4, <2>1
<1>8. CASE HasHighest(B)
  <2>1. PICK m \in B : \A y \in B : m >= y
    BY <1>8
  <2>2. m \in A /\ m \in Int /\ x \in Int
    BY <1>4, <2>1
  <2>3. IF x >= m THEN \A y \in A : x >= y ELSE \A y \in A : m >= y
    BY <2>1, <2>2
  <2> QED
    BY <1>4, <2>2, <2>3
<1> QED
  BY <1>6, <1>7, <1>8

LEMMA MaxIsHighest ==
    ASSUME NEW S \in SUBSET Int, IsFiniteSet(S), S # {}
    PROVE  Max(S) \in S /\ \A y \in S : Max(S) >= y
BY HighestExists DEF Max

---------------------------------------------------------------------------
(* The highest quotas *)

HighestOK ==
    /\ DOMAIN peak = DOMAIN request
    /\ \A r \in DOMAIN request : peak[r] \in Nat
    /\ top \in [Users -> Nat]

\* The quotas of the moment
RpmsOK ==
    /\ \A u \in Users : Rpm(u, manual[u]) \in Nat
    /\ \A r \in DOMAIN request : Rpm(request[r].user, request[r].manual) \in Nat

LEMMA RpmsTyped == TypeOK => RpmsOK
<1> SUFFICES ASSUME TypeOK PROVE RpmsOK
  OBVIOUS
<1>1. enabled \subseteq Keys /\ healthy \subseteq Keys
  BY DEF TypeOK
<1>2. \A u \in Users : manual[u] \in Given(ManualRpms)
  BY DEF TypeOK
<1>3. \A r \in DOMAIN request : request[r].manual \in Given(ManualRpms)
  BY DEF TypeOK, IsMapping, RequestStates
<1> QED
  BY <1>1, <1>2, <1>3, RpmType DEF RpmsOK

\* What Observe sees to: peaks and tops never fall, and cover the quotas of the
\* moment.
Observed ==
    /\ HighestOK'
    /\ \A r \in DOMAIN request' :
         /\ peak'[r] >= Rpm(request[r].user, request[r].manual)'
         /\ peak'[r] <= top'[request'[r].user]
         /\ r \in DOMAIN request => peak'[r] >= peak[r]
    /\ \A u \in Users : top'[u] >= top[u]

LEMMA ObserveHighest ==
    ASSUME TypeOK', HighestOK, Observe
    PROVE  Observed
<1>0. RpmsOK'
  BY RpmsTyped, PTL
<1>1. ASSUME NEW r \in DOMAIN request'
      PROVE  /\ r \in Requests /\ request'[r] \in RequestStates
             /\ RequestRpms'[r] = Rpm(request[r].user, request[r].manual)'
             /\ RequestRpms'[r] \in Nat
  <2>1. r \in Requests /\ request'[r] \in RequestStates
    BY <1>1 DEF TypeOK, IsMapping
  <2>2. RequestRpms'[r] = Rpm(request[r].user, request[r].manual)'
    BY <1>1 DEF RequestRpms
  <2>3. Rpm(request[r].user, request[r].manual)' \in Nat
    BY <1>0, <1>1 DEF RpmsOK
  <2> QED
    BY <2>1, <2>2, <2>3
<1> DEFINE Seen(r) == {RequestRpms'[r]} \cup {peak[x] : x \in DOMAIN peak \cap {r}}
<1>2. ASSUME NEW r \in DOMAIN request'
      PROVE  /\ peak'[r] = Max(Seen(r)) /\ peak'[r] \in Seen(r) /\ Seen(r) \subseteq Nat
             /\ \A y \in Seen(r) : peak'[r] >= y
  <2>1. Seen(r) \subseteq Nat
    BY <1>1, <1>2 DEF HighestOK
  <2>2. IsFiniteSet(Seen(r))
    <3>1. Seen(r) = IF r \in DOMAIN peak THEN {RequestRpms'[r]} \cup {peak[r]}
                    ELSE {RequestRpms'[r]}
      OBVIOUS
    <3>2. IsFiniteSet({RequestRpms'[r]})
      BY FS_Singleton
    <3>3. IsFiniteSet({RequestRpms'[r]} \cup {peak[r]})
      BY <3>2, FS_AddElement
    <3> QED
      BY <3>1, <3>2, <3>3
  <2>3. peak'[r] = Max(Seen(r))
    BY <1>2 DEF Observe
  <2>4. Seen(r) # {} /\ Seen(r) \in SUBSET Int
    BY <2>1
  <2> HIDE DEF Seen
  <2>5. Max(Seen(r)) \in Seen(r) /\ \A y \in Seen(r) : Max(Seen(r)) >= y
    BY <2>2, <2>4, MaxIsHighest
  <2> QED
    BY <2>1, <2>3, <2>5
<1>3. /\ DOMAIN peak' = DOMAIN request'
      /\ \A r \in DOMAIN request' :
           /\ peak'[r] \in Nat /\ peak'[r] >= RequestRpms'[r]
           /\ r \in DOMAIN request => peak'[r] >= peak[r]
  BY <1>2 DEF Observe, HighestOK
<1> DEFINE Mine(u) == {x \in DOMAIN request' : request'[x].user = u}
           All(u) == {top[u], Rpms'[u]} \cup {peak'[r] : r \in Mine(u)}
<1>4. ASSUME NEW u \in Users
      PROVE  /\ top'[u] = Max(All(u)) /\ top'[u] \in Nat
             /\ \A y \in All(u) : top'[u] >= y
  <2>1. Rpms'[u] \in Nat
    BY <1>0, <1>4 DEF RpmsOK, Rpms
  <2>2. All(u) \subseteq Nat
    BY <1>3, <2>1 DEF HighestOK
  <2>3. IsFiniteSet(All(u))
    <3>1. IsFiniteSet(Mine(u))
      <4>1. Mine(u) \subseteq Requests
        BY <1>1
      <4> QED
        BY <4>1, QuotaAssumption, FS_Subset
    <3>2. IsFiniteSet({peak'[r] : r \in Mine(u)})
      <4> DEFINE T == {peak'[r] : r \in Mine(u)}
                 f == [r \in Mine(u) |-> peak'[r]]
      <4>1. f \in Surjection(Mine(u), T)
        BY DEF Surjection
      <4> QED
        BY <3>1, <4>1, FS_Surjection
    <3>3. IsFiniteSet({top[u], Rpms'[u]})
      <4>1. {top[u], Rpms'[u]} = {top[u]} \cup {Rpms'[u]}
        OBVIOUS
      <4>2. IsFiniteSet({top[u]})
        BY FS_Singleton
      <4>3. IsFiniteSet({top[u]} \cup {Rpms'[u]})
        BY <4>2, FS_AddElement
      <4> QED
        BY <4>1, <4>3
    <3> QED
      BY <3>2, <3>3, FS_Union
  <2>4. top'[u] = Max(All(u))
    BY <1>4 DEF Observe
  <2>5. All(u) # {} /\ All(u) \in SUBSET Int
    BY <2>2
  <2> HIDE DEF All
  <2>6. Max(All(u)) \in All(u) /\ \A y \in All(u) : Max(All(u)) >= y
    BY <2>3, <2>5, MaxIsHighest
  <2> QED
    BY <2>2, <2>4, <2>6
<1>5. top' \in [Users -> Nat]
  BY <1>4 DEF Observe
<1>6. \A r \in DOMAIN request' : peak'[r] <= top'[request'[r].user]
  <2> SUFFICES ASSUME NEW r \in DOMAIN request' PROVE peak'[r] <= top'[request'[r].user]
    OBVIOUS
  <2> DEFINE u == request'[r].user
  <2>1. u \in Users
    BY <1>1 DEF RequestStates
  <2>2. peak'[r] \in All(u)
    OBVIOUS
  <2>3. top'[u] >= peak'[r] /\ top'[u] \in Nat
    <3> HIDE DEF All
    <3> QED
      BY <1>4, <2>1, <2>2
  <2> QED
    BY <1>3, <2>3
<1>7. \A u \in Users : top'[u] >= top[u]
  BY <1>4
<1> QED
  BY <1>1, <1>3, <1>5, <1>6, <1>7 DEF Observed, HighestOK

---------------------------------------------------------------------------
(* The quota that a request finds *)

\* A request that is to be rated has been seen with a quota of the base at least,
\* unless its quota is fixed; one that is rated, with the quota it has found.
RateInv ==
    \A r \in DOMAIN request :
        /\ At(r, "new") => request[r].rpm = 0
        /\ At(r, "rating") /\ BaseRpmContributorOnly /\ ~IsFixed(request[r].manual) =>
             Computed(0) <= peak[r]
        /\ At(r, "rated") => request[r].rpm <= peak[r]

HInv ==
    /\ TypeOK
    /\ HighestOK
    /\ \A r \in DOMAIN request : peak[r] <= top[request[r].user]
    /\ RateInv

LEMMA RequestStep ==
    ASSUME TypeOK, [Next]_vars, NEW r \in DOMAIN request'
    PROVE  \/ r \in DOMAIN request /\ request'[r] = request[r]
           \/ r \in DOMAIN request /\ (CountContributed(r) \/ CountHealthy(r))
           \/ request'[r].phase \in {"admitted", "sent"}
           \/ \E u \in Users : Authenticate(r, u)
<1> DEFINE Same == r \in DOMAIN request /\ request'[r] = request[r]
<1>1. CASE UNCHANGED request
  BY <1>1
<1>2. ASSUME NEW x, Drop(request, x) = request' PROVE Same
  BY <1>2 DEF Drop, Restrict
<1>3. ASSUME NEW x, CountContributed(x), x # r PROVE Same
  BY <1>3 DEF CountContributed, Move
<1>4. ASSUME NEW x, CountHealthy(x), x # r PROVE Same
  BY <1>4 DEF CountHealthy
<1>5. ASSUME NEW x, Admit(x) PROVE Same \/ request'[r].phase = "admitted"
  BY <1>5 DEF Admit, Move, At, TypeOK, IsMapping, RequestStates
<1>6. ASSUME NEW x, NEW verdict, Send(x, verdict) PROVE Same \/ request'[r].phase = "sent"
  <2>1. CASE x = r
    <3>1. r \in DOMAIN request /\ request[r] \in RequestStates
      BY <1>6, <2>1 DEF Send, At, TypeOK, IsMapping
    <3>2. request'[r] = SentAt(request[r], now)
      BY <1>6, <2>1, <3>1 DEF Send, SentAt
    <3>3. SentAt(request[r], now).phase = "sent"
      BY <3>1 DEF SentAt, RequestStates
    <3> QED
      BY <3>2, <3>3
  <2>2. CASE x # r
    BY <1>6, <2>2 DEF Send
  <2> QED
    BY <2>1, <2>2
<1>7. ASSUME NEW x, NEW u, Authenticate(x, u), x # r PROVE Same
  BY <1>7 DEF Authenticate, Put
<1>8. ASSUME NEW x, NEW verdict, Refuse(x) \/ Reject(x, verdict) \/ Answer(x) \/ Vanish(x)
      PROVE  Same
  BY <1>2, <1>8 DEF Refuse, Reject, Answer, Vanish, Leave
<1>9. ASSUME NEW x, CountContributed(x) \/ CountHealthy(x) PROVE x \in DOMAIN request
  BY <1>9 DEF CountContributed, CountHealthy, At
<1> QED
  BY <1>1, <1>3, <1>4, <1>5, <1>6, <1>7, <1>8, <1>9
  DEF Next, vars, Tick, UpdateUser, ToggleKey, ChangeStatus

LEMMA RateStep ==
    ASSUME HInv, TypeOK', Observed, PerKeyRpm >= 0, [Next]_vars
    PROVE  RateInv'
<1> SUFFICES ASSUME NEW r \in DOMAIN request'
             PROVE  /\ request'[r].phase = "new" => request'[r].rpm = 0
                    /\ request'[r].phase = "rating" /\ BaseRpmContributorOnly
                         /\ ~IsFixed(request'[r].manual) => Computed(0) <= peak'[r]
                    /\ request'[r].phase = "rated" => request'[r].rpm <= peak'[r]
  BY DEF RateInv, At
<1>1. /\ peak'[r] \in Nat
      /\ peak'[r] >= Rpm(request[r].user, request[r].manual)'
      /\ r \in DOMAIN request => peak'[r] >= peak[r] /\ peak[r] \in Nat
  BY DEF Observed, HighestOK, HInv
<1>2. r \in DOMAIN request => request[r] \in RequestStates
  BY DEF HInv, TypeOK, IsMapping
<1>3. Computed(0) \in Nat
  BY ComputedType
<1>4. CASE r \in DOMAIN request /\ request'[r] = request[r]
  <2>1. /\ request[r].phase = "new" => request[r].rpm = 0
        /\ request[r].phase = "rating" /\ BaseRpmContributorOnly
             /\ ~IsFixed(request[r].manual) => Computed(0) <= peak[r]
        /\ request[r].phase = "rated" => request[r].rpm <= peak[r]
    BY <1>4 DEF HInv, RateInv, At
  <2>2. request[r].rpm \in Nat
    BY <1>2, <1>4 DEF RequestStates
  <2> QED
    BY <1>1, <1>3, <1>4, <2>1, <2>2
<1>5. CASE r \in DOMAIN request /\ CountContributed(r)
  <2> DEFINE u == request[r].user
             m == request[r].manual
  <2>1. /\ request'[r] = [request[r] EXCEPT !.phase =
                            IF Contributed(u) = {} THEN "rated" ELSE "rating"]
        /\ UNCHANGED <<enabled, healthy>>
        /\ request[r].phase = "new"
    BY <1>5 DEF CountContributed, Move, At
  <2>2. /\ request'[r].phase = IF Contributed(u) = {} THEN "rated" ELSE "rating"
        /\ request'[r].user = u /\ request'[r].manual = m
        /\ request'[r].rpm = request[r].rpm
    BY <1>2, <1>5, <2>1 DEF RequestStates
  <2>3. request[r].rpm = 0
    BY <1>5, <2>1 DEF HInv, RateInv, At
  <2>4. ASSUME Contributed(u) # {}, ~IsFixed(m) PROVE Computed(0) <= peak'[r]
    <3>1. Rpm(request[r].user, request[r].manual)' = Computed(Cardinality(Counted(u)))
      BY <2>1, <2>2, <2>4 DEF Rpm, IsFixed, Contributed, Counted
    <3>2. Cardinality(Counted(u)) \in Nat
      BY CountedType DEF HInv, TypeOK
    <3>3. /\ Computed(Cardinality(Counted(u))) \in Nat
          /\ Computed(0) <= Computed(Cardinality(Counted(u)))
      BY <3>2, ComputedType
    <3> QED
      BY <1>1, <1>3, <3>1, <3>3
  <2> QED
    BY <1>1, <2>2, <2>3, <2>4
<1>6. CASE r \in DOMAIN request /\ CountHealthy(r)
  <2> DEFINE u == request[r].user
             m == request[r].manual
             n == Cardinality(Counted(u))
             rpm == IF IsFixed(m) THEN Fixed(m) ELSE Computed(n)
  <2>1. /\ request'[r] = RatedAt(request[r], rpm)
        /\ UNCHANGED <<enabled, healthy>>
        /\ request[r].phase = "rating"
    BY <1>6 DEF CountHealthy, At, RatedAt
  <2>2. /\ request'[r].phase = "rated" /\ request'[r].rpm = rpm
        /\ request'[r].user = u /\ request'[r].manual = m
    <3> HIDE DEF rpm
    <3> QED
      BY <1>2, <1>6, <2>1 DEF RequestStates, RatedAt
  <2>3. n \in Nat /\ (Contributed(u) = {} => n = 0)
    BY CountedType DEF HInv, TypeOK
  <2>4. CASE ~IsFixed(m) /\ BaseRpmContributorOnly /\ Contributed(u) = {}
    <3>1. Computed(0) <= peak[r]
      BY <1>6, <2>1, <2>4 DEF HInv, RateInv, At
    <3>2. rpm = Computed(0)
      BY <2>3, <2>4
    <3> QED
      BY <1>1, <1>3, <1>6, <2>2, <3>1, <3>2
  <2>5. CASE ~(~IsFixed(m) /\ BaseRpmContributorOnly /\ Contributed(u) = {})
    <3>1. Rpm(request[r].user, request[r].manual)' = rpm
      BY <2>1, <2>2, <2>5 DEF Rpm, IsFixed, Fixed, Contributed, Counted
    <3> QED
      BY <1>1, <2>2, <3>1
  <2> QED
    BY <2>4, <2>5
<1>7. CASE request'[r].phase \in {"admitted", "sent"}
  BY <1>7
<1>8. ASSUME NEW u \in Users, Authenticate(r, u)
      PROVE  /\ request'[r].phase = "new" => request'[r].rpm = 0
             /\ request'[r].phase = "rating" =>
                  ~BaseRpmContributorOnly \/ IsFixed(request'[r].manual)
             /\ request'[r].phase # "rated"
  BY <1>8 DEF Authenticate, Put
<1> QED
  BY <1>4, <1>5, <1>6, <1>7, <1>8, RequestStep DEF HInv

LEMMA InitHInv == HistoryInit => HInv
<1> SUFFICES ASSUME HistoryInit PROVE HInv
  OBVIOUS
<1>1. TypeOK /\ RpmsOK
  BY InitTypeOK, RpmsTyped DEF HistoryInit
<1>2. DOMAIN request = {} /\ DOMAIN peak = {}
  BY DEF HistoryInit, Init, Empty
<1>3. top \in [Users -> Nat]
  BY <1>1 DEF HistoryInit, Rpms, RpmsOK
<1> QED
  BY <1>1, <1>2, <1>3 DEF HInv, HighestOK, RateInv

LEMMA NextHInv ==
    ASSUME PerKeyRpm >= 0
    PROVE  HInv /\ [HistoryNext]_allVars => HInv'
<1> SUFFICES ASSUME HInv, [HistoryNext]_allVars PROVE HInv'
  OBVIOUS
<1>1. TypeOK'
  BY NextTypeOK DEF HInv, HistoryNext, allVars
<1>2. CASE UNCHANGED allVars
  BY <1>1, <1>2 DEF HInv, HighestOK, RateInv, At, allVars, vars
<1>3. CASE HistoryNext
  <2>1. Observed
    BY <1>1, <1>3, ObserveHighest DEF HInv, HistoryNext
  <2>2. RateInv'
    BY <1>1, <1>3, <2>1, RateStep DEF HistoryNext
  <2> QED
    BY <1>1, <2>1, <2>2 DEF HInv, Observed
<1> QED
  BY <1>2, <1>3

\* No request finds a quota above what its user had at some moment of it, if each
\* key adds to the quota.
THEOREM RateSafe == ASSUME PerKeyRpm >= 0 PROVE HistorySpec => []RateNotAbove
<1>1. HInv => RateNotAbove
  BY DEF HInv, RateInv, RateNotAbove
<1> QED
  BY <1>1, InitHInv, NextHInv, PTL DEF HistorySpec

---------------------------------------------------------------------------
(* What slips through *)

\* Requests of u that are admitted, and not over
Busy(u) == {r \in DOMAIN request :
    request[r].user = u /\ request[r].phase \in {"admitted", "sent"}}

BurstInv == \A u \in Users :
    Cardinality(Logged(u)) + Cardinality(Busy(u)) < top[u] + Cardinality(Requests)

LEMMA FiniteParts ==
    ASSUME TypeOK, NEW u
    PROVE  /\ IsFiniteSet(Logged(u)) /\ IsFiniteSet(Busy(u)) /\ IsFiniteSet(Out(u))
           /\ Cardinality(Logged(u)) \in Nat /\ Cardinality(Busy(u)) \in Nat
           /\ Cardinality(Out(u)) <= Cardinality(Busy(u)) /\ Cardinality(Out(u)) \in Nat
           /\ Cardinality(Busy(u)) <= Cardinality(Requests)
           /\ Cardinality(Logged(u)) <= Used(u) /\ Used(u) \in Nat
<1>1. log \in Seq(Rows) /\ DOMAIN log = 1..Len(log) /\ Len(log) \in Nat
  BY DEF TypeOK
<1>2. IsFiniteSet(DOMAIN log)
  BY <1>1, FS_Interval
<1> DEFINE Lately == {i \in DOMAIN log : log[i].user = u /\ log[i].at >= now - Window}
<1>3. Logged(u) \subseteq Lately
  <2> SUFFICES ASSUME NEW i \in DOMAIN log, log[i].latency # NotSent,
                      log[i].at - log[i].latency >= now - Window
               PROVE  log[i].at >= now - Window
    BY DEF Logged
  <2>1. log[i] \in Rows
    BY <1>1
  <2>2. log[i].at \in Nat /\ log[i].latency \in Nat
    BY <2>1, QuotaAssumption DEF Rows
  <2> QED
    BY <2>2, QuotaAssumption DEF TypeOK
<1>4. IsFiniteSet(Lately) /\ Cardinality(Lately) = Used(u)
  BY <1>2, FS_Subset DEF Used
<1>5. Busy(u) \subseteq Requests /\ IsFiniteSet(Requests)
  BY QuotaAssumption DEF Busy, TypeOK, IsMapping
<1>6. Out(u) \subseteq Busy(u)
  BY DEF Out, Busy
<1>7. IsFiniteSet(Logged(u)) /\ Cardinality(Logged(u)) <= Used(u)
  BY <1>3, <1>4, FS_Subset
<1>8. IsFiniteSet(Busy(u)) /\ Cardinality(Busy(u)) <= Cardinality(Requests)
  BY <1>5, FS_Subset
<1>9. IsFiniteSet(Out(u)) /\ Cardinality(Out(u)) <= Cardinality(Busy(u))
  BY <1>6, <1>8, FS_Subset
<1> QED
  BY <1>4, <1>7, <1>8, <1>9, FS_CardinalityType

SizesOK == \A u \in Users :
    /\ Cardinality(Logged(u)) \in Nat /\ Cardinality(Busy(u)) \in Nat
    /\ Cardinality(Busy(u)) <= Cardinality(Requests)

LEMMA SizesBounded == TypeOK => SizesOK
BY FiniteParts DEF SizesOK

\* Of a user's rows and requests, a step keeps or takes some, it moves one request
\* to the rows, or it admits one.
BurstStep(u) ==
    \/ Logged(u)' \subseteq Logged(u) /\ Busy(u)' \subseteq Busy(u)
    \/ \E i, r : /\ Logged(u)' \subseteq Logged(u) \cup {i}
                 /\ r \in Busy(u) /\ Busy(u)' \subseteq Busy(u) \ {r}
    \/ /\ Logged(u)' \subseteq Logged(u)
       /\ \E r \in DOMAIN request : Admit(r) /\ request[r].user = u

LEMMA LeaveSteps ==
    ASSUME TypeOK, NEW r \in DOMAIN request, NEW latency, Leave(r, latency),
           now' = now, NEW u
    PROVE  /\ Busy(u)' \subseteq Busy(u) \ {r}
           /\ request[r].user # u \/ latency = NotSent => Logged(u)' \subseteq Logged(u)
           /\ Logged(u)' \subseteq Logged(u) \cup {Len(log) + 1}
<1> DEFINE row == [user |-> request[r].user, at |-> now, latency |-> latency]
<1>1. Busy(u)' \subseteq Busy(u) \ {r}
  BY DEF Leave, Busy, Drop, Restrict
<1>2. log' = Append(log, row) /\ log \in Seq(Rows)
  BY DEF Leave, TypeOK
<1>3. /\ DOMAIN log' = 1..(Len(log) + 1) /\ DOMAIN log = 1..Len(log) /\ Len(log) \in Nat
      /\ \A i \in DOMAIN log : log'[i] = log[i]
      /\ log'[Len(log) + 1] = row
  BY <1>2
<1>4. \A i \in DOMAIN log' : i \in DOMAIN log \/ i = Len(log) + 1
  BY <1>3
<1>5. Logged(u)' \subseteq Logged(u) \cup {Len(log) + 1}
  BY <1>3, <1>4 DEF Logged
<1>6. ASSUME request[r].user # u \/ latency = NotSent
      PROVE  Logged(u)' \subseteq Logged(u)
  <2>1. row.user = request[r].user /\ row.latency = latency
    OBVIOUS
  <2>2. Len(log) + 1 \notin Logged(u)'
    BY <1>3, <1>6, <2>1 DEF Logged
  <2> QED
    BY <1>5, <2>2
<1> QED
  BY <1>1, <1>5, <1>6

LEMMA NextBurst == ASSUME TypeOK, [Next]_vars, NEW u \in Users PROVE BurstStep(u)
<1>1. CASE UNCHANGED <<now, log, request>>
  BY <1>1 DEF BurstStep, Logged, Busy
<1>2. CASE Tick
  <2>1. \A i \in DOMAIN log : log[i].latency # NotSent =>
          log[i].at \in Nat /\ log[i].latency \in Nat
    <3>1. \A i \in DOMAIN log : log[i] \in Rows
      BY DEF TypeOK
    <3> QED
      BY <3>1, QuotaAssumption DEF Rows
  <2>2. now \in Nat /\ Window \in Nat /\ now' = now + 1
    BY <1>2, QuotaAssumption DEF Tick, TypeOK
  <2>3. Logged(u)' \subseteq Logged(u)
    BY <1>2, <2>1, <2>2 DEF Tick, Logged
  <2> QED
    BY <1>2, <2>3 DEF Tick, BurstStep, Busy
<1>3. ASSUME NEW r \in Requests, NEW v \in Users, Authenticate(r, v) PROVE BurstStep(u)
  <2>1. Busy(u)' \subseteq Busy(u)
    BY <1>3 DEF Authenticate, Put, Busy
  <2> QED
    BY <1>3, <2>1 DEF Authenticate, BurstStep, Logged
<1>4. ASSUME NEW r, CountContributed(r) PROVE BurstStep(u)
  <2>1. r \in DOMAIN request /\ request[r] \in RequestStates
    BY <1>4 DEF CountContributed, At, TypeOK, IsMapping
  <2>2. request'[r].phase \in {"rated", "rating"}
    BY <1>4, <2>1 DEF CountContributed, Move, RequestStates
  <2>3. Busy(u)' \subseteq Busy(u)
    BY <1>4, <2>1, <2>2 DEF CountContributed, Move, Busy
  <2> QED
    BY <1>4, <2>3 DEF CountContributed, BurstStep, Logged
<1>5. ASSUME NEW r, CountHealthy(r) PROVE BurstStep(u)
  <2>1. r \in DOMAIN request /\ request[r] \in RequestStates
    BY <1>5 DEF CountHealthy, At, TypeOK, IsMapping
  <2>2. PICK n : request' = [request EXCEPT ![r] = RatedAt(request[r], n)]
    BY <1>5 DEF CountHealthy, RatedAt
  <2>3. RatedAt(request[r], n).phase = "rated"
    BY <2>1 DEF RatedAt, RequestStates
  <2>4. Busy(u)' \subseteq Busy(u)
    BY <2>1, <2>2, <2>3 DEF Busy
  <2> QED
    BY <1>5, <2>4 DEF CountHealthy, BurstStep, Logged
<1>6. ASSUME NEW r, Admit(r) PROVE BurstStep(u)
  <2>1. r \in DOMAIN request /\ UNCHANGED <<now, log>>
    BY <1>6 DEF Admit, At
  <2>2. CASE request[r].user = u
    BY <1>6, <2>1, <2>2 DEF BurstStep, Logged
  <2>3. CASE request[r].user # u
    <3>1. request[r] \in RequestStates
      BY <2>1 DEF TypeOK, IsMapping
    <3>2. request'[r].user = request[r].user
      BY <1>6, <2>1, <3>1 DEF Admit, Move, RequestStates
    <3>3. Busy(u)' \subseteq Busy(u)
      BY <1>6, <2>3, <3>2 DEF Admit, Move, Busy
    <3> QED
      BY <2>1, <3>3 DEF BurstStep, Logged
  <2> QED
    BY <2>2, <2>3
<1>7. ASSUME NEW r, NEW verdict, Send(r, verdict) PROVE BurstStep(u)
  <2>1. /\ r \in DOMAIN request /\ request[r] \in RequestStates
        /\ request[r].phase = "admitted"
    BY <1>7 DEF Send, At, TypeOK, IsMapping
  <2>2. request' = [request EXCEPT ![r] = SentAt(request[r], now)]
    BY <1>7 DEF Send, SentAt
  <2>3. SentAt(request[r], now).user = request[r].user
    BY <2>1 DEF SentAt, RequestStates
  <2>4. Busy(u)' \subseteq Busy(u)
    BY <2>1, <2>2, <2>3 DEF Busy
  <2> QED
    BY <1>7, <2>4 DEF Send, BurstStep, Logged
<1>8. ASSUME NEW r, NEW verdict, Refuse(r) \/ Reject(r, verdict) PROVE BurstStep(u)
  BY <1>8, LeaveSteps DEF Refuse, Reject, At, BurstStep
<1>9. ASSUME NEW r, Answer(r) PROVE BurstStep(u)
  <2>1. /\ r \in DOMAIN request /\ request[r].phase = "sent" /\ now' = now
        /\ Leave(r, now - request[r].since)
    BY <1>9 DEF Answer, At
  <2>2. CASE request[r].user = u
    <3>1. r \in Busy(u)
      BY <2>1, <2>2 DEF Busy
    <3>2. /\ Logged(u)' \subseteq Logged(u) \cup {Len(log) + 1}
          /\ Busy(u)' \subseteq Busy(u) \ {r}
      BY <2>1, LeaveSteps
    <3> QED
      BY <3>1, <3>2 DEF BurstStep
  <2>3. CASE request[r].user # u
    BY <2>1, <2>3, LeaveSteps DEF BurstStep
  <2> QED
    BY <2>2, <2>3
<1>10. ASSUME NEW r, Vanish(r) PROVE BurstStep(u)
  <2>1. Busy(u)' \subseteq Busy(u)
    BY <1>10 DEF Vanish, Drop, Restrict, Busy
  <2> QED
    BY <1>10, <2>1 DEF Vanish, BurstStep, Logged
<1> QED
  BY <1>1, <1>2, <1>3, <1>4, <1>5, <1>6, <1>7, <1>8, <1>9, <1>10
  DEF Next, vars, UpdateUser, ToggleKey, ChangeStatus

LEMMA BurstKept ==
    ASSUME HInv, HInv', BurstInv, [HistoryNext]_allVars
    PROVE  BurstInv'
<1> SUFFICES ASSUME NEW u \in Users
             PROVE  Cardinality(Logged(u)') + Cardinality(Busy(u)') <
                      top'[u] + Cardinality(Requests)
  BY DEF BurstInv
<1>1. Cardinality(Requests) \in Nat
  BY QuotaAssumption, FS_CardinalityType
<1>2. top[u] \in Nat /\ top'[u] \in Nat /\ top'[u] >= top[u]
  <2>1. HighestOK /\ HighestOK' /\ TypeOK'
    BY DEF HInv
  <2>2. CASE HistoryNext
    BY <2>1, <2>2, ObserveHighest DEF HistoryNext, Observed, HighestOK
  <2>3. CASE UNCHANGED allVars
    BY <2>1, <2>3 DEF allVars, HighestOK
  <2> QED
    BY <2>2, <2>3
<1>3. Cardinality(Logged(u)) + Cardinality(Busy(u)) < top[u] + Cardinality(Requests)
  BY DEF BurstInv
<1>4. /\ IsFiniteSet(Logged(u)) /\ IsFiniteSet(Busy(u))
      /\ Cardinality(Logged(u)) \in Nat /\ Cardinality(Busy(u)) \in Nat
      /\ Cardinality(Logged(u)) <= Used(u) /\ Used(u) \in Nat
  BY FiniteParts DEF HInv
<1>5. /\ Cardinality(Logged(u)') \in Nat /\ Cardinality(Busy(u)') \in Nat
      /\ Cardinality(Busy(u)') <= Cardinality(Requests)
  <2>1. TypeOK' /\ SizesOK'
    BY SizesBounded, PTL DEF HInv
  <2> QED
    BY <2>1 DEF SizesOK
<1>6. BurstStep(u)
  BY NextBurst DEF HInv, HistoryNext, allVars
<1>7. CASE Logged(u)' \subseteq Logged(u) /\ Busy(u)' \subseteq Busy(u)
  <2>1. Cardinality(Logged(u)') <= Cardinality(Logged(u))
    BY <1>4, <1>7, FS_Subset
  <2>2. Cardinality(Busy(u)') <= Cardinality(Busy(u))
    BY <1>4, <1>7, FS_Subset
  <2> QED
    BY <1>1, <1>2, <1>3, <1>4, <1>5, <2>1, <2>2
<1>8. ASSUME NEW i, NEW r \in Busy(u), Logged(u)' \subseteq Logged(u) \cup {i},
             Busy(u)' \subseteq Busy(u) \ {r}
      PROVE  Cardinality(Logged(u)') + Cardinality(Busy(u)') <
               top'[u] + Cardinality(Requests)
  <2>1. /\ IsFiniteSet(Logged(u) \cup {i})
        /\ Cardinality(Logged(u) \cup {i}) <= Cardinality(Logged(u)) + 1
    BY <1>4, FS_AddElement
  <2>2. /\ IsFiniteSet(Busy(u) \ {r})
        /\ Cardinality(Busy(u) \ {r}) = Cardinality(Busy(u)) - 1
    BY <1>4, <1>8, FS_RemoveElement
  <2>3. Cardinality(Logged(u)') <= Cardinality(Logged(u) \cup {i})
    BY <1>8, <2>1, FS_Subset
  <2>4. Cardinality(Busy(u)') <= Cardinality(Busy(u) \ {r})
    BY <1>8, <2>2, FS_Subset
  <2>5. Cardinality(Logged(u) \cup {i}) \in Nat
    BY <2>1, FS_CardinalityType
  <2> QED
    BY <1>1, <1>2, <1>3, <1>4, <1>5, <2>1, <2>2, <2>3, <2>4, <2>5
<1>9. ASSUME NEW r \in DOMAIN request, Admit(r), request[r].user = u,
             Logged(u)' \subseteq Logged(u)
      PROVE  Cardinality(Logged(u)') + Cardinality(Busy(u)') <
               top'[u] + Cardinality(Requests)
  <2>1. Cardinality(Logged(u)') <= Cardinality(Logged(u))
    BY <1>4, <1>9, FS_Subset
  <2>2. request[r].rpm \in Nat /\ Used(u) < request[r].rpm /\ At(r, "rated")
    BY <1>9 DEF Admit, HInv, TypeOK, IsMapping, RequestStates
  <2>3. request[r].rpm <= peak[r] /\ peak[r] <= top[u] /\ peak[r] \in Nat
    BY <1>9, <2>2 DEF HInv, HighestOK, RateInv
  <2> QED
    BY <1>1, <1>2, <1>4, <1>5, <2>1, <2>2, <2>3
<1> QED
  BY <1>6, <1>7, <1>8, <1>9 DEF BurstStep

LEMMA InitBurst == ASSUME Requests # {} PROVE HistoryInit => BurstInv
<1> SUFFICES ASSUME HistoryInit, NEW u \in Users
             PROVE  Cardinality(Logged(u)) + Cardinality(Busy(u)) <
                      top[u] + Cardinality(Requests)
  BY DEF BurstInv
<1>1. Logged(u) = {} /\ Busy(u) = {}
  BY DEF HistoryInit, Init, Empty, Logged, Busy
<1>2. Cardinality(Logged(u)) = 0 /\ Cardinality(Busy(u)) = 0
  BY <1>1, FS_EmptySet
<1>3. top[u] \in Nat
  BY InitHInv DEF HInv, HighestOK
<1>4. Cardinality(Requests) \in Nat /\ Cardinality(Requests) # 0
  BY QuotaAssumption, FS_CardinalityType, FS_EmptySet
<1> QED
  BY <1>2, <1>3, <1>4

\* Within a minute no more of a user's requests go upstream than the highest quota
\* and one for each other request in progress, if each key adds to the quota.
THEOREM BurstSafe ==
    ASSUME PerKeyRpm >= 0, Requests # {}
    PROVE  HistorySpec => []BurstBounded
<1>1. HInv /\ BurstInv => BurstBounded
  <2> SUFFICES ASSUME HInv, BurstInv, NEW u \in Users
               PROVE  SentLately(u) < top[u] + Cardinality(Requests)
    BY DEF BurstBounded
  <2>1. Cardinality(Requests) \in Nat /\ top[u] \in Nat
    BY QuotaAssumption, FS_CardinalityType DEF HInv, HighestOK
  <2> QED
    BY <2>1, FiniteParts DEF HInv, BurstInv, SentLately
<1>2. HInv /\ HInv' /\ BurstInv /\ [HistoryNext]_allVars => BurstInv'
  BY BurstKept
<1> QED
  BY <1>1, <1>2, InitHInv, NextHInv, InitBurst, PTL DEF HistorySpec

==========================================================================
