------------------------------- MODULE Quota -------------------------------
(***************************************************************************)
(* The quota of the relay: how many requests per minute a user has, how    *)
(* many request_logs say were used, and the row that each request leaves.  *)
(*                                                                         *)
(* Each statement of a request is a step, as the handler awaits it; what   *)
(* it knows of its user is what authentication read. Keys change on their  *)
(* own (the pool, its owner). The 60 seconds of the window are Window      *)
(* ticks. How a request fails after its admission is left open.            *)
(***************************************************************************)
EXTENDS Admission, FiniteSets, FiniteSetsExt, Sequences, Mappings

CONSTANTS
    Users,
    Requests,          \* slots for requests in progress
    Keys,
    Owner,             \* key -> user
    AutoQuotaEnabled, ManualGlobalRpm, BaseRpmContributorOnly,
    BaseRpm, PerKeyRpm, MaxRpm,
    ManualRpms,        \* what administrators may set, besides nothing
    Window,
    MaxTime,           \* bound on the clock
    MaxRequests        \* bound on the requests of a behaviour

ASSUME QuotaAssumption ==
    /\ Owner \in [Keys -> Users]
    /\ AutoQuotaEnabled \in BOOLEAN /\ BaseRpmContributorOnly \in BOOLEAN
    /\ {ManualGlobalRpm, BaseRpm, PerKeyRpm, MaxRpm} \cup ManualRpms \subseteq Int
    /\ {Window, MaxTime, MaxRequests} \subseteq Nat
    /\ IsFiniteSet(Keys) /\ IsFiniteSet(Requests)

VARIABLES
    now,      \* utcnow()
    active,   \* users with is_active
    manual,   \* user -> manual_rpm, {} or a set of one number
    enabled,  \* keys with is_enabled
    healthy,  \* keys with status "healthy"
    log,      \* request_logs: user, created_at and latency, NotSent if rejected
    request,  \* slot -> the request in progress
    started   \* requests so far

vars == <<now, active, manual, enabled, healthy, log, request, started>>

NotSent == -1

Least(a, b) == IF a < b THEN a ELSE b
NotNegative(i) == IF i < 0 THEN 0 ELSE i

Init ==
    /\ now = 0
    /\ active = Users
    /\ manual = [u \in Users |-> {}]
    /\ enabled = Keys
    /\ healthy = Keys
    /\ log = <<>>
    /\ request = Empty
    /\ started = 0

---------------------------------------------------------------------------
(* get_user_rpm *)

Contributed(u) == {k \in enabled : Owner[k] = u}

\* Faulty: disabled keys count.
HealthyKeysOf(u) == {k \in healthy : Owner[k] = u}

Counted(u) == {k \in healthy \cap enabled : Owner[k] = u}

Computed(healthyCount) ==
    LET rpm == BaseRpm + healthyCount * PerKeyRpm
    IN NotNegative(IF MaxRpm > 0 THEN Least(rpm, MaxRpm) ELSE rpm)

\* What needs no statement: a number for the user, or one for all.
IsFixed(m) == m # {} \/ ~AutoQuotaEnabled
\* Faulty: a negative number is taken as it is.
FixedAsGiven(m) == IF m # {} THEN Max(m) ELSE ManualGlobalRpm

Fixed(m) == NotNegative(IF m # {} THEN Max(m) ELSE ManualGlobalRpm)

\* The quota of u by the state of this moment, m being manual_rpm
Rpm(u, m) ==
    IF IsFixed(m) THEN Fixed(m)
    ELSE IF BaseRpmContributorOnly /\ Contributed(u) = {} THEN 0
    ELSE Computed(Cardinality(Counted(u)))

---------------------------------------------------------------------------
(* generate_image *)

At(r, phase) == r \in DOMAIN request /\ request[r].phase = phase
Move(r, phase) == request' = [request EXCEPT ![r].phase = phase]

\* db.add(RequestLog(...)) and the commit. The request has its answer.
Leave(r, latency) ==
    /\ log' = Append(log, [user |-> request[r].user, at |-> now, latency |-> latency])
    /\ request' = Drop(request, r)

\* get_current_user_any: 403 for who is not active
Authenticate(r, u) ==
    /\ r \notin DOMAIN request
    /\ u \in active
    /\ started < MaxRequests
    /\ started' = started + 1
    /\ request' = Put(request, r,
         [phase |-> IF BaseRpmContributorOnly /\ ~IsFixed(manual[u]) THEN "new" ELSE "rating",
          user |-> u, manual |-> manual[u], rpm |-> 0, since |-> now])
    /\ UNCHANGED <<now, active, manual, enabled, healthy, log>>

CountContributed(r) ==
    /\ At(r, "new")
    /\ Move(r, IF Contributed(request[r].user) = {} THEN "rated" ELSE "rating")
    /\ UNCHANGED <<now, active, manual, enabled, healthy, log, started>>

CountHealthy(r) ==
    /\ At(r, "rating")
    /\ request' = [request EXCEPT ![r].phase = "rated",
         ![r].rpm = IF IsFixed(request[r].manual) THEN Fixed(request[r].manual)
                    ELSE Computed(Cardinality(Counted(request[r].user)))]
    /\ UNCHANGED <<now, active, manual, enabled, healthy, log, started>>

\* SELECT count of the rows of the user in the last minute
Used(u) == Cardinality({i \in DOMAIN log : log[i].user = u /\ log[i].at >= now - Window})

\* Faulty: off by one.
AdmitLate(r) ==
    /\ At(r, "rated")
    /\ Used(request[r].user) <= request[r].rpm
    /\ Move(r, "admitted")
    /\ UNCHANGED <<now, active, manual, enabled, healthy, log, started>>

Admit(r) ==
    /\ At(r, "rated")
    /\ Used(request[r].user) < request[r].rpm
    /\ Move(r, "admitted")
    /\ UNCHANGED <<now, active, manual, enabled, healthy, log, started>>

\* 429, also when the quota is 0
Refuse(r) ==
    /\ At(r, "rated")
    /\ Used(request[r].user) >= request[r].rpm
    /\ Leave(r, NotSent)
    /\ UNCHANGED <<now, active, manual, enabled, healthy, started>>

\* 403 for who contributes no key, and else 400 for what the body asks
Reject(r, verdict) ==
    /\ At(r, "admitted")
    /\ Contributed(request[r].user) = {} \/ verdict = "refused"
    /\ Leave(r, NotSent)
    /\ UNCHANGED <<now, active, manual, enabled, healthy, started>>

Send(r, verdict) ==
    /\ At(r, "admitted")
    /\ Contributed(request[r].user) # {} /\ verdict = "sent"
    /\ request' = [request EXCEPT ![r].phase = "sent", ![r].since = now]
    /\ UNCHANGED <<now, active, manual, enabled, healthy, log, started>>

Answer(r) ==
    /\ At(r, "sent")
    /\ Leave(r, now - request[r].since)
    /\ UNCHANGED <<now, active, manual, enabled, healthy, started>>

\* No row is written: a body that is an error, 503 for want of a key, an answer that
\* cannot be parsed, a commit that fails (what a body holds in place of a number is
\* not always storable).
Vanish(r) ==
    /\ At(r, "admitted") \/ At(r, "sent")
    /\ request' = Drop(request, r)
    /\ UNCHANGED <<now, active, manual, enabled, healthy, log, started>>

---------------------------------------------------------------------------
(* The rest of the system *)

Tick ==
    /\ now < MaxTime
    /\ now' = now + 1
    /\ UNCHANGED <<active, manual, enabled, healthy, log, request, started>>

\* PATCH /admin/users/{id}: m is {} when manual_rpm is null, a when is_active is.
UpdateUser(u, m, a) ==
    /\ manual' = IF m = {} THEN manual ELSE [manual EXCEPT ![u] = m]
    /\ active' = IF TRUE \in a THEN active \cup {u} ELSE IF a # {} THEN active \ {u} ELSE active
    /\ UNCHANGED <<now, enabled, healthy, log, request, started>>

ToggleKey(k) ==
    /\ enabled' = SymDiff(enabled, {k})
    /\ UNCHANGED <<now, active, manual, healthy, log, request, started>>

ChangeStatus(k) ==
    /\ healthy' = SymDiff(healthy, {k})
    /\ UNCHANGED <<now, active, manual, enabled, log, request, started>>

\* What an optional field of a request may hold
Given(S) == {{}} \cup {{x} : x \in S}

Next ==
    \/ Tick
    \/ \E r \in Requests :
         \/ \E u \in Users : Authenticate(r, u)
         \/ CountContributed(r) \/ CountHealthy(r)
         \/ Admit(r) \/ Refuse(r)
         \/ \E verdict \in Verdicts : Reject(r, verdict) \/ Send(r, verdict)
         \/ Answer(r) \/ Vanish(r)
    \/ \E u \in Users, m \in Given(ManualRpms), a \in Given(BOOLEAN) : UpdateUser(u, m, a)
    \/ \E k \in Keys : ToggleKey(k) \/ ChangeStatus(k)

Spec == Init /\ [][Next]_vars

---------------------------------------------------------------------------
(* Properties *)

Phases == {"new", "rating", "rated", "admitted", "sent"}

Rows == [user : Users, at : 0..MaxTime, latency : {NotSent} \cup 0..MaxTime]

RequestStates == [phase : Phases, user : Users, manual : Given(ManualRpms),
                  rpm : Nat, since : 0..MaxTime]

TypeOK ==
    /\ now \in 0..MaxTime
    /\ active \subseteq Users
    /\ manual \in [Users -> Given(ManualRpms)]
    /\ enabled \subseteq Keys /\ healthy \subseteq Keys
    /\ log \in Seq(Rows)
    /\ \A i \in DOMAIN log : log[i].at <= now
    /\ IsMapping(request, Requests, RequestStates)
    /\ \A r \in DOMAIN request : request[r].since <= now
    /\ started \in 0..MaxRequests

\* A body goes upstream as it came, not as it was converted. Whatever body a request
\* in flight may have, it asks for at least one pixel and one step, for less than one
\* step and one sample above the limits, and for less than a row and a column of
\* pixels above them: 1024.9 x 1024.9 is sent under a limit of 1024 * 1024. And no
\* body that asks for what the limits allow is what stops an admitted request.
LimitsKept ==
    \A r \in DOMAIN request :
        (At(r, "sent") => OnlyNearlyModestSent) /\ (At(r, "admitted") => AllModestSent)

\* Requests of u that went upstream in the last minute: those that have left
\* their row and those still out.
Logged(u) == {i \in DOMAIN log :
    /\ log[i].user = u /\ log[i].latency # NotSent
    /\ log[i].at - log[i].latency >= now - Window}
Out(u) == {r \in DOMAIN request :
    /\ request[r].user = u /\ request[r].phase = "sent"
    /\ request[r].since >= now - Window}
SentLately(u) == Cardinality(Logged(u)) + Cardinality(Out(u))

===========================================================================
