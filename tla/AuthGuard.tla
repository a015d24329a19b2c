----------------------------- MODULE AuthGuard -----------------------------
(***************************************************************************)
(* Login and registration with their protections: attempts per minute and  *)
(* address, and failed logins per address and name. Attempts are counted   *)
(* in auth_attempts before the password is looked at and recorded there    *)
(* after, each by a statement of its own. Requests are served by the nodes *)
(* that are up: a node is up once its startup has seen to it that the      *)
(* administrator's account exists.                                         *)
(*                                                                         *)
(* Both limits of login are on and registration is allowed. Password       *)
(* hashing is left open: a password matches or not. Names have at most the *)
(* 50 characters that are recorded of them.                                *)
(***************************************************************************)
EXTENDS Integers, FiniteSets, Sequences, Mappings

CONSTANTS
    Nodes,
    Addresses, Names, Emails,
    NoEmail,               \* None
    Administrator,         \* admin_username
    AdminForceReset,
    Requests,              \* slots for requests in progress
    LoginsPerMinute, LockoutThreshold, RegistrationsPerMinute,
    Minute, LockoutTime,   \* in ticks
    MaxTime,               \* bound on the clock
    MaxRequests            \* bound on the requests of a behaviour

ASSUME AuthGuardAssumption ==
    /\ Administrator \in Names
    /\ AdminForceReset \in BOOLEAN
    /\ NoEmail \notin Emails
    /\ {LoginsPerMinute, LockoutThreshold, RegistrationsPerMinute} \subseteq Nat \ {0}
    /\ {Minute, LockoutTime, MaxTime, MaxRequests} \subseteq Nat
    /\ IsFiniteSet(Requests)

VARIABLES
    now,       \* utcnow()
    node,      \* node -> "down", "creating" the administrator, "up"
    users,     \* name -> the role and e-mail address of its account
    attempts,  \* auth_attempts: address, username, action, success, created_at
    request,   \* slot -> the request in progress
    started    \* requests so far

vars == <<now, node, users, attempts, request, started>>

Account(role, email) == [role |-> role, email |-> email]

\* The database is new, or one in which somebody has registered under the name
\* that has since been made the administrator's.
Init ==
    /\ now = 0
    /\ node = [n \in Nodes |-> "down"]
    /\ users \in {Empty, Put(Empty, Administrator, Account("user", NoEmail))}
    /\ attempts = <<>>
    /\ request = Empty
    /\ started = 0

At(r, phase) == r \in DOMAIN request /\ request[r].phase = phase
Move(r, phase) == request' = [request EXCEPT ![r].phase = phase]

\* The attempts of the action and address of request r, in the window before the
\* time at which it came
Earlier(r, window) ==
    {i \in DOMAIN attempts :
        /\ attempts[i].at >= request[r].since - window
        /\ attempts[i].action = request[r].action
        /\ attempts[i].address = request[r].address}

Tick ==
    /\ now < MaxTime
    /\ now' = now + 1
    /\ UNCHANGED <<node, users, attempts, request, started>>

---------------------------------------------------------------------------
(* enforce_auth_rate_limits *)

\* Faulty: the start of the window is kept for the time of the request.
AskEarlier(r, n, address, name, action) ==
    /\ node[n] = "up"
    /\ r \notin DOMAIN request
    /\ started < MaxRequests
    /\ started' = started + 1
    /\ request' = Put(request, r, [phase |-> "asked", node |-> n, address |-> address,
         name |-> name, email |-> NoEmail, action |-> action, since |-> now - Minute])
    /\ UNCHANGED <<now, node, users, attempts>>

Ask(r, n, address, name, action) ==
    /\ node[n] = "up"
    /\ r \notin DOMAIN request
    /\ started < MaxRequests
    /\ started' = started + 1
    /\ request' = Put(request, r, [phase |-> "asked", node |-> n, address |-> address,
         name |-> name, email |-> NoEmail, action |-> action, since |-> now])
    /\ UNCHANGED <<now, node, users, attempts>>

\* 429: nothing is recorded.
TurnAway(r) ==
    /\ request' = Drop(request, r)
    /\ UNCHANGED <<now, node, users, attempts, started>>

Limit(r) == IF request[r].action = "login" THEN LoginsPerMinute ELSE RegistrationsPerMinute

\* Faulty: only failures count.
CountFailedAttempts(r) ==
    /\ At(r, "asked")
    /\ IF Cardinality({i \in Earlier(r, Minute) : ~attempts[i].success}) >= Limit(r)
       THEN TurnAway(r)
       ELSE /\ Move(r, IF request[r].action = "login" THEN "counted" ELSE "allowed")
            /\ UNCHANGED <<now, node, users, attempts, started>>

CountAttempts(r) ==
    /\ At(r, "asked")
    /\ IF Cardinality(Earlier(r, Minute)) >= Limit(r)
       THEN TurnAway(r)
       ELSE /\ Move(r, IF request[r].action = "login" THEN "counted" ELSE "allowed")
            /\ UNCHANGED <<now, node, users, attempts, started>>

Failures(r) ==
    {i \in Earlier(r, LockoutTime) :
        ~attempts[i].success /\ attempts[i].name = request[r].name}

\* Faulty: off by one.
CountFailuresLate(r) ==
    /\ At(r, "counted")
    /\ IF Cardinality(Failures(r)) > LockoutThreshold
       THEN TurnAway(r)
       ELSE Move(r, "allowed") /\ UNCHANGED <<now, node, users, attempts, started>>

CountFailures(r) ==
    /\ At(r, "counted")
    /\ IF Cardinality(Failures(r)) >= LockoutThreshold
       THEN TurnAway(r)
       ELSE Move(r, "allowed") /\ UNCHANGED <<now, node, users, attempts, started>>

---------------------------------------------------------------------------
(* login and register *)

Decide(r, success) == Move(r, IF success THEN "succeeded" ELSE "failed")

Login(r, match) ==
    /\ At(r, "allowed") /\ request[r].action = "login"
    /\ Decide(r, match /\ request[r].name \in DOMAIN users)
    /\ UNCHANGED <<now, node, users, attempts, started>>

TakenEmails == {users[n].email : n \in DOMAIN users} \ {NoEmail}

\* The passwords differ or are too short, or the name or the e-mail address is
\* taken; or not yet.
Register(r, email, acceptable) ==
    /\ At(r, "allowed") /\ request[r].action = "register"
    /\ IF acceptable /\ request[r].name \notin DOMAIN users /\ email \notin TakenEmails
       THEN request' = [request EXCEPT ![r].phase = "creating", ![r].email = email]
       ELSE Move(r, "failed")
    /\ UNCHANGED <<now, node, users, attempts, started>>

\* Faulty: as without the unique index on users.email.
CreateUserAnyEmail(r) ==
    /\ At(r, "creating")
    /\ request[r].name \notin DOMAIN users
    /\ users' = Put(users, request[r].name, Account("user", request[r].email))
    /\ Decide(r, TRUE)
    /\ UNCHANGED <<now, node, attempts, started>>

\* users.username and users.email are unique: the INSERT fails if one of them has
\* been taken meanwhile.
CreateUser(r) ==
    /\ At(r, "creating")
    /\ request[r].name \notin DOMAIN users
    /\ request[r].email \notin TakenEmails
    /\ users' = Put(users, request[r].name, Account("user", request[r].email))
    /\ Decide(r, TRUE)
    /\ UNCHANGED <<now, node, attempts, started>>

Record(r) ==
    /\ At(r, "succeeded") \/ At(r, "failed")
    /\ attempts' = Append(attempts,
         [address |-> request[r].address, name |-> request[r].name,
          action |-> request[r].action, success |-> At(r, "succeeded"), at |-> now])
    /\ request' = Drop(request, r)
    /\ UNCHANGED <<now, node, users, started>>

\* A statement fails: nothing more is written. What CreateUser committed stays.
Fail(r) ==
    /\ r \in DOMAIN request
    /\ request' = Drop(request, r)
    /\ UNCHANGED <<now, node, users, attempts, started>>

---------------------------------------------------------------------------
(* on_startup *)

SetNode(n, phase) == node' = [node EXCEPT ![n] = phase]

\* Faulty: an account of that name will do.
FindAdminAnyRole(n) ==
    /\ node[n] = "down"
    /\ SetNode(n, IF Administrator \in DOMAIN users THEN "up" ELSE "creating")
    /\ UNCHANGED <<now, users, attempts, request, started>>

\* The account is there, and is reset if so configured; or it is not.
FindAdmin(n) ==
    /\ node[n] = "down"
    /\ IF Administrator \in DOMAIN users
       THEN /\ SetNode(n, "up")
            /\ users' = IF AdminForceReset
                 THEN [users EXCEPT ![Administrator].role = "admin"] ELSE users
       ELSE SetNode(n, "creating") /\ UNCHANGED users
    /\ UNCHANGED <<now, attempts, request, started>>

CreateAdmin(n) ==
    /\ node[n] = "creating"
    /\ Administrator \notin DOMAIN users
    /\ users' = Put(users, Administrator, Account("admin", NoEmail))
    /\ SetNode(n, "up")
    /\ UNCHANGED <<now, attempts, request, started>>

\* A statement of the startup fails, as CreateAdmin's does if another node has made
\* the account meanwhile; or the node stops.
StopNode(n) ==
    /\ node[n] # "down"
    /\ SetNode(n, "down")
    /\ request' = Restrict(request, {r \in DOMAIN request : request[r].node # n})
    /\ UNCHANGED <<now, users, attempts, started>>

Next ==
    \/ Tick
    \/ \E n \in Nodes : FindAdmin(n) \/ CreateAdmin(n) \/ StopNode(n)
    \/ \E r \in Requests :
         \/ \E n \in Nodes, a \in Addresses, name \in Names,
                action \in {"login", "register"} : Ask(r, n, a, name, action)
         \/ CountAttempts(r) \/ CountFailures(r)
         \/ \E match \in BOOLEAN : Login(r, match)
         \/ \E email \in Emails \cup {NoEmail}, ok \in BOOLEAN : Register(r, email, ok)
         \/ CreateUser(r) \/ Record(r) \/ Fail(r)

Spec == Init /\ [][Next]_vars

---------------------------------------------------------------------------
(* Properties *)

Attempts ==
    [address : Addresses, name : Names, action : {"login", "register"},
     success : BOOLEAN, at : 0..MaxTime]
Phases == {"asked", "counted", "allowed", "creating", "succeeded", "failed"}

Accounts == [role : {"admin", "user"}, email : Emails \cup {NoEmail}]
RequestStates ==
    [phase : Phases, node : Nodes, address : Addresses, name : Names,
     email : Emails \cup {NoEmail}, action : {"login", "register"}, since : 0..MaxTime]

TypeOK ==
    /\ now \in 0..MaxTime
    /\ node \in [Nodes -> {"down", "creating", "up"}]
    /\ IsMapping(users, Names, Accounts)
    /\ attempts \in Seq(Attempts)
    /\ IsMapping(request, Requests, RequestStates)
    /\ \A r \in DOMAIN request : request[r].since <= now
    /\ started \in 0..MaxRequests

Lately(window, d, action) ==
    {i \in DOMAIN attempts :
        /\ attempts[i].at >= now - window
        /\ attempts[i].address = d /\ attempts[i].action = action}

\* Every request counts before it is recorded, and may have counted while the
\* others were not: a minute holds one attempt for each of them above the limit,
\* and no more.
AttemptsBounded ==
    \A d \in Addresses, action \in {"login", "register"} :
        Cardinality(Lately(Minute, d, action))
        < (IF action = "login" THEN LoginsPerMinute ELSE RegistrationsPerMinute)
          + Cardinality(Requests)

\* The same of the failures that lock a name out at an address: successes in
\* between, or other names, make no difference.
FailuresBounded ==
    \A d \in Addresses, n \in Names :
        Cardinality({i \in Lately(LockoutTime, d, "login") :
            attempts[i].name = n /\ ~attempts[i].success})
        < LockoutThreshold + Cardinality(Requests)

\* A registration that is answered as a success has made an account of its own: of
\* two that overlap on a name or an e-mail address one succeeds. (The addresses are
\* looked up before the accounts are made.)
RegisteredOnce ==
    /\ \A n \in Names : Cardinality(
        {i \in DOMAIN attempts : /\ attempts[i].action = "register"
                                 /\ attempts[i].name = n /\ attempts[i].success}
        \cup {r \in DOMAIN request : /\ request[r].action = "register"
                                     /\ request[r].name = n /\ At(r, "succeeded")}) <= 1
    /\ \A n, m \in DOMAIN users :
        users[n].email = users[m].email => n = m \/ users[n].email = NoEmail

\* Nodes may start together on a new database, fail, and start again while others
\* serve: wherever a node serves, the administrator's account is there, and nobody
\* has registered it for himself unless it is not to be reset.
AdminAccountStands ==
    (\E n \in Nodes : node[n] = "up") =>
        /\ Administrator \in DOMAIN users
        /\ users[Administrator].role = "user" => ~AdminForceReset

============================================================================
