-------------------------- MODULE AuthGuard_proof --------------------------
(***************************************************************************)
(* Proofs about AuthGuard, for any nodes that start, fail and stop and any *)
(* requests beside them: the administrator's account, types, the bounds on *)
(* attempts and on failures, and accounts that are made once.              *)
(***************************************************************************)
EXTENDS AuthGuard, FiniteSetTheorems, TLAPS

---------------------------------------------------------------------------
(* The administrator's account *)

\* The table is a partial function, and an account has a role: a step that changes
\* one account finds the others as they were.
UsersTyped ==
    /\ users = [n \in DOMAIN users |-> users[n]]
    /\ \A n \in DOMAIN users : users[n] = Account(users[n].role, users[n].email)

NodesTyped == node = [n \in Nodes |-> node[n]]

\* What a node that serves relies on
AccountStands ==
    /\ Administrator \in DOMAIN users
    /\ users[Administrator].role = "user" => ~AdminForceReset

IInv == UsersTyped /\ NodesTyped /\ AdminAccountStands

---------------------------------------------------------------------------

\* A new name leaves the accounts that are there as they are.
LEMMA PutUser ==
    ASSUME UsersTyped, NEW name, NEW role, NEW email,
           users' = Put(users, name, Account(role, email))
    PROVE  /\ UsersTyped'
           /\ DOMAIN users' = DOMAIN users \cup {name}
           /\ users'[name].role = role
           /\ \A n \in DOMAIN users \ {name} : users'[n] = users[n]
BY DEF UsersTyped, Put, Account

\* The reset of the administrator at startup
LEMMA ResetUser ==
    ASSUME UsersTyped, NEW name \in DOMAIN users,
           users' = [users EXCEPT ![name].role = "admin"]
    PROVE  /\ UsersTyped'
           /\ DOMAIN users' = DOMAIN users
           /\ users'[name].role = "admin"
<1>1. users' = [n \in DOMAIN users |->
                  IF n = name THEN [users[n] EXCEPT !.role = "admin"] ELSE users[n]]
    BY DEF UsersTyped
<1>2. [users[name] EXCEPT !.role = "admin"] = Account("admin", users[name].email)
    BY DEF UsersTyped, Account
<1> QED BY <1>1, <1>2 DEF UsersTyped, Account

\* A node that is set up, or down, leaves the others as they are.
LEMMA SetOneNode ==
    ASSUME NodesTyped, NEW n \in Nodes, NEW phase, SetNode(n, phase)
    PROVE  /\ NodesTyped'
           /\ \A m \in Nodes : node'[m] = IF m = n THEN phase ELSE node[m]
BY DEF NodesTyped, SetNode

\* While some node is up its account stands, and it goes on standing if the step
\* keeps it.
LEMMA Kept ==
    ASSUME AdminAccountStands, AccountStands => AccountStands',
           \A n \in Nodes : node'[n] = "up" => node[n] = "up"
    PROVE  AdminAccountStands'
BY DEF AdminAccountStands, AccountStands

---------------------------------------------------------------------------

LEMMA InitIInv == Init => IInv
<1> SUFFICES ASSUME Init PROVE IInv
    OBVIOUS
<1>1. UsersTyped
    BY DEF Init, UsersTyped, Empty, Put, Account
<1>2. NodesTyped /\ AdminAccountStands
    BY DEF Init, NodesTyped, AdminAccountStands
<1> QED BY <1>1, <1>2 DEF IInv

LEMMA CreateUserKeeps ==
    ASSUME IInv, NEW r \in Requests, CreateUser(r)
    PROVE  IInv'
<1>1. /\ users' = Put(users, request[r].name, Account("user", request[r].email))
      /\ request[r].name \notin DOMAIN users /\ node' = node
    BY DEF CreateUser
<1>2. UsersTyped' /\ (AccountStands => AccountStands')
    BY <1>1, PutUser DEF IInv, AccountStands
<1> QED BY <1>1, <1>2, Kept DEF IInv, NodesTyped

LEMMA FindAdminKeeps ==
    ASSUME IInv, NEW n \in Nodes, FindAdmin(n)
    PROVE  IInv'
<1>1. CASE Administrator \in DOMAIN users
  <2>1. UsersTyped' /\ AccountStands'
    <3>1. CASE AdminForceReset
        <4>1. users' = [users EXCEPT ![Administrator].role = "admin"]
            BY <1>1, <3>1 DEF FindAdmin
        <4> QED BY <1>1, <4>1, ResetUser DEF IInv, AccountStands
    <3>2. CASE ~AdminForceReset
        BY <1>1, <3>2 DEF FindAdmin, IInv, UsersTyped, AccountStands
    <3> QED BY <3>1, <3>2
  <2>2. NodesTyped'
      BY <1>1, SetOneNode DEF FindAdmin, IInv
  <2> QED BY <2>1, <2>2 DEF IInv, AdminAccountStands, AccountStands
<1>2. CASE Administrator \notin DOMAIN users
  <2>1. SetNode(n, "creating") /\ users' = users
      BY <1>2 DEF FindAdmin
  <2>2. NodesTyped' /\ \A m \in Nodes : node'[m] = "up" => node[m] = "up"
      BY <2>1, SetOneNode DEF IInv
  <2> QED BY <2>1, <2>2, Kept DEF IInv, UsersTyped, AccountStands
<1> QED BY <1>1, <1>2

LEMMA CreateAdminKeeps ==
    ASSUME IInv, NEW n \in Nodes, CreateAdmin(n)
    PROVE  IInv'
<1>1. users' = Put(users, Administrator, Account("admin", NoEmail)) /\ SetNode(n, "up")
    BY DEF CreateAdmin
<1>2. UsersTyped' /\ Administrator \in DOMAIN users' /\ users'[Administrator].role = "admin"
    BY <1>1, PutUser DEF IInv
<1>3. AccountStands'
    BY <1>2 DEF AccountStands
<1>4. NodesTyped'
    BY <1>1, SetOneNode DEF IInv
<1> QED BY <1>2, <1>3, <1>4 DEF IInv, AdminAccountStands, AccountStands

LEMMA StopNodeKeeps ==
    ASSUME IInv, NEW n \in Nodes, StopNode(n)
    PROVE  IInv'
<1>1. SetNode(n, "down") /\ users' = users
    BY DEF StopNode
<1>2. NodesTyped' /\ \A m \in Nodes : node'[m] = "up" => node[m] = "up"
    BY <1>1, SetOneNode DEF IInv
<1> QED BY <1>1, <1>2, Kept DEF IInv, UsersTyped, AccountStands

\* Whatever else happens leaves the accounts and the nodes alone.
LEMMA OthersKeep ==
    ASSUME IInv, UNCHANGED <<node, users>>
    PROVE  IInv'
BY DEF IInv, UsersTyped, NodesTyped, AdminAccountStands

LEMMA NextIInv == IInv /\ [Next]_vars => IInv'
<1> SUFFICES ASSUME IInv, [Next]_vars PROVE IInv'
    OBVIOUS
<1>1. CASE Tick \/ UNCHANGED vars
    BY <1>1, OthersKeep DEF Tick, vars
<1>2. ASSUME NEW n \in Nodes, FindAdmin(n) \/ CreateAdmin(n) \/ StopNode(n)
      PROVE  IInv'
    BY <1>2, FindAdminKeeps, CreateAdminKeeps, StopNodeKeeps
<1>3. ASSUME NEW r \in Requests, NEW n \in Nodes, NEW a \in Addresses, NEW name \in Names,
             NEW action \in {"login", "register"}, Ask(r, n, a, name, action)
      PROVE  IInv'
    BY <1>3, OthersKeep DEF Ask
<1>4. ASSUME NEW r \in Requests, CountAttempts(r) \/ CountFailures(r)
      PROVE  IInv'
    BY <1>4, OthersKeep DEF CountAttempts, CountFailures, TurnAway
<1>5. ASSUME NEW r \in Requests, NEW match, Login(r, match)
      PROVE  IInv'
    BY <1>5, OthersKeep DEF Login
<1>6. ASSUME NEW r \in Requests, NEW email, NEW ok, Register(r, email, ok)
      PROVE  IInv'
    BY <1>6, OthersKeep DEF Register
<1>7. ASSUME NEW r \in Requests, CreateUser(r)
      PROVE  IInv'
    BY <1>7, CreateUserKeeps
<1>8. ASSUME NEW r \in Requests, Record(r) \/ Fail(r)
      PROVE  IInv'
    BY <1>8, OthersKeep DEF Record, Fail
<1> QED BY <1>1, <1>2, <1>3, <1>4, <1>5, <1>6, <1>7, <1>8 DEF Next

\* Nodes that start together on a new database, fail halfway (main.py:188-197), stop
\* and start again never serve without the administrator's account.
THEOREM AdministratorSafe == Spec => []AdminAccountStands
<1>1. IInv => AdminAccountStands
    BY DEF IInv
<1> QED BY InitIInv, NextIInv, <1>1, PTL DEF Spec

---------------------------------------------------------------------------
(* Types *)

\* What Register makes of a request that is to make an account
CreatingWith(q, email) == [q EXCEPT !.phase = "creating", !.email = email]

LEMMA CreatingTyped ==
    ASSUME NEW q \in RequestStates, NEW email \in Emails \cup {NoEmail}
    PROVE  LET new == CreatingWith(q, email)
           IN  /\ new \in RequestStates /\ new.phase = "creating" /\ new.since = q.since
               /\ new.address = q.address /\ new.name = q.name /\ new.action = q.action
BY DEF CreatingWith, RequestStates, Phases

\* The other steps of a request change its phase alone.
MovedTo(q, phase) == [q EXCEPT !.phase = phase]

LEMMA MovedTyped ==
    ASSUME NEW q \in RequestStates, NEW phase \in Phases
    PROVE  LET new == MovedTo(q, phase)
           IN  /\ new \in RequestStates /\ new.phase = phase /\ new.since = q.since
               /\ new.address = q.address /\ new.name = q.name /\ new.action = q.action
BY DEF MovedTo, RequestStates

LEMMA RequestTyped ==
    ASSUME TypeOK, NEW r \in DOMAIN request
    PROVE  r \in Requests /\ request[r] \in RequestStates /\ request[r].since \in 0..now
BY DEF TypeOK, IsMapping, RequestStates

RequestsTyped ==
    /\ IsMapping(request, Requests, RequestStates)
    /\ \A r \in DOMAIN request : request[r].since <= now

LEMMA ChangeTyped ==
    ASSUME TypeOK, now' = now, NEW r \in DOMAIN request, NEW q \in RequestStates,
           q.since = request[r].since, request' = [request EXCEPT ![r] = q]
    PROVE  RequestsTyped'
BY DEF TypeOK, IsMapping, RequestsTyped

LEMMA MoveTyped ==
    ASSUME TypeOK, now' = now, NEW r \in DOMAIN request, NEW phase \in Phases, Move(r, phase)
    PROVE  RequestsTyped'
<1>1. /\ MovedTo(request[r], phase) \in RequestStates
      /\ MovedTo(request[r], phase).since = request[r].since
  BY RequestTyped, MovedTyped
<1>2. request' = [request EXCEPT ![r] = MovedTo(request[r], phase)]
  BY DEF Move, MovedTo
<1> QED
  BY <1>1, <1>2, ChangeTyped

LEMMA DropTyped ==
    ASSUME TypeOK, now' = now, NEW r, request' = Drop(request, r)
    PROVE  RequestsTyped'
BY DEF TypeOK, IsMapping, Drop, Restrict, RequestsTyped

LEMMA InitTypeOK == Init => TypeOK
<1> SUFFICES ASSUME Init PROVE TypeOK
  OBVIOUS
<1>1. IsMapping(users, Names, Accounts)
  <2>1. Account("user", NoEmail) \in Accounts
    BY DEF Account, Accounts
  <2> QED
    BY <2>1, AuthGuardAssumption DEF Init, IsMapping, Empty, Put
<1>2. IsMapping(request, Requests, RequestStates) /\ DOMAIN request = {}
  BY DEF Init, IsMapping, Empty
<1> QED
  BY <1>1, <1>2, AuthGuardAssumption DEF Init, TypeOK

LEMMA NextTypeOK == TypeOK /\ [Next]_vars => TypeOK'
<1> SUFFICES ASSUME TypeOK, [Next]_vars PROVE TypeOK'
  OBVIOUS
<1> USE AuthGuardAssumption
<1>1. now \in 0..MaxTime /\ IsMapping(users, Names, Accounts)
  BY DEF TypeOK
<1>2. ASSUME RequestsTyped', UNCHANGED <<now, node, users, attempts, started>>
      PROVE  TypeOK'
  BY <1>2 DEF TypeOK, RequestsTyped, IsMapping
<1>3. CASE UNCHANGED vars
  BY <1>3 DEF vars, TypeOK, IsMapping
<1>4. CASE Tick
  <2>1. now' \in 0..MaxTime /\ now' = now + 1
    BY <1>1, <1>4 DEF Tick
  <2>2. \A r \in DOMAIN request : request[r].since <= now'
    BY <1>1, <2>1, RequestTyped
  <2> QED
    BY <1>4, <2>1, <2>2 DEF Tick, TypeOK, IsMapping
<1>5. ASSUME NEW n \in Nodes, FindAdmin(n) PROVE TypeOK'
  <2>1. node' \in [Nodes -> {"down", "creating", "up"}]
    BY <1>5 DEF FindAdmin, SetNode, TypeOK
  <2>2. IsMapping(users, Names, Accounts)'
    <3>1. CASE users' = users
      BY <1>1, <3>1 DEF IsMapping
    <3>2. CASE Administrator \in DOMAIN users
               /\ users' = [users EXCEPT ![Administrator].role = "admin"]
      <4>1. [users[Administrator] EXCEPT !.role = "admin"] \in Accounts
        BY <1>1, <3>2 DEF IsMapping, Accounts
      <4> QED
        BY <1>1, <3>2, <4>1 DEF IsMapping
    <3> QED
      BY <1>5, <3>1, <3>2 DEF FindAdmin
  <2> QED
    BY <1>5, <2>1, <2>2 DEF FindAdmin, TypeOK, IsMapping
<1>6. ASSUME NEW n \in Nodes, CreateAdmin(n) PROVE TypeOK'
  <2>1. node' \in [Nodes -> {"down", "creating", "up"}]
    BY <1>6 DEF CreateAdmin, SetNode, TypeOK
  <2>2. IsMapping(users, Names, Accounts)'
    <3>1. Account("admin", NoEmail) \in Accounts
      BY DEF Account, Accounts
    <3> QED
      BY <1>1, <1>6, <3>1 DEF CreateAdmin, IsMapping, Put
  <2> QED
    BY <1>6, <2>1, <2>2 DEF CreateAdmin, TypeOK, IsMapping
<1>7. ASSUME NEW n \in Nodes, StopNode(n) PROVE TypeOK'
  <2>1. node' \in [Nodes -> {"down", "creating", "up"}]
    BY <1>7 DEF StopNode, SetNode, TypeOK
  <2>2. RequestsTyped'
    BY <1>7 DEF StopNode, TypeOK, IsMapping, Restrict, RequestsTyped
  <2> QED
    BY <1>7, <2>1, <2>2 DEF StopNode, TypeOK, RequestsTyped, IsMapping
<1>8. ASSUME NEW r \in Requests, NEW n \in Nodes, NEW a \in Addresses, NEW name \in Names,
             NEW action \in {"login", "register"}, Ask(r, n, a, name, action)
      PROVE  TypeOK'
  <2> DEFINE q == [phase |-> "asked", node |-> n, address |-> a, name |-> name,
                   email |-> NoEmail, action |-> action, since |-> now]
  <2>1. q \in RequestStates /\ q.since = now
    BY <1>1 DEF RequestStates, Phases
  <2>2. request' = Put(request, r, q) /\ now' = now
    BY <1>8 DEF Ask
  <2>3. RequestsTyped'
    <3> HIDE DEF q
    <3> QED
      BY <1>1, <2>1, <2>2 DEF TypeOK, IsMapping, Put, RequestsTyped
  <2>4. started' \in 0..MaxRequests
    BY <1>8 DEF Ask, TypeOK
  <2> QED
    BY <1>8, <2>3, <2>4 DEF Ask, TypeOK, RequestsTyped, IsMapping
<1>9. ASSUME NEW r \in Requests, CountAttempts(r) \/ CountFailures(r) PROVE TypeOK'
  <2>1. CASE TurnAway(r)
    BY <1>2, <2>1, DropTyped DEF TurnAway
  <2>2. CASE UNCHANGED <<now, node, users, attempts, started>>
             /\ \E phase \in Phases : Move(r, phase)
    BY <1>2, <1>9, <2>2, MoveTyped DEF CountAttempts, CountFailures, At
  <2> QED
    BY <1>9, <2>1, <2>2 DEF CountAttempts, CountFailures, Phases
<1>10. ASSUME NEW r \in Requests, NEW match, Login(r, match) PROVE TypeOK'
  <2>1. PICK phase \in Phases : Move(r, phase)
    BY <1>10 DEF Login, Decide, Phases
  <2> QED
    BY <1>2, <1>10, <2>1, MoveTyped DEF Login, At
<1>11. ASSUME NEW r \in Requests, NEW email \in Emails \cup {NoEmail}, NEW ok,
              Register(r, email, ok)
       PROVE  TypeOK'
  <2>1. r \in DOMAIN request /\ UNCHANGED <<now, node, users, attempts, started>>
    BY <1>11 DEF Register, At
  <2>2. CASE request' = [request EXCEPT ![r].phase = "creating", ![r].email = email]
    <3>1. request' = [request EXCEPT ![r] = CreatingWith(request[r], email)]
      BY <2>2 DEF CreatingWith
    <3>2. /\ CreatingWith(request[r], email) \in RequestStates
          /\ CreatingWith(request[r], email).since = request[r].since
      BY <2>1, RequestTyped, CreatingTyped
    <3> QED
      BY <1>2, <2>1, <3>1, <3>2, ChangeTyped
  <2>3. CASE Move(r, "failed")
    BY <1>2, <2>1, <2>3, MoveTyped DEF Phases
  <2> QED
    BY <1>11, <2>2, <2>3 DEF Register
<1>12. ASSUME NEW r \in Requests, CreateUser(r) PROVE TypeOK'
  <2>1. r \in DOMAIN request /\ request[r] \in RequestStates
    BY <1>12, RequestTyped DEF CreateUser, At
  <2>2. RequestsTyped'
    BY <1>12, <2>1, MoveTyped DEF CreateUser, Decide, Phases
  <2>3. Account("user", request[r].email) \in Accounts /\ request[r].name \in Names
    BY <2>1 DEF Account, Accounts, RequestStates
  <2>4. IsMapping(users, Names, Accounts)'
    BY <1>1, <1>12, <2>3 DEF CreateUser, IsMapping, Put
  <2> QED
    BY <1>12, <2>2, <2>4 DEF CreateUser, TypeOK, RequestsTyped
<1>13. ASSUME NEW r \in Requests, Record(r) PROVE TypeOK'
  <2> DEFINE attempt == [address |-> request[r].address, name |-> request[r].name,
                         action |-> request[r].action, success |-> At(r, "succeeded"),
                         at |-> now]
  <2>1. r \in DOMAIN request /\ request[r] \in RequestStates
    BY <1>13, RequestTyped DEF Record, At
  <2>2. At(r, "succeeded") \in BOOLEAN
    BY DEF At
  <2>3. attempt \in Attempts
    BY <1>1, <2>1, <2>2 DEF Attempts, RequestStates
  <2>4. attempts' = Append(attempts, attempt) /\ attempts \in Seq(Attempts)
    BY <1>13 DEF Record, TypeOK
  <2>5. attempts' \in Seq(Attempts)
    <3> HIDE DEF attempt
    <3> QED
      BY <2>3, <2>4
  <2>6. RequestsTyped'
    BY <1>13, DropTyped DEF Record
  <2> QED
    BY <1>13, <2>5, <2>6 DEF Record, TypeOK, RequestsTyped, IsMapping
<1>14. ASSUME NEW r \in Requests, Fail(r) PROVE TypeOK'
  BY <1>2, <1>14, DropTyped DEF Fail
<1> QED
  BY <1>3, <1>4, <1>5, <1>6, <1>7, <1>8, <1>9, <1>10, <1>11, <1>12, <1>13, <1>14 DEF Next

\* Accounts, attempts and requests keep their types.
THEOREM TypeCorrect == Spec => []TypeOK
BY InitTypeOK, NextTypeOK, PTL DEF Spec

---------------------------------------------------------------------------
(* Counting attempts: those that are recorded, and the requests that may yet be *)

Within(S, W, k) ==
    /\ IsFiniteSet(S) /\ IsFiniteSet(W)
    /\ Cardinality(S) + Cardinality(W) <= k

LEMMA WithinShrinks ==
    ASSUME NEW S, NEW W, NEW k \in Nat, Within(S, W, k), NEW S2, NEW W2,
           S2 \subseteq S, W2 \subseteq W
    PROVE  Within(S2, W2, k)
<1>1. IsFiniteSet(S2) /\ Cardinality(S2) <= Cardinality(S)
  BY FS_Subset DEF Within
<1>2. IsFiniteSet(W2) /\ Cardinality(W2) <= Cardinality(W)
  BY FS_Subset DEF Within
<1>3. /\ Cardinality(S) \in Nat /\ Cardinality(W) \in Nat
      /\ Cardinality(S2) \in Nat /\ Cardinality(W2) \in Nat
  BY <1>1, <1>2, FS_CardinalityType DEF Within
<1> QED
  BY <1>1, <1>2, <1>3 DEF Within

\* A request is recorded: one attempt more, and one request less.
Moved(S, W, S2, W2) ==
    \E i, r : r \in W /\ S2 \subseteq S \cup {i} /\ W2 \subseteq W \ {r}

LEMMA WithinMoves ==
    ASSUME NEW S, NEW W, NEW k \in Nat, Within(S, W, k), NEW S2, NEW W2,
           Moved(S, W, S2, W2)
    PROVE  Within(S2, W2, k)
<1>0. PICK i, r : r \in W /\ S2 \subseteq S \cup {i} /\ W2 \subseteq W \ {r}
  BY DEF Moved
<1>1. /\ IsFiniteSet(S \cup {i})
      /\ Cardinality(S \cup {i}) = Cardinality(S) \/ Cardinality(S \cup {i}) = Cardinality(S) + 1
  BY FS_AddElement DEF Within
<1>2. IsFiniteSet(W \ {r}) /\ Cardinality(W \ {r}) = Cardinality(W) - 1
  BY <1>0, FS_RemoveElement DEF Within
<1>3. /\ Cardinality(S) \in Nat /\ Cardinality(W) \in Nat
      /\ Cardinality(S \cup {i}) \in Nat /\ Cardinality(W \ {r}) \in Nat
  BY <1>1, <1>2, FS_CardinalityType DEF Within
<1>4. Within(S \cup {i}, W \ {r}, k)
  BY <1>1, <1>2, <1>3 DEF Within
<1> QED
  BY <1>0, <1>4, WithinShrinks

\* A request finds less than a limit. However many there are beside it, they are
\* no more than there are slots.
LEMMA WithinAdmits ==
    ASSUME NEW S, NEW limit \in Nat, IsFiniteSet(S), Cardinality(S) < limit,
           NEW S2, NEW W2, S2 \subseteq S, W2 \subseteq Requests
    PROVE  Within(S2, W2, limit + Cardinality(Requests) - 1)
<1>1. IsFiniteSet(S2) /\ Cardinality(S2) <= Cardinality(S)
  BY FS_Subset
<1>2. IsFiniteSet(W2) /\ Cardinality(W2) <= Cardinality(Requests)
  BY AuthGuardAssumption, FS_Subset
<1>3. /\ Cardinality(S) \in Nat /\ Cardinality(Requests) \in Nat
      /\ Cardinality(S2) \in Nat /\ Cardinality(W2) \in Nat
  BY <1>1, <1>2, AuthGuardAssumption, FS_CardinalityType
<1> QED
  BY <1>1, <1>2, <1>3 DEF Within

\* How a request may go on: never back to where attempts, or failures, are counted
SameCaller(q, p) == q.address = p.address /\ q.name = p.name /\ q.action = p.action
GoesOn(q, p) ==
    /\ p.phase # "asked"
    /\ q.phase # "asked"
    /\ p.phase = "counted" => q.phase = "counted"
    /\ SameCaller(q, p)

\* Every request was there and has gone on, or is new to the counting.
RequestsGoOn ==
    \A r \in DOMAIN request' :
        \/ request'[r].phase = "asked"
        \/ r \in DOMAIN request /\ GoesOn(request'[r], request[r])
        \/ r \in DOMAIN request /\ request'[r] = request[r]

StepGoesOn == attempts' = attempts /\ now' \in Nat /\ now' >= now /\ RequestsGoOn

\* A request finds less than the limit, of attempts or of failures, and goes on.
Admitted(r, phase) ==
    /\ UNCHANGED <<now, attempts>>
    /\ request' = [request EXCEPT ![r] = MovedTo(request[r], phase)]

AdmitsAttempt(r) ==
    /\ Cardinality(Earlier(r, Minute)) < Limit(r)
    /\ Admitted(r, IF request[r].action = "login" THEN "counted" ELSE "allowed")
AdmitsFailure(r) ==
    /\ request[r].phase = "counted"
    /\ Cardinality(Failures(r)) < LockoutThreshold
    /\ Admitted(r, "allowed")

LEMMA MoveGoesOn ==
    ASSUME TypeOK, NEW r \in DOMAIN request, NEW q, GoesOn(q, request[r]),
           request' = [request EXCEPT ![r] = q]
    PROVE  RequestsGoOn
BY DEF RequestsGoOn

LEMMA PhaseGoesOn ==
    ASSUME TypeOK, NEW r \in DOMAIN request, request[r].phase \notin {"asked", "counted"},
           NEW phase \in Phases \ {"asked", "counted"}, Move(r, phase)
    PROVE  RequestsGoOn
<1>1. request[r] \in RequestStates
  BY RequestTyped
<1>2. GoesOn(MovedTo(request[r], phase), request[r])
  BY <1>1, MovedTyped DEF GoesOn, SameCaller
<1>3. request' = [request EXCEPT ![r] = MovedTo(request[r], phase)]
  BY DEF Move, MovedTo
<1> QED
  BY <1>2, <1>3, MoveGoesOn

LEMMA DropGoesOn == ASSUME NEW r, request' = Drop(request, r) PROVE RequestsGoOn
BY DEF RequestsGoOn, Drop, Restrict

LEMMA NextAttempts ==
    ASSUME TypeOK, [Next]_vars
    PROVE  \/ StepGoesOn
           \/ \E r \in DOMAIN request : \/ AdmitsAttempt(r) \/ AdmitsFailure(r) \/ Record(r)
<1> USE AuthGuardAssumption
<1>0. now \in Nat
  BY DEF TypeOK
<1>1. CASE UNCHANGED vars \/ Tick
  BY <1>0, <1>1 DEF vars, Tick, StepGoesOn, RequestsGoOn
<1>2. ASSUME NEW n \in Nodes, FindAdmin(n) \/ CreateAdmin(n) PROVE StepGoesOn
  BY <1>0, <1>2 DEF FindAdmin, CreateAdmin, StepGoesOn, RequestsGoOn
<1>3. ASSUME NEW n \in Nodes, StopNode(n) PROVE StepGoesOn
  BY <1>0, <1>3 DEF StopNode, StepGoesOn, RequestsGoOn, Restrict
<1>4. ASSUME NEW r \in Requests, NEW n \in Nodes, NEW a \in Addresses, NEW name \in Names,
             NEW action \in {"login", "register"}, Ask(r, n, a, name, action)
      PROVE  StepGoesOn
  BY <1>0, <1>4 DEF Ask, StepGoesOn, RequestsGoOn, Put
<1>5. ASSUME NEW r \in Requests, CountAttempts(r)
      PROVE  r \in DOMAIN request /\ (StepGoesOn \/ AdmitsAttempt(r))
  <2>1. r \in DOMAIN request /\ now' = now /\ attempts' = attempts
    BY <1>5 DEF CountAttempts, TurnAway, At
  <2>2. CASE TurnAway(r)
    BY <1>0, <2>1, <2>2, DropGoesOn DEF TurnAway, StepGoesOn
  <2>3. CASE ~(Cardinality(Earlier(r, Minute)) >= Limit(r))
             /\ Move(r, IF request[r].action = "login" THEN "counted" ELSE "allowed")
    <3>1. Limit(r) \in Nat
      BY DEF Limit
    <3>2. Cardinality(Earlier(r, Minute)) \in Nat
      <4>1. DOMAIN attempts = 1..Len(attempts) /\ Len(attempts) \in Nat
        BY DEF TypeOK
      <4>2. IsFiniteSet(DOMAIN attempts)
        BY <4>1, FS_Interval
      <4> QED
        BY <4>2, FS_Subset, FS_CardinalityType DEF Earlier
    <3> QED
      BY <2>1, <2>3, <3>1, <3>2 DEF AdmitsAttempt, Admitted, Move, MovedTo
  <2> QED
    BY <1>5, <2>1, <2>2, <2>3 DEF CountAttempts
<1>6. ASSUME NEW r \in Requests, CountFailures(r)
      PROVE  r \in DOMAIN request /\ (StepGoesOn \/ AdmitsFailure(r))
  <2>1. /\ r \in DOMAIN request /\ request[r].phase = "counted"
        /\ now' = now /\ attempts' = attempts
    BY <1>6 DEF CountFailures, TurnAway, At
  <2>2. CASE TurnAway(r)
    BY <1>0, <2>1, <2>2, DropGoesOn DEF TurnAway, StepGoesOn
  <2>3. CASE ~(Cardinality(Failures(r)) >= LockoutThreshold) /\ Move(r, "allowed")
    <3>1. Cardinality(Failures(r)) \in Nat
      <4>1. DOMAIN attempts = 1..Len(attempts) /\ Len(attempts) \in Nat
        BY DEF TypeOK
      <4>2. IsFiniteSet(DOMAIN attempts) /\ Failures(r) \subseteq DOMAIN attempts
        BY <4>1, FS_Interval DEF Failures, Earlier
      <4> QED
        BY <4>2, FS_Subset, FS_CardinalityType
    <3> QED
      BY <2>1, <2>3, <3>1 DEF AdmitsFailure, Admitted, Move, MovedTo
  <2> QED
    BY <1>6, <2>1, <2>2, <2>3 DEF CountFailures
<1>7. ASSUME NEW r \in Requests, NEW match, Login(r, match) PROVE StepGoesOn
  <2>1. PICK phase \in Phases \ {"asked", "counted"} : Move(r, phase)
    BY <1>7 DEF Login, Decide, Phases
  <2> QED
    BY <1>0, <1>7, <2>1, PhaseGoesOn DEF Login, At, StepGoesOn
<1>8. ASSUME NEW r \in Requests, NEW email \in Emails \cup {NoEmail}, NEW ok,
             Register(r, email, ok)
      PROVE  StepGoesOn
  <2>1. /\ r \in DOMAIN request /\ request[r].phase = "allowed"
        /\ request[r] \in RequestStates /\ now' = now /\ attempts' = attempts
    BY <1>8, RequestTyped DEF Register, At
  <2>2. CASE request' = [request EXCEPT ![r].phase = "creating", ![r].email = email]
    <3>1. request' = [request EXCEPT ![r] = CreatingWith(request[r], email)]
      BY <2>2 DEF CreatingWith
    <3>2. GoesOn(CreatingWith(request[r], email), request[r])
      BY <2>1, CreatingTyped DEF GoesOn, SameCaller
    <3>3. RequestsGoOn
      BY <2>1, <3>1, <3>2, MoveGoesOn
    <3> QED
      BY <1>0, <2>1, <3>3 DEF StepGoesOn
  <2>3. CASE Move(r, "failed")
    BY <1>0, <2>1, <2>3, PhaseGoesOn DEF Phases, StepGoesOn
  <2> QED
    BY <1>8, <2>2, <2>3 DEF Register
<1>9. ASSUME NEW r \in Requests, CreateUser(r) PROVE StepGoesOn
  BY <1>0, <1>9, PhaseGoesOn DEF CreateUser, Decide, At, Phases, StepGoesOn
<1>10. ASSUME NEW r \in Requests, Record(r)
       PROVE  r \in DOMAIN request
  BY <1>10 DEF Record, At
<1>11. ASSUME NEW r \in Requests, Fail(r) PROVE StepGoesOn
  BY <1>0, <1>11, DropGoesOn DEF Fail, StepGoesOn
<1> QED
  BY <1>1, <1>2, <1>3, <1>4, <1>5, <1>6, <1>7, <1>8, <1>9, <1>10, <1>11 DEF Next

\* The requests that have counted the attempts, and the logins that have counted the
\* failures too
Attempting(d, action) ==
    {r \in DOMAIN request : /\ request[r].address = d /\ request[r].action = action
                            /\ request[r].phase # "asked"}
Trying(d, n) ==
    {r \in DOMAIN request : /\ request[r].address = d /\ request[r].action = "login"
                            /\ request[r].name = n
                            /\ request[r].phase \notin {"asked", "counted"}}

Failed(d, n) ==
    {i \in Lately(LockoutTime, d, "login") : attempts[i].name = n /\ ~attempts[i].success}

LimitOf(action) == IF action = "login" THEN LoginsPerMinute ELSE RegistrationsPerMinute

AttemptsInv ==
    \A d \in Addresses, action \in {"login", "register"} :
        Within(Lately(Minute, d, action), Attempting(d, action),
               LimitOf(action) + Cardinality(Requests) - 1)
FailuresInv ==
    \A d \in Addresses, n \in Names :
        Within(Failed(d, n), Trying(d, n), LockoutThreshold + Cardinality(Requests) - 1)

LEMMA LimitsTyped ==
    /\ Cardinality(Requests) \in Nat
    /\ \A action : LimitOf(action) \in Nat \ {0}
    /\ LockoutThreshold \in Nat \ {0}
    /\ Minute \in Nat /\ LockoutTime \in Nat
BY AuthGuardAssumption, FS_CardinalityType DEF LimitOf

LEMMA AttemptTyped ==
    ASSUME TypeOK
    PROVE  /\ DOMAIN attempts = 1..Len(attempts) /\ Len(attempts) \in Nat
           /\ IsFiniteSet(DOMAIN attempts)
           /\ \A i \in DOMAIN attempts : attempts[i].at \in Nat
<1>1. DOMAIN attempts = 1..Len(attempts) /\ Len(attempts) \in Nat
  BY DEF TypeOK
<1>2. \A i \in DOMAIN attempts : attempts[i] \in Attempts
  BY DEF TypeOK
<1> QED
  BY <1>1, <1>2, FS_Interval, AuthGuardAssumption DEF Attempts

\* As time goes on rows leave the window, and requests stop counting.
LEMMA GoingOnShrinks ==
    ASSUME TypeOK, StepGoesOn, NEW d, NEW action, NEW n
    PROVE  /\ \A window \in Nat : Lately(window, d, action)' \subseteq
                                   Lately(window, d, action)
           /\ Failed(d, n)' \subseteq Failed(d, n)
           /\ Attempting(d, action)' \subseteq Attempting(d, action)
           /\ Trying(d, n)' \subseteq Trying(d, n)
<1>1. now \in Nat /\ now' \in Nat /\ now' >= now /\ attempts' = attempts
  BY DEF TypeOK, StepGoesOn
<1>2. ASSUME NEW window \in Nat, NEW a
      PROVE  Lately(window, d, a)' \subseteq Lately(window, d, a)
  BY <1>1, <1>2, AttemptTyped DEF Lately
<1>3. Failed(d, n)' \subseteq Failed(d, n)
  BY <1>1, <1>2, LimitsTyped DEF Failed
<1>4. Attempting(d, action)' \subseteq Attempting(d, action)
  BY DEF StepGoesOn, RequestsGoOn, GoesOn, SameCaller, Attempting
<1>5. Trying(d, n)' \subseteq Trying(d, n)
  BY DEF StepGoesOn, RequestsGoOn, GoesOn, SameCaller, Trying
<1> QED
  BY <1>2, <1>3, <1>4, <1>5

\* What a request counts at its time holds what is in the window now.
LEMMA LatelyIsEarlier ==
    ASSUME TypeOK, NEW r \in DOMAIN request, NEW window \in Nat
    PROVE  Lately(window, request[r].address, request[r].action) \subseteq Earlier(r, window)
<1>1. request[r].since \in Nat /\ now \in Nat /\ request[r].since <= now
  BY RequestTyped DEF TypeOK
<1> QED
  BY <1>1, AttemptTyped DEF Lately, Earlier

LEMMA EarlierFinite ==
    ASSUME TypeOK, NEW r, NEW window
    PROVE  IsFiniteSet(Earlier(r, window)) /\ IsFiniteSet(Failures(r))
<1>1. Earlier(r, window) \subseteq DOMAIN attempts /\ Failures(r) \subseteq DOMAIN attempts
  BY DEF Earlier, Failures
<1> QED
  BY <1>1, AttemptTyped, FS_Subset

\* A request that is admitted changes none of the counts that are not its own, and
\* not that of the other kind.
LEMMA AdmittedShrinks ==
    ASSUME TypeOK, NEW r \in DOMAIN request, NEW phase \in {"counted", "allowed"},
           Admitted(r, phase), NEW d, NEW action, NEW n, NEW window
    PROVE  /\ Lately(window, d, action)' = Lately(window, d, action)
           /\ Failed(d, n)' = Failed(d, n)
           /\ request[r].phase # "asked" \/ request[r].address # d \/ request[r].action # action
              => Attempting(d, action)' \subseteq Attempting(d, action)
           /\ phase = "counted" \/ request[r].address # d \/ request[r].name # n
                  \/ request[r].action # "login"
              => Trying(d, n)' \subseteq Trying(d, n)
<1>1. request[r] \in RequestStates /\ phase \in Phases
  BY RequestTyped DEF Phases
<1>2. /\ request'[r].phase = phase /\ SameCaller(request'[r], request[r])
      /\ DOMAIN request' = DOMAIN request
      /\ \A s \in DOMAIN request \ {r} : request'[s] = request[s]
  BY <1>1, MovedTyped DEF Admitted, SameCaller
<1>3. now' = now /\ attempts' = attempts
  BY DEF Admitted
<1> QED
  BY <1>2, <1>3 DEF Lately, Failed, Attempting, Trying, SameCaller

\* A request that is recorded is one attempt more, and one request less.
LEMMA RecordMoves ==
    ASSUME TypeOK, NEW r \in DOMAIN request, Record(r), NEW d
    PROVE  /\ \A window, action :
                Lately(window, d, action)' \subseteq
                  IF request[r].address = d /\ request[r].action = action
                  THEN Lately(window, d, action) \cup {Len(attempts) + 1}
                  ELSE Lately(window, d, action)
           /\ \A n :
                Failed(d, n)' \subseteq
                  IF request[r].address = d /\ request[r].name = n
                     /\ request[r].action = "login"
                  THEN Failed(d, n) \cup {Len(attempts) + 1}
                  ELSE Failed(d, n)
           /\ \A action : Attempting(d, action)' \subseteq Attempting(d, action) \ {r}
           /\ \A n : Trying(d, n)' \subseteq Trying(d, n) \ {r}
<1> DEFINE attempt == [address |-> request[r].address, name |-> request[r].name,
                       action |-> request[r].action, success |-> At(r, "succeeded"),
                       at |-> now]
<1>1. /\ attempts' = Append(attempts, attempt) /\ attempts \in Seq(Attempts)
      /\ now' = now /\ request' = Drop(request, r)
  BY DEF Record, TypeOK
<1>2. /\ DOMAIN attempts' = 1..(Len(attempts) + 1) /\ DOMAIN attempts = 1..Len(attempts)
      /\ Len(attempts) \in Nat
      /\ \A i \in DOMAIN attempts : attempts'[i] = attempts[i]
      /\ attempts'[Len(attempts) + 1] = attempt
  BY <1>1
<1>3. \A i \in DOMAIN attempts' : i \in DOMAIN attempts \/ i = Len(attempts) + 1
  BY <1>2
<1>4. /\ attempt.address = request[r].address /\ attempt.name = request[r].name
      /\ attempt.action = request[r].action
  OBVIOUS
<1> HIDE DEF attempt
<1>5. ASSUME NEW window, NEW action
      PROVE  Lately(window, d, action)' \subseteq
               IF request[r].address = d /\ request[r].action = action
               THEN Lately(window, d, action) \cup {Len(attempts) + 1}
               ELSE Lately(window, d, action)
  BY <1>1, <1>2, <1>3, <1>4 DEF Lately
<1>6. ASSUME NEW n
      PROVE  Failed(d, n)' \subseteq
               IF request[r].address = d /\ request[r].name = n
                  /\ request[r].action = "login"
               THEN Failed(d, n) \cup {Len(attempts) + 1}
               ELSE Failed(d, n)
  BY <1>2, <1>3, <1>4, <1>5 DEF Failed, Lately
<1>7. ASSUME NEW action PROVE Attempting(d, action)' \subseteq Attempting(d, action) \ {r}
  BY <1>1 DEF Attempting, Drop, Restrict
<1>8. ASSUME NEW n PROVE Trying(d, n)' \subseteq Trying(d, n) \ {r}
  BY <1>1 DEF Trying, Drop, Restrict
<1> QED
  BY <1>5, <1>6, <1>7, <1>8

LEMMA AttemptsKept ==
    ASSUME TypeOK, TypeOK', AttemptsInv, [Next]_vars
    PROVE  AttemptsInv'
<1> SUFFICES ASSUME NEW d \in Addresses, NEW action \in {"login", "register"}
             PROVE  Within(Lately(Minute, d, action)', Attempting(d, action)',
                           LimitOf(action) + Cardinality(Requests) - 1)
  BY DEF AttemptsInv, Within
<1> DEFINE k == LimitOf(action) + Cardinality(Requests) - 1
<1>1. k \in Nat /\ Within(Lately(Minute, d, action), Attempting(d, action), k)
  BY LimitsTyped DEF AttemptsInv
<1>2. Attempting(d, action)' \subseteq Requests
  BY DEF Attempting, TypeOK, IsMapping
<1> HIDE DEF k
<1>3. CASE StepGoesOn
  BY <1>1, <1>3, GoingOnShrinks, LimitsTyped, WithinShrinks DEF k
<1>4. ASSUME NEW r \in DOMAIN request, AdmitsAttempt(r)
      PROVE  Within(Lately(Minute, d, action)', Attempting(d, action)', k)
  <2>1. PICK phase \in {"counted", "allowed"} : Admitted(r, phase)
    BY <1>4 DEF AdmitsAttempt
  <2>2. Lately(Minute, d, action)' = Lately(Minute, d, action)
    BY <2>1, AdmittedShrinks
  <2>3. CASE request[r].address = d /\ request[r].action = action
    <3>1. Lately(Minute, d, action) \subseteq Earlier(r, Minute)
      BY <2>3, LatelyIsEarlier, LimitsTyped
    <3>2. Cardinality(Earlier(r, Minute)) < LimitOf(action)
      BY <1>4, <2>3 DEF AdmitsAttempt, Limit, LimitOf
    <3>3. LimitOf(action) \in Nat
      BY LimitsTyped
    <3> QED
      BY <1>2, <2>2, <3>1, <3>2, <3>3, EarlierFinite, WithinAdmits DEF k
  <2>4. CASE request[r].address # d \/ request[r].action # action
    <3>1. Attempting(d, action)' \subseteq Attempting(d, action)
      BY <2>1, <2>4, AdmittedShrinks
    <3> QED
      BY <1>1, <2>2, <3>1, WithinShrinks
  <2> QED
    BY <2>3, <2>4
<1>5. ASSUME NEW r \in DOMAIN request, AdmitsFailure(r)
      PROVE  Within(Lately(Minute, d, action)', Attempting(d, action)', k)
  <2>1. request[r].phase # "asked" /\ Admitted(r, "allowed")
    BY <1>5 DEF AdmitsFailure
  <2>2. /\ Lately(Minute, d, action)' = Lately(Minute, d, action)
        /\ Attempting(d, action)' \subseteq Attempting(d, action)
    BY <2>1, AdmittedShrinks
  <2> QED
    BY <1>1, <2>2, WithinShrinks
<1>6. ASSUME NEW r \in DOMAIN request, Record(r)
      PROVE  Within(Lately(Minute, d, action)', Attempting(d, action)', k)
  <2>1. Attempting(d, action)' \subseteq Attempting(d, action) \ {r}
    BY <1>6, RecordMoves
  <2>2. CASE request[r].address = d /\ request[r].action = action
    <3>1. r \in Attempting(d, action)
      BY <1>6, <2>2 DEF Record, At, Attempting
    <3>2. Lately(Minute, d, action)' \subseteq
            Lately(Minute, d, action) \cup {Len(attempts) + 1}
      BY <1>6, <2>2, RecordMoves
    <3>3. Moved(Lately(Minute, d, action), Attempting(d, action),
                Lately(Minute, d, action)', Attempting(d, action)')
      BY <2>1, <3>1, <3>2 DEF Moved
    <3> QED
      BY <1>1, <3>3, WithinMoves
  <2>3. CASE request[r].address # d \/ request[r].action # action
    <3>1. Lately(Minute, d, action)' \subseteq Lately(Minute, d, action)
      BY <1>6, <2>3, RecordMoves
    <3> QED
      BY <1>1, <2>1, <3>1, WithinShrinks
  <2> QED
    BY <2>2, <2>3
<1> QED
  BY <1>3, <1>4, <1>5, <1>6, NextAttempts DEF k

LEMMA FailuresKept ==
    ASSUME TypeOK, TypeOK', FailuresInv, [Next]_vars
    PROVE  FailuresInv'
<1> SUFFICES ASSUME NEW d \in Addresses, NEW n \in Names
             PROVE  Within(Failed(d, n)', Trying(d, n)',
                           LockoutThreshold + Cardinality(Requests) - 1)
  BY DEF FailuresInv, Within
<1> DEFINE k == LockoutThreshold + Cardinality(Requests) - 1
<1>1. k \in Nat /\ Within(Failed(d, n), Trying(d, n), k)
  BY LimitsTyped DEF FailuresInv
<1>2. Trying(d, n)' \subseteq Requests
  BY DEF Trying, TypeOK, IsMapping
<1> HIDE DEF k
<1>3. CASE StepGoesOn
  <2>1. Failed(d, n)' \subseteq Failed(d, n) /\ Trying(d, n)' \subseteq Trying(d, n)
    BY <1>3, GoingOnShrinks
  <2> QED
    BY <1>1, <2>1, WithinShrinks DEF k
<1>4. ASSUME NEW r \in DOMAIN request, AdmitsAttempt(r)
      PROVE  Within(Failed(d, n)', Trying(d, n)', k)
  <2>1. PICK phase \in {"counted", "allowed"} :
          Admitted(r, phase) /\ (request[r].action = "login" => phase = "counted")
    BY <1>4 DEF AdmitsAttempt
  <2>2. Failed(d, n)' = Failed(d, n) /\ Trying(d, n)' \subseteq Trying(d, n)
    BY <2>1, AdmittedShrinks
  <2> QED
    BY <1>1, <2>2, WithinShrinks
<1>5. ASSUME NEW r \in DOMAIN request, AdmitsFailure(r)
      PROVE  Within(Failed(d, n)', Trying(d, n)', k)
  <2>1. Admitted(r, "allowed") /\ Cardinality(Failures(r)) < LockoutThreshold
    BY <1>5 DEF AdmitsFailure
  <2>2. Failed(d, n)' = Failed(d, n)
    BY <2>1, AdmittedShrinks
  <2>3. CASE request[r].address = d /\ request[r].name = n /\ request[r].action = "login"
    <3>1. Lately(LockoutTime, d, "login") \subseteq Earlier(r, LockoutTime)
      BY <2>3, LatelyIsEarlier, LimitsTyped
    <3>2. Failed(d, n) \subseteq Failures(r)
      BY <2>3, <3>1 DEF Failed, Failures
    <3>3. LockoutThreshold \in Nat
      BY LimitsTyped
    <3> QED
      BY <1>2, <2>1, <2>2, <3>2, <3>3, EarlierFinite, WithinAdmits DEF k
  <2>4. CASE request[r].address # d \/ request[r].name # n \/ request[r].action # "login"
    <3>1. Trying(d, n)' \subseteq Trying(d, n)
      BY <2>1, <2>4, AdmittedShrinks
    <3> QED
      BY <1>1, <2>2, <3>1, WithinShrinks
  <2> QED
    BY <2>3, <2>4
<1>6. ASSUME NEW r \in DOMAIN request, Record(r)
      PROVE  Within(Failed(d, n)', Trying(d, n)', k)
  <2>1. Trying(d, n)' \subseteq Trying(d, n) \ {r}
    BY <1>6, RecordMoves
  <2>2. CASE request[r].address = d /\ request[r].name = n /\ request[r].action = "login"
    <3>1. r \in Trying(d, n)
      BY <1>6, <2>2 DEF Record, At, Trying
    <3>2. Failed(d, n)' \subseteq Failed(d, n) \cup {Len(attempts) + 1}
      BY <1>6, <2>2, RecordMoves
    <3>3. Moved(Failed(d, n), Trying(d, n), Failed(d, n)', Trying(d, n)')
      BY <2>1, <3>1, <3>2 DEF Moved
    <3> QED
      BY <1>1, <3>3, WithinMoves
  <2>3. CASE request[r].address # d \/ request[r].name # n \/ request[r].action # "login"
    <3>1. Failed(d, n)' \subseteq Failed(d, n)
      BY <1>6, <2>3, RecordMoves
    <3> QED
      BY <1>1, <2>1, <3>1, WithinShrinks
  <2> QED
    BY <2>2, <2>3
<1> QED
  BY <1>3, <1>4, <1>5, <1>6, NextAttempts DEF k

LEMMA InitCounts == Init => AttemptsInv /\ FailuresInv
<1> SUFFICES ASSUME Init PROVE AttemptsInv /\ FailuresInv
  OBVIOUS
<1>1. attempts = <<>> /\ DOMAIN request = {}
  BY DEF Init, Empty
<1>2. ASSUME NEW limit \in Nat \ {0}
      PROVE  Within({}, {}, limit + Cardinality(Requests) - 1)
  BY FS_EmptySet, LimitsTyped DEF Within
<1>3. ASSUME NEW d, NEW action, NEW window
      PROVE  Lately(window, d, action) = {} /\ Attempting(d, action) = {}
  BY <1>1 DEF Lately, Attempting
<1>4. ASSUME NEW d, NEW n PROVE Failed(d, n) = {} /\ Trying(d, n) = {}
  BY <1>1, <1>3 DEF Failed, Trying
<1>5. AttemptsInv
  BY <1>2, <1>3, LimitsTyped DEF AttemptsInv
<1>6. FailuresInv
  BY <1>2, <1>4, LimitsTyped DEF FailuresInv
<1> QED
  BY <1>5, <1>6

\* What is within a bound together is within it alone.
LEMMA WithinBounds ==
    ASSUME NEW S, NEW W, NEW limit \in Nat \ {0},
           Within(S, W, limit + Cardinality(Requests) - 1)
    PROVE  Cardinality(S) < limit + Cardinality(Requests)
<1>1. Cardinality(S) \in Nat /\ Cardinality(W) \in Nat
  BY FS_CardinalityType DEF Within
<1> QED
  BY <1>1, LimitsTyped DEF Within

\* However many requests count at once before they are recorded, and nodes stop
\* between, a minute holds no more attempts than the limit and one for each other
\* request (auth_hardening.py:33-43, 64-76).
THEOREM AttemptsSafe == Spec => []AttemptsBounded
<1>1. AttemptsInv => AttemptsBounded
  BY WithinBounds, LimitsTyped DEF AttemptsInv, AttemptsBounded, LimitOf
<1>2. TypeOK /\ TypeOK' /\ AttemptsInv /\ [Next]_vars => AttemptsInv'
  BY AttemptsKept
<1> QED
  BY <1>1, <1>2, InitTypeOK, NextTypeOK, InitCounts, PTL DEF Spec

\* The same of the failures that lock a name out (auth_hardening.py:45-62)
THEOREM FailuresSafe == Spec => []FailuresBounded
<1>1. FailuresInv => FailuresBounded
  BY WithinBounds, LimitsTyped DEF FailuresInv, FailuresBounded, Failed
<1>2. TypeOK /\ TypeOK' /\ FailuresInv /\ [Next]_vars => FailuresInv'
  BY FailuresKept
<1> QED
  BY <1>1, <1>2, InitTypeOK, NextTypeOK, InitCounts, PTL DEF Spec

---------------------------------------------------------------------------
(* Registrations *)

\* The registrations of a name that are recorded as successes, and those that are
\* still to be
Registered(n) ==
    {i \in DOMAIN attempts : /\ attempts[i].action = "register"
                             /\ attempts[i].name = n /\ attempts[i].success}
Succeeding(n) ==
    {r \in DOMAIN request : /\ request[r].action = "register"
                            /\ request[r].name = n /\ At(r, "succeeded")}

\* Only for a name that has an account is there a success, and then but one.
RegistrationsInv ==
    \A n \in Names :
        /\ n \notin DOMAIN users => Registered(n) = {} /\ Succeeding(n) = {}
        /\ Within(Registered(n), Succeeding(n), 1)

EmailsApart ==
    \A n, m \in DOMAIN users :
        users[n].email = users[m].email => n = m \/ users[n].email = NoEmail

LEMMA CreateUserApart ==
    ASSUME UsersTyped, EmailsApart, NEW r, CreateUser(r)
    PROVE  EmailsApart' /\ DOMAIN users' = DOMAIN users \cup {request[r].name}
<1> DEFINE new == Account("user", request[r].email)
<1>1. /\ users' = Put(users, request[r].name, new)
      /\ request[r].name \notin DOMAIN users /\ request[r].email \notin TakenEmails
  BY DEF CreateUser
<1>2. new.email = request[r].email
  BY DEF Account
<1> HIDE DEF new
<1>3. /\ DOMAIN users' = DOMAIN users \cup {request[r].name}
      /\ users'[request[r].name] = new
      /\ \A n \in DOMAIN users : users'[n] = users[n]
  BY <1>1 DEF Put
<1>4. \A n \in DOMAIN users : users[n].email # request[r].email \/ request[r].email = NoEmail
  BY <1>1 DEF TakenEmails
<1> QED
  BY <1>2, <1>3, <1>4 DEF EmailsApart

LEMMA CreateAdminApart ==
    ASSUME UsersTyped, EmailsApart, NEW n, CreateAdmin(n)
    PROVE  EmailsApart' /\ DOMAIN users \subseteq DOMAIN users'
<1> DEFINE new == Account("admin", NoEmail)
<1>1. users' = Put(users, Administrator, new) /\ Administrator \notin DOMAIN users
  BY DEF CreateAdmin
<1>2. new.email = NoEmail
  BY DEF Account
<1> HIDE DEF new
<1>3. /\ DOMAIN users' = DOMAIN users \cup {Administrator} /\ users'[Administrator] = new
      /\ \A m \in DOMAIN users : users'[m] = users[m]
  BY <1>1 DEF Put
<1> QED
  BY <1>2, <1>3 DEF EmailsApart

LEMMA FindAdminApart ==
    ASSUME UsersTyped, EmailsApart, NEW n, FindAdmin(n)
    PROVE  EmailsApart' /\ DOMAIN users' = DOMAIN users
<1>1. CASE users' = users
  BY <1>1 DEF EmailsApart
<1>2. CASE /\ Administrator \in DOMAIN users
           /\ users' = [users EXCEPT ![Administrator].role = "admin"]
  <2>1. [users[Administrator] EXCEPT !.role = "admin"].email = users[Administrator].email
    BY <1>2 DEF UsersTyped, Account
  <2>2. DOMAIN users' = DOMAIN users /\ \A m \in DOMAIN users : users'[m].email = users[m].email
    BY <1>2, <2>1
  <2> QED
    BY <2>2 DEF EmailsApart
<1> QED
  BY <1>1, <1>2 DEF FindAdmin

\* No request has become a success that was none.
NoneSucceeds ==
    \A r \in DOMAIN request' :
        request'[r].action = "register" /\ request'[r].phase = "succeeded"
        => r \in DOMAIN request /\ request'[r] = request[r]

LEMMA MoveSucceeds ==
    ASSUME TypeOK, NEW r \in DOMAIN request, NEW phase \in Phases, Move(r, phase),
           phase # "succeeded" \/ request[r].action = "login"
    PROVE  NoneSucceeds
<1>1. request[r] \in RequestStates
  BY RequestTyped
<1>2. /\ DOMAIN request' = DOMAIN request
      /\ request'[r] = MovedTo(request[r], phase)
      /\ \A s \in DOMAIN request \ {r} : request'[s] = request[s]
  BY DEF Move, MovedTo
<1> QED
  BY <1>1, <1>2, MovedTyped DEF NoneSucceeds

LEMMA DropSucceeds == ASSUME NEW r, request' = Drop(request, r) PROVE NoneSucceeds
BY DEF NoneSucceeds, Drop, Restrict

\* What a step is to registrations: nothing, a new account, or an attempt recorded
RegistrationStep ==
    \/ attempts' = attempts /\ NoneSucceeds
    \/ \E r \in DOMAIN request : CreateUser(r) \/ Record(r)

LEMMA NextRegistrations ==
    ASSUME TypeOK, UsersTyped, EmailsApart, [Next]_vars
    PROVE  RegistrationStep /\ EmailsApart' /\ DOMAIN users \subseteq DOMAIN users'
<1>0. users' = users => EmailsApart' /\ DOMAIN users \subseteq DOMAIN users'
  BY DEF EmailsApart
<1>1. CASE UNCHANGED vars \/ Tick
  BY <1>0, <1>1 DEF vars, Tick, RegistrationStep, NoneSucceeds
<1>2. ASSUME NEW n \in Nodes, FindAdmin(n) \/ CreateAdmin(n)
      PROVE  RegistrationStep /\ EmailsApart' /\ DOMAIN users \subseteq DOMAIN users'
  <2>1. attempts' = attempts /\ request' = request
    BY <1>2 DEF FindAdmin, CreateAdmin
  <2> QED
    BY <1>2, <2>1, FindAdminApart, CreateAdminApart DEF RegistrationStep, NoneSucceeds
<1>3. ASSUME NEW n \in Nodes, StopNode(n) PROVE RegistrationStep /\ users' = users
  BY <1>3 DEF StopNode, Restrict, RegistrationStep, NoneSucceeds
<1>4. ASSUME NEW r \in Requests, NEW n \in Nodes, NEW a \in Addresses, NEW name \in Names,
             NEW action \in {"login", "register"}, Ask(r, n, a, name, action)
      PROVE  RegistrationStep /\ users' = users
  BY <1>4 DEF Ask, Put, RegistrationStep, NoneSucceeds
<1>5. ASSUME NEW r \in Requests, CountAttempts(r) \/ CountFailures(r)
      PROVE  RegistrationStep /\ users' = users
  <2>1. r \in DOMAIN request /\ users' = users /\ attempts' = attempts
    BY <1>5 DEF CountAttempts, CountFailures, TurnAway, At
  <2>2. TurnAway(r) \/ \E phase \in Phases \ {"succeeded"} : Move(r, phase)
    BY <1>5 DEF CountAttempts, CountFailures, Phases
  <2> QED
    BY <2>1, <2>2, DropSucceeds, MoveSucceeds DEF TurnAway, RegistrationStep
<1>6. ASSUME NEW r \in Requests, NEW match, Login(r, match)
      PROVE  RegistrationStep /\ users' = users
  <2>1. PICK phase \in Phases : Move(r, phase)
    BY <1>6 DEF Login, Decide, Phases
  <2>2. /\ r \in DOMAIN request /\ request[r].action = "login"
        /\ users' = users /\ attempts' = attempts
    BY <1>6 DEF Login, At
  <2> QED
    BY <2>1, <2>2, MoveSucceeds DEF RegistrationStep
<1>7. ASSUME NEW r \in Requests, NEW email \in Emails \cup {NoEmail}, NEW ok,
             Register(r, email, ok)
      PROVE  RegistrationStep /\ users' = users
  <2>1. r \in DOMAIN request /\ users' = users /\ attempts' = attempts
    BY <1>7 DEF Register, At
  <2>2. CASE request' = [request EXCEPT ![r].phase = "creating", ![r].email = email]
    <3>1. request' = [request EXCEPT ![r] = CreatingWith(request[r], email)]
      BY <2>2 DEF CreatingWith
    <3>2. CreatingWith(request[r], email).phase = "creating"
      BY <2>1, RequestTyped, CreatingTyped
    <3>3. NoneSucceeds
      BY <2>1, <3>1, <3>2 DEF NoneSucceeds
    <3> QED
      BY <2>1, <3>3 DEF RegistrationStep
  <2>3. CASE Move(r, "failed")
    BY <2>1, <2>3, MoveSucceeds DEF Phases, RegistrationStep
  <2> QED
    BY <1>7, <2>2, <2>3 DEF Register
<1>8. ASSUME NEW r \in Requests, CreateUser(r)
      PROVE  RegistrationStep /\ EmailsApart' /\ DOMAIN users \subseteq DOMAIN users'
  <2>1. r \in DOMAIN request
    BY <1>8 DEF CreateUser, At
  <2> QED
    BY <1>8, <2>1, CreateUserApart DEF RegistrationStep
<1>9. ASSUME NEW r \in Requests, Record(r) PROVE RegistrationStep /\ users' = users
  BY <1>9 DEF Record, At, RegistrationStep
<1>10. ASSUME NEW r \in Requests, Fail(r) PROVE RegistrationStep /\ users' = users
  BY <1>10, DropSucceeds DEF Fail, RegistrationStep
<1> QED
  BY <1>0, <1>1, <1>2, <1>3, <1>4, <1>5, <1>6, <1>7, <1>8, <1>9, <1>10 DEF Next

LEMMA RegistrationsKept ==
    ASSUME TypeOK, UsersTyped, EmailsApart, RegistrationsInv, [Next]_vars
    PROVE  RegistrationsInv'
<1> SUFFICES ASSUME NEW n \in Names
             PROVE  /\ n \notin DOMAIN users' => Registered(n)' = {} /\ Succeeding(n)' = {}
                    /\ Within(Registered(n)', Succeeding(n)', 1)
  BY DEF RegistrationsInv, Within
<1>1. /\ n \notin DOMAIN users => Registered(n) = {} /\ Succeeding(n) = {}
      /\ Within(Registered(n), Succeeding(n), 1)
  BY DEF RegistrationsInv
<1>2. RegistrationStep /\ DOMAIN users \subseteq DOMAIN users'
  BY NextRegistrations
<1>3. CASE Registered(n)' \subseteq Registered(n) /\ Succeeding(n)' \subseteq Succeeding(n)
  <2>1. Within(Registered(n)', Succeeding(n)', 1)
    BY <1>1, <1>3, WithinShrinks
  <2> QED
    BY <1>1, <1>2, <1>3, <2>1
<1>4. CASE attempts' = attempts /\ NoneSucceeds
  BY <1>3, <1>4 DEF NoneSucceeds, Registered, Succeeding, At
<1>5. ASSUME NEW r \in DOMAIN request, CreateUser(r)
      PROVE  /\ n \notin DOMAIN users' => Registered(n)' = {} /\ Succeeding(n)' = {}
             /\ Within(Registered(n)', Succeeding(n)', 1)
  <2>1. /\ attempts' = attempts
        /\ request' = [request EXCEPT ![r] = MovedTo(request[r], "succeeded")]
        /\ request[r].name \notin DOMAIN users
    BY <1>5 DEF CreateUser, Decide, Move, MovedTo
  <2>2. MovedTo(request[r], "succeeded").name = request[r].name
    BY RequestTyped, MovedTyped DEF Phases
  <2>3. Registered(n)' = Registered(n)
    BY <2>1 DEF Registered
  <2>4. Succeeding(n)' \subseteq Succeeding(n) \cup {r}
    BY <2>1 DEF Succeeding, At
  <2>5. request[r].name # n => Succeeding(n)' \subseteq Succeeding(n)
    BY <2>1, <2>2 DEF Succeeding, At
  <2>6. CASE request[r].name # n
    BY <1>3, <2>3, <2>5, <2>6
  <2>7. CASE request[r].name = n
    <3>1. Registered(n)' = {} /\ Succeeding(n)' \subseteq {r}
      BY <1>1, <2>1, <2>3, <2>4, <2>7
    <3>2. Within({}, {r}, 1)
      <4>1. IsFiniteSet({}) /\ Cardinality({}) = 0
        BY FS_EmptySet
      <4>2. IsFiniteSet({r}) /\ Cardinality({r}) = 1
        BY FS_Singleton
      <4> QED
        BY <4>1, <4>2 DEF Within
    <3>3. Within(Registered(n)', Succeeding(n)', 1)
      BY <3>1, <3>2, WithinShrinks
    <3>4. n \in DOMAIN users'
      BY <1>5, <2>7, CreateUserApart
    <3> QED
      BY <3>3, <3>4
  <2> QED
    BY <2>6, <2>7
<1>6. ASSUME NEW r \in DOMAIN request, Record(r)
      PROVE  /\ n \notin DOMAIN users' => Registered(n)' = {} /\ Succeeding(n)' = {}
             /\ Within(Registered(n)', Succeeding(n)', 1)
  <2> DEFINE attempt == [address |-> request[r].address, name |-> request[r].name,
                         action |-> request[r].action, success |-> At(r, "succeeded"),
                         at |-> now]
  <2>1. /\ attempts' = Append(attempts, attempt) /\ attempts \in Seq(Attempts)
        /\ users' = users /\ request' = Drop(request, r)
    BY <1>6 DEF Record, TypeOK
  <2>2. /\ DOMAIN attempts' = 1..(Len(attempts) + 1) /\ DOMAIN attempts = 1..Len(attempts)
        /\ Len(attempts) \in Nat
        /\ \A i \in DOMAIN attempts : attempts'[i] = attempts[i]
        /\ attempts'[Len(attempts) + 1] = attempt
    BY <2>1
  <2>3. \A i \in DOMAIN attempts' : i \in DOMAIN attempts \/ i = Len(attempts) + 1
    BY <2>2
  <2>4. /\ attempt.name = request[r].name /\ attempt.action = request[r].action
        /\ attempt.success <=> At(r, "succeeded")
    OBVIOUS
  <2> HIDE DEF attempt
  <2>5. Registered(n)' \subseteq Registered(n) \cup {Len(attempts) + 1}
    BY <2>2, <2>3 DEF Registered
  <2>6. Succeeding(n)' \subseteq Succeeding(n) \ {r}
    BY <2>1 DEF Succeeding, At, Drop, Restrict
  <2>7. CASE r \in Succeeding(n)
    <3>1. Moved(Registered(n), Succeeding(n), Registered(n)', Succeeding(n)')
      BY <2>5, <2>6, <2>7 DEF Moved
    <3>2. Within(Registered(n)', Succeeding(n)', 1)
      BY <1>1, <3>1, WithinMoves
    <3> QED
      BY <1>1, <2>1, <2>7, <3>2
  <2>8. CASE r \notin Succeeding(n)
    <3>1. Len(attempts) + 1 \notin Registered(n)'
      BY <2>2, <2>4, <2>8 DEF Registered, Succeeding
    <3> QED
      BY <1>3, <2>5, <2>6, <3>1
  <2> QED
    BY <2>7, <2>8
<1> QED
  BY <1>2, <1>4, <1>5, <1>6 DEF RegistrationStep

LEMMA InitRegistrations == Init => RegistrationsInv /\ EmailsApart
<1> SUFFICES ASSUME Init PROVE RegistrationsInv /\ EmailsApart
  OBVIOUS
<1>1. \A n : Registered(n) = {} /\ Succeeding(n) = {}
  BY DEF Init, Empty, Registered, Succeeding
<1>2. Within({}, {}, 1)
  BY FS_EmptySet DEF Within
<1>3. EmailsApart
  BY DEF Init, Empty, Put, EmailsApart
<1> QED
  BY <1>1, <1>2, <1>3 DEF RegistrationsInv

\* Of registrations that overlap on a name one succeeds, and no two accounts have an
\* e-mail address in common (routers/auth.py:49-65): whether nodes stop between the
\* account and its attempt, or the administrator's is made meanwhile, or not.
THEOREM RegistrationSafe == Spec => []RegisteredOnce
<1> DEFINE Inv == TypeOK /\ IInv /\ RegistrationsInv /\ EmailsApart
<1>1. Init => Inv
  BY InitTypeOK, InitIInv, InitRegistrations
<1>2. Inv /\ [Next]_vars => Inv'
  BY NextTypeOK, NextIInv, NextRegistrations, RegistrationsKept DEF IInv
<1>3. Inv => RegisteredOnce
  <2> SUFFICES ASSUME RegistrationsInv, EmailsApart, NEW n \in Names
               PROVE  Cardinality(Registered(n) \cup Succeeding(n)) <= 1
    BY DEF RegisteredOnce, EmailsApart, Registered, Succeeding
  <2>1. Within(Registered(n), Succeeding(n), 1)
    BY DEF RegistrationsInv
  <2>2. /\ Cardinality(Registered(n)) \in Nat /\ Cardinality(Succeeding(n)) \in Nat
        /\ Cardinality(Registered(n) \cap Succeeding(n)) \in Nat
        /\ IsFiniteSet(Registered(n)) /\ IsFiniteSet(Succeeding(n))
    BY <2>1, FS_CardinalityType, FS_Intersection DEF Within
  <2>3. Cardinality(Registered(n) \cup Succeeding(n)) =
          Cardinality(Registered(n)) + Cardinality(Succeeding(n))
            - Cardinality(Registered(n) \cap Succeeding(n))
    BY <2>2, FS_Union
  <2> QED
    BY <2>1, <2>2, <2>3 DEF Within
<1> QED
  BY <1>1, <1>2, <1>3, PTL DEF Spec

============================================================================
