-------------------------- MODULE ConsoleSession --------------------------
(***************************************************************************)
(* The session of one browser tab of the web console (frontend/app.js):    *)
(* the token, the user it is taken to belong to, the login gate and whose  *)
(* data each panel shows.                                                  *)
(*                                                                         *)
(* Every handler is a chain of requests. A request carries the token of    *)
(* the moment at which it is sent; its answer is written to the page when  *)
(* it arrives, whatever has happened to the session in between, and the    *)
(* handler goes on at once to the next request it may send. Handlers       *)
(* overlap freely: nothing cancels a request.                              *)
(*                                                                         *)
(* A token stands for its user. The server may refuse any request (the     *)
(* token has expired, the account is switched off) or not answer it.       *)
(***************************************************************************)
EXTENDS Integers, Sequences, Mappings

CONSTANTS
    Users, Admins,
    Panels,      \* the panels kept by this instance
    Handlers,    \* slots for handlers in progress
    MaxClicks    \* bound on what the user does

NoOne == "none"
OwnPanels == {"config", "keys", "models", "clientKeys", "myLogs"}
AdminPanels == {"admin", "adminLogs", "proxies"}
\* "config" is state.config and the texts made of it, "settings" the form that
\* refreshConfig fills in.
AllPanels == OwnPanels \cup AdminPanels \cup {"newKey", "settings"}

ASSUME ConsoleAssumption ==
    /\ Admins \subseteq Users
    /\ NoOne \notin Users
    /\ Panels \subseteq AllPanels
    /\ MaxClicks \in Nat

VARIABLES
    token,    \* state.token and its copy in localStorage
    user,     \* state.user
    gate,     \* the login screen covers the page
    shown,    \* panel -> the user whose data it shows
    handler,  \* handler -> the requests still to be made, the first one sent
    clicks,   \* what the user has done so far
    mixed,    \* history: an answer has outlived its session, or a login replaced one
    late      \* history: the panels that such an answer or login has left as they are

vars == <<token, user, gate, shown, handler, clicks, mixed, late>>

Blank == [p \in Panels |-> NoOne]

Chain ==
    <<"me", "config", "keys", "admin", "models", "clientKeys", "myLogs", "adminLogs", "proxies">>

Steps == AllPanels \cup {"me", "start", "login", "create", "change"}

---------------------------------------------------------------------------
(* Going on with a chain *)

\* Faulty: nobody's role is looked at.
MaySendAny(step, t, u) ==
    /\ step \in AllPanels => step \in Panels
    /\ step \in OwnPanels \cup AdminPanels \cup {"me"} => t # NoOne

\* The refresh functions return early without a token or, for an
\* administrator's panels, without an administrator. Panels that the instance
\* does not keep are passed over.
MaySend(step, t, u) ==
    /\ step \in AllPanels => step \in Panels
    /\ step \in AdminPanels => u \in Admins
    /\ step \in OwnPanels \cup {"me"} => t # NoOne

\* Panels emptied by a refresh that returns early, and by one that is refused.
EmptiedEarly == {"config", "keys", "admin", "models", "clientKeys"}
EmptiedOnError == EmptiedEarly \cup {"proxies", "newKey"}

\* What a refresh without a token empties: client keys and the new key at once.
EmptiedBy(steps) ==
    (steps \cap EmptiedEarly)
      \cup (IF "clientKeys" \in steps THEN {"newKey"} ELSE {})

Emptied(page, ps) == [p \in Panels |-> IF p \in ps THEN NoOne ELSE page[p]]

\* Faulty: a handler that has nothing left to send stays in progress.
GoOnIdle(h, todo, t, u, page) ==
    LET sendable == {i \in DOMAIN todo : MaySend(todo[i], t, u)}
        n == CHOOSE i \in sendable \cup {Len(todo) + 1} : \A j \in sendable : i <= j
    IN  /\ handler' = Put(handler, h, [todo |-> SubSeq(todo, n, Len(todo)), token |-> t])
        /\ shown' = Emptied(page, EmptiedBy({todo[i] : i \in 1 .. n - 1} \cap Panels))

\* Handler h has still to make the requests todo, with token t and user u set.
\* Refreshes that return early do so at once; the first that does not is sent.
GoOn(h, todo, t, u, page) ==
    LET sendable == {i \in DOMAIN todo : MaySend(todo[i], t, u)}
        early(n) == {todo[i] : i \in 1 .. n - 1} \cap Panels
    IN  IF sendable = {}
        THEN /\ handler' = Drop(handler, h)
             /\ shown' = Emptied(page, EmptiedBy(early(Len(todo) + 1)))
        ELSE \E n \in sendable :
               /\ \A i \in sendable : n <= i
               /\ handler' = Put(handler, h, [todo |-> SubSeq(todo, n, Len(todo)),
                                              token |-> t])
               /\ shown' = Emptied(page, EmptiedBy(early(n))
                             \cup (IF todo[n] = "proxies" THEN {"proxies"} ELSE {}))

---------------------------------------------------------------------------
(* What the user does *)

Click == clicks < MaxClicks /\ clicks' = clicks + 1

Init ==
    /\ token = NoOne
    /\ user = NoOne
    /\ gate = TRUE
    /\ shown = Blank
    /\ handler = Empty
    /\ clicks = 0
    /\ mixed = FALSE
    /\ late = {}

\* Faulty: the panels are read without asking whose token it is.
ReloadUnasked ==
    /\ Click
    /\ user' = NoOne
    /\ gate' = (token = NoOne)
    /\ shown' = Blank
    /\ \E h \in Handlers :
         handler' = IF token = NoOne THEN Empty
                    ELSE Put(Empty, h, [todo |-> Tail(Chain), token |-> token])
    /\ mixed' = FALSE
    /\ late' = {}
    /\ UNCHANGED token

\* The page is loaded: everything but the token in localStorage is new. Without
\* a token refreshMe shows the gate at once.
Reload ==
    /\ Click
    /\ user' = NoOne
    /\ gate' = (token = NoOne)
    /\ shown' = Blank
    /\ \E h \in Handlers :
         handler' = IF token = NoOne THEN Empty
                    ELSE Put(Empty, h, [todo |-> <<"start">> \o Tail(Chain), token |-> token])
    /\ mixed' = FALSE
    /\ late' = {}
    /\ UNCHANGED token

\* The form is at hand also while someone is logged in. The request is answered
\* with a token of the account named in the form.
SubmitLogin(h, u) ==
    /\ Click
    /\ h \notin DOMAIN handler
    /\ handler' = Put(handler, h, [todo |-> <<"login">> \o Chain, token |-> u])
    /\ UNCHANGED <<token, user, gate, shown, mixed, late>>

\* Faulty: the new client key stays on the page.
ClearedPanelsOnly(page) == Emptied(page, Panels \ {"newKey", "settings"})

\* clearSensitiveUiState. What refreshConfig has filled in stays.
Cleared(page) == Emptied(page, Panels \ {"settings"})

Logout ==
    /\ Click
    /\ ~gate
    /\ token' = NoOne
    /\ user' = NoOne
    /\ gate' = TRUE
    /\ shown' = Cleared(shown)
    /\ late' = {}
    /\ UNCHANGED <<handler, mixed>>

\* refreshMe clears the page itself when there is no token.
Refresh(h) ==
    /\ Click
    /\ ~gate
    /\ h \notin DOMAIN handler
    /\ IF token = NoOne
       THEN user' = NoOne /\ gate' = TRUE /\ GoOn(h, Tail(Chain), NoOne, NoOne, Cleared(shown))
       ELSE UNCHANGED <<user, gate>> /\ GoOn(h, Chain, token, user, shown)
    /\ UNCHANGED <<token, mixed, late>>

CreateClientKey(h) ==
    /\ Click
    /\ ~gate
    /\ h \notin DOMAIN handler
    /\ IF token = NoOne
       THEN gate' = TRUE /\ UNCHANGED <<shown, handler>>
       ELSE /\ GoOn(h, <<"create", "clientKeys">>, token, user,
                    Emptied(shown, {"newKey"}))
            /\ UNCHANGED gate
    /\ UNCHANGED <<token, user, mixed, late>>

\* Everything else that changes something on the server and reads it again: an
\* upload (keys), a toggle (clientKeys, admin), a setting (config), the proxies.
Changes == {<<"keys">>, <<"clientKeys">>, <<"admin">>, <<"config">>, <<"config", "proxies">>}

Change(h, panels) ==
    /\ Click
    /\ ~gate
    /\ h \notin DOMAIN handler
    /\ GoOn(h, <<"change">> \o panels, token, user, shown)
    /\ UNCHANGED <<token, user, gate, mixed, late>>

\* The panels with a button of their own, or a tab, that reads them again
Reread(h, panel) ==
    /\ Click
    /\ ~gate
    /\ h \notin DOMAIN handler
    /\ GoOn(h, <<panel>>, token, user, shown)
    /\ UNCHANGED <<token, user, gate, mixed, late>>

---------------------------------------------------------------------------
(* Answers *)

Step(h) == Head(handler[h].todo)
Rest(h) == Tail(handler[h].todo)

\* Whether the server can grant the request at all
Grantable(h) ==
    /\ handler[h].token # NoOne
    /\ Step(h) \in AdminPanels \cup {"config"} => handler[h].token \in Admins

\* The new client key is shown by the request that creates it.
Writes(h) ==
    {IF Step(h) = "create" THEN "newKey" ELSE Step(h)}
      \cup (IF Step(h) = "config" THEN {"settings"} ELSE {})

\* refreshMe: on its own or as the first step of a page that is loaded, which
\* goes no further without a token.
AsksMe(h) == Step(h) \in {"me", "start"}

After(h, t) == IF Step(h) = "start" /\ t = NoOne THEN <<>> ELSE Rest(h)

\* The token under which the page expects this answer
Expected(h) == {handler[h].token} \cup (IF Step(h) = "login" THEN {NoOne} ELSE {})

\* The panels left by answers that outlived their session, after one more answer.
LateBy(h) ==
    LET owner == handler[h].token
    IN  IF Step(h) = "login" THEN {p \in Panels : shown[p] \notin {NoOne, owner}}
        ELSE IF token = owner THEN late \ Writes(h)
        ELSE late \cup (Writes(h) \cap Panels)

Answered(h) ==
    /\ h \in DOMAIN handler
    /\ Grantable(h)
    /\ LET owner == handler[h].token
           page == [p \in Panels |-> IF p \in Writes(h) THEN owner ELSE shown[p]]
           t == IF Step(h) = "login" THEN owner ELSE token
           u == IF AsksMe(h) THEN owner ELSE user
       IN  /\ token' = t
           /\ user' = u
           /\ gate' = (gate /\ Step(h) # "login" /\ ~AsksMe(h))
           /\ GoOn(h, After(h, t), t, u, page)
           /\ late' = LateBy(h)
    /\ mixed' = (mixed \/ token \notin Expected(h))
    /\ UNCHANGED clicks

\* Faulty: the user of the session is forgotten and its token kept.
MeRefusedKeeps(h) ==
    /\ h \in DOMAIN handler
    /\ AsksMe(h)
    /\ user' = NoOne
    /\ gate' = TRUE
    /\ GoOn(h, After(h, NoOne), NoOne, NoOne, Cleared(shown))
    /\ late' = {}
    /\ UNCHANGED <<token, clicks, mixed>>

\* Whatever the reason, refreshMe ends the session, which need not be the one
\* that the request belonged to.
MeRefused(h) ==
    /\ h \in DOMAIN handler
    /\ AsksMe(h)
    /\ token' = NoOne
    /\ user' = NoOne
    /\ gate' = TRUE
    /\ GoOn(h, After(h, NoOne), NoOne, NoOne, Cleared(shown))
    /\ late' = {}
    /\ UNCHANGED <<clicks, mixed>>

\* A refresh that fails goes on with the next one; a login, a creation and a
\* change do not.
Refused(h) ==
    /\ h \in DOMAIN handler
    /\ ~AsksMe(h)
    /\ LET page == Emptied(shown, Writes(h) \cap EmptiedOnError)
       IN  GoOn(h, IF Step(h) \in {"login", "create", "change"} THEN <<>> ELSE Rest(h),
                token, user, page)
    /\ UNCHANGED <<token, user, gate, clicks, mixed, late>>

---------------------------------------------------------------------------
Next ==
    \/ Reload
    \/ Logout
    \/ \E h \in Handlers :
         \/ \E u \in Users : SubmitLogin(h, u)
         \/ Refresh(h)
         \/ CreateClientKey(h)
         \/ \E panels \in Changes : Change(h, panels)
         \/ \E p \in {"models", "myLogs", "adminLogs", "proxies"} : Reread(h, p)
         \/ Answered(h)
         \/ MeRefused(h)
         \/ Refused(h)

Spec == Init /\ [][Next]_vars

---------------------------------------------------------------------------
(* Properties *)

Anyone == Users \cup {NoOne}

TypeOK ==
    /\ token \in Anyone
    /\ user \in Anyone
    /\ gate \in BOOLEAN
    /\ shown \in [Panels -> Anyone]
    /\ DOMAIN handler \subseteq Handlers
    /\ \A h \in DOMAIN handler :
         /\ handler[h].token \in Anyone
         /\ handler[h].todo \in Seq(Steps) \ {<<>>}
    /\ clicks \in 0..MaxClicks
    /\ mixed \in BOOLEAN
    /\ late \subseteq Panels

\* Every panel shows data of the user whose token the page has, and after a logout
\* nothing, however refreshes, creations, failures, logins and logouts overlap, unless
\* its last answer had outlived its session or a login has since replaced the session.
\* Not so the form of the settings, which a logout leaves as it was filled in.
PanelsOfTheSession ==
    \A p \in Panels \ ({"settings"} \cup late) : shown[p] \in {NoOne, token}

\* As long as no answer has outlived its session and no login has replaced one, the
\* page is covered exactly while nobody is logged in: no order of answers covers a
\* session or uncovers the page without one.
GateFollowsToken == ~mixed => (gate <=> token = NoOne)

\* Under the same condition an administrator's panels are asked for with an
\* administrator's token only.
AdminPanelsAskedByAdmins ==
    ~mixed => \A h \in DOMAIN handler :
                 Step(h) \in AdminPanels => handler[h].token \in Admins

\* A page with a token and no user is about to learn the user or to drop the
\* token: no logout, reload or refused answer leaves it in between for good.
UnknownUserIsAsked ==
    token # NoOne /\ user = NoOne => \E h \in DOMAIN handler : AsksMe(h)

===========================================================================
