----------------------- MODULE ConsoleSession_proof -----------------------
(***************************************************************************)
(* Theorems about the session of a tab of the console, for any users and   *)
(* administrators, any panels and any number of handlers at a time.        *)
(***************************************************************************)
EXTENDS ConsoleSession, SequenceTheorems, TLAPS

---------------------------------------------------------------------------
(* Chains of requests *)

Todos == Seq(Steps)

\* A chain that logs nobody in
NoLogin(todo) == \A i \in 1..Len(todo) : todo[i] # "login"

LEMMA ChainTyped ==
    /\ Chain \in Todos /\ Chain # <<>> /\ Len(Chain) = 9
    /\ Chain[1] = "me" /\ NoLogin(Chain)
<1>1. Chain \in Todos
  BY DEF Chain, Todos, Steps, AllPanels, OwnPanels, AdminPanels
<1>2. Chain # <<>> /\ Len(Chain) = 9 /\ Chain[1] = "me"
  BY DEF Chain
<1>3. ASSUME NEW i \in 1..9 PROVE Chain[i] # "login"
  <2>1. i \in {1, 2, 3, 4, 5, 6, 7, 8, 9}
    OBVIOUS
  <2> QED
    BY <2>1 DEF Chain
<1> QED
  BY <1>1, <1>2, <1>3 DEF NoLogin

LEMMA TailTyped ==
    ASSUME NEW todo \in Todos, todo # <<>>
    PROVE  /\ Head(todo) \in Steps /\ Head(todo) = todo[1] /\ Len(todo) >= 1
           /\ Tail(todo) \in Todos /\ Len(Tail(todo)) = Len(todo) - 1
           /\ \A i \in 1..Len(Tail(todo)) : Tail(todo)[i] = todo[i + 1]
BY HeadTailProperties DEF Todos

LEMMA TailNoLogin ==
    ASSUME NEW todo \in Todos, todo # <<>>, NoLogin(todo)
    PROVE  NoLogin(Tail(todo)) /\ Head(todo) # "login"
<1>1. Len(todo) \in Nat /\ Len(todo) >= 1
  BY TailTyped DEF Todos
<1> QED
  BY <1>1, TailTyped DEF NoLogin

\* A request put in front of a chain
LEMMA LedTyped ==
    ASSUME NEW step \in Steps, NEW todo \in Todos
    PROVE  LET led == <<step>> \o todo
           IN  /\ led \in Todos /\ led # <<>>
               /\ Head(led) = step /\ Tail(led) = todo
<1> DEFINE led == <<step>> \o todo
<1>1. <<step>> \in Todos /\ Len(<<step>>) = 1 /\ <<step>>[1] = step
  BY DEF Todos
<1>2. /\ led \in Todos /\ Len(led) = 1 + Len(todo)
      /\ \A i \in 1 .. 1 + Len(todo) :
           led[i] = IF i <= 1 THEN <<step>>[i] ELSE todo[i - 1]
  BY <1>1, ConcatProperties DEF Todos
<1>3. Len(todo) \in Nat
  BY DEF Todos
<1> HIDE DEF led
<1>4. led # <<>> /\ led[1] = step
  BY <1>1, <1>2, <1>3 DEF Todos
<1>5. /\ Head(led) = step /\ Tail(led) \in Todos /\ Len(Tail(led)) = Len(todo)
      /\ \A i \in 1..Len(todo) : Tail(led)[i] = led[i + 1]
  BY <1>2, <1>3, <1>4, TailTyped
<1>6. \A i \in 1..Len(todo) : led[i + 1] = todo[i]
  BY <1>2, <1>3
<1>7. Tail(led) = todo
  BY <1>5, <1>6, SeqEqual DEF Todos
<1> QED
  BY <1>2, <1>4, <1>5, <1>7 DEF led

LEMMA SubTyped ==
    ASSUME NEW todo \in Todos, NEW n \in DOMAIN todo
    PROVE  LET left == SubSeq(todo, n, Len(todo))
           IN  /\ left \in Todos /\ left # <<>> /\ Head(left) = todo[n]
               /\ NoLogin(todo) => NoLogin(left)
<1> DEFINE left == SubSeq(todo, n, Len(todo))
<1>1. Len(todo) \in Nat /\ n \in 1..Len(todo)
  BY DEF Todos
<1>2. /\ left \in Todos /\ Len(left) = Len(todo) - n + 1
      /\ \A i \in 1 .. Len(todo) - n + 1 : left[i] = todo[n + i - 1]
  BY <1>1, SubSeqProperties DEF Todos
<1> HIDE DEF left
<1>3. left # <<>>
  BY <1>1, <1>2
<1>4. Head(left) = todo[n]
  BY <1>1, <1>2, <1>3, TailTyped
<1>5. NoLogin(todo) => NoLogin(left)
  BY <1>1, <1>2 DEF NoLogin
<1> QED
  BY <1>2, <1>3, <1>4, <1>5 DEF left

---------------------------------------------------------------------------
(* What a handler does when it goes on *)

\* The handlers but h are as they were.
OthersKept(h) ==
    \A g : g # h => /\ g \in DOMAIN handler' <=> g \in DOMAIN handler
                    /\ g \in DOMAIN handler => handler'[g] = handler[g]

LEMMA PutKeeps ==
    ASSUME NEW h, NEW r, handler' = Put(handler, h, r)
    PROVE  /\ OthersKept(h) /\ handler'[h] = r
           /\ DOMAIN handler' = DOMAIN handler \cup {h}
BY DEF Put, OthersKept

LEMMA DropKeeps ==
    ASSUME NEW h, handler' = Drop(handler, h)
    PROVE  OthersKept(h) /\ DOMAIN handler' = DOMAIN handler \ {h}
BY DEF Drop, Restrict, OthersKept

\* What h has still to do is typed, and its first request may be sent.
SentBy(h, todo, t, u) ==
    h \in DOMAIN handler' =>
      /\ handler'[h].token = t
      /\ handler'[h].todo \in Todos /\ handler'[h].todo # <<>>
      /\ NoLogin(todo) => NoLogin(handler'[h].todo)
      /\ MaySend(Head(handler'[h].todo), t, u)

LEMMA GoesOn ==
    ASSUME NEW h, NEW todo \in Todos, NEW t, NEW u, NEW page, GoOn(h, todo, t, u, page)
    PROVE  /\ OthersKept(h) /\ DOMAIN handler' \subseteq DOMAIN handler \cup {h}
           /\ SentBy(h, todo, t, u)
           /\ \E ps : shown' = Emptied(page, ps)
<1> DEFINE sendable == {i \in DOMAIN todo : MaySend(todo[i], t, u)}
<1>1. CASE sendable = {}
  <2>1. handler' = Drop(handler, h) /\ \E ps : shown' = Emptied(page, ps)
    BY <1>1 DEF GoOn
  <2> QED
    BY <2>1, DropKeeps DEF SentBy
<1>2. CASE sendable # {}
  <2>1. PICK n \in sendable :
          /\ handler' = Put(handler, h, [todo |-> SubSeq(todo, n, Len(todo)), token |-> t])
          /\ \E ps : shown' = Emptied(page, ps)
    BY <1>2 DEF GoOn
  <2>2. /\ OthersKept(h) /\ DOMAIN handler' = DOMAIN handler \cup {h}
        /\ handler'[h] = [todo |-> SubSeq(todo, n, Len(todo)), token |-> t]
    BY <2>1, PutKeeps
  <2>3. handler'[h].todo = SubSeq(todo, n, Len(todo)) /\ handler'[h].token = t
    BY <2>2
  <2>4. n \in DOMAIN todo /\ MaySend(todo[n], t, u)
    OBVIOUS
  <2> QED
    BY <2>1, <2>2, <2>3, <2>4, SubTyped DEF SentBy
<1> QED
  BY <1>1, <1>2

\* A first request that may be sent is the one sent.
LEMMA SendsFirst ==
    ASSUME NEW h, NEW todo \in Todos, NEW t, NEW u, NEW page, GoOn(h, todo, t, u, page),
           todo # <<>>, MaySend(todo[1], t, u)
    PROVE  h \in DOMAIN handler' /\ Head(handler'[h].todo) = todo[1]
<1> DEFINE sendable == {i \in DOMAIN todo : MaySend(todo[i], t, u)}
<1>1. 1 \in sendable
  BY TailTyped DEF Todos
<1>2. PICK n \in sendable :
        /\ \A i \in sendable : n <= i
        /\ handler' = Put(handler, h, [todo |-> SubSeq(todo, n, Len(todo)), token |-> t])
  BY <1>1 DEF GoOn
<1>3. n = 1
  BY <1>1, <1>2 DEF Todos
<1>4. h \in DOMAIN handler' /\ handler'[h] = [todo |-> SubSeq(todo, 1, Len(todo)), token |-> t]
  <2>1. handler' = Put(handler, h, [todo |-> SubSeq(todo, 1, Len(todo)), token |-> t])
    BY <1>2, <1>3
  <2> QED
    BY <2>1, PutKeeps
<1>5. handler'[h].todo = SubSeq(todo, 1, Len(todo))
  BY <1>4
<1> QED
  BY <1>1, <1>4, <1>5, SubTyped

---------------------------------------------------------------------------
(* The inductive invariant *)

\* Nobody is logged in but by the first request of a login, which asks for the
\* user next.
LoginFirst ==
    \A h \in DOMAIN handler :
        NoLogin(Rest(h)) /\ (Step(h) = "login" => Rest(h) = Chain)

\* The user of the page is the one its token belongs to.
UserOfTheSession == ~mixed => user \in {NoOne, token}

IInv ==
    /\ TypeOK
    /\ LoginFirst
    /\ UserOfTheSession
    /\ PanelsOfTheSession
    /\ GateFollowsToken
    /\ AdminPanelsAskedByAdmins
    /\ UnknownUserIsAsked

LEMMA InitIInv == Init => IInv
<1> SUFFICES ASSUME Init PROVE IInv
  OBVIOUS
<1>1. DOMAIN handler = {}
  BY DEF Init, Empty
<1>2. \A p \in Panels : shown[p] = NoOne
  BY DEF Init, Blank
<1>3. TypeOK
  <2>1. clicks \in 0..MaxClicks
    BY ConsoleAssumption DEF Init
  <2>2. shown \in [Panels -> Anyone]
    BY DEF Init, Blank, Anyone
  <2> QED
    BY <1>1, <2>1, <2>2 DEF Init, TypeOK, Anyone
<1> QED
  BY <1>1, <1>2, <1>3
  DEF Init, IInv, LoginFirst, UserOfTheSession, PanelsOfTheSession, GateFollowsToken,
      AdminPanelsAskedByAdmins, UnknownUserIsAsked

\* h goes on with todo under the token and the user that the step leaves.
Continues(h, todo, page) ==
    /\ todo \in Todos /\ NoLogin(todo)
    /\ page \in [Panels -> Anyone]
    /\ GoOn(h, todo, token', user', page)

LEMMA StepTyped ==
    ASSUME TypeOK, LoginFirst, NEW h \in DOMAIN handler
    PROVE  /\ h \in Handlers /\ handler[h].token \in Anyone
           /\ Step(h) \in Steps /\ Rest(h) \in Todos /\ NoLogin(Rest(h))
BY TailTyped DEF TypeOK, LoginFirst, Step, Rest, Todos

LEMMA FewSteps ==
    /\ <<"create", "clientKeys">> \in Todos /\ NoLogin(<<"create", "clientKeys">>)
    /\ <<>> \in Todos /\ NoLogin(<<>>)
    /\ \A panel \in OwnPanels \cup AdminPanels : <<panel>> \in Todos /\ NoLogin(<<panel>>)
    /\ <<"config", "proxies">> \in Todos /\ NoLogin(<<"config", "proxies">>)
BY DEF Todos, NoLogin, Steps, AllPanels, OwnPanels, AdminPanels

\* What a change sends, and reads again
LEMMA ChangeTyped ==
    ASSUME NEW panels \in Changes
    PROVE  <<"change">> \o panels \in Todos /\ NoLogin(<<"change">> \o panels)
<1> DEFINE todo == <<"change">> \o panels
<1>1. panels \in Todos /\ NoLogin(panels)
  <2>1. \/ \E panel \in OwnPanels \cup AdminPanels : panels = <<panel>>
        \/ panels = <<"config", "proxies">>
    BY DEF Changes, OwnPanels, AdminPanels
  <2> QED
    BY <2>1, FewSteps
<1>2. <<"change">> \in Todos /\ Len(<<"change">>) = 1 /\ <<"change">>[1] = "change"
  BY DEF Todos, Steps
<1>3. /\ todo \in Todos /\ Len(todo) = 1 + Len(panels)
      /\ \A i \in 1 .. 1 + Len(panels) :
           todo[i] = IF i <= 1 THEN <<"change">>[i] ELSE panels[i - 1]
  BY <1>1, <1>2, ConcatProperties DEF Todos
<1>4. Len(panels) \in Nat
  BY <1>1 DEF Todos
<1> HIDE DEF todo
<1>5. NoLogin(todo)
  BY <1>1, <1>2, <1>3, <1>4 DEF NoLogin
<1> QED
  BY <1>3, <1>5 DEF todo

LEMMA EmptiedTyped ==
    ASSUME NEW page \in [Panels -> Anyone], NEW ps
    PROVE  /\ Emptied(page, ps) \in [Panels -> Anyone]
           /\ \A p \in Panels : Emptied(page, ps)[p] \in {NoOne, page[p]}
BY DEF Emptied, Anyone

LEMMA ClearedIs ==
    ASSUME NEW page \in [Panels -> Anyone]
    PROVE  /\ Cleared(page) \in [Panels -> Anyone]
           /\ \A p \in Panels \ {"settings"} : Cleared(page)[p] = NoOne
BY DEF Cleared, Emptied, Anyone

\* The page on which an answer is written
Written(h) == [p \in Panels |-> IF p \in Writes(h) THEN handler[h].token ELSE shown[p]]

LEMMA AnsweredIs ==
    ASSUME TypeOK, LoginFirst, NEW h, Answered(h)
    PROVE  /\ h \in DOMAIN handler /\ Grantable(h)
           /\ token' = (IF Step(h) = "login" THEN handler[h].token ELSE token)
           /\ user' = (IF AsksMe(h) THEN handler[h].token ELSE user)
           /\ gate' = (gate /\ Step(h) # "login" /\ ~AsksMe(h))
           /\ mixed' = (mixed \/ token \notin Expected(h)) /\ late' = LateBy(h)
           /\ Continues(h, After(h, token'), Written(h))
           /\ GoOn(h, After(h, token'), token', user', Written(h))
<1>1. h \in DOMAIN handler
  BY DEF Answered
<1>2. /\ token' = (IF Step(h) = "login" THEN handler[h].token ELSE token)
      /\ user' = (IF AsksMe(h) THEN handler[h].token ELSE user)
      /\ gate' = (gate /\ Step(h) # "login" /\ ~AsksMe(h))
      /\ mixed' = (mixed \/ token \notin Expected(h)) /\ late' = LateBy(h)
      /\ Grantable(h)
  BY DEF Answered
<1>3. GoOn(h, After(h, token'), token', user', Written(h))
  BY DEF Answered, Written
<1>4. After(h, token') \in Todos /\ NoLogin(After(h, token'))
  BY <1>1, StepTyped, FewSteps DEF After
<1>5. Written(h) \in [Panels -> Anyone]
  BY <1>1 DEF Written, TypeOK
<1> QED
  BY <1>1, <1>2, <1>3, <1>4, <1>5 DEF Continues

LEMMA MeRefusedIs ==
    ASSUME TypeOK, LoginFirst, NEW h, MeRefused(h)
    PROVE  /\ h \in DOMAIN handler /\ AsksMe(h)
           /\ token' = NoOne /\ user' = NoOne /\ gate' = TRUE /\ mixed' = mixed /\ late' = {}
           /\ Continues(h, After(h, NoOne), Cleared(shown))
<1>1. /\ h \in DOMAIN handler /\ AsksMe(h)
      /\ token' = NoOne /\ user' = NoOne /\ gate' = TRUE /\ mixed' = mixed /\ late' = {}
      /\ GoOn(h, After(h, NoOne), token', user', Cleared(shown))
  BY DEF MeRefused
<1>2. After(h, NoOne) \in Todos /\ NoLogin(After(h, NoOne))
  BY <1>1, StepTyped, FewSteps DEF After
<1>3. Cleared(shown) \in [Panels -> Anyone]
  BY ClearedIs DEF TypeOK
<1> QED
  BY <1>1, <1>2, <1>3 DEF Continues

LEMMA RefusedIs ==
    ASSUME TypeOK, LoginFirst, NEW h, Refused(h)
    PROVE  /\ h \in DOMAIN handler /\ ~AsksMe(h)
           /\ UNCHANGED <<token, user, gate, mixed, late>>
           /\ \E todo, ps : Continues(h, todo, Emptied(shown, ps))
<1>1. h \in DOMAIN handler /\ ~AsksMe(h) /\ UNCHANGED <<token, user, gate, mixed, late>>
  BY DEF Refused
<1>2. PICK todo, ps : /\ GoOn(h, todo, token, user, Emptied(shown, ps))
                      /\ todo = <<>> \/ todo = Rest(h)
  BY DEF Refused
<1>3. todo \in Todos /\ NoLogin(todo)
  BY <1>1, <1>2, StepTyped, FewSteps
<1>4. Emptied(shown, ps) \in [Panels -> Anyone]
  BY EmptiedTyped DEF TypeOK
<1> QED
  BY <1>1, <1>2, <1>3, <1>4 DEF Continues

\* A change, or a panel read again
Reads(h) ==
    \/ \E panels \in Changes : Change(h, panels)
    \/ \E p \in {"models", "myLogs", "adminLogs", "proxies"} : Reread(h, p)

\* A click that sends something on behalf of the session, or ends it.
LEMMA ClickedIs ==
    ASSUME TypeOK, NEW h \in Handlers,
           Refresh(h) \/ CreateClientKey(h) \/ Reads(h)
    PROVE  /\ h \notin DOMAIN handler /\ ~gate
           /\ token' = token /\ mixed' = mixed /\ late' = late
           /\ user' = user \/ (token = NoOne /\ user' = NoOne)
           /\ gate' = gate \/ (token = NoOne /\ gate' = TRUE)
           /\ \/ UNCHANGED <<shown, handler, user>>
              \/ \E todo, ps : Continues(h, todo, Emptied(shown, ps))
<1>0. shown \in [Panels -> Anyone] /\ shown = Emptied(shown, {})
  BY DEF TypeOK, Emptied
<1>1. CASE Refresh(h)
  <2>1. /\ h \notin DOMAIN handler /\ ~gate
        /\ token' = token /\ mixed' = mixed /\ late' = late
        /\ user' = user \/ (token = NoOne /\ user' = NoOne)
        /\ gate' = gate \/ (token = NoOne /\ gate' = TRUE)
    BY <1>1 DEF Refresh
  <2>2. \/ GoOn(h, Tail(Chain), token', user', Emptied(shown, Panels \ {"settings"}))
        \/ GoOn(h, Chain, token', user', Emptied(shown, {}))
    BY <1>0, <1>1 DEF Refresh, Cleared
  <2>3. /\ Chain \in Todos /\ NoLogin(Chain)
        /\ Tail(Chain) \in Todos /\ NoLogin(Tail(Chain))
    BY ChainTyped, TailTyped, TailNoLogin
  <2>4. \A ps : Emptied(shown, ps) \in [Panels -> Anyone]
    BY <1>0, EmptiedTyped
  <2> QED
    BY <2>1, <2>2, <2>3, <2>4 DEF Continues
<1>2. CASE CreateClientKey(h)
  <2>1. /\ h \notin DOMAIN handler /\ ~gate
        /\ token' = token /\ mixed' = mixed /\ late' = late
        /\ user' = user
        /\ gate' = gate \/ (token = NoOne /\ gate' = TRUE)
    BY <1>2 DEF CreateClientKey
  <2>2. \/ UNCHANGED <<shown, handler, user>>
        \/ GoOn(h, <<"create", "clientKeys">>, token', user', Emptied(shown, {"newKey"}))
    BY <1>2 DEF CreateClientKey
  <2>3. Emptied(shown, {"newKey"}) \in [Panels -> Anyone]
    BY <1>0, EmptiedTyped
  <2>4. <<"create", "clientKeys">> \in Todos /\ NoLogin(<<"create", "clientKeys">>)
    BY FewSteps
  <2> QED
    BY <2>1, <2>2, <2>3, <2>4 DEF Continues
<1>3. CASE Reads(h)
  <2>1. PICK todo : /\ GoOn(h, todo, token, user, shown)
                    /\ \/ \E panels \in Changes : todo = <<"change">> \o panels
                       \/ \E p \in OwnPanels \cup AdminPanels : todo = <<p>>
    BY <1>3 DEF Reads, Change, Reread, OwnPanels, AdminPanels
  <2>2. /\ h \notin DOMAIN handler /\ ~gate
        /\ UNCHANGED <<token, user, gate, mixed, late>>
    BY <1>3 DEF Reads, Change, Reread
  <2>3. todo \in Todos /\ NoLogin(todo)
    BY <2>1, ChangeTyped, FewSteps
  <2> QED
    BY <1>0, <2>1, <2>2, <2>3 DEF Continues
<1> QED
  BY <1>1, <1>2, <1>3

---------------------------------------------------------------------------
(* One lemma per kind of step *)

LEMMA ContinueStep ==
    ASSUME TypeOK, LoginFirst, NEW h \in Handlers, NEW todo, NEW page,
           Continues(h, todo, page), token' \in Anyone
    PROVE  /\ OthersKept(h) /\ DOMAIN handler' \subseteq Handlers
           /\ \A g \in DOMAIN handler' :
                handler'[g].token \in Anyone /\ handler'[g].todo \in Seq(Steps) \ {<<>>}
           /\ LoginFirst'
           /\ shown' \in [Panels -> Anyone]
           /\ \A p \in Panels : shown'[p] \in {NoOne, page[p]}
           /\ h \in DOMAIN handler' => /\ handler'[h].token = token'
                                       /\ MaySend(Step(h)', token', user')
<1>1. /\ todo \in Todos /\ NoLogin(todo) /\ page \in [Panels -> Anyone]
      /\ GoOn(h, todo, token', user', page)
  BY DEF Continues
<1>2. /\ OthersKept(h) /\ DOMAIN handler' \subseteq DOMAIN handler \cup {h}
      /\ SentBy(h, todo, token', user')
      /\ \E ps : shown' = Emptied(page, ps)
  BY <1>1, GoesOn
<1>3. h \in DOMAIN handler' =>
        /\ handler'[h].token = token'
        /\ handler'[h].todo \in Todos /\ handler'[h].todo # <<>>
        /\ NoLogin(handler'[h].todo)
        /\ MaySend(Step(h)', token', user')
  BY <1>1, <1>2 DEF SentBy, Step
<1>4. DOMAIN handler' \subseteq Handlers
  BY <1>2 DEF TypeOK
<1>5. \A g \in DOMAIN handler' :
        handler'[g].token \in Anyone /\ handler'[g].todo \in Seq(Steps) \ {<<>>}
  BY <1>2, <1>3 DEF TypeOK, OthersKept, Todos
<1>6. LoginFirst'
  <2> SUFFICES ASSUME NEW g \in DOMAIN handler'
               PROVE  /\ NoLogin(Tail(handler'[g].todo))
                      /\ Head(handler'[g].todo) = "login" => Tail(handler'[g].todo) = Chain
    BY DEF LoginFirst, Step, Rest
  <2>1. CASE g = h
    BY <1>3, <2>1, TailNoLogin
  <2>2. CASE g # h
    BY <1>2, <2>2 DEF OthersKept, LoginFirst, Step, Rest
  <2> QED
    BY <2>1, <2>2
<1>7. shown' \in [Panels -> Anyone] /\ \A p \in Panels : shown'[p] \in {NoOne, page[p]}
  BY <1>1, <1>2, EmptiedTyped
<1> QED
  BY <1>2, <1>3, <1>4, <1>5, <1>6, <1>7

\* What is sent for an administrator is sent with his token.
LEMMA ContinueAsAdmin ==
    ASSUME IInv, NEW h \in Handlers, NEW todo, NEW page, Continues(h, todo, page),
           token' \in Anyone, UserOfTheSession', ~mixed' => ~mixed
    PROVE  AdminPanelsAskedByAdmins'
<1> SUFFICES ASSUME ~mixed', NEW g \in DOMAIN handler',
                    Head(handler'[g].todo) \in AdminPanels
             PROVE  handler'[g].token \in Admins
  BY DEF AdminPanelsAskedByAdmins, Step
<1>1. TypeOK /\ LoginFirst
  BY DEF IInv
<1>2. CASE g = h
  <2>1. handler'[h].token = token' /\ user' \in Admins
    BY <1>1, <1>2, ContinueStep DEF MaySend, Step
  <2>2. user' \in {NoOne, token'} /\ user' # NoOne
    BY <2>1, ConsoleAssumption DEF UserOfTheSession
  <2> QED
    BY <1>2, <2>1, <2>2
<1>3. CASE g # h
  BY <1>1, <1>3, ContinueStep DEF OthersKept, IInv, AdminPanelsAskedByAdmins, Step
<1> QED
  BY <1>2, <1>3

\* Somebody else's question about the user is still to be answered.
LEMMA StillAsked ==
    ASSUME UnknownUserIsAsked, NEW h, OthersKept(h), h \notin DOMAIN handler \/ ~AsksMe(h),
           token # NoOne /\ user = NoOne
    PROVE  \E g \in DOMAIN handler' : AsksMe(g)'
<1>1. PICK g \in DOMAIN handler : AsksMe(g)
  BY DEF UnknownUserIsAsked
<1>2. g # h
  BY <1>1
<1> QED
  BY <1>1, <1>2 DEF OthersKept, AsksMe, Step

LEMMA ReloadStep == ASSUME IInv, Reload PROVE IInv'
<1> DEFINE start == <<"start">> \o Tail(Chain)
           task == [todo |-> start, token |-> token]
<1>1. /\ start \in Todos /\ start # <<>>
      /\ Head(start) = "start" /\ Tail(start) = Tail(Chain) /\ NoLogin(Tail(start))
  BY ChainTyped, TailTyped, TailNoLogin, LedTyped DEF Steps
<1>2. task.todo = start /\ task.token = token
  OBVIOUS
<1>3. \/ token = NoOne /\ handler' = Empty
      \/ token # NoOne /\ \E h \in Handlers : handler' = Put(Empty, h, task)
  BY DEF Reload
<1>4. /\ user' = NoOne /\ token' = token /\ gate' = (token = NoOne)
      /\ shown' = Blank /\ mixed' = FALSE /\ late' = {} /\ clicks' \in 0..MaxClicks
  BY ConsoleAssumption DEF Reload, Click, IInv, TypeOK
<1> HIDE DEF start, task
<1>5. /\ DOMAIN handler' \subseteq Handlers
      /\ \A h \in DOMAIN handler' : handler'[h] = task
      /\ token # NoOne => DOMAIN handler' # {}
  BY <1>3 DEF Put, Empty
<1>6. Blank \in [Panels -> Anyone] /\ \A p \in Panels : Blank[p] = NoOne
  BY DEF Blank, Anyone
<1>7. TypeOK'
  <2>1. token \in Anyone /\ NoOne \in Anyone
    BY DEF IInv, TypeOK, Anyone
  <2> QED
    BY <1>1, <1>2, <1>4, <1>5, <1>6, <2>1 DEF TypeOK, Todos
<1>8. LoginFirst'
  BY <1>1, <1>2, <1>5 DEF LoginFirst, Step, Rest
<1>9. UserOfTheSession' /\ PanelsOfTheSession' /\ GateFollowsToken'
  BY <1>4, <1>6 DEF UserOfTheSession, PanelsOfTheSession, GateFollowsToken
<1>10. AdminPanelsAskedByAdmins'
  BY <1>1, <1>2, <1>5 DEF AdminPanelsAskedByAdmins, Step, AdminPanels
<1>11. UnknownUserIsAsked'
  BY <1>1, <1>2, <1>4, <1>5 DEF UnknownUserIsAsked, AsksMe, Step
<1> QED
  BY <1>7, <1>8, <1>9, <1>10, <1>11 DEF IInv

LEMMA LogoutStep == ASSUME IInv, Logout PROVE IInv'
<1>1. /\ token' = NoOne /\ user' = NoOne /\ gate' = TRUE /\ shown' = Cleared(shown)
      /\ handler' = handler /\ mixed' = mixed /\ late' = {} /\ clicks' \in 0..MaxClicks
  BY ConsoleAssumption DEF Logout, Click, IInv, TypeOK
<1>2. /\ Cleared(shown) \in [Panels -> Anyone]
      /\ \A p \in Panels \ {"settings"} : Cleared(shown)[p] = NoOne
  BY ClearedIs DEF IInv, TypeOK
<1>3. TypeOK'
  BY <1>1, <1>2 DEF IInv, TypeOK, Anyone
<1>4. PanelsOfTheSession'
  BY <1>1, <1>2 DEF PanelsOfTheSession
<1> QED
  BY <1>1, <1>3, <1>4
  DEF IInv, LoginFirst, UserOfTheSession, GateFollowsToken, AdminPanelsAskedByAdmins,
      UnknownUserIsAsked, Step, Rest

LEMMA SubmitStep ==
    ASSUME IInv, NEW h \in Handlers, NEW u \in Users, SubmitLogin(h, u)
    PROVE  IInv'
<1> DEFINE login == <<"login">> \o Chain
           task == [todo |-> login, token |-> u]
<1>1. login \in Todos /\ login # <<>> /\ Head(login) = "login" /\ Tail(login) = Chain
  BY ChainTyped, LedTyped DEF Steps
<1>2. task.todo = login /\ task.token = u
  OBVIOUS
<1>3. /\ h \notin DOMAIN handler /\ handler' = Put(handler, h, task)
      /\ UNCHANGED <<token, user, gate, shown, mixed, late>> /\ clicks' \in 0..MaxClicks
  BY ConsoleAssumption DEF SubmitLogin, Click, IInv, TypeOK
<1> HIDE DEF login, task
<1>4. OthersKept(h) /\ handler'[h] = task /\ DOMAIN handler' = DOMAIN handler \cup {h}
  BY <1>3, PutKeeps
<1>5. TypeOK'
  <2>1. \A g \in DOMAIN handler' :
          handler'[g].token \in Anyone /\ handler'[g].todo \in Seq(Steps) \ {<<>>}
    BY <1>1, <1>2, <1>4 DEF OthersKept, IInv, TypeOK, Todos, Anyone
  <2> QED
    BY <1>3, <1>4, <2>1 DEF IInv, TypeOK
<1>6. LoginFirst'
  <2> SUFFICES ASSUME NEW g \in DOMAIN handler'
               PROVE  /\ NoLogin(Tail(handler'[g].todo))
                      /\ Head(handler'[g].todo) = "login" => Tail(handler'[g].todo) = Chain
    BY DEF LoginFirst, Step, Rest
  <2>1. CASE g = h
    BY <1>1, <1>2, <1>4, <2>1, ChainTyped
  <2>2. CASE g # h
    BY <1>4, <2>2 DEF OthersKept, IInv, LoginFirst, Step, Rest
  <2> QED
    BY <2>1, <2>2
<1>7. UserOfTheSession' /\ PanelsOfTheSession' /\ GateFollowsToken'
  BY <1>3 DEF IInv, UserOfTheSession, PanelsOfTheSession, GateFollowsToken
<1>8. AdminPanelsAskedByAdmins'
  <2> SUFFICES ASSUME ~mixed', NEW g \in DOMAIN handler',
                      Head(handler'[g].todo) \in AdminPanels
               PROVE  handler'[g].token \in Admins
    BY DEF AdminPanelsAskedByAdmins, Step
  <2>1. g # h
    BY <1>1, <1>2, <1>4 DEF AdminPanels
  <2> QED
    BY <1>3, <1>4, <2>1 DEF OthersKept, IInv, AdminPanelsAskedByAdmins, Step
<1>9. UnknownUserIsAsked'
  <2>1. token # NoOne /\ user = NoOne => \E g \in DOMAIN handler' : AsksMe(g)'
    BY <1>3, <1>4, StillAsked DEF IInv
  <2> QED
    BY <1>3, <2>1 DEF UnknownUserIsAsked
<1> QED
  BY <1>5, <1>6, <1>7, <1>8, <1>9 DEF IInv

LEMMA ClickStep ==
    ASSUME IInv, NEW h \in Handlers,
           Refresh(h) \/ CreateClientKey(h) \/ Reads(h)
    PROVE  IInv'
<1>1. /\ h \notin DOMAIN handler /\ ~gate
      /\ token' = token /\ mixed' = mixed /\ late' = late
      /\ user' = user \/ (token = NoOne /\ user' = NoOne)
      /\ gate' = gate \/ (token = NoOne /\ gate' = TRUE)
      /\ \/ UNCHANGED <<shown, handler, user>>
         \/ \E todo, ps : Continues(h, todo, Emptied(shown, ps))
  BY ClickedIs DEF IInv
<1>2. clicks' \in 0..MaxClicks
  <2>1. Click
    BY DEF Refresh, CreateClientKey, Reads, Change, Reread
  <2> QED
    BY <2>1, ConsoleAssumption DEF Click, IInv, TypeOK
<1>3. /\ token' \in Anyone /\ user' \in Anyone /\ gate' \in BOOLEAN /\ mixed' \in BOOLEAN
      /\ shown \in [Panels -> Anyone]
  BY <1>1 DEF IInv, TypeOK, Anyone
<1>4. GateFollowsToken' /\ UserOfTheSession'
  BY <1>1 DEF IInv, GateFollowsToken, UserOfTheSession
<1>5. CASE UNCHANGED <<shown, handler, user>>
  <2>1. TypeOK'
    BY <1>1, <1>2, <1>3, <1>5 DEF IInv, TypeOK
  <2> QED
    BY <1>1, <1>4, <1>5, <2>1
    DEF IInv, LoginFirst, PanelsOfTheSession, AdminPanelsAskedByAdmins, UnknownUserIsAsked,
        AsksMe, Step, Rest
<1>6. ASSUME NEW todo, NEW ps, Continues(h, todo, Emptied(shown, ps))
      PROVE  IInv'
  <2>1. /\ OthersKept(h) /\ DOMAIN handler' \subseteq Handlers
        /\ \A g \in DOMAIN handler' :
             handler'[g].token \in Anyone /\ handler'[g].todo \in Seq(Steps) \ {<<>>}
        /\ LoginFirst' /\ shown' \in [Panels -> Anyone]
        /\ \A p \in Panels : shown'[p] \in {NoOne, Emptied(shown, ps)[p]}
    BY <1>3, <1>6, ContinueStep DEF IInv
  <2>2. TypeOK'
    BY <1>1, <1>2, <1>3, <2>1 DEF IInv, TypeOK
  <2>3. PanelsOfTheSession'
    <3>1. \A p \in Panels : shown'[p] \in {NoOne, shown[p]}
      BY <1>3, <2>1, EmptiedTyped
    <3> QED
      BY <1>1, <3>1 DEF IInv, PanelsOfTheSession
  <2>4. AdminPanelsAskedByAdmins'
    BY <1>1, <1>3, <1>4, <1>6, ContinueAsAdmin
  <2>5. UnknownUserIsAsked'
    <3>1. token # NoOne /\ user = NoOne => \E g \in DOMAIN handler' : AsksMe(g)'
      BY <1>1, <2>1, StillAsked DEF IInv
    <3> QED
      BY <1>1, <3>1 DEF UnknownUserIsAsked
  <2> QED
    BY <1>4, <2>1, <2>2, <2>3, <2>4, <2>5 DEF IInv
<1> QED
  BY <1>1, <1>5, <1>6

\* An answer that is expected belongs to the session that the step leaves.
LEMMA AnsweredStep ==
    ASSUME IInv, NEW h \in Handlers, Answered(h)
    PROVE  IInv'
<1> DEFINE owner == handler[h].token
<1>1. TypeOK /\ LoginFirst
  BY DEF IInv
<1>2. /\ h \in DOMAIN handler /\ Grantable(h)
      /\ token' = (IF Step(h) = "login" THEN owner ELSE token)
      /\ user' = (IF AsksMe(h) THEN owner ELSE user)
      /\ gate' = (gate /\ Step(h) # "login" /\ ~AsksMe(h))
      /\ mixed' = (mixed \/ token \notin Expected(h)) /\ late' = LateBy(h)
      /\ Continues(h, After(h, token'), Written(h))
      /\ GoOn(h, After(h, token'), token', user', Written(h))
  BY <1>1, AnsweredIs
<1>3. owner \in Anyone /\ owner # NoOne /\ clicks' = clicks
  BY <1>1, <1>2, StepTyped DEF Grantable, Answered
<1>4. token' \in Anyone /\ user' \in Anyone /\ gate' \in BOOLEAN /\ mixed' \in BOOLEAN
  BY <1>1, <1>2, <1>3 DEF TypeOK
<1>5. /\ OthersKept(h) /\ DOMAIN handler' \subseteq Handlers
      /\ \A g \in DOMAIN handler' :
           handler'[g].token \in Anyone /\ handler'[g].todo \in Seq(Steps) \ {<<>>}
      /\ LoginFirst' /\ shown' \in [Panels -> Anyone]
      /\ \A p \in Panels : shown'[p] \in {NoOne, Written(h)[p]}
  BY <1>1, <1>2, <1>4, ContinueStep
<1>6. TypeOK'
  <2>1. late' \subseteq Panels
    BY <1>1, <1>2 DEF LateBy, TypeOK
  <2> QED
    BY <1>1, <1>3, <1>4, <1>5, <2>1 DEF TypeOK
<1>7. ~mixed' => /\ ~mixed /\ token \in {owner, NoOne} /\ token' = owner
                 /\ Step(h) # "login" => token = owner
  <2>1. ~mixed' => ~mixed /\ token \in Expected(h)
    BY <1>1, <1>2 DEF TypeOK
  <2>2. Expected(h) = IF Step(h) = "login" THEN {owner, NoOne} ELSE {owner}
    BY DEF Expected
  <2> QED
    BY <1>2, <2>1, <2>2
<1>8. PanelsOfTheSession'
  <2> SUFFICES ASSUME NEW p \in Panels \ {"settings"}, p \notin late'
               PROVE  shown'[p] \in {NoOne, token'}
    BY DEF PanelsOfTheSession
  <2>1. shown'[p] \in {NoOne, IF p \in Writes(h) THEN owner ELSE shown[p]}
    BY <1>5 DEF Written
  <2>2. CASE Step(h) = "login"
    <3>1. token' = owner /\ shown[p] \in {NoOne, owner}
      BY <1>2, <2>2 DEF LateBy
    <3> QED
      BY <2>1, <3>1
  <2>3. CASE Step(h) # "login" /\ token = owner
    <3>1. token' = owner /\ late' = late \ Writes(h)
      BY <1>2, <2>3 DEF LateBy
    <3>2. p \notin Writes(h) => shown[p] \in {NoOne, owner}
      BY <2>3, <3>1 DEF IInv, PanelsOfTheSession
    <3> QED
      BY <2>1, <3>1, <3>2
  <2>4. CASE Step(h) # "login" /\ token # owner
    <3>1. token' = token /\ late' = late \cup (Writes(h) \cap Panels)
      BY <1>2, <2>4 DEF LateBy
    <3>2. p \notin Writes(h) /\ shown[p] \in {NoOne, token}
      BY <3>1 DEF IInv, PanelsOfTheSession
    <3> QED
      BY <2>1, <3>1, <3>2
  <2> QED
    BY <2>2, <2>3, <2>4
<1>12. UserOfTheSession'
  BY <1>2, <1>7 DEF IInv, UserOfTheSession
<1>9. GateFollowsToken'
  <2> SUFFICES ASSUME ~mixed'
               PROVE  ~gate' /\ token' # NoOne
    BY DEF GateFollowsToken
  <2>1. ~gate'
    <3>1. CASE Step(h) = "login"
      BY <1>2, <3>1
    <3>2. CASE Step(h) # "login"
      BY <1>2, <1>3, <1>7, <3>2 DEF IInv, GateFollowsToken
    <3> QED
      BY <3>1, <3>2
  <2> QED
    BY <1>3, <1>7, <2>1
<1>10. AdminPanelsAskedByAdmins'
  BY <1>2, <1>4, <1>7, <1>12, ContinueAsAdmin
<1>11. UnknownUserIsAsked'
  <2> SUFFICES ASSUME token' # NoOne, user' = NoOne
               PROVE  \E g \in DOMAIN handler' : AsksMe(g)'
    BY DEF UnknownUserIsAsked
  <2>1. ~AsksMe(h) /\ user = NoOne
    BY <1>2, <1>3
  <2>2. CASE Step(h) = "login"
    <3>1. After(h, token') = Chain
      BY <1>1, <1>2, <2>2 DEF After, LoginFirst
    <3>2. MaySend("me", token', user')
      BY DEF MaySend, AllPanels, OwnPanels, AdminPanels
    <3>3. h \in DOMAIN handler' /\ Head(handler'[h].todo) = "me"
      BY <1>2, <3>1, <3>2, ChainTyped, SendsFirst
    <3> QED
      BY <3>3 DEF AsksMe, Step
  <2>3. CASE Step(h) # "login"
    BY <1>2, <1>5, <2>1, <2>3, StillAsked DEF IInv
  <2> QED
    BY <2>2, <2>3
<1> QED
  BY <1>5, <1>6, <1>8, <1>9, <1>10, <1>11, <1>12 DEF IInv

\* The session ends with nothing on the page but the form of the settings.
LEMMA MeRefusedStep ==
    ASSUME IInv, NEW h \in Handlers, MeRefused(h)
    PROVE  IInv'
<1>1. TypeOK /\ LoginFirst
  BY DEF IInv
<1>2. /\ token' = NoOne /\ user' = NoOne /\ gate' = TRUE /\ mixed' = mixed
      /\ late' = {} /\ Continues(h, After(h, NoOne), Cleared(shown))
  BY <1>1, MeRefusedIs
<1>3. /\ NoOne \in Anyone /\ clicks' = clicks
      /\ \A p \in Panels \ {"settings"} : Cleared(shown)[p] = NoOne
  BY <1>1, ClearedIs DEF Anyone, MeRefused, TypeOK
<1>4. /\ DOMAIN handler' \subseteq Handlers
      /\ \A g \in DOMAIN handler' :
           handler'[g].token \in Anyone /\ handler'[g].todo \in Seq(Steps) \ {<<>>}
      /\ LoginFirst' /\ shown' \in [Panels -> Anyone]
      /\ \A p \in Panels \ {"settings"} : shown'[p] = NoOne
  BY <1>1, <1>2, <1>3, ContinueStep
<1>5. TypeOK'
  BY <1>1, <1>2, <1>3, <1>4 DEF TypeOK
<1>6. /\ UserOfTheSession' /\ PanelsOfTheSession'
      /\ GateFollowsToken' /\ UnknownUserIsAsked'
  BY <1>2, <1>4 DEF UserOfTheSession, PanelsOfTheSession, GateFollowsToken, UnknownUserIsAsked
<1>7. AdminPanelsAskedByAdmins'
  BY <1>2, <1>3, <1>6, ContinueAsAdmin
<1> QED
  BY <1>4, <1>5, <1>6, <1>7 DEF IInv

LEMMA RefusedStep ==
    ASSUME IInv, NEW h \in Handlers, Refused(h)
    PROVE  IInv'
<1>1. TypeOK /\ LoginFirst
  BY DEF IInv
<1>2. PICK todo, ps : Continues(h, todo, Emptied(shown, ps))
  BY <1>1, RefusedIs
<1>3. /\ ~AsksMe(h) /\ UNCHANGED <<token, user, gate, mixed, late>>
      /\ shown \in [Panels -> Anyone] /\ token' \in Anyone /\ clicks' = clicks
  BY <1>1, RefusedIs DEF TypeOK, Refused
<1>4. /\ OthersKept(h) /\ DOMAIN handler' \subseteq Handlers
      /\ \A g \in DOMAIN handler' :
           handler'[g].token \in Anyone /\ handler'[g].todo \in Seq(Steps) \ {<<>>}
      /\ LoginFirst' /\ shown' \in [Panels -> Anyone]
      /\ \A p \in Panels : shown'[p] \in {NoOne, Emptied(shown, ps)[p]}
  BY <1>1, <1>2, <1>3, ContinueStep
<1>5. TypeOK'
  BY <1>1, <1>3, <1>4 DEF TypeOK
<1>6. PanelsOfTheSession'
  <2>1. \A p \in Panels : shown'[p] \in {NoOne, shown[p]}
    BY <1>3, <1>4, EmptiedTyped
  <2> QED
    BY <1>3, <2>1 DEF IInv, PanelsOfTheSession
<1>7. GateFollowsToken' /\ UserOfTheSession'
  BY <1>3 DEF IInv, GateFollowsToken, UserOfTheSession
<1>8. AdminPanelsAskedByAdmins'
  BY <1>2, <1>3, <1>7, ContinueAsAdmin
<1>9. UnknownUserIsAsked'
  <2>1. token # NoOne /\ user = NoOne => \E g \in DOMAIN handler' : AsksMe(g)'
    BY <1>3, <1>4, StillAsked DEF IInv
  <2> QED
    BY <1>3, <2>1 DEF UnknownUserIsAsked
<1> QED
  BY <1>4, <1>5, <1>6, <1>7, <1>8, <1>9 DEF IInv

LEMMA NextIInv == IInv /\ [Next]_vars => IInv'
<1> SUFFICES ASSUME IInv, [Next]_vars PROVE IInv'
  OBVIOUS
<1>1. CASE Reload
  BY <1>1, ReloadStep
<1>2. CASE Logout
  BY <1>2, LogoutStep
<1>3. ASSUME NEW h \in Handlers, NEW u \in Users, SubmitLogin(h, u) PROVE IInv'
  BY <1>3, SubmitStep
<1>4. ASSUME NEW h \in Handlers,
             Refresh(h) \/ CreateClientKey(h) \/ Reads(h)
      PROVE  IInv'
  BY <1>4, ClickStep
<1>5. ASSUME NEW h \in Handlers, Answered(h) PROVE IInv'
  BY <1>5, AnsweredStep
<1>6. ASSUME NEW h \in Handlers, MeRefused(h) PROVE IInv'
  BY <1>6, MeRefusedStep
<1>7. ASSUME NEW h \in Handlers, Refused(h) PROVE IInv'
  BY <1>7, RefusedStep
<1>8. CASE UNCHANGED vars
  BY <1>8
  DEF vars, IInv, TypeOK, LoginFirst, UserOfTheSession, PanelsOfTheSession,
      GateFollowsToken, AdminPanelsAskedByAdmins, UnknownUserIsAsked, AsksMe, Step, Rest
<1> QED
  BY <1>1, <1>2, <1>3, <1>4, <1>5, <1>6, <1>7, <1>8 DEF Next, Reads

LEMMA IInvHolds == Spec => []IInv
BY InitIInv, NextIInv, PTL DEF Spec

---------------------------------------------------------------------------
(* Theorems *)

\* The state of the page stays within its types: a handler in progress always has
\* a request out, and the token, the user and the panels name users of the pool or
\* nobody (frontend/app.js, state and the refresh functions).
THEOREM TypeCorrect == Spec => []TypeOK
<1>1. IInv => TypeOK
  BY DEF IInv
<1> QED
  BY <1>1, IInvHolds, PTL

\* Every panel but the form of the settings shows data of the user whose token the
\* page has, or nothing, unless its last answer had outlived its session or a login
\* has since replaced the session, for any number of overlapping refreshes, creations,
\* failures, logins and logouts (clearSensitiveUiState, refreshMe and the other
\* refresh functions).
THEOREM PanelsSafe == Spec => []PanelsOfTheSession
<1>1. IInv => PanelsOfTheSession
  BY DEF IInv
<1> QED
  BY <1>1, IInvHolds, PTL

\* As long as no answer has outlived its session and no login has replaced one, the
\* login screen covers the page exactly while there is no token, in whichever order the answers arrive (showLoginGate and
\* hideLoginGate).
THEOREM GateSafe == Spec => []GateFollowsToken
<1>1. IInv => GateFollowsToken
  BY DEF IInv
<1> QED
  BY <1>1, IInvHolds, PTL

\* Under the same condition the panels of an administrator are asked for with the
\* token of an administrator only: the role looked at when a refresh starts is that
\* of the token it is sent with (refreshAdmin, refreshAdminLogs and
\* refreshProxyPoolStatus).
THEOREM AdminPanelsSafe == Spec => []AdminPanelsAskedByAdmins
<1>1. IInv => AdminPanelsAskedByAdmins
  BY DEF IInv
<1> QED
  BY <1>1, IInvHolds, PTL

\* A page that has a token and does not know its user is waiting for the answer
\* that tells it or takes the token away: no logout, reload, overlapping login or
\* refused answer leaves it without one (refreshMe, the login form and the loading of
\* the page).
THEOREM UserIsLearnt == Spec => []UnknownUserIsAsked
<1>1. IInv => UnknownUserIsAsked
  BY DEF IInv
<1> QED
  BY <1>1, IInvHolds, PTL

===========================================================================
