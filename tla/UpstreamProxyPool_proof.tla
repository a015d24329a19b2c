--------------------- MODULE UpstreamProxyPool_proof ---------------------
(***************************************************************************)
(* Proofs about UpstreamProxyPool: types and bounds of its states, the     *)
(* rests that are not shortened, and that it implements CircuitBreaker.    *)
(***************************************************************************)
EXTENDS UpstreamProxyPoolHistory, FiniteSetTheorems, SequenceTheorems, TLAPS

USE DEF Lower, Higher

\* Cooldowns double with each failure: a power of two is a number above zero.
LEMMA PowerOfTwo == ASSUME NEW n \in Nat PROVE 2 ^ n \in Nat \ {0}
<1> DEFINE S == SUBSET (1..n)
<1>1. IsFiniteSet(1..n) /\ Cardinality(1..n) = n
  BY FS_Interval
<1>2. IsFiniteSet(S) /\ Cardinality(S) = 2 ^ n
  BY <1>1, FS_SUBSET
<1>3. Cardinality(S) \in Nat
  BY <1>2, FS_CardinalityType
<1>4. S # {}
  OBVIOUS
<1> QED
  BY <1>2, <1>3, <1>4, FS_EmptySet

---------------------------------------------------------------------------
(* One report *)

\* What holds of a state: its streak keeps to the cap and its rest to the
\* longest cooldown.
StateOK(state) ==
    /\ state \in ProxyStates
    /\ state.fail_streak <= Higher(0, StreakCap)
    /\ state.cooldown_until <= now + Higher(0, MaxCooldown)

\* What a report may make of a state.
Reported(state, new) ==
    /\ StateOK(new)
    /\ new.cooldown_until >= state.cooldown_until
    /\ new.cooldown_until > state.cooldown_until =>
         new.fail_streak >= Higher(1, FailureThreshold)

\* A failure that is counted adds one to the streak, up to its cap
\* (upstream_proxy_pool.py:129-146).
LEMMA FailedState ==
    ASSUME now \in Nat, NEW state, StateOK(state), NEW result \in Failures
    PROVE  LET new == Failed(state, result)
           IN  /\ Reported(state, new)
               /\ new.fail_streak = Lower(state.fail_streak + 1, StreakCap)
               /\ new.fail_streak >= Higher(1, FailureThreshold) =>
                    new.cooldown_until >= now + Cooldown(result, new.fail_streak)
<1> DEFINE streak == Lower(state.fail_streak + 1, StreakCap)
           new == Failed(state, result)
<1>1. state.fail_streak \in Int /\ state.cooldown_until \in Nat
  BY DEF StateOK, ProxyStates
<1>2. streak \in Int /\ StreakCap \in Int /\ FailureThreshold \in Int /\ MaxCooldown \in Int
  BY <1>1, ProxyAssumption
<1>3. new.fail_streak = streak /\ streak <= Higher(0, StreakCap)
  BY <1>2 DEF Failed
<1>4. CASE streak < Higher(1, FailureThreshold)
  <2>1. new.cooldown_until = state.cooldown_until
    BY <1>4 DEF Failed
  <2>2. new \in ProxyStates
    BY <1>1, <1>2, <1>4 DEF Failed, ProxyStates
  <2> QED
    BY <1>1, <1>2, <1>3, <1>4, <2>1, <2>2 DEF Reported, StateOK
<1>5. CASE streak >= Higher(1, FailureThreshold)
  <2>1. Base[result] \in Int /\ streak - 1 \in Nat
    BY <1>2, <1>5, ProxyAssumption
  <2>2. 2 ^ (streak - 1) \in Nat
    BY <2>1, PowerOfTwo
  <2>3. Base[result] * 2 ^ (streak - 1) \in Int
    BY <2>1, <2>2
  <2>4. Cooldown(result, streak) \in Int /\ Cooldown(result, streak) <= MaxCooldown
    BY <1>2, <2>3 DEF Cooldown
  <2>5. new.cooldown_until = Higher(state.cooldown_until, now + Cooldown(result, streak))
    BY <1>2, <1>5 DEF Failed
  <2>6. new \in ProxyStates
    BY <1>1, <1>2, <1>5, <2>4 DEF Failed, ProxyStates
  <2>7. state.cooldown_until <= now + Higher(0, MaxCooldown)
    BY DEF StateOK
  <2>8. /\ new.cooldown_until <= now + Higher(0, MaxCooldown)
        /\ new.cooldown_until >= state.cooldown_until
        /\ new.cooldown_until >= now + Cooldown(result, streak)
    BY <1>1, <1>2, <2>4, <2>5, <2>7
  <2> QED
    BY <1>2, <1>3, <1>5, <2>6, <2>8 DEF Reported, StateOK
<1> QED
  BY <1>2, <1>4, <1>5

\* A report is counted as a failure, ends the streak, or changes nothing.
LEMMA ReportedState ==
    ASSUME now \in Nat, NEW state, StateOK(state), NEW result \in Results
    PROVE  LET new == ReportResult(state, result)
           IN  /\ Reported(state, new)
               /\ result = "ok" => new = [state EXCEPT !.fail_streak = 0]
               /\ result \in Handled =>
                    /\ new.fail_streak = Lower(state.fail_streak + 1, StreakCap)
                    /\ new.fail_streak >= Higher(1, FailureThreshold) =>
                         new.cooldown_until >= now + Cooldown(result, new.fail_streak)
               /\ result \notin Handled \cup {"ok"} => new = state
<1>1. CASE result = "ok"
  <2>1. [state EXCEPT !.fail_streak = 0] \in ProxyStates
    BY DEF StateOK, ProxyStates
  <2> QED
    BY <1>1, <2>1, ProxyAssumption
    DEF ReportResult, Succeeded, Reported, StateOK, ProxyStates, Failures
<1>2. CASE result \in Handled
  BY <1>2, FailedState, ProxyAssumption DEF ReportResult, Failures
<1>3. CASE result \notin Handled \cup {"ok"}
  BY <1>3 DEF ReportResult, Reported, StateOK, ProxyStates
<1> QED
  BY <1>1, <1>2, <1>3

\* So it is with the answer to a request, though a network error is reported
\* twice (proxy.py:308 and 322).
LEMMA AnsweredState ==
    ASSUME now \in Nat, NEW state, StateOK(state), NEW result \in Results
    PROVE  LET new == ReportAnswer(state, result)
           IN  /\ Reported(state, new)
               /\ result = "ok" => new = [state EXCEPT !.fail_streak = 0]
               /\ result # "ok" => Higher(0, new.fail_streak) >= Higher(0, state.fail_streak)
<1>1. CASE result # "network"
  <2>1. result # "ok" =>
          Higher(0, ReportResult(state, result).fail_streak) >= Higher(0, state.fail_streak)
    BY ReportedState, ProxyAssumption DEF StateOK, ProxyStates
  <2> QED
    BY <1>1, <2>1, ReportedState DEF ReportAnswer
<1>2. CASE result = "network"
  <2> DEFINE mid == ReportResult(state, "network")
             new == ReportResult(mid, "5xx")
  <2>1. {"network", "5xx"} \subseteq Results
    BY DEF Results, Failures
  <2>2. /\ StateOK(mid) /\ Reported(state, mid)
        /\ mid.fail_streak \in {state.fail_streak, Lower(state.fail_streak + 1, StreakCap)}
    BY <2>1, ReportedState DEF Reported
  <2>3. /\ StateOK(new) /\ Reported(mid, new)
        /\ new.fail_streak \in {mid.fail_streak, Lower(mid.fail_streak + 1, StreakCap)}
    BY <2>1, <2>2, ReportedState DEF Reported
  <2>4. /\ state.fail_streak \in Int /\ state.fail_streak <= Higher(0, StreakCap)
        /\ mid.fail_streak \in Int /\ mid.fail_streak <= Higher(0, StreakCap)
        /\ new.fail_streak \in Int
        /\ StreakCap \in Int /\ FailureThreshold \in Int
        /\ state.cooldown_until \in Nat /\ mid.cooldown_until \in Nat
        /\ new.cooldown_until \in Nat
    BY <2>2, <2>3, ProxyAssumption DEF StateOK, ProxyStates
  <2>5. Higher(0, mid.fail_streak) >= Higher(0, state.fail_streak)
    BY <2>2, <2>4
  <2>6. /\ Higher(0, new.fail_streak) >= Higher(0, mid.fail_streak)
        /\ mid.fail_streak >= 1 => new.fail_streak >= mid.fail_streak
    BY <2>3, <2>4
  <2>7. Reported(state, new)
    BY <2>2, <2>3, <2>4, <2>6 DEF Reported
  <2> QED
    BY <1>2, <2>4, <2>5, <2>6, <2>7 DEF ReportAnswer
<1> QED
  BY <1>1, <1>2

---------------------------------------------------------------------------
(* The states that a step finds *)

StatesOK(states) == \A p \in DOMAIN states : StateOK(states[p])

IInv == TypeOK /\ StatesOK(pool)

\* A new state for p, among those that the step found.
Updated(p, new) == loaded' = setting.proxies /\ pool' = With(States, p, new)

LEMMA FoundStates ==
    ASSUME IInv
    PROVE  /\ States \in [ToSet(setting.proxies) -> ProxyStates]
           /\ StatesOK(States)
           /\ ToSet(setting.proxies) \subseteq Proxies
           /\ loaded = setting.proxies => States = pool
           /\ loaded # setting.proxies =>
                States = [p \in ToSet(setting.proxies) |-> Fresh]
<1>1. Fresh \in ProxyStates
  BY DEF Fresh, ProxyStates
<1>2. StateOK(Fresh)
  BY <1>1, ProxyAssumption DEF StateOK, Fresh, IInv, TypeOK
<1> QED
  BY <1>1, <1>2 DEF IInv, TypeOK, StatesOK, States, Proxies

\* What a step may make of the pool.
Rewritten(states) ==
    \/ pool' = states
    \/ \E p \in DOMAIN states : \E new :
         /\ Reported(states[p], new)
         /\ pool' = [states EXCEPT ![p] = new]

PoolStep ==
    \/ loaded' = loaded /\ pool' = pool /\ now' >= now
    \/ now' = now /\ loaded' = setting.proxies /\ Rewritten(States)

LEMMA UpdateRewrites ==
    ASSUME IInv, NEW p, NEW new, p \in DOMAIN States => Reported(States[p], new),
           now' = now, Load(With(States, p, new))
    PROVE  PoolStep
BY DEF IInv, TypeOK, PoolStep, Rewritten, Load, With

LEMMA NextPool == ASSUME IInv, [Next]_vars PROVE PoolStep
<1> USE DEF IInv
<1>1. now \in Nat
  BY ProxyAssumption DEF TypeOK
<1>2. ASSUME now' = now, Load(States)
      PROVE  PoolStep
  BY <1>1, <1>2 DEF PoolStep, Rewritten, Load
<1>3. CASE UNCHANGED <<now, loaded, pool>>
  BY <1>1, <1>3 DEF PoolStep
<1>4. CASE Tick
  BY <1>1, <1>4 DEF Tick, PoolStep
<1>5. CASE Snapshot
  BY <1>2, <1>5 DEF Snapshot
<1>6. ASSUME NEW h \in Handlers, NEW u \in Users, Send(h, u)
      PROVE  PoolStep
  BY <1>2, <1>6 DEF Send
<1>7. ASSUME NEW h \in Handlers, NEW result \in Results, Answer(h, result)
      PROVE  PoolStep
  <2>1. CASE sent[h] = Direct
    BY <1>1, <1>7, <2>1 DEF Answer, PoolStep
  <2>2. CASE sent[h] # Direct
    <3> DEFINE p == sent[h]
    <3>1. p \in DOMAIN States => Reported(States[p], ReportAnswer(States[p], result))
      BY <1>1, FoundStates, AnsweredState DEF StatesOK
    <3>2. now' = now /\ Load(With(States, p, ReportAnswer(States[p], result)))
      BY <1>7, <2>2 DEF Answer
    <3> QED
      BY <3>1, <3>2, UpdateRewrites
  <2> QED
    BY <2>1, <2>2
<1>8. CASE KeepaliveStart
  BY <1>2, <1>8 DEF KeepaliveStart
<1>9. ASSUME NEW result \in Results, KeepaliveProbe(result)
      PROVE  PoolStep
  <2> DEFINE p == Head(probing)
  <2>1. p \in DOMAIN States => Reported(States[p], ReportResult(States[p], result))
    BY <1>1, FoundStates, ReportedState DEF StatesOK
  <2>2. now' = now /\ Load(With(States, p, ReportResult(States[p], result)))
    BY <1>9 DEF KeepaliveProbe
  <2> QED
    BY <2>1, <2>2, UpdateRewrites
<1> QED
  BY <1>3, <1>4, <1>5, <1>6, <1>7, <1>8, <1>9
  DEF Next, vars, Relay, Keepalive, Configure, Unreported, KeepaliveCancel

---------------------------------------------------------------------------
(* Types and bounds *)

LEMMA InitIInv == Init => IInv
<1> SUFFICES ASSUME Init PROVE IInv
  OBVIOUS
<1>1. TypeOK
  BY ProxyAssumption DEF Init, TypeOK, ToSet
<1>2. StatesOK(pool)
  BY DEF Init, StatesOK
<1> QED
  BY <1>1, <1>2 DEF IInv

\* The states that a step leaves.
LEMMA StatesStep ==
    ASSUME IInv, now' \in Nat, PoolStep
    PROVE  pool' \in [ToSet(loaded') -> ProxyStates] /\ StatesOK(pool)'
<1> USE DEF StatesOK, StateOK
<1>1. CASE loaded' = loaded /\ pool' = pool /\ now' >= now
  BY <1>1, ProxyAssumption DEF IInv, TypeOK, ProxyStates
<1>2. CASE now' = now /\ loaded' = setting.proxies /\ Rewritten(States)
  <2>1. CASE pool' = States
    BY <1>2, <2>1, FoundStates
  <2>2. ASSUME NEW p \in DOMAIN States, NEW new, Reported(States[p], new),
               pool' = [States EXCEPT ![p] = new]
        PROVE  pool' \in [ToSet(loaded') -> ProxyStates] /\ StatesOK(pool)'
    BY <1>2, <2>2, FoundStates DEF Reported
  <2> QED
    BY <1>2, <2>1, <2>2 DEF Rewritten
<1> QED
  BY <1>1, <1>2 DEF PoolStep

LEMMA ProxyForTyped ==
    ASSUME TypeOK, NEW u \in Users
    PROVE  ProxyFor(u) \subseteq Proxies \cup {Direct}
<1>1. \A i \in DOMAIN setting.proxies : setting.proxies[i] \in Proxies
  BY DEF TypeOK, Proxies, ToSet
<1>2. Chosen(u) \subseteq DOMAIN setting.proxies
  BY DEF Chosen, Available
<1> QED
  BY <1>1, <1>2 DEF ProxyFor

LEMMA NextIInv == IInv /\ [Next]_vars => IInv'
<1> SUFFICES ASSUME IInv, [Next]_vars PROVE IInv'
  OBVIOUS
<1>1. TypeOK
  BY DEF IInv
<1>2. PoolStep
  BY NextPool
<1>3. now' \in 0..MaxTime
  BY <1>1, ProxyAssumption
  DEF TypeOK, Next, vars, Tick, Configure, Snapshot, Relay, Keepalive, Send, Answer,
      Unreported, KeepaliveStart, KeepaliveProbe, KeepaliveCancel
<1>4. setting' \in Settings
  BY <1>1
  DEF TypeOK, Next, vars, Tick, Configure, Snapshot, Relay, Keepalive, Send, Answer,
      Unreported, KeepaliveStart, KeepaliveProbe, KeepaliveCancel
<1>5. pool' \in [ToSet(loaded') -> ProxyStates] /\ StatesOK(pool)'
  BY <1>2, <1>3, StatesStep
<1>6. loaded' \in {<<>>} \cup {s.proxies : s \in Settings}
  BY <1>1, <1>2 DEF TypeOK, PoolStep
<1>7. sent' \in [Handlers -> Proxies \cup {Direct, Nothing}]
  BY <1>1, ProxyForTyped
  DEF TypeOK, Next, vars, Tick, Configure, Snapshot, Relay, Keepalive, Send, Answer,
      Unreported, KeepaliveStart, KeepaliveProbe, KeepaliveCancel
<1>8. probing' \in Seq(Proxies)
  <2>1. setting.proxies \in Seq(Proxies)
    <3>1. setting.proxies \in Seq(ToSet(setting.proxies))
      BY <1>1, SettingsAssumption DEF TypeOK
    <3>2. ToSet(setting.proxies) \subseteq Proxies
      BY <1>1 DEF TypeOK, Proxies
    <3> QED
      BY <3>1, <3>2, SeqMonotonic
  <2>2. probing # <<>> => Tail(probing) \in Seq(Proxies)
    BY <1>1 DEF TypeOK
  <2>3. <<>> \in Seq(Proxies) /\ probing \in Seq(Proxies)
    BY <1>1 DEF TypeOK
  <2>4. \/ probing' \in {probing, <<>>, setting.proxies}
        \/ probing # <<>> /\ probing' = Tail(probing)
    BY DEF Next, vars, Tick, Configure, Snapshot, Relay, Keepalive, Send, Answer,
           Unreported, KeepaliveStart, KeepaliveProbe, KeepaliveCancel
  <2> QED
    BY <2>1, <2>2, <2>3, <2>4
<1> QED
  BY <1>3, <1>4, <1>5, <1>6, <1>7, <1>8 DEF IInv, TypeOK

LEMMA IInvHolds == Spec => []IInv
BY InitIInv, NextIInv, PTL DEF Spec

\* The states are always those of the proxies they were built from.
THEOREM TypeCorrect == Spec => []TypeOK
<1>1. IInv => TypeOK
  BY DEF IInv
<1> QED
  BY <1>1, IInvHolds, PTL

\* No rest goes further than the longest cooldown from the present.
THEOREM CooldownSafe == Spec => []CooldownBounded
<1>1. IInv => CooldownBounded
  BY DEF IInv, StatesOK, StateOK, CooldownBounded
<1> QED
  BY <1>1, IInvHolds, PTL

\* No answer, however late, shortens a rest.
THEOREM RestsAreKept == Spec => CooldownNotShortened
<1>1. IInv /\ [Next]_vars =>
        [loaded' = loaded =>
           \A p \in DOMAIN pool :
             pool'[p].cooldown_until >= pool[p].cooldown_until]_vars
  <2> SUFFICES ASSUME IInv, [Next]_vars, loaded' = loaded, NEW p \in DOMAIN pool
               PROVE  pool'[p].cooldown_until >= pool[p].cooldown_until
    OBVIOUS
  <2>1. pool[p].cooldown_until \in Nat
    BY DEF IInv, TypeOK, ProxyStates
  <2>2. CASE pool' = pool
    BY <2>1, <2>2
  <2>3. CASE loaded' = setting.proxies /\ Rewritten(States)
    BY <2>1, <2>3, FoundStates DEF Rewritten, Reported
  <2> QED
    BY <2>2, <2>3, NextPool DEF PoolStep
<1> QED
  BY <1>1, IInvHolds, PTL DEF Spec, CooldownNotShortened

---------------------------------------------------------------------------
(* The refinement of CircuitBreaker, a step at a time *)

Using == [p \in Proxies |-> Cardinality(Through(p))]

LEMMA UsingKept ==
    ASSUME \A p \in Proxies : Through(p)' = Through(p)
    PROVE  UNCHANGED Using
BY DEF Using

\* A request through no proxy begins or ends.
LEMMA UsingDirect ==
    ASSUME TypeOK, NEW h \in Handlers, sent[h] \in {Direct, Nothing},
           NEW new \in {Direct, Nothing}, sent' = [sent EXCEPT ![h] = new]
    PROVE  UNCHANGED Using
<1>1. \A p \in Proxies : Through(p)' = Through(p)
  BY ProxyNameAssumption DEF TypeOK, Through
<1> QED
  BY <1>1, UsingKept

LEMMA UsingBegins ==
    ASSUME TypeOK, NEW h \in Handlers, NEW p \in Proxies, sent[h] = Nothing,
           sent' = [sent EXCEPT ![h] = p]
    PROVE  Using' = [Using EXCEPT ![p] = @ + 1]
<1>1. Through(p)' = Through(p) \cup {h} /\ h \notin Through(p)
  BY ProxyNameAssumption DEF TypeOK, Through
<1>2. \A q \in Proxies \ {p} : Through(q)' = Through(q)
  BY ProxyNameAssumption DEF TypeOK, Through
<1>3. IsFiniteSet(Through(p))
  BY SlotAssumption, FS_Subset DEF Through
<1>4. Cardinality(Through(p)') = Cardinality(Through(p)) + 1
  BY <1>1, <1>3, FS_AddElement
<1> QED
  BY <1>2, <1>4 DEF Using

LEMMA UsingEnds ==
    ASSUME TypeOK, NEW h \in Handlers, NEW p \in Proxies, sent[h] = p,
           sent' = [sent EXCEPT ![h] = Nothing]
    PROVE  Using[p] > 0 /\ Using' = [Using EXCEPT ![p] = @ - 1]
<1>1. Through(p)' = Through(p) \ {h} /\ h \in Through(p)
  BY ProxyNameAssumption DEF TypeOK, Through
<1>2. \A q \in Proxies \ {p} : Through(q)' = Through(q)
  BY ProxyNameAssumption DEF TypeOK, Through
<1>3. IsFiniteSet(Through(p))
  BY SlotAssumption, FS_Subset DEF Through
<1>4. Cardinality(Through(p)') = Cardinality(Through(p)) - 1
  BY <1>1, <1>3, FS_RemoveElement
<1>5. Cardinality(Through(p)) \in Nat /\ Cardinality(Through(p)) # 0
  BY <1>1, <1>3, FS_CardinalityType, FS_EmptySet
<1>6. Using[p] = Cardinality(Through(p)) /\ Using[p] > 0
  BY <1>5 DEF Using
<1>7. Using' = [Using EXCEPT ![p] = @ - 1]
  BY <1>2, <1>4 DEF Using
<1> QED
  BY <1>6, <1>7

\* The breakers that a step finds are those of the states that it finds.
LEMMA FoundBreakers ==
    ASSUME IInv, loaded' = setting.proxies
    PROVE  /\ Breaker!FoundStrikes = StrikesIn(States)
           /\ Breaker!FoundRest = RestIn(States)
<1> USE DEF Breaker!FoundStrikes, Breaker!FoundRest, Breaker!Zero
<1>1. CASE loaded = setting.proxies
  BY <1>1, FoundStates
<1>2. CASE loaded # setting.proxies
  <2>1. \A p \in DOMAIN States : States[p] = Fresh
    BY <1>2, FoundStates
  <2>2. StrikesIn(States) = Breaker!Zero
    BY <2>1 DEF StrikesIn, Fresh
  <2>3. RestIn(States) = Breaker!Zero
    BY <2>1, ProxyAssumption DEF RestIn, Fresh, IInv, TypeOK
  <2> QED
    BY <1>2, <2>2, <2>3
<1> QED
  BY <1>1, <1>2

LEMMA BreakerKeeps ==
    ASSUME IInv, now' = now, Load(States)
    PROVE  Breaker!Keep
<1>1. CASE Enabled
  <2>1. loaded' = setting.proxies /\ pool' = States
    BY <1>1 DEF Load
  <2>2. StrikesIn(pool)' = StrikesIn(States) /\ RestIn(pool)' = RestIn(States)
    BY <2>1 DEF StrikesIn, RestIn
  <2> QED
    BY <2>1, <2>2, FoundBreakers DEF Breaker!Keep
<1>2. CASE ~Enabled
  BY <1>2 DEF Load, Breaker!Keep, Breaker!FoundStrikes, Breaker!FoundRest,
              StrikesIn, RestIn
<1> QED
  BY <1>1, <1>2

\* A report for p, on a request or a probe, is one the breaker of p allows.
LEMMA BreakerReports ==
    ASSUME IInv, now' = now, NEW p \in Proxies, NEW new, Load(With(States, p, new)),
           p \in DOMAIN States =>
             /\ Reported(States[p], new)
             /\ \/ new = [States[p] EXCEPT !.fail_streak = 0]
                \/ Higher(0, new.fail_streak) >= Higher(0, States[p].fail_streak)
    PROVE  Breaker!Report(p)
<1>1. CASE ~Enabled \/ p \notin DOMAIN States
  <2>1. Load(States)
    BY <1>1 DEF Load, With
  <2> QED
    BY <2>1, BreakerKeeps DEF Breaker!Report
<1>2. CASE Enabled /\ p \in DOMAIN States
  <2> DEFINE old == States[p]
  <2>1. loaded' = setting.proxies /\ pool' = [States EXCEPT ![p] = new]
    BY <1>2 DEF Load, With
  <2>2. Breaker!FoundStrikes = StrikesIn(States) /\ Breaker!FoundRest = RestIn(States)
    BY <2>1, FoundBreakers
  <2>3. DOMAIN States = ToSet(setting.proxies) /\ old \in ProxyStates /\ new \in ProxyStates
    BY <1>2, FoundStates DEF Reported, StateOK
  <2>4. /\ StrikesIn(pool)' = [StrikesIn(States) EXCEPT ![p] = Higher(0, new.fail_streak)]
        /\ RestIn(pool)' = [RestIn(States) EXCEPT ![p] = Higher(0, new.cooldown_until - now)]
    BY <1>2, <2>1, <2>3 DEF StrikesIn, RestIn
  <2>5. /\ StrikesIn(States)[p] = Higher(0, old.fail_streak)
        /\ RestIn(States)[p] = Higher(0, old.cooldown_until - now)
    BY <1>2 DEF StrikesIn, RestIn
  <2>6. CASE new = [old EXCEPT !.fail_streak = 0]
    <3>1. new.fail_streak = 0 /\ new.cooldown_until = old.cooldown_until
      BY <2>3, <2>6 DEF ProxyStates
    <3>2. RestIn(pool)' = RestIn(States)
      BY <2>4, <2>5, <3>1 DEF RestIn
    <3> QED
      BY <2>2, <2>4, <3>1, <3>2 DEF Breaker!Report, Breaker!Succeed
  <2>7. CASE Higher(0, new.fail_streak) >= Higher(0, old.fail_streak)
    <3>1. /\ StrikesIn(pool)'[p] = Higher(0, new.fail_streak)
          /\ RestIn(pool)'[p] = Higher(0, new.cooldown_until - now)
      BY <2>4 DEF StrikesIn, RestIn
    <3>2. /\ now \in Nat /\ MaxCooldown \in Int /\ FailureThreshold \in Int
          /\ old.cooldown_until \in Nat /\ new.cooldown_until \in Nat
          /\ new.fail_streak \in Int
      BY <2>3, ProxyAssumption DEF ProxyStates, IInv, TypeOK
    <3>3. /\ new.cooldown_until >= old.cooldown_until
          /\ new.cooldown_until <= now + Higher(0, MaxCooldown)
          /\ new.cooldown_until > old.cooldown_until =>
               new.fail_streak >= Higher(1, FailureThreshold)
      BY <1>2 DEF Reported, StateOK
    <3>4. /\ RestIn(pool)'[p] \in RestIn(States)[p] .. Higher(0, MaxCooldown)
          /\ RestIn(pool)'[p] > RestIn(States)[p] =>
               StrikesIn(pool)'[p] >= Higher(1, FailureThreshold)
      BY <2>5, <3>1, <3>2, <3>3
    <3> QED
      BY <2>2, <2>4, <2>5, <2>7, <3>1, <3>4 DEF Breaker!Report, Breaker!Fail
  <2> QED
    BY <1>2, <2>6, <2>7
<1> QED
  BY <1>1, <1>2

\* A chosen proxy is not resting, unless it is listed twice.
LEMMA BreakerOpen ==
    ASSUME IInv, now' = now, Load(States), NEW u \in Users, NEW p \in ProxyFor(u), p # Direct
    PROVE  p \in Proxies /\ (Breaker!FoundRest[p] = 0 \/ Breaker!ListedTwice(p))
<1>1. Enabled
  BY DEF ProxyFor
<1>2. PICK i \in Chosen(u) : p = setting.proxies[i]
  BY DEF ProxyFor
<1>3. i \in DOMAIN setting.proxies /\ (IsFirst(i) => States[p].cooldown_until <= now)
  BY <1>2 DEF Chosen, Available
<1>4. p \in ToSet(setting.proxies)
  BY <1>2, <1>3 DEF ToSet
<1>5. p \in Proxies /\ p \in DOMAIN States /\ States[p].cooldown_until \in Nat
  BY <1>4, FoundStates DEF ProxyStates
<1>6. CASE IsFirst(i)
  <2>1. Breaker!FoundRest = RestIn(States)
    BY <1>1, FoundBreakers DEF Load
  <2>2. RestIn(States)[p] = 0
    BY <1>3, <1>5, <1>6, ProxyAssumption DEF RestIn, IInv, TypeOK
  <2> QED
    BY <1>5, <2>1, <2>2
<1>7. CASE ~IsFirst(i)
  <2>1. PICK j \in DOMAIN setting.proxies : setting.proxies[j] = setting.proxies[i] /\ ~(i <= j)
    BY <1>7 DEF IsFirst
  <2>2. loaded' = setting.proxies
    BY <1>1 DEF Load
  <2>3. setting.proxies \in Seq(ToSet(setting.proxies))
    BY SettingsAssumption DEF IInv, TypeOK
  <2>4. i # j
    BY <1>3, <2>1, <2>3
  <2>5. Breaker!ListedTwice(p)
    BY <1>2, <1>3, <2>1, <2>2, <2>4 DEF Breaker!ListedTwice
  <2> QED
    BY <1>5, <2>5
<1> QED
  BY <1>6, <1>7

\* The breakers, as the refinement maps them.
breakers == <<loaded, StrikesIn(pool), RestIn(pool), Using>>

\* A report for p that changes no request in progress.
LEMMA Reporting ==
    ASSUME NEW p \in Proxies, Breaker!Report(p), UNCHANGED Using
    PROVE  Breaker!Next
BY DEF Breaker!Next, Using

\* A step that loads the pool and does no more is a report that says nothing.
LEMMA Loading ==
    ASSUME IInv, now' = now, Load(States), UNCHANGED Using
    PROVE  Breaker!Next \/ UNCHANGED breakers
<1>1. CASE Enabled
  <2>1. PICK p \in Proxies : TRUE
    <3>1. setting.proxies[1] \in ToSet(setting.proxies)
      <4>1. setting.proxies \in Seq(ToSet(setting.proxies)) /\ setting.proxies # <<>>
        BY <1>1, SettingsAssumption DEF IInv, TypeOK, Enabled
      <4>2. 1 \in DOMAIN setting.proxies
        BY <4>1
      <4> QED
        BY <4>2 DEF ToSet
    <3> QED
      BY <3>1, FoundStates
  <2>2. Breaker!Report(p)
    BY BreakerKeeps DEF Breaker!Report
  <2> QED
    BY <2>2, Reporting
<1>2. CASE ~Enabled
  BY <1>2 DEF Load, breakers, StrikesIn, RestIn
<1> QED
  BY <1>1, <1>2

LEMMA BreakerPasses == ASSUME IInv, Tick PROVE Breaker!Next
<1>1. now \in Nat /\ now' = now + 1 /\ UNCHANGED <<loaded, pool, sent>>
  BY ProxyAssumption DEF Tick, IInv, TypeOK
<1>2. StrikesIn(pool)' = StrikesIn(pool) /\ UNCHANGED Using
  BY <1>1 DEF StrikesIn, Using, Through
<1>3. RestIn(pool)' =
        [p \in Proxies |-> IF RestIn(pool)[p] > 0 THEN RestIn(pool)[p] - 1 ELSE 0]
  <2>1. \A p \in DOMAIN pool : pool[p].cooldown_until \in Nat
    BY DEF IInv, TypeOK, ProxyStates
  <2> QED
    BY <1>1, <2>1 DEF RestIn
<1>4. Breaker!Pass
  BY <1>1, <1>2, <1>3 DEF Breaker!Pass, Using
<1> QED
  BY <1>4 DEF Breaker!Next

LEMMA BreakerSends ==
    ASSUME IInv, NEW h \in Handlers, NEW u \in Users, Send(h, u)
    PROVE  Breaker!Next \/ UNCHANGED breakers
<1>1. TypeOK /\ sent[h] = Nothing /\ now' = now /\ Load(States)
  BY DEF IInv, Send
<1>2. PICK p \in ProxyFor(u) : sent' = [sent EXCEPT ![h] = p]
  BY DEF Send
<1>3. CASE p = Direct
  <2>1. UNCHANGED Using
    BY <1>1, <1>2, <1>3, UsingDirect
  <2> QED
    BY <1>1, <2>1, Loading
<1>4. CASE p # Direct
  <2>1. p \in Proxies /\ (Breaker!FoundRest[p] = 0 \/ Breaker!ListedTwice(p))
    BY <1>1, <1>4, BreakerOpen
  <2>2. Using' = [Using EXCEPT ![p] = @ + 1]
    BY <1>1, <1>2, <2>1, UsingBegins
  <2>3. Breaker!Begin(p)
    BY <1>1, <2>1, <2>2, BreakerKeeps DEF Breaker!Begin, Using
  <2> QED
    BY <2>1, <2>3 DEF Breaker!Next
<1> QED
  BY <1>3, <1>4

\* A request that ends with a report, or with none, ends for the breaker too.
LEMMA BreakerEnds ==
    ASSUME IInv, NEW h \in Handlers, NEW p \in Proxies, sent[h] = p,
           sent' = [sent EXCEPT ![h] = Nothing], Breaker!Report(p)
    PROVE  Breaker!Next
<1>1. Using[p] > 0 /\ Using' = [Using EXCEPT ![p] = @ - 1]
  BY UsingEnds DEF IInv
<1>2. Breaker!End(p)
  BY <1>1 DEF Breaker!End, Using
<1> QED
  BY <1>2 DEF Breaker!Next

LEMMA BreakerAnswers ==
    ASSUME IInv, NEW h \in Handlers, NEW result \in Results, Answer(h, result)
    PROVE  Breaker!Next \/ UNCHANGED breakers
<1>1. TypeOK /\ sent[h] # Nothing /\ now' = now /\ sent' = [sent EXCEPT ![h] = Nothing]
  BY DEF IInv, Answer
<1>2. CASE sent[h] = Direct
  <2>1. UNCHANGED Using
    BY <1>1, <1>2, UsingDirect
  <2> QED
    BY <1>1, <1>2, <2>1 DEF Answer, breakers, StrikesIn, RestIn
<1>3. CASE sent[h] # Direct
  <2> DEFINE p == sent[h]
             new == ReportAnswer(States[p], result)
  <2>1. p \in Proxies /\ Load(With(States, p, new))
    BY <1>1, <1>3 DEF Answer, TypeOK
  <2>2. p \in DOMAIN States =>
          /\ Reported(States[p], new)
          /\ \/ new = [States[p] EXCEPT !.fail_streak = 0]
             \/ Higher(0, new.fail_streak) >= Higher(0, States[p].fail_streak)
    BY <1>1, FoundStates, AnsweredState, ProxyAssumption DEF TypeOK, StatesOK
  <2>3. Breaker!Report(p)
    BY <1>1, <2>1, <2>2, BreakerReports
  <2> QED
    BY <1>1, <2>1, <2>3, BreakerEnds
<1> QED
  BY <1>2, <1>3

LEMMA BreakerDrops ==
    ASSUME IInv, NEW h \in Handlers, Unreported(h)
    PROVE  Breaker!Next \/ UNCHANGED breakers
<1>1. /\ TypeOK /\ sent[h] # Nothing /\ sent' = [sent EXCEPT ![h] = Nothing]
      /\ UNCHANGED <<now, loaded, pool>>
  BY DEF IInv, Unreported
<1>2. CASE sent[h] = Direct
  <2>1. UNCHANGED Using
    BY <1>1, <1>2, UsingDirect
  <2> QED
    BY <1>1, <2>1 DEF breakers, StrikesIn, RestIn
<1>3. CASE sent[h] # Direct
  <2>1. sent[h] \in Proxies
    BY <1>1, <1>3 DEF TypeOK
  <2>2. Breaker!Keep
    BY <1>1 DEF Breaker!Keep, Breaker!FoundStrikes, Breaker!FoundRest, StrikesIn, RestIn
  <2>3. Breaker!Report(sent[h])
    BY <2>2 DEF Breaker!Report
  <2> QED
    BY <1>1, <2>1, <2>3, BreakerEnds
<1> QED
  BY <1>2, <1>3

LEMMA BreakerProbes ==
    ASSUME IInv, NEW result \in Results, KeepaliveProbe(result)
    PROVE  Breaker!Next
<1> DEFINE p == Head(probing)
           new == ReportResult(States[p], result)
<1>1. /\ TypeOK /\ now' = now /\ UNCHANGED sent /\ p \in Proxies
      /\ Load(With(States, p, new))
  BY DEF IInv, TypeOK, KeepaliveProbe
<1>2. UNCHANGED Using
  BY <1>1 DEF Using, Through
<1>3. ASSUME p \in DOMAIN States
      PROVE  /\ Reported(States[p], new)
             /\ \/ new = [States[p] EXCEPT !.fail_streak = 0]
                \/ Higher(0, new.fail_streak) >= Higher(0, States[p].fail_streak)
  <2>1. now \in Nat /\ StateOK(States[p])
    BY <1>1, <1>3, FoundStates, ProxyAssumption DEF TypeOK, StatesOK
  <2> QED
    BY <2>1, ReportedState, ProxyAssumption DEF StateOK, ProxyStates
<1>4. Breaker!Report(p)
  BY <1>1, <1>3, BreakerReports
<1> QED
  BY <1>1, <1>2, <1>4, Reporting

LEMMA NextBreaker ==
    ASSUME IInv, [Next]_vars
    PROVE  Breaker!Next \/ UNCHANGED breakers
<1>1. CASE Snapshot \/ KeepaliveStart
  <2>1. now' = now /\ Load(States) /\ UNCHANGED Using
    BY <1>1 DEF Snapshot, KeepaliveStart, Using, Through
  <2> QED
    BY <2>1, Loading
<1>2. CASE UNCHANGED <<now, loaded, pool, sent>>
  BY <1>2 DEF breakers, Using, Through, StrikesIn, RestIn
<1> QED
  BY <1>1, <1>2, BreakerPasses, BreakerSends, BreakerAnswers, BreakerDrops, BreakerProbes
  DEF Next, vars, Relay, Keepalive, Configure, KeepaliveCancel

\* The pool implements a breaker for each proxy.
THEOREM PoolImplementsBreaker == Spec => ImplementsBreaker
<1>1. Init => Breaker!Init
  <2> SUFFICES ASSUME Init PROVE Breaker!Init
    OBVIOUS
  <2>1. StrikesIn(pool) = Breaker!Zero /\ RestIn(pool) = Breaker!Zero
    BY DEF Init, StrikesIn, RestIn, Breaker!Zero
  <2>2. \A p \in Proxies : Through(p) = {}
    BY ProxyNameAssumption DEF Init, Through
  <2>3. Using = Breaker!Zero
    BY <2>2, FS_EmptySet DEF Using, Breaker!Zero
  <2> QED
    BY <2>1, <2>3 DEF Init, Breaker!Init, Using
<1>2. IInv /\ [Next]_vars => [Breaker!Next]_breakers
  BY NextBreaker
<1> QED
  BY <1>1, <1>2, IInvHolds, PTL DEF Spec, ImplementsBreaker, Breaker!Spec, breakers, Using

---------------------------------------------------------------------------
(* The failures behind a state *)

LEMMA CooldownPositive ==
    ASSUME CanRest, NEW result \in Handled, NEW streak \in Int, streak >= 1
    PROVE  Cooldown(result, streak) > 0
<1>1. 2 ^ (streak - 1) \in Nat \ {0}
  BY PowerOfTwo
<1>2. Base[result] \in Nat \ {0}
  BY ProxyAssumption DEF CanRest
<1>3. \A a, b \in Nat \ {0} : a * b \in Nat \ {0}
  OBVIOUS
<1>4. Base[result] * 2 ^ (streak - 1) \in Nat \ {0}
  BY <1>1, <1>2, <1>3
<1> QED
  BY <1>4, ProxyAssumption DEF Cooldown, CanRest

\* An answer or a probe with the reports makes new of a state, when so many
\* failures in a row precede it and so many result.
Noted(state, new, reports, before, after) ==
    LET failed == "ok" \notin reports /\ reports \cap Handled # {}
    IN  /\ after = IF "ok" \in reports THEN 0
                   ELSE IF failed THEN Lower(before + 1, MaxFailures) ELSE before
        /\ "ok" \in reports => new.fail_streak = 0
        /\ ~failed /\ "ok" \notin reports => new = state
        /\ failed =>
             /\ new.fail_streak >= Lower(state.fail_streak + 1, StreakCap)
             /\ new.fail_streak <= state.fail_streak + 2
             /\ new.fail_streak <= StreakCap
             /\ new.fail_streak >= Higher(1, FailureThreshold) =>
                  \E r \in Handled : new.cooldown_until >= now + Cooldown(r, new.fail_streak)

LEMMA NotedReport ==
    ASSUME now \in Nat, NEW state, StateOK(state), NEW result \in Results,
           NEW before, NEW after,
           after = IF "ok" \in {result} THEN 0
                   ELSE IF {result} \cap Handled # {} THEN Lower(before + 1, MaxFailures)
                   ELSE before
    PROVE  Noted(state, ReportResult(state, result), {result}, before, after)
<1> DEFINE new == ReportResult(state, result)
<1>1. state.fail_streak \in Int /\ StreakCap \in Int
  BY ProxyAssumption DEF StateOK, ProxyStates
<1>2. CASE result = "ok"
  BY <1>1, <1>2, ReportedState DEF Noted, StateOK, ProxyStates
<1>3. CASE result \in Handled /\ result # "ok"
  BY <1>1, <1>3, ReportedState DEF Noted
<1>4. CASE result \notin Handled \cup {"ok"}
  BY <1>4, ReportedState DEF Noted
<1> QED
  BY <1>2, <1>3, <1>4

LEMMA NotedAnswer ==
    ASSUME now \in Nat, NEW state, StateOK(state), NEW result \in Results,
           NEW before, NEW after,
           after = IF "ok" \in Reports(result) THEN 0
                   ELSE IF Reports(result) \cap Handled # {}
                        THEN Lower(before + 1, MaxFailures)
                   ELSE before
    PROVE  Noted(state, ReportAnswer(state, result), Reports(result), before, after)
<1>1. CASE result # "network"
  BY <1>1, NotedReport DEF Reports, ReportAnswer
<1>2. CASE result = "network"
  <2> DEFINE mid == ReportResult(state, "network")
             new == ReportResult(mid, "5xx")
  <2>1. {"network", "5xx"} \subseteq Results /\ "ok" \notin {"network", "5xx"}
    BY DEF Results, Failures
  <2>2. StateOK(mid)
    BY <2>1, ReportedState DEF Reported
  <2>3. /\ "network" \in Handled =>
             /\ mid.fail_streak = Lower(state.fail_streak + 1, StreakCap)
             /\ mid.fail_streak >= Higher(1, FailureThreshold) =>
                  mid.cooldown_until >= now + Cooldown("network", mid.fail_streak)
        /\ "network" \notin Handled => mid = state
    BY <2>1, ReportedState
  <2>4. /\ "5xx" \in Handled =>
             /\ new.fail_streak = Lower(mid.fail_streak + 1, StreakCap)
             /\ new.fail_streak >= Higher(1, FailureThreshold) =>
                  new.cooldown_until >= now + Cooldown("5xx", new.fail_streak)
        /\ "5xx" \notin Handled => new = mid
    BY <2>1, <2>2, ReportedState
  <2>5. /\ state.fail_streak \in Int /\ mid.fail_streak \in Int /\ StreakCap \in Int
        /\ FailureThreshold \in Int
    BY <2>2, ProxyAssumption DEF StateOK, ProxyStates
  <2>6. CASE {"network", "5xx"} \cap Handled = {}
    BY <1>2, <2>1, <2>3, <2>4, <2>6 DEF Noted, Reports, ReportAnswer
  <2>7. CASE {"network", "5xx"} \cap Handled # {}
    <3>1. /\ new.fail_streak >= Lower(state.fail_streak + 1, StreakCap)
          /\ new.fail_streak <= state.fail_streak + 2
          /\ new.fail_streak <= StreakCap
      BY <2>3, <2>4, <2>5, <2>7
    <3>2. new.fail_streak >= Higher(1, FailureThreshold) =>
            \E r \in Handled : new.cooldown_until >= now + Cooldown(r, new.fail_streak)
      BY <2>3, <2>4, <2>7
    <3> QED
      BY <1>2, <2>1, <2>7, <3>1, <3>2 DEF Noted, Reports, ReportAnswer
  <2> QED
    BY <2>6, <2>7
<1> QED
  BY <1>1, <1>2

---------------------------------------------------------------------------
(* The failures counted beside the pool *)

Explained(states, count) ==
    \A p \in DOMAIN states :
        /\ Lower(count[p], StreakCap) <= states[p].fail_streak
        /\ StreakCap <= 2 * MaxFailures => states[p].fail_streak <= 2 * count[p]

HInv ==
    /\ IInv
    /\ failures \in [Proxies -> 0..MaxFailures]
    /\ Explained(pool, failures)

\* A step that counts no failure, and one that counts those of p.
Quiet ==
    /\ failures' = Kept
    /\ UNCHANGED <<loaded, pool>> \/ Load(States)

NotedFor(p, new, reports, after) ==
    /\ now' = now
    /\ loaded' = setting.proxies
    /\ pool' = [States EXCEPT ![p] = new]
    /\ failures' = [Kept EXCEPT ![p] = after]
    /\ Noted(States[p], new, reports, Kept[p], after)

Noting ==
    \E p \in DOMAIN States : \E new, reports, after : NotedFor(p, new, reports, after)

LEMMA HistoryStep == HistoryNext => Next
BY DEF HistoryNext, Next, Relay, Keepalive

\* A count goes with the report it is for.
LEMMA CountNotes ==
    ASSUME HInv, now' = now, NEW p \in Proxies, NEW new, NEW reports, Count(p, reports),
           Load(With(States, p, new)),
           \A before, after :
             p \in DOMAIN States /\
             after = (IF "ok" \in reports THEN 0
                      ELSE IF reports \cap Handled # {} THEN Lower(before + 1, MaxFailures)
                      ELSE before) =>
               Noted(States[p], new, reports, before, after)
    PROVE  Quiet \/ Noting
<1> DEFINE after == IF "ok" \in reports THEN 0
                    ELSE IF reports \cap Handled # {} THEN Lower(Kept[p] + 1, MaxFailures)
                    ELSE Kept[p]
<1>1. CASE ~Enabled
  BY <1>1 DEF Count, Load, Quiet
<1>2. CASE Enabled
  <2>1. loaded' = setting.proxies /\ pool' = With(States, p, new)
    BY <1>2 DEF Load
  <2>2. DOMAIN pool' = DOMAIN States
    BY <2>1, FoundStates DEF HInv, With
  <2>3. CASE p \notin DOMAIN States
    BY <1>2, <2>1, <2>2, <2>3 DEF Count, Quiet, Load, With
  <2>4. CASE p \in DOMAIN States
    <3>1. failures' = [Kept EXCEPT ![p] = after]
      BY <1>2, <2>2, <2>4 DEF Count
    <3>2. Noted(States[p], new, reports, Kept[p], after)
      BY <2>4
    <3>3. NotedFor(p, new, reports, after)
      BY <2>1, <2>4, <3>1, <3>2 DEF NotedFor, With
    <3> QED
      BY <2>4, <3>3 DEF Noting
  <2> QED
    BY <2>3, <2>4
<1> QED
  BY <1>1, <1>2

LEMMA NextNotes == ASSUME HInv, [HistoryNext]_allVars PROVE Quiet \/ Noting
<1> USE DEF HInv
<1>1. now \in Nat /\ TypeOK
  BY ProxyAssumption DEF IInv, TypeOK
<1>2. CASE UNCHANGED allVars
  BY <1>2 DEF allVars, vars, Quiet, Kept
<1>3. ASSUME NEW h \in Handlers, NEW result \in Results, Answer(h, result),
             Count(sent[h], Reports(result))
      PROVE  Quiet \/ Noting
  <2>1. CASE sent[h] = Direct
    <3>1. UNCHANGED <<loaded, pool>>
      BY <1>3, <2>1 DEF Answer
    <3>2. Direct \notin DOMAIN pool'
      <4>1. DOMAIN pool \subseteq Proxies
        <5>1. CASE loaded = <<>>
          BY <1>1, <5>1 DEF TypeOK, ToSet
        <5>2. CASE loaded # <<>>
          BY <1>1, <5>2 DEF TypeOK, Proxies
        <5> QED
          BY <5>1, <5>2
      <4> QED
        BY <3>1, <4>1, ProxyNameAssumption
    <3> QED
      BY <1>3, <2>1, <3>1, <3>2 DEF Count, Quiet
  <2>2. CASE sent[h] # Direct
    <3> DEFINE p == sent[h]
    <3>1. /\ p \in Proxies /\ now' = now
          /\ Load(With(States, p, ReportAnswer(States[p], result)))
      BY <1>1, <1>3, <2>2 DEF Answer, TypeOK
    <3>2. p \in DOMAIN States => StateOK(States[p])
      BY FoundStates DEF StatesOK
    <3>3. ASSUME NEW before, NEW after, p \in DOMAIN States,
                 after = (IF "ok" \in Reports(result) THEN 0
                          ELSE IF Reports(result) \cap Handled # {}
                               THEN Lower(before + 1, MaxFailures)
                          ELSE before)
          PROVE  Noted(States[p], ReportAnswer(States[p], result), Reports(result),
                       before, after)
      BY <1>1, <3>2, <3>3, NotedAnswer
    <3> QED
      BY <1>3, <3>1, <3>3, CountNotes
  <2> QED
    BY <2>1, <2>2
<1>4. ASSUME NEW result \in Results, KeepaliveProbe(result), Count(Head(probing), {result})
      PROVE  Quiet \/ Noting
  <2> DEFINE p == Head(probing)
  <2>1. /\ p \in Proxies /\ now' = now
        /\ Load(With(States, p, ReportResult(States[p], result)))
    BY <1>1, <1>4 DEF KeepaliveProbe, TypeOK
  <2>2. p \in DOMAIN States => StateOK(States[p])
    BY FoundStates DEF StatesOK
  <2>3. ASSUME NEW before, NEW after, p \in DOMAIN States,
               after = (IF "ok" \in {result} THEN 0
                        ELSE IF {result} \cap Handled # {}
                             THEN Lower(before + 1, MaxFailures)
                        ELSE before)
        PROVE  Noted(States[p], ReportResult(States[p], result), {result}, before, after)
    BY <1>1, <2>2, <2>3, NotedReport
  <2> QED
    BY <1>4, <2>1, <2>3, CountNotes
<1> QED
  BY <1>2, <1>3, <1>4
  DEF HistoryNext, Quiet, Tick, Configure, Unreported, Send, Snapshot, KeepaliveStart,
      KeepaliveCancel

\* The failures that a step finds.
LEMMA KeptFailures ==
    ASSUME HInv
    PROVE  /\ Kept \in [Proxies -> 0..MaxFailures]
           /\ loaded' = setting.proxies => Explained(States, Kept)
<1>1. Kept \in [Proxies -> 0..MaxFailures]
  BY MaxFailuresAssumption DEF HInv, Kept
<1>2. CASE loaded' = setting.proxies /\ loaded' = loaded
  BY <1>2, FoundStates DEF HInv, Kept
<1>3. CASE loaded' = setting.proxies /\ loaded' # loaded
  <2>1. States = [p \in ToSet(setting.proxies) |-> Fresh]
    BY <1>3, FoundStates DEF HInv
  <2>2. ToSet(setting.proxies) \subseteq Proxies
    BY FoundStates DEF HInv
  <2> QED
    BY <1>1, <1>3, <2>1, <2>2, ProxyAssumption DEF Explained, Kept, Fresh
<1> QED
  BY <1>1, <1>2, <1>3

LEMMA NextHInv == HInv /\ [HistoryNext]_allVars => HInv'
<1> SUFFICES ASSUME HInv, [HistoryNext]_allVars PROVE HInv'
  OBVIOUS
<1>1. IInv'
  BY HistoryStep, NextIInv DEF HInv, allVars, vars
<1>2. CASE Quiet
  <2>1. failures' \in [Proxies -> 0..MaxFailures]
    BY <1>2, KeptFailures DEF Quiet
  <2>2. CASE UNCHANGED <<loaded, pool>>
    BY <1>1, <1>2, <2>2 DEF Quiet, HInv, Kept, Explained
  <2>3. CASE Load(States) /\ Enabled
    BY <1>1, <1>2, <2>1, <2>3, KeptFailures DEF Quiet, HInv, Load
  <2>4. CASE Load(States) /\ ~Enabled
    BY <1>1, <1>2, <2>4 DEF Quiet, HInv, Load, Kept, Explained
  <2> QED
    BY <1>2, <2>2, <2>3, <2>4 DEF Quiet
<1>3. ASSUME NEW p \in DOMAIN States, NEW new, NEW reports, NEW after,
             NotedFor(p, new, reports, after)
      PROVE  HInv'
  <2> DEFINE old == States[p]
             before == Kept[p]
  <2>1. /\ old.fail_streak \in Int /\ StreakCap \in Int /\ MaxFailures \in Nat
        /\ p \in Proxies /\ DOMAIN States \subseteq Proxies
    BY FoundStates, ProxyAssumption, MaxFailuresAssumption DEF HInv, ProxyStates
  <2>2. /\ before \in 0..MaxFailures /\ Kept \in [Proxies -> 0..MaxFailures]
        /\ Explained(States, Kept)
    BY <1>3, <2>1, KeptFailures DEF NotedFor
  <2>3. /\ loaded' = setting.proxies /\ pool' = [States EXCEPT ![p] = new]
        /\ failures' = [Kept EXCEPT ![p] = after]
    BY <1>3 DEF NotedFor
  <2>4. new.fail_streak \in Int
    <3>1. pool'[p] = new /\ p \in DOMAIN pool'
      BY <2>3
    <3> QED
      BY <1>1, <3>1 DEF IInv, TypeOK, ProxyStates
  <2>5. after \in 0..MaxFailures
    BY <1>3, <2>1, <2>2 DEF NotedFor, Noted
  <2>6. /\ Lower(before, StreakCap) <= old.fail_streak
        /\ StreakCap <= 2 * MaxFailures => old.fail_streak <= 2 * before
    BY <2>2 DEF Explained
  <2>7. /\ Lower(after, StreakCap) <= new.fail_streak
        /\ StreakCap <= 2 * MaxFailures => new.fail_streak <= 2 * after
    BY <1>3, <2>1, <2>2, <2>4, <2>6 DEF NotedFor, Noted
  <2>8. Explained(pool, failures)'
    BY <2>1, <2>2, <2>3, <2>7 DEF Explained
  <2> QED
    BY <1>1, <2>2, <2>3, <2>5, <2>8 DEF HInv
<1> QED
  BY <1>2, <1>3, NextNotes DEF Noting

LEMMA InitHInv == HistoryInit => HInv
BY InitIInv, MaxFailuresAssumption DEF HistoryInit, HInv, Explained, Init

LEMMA HInvHolds == HistorySpec => []HInv
BY InitHInv, NextHInv, PTL DEF HistorySpec

\* The streak of every state is explained by the failures that have come in, if
\* they are counted as far as half the cap.
THEOREM StreaksAreExplained ==
    ASSUME StreakCap <= 2 * MaxFailures
    PROVE  HistorySpec => []StreakExplained
<1>1. HInv => StreakExplained
  BY DEF HInv, Explained, StreakExplained
<1> QED
  BY <1>1, HInvHolds, PTL

\* With as many failures in a row as the threshold a proxy rests, and again with
\* each one after.
THEOREM FailingProxiesRest == HistorySpec => FailingProxyRests
<1> DEFINE Rests == \A p \in Proxies :
              CanRest /\ failures'[p] > failures[p] /\ failures'[p] >= FailureThreshold =>
                pool'[p].cooldown_until > now
<1>1. HInv /\ HInv' /\ [HistoryNext]_allVars => [Rests]_allVars
  <2> SUFFICES ASSUME HInv, HInv', HistoryNext, NEW q \in Proxies, CanRest,
                      failures'[q] > failures[q], failures'[q] >= FailureThreshold
               PROVE  pool'[q].cooldown_until > now
    OBVIOUS
  <2>1. /\ failures[q] \in Nat /\ failures'[q] \in 1..MaxFailures
        /\ StreakCap \in Int /\ FailureThreshold \in Int /\ MaxFailures \in Nat /\ now \in Nat
    BY ProxyAssumption, MaxFailuresAssumption DEF HInv, IInv, TypeOK
  <2>2. Kept[q] \in {failures[q], 0}
    BY DEF Kept
  <2>3. ~Quiet
    BY <2>1, <2>2 DEF Quiet
  <2>p. PICK p \in DOMAIN States :
               \E new, reports, after : NotedFor(p, new, reports, after)
    BY <2>3, NextNotes DEF Noting
  <2>4. PICK new, reports, after : NotedFor(p, new, reports, after)
    BY <2>p
  <2>5. q = p
    BY <2>1, <2>2, <2>4 DEF NotedFor
  <2>6. pool'[q] = new /\ q \in DOMAIN pool' /\ after = failures'[q]
    <3>1. Kept \in [Proxies -> 0..MaxFailures]
      BY KeptFailures
    <3> QED
      BY <2>4, <2>5, <3>1 DEF NotedFor
  <2>7. "ok" \notin reports /\ reports \cap Handled # {}
    BY <2>1, <2>2, <2>4, <2>5, <2>6 DEF NotedFor, Noted
  <2>8. /\ new.fail_streak \in Int /\ new.cooldown_until \in Nat
        /\ Lower(failures'[q], StreakCap) <= new.fail_streak
    BY <2>6 DEF HInv, IInv, TypeOK, ProxyStates, Explained
  <2>9. new.fail_streak >= Higher(1, FailureThreshold) /\ new.fail_streak >= 1
    BY <2>1, <2>8 DEF CanRest
  <2>10. PICK r \in Handled : new.cooldown_until >= now + Cooldown(r, new.fail_streak)
    BY <2>4, <2>7, <2>9 DEF NotedFor, Noted
  <2>11. Cooldown(r, new.fail_streak) > 0 /\ Cooldown(r, new.fail_streak) \in Int
    <3>1. Cooldown(r, new.fail_streak) > 0
      BY <2>8, <2>9, CooldownPositive
    <3>2. 2 ^ (new.fail_streak - 1) \in Nat /\ Base[r] \in Int /\ MaxCooldown \in Int
      BY <2>8, <2>9, PowerOfTwo, ProxyAssumption
    <3> QED
      BY <3>1, <3>2 DEF Cooldown
  <2> QED
    BY <2>1, <2>6, <2>8, <2>10, <2>11
<1> QED
  BY <1>1, HInvHolds, PTL DEF HistorySpec, FailingProxyRests

===========================================================================
