------------------------ MODULE UpstreamProxyPool ------------------------
(***************************************************************************)
(* The upstream proxy pool of one process (UpstreamProxyPool): class       *)
(* attributes that the relay's handlers and the keepalive loop read and    *)
(* write between awaits. A handler gets its proxy before it awaits NovelAI *)
(* and reports the result after, when the pool may have been reconfigured. *)
(*                                                                         *)
(* Not kept: last_error and the masking of credentials.                    *)
(***************************************************************************)
EXTENDS Integers, FiniteSets, Sequences, SequencesExt

CONSTANTS
    Settings,     \* values of upstream_proxy_mode and upstream_proxies
    Users,
    UserHash,     \* user -> the number its digest gives
    Handlers,     \* slots for relayed requests in progress
    Handled,      \* failures counted: upstream_proxy_handle_429/5xx/network_errors
    FailureThreshold,  \* upstream_proxy_failure_threshold
    StreakCap,    \* upstream_proxy_fail_streak_cap
    Base,         \* upstream_proxy_cooldown_429/5xx/error_seconds
    MaxCooldown,  \* upstream_proxy_max_cooldown_seconds
    MaxTime       \* bound on the clock

Failures == {"429", "5xx", "network"}

ASSUME SettingsAssumption ==
    \A s \in Settings : s.on \in BOOLEAN /\ s.proxies \in Seq(ToSet(s.proxies))
ASSUME UserAssumption == UserHash \in [Users -> Nat]
ASSUME ProxyAssumption ==
    /\ Handled \subseteq Failures
    /\ Base \in [Failures -> Int]
    /\ {FailureThreshold, StreakCap, MaxCooldown} \subseteq Int
    /\ MaxTime \in Nat

VARIABLES
    now,        \* time.time()
    setting,    \* the two settings, as this process has them
    loaded,     \* the proxies that _states was built from (_raw)
    pool,       \* _states: proxy -> ProxyState, the first with its URL
    sent,       \* handler -> the proxy of its request, while it awaits NovelAI
    probing     \* proxies the keepalive round has still to probe

vars == <<now, setting, loaded, pool, sent, probing>>

Direct == "direct"       \* get_proxy_for_user returns None
Nothing == "none"
Fresh == [cooldown_until |-> 0, fail_streak |-> 0]
Proxies == UNION {ToSet(s.proxies) : s \in Settings}

ASSUME SlotAssumption == IsFiniteSet(Handlers)
ASSUME ProxyNameAssumption == {Direct, Nothing} \cap Proxies = {}

\* upstream_proxy_mode is "proxy_pool" and upstream_proxies is not empty.
Enabled == setting.on /\ setting.proxies # <<>>

\* _load_states: the states are built anew when the setting has changed, one for
\* each entry of the list. A URL may be listed more than once: report_result finds
\* the first of its states, and the others stay as they were built (Fresh).
States ==
    IF loaded = setting.proxies THEN pool
    ELSE [p \in ToSet(setting.proxies) |-> Fresh]

Init ==
    /\ now = 0
    /\ setting \in Settings
    /\ loaded = <<>>
    /\ pool = [p \in {} |-> Fresh]
    /\ sent = [h \in Handlers |-> Nothing]
    /\ probing = <<>>

Tick ==
    /\ now < MaxTime
    /\ now' = now + 1
    /\ UNCHANGED <<setting, loaded, pool, sent, probing>>

\* An administrator, or the refresh of the shared configuration.
Configure(s) ==
    /\ setting' = s
    /\ UNCHANGED <<now, loaded, pool, sent, probing>>

---------------------------------------------------------------------------
(* Choosing a proxy *)

\* The position is the first of its proxy.
IsFirst(i) == \A j \in DOMAIN setting.proxies : setting.proxies[j] = setting.proxies[i] => i <= j

\* The positions of the states available at this moment
Available ==
    {i \in DOMAIN setting.proxies :
        IsFirst(i) => States[setting.proxies[i]].cooldown_until <= now}

\* Faulty: the digest indexes all proxies, resting or not.
ChosenOfAll(u) ==
    {i \in DOMAIN setting.proxies : i = (UserHash[u] % Len(setting.proxies)) + 1}

\* The digest indexes the available ones, in their order.
Chosen(u) ==
    {i \in Available :
        Cardinality({j \in Available : j < i}) = UserHash[u] % Cardinality(Available)}

ProxyFor(u) ==
    IF ~Enabled \/ Available = {} THEN {Direct}
    ELSE {setting.proxies[i] : i \in Chosen(u)}

\* Faulty: _raw is not set.
LoadPool(states) ==
    IF Enabled THEN pool' = states /\ UNCHANGED loaded
    ELSE UNCHANGED <<loaded, pool>>

Load(states) ==
    IF Enabled THEN loaded' = setting.proxies /\ pool' = states
    ELSE UNCHANGED <<loaded, pool>>

Send(h, u) ==
    /\ sent[h] = Nothing
    /\ \E p \in ProxyFor(u) : sent' = [sent EXCEPT ![h] = p]
    /\ Load(States)
    /\ UNCHANGED <<now, setting, probing>>

---------------------------------------------------------------------------
(* Reporting a result *)

Lower(a, b)  == IF a < b THEN a ELSE b
Higher(a, b) == IF a < b THEN b ELSE a

\* Faulty: a success ends the cooldown.
SucceededClears(state) == Fresh

\* Faulty: the streak is kept.
SucceededKeeps(state) == state

Succeeded(state) == [state EXCEPT !.fail_streak = 0]

\* Faulty: the longest cooldown is the shortest.
CooldownHigher(result, streak) == Higher(Base[result] * 2 ^ (streak - 1), MaxCooldown)

Cooldown(result, streak) == Lower(Base[result] * 2 ^ (streak - 1), MaxCooldown)

\* Faulty: the threshold must be exceeded.
FailedAbove(state, result) ==
    LET streak == Lower(state.fail_streak + 1, StreakCap)
    IN  [fail_streak |-> streak,
         cooldown_until |->
            IF streak <= Higher(1, FailureThreshold) THEN state.cooldown_until
            ELSE Higher(state.cooldown_until, now + Cooldown(result, streak))]

Failed(state, result) ==
    LET streak == Lower(state.fail_streak + 1, StreakCap)
    IN  [fail_streak |-> streak,
         cooldown_until |->
            IF streak < Higher(1, FailureThreshold) THEN state.cooldown_until
            ELSE Higher(state.cooldown_until, now + Cooldown(result, streak))]

\* "ok" is any status below 500 but 429: a 4xx is the key's fault.
ReportResult(state, result) ==
    IF result = "ok" THEN Succeeded(state)
    ELSE IF result \in Handled THEN Failed(state, result)
    ELSE state

\* A network error is reported as such by the handler's except clause and then
\* once more as the 502 it is turned into.
ReportAnswer(state, result) ==
    IF result = "network" THEN ReportResult(ReportResult(state, "network"), "5xx")
    ELSE ReportResult(state, result)

\* A result for a proxy that is not configured any more is dropped.
With(states, p, state) ==
    IF p \in DOMAIN states THEN [states EXCEPT ![p] = state] ELSE states

Results == {"ok"} \cup Failures

Answer(h, result) ==
    /\ sent[h] # Nothing
    /\ IF sent[h] = Direct THEN UNCHANGED <<loaded, pool>>
       ELSE LET p == sent[h]
            IN  Load(With(States, p, ReportAnswer(States[p], result)))
    /\ sent' = [sent EXCEPT ![h] = Nothing]
    /\ UNCHANGED <<now, setting, probing>>

\* The handler raises on the answer itself and reports nothing.
Unreported(h) ==
    /\ sent[h] # Nothing
    /\ sent' = [sent EXCEPT ![h] = Nothing]
    /\ UNCHANGED <<now, setting, loaded, pool, probing>>

---------------------------------------------------------------------------
(* The keepalive loop *)

KeepaliveStart ==
    /\ Enabled
    /\ probing = <<>>
    /\ probing' = setting.proxies
    /\ Load(States)
    /\ UNCHANGED <<now, setting, sent>>

\* The round goes on with the list it started with.
KeepaliveProbe(result) ==
    /\ probing # <<>>
    /\ LET p == Head(probing)
       IN  Load(With(States, p, ReportResult(States[p], result)))
    /\ probing' = Tail(probing)
    /\ UNCHANGED <<now, setting, sent>>

\* The scheduler cancels the loop.
KeepaliveCancel ==
    /\ probing # <<>>
    /\ probing' = <<>>
    /\ UNCHANGED <<now, setting, loaded, pool, sent>>

---------------------------------------------------------------------------
\* GET /admin/proxy-pool reads the states, built anew if need be.
Snapshot ==
    /\ Load(States)
    /\ UNCHANGED <<now, setting, sent, probing>>

Relay ==
    \E h \in Handlers :
      \/ \E u \in Users : Send(h, u)
      \/ \E result \in Results : Answer(h, result)
      \/ Unreported(h)

Keepalive ==
    \/ KeepaliveStart
    \/ \E result \in Results : KeepaliveProbe(result)
    \/ KeepaliveCancel

Next ==
    \/ Tick
    \/ \E s \in Settings : Configure(s)
    \/ Snapshot
    \/ Relay
    \/ Keepalive

Spec == Init /\ [][Next]_vars

---------------------------------------------------------------------------
(* Properties *)

ProxyStates == [cooldown_until : Nat, fail_streak : Int]

\* The states are those of the proxies they were built from, and requests in
\* progress go through a proxy of some setting.
TypeOK ==
    /\ now \in 0..MaxTime
    /\ setting \in Settings
    /\ loaded \in {<<>>} \cup {s.proxies : s \in Settings}
    /\ pool \in [ToSet(loaded) -> ProxyStates]
    /\ sent \in [Handlers -> Proxies \cup {Direct, Nothing}]
    /\ probing \in Seq(Proxies)

\* No proxy is off for longer than upstream_proxy_max_cooldown_seconds after the
\* present, whatever the number of late failures.
CooldownBounded ==
    \A p \in DOMAIN pool : pool[p].cooldown_until <= now + Higher(0, MaxCooldown)

\* A late success, of a request sent before the proxy failed, does not end its
\* cooldown; only a change of the setting does.
CooldownNotShortened ==
    [][loaded' = loaded =>
         \A p \in DOMAIN pool :
            pool'[p].cooldown_until >= pool[p].cooldown_until]_vars

\* The pool implements CircuitBreaker for each proxy: whatever answers, probes
\* and settings overlap, no request is sent through a resting proxy that is listed
\* once, and none rests before as many failures as the threshold are reported of it
\* in a row. Reports, not answers: a network error is reported twice (see
\* OneFailurePerAnswer). A proxy that is listed twice goes on being chosen at its
\* second entry while it rests.
StrikesIn(states) ==
    [p \in Proxies |-> IF p \in DOMAIN states THEN Higher(0, states[p].fail_streak) ELSE 0]
RestIn(states) ==
    [p \in Proxies |->
        IF p \in DOMAIN states THEN Higher(0, states[p].cooldown_until - now) ELSE 0]
Through(p) == {h \in Handlers : sent[h] = p}

Breaker == INSTANCE CircuitBreaker WITH
    Threshold <- Higher(1, FailureThreshold),
    MaxRest <- Higher(0, MaxCooldown),
    list <- loaded,
    strikes <- StrikesIn(pool),
    rest <- RestIn(pool),
    using <- [p \in Proxies |-> Cardinality(Through(p))]

ImplementsBreaker == Breaker!Spec

\* frontend/index.html:291: the threshold is the number of consecutive failures
\* ("连续失败次数"). One answer counts as one failure.
OneFailurePerAnswer ==
    [][loaded' = loaded =>
         \A p \in DOMAIN pool :
            pool'[p].fail_streak <= pool[p].fail_streak + 1]_vars

==========================================================================
