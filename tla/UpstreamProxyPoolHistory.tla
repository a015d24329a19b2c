--------------------- MODULE UpstreamProxyPoolHistory ---------------------
(***************************************************************************)
(* UpstreamProxyPool with the answers that came in recorded beside it.     *)
(***************************************************************************)
EXTENDS UpstreamProxyPool

CONSTANT MaxFailures   \* the count of failures stops here

ASSUME MaxFailuresAssumption == MaxFailures \in Nat

VARIABLE failures   \* proxy -> answers in a row that count as its failures

allVars == <<vars, failures>>

HistoryInit == Init /\ failures = [p \in Proxies |-> 0]

\* States built anew have no failures behind them.
Kept == IF loaded' = loaded THEN failures ELSE [p \in Proxies |-> 0]

\* What is reported of an answer (ReportAnswer)
Reports(result) == IF result = "network" THEN {"network", "5xx"} ELSE {result}

\* The answer is counted once, and only where a state takes note of a report.
Count(p, reports) ==
    failures' =
        IF ~Enabled \/ p \notin DOMAIN pool' THEN Kept
        ELSE [Kept EXCEPT ![p] = IF "ok" \in reports THEN 0
                                 ELSE IF reports \cap Handled # {}
                                      THEN Lower(@ + 1, MaxFailures)
                                 ELSE @]

HistoryNext ==
    \/ /\ \/ Tick
          \/ \E s \in Settings : Configure(s)
          \/ \E h \in Handlers : Unreported(h) \/ \E u \in Users : Send(h, u)
          \/ Snapshot
          \/ KeepaliveStart
          \/ KeepaliveCancel
       /\ failures' = Kept
    \/ \E h \in Handlers, result \in Results :
         /\ Answer(h, result)
         /\ Count(sent[h], Reports(result))
    \/ \E result \in Results :
         /\ KeepaliveProbe(result)
         /\ Count(Head(probing), {result})

HistorySpec == HistoryInit /\ [][HistoryNext]_allVars

---------------------------------------------------------------------------
(* Properties *)

\* No failure is forgotten before a success, and none counts more than twice
\* (a network error does), however requests and probes overlap.
StreakExplained ==
    \A p \in DOMAIN pool :
        /\ Lower(failures[p], StreakCap) <= pool[p].fail_streak
        /\ pool[p].fail_streak <= 2 * failures[p]

\* The settings let a proxy cool down at the threshold.
CanRest ==
    /\ StreakCap >= Higher(1, FailureThreshold)
    /\ MaxCooldown > 0
    /\ \A result \in Handled : Base[result] > 0

\* A proxy rests as soon as as many failures in a row as the threshold have come
\* in, and again on each one after, whatever answers and probes overlap.
FailingProxyRests ==
    [][\A p \in Proxies :
         CanRest /\ failures'[p] > failures[p] /\ failures'[p] >= FailureThreshold =>
             pool'[p].cooldown_until > now]_allVars

==========================================================================
