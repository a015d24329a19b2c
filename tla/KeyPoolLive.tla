--------------------------- MODULE KeyPoolLive ---------------------------
(***************************************************************************)
(* KeyPool under the fairness of the health check loop: it sweeps for      *)
(* ever, every probe ends within its timeout, a check that lost its row    *)
(* raises, and sweeps are not interrupted for ever.                        *)
(***************************************************************************)
EXTENDS KeyPool

ASSUME StreakBoundAssumption == MaxStreak >= FailThreshold

\* Beyond the bound on a streak a failing check goes on ruling on the key.
\* How far a streak is past the threshold is told apart by nothing.
ProbeAtBound(c, i, verdict) ==
    /\ c \in DOMAIN check
    /\ i \in check[c].todo \cap DOMAIN check[c].loaded
    /\ verdict \in {"401", "error"}
    /\ check[c].edited[i].fail_streak >= MaxStreak
    /\ check' = [check EXCEPT
                   ![c].todo      = @ \ {i},
                   ![c].edited[i] =
                      [CheckKeyHealth(@, verdict) EXCEPT !.fail_streak = @ - 1]]
    /\ UNCHANGED <<now, key, nextId, okLog, failLog, req, toggle>>

\* Time stands still: sweeps start without regard to the clock.
LiveNext ==
    \/ KeyManagement
    \/ Relay
    \/ HealthChecks
    \/ \E c \in Checkers, i \in KeyIds, verdict \in Verdicts :
         ProbeAtBound(c, i, verdict)

\* db.refresh() or the commit finds a row deleted.
LosesRow(c) ==
    /\ Rollback(c)
    /\ ~(check[c].todo \cup DOMAIN check[c].loaded \subseteq DOMAIN key)

ProbeEnds(c) ==
    \E i \in KeyIds, verdict \in Verdicts :
        Probe(c, i, verdict) \/ ProbeAtBound(c, i, verdict)

\* The loop never returns once it has begun, catches whatever a sweep raises
\* and starts over.
SweepFairness(c) ==
    /\ WF_vars(StartSweep(c))
    /\ WF_vars(Refresh(c))
    /\ WF_vars(ProbeEnds(c))
    /\ WF_vars(LosesRow(c))
    /\ WF_vars(CommitCheck(c))

\* From some time on the node that sweeps does not stop and no enabled key has
\* a ciphertext that cannot be decrypted; one such key ends every sweep.
Undisturbed == <>[][\A c \in Checkers : Rollback(c) => LosesRow(c)]_vars

LiveSpec ==
    /\ Init
    /\ [][LiveNext]_vars
    /\ \A c \in Checkers : SweepFairness(c)
    /\ Undisturbed

---------------------------------------------------------------------------
(* Properties *)

\* Every enabled key is finally ruled on or removed, whatever keys come and go
\* during the sweeps that should have checked it.
EnabledKeyIsRuledOn ==
    \A i \in KeyIds :
        (i \in DOMAIN key /\ key[i].status = "pending" /\ key[i].is_enabled)
            ~> (i \in DOMAIN key => key[i].status # "pending" \/ ~key[i].is_enabled)

InOrder == IF RequireOpus THEN {"opus"} ELSE {"opus", "other"}

\* A key leaves the rotation for good unless checks go on finding it in order,
\* at the tier that is asked for, or requests with it go on succeeding: neither
\* a sweep that probed it before it broke or lost its tier nor a late answer
\* keeps it there.
Works(i) ==
    \/ \E c \in Checkers, verdict \in InOrder : Probe(c, i, verdict)
    \/ \E h \in DOMAIN req : UpstreamSucceeds(h) /\ req[h].id = i

InRotation(i) == i \in DOMAIN key /\ key[i].status = "healthy" /\ key[i].is_enabled

BrokenKeyLeaves ==
    \A i \in KeyIds : []<><<Works(i)>>_vars \/ <>[]~InRotation(i)

==========================================================================
