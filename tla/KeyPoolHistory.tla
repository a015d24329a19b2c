-------------------------- MODULE KeyPoolHistory --------------------------
(***************************************************************************)
(* KeyPool with history variables: what NovelAI answered for each key, and *)
(* whether its requests ever overlapped. They are recorded beside the      *)
(* tables, never read by an action of the program, and forgotten for a key *)
(* from its first overlap on.                                              *)
(***************************************************************************)
EXTENDS KeyPool

VARIABLES
    overlapped,  \* key ids on which two requests were in progress at once
    dueBack,     \* key id -> the earliest instant for a new request
    strikes      \* key id -> persistent failures in a row that still count

history == <<overlapped, dueBack, strikes>>
allVars == <<vars, history>>

HistoryInit ==
    /\ Init
    /\ overlapped = {}
    /\ dueBack = [i \in KeyIds |-> 0]
    /\ strikes = [i \in KeyIds |-> 0]

\* The pause an answer asks for: the base delay of its class, and what NovelAI
\* says itself in a Retry-After.
Pause(code, retry_after) ==
    IF code = "401" THEN 0
    ELSE AtLeast(retry_after, AtMost(BaseFor(code), CooldownMax))

Record(i, due, count) ==
    /\ dueBack' = IF i \in overlapped THEN dueBack ELSE [dueBack EXCEPT ![i] = due]
    /\ strikes' = IF i \in overlapped THEN strikes ELSE [strikes EXCEPT ![i] = count]
    /\ UNCHANGED overlapped

RecordOverlap(i) ==
    IF InFlight(i) = {} THEN UNCHANGED history
    ELSE /\ overlapped' = overlapped \cup {i}
         /\ dueBack' = [dueBack EXCEPT ![i] = 0]
         /\ strikes' = [strikes EXCEPT ![i] = 0]

\* 409 and 429 leave the key in the rotation and are no strikes.
RelayWithHistory(h) ==
    \/ \E code \in Codes, retry_after \in RetryAfters :
         LET i == req[h].id
             persistent == IF code \in {"402", "5xx", "4xx"} THEN 1 ELSE 0
         IN  /\ UpstreamFails(h, code, retry_after)
             /\ Record(i, AtLeast(dueBack[i], now + Pause(code, retry_after)),
                       strikes[i] + persistent)
    \/ UpstreamSucceeds(h) /\ Record(req[h].id, dueBack[req[h].id], 0)
    \/ \E i \in KeyIds : GenerateImage(h, i) /\ RecordOverlap(i)
    \/ (MalformedAnswer(h) \/ Abandoned(h)) /\ UNCHANGED history

\* Strikes end when a check readmits the key: its verdict is healthy and it had
\* loaded the row with another status. A check that loaded the row as healthy
\* readmits nothing. Until they evict the key, the streak that a check writes
\* back counts in their place if it is lower.
StrikesAfterCheck(count, loaded, edited) ==
    IF edited.status = "healthy" /\ loaded.status # "healthy" THEN 0
    ELSE IF count < AtLeast(FailThreshold, 1) /\ edited.fail_streak # loaded.fail_streak
    THEN AtMost(count, edited.fail_streak)
    ELSE count

CommitWithHistory(c) ==
    /\ CommitCheck(c)
    /\ LET loaded == check[c].loaded
           edited == check[c].edited
       IN  strikes' = [i \in KeyIds |->
                         IF i \in DOMAIN loaded
                         THEN StrikesAfterCheck(strikes[i], loaded[i], edited[i])
                         ELSE strikes[i]]
    /\ UNCHANGED <<overlapped, dueBack>>

HistoryNext ==
    \/ (Tick \/ KeyManagement) /\ UNCHANGED history
    \/ \E h \in Handlers : RelayWithHistory(h)
    \/ \E c \in Checkers :
         \/ CommitWithHistory(c)
         \/ /\ \/ StartSweep(c)
               \/ Refresh(c)
               \/ \E i \in KeyIds, verdict \in Verdicts : Probe(c, i, verdict)
               \/ Rollback(c)
            /\ UNCHANGED history

HistorySpec == HistoryInit /\ [][HistoryNext]_allVars

---------------------------------------------------------------------------
(* Properties *)

\* The counters of a key whose requests never overlapped are exact, whatever
\* sweeps, toggles and lost answers came in between: every logged request is
\* counted once, as a success or as a failure.
CountersExact ==
    \A i \in DOMAIN key \ overlapped :
        /\ key[i].success_requests = okLog[i]
        /\ key[i].fail_requests = failLog[i]
        /\ key[i].total_requests = okLog[i] + failLog[i]

\* Unless requests overlapped on the key, none is sent with it before the pause
\* that its earlier answers asked for is over: not by the base delay of the
\* class of error, and not by NovelAI's own Retry-After. Health checks that
\* overlap do not shorten it.
PausesAreHonoured ==
    [][\A h \in DOMAIN req' \ DOMAIN req :
         dueBack[req'[h].id] <= now]_allVars

\* Unless requests overlapped on the key, as many persistent failures in a row
\* as health_check_fail_threshold put it out of the rotation, and it stays out
\* until a check that had loaded it out of the rotation finds it in order: no
\* toggle, no limit answer and no sweep that loaded the row while it was still
\* healthy, however long before the failures, brings it back. Overlapping
\* requests are excluded because answers to requests that started from the same
\* copy of the streak count as one.
PersistentFailuresEvict ==
    \A i \in DOMAIN key \ overlapped :
        strikes[i] >= AtLeast(FailThreshold, 1) => key[i].status # "healthy"

==========================================================================
