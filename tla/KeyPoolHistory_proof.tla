----------------------- MODULE KeyPoolHistory_proof -----------------------
(***************************************************************************)
(* Theorems about what a key has been through: its exact counters, the     *)
(* failures that put it out of the rotation and the pauses it is given. On *)
(* Postgres, where an id names one key for ever.                           *)
(*                                                                         *)
(* A step does one of five things to a key: it leaves its requests alone,  *)
(* brings it into the table, starts a request with it, or ends one with a  *)
(* success or a failure. Each invariant is shown kept by these five.       *)
(***************************************************************************)
EXTENDS KeyPoolHistory, KeyPool_proof

---------------------------------------------------------------------------
(* What a step does to a key *)

HistoryTypes ==
    /\ overlapped \subseteq KeyIds
    /\ dueBack \in [KeyIds -> Nat]
    /\ strikes \in [KeyIds -> Nat]

SameCounters(row, other) ==
    /\ row.total_requests = other.total_requests
    /\ row.success_requests = other.success_requests
    /\ row.fail_requests = other.fail_requests

\* As many strikes put a key out.
Limit == AtLeast(FailThreshold, 1)

\* No request with key j starts, and none ends in an answer. The row may be
\* deleted, toggled or ruled on. A ruling takes the strikes away or leaves a key
\* that is out where it is, and a streak that it cuts back below the threshold
\* counts as many strikes at most.
Quiet(j) ==
    /\ \A h \in DOMAIN req' : req'[h].id = j => h \in DOMAIN req /\ req'[h] = req[h]
    /\ okLog'[j] = okLog[j] /\ failLog'[j] = failLog[j]
    /\ j \in overlapped' <=> j \in overlapped
    /\ dueBack'[j] = dueBack[j]
    /\ strikes'[j] \in Nat /\ strikes'[j] <= strikes[j]
    /\ j \in DOMAIN key' =>
         /\ j \in DOMAIN key
         /\ SameCounters(key'[j], key[j])
         /\ key'[j].cooldown_until = key[j].cooldown_until
         /\ key'[j].status = "healthy" => key[j].status = "healthy" \/ strikes'[j] = 0
         /\ strikes[j] >= Limit => strikes'[j] \in {0, strikes[j]}
         /\ \/ strikes'[j] >= Limit
            \/ key'[j].fail_streak = key[j].fail_streak
            \/ strikes'[j] <= key'[j].fail_streak

Appears(j) ==
    /\ j \notin DOMAIN key /\ j \in DOMAIN key'
    /\ NewRow(j)
    /\ UNCHANGED <<now, history>>

Starts(h, j) == GenerateImage(h, j) /\ RecordOverlap(j)

Succeeds(h, j) ==
    /\ UpstreamSucceeds(h) /\ req[h].id = j
    /\ Record(j, dueBack[j], 0)

Strike(code) == IF code \in {"402", "5xx", "4xx"} THEN 1 ELSE 0

Fails(h, j, code, retry_after) ==
    /\ code \in Codes /\ retry_after \in RetryAfters
    /\ UpstreamFails(h, code, retry_after) /\ req[h].id = j
    /\ Record(j, AtLeast(dueBack[j], now + Pause(code, retry_after)),
              strikes[j] + Strike(code))

\* The history is recorded beside the pool and changes none of its steps.
LEMMA HistoryIsBeside == [HistoryNext]_allVars => [Next]_vars
<1>1. ASSUME NEW h \in Handlers, RelayWithHistory(h) PROVE Relay
  BY <1>1 DEF RelayWithHistory, Relay
<1>2. ASSUME NEW c \in Checkers, CommitWithHistory(c) PROVE HealthChecks
  BY <1>2 DEF CommitWithHistory, HealthChecks
<1>3. CASE HistoryNext
  BY <1>1, <1>2, <1>3 DEF HistoryNext, Next, HealthChecks
<1> QED
  BY <1>3 DEF allVars, vars

LEMMA PoolInvBeside == HistorySpec => []PoolInv
<1>1. HistoryInit => PoolInv
  BY TypeInit, CheckEditsInit, IdsIssuedInit DEF PoolInv, HistoryInit
<1>2. PoolInv /\ [HistoryNext]_allVars => PoolInv'
  BY HistoryIsBeside, TypeStep, CheckEditsStep, IdsIssuedStep DEF PoolInv
<1> QED
  BY <1>1, <1>2, PTL DEF HistorySpec

LEMMA PauseIsNat ==
    ASSUME NEW code \in Codes, NEW retry_after \in RetryAfters
    PROVE  Pause(code, retry_after) \in Nat
<1>1. retry_after \in Nat /\ CooldownMax \in Int
  BY PoolAssumption, CooldownAssumption
<1>2. code # "401" => BaseFor(code) \in Int
  BY CooldownAssumption DEF BaseFor, Codes
<1> QED
  BY <1>1, <1>2 DEF Pause, AtLeast, AtMost

LEMMA RecordTypes ==
    ASSUME HistoryTypes, NEW j \in KeyIds, NEW due \in Nat, NEW count \in Nat,
           Record(j, due, count)
    PROVE  /\ HistoryTypes'
           /\ overlapped' = overlapped
           /\ j \notin overlapped => dueBack'[j] = due /\ strikes'[j] = count
           /\ j \in overlapped => UNCHANGED <<dueBack, strikes>>
           /\ \A i \in KeyIds \ {j} : dueBack'[i] = dueBack[i] /\ strikes'[i] = strikes[i]
BY DEF HistoryTypes, Record

\* A step that does not touch the row, the requests and the history of key j, or
\* removes some.
LEMMA QuietIfSame ==
    ASSUME HistoryTypes, NEW j \in KeyIds,
           \A h \in DOMAIN req' : req'[h].id = j => h \in DOMAIN req /\ req'[h] = req[h],
           okLog'[j] = okLog[j], failLog'[j] = failLog[j],
           overlapped' = overlapped, dueBack'[j] = dueBack[j], strikes'[j] = strikes[j],
           j \in DOMAIN key' => j \in DOMAIN key /\ key'[j] = key[j]
    PROVE  Quiet(j)
<1>1. strikes[j] \in Nat
  BY DEF HistoryTypes
<1> QED
  BY <1>1 DEF Quiet, SameCounters

LEMMA ManagementMoves ==
    ASSUME Postgres, PoolInv, HistoryTypes, KeyManagement, UNCHANGED history, NEW j \in KeyIds
    PROVE  Quiet(j) \/ Appears(j)
<1> USE DEF PoolInv
<1>1. ASSUME NEW i \in KeyIds, NEW hash \in KeyHashes, Insert(i, hash)
      PROVE  Quiet(j) \/ Appears(j)
  <2>1. /\ DOMAIN key' = DOMAIN key \cup {i}
        /\ key'[i] = NewKey(hash)
        /\ \A k \in DOMAIN key : k # i => key'[k] = key[k]
        /\ i = nextId /\ nextId' = nextId + 1
        /\ UNCHANGED <<now, req, toggle, okLog, failLog>>
    BY <1>1 DEF Insert, NewId, Put
  <2>2. nextId \in Nat /\ DOMAIN key \subseteq Nat
    BY KeyIdsAssumption DEF TypeOK, IsMapping
  <2>3. i \notin DOMAIN key
    BY <2>1, <2>2 DEF IdsIssued
  <2>4. CASE i = j
    BY <2>1, <2>3, <2>4 DEF Appears, NewRow
  <2>5. CASE i # j
    BY <2>1, <2>5, QuietIfSame DEF history
  <2> QED
    BY <2>4, <2>5
<1>2. ASSUME NEW i \in KeyIds, DeleteKey(i) PROVE Quiet(j)
  <2>1. \A k \in DOMAIN key' : k \in DOMAIN key /\ key'[k] = key[k]
    BY <1>2 DEF DeleteKey, Drop, Restrict
  <2> QED
    BY <1>2, <2>1, QuietIfSame DEF DeleteKey, history
<1>3. ASSUME NEW a \in Admins, NEW i \in KeyIds, ToggleRead(a, i) PROVE Quiet(j)
  BY <1>3, QuietIfSame DEF ToggleRead, history
<1>4. ASSUME NEW a \in Admins, ToggleCommit(a) PROVE Quiet(j)
  <2>1. DOMAIN key' = DOMAIN key /\ UNCHANGED <<now, okLog, failLog, req>>
    BY <1>4 DEF ToggleCommit
  <2>2. j \in DOMAIN key =>
          /\ SameCounters(key'[j], key[j])
          /\ key'[j].status = key[j].status
          /\ key'[j].fail_streak = key[j].fail_streak
          /\ key'[j].cooldown_until = key[j].cooldown_until
    BY <1>4, ToggleKeeps DEF SameCounters
  <2> QED
    BY <2>1, <2>2 DEF Quiet, history, HistoryTypes
<1> QED
  BY <1>1, <1>2, <1>3, <1>4 DEF KeyManagement, UploadKey, UploadAndVerify

LEMMA RelayMoves ==
    ASSUME PoolInv, HistoryTypes, NEW h \in Handlers, RelayWithHistory(h), NEW j \in KeyIds
    PROVE  \/ Quiet(j) \/ Starts(h, j) \/ Succeeds(h, j)
           \/ \E code \in Codes, retry_after \in RetryAfters : Fails(h, j, code, retry_after)
<1> USE DEF PoolInv
<1>1. ASSUME NEW edited \in KeyRows, NEW due \in Nat, NEW count \in Nat,
             h \in DOMAIN req, Finish(h, edited), req[h].id # j,
             Record(req[h].id, due, count),
             okLog'[j] = okLog[j], failLog'[j] = failLog[j]
      PROVE  Quiet(j)
  <2>1. /\ req[h].id \in KeyIds
        /\ DOMAIN key' = DOMAIN key
        /\ j \in DOMAIN key => key'[j] = key[j]
        /\ \A g \in DOMAIN req' : g \in DOMAIN req /\ req'[g] = req[g]
    BY <1>1, FinishTypes
  <2>2. dueBack'[j] = dueBack[j] /\ strikes'[j] = strikes[j] /\ overlapped' = overlapped
    BY <1>1, <2>1, RecordTypes
  <2> QED
    BY <1>1, <2>1, <2>2, QuietIfSame
<1>2. ASSUME NEW code \in Codes, NEW retry_after \in RetryAfters,
             UpstreamFails(h, code, retry_after),
             Record(req[h].id,
                    AtLeast(dueBack[req[h].id], now + Pause(code, retry_after)),
                    strikes[req[h].id] + Strike(code))
      PROVE  Quiet(j) \/ Fails(h, j, code, retry_after)
  <2>1. /\ h \in DOMAIN req /\ req[h].id \in KeyIds /\ req[h].row \in KeyRows
        /\ now \in Nat /\ retry_after \in Nat
    BY <1>2, PoolAssumption DEF UpstreamFails, TypeOK, IsMapping, Snapshots
  <2>2. CASE req[h].id = j
    BY <1>2, <2>2 DEF Fails
  <2>3. CASE req[h].id # j
    <3>1. RecordFailure(req[h].row, code, retry_after, now) \in KeyRows
      BY <2>1, FailureIsRow
    <3>2. Finish(h, RecordFailure(req[h].row, code, retry_after, now))
      BY <1>2 DEF UpstreamFails
    <3>3. okLog'[j] = okLog[j] /\ failLog'[j] = failLog[j]
      BY <1>2, <2>1, <2>3 DEF UpstreamFails, TypeOK
    <3>4. /\ AtLeast(dueBack[req[h].id], now + Pause(code, retry_after)) \in Nat
          /\ strikes[req[h].id] + Strike(code) \in Nat
      BY <2>1, PauseIsNat DEF HistoryTypes, AtLeast, Strike
    <3> QED
      BY <1>1, <1>2, <2>1, <2>3, <3>1, <3>2, <3>3, <3>4
  <2> QED
    BY <2>2, <2>3
<1>3. ASSUME UpstreamSucceeds(h), Record(req[h].id, dueBack[req[h].id], 0)
      PROVE  Quiet(j) \/ Succeeds(h, j)
  <2>1. /\ h \in DOMAIN req /\ req[h].id \in KeyIds /\ req[h].row \in KeyRows
        /\ now \in Nat
    BY <1>3 DEF UpstreamSucceeds, TypeOK, IsMapping, Snapshots
  <2>2. CASE req[h].id = j
    BY <1>3, <2>2 DEF Succeeds
  <2>3. CASE req[h].id # j
    <3>1. RecordSuccess(req[h].row, now) \in KeyRows
      BY <2>1, SuccessIsRow
    <3>2. Finish(h, RecordSuccess(req[h].row, now))
      BY <1>3 DEF UpstreamSucceeds
    <3>3. okLog'[j] = okLog[j] /\ failLog'[j] = failLog[j]
      BY <1>3, <2>1, <2>3 DEF UpstreamSucceeds, TypeOK
    <3>4. dueBack[req[h].id] \in Nat
      BY <2>1 DEF HistoryTypes
    <3> QED
      BY <1>1, <1>3, <2>1, <2>3, <3>1, <3>2, <3>3, <3>4
  <2> QED
    BY <2>2, <2>3
<1>4. ASSUME NEW i \in KeyIds, GenerateImage(h, i), RecordOverlap(i)
      PROVE  Quiet(j) \/ Starts(h, j)
  <2>1. CASE i = j
    BY <1>4, <2>1 DEF Starts
  <2>2. CASE i # j
    <3>1. /\ UNCHANGED <<key, okLog, failLog>>
          /\ \A g \in DOMAIN req' : req'[g].id = j => g \in DOMAIN req /\ req'[g] = req[g]
      BY <1>4, <2>2 DEF GenerateImage, Put
    <3>2. /\ dueBack'[j] = dueBack[j] /\ strikes'[j] = strikes[j]
          /\ j \in overlapped' <=> j \in overlapped
      BY <1>4, <2>2 DEF RecordOverlap, HistoryTypes, history
    <3>3. strikes[j] \in Nat
      BY DEF HistoryTypes
    <3> QED
      BY <3>1, <3>2, <3>3 DEF Quiet, SameCounters
  <2> QED
    BY <2>1, <2>2
<1>5. ASSUME MalformedAnswer(h) \/ Abandoned(h), UNCHANGED history PROVE Quiet(j)
  <2>1. /\ UNCHANGED <<key, okLog, failLog>>
        /\ \A g \in DOMAIN req' : g \in DOMAIN req /\ req'[g] = req[g]
    BY <1>5 DEF MalformedAnswer, Abandoned, Drop, Restrict
  <2> QED
    BY <1>5, <2>1, QuietIfSame DEF history
<1> QED
  BY <1>2, <1>3, <1>4, <1>5 DEF RelayWithHistory, Strike

LEMMA StrikesAfterCheckFacts ==
    ASSUME NEW count \in Nat, NEW loaded \in KeyRows, NEW edited \in KeyRows
    PROVE  LET new == StrikesAfterCheck(count, loaded, edited)
           IN  /\ new \in Nat /\ new <= count
               /\ edited.status = "healthy" => loaded.status = "healthy" \/ new = 0
               /\ count >= Limit => new \in {0, count}
               /\ \/ new >= Limit
                  \/ edited.fail_streak = loaded.fail_streak
                  \/ new <= edited.fail_streak
<1>1. edited.fail_streak \in Nat /\ Limit \in Nat /\ Limit >= 1
  BY RowFields, ThresholdAssumption DEF Limit, AtLeast
<1>2. Limit = AtLeast(FailThreshold, 1)
  BY DEF Limit
<1> QED
  BY <1>1, <1>2 DEF StrikesAfterCheck, AtMost

LEMMA CommitStrikes ==
    ASSUME PoolInv, HistoryTypes, NEW c \in Checkers, CommitWithHistory(c), NEW j \in KeyIds
    PROVE  /\ strikes'[j] \in Nat /\ strikes'[j] <= strikes[j]
           /\ strikes'[j] = IF j \in DOMAIN check[c].loaded
                  THEN StrikesAfterCheck(strikes[j], check[c].loaded[j], check[c].edited[j])
                  ELSE strikes[j]
<1>1. strikes[j] \in Nat
  BY DEF HistoryTypes
<1>2. j \in DOMAIN check[c].loaded =>
        check[c].loaded[j] \in KeyRows /\ check[c].edited[j] \in KeyRows
  BY CommitTypes DEF CommitWithHistory, PoolInv
<1>3. strikes'[j] = IF j \in DOMAIN check[c].loaded
          THEN StrikesAfterCheck(strikes[j], check[c].loaded[j], check[c].edited[j])
          ELSE strikes[j]
  BY DEF CommitWithHistory
<1> QED
  BY <1>1, <1>2, <1>3, StrikesAfterCheckFacts

LEMMA CommitMoves ==
    ASSUME PoolInv, HistoryTypes, NEW c \in Checkers, CommitWithHistory(c), NEW j \in KeyIds
    PROVE  Quiet(j)
<1> USE DEF PoolInv
<1>1. CommitCheck(c)
  BY DEF CommitWithHistory
<1>2. /\ DOMAIN key' = DOMAIN key /\ UNCHANGED <<req, okLog, failLog>>
      /\ UNCHANGED <<overlapped, dueBack>>
  BY <1>1, CommitTypes DEF CommitCheck, CommitWithHistory
<1>3. j \in DOMAIN key =>
        SameCounters(key'[j], key[j]) /\ key'[j].cooldown_until = key[j].cooldown_until
  BY <1>1, CommitKeeps DEF SameButVerdict, SameCounters
<1>4. strikes'[j] \in Nat /\ strikes'[j] <= strikes[j] /\ strikes[j] \in Nat
  BY CommitStrikes DEF HistoryTypes
<1>5. CASE j \notin DOMAIN check[c].loaded
  <2>1. strikes'[j] = strikes[j]
    BY <1>5, CommitStrikes
  <2>2. j \in DOMAIN key => key'[j] = key[j]
    BY <1>1, <1>5, CommitTypes
  <2> QED
    BY <1>2, <1>3, <1>4, <2>1, <2>2 DEF Quiet
<1>6. CASE j \in DOMAIN check[c].loaded
  <2> DEFINE loaded == check[c].loaded[j]
             edited == check[c].edited[j]
  <2>1. loaded \in KeyRows /\ edited \in KeyRows
    BY <1>1, <1>6, CommitTypes
  <2>2. strikes'[j] = StrikesAfterCheck(strikes[j], loaded, edited)
    BY <1>6, CommitStrikes
  <2>3. ASSUME j \in DOMAIN key
        PROVE  /\ key'[j].status = IF edited.status = loaded.status
                      THEN key[j].status ELSE edited.status
               /\ key'[j].fail_streak = IF edited.fail_streak = loaded.fail_streak
                      THEN key[j].fail_streak ELSE edited.fail_streak
    <3>1. key[j] \in KeyRows /\ key'[j] = Flush(key[j], loaded, edited)
      BY <1>1, <1>6, <2>3, CommitTypes DEF TypeOK, IsMapping
    <3> HIDE DEF loaded, edited
    <3> QED
      BY <2>1, <3>1, FlushedColumns
  <2> HIDE DEF loaded, edited
  <2>4. /\ edited.status = "healthy" => loaded.status = "healthy" \/ strikes'[j] = 0
        /\ strikes[j] >= Limit => strikes'[j] \in {0, strikes[j]}
        /\ \/ strikes'[j] >= Limit
           \/ edited.fail_streak = loaded.fail_streak
           \/ strikes'[j] <= edited.fail_streak
    BY <1>4, <2>1, <2>2, StrikesAfterCheckFacts
  <2>5. ASSUME j \in DOMAIN key
        PROVE  /\ key'[j].status = "healthy" => key[j].status = "healthy" \/ strikes'[j] = 0
               /\ \/ strikes'[j] >= Limit
                  \/ key'[j].fail_streak = key[j].fail_streak
                  \/ strikes'[j] <= key'[j].fail_streak
    BY <2>3, <2>4, <2>5
  <2> QED
    BY <1>2, <1>3, <1>4, <2>4, <2>5 DEF Quiet
<1> QED
  BY <1>5, <1>6

LEMMA KeyMoves ==
    ASSUME Postgres, PoolInv, HistoryTypes, [HistoryNext]_allVars, NEW j \in KeyIds
    PROVE  \/ Quiet(j) \/ Appears(j)
           \/ \E h \in Handlers :
                \/ Starts(h, j) \/ Succeeds(h, j)
                \/ \E code \in Codes, retry_after \in RetryAfters :
                     Fails(h, j, code, retry_after)
<1>1. CASE UNCHANGED <<key, req, okLog, failLog, history>>
  BY <1>1, QuietIfSame DEF history
<1>2. ASSUME NEW c \in Checkers,
             \/ StartSweep(c) \/ Refresh(c) \/ Rollback(c)
             \/ \E i \in KeyIds, verdict \in Verdicts : Probe(c, i, verdict)
      PROVE  UNCHANGED <<key, req, okLog, failLog>>
  BY <1>2 DEF StartSweep, Refresh, Rollback, Probe
<1>3. Tick => UNCHANGED <<key, req, okLog, failLog>>
  BY DEF Tick
<1>4. CASE HistoryNext
  BY <1>1, <1>2, <1>3, <1>4, ManagementMoves, RelayMoves, CommitMoves DEF HistoryNext
<1>5. CASE UNCHANGED allVars
  BY <1>1, <1>5 DEF allVars, vars
<1> QED
  BY <1>4, <1>5

LEMMA HistoryTypesStep ==
    ASSUME PoolInv, HistoryTypes, [HistoryNext]_allVars
    PROVE  HistoryTypes'
<1> USE DEF PoolInv
<1>1. CASE UNCHANGED history
  BY <1>1 DEF history, HistoryTypes
<1>2. ASSUME NEW c \in Checkers, CommitWithHistory(c) PROVE HistoryTypes'
  <2>1. \A j \in KeyIds : strikes'[j] \in Nat
    BY <1>2, CommitStrikes
  <2>2. /\ UNCHANGED <<overlapped, dueBack>>
        /\ DOMAIN strikes' = KeyIds /\ strikes' = [i \in KeyIds |-> strikes'[i]]
    BY <1>2 DEF CommitWithHistory
  <2> QED
    BY <2>1, <2>2 DEF HistoryTypes
<1>3. ASSUME NEW h \in Handlers, RelayWithHistory(h) PROVE HistoryTypes'
  <2>1. ASSUME NEW i \in KeyIds, RecordOverlap(i) PROVE HistoryTypes'
    BY <2>1 DEF RecordOverlap, HistoryTypes, history
  <2>2. ASSUME UpstreamSucceeds(h), Record(req[h].id, dueBack[req[h].id], 0)
        PROVE  HistoryTypes'
    <3>1. req[h].id \in KeyIds
      BY <2>2 DEF UpstreamSucceeds, TypeOK, IsMapping, Snapshots
    <3>2. dueBack[req[h].id] \in Nat
      BY <3>1 DEF HistoryTypes
    <3> QED
      BY <2>2, <3>1, <3>2, RecordTypes
  <2>3. ASSUME NEW code \in Codes, NEW retry_after \in RetryAfters,
               UpstreamFails(h, code, retry_after),
               Record(req[h].id,
                      AtLeast(dueBack[req[h].id], now + Pause(code, retry_after)),
                      strikes[req[h].id] + Strike(code))
        PROVE  HistoryTypes'
    <3>1. req[h].id \in KeyIds /\ now \in Nat
      BY <2>3 DEF UpstreamFails, TypeOK, IsMapping, Snapshots
    <3>2. /\ AtLeast(dueBack[req[h].id], now + Pause(code, retry_after)) \in Nat
          /\ strikes[req[h].id] + Strike(code) \in Nat
      BY <3>1, PauseIsNat DEF HistoryTypes, AtLeast, Strike
    <3> QED
      BY <2>3, <3>1, <3>2, RecordTypes
  <2> QED
    BY <1>1, <1>3, <2>1, <2>2, <2>3 DEF RelayWithHistory, Strike
<1> QED
  BY <1>1, <1>2, <1>3 DEF HistoryNext, allVars

LEMMA HistoryTypesHold == HistorySpec => []HistoryTypes
<1>1. HistoryInit => HistoryTypes
  BY DEF HistoryInit, HistoryTypes
<1> QED
  BY <1>1, HistoryTypesStep, PoolInvBeside, PTL DEF HistorySpec

---------------------------------------------------------------------------
(* The requests in progress with one key *)

Solo(j) == \A g, h \in InFlight(j) : g = h

\* A request is started with a healthy key that is not resting, and one that
\* overlaps another is known to.
Started(j) ==
    /\ j \notin overlapped => Solo(j)
    /\ \A h \in InFlight(j) :
         req[h].row.status = "healthy" /\ req[h].row.cooldown_until <= now

\* Before Postgres has handed out an id, nothing is known of it.
Unissued(j) == nextId <= j => dueBack[j] = 0 /\ strikes[j] = 0

LEMMA StartKeeps ==
    ASSUME PoolInv, NEW h, NEW j \in KeyIds, Starts(h, j)
    PROVE  /\ h \notin DOMAIN req /\ j \in DOMAIN key
           /\ key[j].status = "healthy" /\ key[j].cooldown_until <= now
           /\ DOMAIN req' = DOMAIN req \cup {h}
           /\ req'[h] = [id |-> j, row |-> key[j]]
           /\ \A g \in DOMAIN req : req'[g] = req[g]
           /\ InFlight(j)' = InFlight(j) \cup {h}
           /\ UNCHANGED <<now, nextId, key, okLog, failLog>>
<1>1. /\ h \notin DOMAIN req /\ j \in Candidates
      /\ req' = Put(req, h, [id |-> j, row |-> key[j]])
      /\ UNCHANGED <<now, nextId, key, okLog, failLog>>
  BY DEF Starts, GenerateImage
<1>2. /\ j \in DOMAIN key /\ key[j].status = "healthy"
      /\ key[j].cooldown_until = Never \/ key[j].cooldown_until <= now
  BY <1>1 DEF Candidates, Selectable
<1>3. key[j].cooldown_until <= now
  BY <1>2 DEF PoolInv, TypeOK, Never
<1>4. /\ DOMAIN req' = DOMAIN req \cup {h}
      /\ req'[h] = [id |-> j, row |-> key[j]]
      /\ \A g \in DOMAIN req : req'[g] = req[g]
  BY <1>1 DEF Put
<1>5. InFlight(j)' = InFlight(j) \cup {h}
  BY <1>1, <1>4 DEF InFlight
<1> QED
  BY <1>1, <1>2, <1>3, <1>4, <1>5

\* A request that ends leaves the others with its key as they were.
LEMMA EndKeeps ==
    ASSUME PoolInv, HistoryTypes, NEW h, NEW j \in KeyIds,
           \/ Succeeds(h, j)
           \/ \E code, retry_after : Fails(h, j, code, retry_after)
    PROVE  /\ h \in InFlight(j) /\ j \in DOMAIN key
           /\ key[j] \in KeyRows /\ req[h].row \in KeyRows
           /\ DOMAIN key' = DOMAIN key
           /\ DOMAIN req' = DOMAIN req \ {h}
           /\ \A g \in DOMAIN req' : req'[g] = req[g]
           /\ InFlight(j)' = InFlight(j) \ {h}
           /\ now \in Nat
           /\ UNCHANGED <<now, nextId, overlapped>>
<1> USE DEF PoolInv
<1>1. /\ h \in DOMAIN req /\ req[h].id = j /\ overlapped' = overlapped
      /\ \E edited : Finish(h, edited)
  BY DEF Succeeds, Fails, UpstreamSucceeds, UpstreamFails, Record
<1>2. /\ j \in DOMAIN key /\ DOMAIN key' = DOMAIN key
      /\ req' = Drop(req, h) /\ UNCHANGED <<now, nextId>>
  BY <1>1 DEF Finish
<1>3. DOMAIN req' = DOMAIN req \ {h} /\ \A g \in DOMAIN req' : req'[g] = req[g]
  BY <1>2 DEF Drop, Restrict
<1>4. InFlight(j)' = InFlight(j) \ {h}
  BY <1>3 DEF InFlight
<1>5. key[j] \in KeyRows /\ req[h].row \in KeyRows /\ now \in Nat
  BY <1>1, <1>2 DEF TypeOK, IsMapping, Snapshots
<1> QED
  BY <1>1, <1>2, <1>3, <1>4, <1>5 DEF InFlight

\* The columns of a key after a request with it has been answered.
LEMMA EndColumns ==
    ASSUME PoolInv, NEW h \in DOMAIN req, NEW edited \in KeyRows, Finish(h, edited),
           NEW j, j = req[h].id
    PROVE  LET row == req[h].row
           IN  /\ key'[j].total_requests = IF edited.total_requests = row.total_requests
                    THEN key[j].total_requests ELSE edited.total_requests
               /\ key'[j].success_requests = IF edited.success_requests = row.success_requests
                    THEN key[j].success_requests ELSE edited.success_requests
               /\ key'[j].fail_requests = IF edited.fail_requests = row.fail_requests
                    THEN key[j].fail_requests ELSE edited.fail_requests
               /\ key'[j].status = IF edited.status = row.status
                    THEN key[j].status ELSE edited.status
               /\ key'[j].fail_streak = IF edited.fail_streak = row.fail_streak
                    THEN key[j].fail_streak ELSE edited.fail_streak
               /\ key'[j].cooldown_until = IF edited.cooldown_until = row.cooldown_until
                    THEN key[j].cooldown_until ELSE edited.cooldown_until
<1>1. /\ req[h].row \in KeyRows /\ j \in DOMAIN key /\ key[j] \in KeyRows
      /\ key'[j] = Flush(key[j], req[h].row, edited)
  BY FinishTypes DEF PoolInv, TypeOK, IsMapping
<1> QED
  BY <1>1, FlushedColumns

LEMMA NotIssuedYet ==
    ASSUME Postgres, PoolInv, NEW j \in KeyIds, Appears(j)
    PROVE  /\ j = nextId /\ nextId' = nextId + 1 /\ nextId \in Nat
           /\ InFlight(j) = {} /\ InFlight(j)' = {}
           /\ UNCHANGED <<now, req, okLog, failLog, overlapped, dueBack, strikes>>
           /\ \E hash \in KeyHashes : key'[j] = NewKey(hash)
<1>1. /\ j = nextId /\ nextId' = nextId + 1 /\ nextId \in Nat
      /\ UNCHANGED <<now, req, okLog, failLog, overlapped, dueBack, strikes>>
      /\ \E hash \in KeyHashes : key'[j] = NewKey(hash)
  BY DEF Appears, NewRow, PoolInv, TypeOK, history
<1>2. \A h \in DOMAIN req : req[h].id # j
  BY <1>1 DEF PoolInv, IdsIssued
<1> QED
  BY <1>1, <1>2 DEF InFlight

LEMMA QuietRequests ==
    ASSUME NEW j \in KeyIds, Quiet(j)
    PROVE  /\ InFlight(j)' \subseteq InFlight(j)
           /\ \A h \in DOMAIN req' : req'[h].id = j => req'[h] = req[h]
BY DEF Quiet, InFlight

LEMMA HistoryNow ==
    ASSUME PoolInv, [HistoryNext]_allVars
    PROVE  now \in Nat /\ now' \in Nat /\ now <= now' /\ nextId \in Nat /\ nextId <= nextId'
BY HistoryIsBeside, NowStep, TableStep DEF PoolInv, TypeOK

LEMMA StartedStep ==
    ASSUME Postgres, PoolInv, PoolInv', HistoryTypes, [HistoryNext]_allVars,
           NEW j \in KeyIds, Started(j)
    PROVE  Started(j)'
<1>1. now \in Nat /\ now' \in Nat /\ now <= now'
  BY HistoryNow
<1>2. /\ \A h \in DOMAIN req : req[h].row.cooldown_until \in Int
      /\ j \in DOMAIN key => key[j].cooldown_until \in Int
  BY UsesTyped DEF PoolInv
<1>3. ASSUME InFlight(j)' \subseteq InFlight(j), j \in overlapped' <=> j \in overlapped,
             \A h \in DOMAIN req' : req'[h].id = j => req'[h] = req[h]
      PROVE  Started(j)'
  <2>1. ASSUME NEW h \in DOMAIN req', req'[h].id = j
        PROVE  req'[h].row.status = "healthy" /\ req'[h].row.cooldown_until <= now'
    <3>1. h \in InFlight(j) /\ h \in DOMAIN req /\ req'[h] = req[h]
      BY <1>3, <2>1 DEF InFlight
    <3> QED
      BY <1>1, <1>2, <3>1 DEF Started
  <2>2. j \notin overlapped' => Solo(j)'
    BY <1>3 DEF Started, Solo
  <2> QED
    BY <2>1, <2>2 DEF Started, InFlight
<1>4. CASE Quiet(j)
  BY <1>3, <1>4, QuietRequests DEF Quiet
<1>5. CASE Appears(j)
  BY <1>5, NotIssuedYet DEF Started, Solo
<1>6. ASSUME NEW h, Starts(h, j) PROVE Started(j)'
  <2>1. /\ InFlight(j)' = InFlight(j) \cup {h} /\ now' = now
        /\ req'[h].row.status = "healthy" /\ req'[h].row.cooldown_until <= now
        /\ \A g \in DOMAIN req : req'[g] = req[g]
    <3>1. /\ InFlight(j)' = InFlight(j) \cup {h} /\ now' = now
          /\ req'[h] = [id |-> j, row |-> key[j]]
          /\ \A g \in DOMAIN req : req'[g] = req[g]
          /\ key[j].status = "healthy" /\ key[j].cooldown_until <= now
      BY <1>6, StartKeeps
    <3> QED
      BY <3>1
  <2>2. j \notin overlapped' => InFlight(j) = {}
    BY <1>6 DEF Starts, RecordOverlap
  <2>3. \A g \in InFlight(j) : g \in DOMAIN req
    BY DEF InFlight
  <2> QED
    BY <2>1, <2>2, <2>3 DEF Started, Solo
<1>7. ASSUME NEW h, \/ Succeeds(h, j)
                    \/ \E code, retry_after : Fails(h, j, code, retry_after)
      PROVE  Started(j)'
  <2>1. /\ InFlight(j)' \subseteq InFlight(j) /\ overlapped' = overlapped
        /\ \A g \in DOMAIN req' : req'[g] = req[g]
    BY <1>7, EndKeeps
  <2> QED
    BY <1>3, <2>1
<1> QED
  BY <1>4, <1>5, <1>6, <1>7, KeyMoves

---------------------------------------------------------------------------
(* Exact counters *)

ShowsLog(j) ==
    /\ key[j].success_requests = okLog[j]
    /\ key[j].fail_requests = failLog[j]
    /\ key[j].total_requests = okLog[j] + failLog[j]

\* The copy of the one request in progress counts what the key counts, so that
\* the answer adds one to what is stored.
Exact(j) ==
    j \in DOMAIN key \ overlapped =>
        /\ ShowsLog(j)
        /\ \A h \in InFlight(j) : SameCounters(req[h].row, key[j])

LEMMA ExactEnd ==
    ASSUME PoolInv, HistoryTypes, NEW j \in KeyIds, Started(j), Exact(j), NEW h,
           NEW edited \in KeyRows, Finish(h, edited),
           \/ Succeeds(h, j)
           \/ \E code, retry_after : Fails(h, j, code, retry_after),
           edited.total_requests = req[h].row.total_requests + 1,
           \/ /\ edited.success_requests = req[h].row.success_requests + 1
              /\ edited.fail_requests = req[h].row.fail_requests
              /\ okLog'[j] = okLog[j] + 1 /\ failLog'[j] = failLog[j]
           \/ /\ edited.success_requests = req[h].row.success_requests
              /\ edited.fail_requests = req[h].row.fail_requests + 1
              /\ okLog'[j] = okLog[j] /\ failLog'[j] = failLog[j] + 1
    PROVE  Exact(j)'
<1> SUFFICES ASSUME j \notin overlapped'
             PROVE  ShowsLog(j)' /\ InFlight(j)' = {}
  BY DEF Exact
<1>1. /\ h \in InFlight(j) /\ j \in DOMAIN key
      /\ key[j] \in KeyRows /\ req[h].row \in KeyRows
      /\ InFlight(j)' = InFlight(j) \ {h} /\ overlapped' = overlapped
  BY EndKeeps
<1>2. h \in DOMAIN req /\ req[h].id = j
  BY <1>1 DEF InFlight
<1>3. InFlight(j)' = {}
  BY <1>1 DEF Started, Solo
<1>4. SameCounters(req[h].row, key[j]) /\ ShowsLog(j)
  BY <1>1 DEF Exact
<1>5. /\ key[j].total_requests \in Nat
      /\ key[j].success_requests \in Nat
      /\ key[j].fail_requests \in Nat
  BY <1>1, RowFields
<1>6. /\ key'[j].total_requests = IF edited.total_requests = req[h].row.total_requests
             THEN key[j].total_requests ELSE edited.total_requests
      /\ key'[j].success_requests = IF edited.success_requests = req[h].row.success_requests
             THEN key[j].success_requests ELSE edited.success_requests
      /\ key'[j].fail_requests = IF edited.fail_requests = req[h].row.fail_requests
             THEN key[j].fail_requests ELSE edited.fail_requests
  BY <1>2, EndColumns
<1>7. ShowsLog(j)'
  BY <1>4, <1>5, <1>6 DEF ShowsLog, SameCounters
<1> QED
  BY <1>3, <1>7

LEMMA ExactStep ==
    ASSUME Postgres, PoolInv, HistoryTypes, LogsReferToKeys, [HistoryNext]_allVars,
           NEW j \in KeyIds, Started(j), Exact(j)
    PROVE  Exact(j)'
<1>1. okLog \in [KeyIds -> Nat] /\ failLog \in [KeyIds -> Nat]
  BY DEF PoolInv, TypeOK
<1>2. CASE Quiet(j)
  <2> SUFFICES ASSUME j \in DOMAIN key' \ overlapped'
               PROVE  /\ ShowsLog(j)'
                      /\ \A h \in InFlight(j)' : SameCounters(req'[h].row, key'[j])
    BY DEF Exact, SameCounters
  <2>1. /\ j \in DOMAIN key \ overlapped
        /\ SameCounters(key'[j], key[j])
        /\ okLog'[j] = okLog[j] /\ failLog'[j] = failLog[j]
    BY <1>2 DEF Quiet
  <2>2. ShowsLog(j) /\ \A h \in InFlight(j) : SameCounters(req[h].row, key[j])
    BY <2>1 DEF Exact
  <2>3. ShowsLog(j)'
    BY <2>1, <2>2 DEF ShowsLog, SameCounters
  <2>4. ASSUME NEW h \in InFlight(j)' PROVE SameCounters(req'[h].row, key'[j])
    <3>1. h \in InFlight(j) /\ req'[h] = req[h]
      BY <1>2, <2>4, QuietRequests DEF InFlight
    <3>2. SameCounters(req[h].row, key[j])
      BY <2>2, <3>1
    <3> QED
      BY <2>1, <3>1, <3>2 DEF SameCounters
  <2> QED
    BY <2>3, <2>4
<1>3. CASE Appears(j)
  <2>1. okLog[j] = 0 /\ failLog[j] = 0
    BY <1>1, <1>3 DEF LogsReferToKeys, Appears
  <2>2. /\ InFlight(j)' = {} /\ UNCHANGED <<okLog, failLog>>
        /\ \E hash \in KeyHashes : key'[j] = NewKey(hash)
    BY <1>3, NotIssuedYet
  <2>3. ShowsLog(j)'
    BY <2>1, <2>2 DEF ShowsLog, NewKey
  <2> QED
    BY <2>2, <2>3 DEF Exact
<1>4. ASSUME NEW h, Starts(h, j) PROVE Exact(j)'
  <2> SUFFICES ASSUME j \notin overlapped'
               PROVE  /\ ShowsLog(j)'
                      /\ \A g \in InFlight(j)' : SameCounters(req'[g].row, key'[j])
    BY DEF Exact, SameCounters
  <2>1. InFlight(j) = {} /\ overlapped' = overlapped
    BY <1>4 DEF Starts, RecordOverlap, history
  <2>2. /\ j \in DOMAIN key /\ InFlight(j)' = InFlight(j) \cup {h}
        /\ req'[h] = [id |-> j, row |-> key[j]]
        /\ UNCHANGED <<key, okLog, failLog>>
    BY <1>4, StartKeeps
  <2>3. ShowsLog(j)
    BY <2>1, <2>2 DEF Exact
  <2> QED
    BY <2>1, <2>2, <2>3 DEF ShowsLog, SameCounters
<1>5. ASSUME NEW h, Succeeds(h, j) PROVE Exact(j)'
  <2>1. h \in DOMAIN req /\ req[h].row \in KeyRows /\ now \in Nat
    BY <1>5, EndKeeps DEF InFlight
  <2>2. /\ Finish(h, RecordSuccess(req[h].row, now))
        /\ okLog'[j] = okLog[j] + 1 /\ failLog'[j] = failLog[j]
    BY <1>1, <1>5 DEF Succeeds, UpstreamSucceeds
  <2> DEFINE edited == RecordSuccess(req[h].row, now)
  <2>3. /\ edited \in KeyRows
        /\ edited.total_requests = req[h].row.total_requests + 1
        /\ edited.success_requests = req[h].row.success_requests + 1
        /\ edited.fail_requests = req[h].row.fail_requests
    BY <2>1, SuccessIsRow
  <2> HIDE DEF edited
  <2>4. Finish(h, edited)
    BY <2>2 DEF edited
  <2> QED
    BY <1>5, <2>2, <2>3, <2>4, ExactEnd
<1>6. ASSUME NEW h, NEW code, NEW retry_after, Fails(h, j, code, retry_after)
      PROVE  Exact(j)'
  <2>1. h \in DOMAIN req /\ req[h].row \in KeyRows /\ now \in Nat
    BY <1>6, EndKeeps DEF InFlight
  <2>2. /\ Finish(h, RecordFailure(req[h].row, code, retry_after, now))
        /\ code \in Codes /\ retry_after \in Nat
        /\ okLog'[j] = okLog[j] /\ failLog'[j] = failLog[j] + 1
    BY <1>1, <1>6, PoolAssumption DEF Fails, UpstreamFails
  <2> DEFINE edited == RecordFailure(req[h].row, code, retry_after, now)
  <2>3. /\ edited \in KeyRows
        /\ edited.total_requests = req[h].row.total_requests + 1
        /\ edited.success_requests = req[h].row.success_requests
        /\ edited.fail_requests = req[h].row.fail_requests + 1
    BY <2>1, <2>2, FailureIsRow
  <2> HIDE DEF edited
  <2>4. Finish(h, edited)
    BY <2>2 DEF edited
  <2> QED
    BY <1>6, <2>2, <2>3, <2>4, ExactEnd
<1> QED
  BY <1>2, <1>3, <1>4, <1>5, <1>6, KeyMoves

---------------------------------------------------------------------------
(* Failures that put a key out of the rotation *)

LEMMA UnissuedStep ==
    ASSUME Postgres, PoolInv, HistoryTypes, [HistoryNext]_allVars,
           NEW j \in KeyIds, Unissued(j)
    PROVE  Unissued(j)'
<1>1. nextId \in Nat /\ nextId' \in Nat /\ nextId <= nextId' /\ j \in Nat
  BY HistoryNow, HistoryIsBeside, TypeStep, KeyIdsAssumption DEF PoolInv, TypeOK
<1>2. CASE Quiet(j)
  BY <1>1, <1>2 DEF Quiet, Unissued, HistoryTypes
<1>3. CASE Appears(j)
  BY <1>1, <1>3, NotIssuedYet DEF Unissued
<1>4. ASSUME NEW h, Starts(h, j) PROVE Unissued(j)'
  <2>1. j \in DOMAIN key /\ UNCHANGED nextId
    BY <1>4, StartKeeps
  <2> QED
    BY <1>1, <2>1 DEF PoolInv, IdsIssued, Unissued
<1>5. ASSUME NEW h, \/ Succeeds(h, j)
                    \/ \E code, retry_after : Fails(h, j, code, retry_after)
      PROVE  Unissued(j)'
  <2>1. j \in DOMAIN key /\ UNCHANGED nextId
    BY <1>5, EndKeeps
  <2> QED
    BY <1>1, <2>1 DEF PoolInv, IdsIssued, Unissued
<1> QED
  BY <1>2, <1>3, <1>4, <1>5, KeyMoves

\* A streak that shows the strikes up to the threshold.
Shows(streak, count) == AtMost(count, FailThreshold) <= streak

\* Until the strikes put the key out, the row and the copy of the request in
\* progress remember them: a 409 or 429 may cut the streak back, but never below
\* the threshold. From then on the key is out and no request is in progress with
\* it, and the streak may be whatever a check that loaded it before writes back.
Struck(j) ==
    j \in DOMAIN key \ overlapped =>
        IF strikes[j] >= Limit
        THEN key[j].status # "healthy" /\ InFlight(j) = {}
        ELSE /\ Shows(key[j].fail_streak, strikes[j])
             /\ \A h \in InFlight(j) : Shows(req[h].row.fail_streak, strikes[j])

LEMMA ShowsFewer ==
    ASSUME NEW streak \in Nat, NEW count \in Nat, NEW fewer \in Nat, fewer <= count,
           Shows(streak, count)
    PROVE  Shows(streak, fewer)
BY ThresholdAssumption DEF Shows, AtMost

LEMMA ShowsItself ==
    ASSUME NEW streak \in Nat, NEW count \in Nat, count <= streak
    PROVE  Shows(streak, count)
BY ThresholdAssumption DEF Shows, AtMost

\* One answer to a request that runs alone: the streak shows the strikes after it,
\* and the threshold is met by the strikes only when it is met by the streak.
LEMMA AnswerShows ==
    ASSUME NEW row \in KeyRows, NEW code \in Codes, NEW count \in Nat,
           Shows(row.fail_streak, count)
    PROVE  /\ Shows(StreakAfter(row, code), count + Strike(code))
           /\ StreakAfter(row, code) = row.fail_streak => Strike(code) = 0
           /\ Strike(code) = 1 /\ count + 1 >= Limit
                => StatusAfter(row, code) = "unhealthy"
<1>1. row.fail_streak \in Nat
  BY RowFields
<1>2. CASE code \in {"409", "429"}
  BY <1>1, <1>2, ThresholdAssumption DEF Shows, AtMost, StreakAfter, Strike
<1>3. CASE code = "401"
  BY <1>1, <1>3, ThresholdAssumption DEF Shows, AtMost, StreakAfter, Strike
<1>4. CASE code \in {"402", "5xx", "4xx"}
  BY <1>1, <1>4, ThresholdAssumption
  DEF Shows, AtMost, AtLeast, Limit, StreakAfter, StatusAfter, Persistent, Strike
<1> QED
  BY <1>2, <1>3, <1>4 DEF Codes

LEMMA StruckEnd ==
    ASSUME PoolInv, HistoryTypes, NEW j \in KeyIds, Started(j), Struck(j), NEW h,
           NEW code, NEW retry_after, Fails(h, j, code, retry_after)
    PROVE  Struck(j)'
<1> SUFFICES ASSUME j \notin overlapped'
             PROVE  /\ InFlight(j)' = {}
                    /\ IF strikes'[j] >= Limit THEN key'[j].status # "healthy"
                       ELSE Shows(key'[j].fail_streak, strikes'[j])
  BY DEF Struck, Shows, Limit
<1> DEFINE row == req[h].row
           edited == RecordFailure(row, code, retry_after, now)
<1>1. /\ h \in InFlight(j) /\ j \in DOMAIN key
      /\ key[j] \in KeyRows /\ row \in KeyRows
      /\ InFlight(j)' = InFlight(j) \ {h} /\ overlapped' = overlapped /\ now \in Nat
  BY EndKeeps
<1>2. /\ h \in DOMAIN req /\ j = req[h].id /\ Finish(h, edited)
      /\ code \in Codes /\ retry_after \in Nat
  BY PoolAssumption DEF Fails, UpstreamFails
<1>3. InFlight(j)' = {}
  BY <1>1 DEF Started, Solo
<1>4. row.status = "healthy"
  BY <1>1 DEF Started
<1>5. /\ Shows(key[j].fail_streak, strikes[j]) /\ Shows(row.fail_streak, strikes[j])
      /\ strikes[j] \in Nat /\ ~(strikes[j] >= Limit)
  BY <1>1 DEF Struck, HistoryTypes
<1>6. strikes'[j] = strikes[j] + Strike(code)
  BY <1>1 DEF Fails, Record, HistoryTypes
<1>7. /\ edited \in KeyRows
      /\ edited.fail_streak = StreakAfter(row, code)
      /\ edited.status = StatusAfter(row, code)
  BY <1>1, <1>2, FailureIsRow, FailureEdits
<1> HIDE DEF edited
<1>8. /\ key'[j].status = IF edited.status = row.status
           THEN key[j].status ELSE edited.status
      /\ key'[j].fail_streak = IF edited.fail_streak = row.fail_streak
           THEN key[j].fail_streak ELSE edited.fail_streak
  BY <1>2, <1>7, EndColumns
<1> HIDE DEF row
<1>9. /\ Shows(StreakAfter(row, code), strikes[j] + Strike(code))
      /\ StreakAfter(row, code) = row.fail_streak => Strike(code) = 0
      /\ Strike(code) = 1 /\ strikes[j] + 1 >= Limit
           => StatusAfter(row, code) = "unhealthy"
  BY <1>1, <1>2, <1>5, AnswerShows
<1>10. Shows(key'[j].fail_streak, strikes'[j])
  BY <1>5, <1>6, <1>7, <1>8, <1>9
<1>11. ASSUME strikes'[j] >= Limit PROVE key'[j].status # "healthy"
  <2>1. Strike(code) = 1
    BY <1>5, <1>6, <1>11 DEF Strike
  <2> QED
    BY <1>4, <1>6, <1>7, <1>8, <1>9, <1>11, <2>1
<1> QED
  BY <1>3, <1>10, <1>11

LEMMA StruckStep ==
    ASSUME Postgres, PoolInv, PoolInv', HistoryTypes, [HistoryNext]_allVars,
           NEW j \in KeyIds, Started(j), Unissued(j), Struck(j)
    PROVE  Struck(j)'
<1>1. /\ \A i \in DOMAIN key : key[i].fail_streak \in Nat
      /\ \A i \in DOMAIN key' : key'[i].fail_streak \in Nat
      /\ \A h \in DOMAIN req : req[h].row.fail_streak \in Nat
  <2>1. /\ \A i \in DOMAIN key : key[i] \in KeyRows
        /\ \A i \in DOMAIN key' : key'[i] \in KeyRows
        /\ \A h \in DOMAIN req : req[h].row \in KeyRows
    BY DEF PoolInv, TypeOK, IsMapping, Snapshots
  <2> QED
    BY <2>1, RowFields
<1>2. strikes[j] \in Nat /\ FailThreshold \in Nat
  BY ThresholdAssumption DEF HistoryTypes
<1>3. Limit \in Nat /\ Limit >= 1
  BY <1>2 DEF Limit, AtLeast
<1>4. ASSUME NEW streak \in Nat PROVE Shows(streak, 0)
  BY <1>2, <1>4 DEF Shows, AtMost
<1>5. CASE Quiet(j)
  <2> SUFFICES ASSUME j \in DOMAIN key' \ overlapped'
               PROVE  IF strikes'[j] >= Limit
                      THEN key'[j].status # "healthy" /\ InFlight(j)' = {}
                      ELSE /\ Shows(key'[j].fail_streak, strikes'[j])
                           /\ \A h \in InFlight(j)' :
                                Shows(req'[h].row.fail_streak, strikes'[j])
    BY DEF Struck, Shows, Limit
  <2>1. /\ j \in DOMAIN key \ overlapped
        /\ strikes'[j] \in Nat /\ strikes'[j] <= strikes[j]
        /\ key'[j].status = "healthy" => key[j].status = "healthy" \/ strikes'[j] = 0
        /\ strikes[j] >= Limit => strikes'[j] \in {0, strikes[j]}
        /\ \/ strikes'[j] >= Limit
           \/ key'[j].fail_streak = key[j].fail_streak
           \/ strikes'[j] <= key'[j].fail_streak
    BY <1>5 DEF Quiet
  <2>2. \A h \in InFlight(j)' : /\ h \in InFlight(j) /\ h \in DOMAIN req
                                /\ req'[h] = req[h]
    BY <1>5, QuietRequests DEF InFlight
  <2>3. CASE strikes'[j] >= Limit
    <3>1. key[j].status # "healthy" /\ InFlight(j) = {}
      BY <1>2, <1>3, <2>1, <2>3 DEF Struck
    <3> QED
      BY <1>3, <2>1, <2>2, <2>3, <3>1
  <2>4. CASE ~(strikes'[j] >= Limit) /\ strikes[j] >= Limit
    \* Then the key is readmitted, and no request is in progress with it.
    <3>1. InFlight(j)' = {}
      BY <2>1, <2>2, <2>4 DEF Struck
    <3> QED
      BY <1>1, <1>3, <1>4, <2>1, <2>4, <3>1
  <2>5. CASE ~(strikes[j] >= Limit)
    <3>1. /\ Shows(key[j].fail_streak, strikes[j])
          /\ \A h \in InFlight(j) : Shows(req[h].row.fail_streak, strikes[j])
      BY <2>1, <2>5 DEF Struck
    <3>2. Shows(key'[j].fail_streak, strikes'[j])
      BY <1>1, <1>2, <1>3, <2>1, <2>5, <3>1, ShowsFewer, ShowsItself
    <3>3. \A h \in InFlight(j)' : Shows(req'[h].row.fail_streak, strikes'[j])
      BY <1>1, <1>2, <2>1, <2>2, <3>1, ShowsFewer
    <3> QED
      BY <1>2, <1>3, <2>1, <2>5, <3>2, <3>3
  <2> QED
    BY <2>3, <2>4, <2>5
<1>6. CASE Appears(j)
  <2>1. /\ InFlight(j)' = {} /\ strikes'[j] = 0
    BY <1>6, NotIssuedYet DEF Unissued
  <2>2. j \in DOMAIN key'
    BY <1>6 DEF Appears
  <2> QED
    BY <1>1, <1>3, <1>4, <2>1, <2>2 DEF Struck
<1>7. ASSUME NEW h, Starts(h, j) PROVE Struck(j)'
  <2> SUFFICES ASSUME j \notin overlapped' PROVE Struck(j)'
    BY DEF Struck
  <2>1. InFlight(j) = {} /\ UNCHANGED history
    BY <1>7 DEF Starts, RecordOverlap
  <2>2. /\ j \in DOMAIN key /\ InFlight(j)' = InFlight(j) \cup {h}
        /\ req'[h] = [id |-> j, row |-> key[j]] /\ key' = key
        /\ key[j].status = "healthy"
    BY <1>7, StartKeeps
  <2>3. Shows(key[j].fail_streak, strikes[j]) /\ ~(strikes[j] >= Limit)
    BY <2>1, <2>2 DEF Struck, history
  <2> QED
    BY <2>1, <2>2, <2>3 DEF Struck, history
<1>8. ASSUME NEW h, Succeeds(h, j) PROVE Struck(j)'
  <2> SUFFICES ASSUME j \notin overlapped' PROVE Struck(j)'
    BY DEF Struck
  <2>0. /\ h \in InFlight(j) /\ InFlight(j)' = InFlight(j) \ {h}
        /\ overlapped' = overlapped
        /\ j \in DOMAIN key /\ DOMAIN key' = DOMAIN key
    BY <1>8, EndKeeps
  <2>1. InFlight(j)' = {}
    BY <2>0 DEF Started, Solo
  <2>2. strikes'[j] = 0
    BY <1>8, <2>0 DEF Succeeds, Record, HistoryTypes
  <2> QED
    BY <1>1, <1>3, <1>4, <2>0, <2>1, <2>2 DEF Struck
<1> QED
  BY <1>5, <1>6, <1>7, <1>8, StruckEnd, KeyMoves

---------------------------------------------------------------------------
(* Pauses *)

\* A key whose pause is not over is resting until then, and no request is in
\* progress with it.
Due(j) ==
    /\ j \in overlapped => dueBack[j] = 0
    /\ InFlight(j) # {} => dueBack[j] <= now
    /\ j \in DOMAIN key => dueBack[j] <= now \/ dueBack[j] <= key[j].cooldown_until

\* The cooldown is as long as the pause the answer asked for (proxy.py:37-53, 56-131).
LEMMA CooldownCoversPause ==
    ASSUME NEW row \in KeyRows, NEW code \in Codes \ {"401"},
           NEW retry_after \in RetryAfters, DynamicCooldown,
           code # "429" => retry_after = 0
    PROVE  Pause(code, retry_after) <= CooldownSeconds(row, code, retry_after)
<1> DEFINE base == BaseFor(code)
           factor == BackoffFactor(StreakAfter(row, code))
           seconds == base * factor
           backoff == ComputeBackoff(base, StreakAfter(row, code))
<1>1. base \in Int /\ CooldownMax \in Int /\ retry_after \in Nat
  BY PoolAssumption, CooldownAssumption DEF BaseFor, Codes
<1>2. factor \in Nat /\ factor >= 1
  BY StreakAfterIsNat DEF BackoffFactor, AtMost, AtLeast
<1>3. backoff = IF base <= 0 THEN 0
                ELSE IF CooldownMax > 0 THEN AtMost(seconds, CooldownMax) ELSE seconds
  BY DEF ComputeBackoff
<1>4. /\ Pause(code, retry_after) = AtLeast(retry_after, AtMost(base, CooldownMax))
      /\ CooldownSeconds(row, code, retry_after) =
           IF code = "429" THEN AtLeast(backoff, retry_after) ELSE backoff
  BY DEF Pause, CooldownSeconds
<1> HIDE DEF base, factor, backoff
<1>5. seconds \in Int /\ (base > 0 => seconds >= base)
  BY <1>1, <1>2
<1> HIDE DEF seconds
<1>6. backoff \in Nat /\ AtMost(base, CooldownMax) <= backoff
  BY <1>1, <1>3, <1>5 DEF AtMost
<1> QED
  BY <1>1, <1>4, <1>6 DEF AtLeast, AtMost

LEMMA DueEnd ==
    ASSUME DynamicCooldown, PoolInv, HistoryTypes, NEW j \in KeyIds,
           Started(j), Due(j), NEW h,
           NEW code, NEW retry_after, Fails(h, j, code, retry_after), j \notin overlapped
    PROVE  dueBack'[j] <= now \/ dueBack'[j] <= key'[j].cooldown_until
<1> DEFINE row == req[h].row
           edited == RecordFailure(row, code, retry_after, now)
           seconds == CooldownSeconds(row, code, retry_after)
           pause == Pause(code, retry_after)
<1>1. /\ h \in InFlight(j) /\ row \in KeyRows /\ now \in Nat
  BY EndKeeps
<1>2. /\ h \in DOMAIN req /\ j = req[h].id /\ Finish(h, edited)
      /\ code \in Codes /\ retry_after \in Nat /\ retry_after \in RetryAfters
      /\ code # "429" => retry_after = 0
  BY PoolAssumption DEF Fails, UpstreamFails
<1>3. row.cooldown_until <= now /\ row.cooldown_until \in Int
  BY <1>1, <1>2, UsesTyped DEF Started, PoolInv
<1>4. dueBack[j] \in Nat /\ dueBack[j] <= now
  BY <1>1 DEF Due, HistoryTypes
<1>5. dueBack'[j] = AtLeast(dueBack[j], now + pause)
  BY DEF Fails, Record, HistoryTypes
<1>6. seconds \in Nat /\ pause \in Nat
  BY <1>1, <1>2, CooldownSecondsIsNat, PauseIsNat
<1>7. edited \in KeyRows
      /\ edited.cooldown_until = SetKeyCooldown(row.cooldown_until, seconds, now)
  BY <1>1, <1>2, FailureIsRow, FailureEdits
<1> HIDE DEF edited, seconds, pause
<1>8. key'[j].cooldown_until = IF edited.cooldown_until = row.cooldown_until
          THEN key[j].cooldown_until ELSE edited.cooldown_until
  BY <1>2, <1>7, EndColumns
<1>9. pause <= seconds
  <2>1. CASE code = "401"
    BY <1>6, <2>1 DEF pause, Pause
  <2>2. CASE code # "401"
    BY <1>1, <1>2, <2>2, CooldownCoversPause DEF pause, seconds
  <2> QED
    BY <2>1, <2>2
<1> HIDE DEF row
<1>10. CASE seconds = 0
  BY <1>1, <1>4, <1>5, <1>6, <1>9, <1>10 DEF AtLeast
<1>11. CASE seconds > 0
  <2>1. edited.cooldown_until = now + seconds /\ edited.cooldown_until # row.cooldown_until
    BY <1>1, <1>3, <1>6, <1>7, <1>11 DEF SetKeyCooldown, AtLeast
  <2>2. key'[j].cooldown_until = now + seconds
    BY <1>8, <2>1
  <2> QED
    BY <1>1, <1>4, <1>5, <1>6, <1>9, <2>2 DEF AtLeast
<1> QED
  BY <1>6, <1>10, <1>11

LEMMA DueStep ==
    ASSUME Postgres, DynamicCooldown, PoolInv, HistoryTypes, [HistoryNext]_allVars,
           NEW j \in KeyIds, Started(j), Unissued(j), Due(j)
    PROVE  Due(j)'
<1>1. /\ now \in Nat /\ now' \in Nat /\ now <= now' /\ dueBack[j] \in Nat
      /\ j \in DOMAIN key => key[j].cooldown_until \in Int
  BY HistoryNow, UsesTyped DEF HistoryTypes, PoolInv
<1>2. CASE Quiet(j)
  <2>1. /\ dueBack'[j] = dueBack[j] /\ (j \in overlapped' <=> j \in overlapped)
        /\ InFlight(j)' \subseteq InFlight(j)
        /\ j \in DOMAIN key' =>
             j \in DOMAIN key /\ key'[j].cooldown_until = key[j].cooldown_until
    BY <1>2, QuietRequests DEF Quiet
  <2>2. InFlight(j)' # {} => dueBack'[j] <= now'
    BY <1>1, <2>1 DEF Due
  <2>3. j \in DOMAIN key' => dueBack'[j] <= now' \/ dueBack'[j] <= key'[j].cooldown_until
    BY <1>1, <2>1 DEF Due
  <2> QED
    BY <2>1, <2>2, <2>3 DEF Due
<1>3. CASE Appears(j)
  <2>1. dueBack'[j] = 0 /\ now' = now
    BY <1>3, NotIssuedYet DEF Unissued
  <2> QED
    BY <1>1, <2>1 DEF Due
<1>4. ASSUME NEW h, Starts(h, j) PROVE Due(j)'
  <2>1. /\ j \in DOMAIN key /\ key[j].cooldown_until <= now
        /\ UNCHANGED <<now, key>>
    BY <1>4, StartKeeps
  <2>2. dueBack[j] <= now
    BY <1>1, <2>1 DEF Due
  <2>3. CASE InFlight(j) = {}
    <3>1. UNCHANGED <<overlapped, dueBack>>
      BY <1>4, <2>3 DEF Starts, RecordOverlap, history
    <3> QED
      BY <2>1, <2>2, <3>1 DEF Due
  <2>4. CASE InFlight(j) # {}
    <3>1. dueBack'[j] = 0
      BY <1>4, <2>4 DEF Starts, RecordOverlap, HistoryTypes
    <3> QED
      BY <1>1, <2>1, <3>1 DEF Due
  <2> QED
    BY <2>3, <2>4
<1>5. ASSUME NEW h, \/ Succeeds(h, j)
                    \/ \E code, retry_after : Fails(h, j, code, retry_after)
      PROVE  Due(j)'
  <2>1. /\ h \in InFlight(j) /\ InFlight(j)' = InFlight(j) \ {h}
        /\ UNCHANGED <<now, overlapped>>
    BY <1>5, EndKeeps
  <2>2. dueBack[j] <= now
    BY <2>1 DEF Due
  <2>3. CASE j \in overlapped
    <3>1. dueBack'[j] = dueBack[j] /\ dueBack[j] = 0
      BY <1>5, <2>3 DEF Succeeds, Fails, Record, Due
    <3> QED
      BY <1>1, <2>1, <3>1 DEF Due
  <2>4. CASE j \notin overlapped
    <3>1. InFlight(j)' = {}
      BY <2>1, <2>4 DEF Started, Solo
    <3>2. CASE Succeeds(h, j)
      <4>1. dueBack'[j] = dueBack[j]
        BY <2>4, <3>2 DEF Succeeds, Record, HistoryTypes
      <4> QED
        BY <2>1, <2>2, <2>4, <3>1, <4>1 DEF Due
    <3>3. ASSUME NEW code, NEW retry_after, Fails(h, j, code, retry_after) PROVE Due(j)'
      <4>1. dueBack'[j] <= now \/ dueBack'[j] <= key'[j].cooldown_until
        BY <2>4, <3>3, DueEnd
      <4> QED
        BY <2>1, <2>4, <3>1, <4>1 DEF Due
    <3> QED
      BY <1>5, <3>2, <3>3
  <2> QED
    BY <2>3, <2>4
<1> QED
  BY <1>2, <1>3, <1>4, <1>5, KeyMoves

---------------------------------------------------------------------------
(* The theorems *)

StartedAll == \A j \in KeyIds : Started(j) /\ Unissued(j)
ExactAll == \A j \in KeyIds : Exact(j)
StruckAll == \A j \in KeyIds : Struck(j)
DueAll == \A j \in KeyIds : Due(j)

LEMMA HistoryBegins ==
    ASSUME HistoryInit
    PROVE  /\ DOMAIN key = {} /\ DOMAIN req = {}
           /\ \A j \in KeyIds : InFlight(j) = {} /\ dueBack[j] = 0 /\ strikes[j] = 0
           /\ overlapped = {}
<1>1. DOMAIN key = {} /\ DOMAIN req = {}
  BY EmptyIsMapping DEF HistoryInit, Init
<1> QED
  BY <1>1 DEF HistoryInit, InFlight

\* On Postgres, whatever the requests, every one with a key that no two of them
\* ever shared starts from the key as it is.
LEMMA StartedHolds == ASSUME Postgres PROVE HistorySpec => []StartedAll
<1>1. HistoryInit => StartedAll
  BY HistoryBegins DEF StartedAll, Started, Unissued, Solo
<1>2. ASSUME PoolInv, PoolInv', HistoryTypes, StartedAll, [HistoryNext]_allVars,
             NEW j \in KeyIds
      PROVE  Started(j)' /\ Unissued(j)'
  BY <1>2, StartedStep, UnissuedStep DEF StartedAll
<1>3. PoolInv /\ PoolInv' /\ HistoryTypes /\ StartedAll /\ [HistoryNext]_allVars
        => StartedAll'
  BY <1>2 DEF StartedAll
<1> QED
  BY <1>1, <1>3, PoolInvBeside, HistoryTypesHold, PTL DEF HistorySpec

\* On Postgres no sweep, toggle, deletion or lost answer makes the counters of a key
\* whose requests never overlapped differ from the log (proxy.py:310-322).
THEOREM CountersAreExact == ASSUME Postgres PROVE HistorySpec => []CountersExact
<1>1. HistoryInit => LogsReferToKeys /\ ExactAll
  BY HistoryBegins DEF HistoryInit, Init, LogsReferToKeys, ExactAll, Exact
<1>2. PoolInv /\ LogsReferToKeys /\ [HistoryNext]_allVars => LogsReferToKeys'
  BY HistoryIsBeside, LogsStep
<1>3. ASSUME PoolInv, HistoryTypes, LogsReferToKeys, StartedAll, ExactAll,
             [HistoryNext]_allVars, NEW j \in KeyIds
      PROVE  Exact(j)'
  BY <1>3, ExactStep DEF StartedAll, ExactAll
<1>4. PoolInv /\ HistoryTypes /\ LogsReferToKeys /\ StartedAll /\ ExactAll
        /\ [HistoryNext]_allVars => ExactAll'
  BY <1>3 DEF ExactAll
<1>5. PoolInv /\ ExactAll => CountersExact
  BY DEF PoolInv, TypeOK, IsMapping, ExactAll, Exact, ShowsLog, CountersExact
<1> QED
  BY <1>1, <1>2, <1>4, <1>5, PoolInvBeside, HistoryTypesHold, StartedHolds, PTL
  DEF HistorySpec

\* On Postgres, for every threshold, as many persistent failures in a row as it
\* names put a key whose requests never overlapped out of the rotation, until a
\* check that had loaded it out of the rotation finds it in order: no toggle, no
\* limit answer and no sweep that loaded the row while it was healthy brings it
\* back (proxy.py:56-131, health_check.py:55-60).
THEOREM FailuresEvict == ASSUME Postgres PROVE HistorySpec => []PersistentFailuresEvict
<1>1. HistoryInit => StruckAll
  BY HistoryBegins DEF StruckAll, Struck
<1>2. ASSUME PoolInv, PoolInv', HistoryTypes, StartedAll, StruckAll,
             [HistoryNext]_allVars, NEW j \in KeyIds
      PROVE  Struck(j)'
  BY <1>2, StruckStep DEF StartedAll, StruckAll
<1>3. PoolInv /\ PoolInv' /\ HistoryTypes /\ StartedAll /\ StruckAll
        /\ [HistoryNext]_allVars => StruckAll'
  BY <1>2 DEF StruckAll
<1>4. PoolInv /\ StruckAll => PersistentFailuresEvict
  BY DEF PoolInv, TypeOK, IsMapping, StruckAll, Struck, Limit, PersistentFailuresEvict
<1> QED
  BY <1>1, <1>3, <1>4, PoolInvBeside, HistoryTypesHold, StartedHolds, PTL
  DEF HistorySpec

LEMMA NewRequestIsDue ==
    ASSUME Postgres, PoolInv, HistoryTypes, StartedAll, DueAll, [HistoryNext]_allVars,
           NEW h \in DOMAIN req' \ DOMAIN req
    PROVE  dueBack[req'[h].id] <= now
<1> DEFINE j == req'[h].id
<1>1. j \in KeyIds
  BY HistoryIsBeside, TypeStep DEF PoolInv, TypeOK, IsMapping, Snapshots
<1>2. ~Quiet(j)
  BY DEF Quiet
<1>3. ~Appears(j)
  BY DEF Appears, NewRow
<1>4. ASSUME NEW g, \/ Succeeds(g, j)
                    \/ \E code, retry_after : Fails(g, j, code, retry_after)
      PROVE  FALSE
  <2>1. DOMAIN req' = DOMAIN req \ {g}
    BY <1>1, <1>4, EndKeeps
  <2> QED
    BY <2>1
<1>5. PICK g \in Handlers : Starts(g, j)
  BY <1>1, <1>2, <1>3, <1>4, KeyMoves
<1>6. j \in DOMAIN key /\ key[j].cooldown_until <= now
  BY <1>1, <1>5, StartKeeps
<1>7. now \in Nat /\ dueBack[j] \in Nat /\ key[j].cooldown_until \in Int
  BY <1>1, <1>6, UsesTyped DEF PoolInv, TypeOK, HistoryTypes
<1>8. dueBack[j] <= now \/ dueBack[j] <= key[j].cooldown_until
  BY <1>1, <1>6 DEF DueAll, Due
<1> QED
  BY <1>6, <1>7, <1>8

\* On Postgres and with dynamic cooldown on, no request is sent with a key before
\* the pause its earlier answers asked for is over, unless requests with it
\* overlapped: no check and no toggle that overlaps an answer shortens the pause
\* (proxy.py:37-131).
THEOREM PausesHonoured ==
    ASSUME Postgres, DynamicCooldown
    PROVE  HistorySpec => PausesAreHonoured
<1>1. HistoryInit => DueAll
  BY HistoryBegins DEF DueAll, Due, HistoryInit, Init
<1>2. ASSUME PoolInv, HistoryTypes, StartedAll, DueAll, [HistoryNext]_allVars,
             NEW j \in KeyIds
      PROVE  Due(j)'
  BY <1>2, DueStep DEF StartedAll, DueAll
<1>3. PoolInv /\ HistoryTypes /\ StartedAll /\ DueAll /\ [HistoryNext]_allVars
        => DueAll'
  BY <1>2 DEF DueAll
<1>4. PoolInv /\ HistoryTypes /\ StartedAll /\ DueAll /\ [HistoryNext]_allVars
        => [\A h \in DOMAIN req' \ DOMAIN req : dueBack[req'[h].id] <= now]_allVars
  BY NewRequestIsDue
<1> QED
  BY <1>1, <1>3, <1>4, PoolInvBeside, HistoryTypesHold, StartedHolds, PTL
  DEF HistorySpec, PausesAreHonoured

==========================================================================
