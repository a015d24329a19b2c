----------------------------- MODULE KeyPool -----------------------------
(***************************************************************************)
(* The shared pool of NovelAI keys: the api_keys and request_logs tables   *)
(* and every handler that reads or writes them.                            *)
(*                                                                         *)
(* A handler is an asyncio task of some node, with a database session of   *)
(* its own. It loads a row, awaits the network for up to a minute, edits   *)
(* its copy and commits. Nothing is locked in between, so its copy (req,   *)
(* check, toggle) is part of the state.                                    *)
(*                                                                         *)
(* The admission checks that precede the choice of a key (quota, key count,*)
(* payload limits) write no key and are left to the environment, which may *)
(* admit a request at any time.                                            *)
(***************************************************************************)
EXTENDS KeyHealth, FiniteSets, Mappings

CONSTANTS
    KeyIds,       \* primary keys of api_keys
    Handlers,     \* slots for relayed requests in progress
    Checkers,     \* slots for health checks in progress
    Admins,       \* slots for toggle requests in progress
    KeyCooldown,  \* key_cooldown_seconds
    RetryAfters,  \* values of a Retry-After header, 0 for none
    Postgres,     \* TRUE: sequence ids, enforced foreign keys. FALSE: SQLite
    MaxTime,      \* bound on the clock
    MaxLogs,      \* bound on the requests logged per key id
    MaxStreak     \* bound on a streak counted up by health checks

ASSUME KeyIdsAssumption == KeyIds \subseteq Nat \ {0}
ASSUME PoolAssumption ==
    /\ KeyCooldown \in Int
    /\ RetryAfters \subseteq Nat
    /\ 0 \in RetryAfters
    /\ Postgres \in BOOLEAN
ASSUME BoundAssumption == MaxTime \in Nat /\ MaxLogs \in Nat /\ MaxStreak \in Nat

VARIABLES
    now,      \* utcnow(), in whole seconds
    key,      \* table api_keys: id -> row
    nextId,   \* the Postgres id sequence
    okLog,    \* request_logs with status "success", counted per api_key_id
    failLog,  \* request_logs with status "failed", counted per api_key_id
    req,      \* handler -> the row it selected, while it awaits NovelAI
    check,    \* checker -> the rows it loaded and edited, while it probes
    toggle    \* admin -> the row it loaded, until it commits

vars == <<now, key, nextId, okLog, failLog, req, check, toggle>>

Snapshots == [id : KeyIds, row : KeyRows]

---------------------------------------------------------------------------
Init ==
    /\ now = 0
    /\ key = Empty
    /\ nextId = 1
    /\ okLog = [i \in KeyIds |-> 0]
    /\ failLog = [i \in KeyIds |-> 0]
    /\ req = Empty
    /\ check = Empty
    /\ toggle = Empty

Tick ==
    /\ now < MaxTime
    /\ now' = now + 1
    /\ UNCHANGED <<key, nextId, okLog, failLog, req, check, toggle>>

---------------------------------------------------------------------------
(* Uploading, deleting and toggling a key *)

\* A Postgres sequence never goes back. SQLite gives an INTEGER PRIMARY KEY
\* the highest id in the table plus one, so the id of a deleted row returns.
NewId(i) ==
    IF Postgres THEN i = nextId
    ELSE /\ \A j \in DOMAIN key : j < i
         /\ i - 1 \in DOMAIN key \cup {0}

\* Faulty: the handler takes a free id itself.
InsertAtFreeId(i, hash) ==
    /\ i \in KeyIds \ DOMAIN key
    /\ \A j \in DOMAIN key : key[j].key_hash # hash
    /\ key' = Put(key, i, NewKey(hash))
    /\ UNCHANGED <<now, nextId, okLog, failLog, req, toggle>>

Insert(i, hash) ==
    /\ i \in KeyIds
    /\ NewId(i)
    /\ \A j \in DOMAIN key : key[j].key_hash # hash
    /\ key' = Put(key, i, NewKey(hash))
    /\ nextId' = IF Postgres THEN nextId + 1 ELSE nextId
    /\ UNCHANGED <<now, okLog, failLog, req, toggle>>

UploadKey(i, hash) == Insert(i, hash) /\ UNCHANGED check

\* verify_now: the upload goes on as a check of the one row, which it first
\* reads back (Refresh).
UploadAndVerify(i, hash, c) ==
    /\ c \notin DOMAIN check
    /\ Insert(i, hash)
    /\ check' = Put(check, c, [todo |-> {i}, loaded |-> Empty, edited |-> Empty])

\* Faulty: the foreign key is not enforced.
DeleteKeyUnchecked(i) ==
    /\ i \in DOMAIN key
    /\ key' = Drop(key, i)
    /\ UNCHANGED <<now, nextId, okLog, failLog, req, check, toggle>>

\* Postgres refuses to delete a row that request_logs refers to; SQLite does
\* not enforce the foreign key.
DeleteKey(i) ==
    /\ i \in DOMAIN key
    /\ Postgres => okLog[i] + failLog[i] = 0
    /\ key' = Drop(key, i)
    /\ UNCHANGED <<now, nextId, okLog, failLog, req, check, toggle>>

ToggleRead(a, i) ==
    /\ a \notin DOMAIN toggle
    /\ i \in DOMAIN key
    /\ toggle' = Put(toggle, a, [id |-> i, row |-> key[i]])
    /\ UNCHANGED <<now, key, nextId, okLog, failLog, req, check>>

ToggleEdit(row) == [row EXCEPT !.is_enabled = ~@]

\* An UPDATE that finds no row raises StaleDataError and nothing is written.
ToggleCommit(a) ==
    /\ a \in DOMAIN toggle
    /\ LET i == toggle[a].id
           row == toggle[a].row
       IN  key' = IF i \in DOMAIN key
                  THEN [key EXCEPT ![i] = Flush(@, row, ToggleEdit(row))]
                  ELSE key
    /\ toggle' = Drop(toggle, a)
    /\ UNCHANGED <<now, nextId, okLog, failLog, req, check>>

---------------------------------------------------------------------------
(* Relaying a request *)

\* Faulty: any key not known to be bad is good enough.
SelectableUnchecked(i) ==
    LET row == key[i]
    IN  /\ row.status \notin {"unhealthy", "invalid"}
        /\ row.is_enabled
        /\ row.cooldown_until = Never \/ row.cooldown_until <= now
        /\ row.last_used_at = Never \/ row.last_used_at <= now - KeyCooldown

Selectable(i) ==
    LET row == key[i]
    IN  /\ row.status = "healthy"
        /\ row.is_enabled
        /\ row.cooldown_until = Never \/ row.cooldown_until <= now
        /\ row.last_used_at = Never \/ row.last_used_at <= now - KeyCooldown
        /\ RequireOpus => row.tier = "opus"

Candidates == {i \in DOMAIN key : Selectable(i)}

\* ORDER BY last_used_at NULLS FIRST, id
Precedes(i, j) ==
    LET u == key[i].last_used_at
        v == key[j].last_used_at
    IN  u < v \/ (u = v /\ i <= j)

InFlight(i) == {h \in DOMAIN req : req[h].id = i}

GenerateImage(h, i) ==
    /\ h \notin DOMAIN req
    /\ i \in Candidates
    /\ \A j \in Candidates : Precedes(i, j)
    /\ okLog[i] + failLog[i] + Cardinality(InFlight(i)) < MaxLogs
    /\ req' = Put(req, h, [id |-> i, row |-> key[i]])
    /\ UNCHANGED <<now, key, nextId, okLog, failLog, check, toggle>>

\* Faulty: the whole row is written back.
FinishWholeRow(h, edited) ==
    LET i == req[h].id
    IN  /\ i \in DOMAIN key
        /\ key' = [key EXCEPT ![i] = edited]
        /\ req' = Drop(req, h)
        /\ UNCHANGED <<now, nextId, check, toggle>>

\* The UPDATE of the key and the INSERT of the log commit together, and only
\* while the row is there.
Finish(h, edited) ==
    LET i == req[h].id
    IN  /\ i \in DOMAIN key
        /\ key' = [key EXCEPT ![i] = Flush(@, req[h].row, edited)]
        /\ req' = Drop(req, h)
        /\ UNCHANGED <<now, nextId, check, toggle>>

UpstreamSucceeds(h) ==
    /\ h \in DOMAIN req
    /\ Finish(h, RecordSuccess(req[h].row, now))
    /\ okLog' = [okLog EXCEPT ![req[h].id] = @ + 1]
    /\ UNCHANGED failLog

\* Faulty: the failure is counted on the key and not logged.
UpstreamFailsUnlogged(h, code, retry_after) ==
    /\ h \in DOMAIN req
    /\ code # "429" => retry_after = 0
    /\ Finish(h, RecordFailure(req[h].row, code, retry_after, now))
    /\ UNCHANGED <<okLog, failLog>>

UpstreamFails(h, code, retry_after) ==
    /\ h \in DOMAIN req
    /\ code # "429" => retry_after = 0
    /\ Finish(h, RecordFailure(req[h].row, code, retry_after, now))
    /\ failLog' = [failLog EXCEPT ![req[h].id] = @ + 1]
    /\ UNCHANGED okLog

\* The handler raises on the answer itself: a body that is not the JSON its
\* content type claims, a Retry-After too large for a timedelta, or on Postgres
\* an error text longer than reject_reason. None of these is an httpx.HTTPError,
\* so the session is closed with neither the key nor a log row written.
MalformedAnswer(h) ==
    /\ h \in DOMAIN req
    /\ req' = Drop(req, h)
    /\ UNCHANGED <<now, key, nextId, okLog, failLog, check, toggle>>

\* No answer is recorded: the commit finds the row deleted, or the node stops.
Abandoned(h) ==
    /\ h \in DOMAIN req
    /\ req' = Drop(req, h)
    /\ UNCHANGED <<now, key, nextId, okLog, failLog, check, toggle>>

---------------------------------------------------------------------------
(* Health checks *)

\* Faulty: a sweep checks again only what was checked before.
EnabledKnown == {i \in DOMAIN key : key[i].is_enabled /\ key[i].status # "pending"}

Enabled == {i \in DOMAIN key : key[i].is_enabled}

\* check_all_keys, from the scheduler of any node or from an administrator.
StartSweep(c) ==
    /\ c \notin DOMAIN check
    /\ check' = Put(check, c, [todo   |-> Enabled,
                               loaded |-> Restrict(key, Enabled),
                               edited |-> Restrict(key, Enabled)])
    /\ UNCHANGED <<now, key, nextId, okLog, failLog, req, toggle>>

Refresh(c) ==
    /\ c \in DOMAIN check
    /\ \E i \in check[c].todo \ DOMAIN check[c].loaded :
         /\ i \in DOMAIN key
         /\ check' = [check EXCEPT ![c].loaded = Restrict(key, {i}),
                                   ![c].edited = Restrict(key, {i})]
    /\ UNCHANGED <<now, key, nextId, okLog, failLog, req, toggle>>

Probe(c, i, verdict) ==
    /\ c \in DOMAIN check
    /\ i \in check[c].todo \cap DOMAIN check[c].loaded
    /\ verdict \in {"401", "error"} => check[c].edited[i].fail_streak < MaxStreak
    /\ check' = [check EXCEPT
                   ![c].todo      = @ \ {i},
                   ![c].edited[i] = CheckKeyHealth(@, verdict)]
    /\ UNCHANGED <<now, key, nextId, okLog, failLog, req, toggle>>

\* Faulty: the rows are written back whole.
CommitCheckWholeRows(c) ==
    /\ c \in DOMAIN check
    /\ check[c].todo = {}
    /\ LET loaded == check[c].loaded
           edited == check[c].edited
       IN  /\ DOMAIN loaded \subseteq DOMAIN key
           /\ key' = [i \in DOMAIN key |->
                        IF i \in DOMAIN loaded THEN edited[i] ELSE key[i]]
    /\ check' = Drop(check, c)
    /\ UNCHANGED <<now, nextId, okLog, failLog, req, toggle>>

\* One commit for the whole sweep. A row that is gone fails it, except that
\* Postgres runs the UPDATEs of several rows as one batch and does not count.
CommitCheck(c) ==
    /\ c \in DOMAIN check
    /\ check[c].todo = {}
    /\ LET loaded == check[c].loaded
           edited == check[c].edited
       IN  /\ \/ DOMAIN loaded \subseteq DOMAIN key
              \/ Postgres /\ Cardinality(DOMAIN loaded) > 1
           /\ key' = [i \in DOMAIN key |->
                        IF i \in DOMAIN loaded
                        THEN Flush(key[i], loaded[i], edited[i])
                        ELSE key[i]]
    /\ check' = Drop(check, c)
    /\ UNCHANGED <<now, nextId, okLog, failLog, req, toggle>>

\* The check ends without a commit: a loaded row is gone, a ciphertext cannot
\* be decrypted (decrypt_text is outside the try), or the node stops.
Rollback(c) ==
    /\ c \in DOMAIN check
    /\ check' = Drop(check, c)
    /\ UNCHANGED <<now, key, nextId, okLog, failLog, req, toggle>>

---------------------------------------------------------------------------
KeyManagement ==
    \/ \E i \in KeyIds, hash \in KeyHashes :
         \/ UploadKey(i, hash)
         \/ \E c \in Checkers : UploadAndVerify(i, hash, c)
    \/ \E i \in KeyIds : DeleteKey(i) \/ \E a \in Admins : ToggleRead(a, i)
    \/ \E a \in Admins : ToggleCommit(a)

Relay ==
    \E h \in Handlers :
      \/ \E i \in KeyIds : GenerateImage(h, i)
      \/ UpstreamSucceeds(h)
      \/ \E code \in Codes, retry_after \in RetryAfters :
           UpstreamFails(h, code, retry_after)
      \/ MalformedAnswer(h)
      \/ Abandoned(h)

HealthChecks ==
    \E c \in Checkers :
      \/ StartSweep(c)
      \/ Refresh(c)
      \/ \E i \in KeyIds, verdict \in Verdicts : Probe(c, i, verdict)
      \/ CommitCheck(c)
      \/ Rollback(c)

Next == Tick \/ KeyManagement \/ Relay \/ HealthChecks

Spec == Init /\ [][Next]_vars

---------------------------------------------------------------------------
(* Properties *)

CheckStates(s) ==
    /\ DOMAIN s = {"todo", "loaded", "edited"}
    /\ s.todo \subseteq KeyIds
    /\ IsMapping(s.loaded, KeyIds, KeyRows)
    /\ IsMapping(s.edited, KeyIds, KeyRows)
    /\ DOMAIN s.edited = DOMAIN s.loaded

TypeOK ==
    /\ now \in Nat
    /\ nextId \in Nat \ {0}
    /\ okLog \in [KeyIds -> Nat]
    /\ failLog \in [KeyIds -> Nat]
    /\ IsMapping(key, KeyIds, KeyRows)
    /\ IsMapping(req, Handlers, Snapshots)
    /\ IsMapping(toggle, Admins, Snapshots)
    /\ DOMAIN check \subseteq Checkers
    /\ \A c \in DOMAIN check : CheckStates(check[c])

\* The key's counters never claim more than the audit log shows for its id,
\* whatever requests overlap: a lost update can only lose counts. Holds for the
\* stored rows and for the copies that requests in progress will write back.
CountersInLog(i, row) ==
    /\ row.total_requests <= okLog[i] + failLog[i]
    /\ row.success_requests <= okLog[i]
    /\ row.fail_requests <= failLog[i]

CountersWithinLog ==
    /\ \A i \in DOMAIN key : CountersInLog(i, key[i])
    /\ \A h \in DOMAIN req : CountersInLog(req[h].id, req[h].row)

\* A commit addresses a row by id alone (WHERE id = ?). Every copy held across
\* an await must therefore be of the key that now has that id, or the result of
\* one user's key is written to another's.
CopiesAreOfTheStoredKey ==
    /\ \A h \in DOMAIN req : req[h].id \in DOMAIN key =>
         key[req[h].id].key_hash = req[h].row.key_hash
    /\ \A a \in DOMAIN toggle : toggle[a].id \in DOMAIN key =>
         key[toggle[a].id].key_hash = toggle[a].row.key_hash
    /\ \A c \in DOMAIN check : \A i \in DOMAIN check[c].loaded \cap DOMAIN key :
         key[i].key_hash = check[c].loaded[i].key_hash

\* models.py:67 declares request_logs.api_key_id a foreign key of api_keys:
\* every logged request names a key that is there, also when the key is deleted
\* while a request with it is in progress.
LogsReferToKeys == \A i \in KeyIds : okLog[i] + failLog[i] > 0 => i \in DOMAIN key

\* A key that no health check has ruled on has carried no traffic, and no check
\* or toggle that overlaps its first request returns it to "pending".
PendingKeysAreUnused ==
    \A i \in DOMAIN key : key[i].status = "pending" =>
        /\ okLog[i] + failLog[i] = 0
        /\ InFlight(i) = {}
        /\ key[i].last_used_at = Never

\* A cooldown ends within the longest pause the settings or a Retry-After allow
\* after the last request recorded for the key, even when two requests that
\* overlap write cooldown_until and last_used_at in either order.
CooldownEndsInTime ==
    \A i \in DOMAIN key : key[i].cooldown_until # Never =>
        \E pause \in RetryAfters \cup {CooldownMax} :
            key[i].cooldown_until <= key[i].last_used_at + pause

\* What an administrator switched off is switched on by an administrator only:
\* no request or check that loaded the row before writes the old flag back.
OnlyToggleSwitches ==
    [][\A i \in DOMAIN key \cap DOMAIN key' :
         key'[i].is_enabled # key[i].is_enabled =>
             \E a \in DOMAIN toggle \ DOMAIN toggle' : toggle[a].id = i]_vars

\* On Postgres the pool implements KeyLifecycle: whatever handlers and checks
\* overlap, a commit brings a key into the rotation only if it is the commit of
\* a check that had loaded the key out of the rotation. A sweep that loaded the
\* row while it was healthy never readmits it over what requests wrote since;
\* one that loaded it as pending, unhealthy or invalid does (health_check.py:60).
Phase(i) ==
    IF i \in DOMAIN key THEN key[i].status
    ELSE IF i < nextId THEN "gone" ELSE "absent"

Seen(c, i) ==
    IF c \in DOMAIN check /\ i \in DOMAIN check[c].loaded
    THEN check[c].loaded[i].status
    ELSE "unseen"

Lifecycle == INSTANCE KeyLifecycle WITH
    phase <- [i \in KeyIds |-> Phase(i)],
    serving <- [i \in KeyIds |-> Cardinality(InFlight(i))],
    seen <- [c \in Checkers |-> [i \in KeyIds |-> Seen(c, i)]]

ImplementsLifecycle == Lifecycle!Spec

==========================================================================
