# Verification of the NovelAI key pool

TLA+ modules, model-checking configurations and machine-checked proofs for the
key pool service in this repository: a FastAPI backend (`backend/app`) to which
users upload NovelAI keys and through which everybody's image requests are
relayed with one of the pooled keys.

Contents: [1. The system](#1-the-system) ·
[2. Modules and how they map to the code](#2-modules-and-how-they-map-to-the-code) ·
[3. Semantics the models rely on](#3-semantics-the-models-rely-on) ·
[4. Runs](#4-runs) · [5. Proofs](#5-proofs) · [6. Findings](#6-findings) ·
[7. Not modelled](#7-not-modelled) · [8. Plan](#8-plan)

To reproduce: `tlc -config KeyPoolHistory_overlap.cfg MCKeyPoolHistory.tla` for a run,
`tlapm KeyPool_proof.tla` for the proofs. `PROJECT.json` lists every run, the
source lines behind every definition, the hazards and the mutants (a faulty
variant of a definition that the property must catch; those are the operators
whose comment starts with "Faulty:", and no specification uses them).

## 1. The system

One or more nodes run the same asyncio program against one database (Postgres
when there are several nodes, SQLite by default for one). Every HTTP request is
a task with a session of its own; between two awaits a task runs alone on its
node, at an await any other task of any node may run. Nothing in the program
locks a row, so what a task read before an await may be old when it writes.

| Component | State it keeps | Operations | Talks to |
|---|---|---|---|
| Key pool and relay (`routers/proxy.py`, `services/key_pool.py`) | `api_keys`: status, tier, streak, cooldown, counters; `request_logs` | `POST /ai/generate-image`, the selection of a key | quota, proxy pool, NovelAI |
| Health checks (`services/health_check.py`) | the same rows, held from load to commit | a sweep (loop or administrator), the check of a fresh upload | NovelAI |
| Key management (`routers/keys.py`, `routers/admin.py`) | `api_keys` | upload, delete, list, enable / disable | health checks |
| Quota and admission (`services/rate_limit.py`, first half of `proxy.py`) | none of its own: reads `api_keys` and `request_logs` | effective RPM, check, count | relay |
| Upstream proxy pool (`services/upstream_proxy_pool.py`) | per process and proxy: streak, cooldown, error | choose, report success / failure, keepalive | relay, scheduler, configuration |
| System configuration (`services/system_config.py`, `POST /admin/config`, middleware of `main.py`) | `system_config` table; `settings` of every process; the timestamp last loaded | save, load, refresh | all |
| Background scheduler (`tasks/scheduler.py`) | the loops a process runs | health loop, keepalive loop, reconcile with the leader setting | health checks, proxy pool, configuration |
| Client keys (`routers/client_keys.py`, `services/auth.py`) | `client_api_keys` | create / rotate, enable, delete, authenticate | relay |
| Accounts and login protection (`routers/auth.py`, `services/auth_hardening.py`) | `users`, `auth_attempts` | register, login, rate limit, lockout | — |
| User administration and statistics (`routers/admin.py`, `routers/logs.py`) | `users` | update a user, listings | quota |
| Encryption at rest (`services/crypto.py`) | — | encrypt, decrypt | keys, relay, checks |
| Web console (`frontend/app.js`) | token, user, login gate, panels | log in and out, refresh, change, reload | the routers |
| Deployment (`deploy/`, `Dockerfile`) | — | nginx in front of the nodes | — |

### What is hard, and what makes each part correct

* **Key pool and relay.** A request holds a copy of its key's row for as long as
  NovelAI takes (up to 60 s) and then commits counters, streak, status and cooldown
  computed from the copy. Meanwhile other requests, a sweep, a toggle or a
  deletion commit the same row. Correct means: a key never claims requests the
  log does not have; a cooldown is neither lost nor endless; a copy is never
  written to another key; only a checked key carries traffic; a failing key
  leaves the rotation; load is spread; every request leaves its log row.
* **Health checks.** The loop sweeps for ever. A sweep loads all enabled rows at once, probes them for up
  to 15 s each and commits all of them in one transaction. Correct means: it
  never undoes what was written meanwhile by others, apart from the verdict it
  is there to give; a row deleted meanwhile costs no more than the sweep;
  every enabled key is finally ruled on, and a broken one finally leaves.
* **Key management.** A key is deleted while handlers hold copies of it, and a
  toggle negates a value read earlier. Correct means: an administrator's
  switch stands; the log refers to stored keys; owners can delete.
* **Quota.** The check reads rows that earlier requests write only when they are
  answered. Correct means: no more than the limit per minute, and a client that
  slows down is admitted again. A body is checked as converted and sent as it
  came: what is sent must stay close to the limits all the same.
* **Upstream proxy pool.** Streaks counted by overlapping requests of one
  process. Correct means: a proxy cools down after as many consecutive failures
  as configured, and comes back; users stay with their proxy while it works.
* **System configuration.** Nodes poll a timestamp and reload. Correct means:
  every node ends up with the values stored.
* **Scheduler.** Leader-only loops started and stopped from the stored leader.
  Correct means: finally exactly one node, the stored leader, runs them.
* **Client keys.** Correct means: at most one active key per user; a rotated
  or disabled key opens nothing.
* **Accounts.** Attempts are counted before and recorded after the password is
  checked. Correct means: no more than the allowed number of tries per window; a
  name and an e-mail address belong to one account; nodes that start together
  have one administrator.
* **Web console.** Chains of requests run at once and nothing cancels them, while
  the user logs out or the server refuses. Correct means: the page shows the data
  of the user logged in or of nobody, and is covered when there is none.

## 2. Modules and how they map to the code

| Module | What it is | Code |
|---|---|---|
| `Mappings` | partial functions: put, drop, restrict | — |
| `KeyHealth` | pure operators on one `api_keys` row | `proxy.py` 37-131 and 310-322, `health_check.py` 16-52 |
| `KeyPool` | the state machine: tables, handlers, copies, clock | `proxy.py` 255-340, `key_pool.py`, `keys.py`, `health_check.py` 55-61, `admin.py` 93-106 |
| `KeyPoolHistory` | `KeyPool` with what NovelAI answered, and whether requests overlapped, recorded beside it | the same |
| `KeyPoolLive` | `KeyPool` under the fairness of the health check loop | `scheduler.py` 56-69, `health_check.py` |
| `KeyLifecycle` | abstract: the life of one key, no rows and no commits | what `KeyPool` promises |
| `KeyPool_proof`, `KeyPoolHistory_proof`, `UpstreamProxyPool_proof`, `Scheduler_proof`, `Quota_proof`, `ClientKeys_proof`, `AuthGuard_proof`, `ConsoleSession_proof` | lemmas and theorems about the module named, and about those it extends | — |
| `UpstreamProxyPool`, `UpstreamProxyPoolHistory` | the proxies of one process; with the failures reported so far | `upstream_proxy_pool.py`, `proxy.py` 255-322, `scheduler.py` 79-82 |
| `CircuitBreaker` | abstract: the breaker of each proxy, no settings and no handlers | what `UpstreamProxyPool` promises |
| `SystemConfig`, `SystemConfigHistory` | the settings of several nodes and their shared table; with the writes a node may have missed, and fairness | `system_config.py`, `admin.py` 109-134, `main.py` 67-92 and 177-187 |
| `Scheduler` | `SystemConfigHistory` composed with the background task of every node | `scheduler.py` 21-105 |
| `Quota`, `QuotaHistory` | admission: the quota statement by statement, the log it counts, the rows requests leave; with the highest quotas so far | `rate_limit.py`, `proxy.py` 175-340, `admin.py` 213-230 |
| `Admission` | pure operators: what becomes of the body of a request | `proxy.py` 134-160 and 208-253 |
| `ClientKeys` | rotation, activation and deletion of client keys under row or database locks | `client_keys.py` |
| `AuthGuard` | login and registration, attempt limit, lockout, the startup of nodes with the administrator's account | `routers/auth.py`, `auth_hardening.py`, `main.py` 177-206 |
| `ConsoleSession` | the session of one tab of the console | `app.js` 4-10, 120-160, 209-250, 417-1132 (the refresh functions, login, logout), 1381-1392 |
| `MC...` | small instances of the module named after it, for TLC | — |

The modules are composed where the code's parts meet in state: `KeyPool` has the
relay, the checks and key management over one table; `Scheduler` extends the
configuration, whose steps start and cancel its tasks. `Quota` sees keys change
in any way the pool may change them, and `UpstreamProxyPool` sees the settings
change at any moment.

### The key pool

**State.** `key` is the table `api_keys` (id to row); `okLog` and `failLog` are
`request_logs` with a key id, counted per id and status, which is all that any
property or foreign key asks of them. `req[h]`, `check[c]` and `toggle[a]` are
the ORM copies held across an await by a relayed request, a health check and an
administrator's toggle: the slot is in the domain exactly while the coroutine
is between its read and its commit. `nextId` is the Postgres sequence, `now`
the wall clock in whole seconds.

**Actions.** Every action is one stretch of a handler between two awaits that
let another task see or change the tables.

| Action | Code |
|---|---|
| `UploadKey`, `UploadAndVerify` | `upload_key`: duplicate check and insert; with `verify_now` the same handler goes on as a check |
| `Refresh` | `db.refresh(key)` of that handler |
| `DeleteKey` | `delete_key`: the row read and deleted in one transaction |
| `ToggleRead`, `ToggleCommit` | `toggle_key`: the `SELECT`, then the negation and commit |
| `GenerateImage` | `select_healthy_key`: the choice of the key and the copy taken of it |
| `UpstreamSucceeds`, `UpstreamFails` | the answer: counters, `_update_key_from_upstream`, log row, one commit |
| `MalformedAnswer` | the handler raises between the answer and the commit |
| `Abandoned` | no commit: the row is gone (`StaleDataError`, rolled back) or the node stops |
| `StartSweep`, `Probe`, `CommitCheck`, `Rollback` | `check_all_keys`: load, one probe at a time, the single commit, or none |

**Abstracted data.** Answers are classes (`Codes`, `Verdicts`): the code branches
on nothing finer. A key's text is its hash. Owners are left out: an action that
needs ownership is taken by the owner. `last_checked_at`, `last_error` and
`created_at` are left out because no decision reads them. Settings are constants
of a run, and any values in a proof: the streak threshold is a natural number,
base delays and the cap are integers of either sign, as `POST /admin/config`
allows. Ciphertexts matter in one way, that a check may fail on one (`Rollback`).

**The abstract specification.** `KeyLifecycle` says in six actions what the pool
promises about each key: stored as pending; requests begin only while it is healthy,
and their end may only push it out (`unhealthy`, `invalid`) and never in; a check
looks at keys (`Look`) and, any time later, rules on them in one step (`Rule`), where
a ruling moves a key only to a status other than the one the check *saw*; a removed
key never returns. So a sweep that loaded a key while it was healthy cannot
readmit it over what requests have written since. One that loaded it `pending`,
`unhealthy` or `invalid` can, in the code as in the specification (section 6).
`ImplementsLifecycle` is that `KeyPool` does so under the mapping
`phase <- status`, `serving <- number of requests in progress`,
`seen <- the status in the copies of a check`.

**History.** `strikes`, `dueBack` and `overlapped` (`KeyPoolHistory`) let the strong
properties be stated where they are true: `CountersExact`, `PausesAreHonoured` and
`PersistentFailuresEvict` are of a key until two of its requests overlap for the
first time, which the code answers by losing updates; sweeps, toggles, deletions
and crashes overlap freely. `strikes` counts persistent failures in a row. Only a
check whose verdict is healthy and whose copy was loaded out of the rotation ends
them (`StrikesAfterCheck`); one that loaded the row healthy, before the failures
or among them, does not, and `PersistentFailuresEvict` covers it. Below the limit the
streak that a check writes back takes the place of the count if it is lower.

### The other modules

* **`UpstreamProxyPool`.** `pool` is `_states`, `loaded` the `_raw` it was built
  from, `setting` the two settings that select the proxies. `sent[h]` is the proxy
  a request took before it awaits NovelAI, `probing` what is left of a keepalive
  round. `Send` is `get_proxy_for_user`; `Answer` stands for every report the
  handler makes of one answer, which for a network error are two; `Load` is the
  rebuilding of the states that every call begins with. A URL listed more than once
  has as many states, of which `report_result` finds the first: `pool` keeps that one,
  and the others are always available (`IsFirst`, `Available`). Answers are the classes
  the code tells apart. `failures` (history) counts each result once. `CircuitBreaker` knows of a proxy
  its streak, its rest and its requests; `ImplementsBreaker` says that the pool
  does what it allows, whatever is reconfigured, reported late or probed meanwhile.
  Its threshold counts reports, not answers, and a proxy that is listed twice may be
  chosen while it rests.
* **`SystemConfig`.** `row` is the table, `settings[n]` the settings object of a
  process, `cached[n]` its `_cfg_last_updated_at`. A refresh is `SeesNews`,
  `ReadRows`, `ApplyRows`, `Stamp`, a save `ReadItem`, `ApplyItem`, `CommitItem`:
  one step for each stretch between awaits. `raced` (history) names each pair of a
  node and a key for which a write may have gone unnoticed: committed between the
  two reads of a refresh, stamped no later than the newest row the node has ever
  loaded (which may have been overwritten since by one stamped earlier), left
  unwritten because the value read before was the same, or applied and then not
  committed. A row holds a text, and the two casts of the code (`Cast` of the
  refresh, `CastOnSave` of `update_config`) differ on a padded Boolean.
* **`Scheduler`.** `task[n]` is one entry of `_TASKS`; the two loops are scheduled
  alike and independently, so one is modelled. `Reconcile` is part of the step
  that ends a refresh (`Loaded`), a save (`Configured`) or a startup, as in the
  code; `Begin` is the loop's own look at the settings when it first runs. A refresh
  that fails leaves the tasks alone (`GivenUp`), also when it has applied the rows;
  `behind` (history) names the nodes that have no newer row to try again for.
* **`Quota`.** A request goes through `Authenticate`, `CountContributed`,
  `CountHealthy`, `Admit` or `Refuse`, then `Reject`, `Send`, `Answer` or `Vanish`:
  each is one statement with the branch after it, and keys, `manual_rpm`,
  `is_active` and the clock change in between. `log` has user, time and latency.
  `Admission` says which verdicts there are on a body and which bodies get them:
  a body is reduced to what `int()` and the look-up of the model make of it.
  `LimitsKept` is about the numbers that are sent, before `int()`.
* **`ClientKeys`.** A rotation is its `UPDATE` (`BeginRotation` finds the rows,
  `Rotate` has the locks) and its `Commit`. `LocksTable` says whether a writer locks
  the database (SQLite) or the rows (Postgres), and how ids are given out: on SQLite
  that of a deleted key may come again (`NewKeys`).
* **`AuthGuard`.** A request reads the clock (`Ask`), counts attempts
  (`CountAttempts`), counts failures (`CountFailures`), decides, creates the user,
  records. `Fail` is an exception at any of these. Password matching is a choice.
  A node that starts looks for the administrator (`FindAdmin`), may have to make
  the account (`CreateAdmin`), and stops at any moment or because a statement of
  its startup fails (`StopNode`); only nodes that are up take requests. The
  database is new, or one where somebody has the administrator's name already.
* **`ConsoleSession`.** `handler[h]` is a chain of requests with the token that the
  one in progress was sent with; `GoOn` is what a handler does between two answers,
  all refreshes that return early included. `Answered`, `Refused` and `MeRefused`
  are the three ways in which an answer is taken. `refreshConfig` writes two panels:
  `config`, the texts made of `state.config`, and `settings`, the form it fills in,
  which no other function empties. `mixed` (history) says that an answer has been
  taken after its session had ended, or that a login has replaced a session; `late`
  (history) names the panels that such an answer has written, or such a login has
  left behind. The gate and the role are promised until `mixed`, the panels for all
  that are not in `late` (see 6).

## 3. Semantics the models rely on

* **What a commit writes.** SQLAlchemy's unit of work emits an `UPDATE` with the
  columns whose value differs from the loaded one, as literals; `Flush(stored,
  loaded, edited)` is exactly that. `x.n += 1` therefore writes the loaded value
  plus one, not `n = n + 1`, and a column set to the value it was loaded with
  is not written at all. Both facts matter: the first loses counts, the second
  is why `is_enabled` survives a sweep and why a success that found
  `cooldown_until` empty does not clear a cooldown another request set since.
* **A row that is gone.** An `UPDATE` of one row that matches none raises
  `StaleDataError` and rolls everything back, the log row with it. Several rows
  updated as one batch on Postgres (asyncpg) report no count, so a sweep of more
  than one row does commit past a deleted row. The model allows both there.
* **Ids and foreign keys.** Postgres: ids from a sequence; a row that
  `request_logs` refers to cannot be deleted. SQLite: `INTEGER PRIMARY KEY`
  without `AUTOINCREMENT` gives out the highest stored id plus one, and foreign
  keys are not enforced, since `database.py` never sets the pragma. `Postgres`
  is a constant; both are run.
* **Commits are atomic**, and a session sees what is committed when it reads.
* **Statements.** Postgres' default isolation is READ COMMITTED: each statement of
  a transaction sees what is committed at its start. `SystemConfig`, `Quota`
  and `AuthGuard` therefore take every `SELECT` as a step of its own.
* **Locks.** An `UPDATE` or `DELETE` keeps what it wrote locked until its
  transaction ends: its rows on Postgres, which does not make an `INSERT` of
  another wait and does not see it; the database on SQLite. Only `ClientKeys` has
  a handler that awaits between an `UPDATE` and its commit.
* **`updated_at`** is set by the ORM at flush with the clock of the node, before
  the commit (`ApplyItem` takes the stamp, `CommitItem` publishes it).
* **Clock.** All nodes read one clock, which moves at any moment between two
  steps, in particular during a request, and may stand still between many, which
  is what makes equal stamps. Skew is not modelled.
* **Crashes.** A node may stop at any await: `Abandoned` and `Rollback` (for a
  toggle, never taking `ToggleCommit` has the same effect on the tables),
  `SystemConfig`'s `Restart`, `Vanish`, `Fail`. A restart starts with no
  copies, which is what dropping the slot means. `UpstreamProxyPool` is a process
  without a restart: one has the effect of its `Init`.

**Fairness.** The safety runs assume none. `LiveSpec`, used for the two liveness
properties of the key pool, assumes

* weak fairness of every step of a check: the loop catches what a sweep raises and
  starts over, every probe ends within its timeout, a commit or a refresh that
  finds a row gone raises (`LosesRow`);
* `Undisturbed`: from some time on a check ends early only because a row is gone.
  This is an assumption about the surroundings, and it is needed: a node may stop
  in every sweep, and one enabled key whose ciphertext cannot be decrypted
  (another `encryption_key`) makes every sweep raise at `health_check.py` 24,
  before its commit, for as long as it is there (see 6).

`ProbeAtBound` takes the place of a failing probe at `MaxStreak`, where the action
of `KeyPool` is not enabled: without it the bound on the streak would stop the loop.

`FairSpec` and `SchedulerSpec`, used for the liveness properties of the
configuration, assume

* weak fairness of a save in progress: its handler is not stopped for ever, unless
  its node is (`Restart` ends it);
* weak fairness of `Noticed`: requests keep coming to every node, and the first
  after the refresh interval looks for news. The code refreshes on requests
  only, so a node without requests does not converge, nor need it;
* strong fairness of the steps of a refresh: the database may fail in any of them,
  which the middleware swallows and tries again, but it does not fail each time;
* weak fairness of `Begin`: a created task is run by its event loop.

Nothing is assumed of administrators, of restarts or of the clock.

## 4. Runs

| Run | Question | Result |
|---|---|---|
| `overlap` | Two requests, two checks (sweeps or that of an upload) and a toggle on one key, every class of answer, a `Retry-After` above the cap: `TypeOK`, `CountersWithinLog`, `CooldownEndsInTime`, `PendingKeysAreUnused`, `OnlyToggleSwitches`, `ImplementsLifecycle`; until requests overlap `CountersExact`, `PausesAreHonoured`, `PersistentFailuresEvict` | hold |
| `identity` | Two keys on Postgres uploaded, checked for ever, used, deleted: `CopiesAreOfTheStoredKey`, `LogsReferToKeys`, and under fairness `EnabledKeyIsRuledOn`, `BrokenKeyLeaves` | hold |
| `sqlite_reuse` | `CopiesAreOfTheStoredKey` on SQLite | violated, see 6 |
| `proxy_overlap` | Two requests and a keepalive round report on two proxies while the setting changes: `TypeOK`, `CooldownBounded`, `StreakExplained`, `CooldownNotShortened`, `FailingProxyRests`, `ImplementsBreaker` | hold |
| `proxy_count` | `OneFailurePerAnswer` | violated, see 6 |
| `scheduler_nodes` | Two nodes, two saves at a time, restarts and database failures, the loop switched off and on (with texts that are cast alike or differently) and moved: `SchedulerTypeOK`, `NothingMissed`, `TasksFollowTable`, and under fairness `ConvergesUnlessRaced`, `LeaderTakesOver` | hold |
| `config_consistent` | `EventuallyConsistent`, fair, without failures | violated, see 6 |
| `quota_overlap` | Two requests of a user in a sliding window while keys, `manual_rpm` and `is_active` change, with every kind of body: `TypeOK`, `RateNotAbove`, `BurstBounded`, `LimitsKept` | hold |
| `client_keys_sqlite` | Three overlapping requests of two users: `TypeOK`, `RotationLeavesOne` | hold |
| `client_keys_postgres` | `RotationLeavesOne` with row locks | violated, see 6 |
| `auth_overlap` | Two overlapping logins or registrations for two names and the administrator at one address, on two nodes that start, fail and stop: `TypeOK`, `AttemptsBounded`, `FailuresBounded`, `RegisteredOnce`, `AdminAccountStands` | hold |
| `console_overlap` | A user and an administrator in one tab, two handlers at a time: `TypeOK`, `PanelsOfTheSession`, `GateFollowsToken`, `AdminPanelsAskedByAdmins`, `UnknownUserIsAsked` | hold |

**Bounds.** Each sits in the guard of one action. In all modules two slots are the
least in which one writer's read can precede and its write follow another's
write; a third of the same kind adds no new pair.

* `KeyPool`: `MaxTime` (clock), `MaxLogs` (requests per key id), `MaxStreak`
  (streak counted up by checks). `FailThreshold` is 2, so that streaks below and
  at it occur. `overlap` is kept small by `TwoChecksAlone` (two checks are in progress
  at once only while no request and no toggle is: the check of an upload overlaps a
  sweep, and each of them overlaps requests), by `LiveColumns` (a view without the columns
  of a check's or a toggle's copy that no step reads) and by the symmetry of requests
  and of checks. In `overlap` the cap is 3 with a base of 1 and of 3 and a
  `Retry-After` of 4, so that a backoff is below, at and above the cap; the clock has
  two values, since a cooldown that lies ahead, a later use and an earlier one are
  all that is told apart. In
  `identity` the clock stands still and there are no cooldowns: what it checks
  concerns ids and verdicts, not delays; two keys with two ids are the least in
  which a copy could be written to another key. It has one request at a time:
  deletions, uploads and checks are what moves keys under it. It requires the tier
  `opus`, so any other is not in order (`InOrder`).
* `UpstreamProxyPool`: threshold 2 and cap 3 on the delay, clock to 3, so that a
  rest begins, is extended by late failures and ends. `MaxFailures` stops the
  history's count at the streak cap, above the threshold. The three settings
  are two proxies, one of them listed twice, and switched off; two users take the
  two entries.
* `Scheduler`: `MaxEvents` 2 (writes and restarts): two writes race each other and
  the refreshes they cause on two nodes, or a restart and a write do, or the same
  text is saved twice; the clock has two values, for equal and for different stamps.
  A row stamped earlier than one it overwrites needs a third event, and so does a
  node in `behind`: three are too many states for the liveness properties, and
  what they add to the safety properties is covered by the theorems, which hold for
  any number. `config_consistent` has two keys without a meaning.
* `Quota`: a quota of 1 or 2 (base 1, 1 per key, cap 2) or a negative manual one,
  `MaxRequests` 4 in a window of one tick with a clock to 2, so that rows leave the
  window. Limits of 2 pixels, 2 steps and 1 sample and numbers from -1.5 to 3 in
  halves: every field is below, at and above its limit, and a half off.
* `ClientKeys`: `MaxKeys` 3, the old key and one for each of two rotations.
* `AuthGuard`: both windows of one tick with a clock to 2, limits 2 and 1,
  `MaxRequests` 4; two names besides the administrator's, one e-mail address,
  two nodes. Nodes, slots and the two names are symmetric.
* `ConsoleSession`: seven panels of ten, one of each way in which panels are emptied
  and refreshed (`keys` and `models` are like `clientKeys`, `myLogs` like `adminLogs`),
  `MaxClicks` 6: a login, three more handlers and a logout or a
  reload with a login after it.

`CountersExact`, `PausesAreHonoured` and `PersistentFailuresEvict` are of keys whose
requests have not overlapped because with two that overlap they are false by
design of the write-back: the weaker `CountersWithinLog` and `CooldownEndsInTime`
are what remains then.
`BurstBounded`, `AttemptsBounded` and `FailuresBounded` say in the same way what
the limits amount to when requests overlap: the limit and at most one for each
other request in progress.

Deadlock is checked in the runs of `KeyPool`, `UpstreamProxyPool` and `Quota`, where a
node that does nothing can always be asked for something within the bounds. It is
not in those of `SystemConfig`, `Scheduler`, `ClientKeys`, `AuthGuard` and
`ConsoleSession`: their bounds count whole behaviours (writes, keys generated,
requests, clicks), which end when they are used up.

## 5. Proofs

Each proof module extends the module it is about. Its theorems hold for any sets
of nodes, handlers, keys, users and so on, and for any settings that the `ASSUME`s
of the module allow, which say no more than their types: `POST /admin/config`
checks no ranges, so numbers of either sign are allowed wherever the code takes
them. Where a theorem needs more it says so, and the table below does.

| Theorem | States | Needs |
|---|---|---|
| **`KeyPool_proof`** | | |
| `TypeCorrect` | `Spec => []TypeOK` | |
| `CountersSafe` | `Spec => []CountersWithinLog` | |
| `SwitchSafe` | `Spec => OnlyToggleSwitches` | |
| `IdentitySafe` | `Spec => []CopiesAreOfTheStoredKey` | Postgres |
| `ReferencesSafe` | `Spec => []LogsReferToKeys` | Postgres |
| `PendingSafe` | `Spec => []PendingKeysAreUnused` | Postgres |
| `CooldownSafe` | `Spec => []CooldownEndsInTime` | Postgres or `KeyCooldown > 0`; `CooldownMax > 0` |
| `PoolImplementsLifecycle` | `Spec => ImplementsLifecycle` | Postgres |
| **`KeyPoolHistory_proof`** | | |
| `CountersAreExact` | `HistorySpec => []CountersExact` | Postgres |
| `FailuresEvict` | `HistorySpec => []PersistentFailuresEvict` | Postgres |
| `PausesHonoured` | `HistorySpec => PausesAreHonoured` | Postgres, `DynamicCooldown` |
| **`UpstreamProxyPool_proof`** | | |
| `TypeCorrect` | `Spec => []TypeOK` | |
| `CooldownSafe` | `Spec => []CooldownBounded` | |
| `RestsAreKept` | `Spec => CooldownNotShortened` | |
| `PoolImplementsBreaker` | `Spec => ImplementsBreaker` | |
| `StreaksAreExplained` | `HistorySpec => []StreakExplained` | `StreakCap <= 2 * MaxFailures` |
| `FailingProxiesRest` | `HistorySpec => FailingProxyRests` | |
| **`Scheduler_proof`** | | |
| `TypeCorrect` | `SchedulerSpec => []SchedulerTypeOK` | |
| `NothingIsMissed` | `HistorySpec => []NothingMissed` | |
| `ComposesWithConfig` | `SchedulerSpec => HistorySpec` | |
| `TasksFollow` | `SchedulerSpec => []TasksFollowTable` | |
| **`Quota_proof`** | | |
| `AdmissionSafe` | `Spec => []LimitsKept` | `MaxSamples > 0` |
| `TypeCorrect` | `Spec => []TypeOK` | |
| `RateSafe` | `HistorySpec => []RateNotAbove` | `PerKeyRpm >= 0` |
| `BurstSafe` | `HistorySpec => []BurstBounded` | `PerKeyRpm >= 0`, `Requests # {}` |
| **`ClientKeys_proof`** | | |
| `TypeCorrect` | `Spec => []TypeOK` | |
| `RotationSafe` | `Spec => RotationLeavesOne` | SQLite (`LocksTable`) |
| **`AuthGuard_proof`** | | |
| `TypeCorrect` | `Spec => []TypeOK` | |
| `AdministratorSafe` | `Spec => []AdminAccountStands` | |
| `AttemptsSafe` | `Spec => []AttemptsBounded` | |
| `FailuresSafe` | `Spec => []FailuresBounded` | |
| `RegistrationSafe` | `Spec => []RegisteredOnce` | |
| **`ConsoleSession_proof`** | | |
| `TypeCorrect` | `Spec => []TypeOK` | |
| `PanelsSafe` | `Spec => []PanelsOfTheSession` | |
| `GateSafe` | `Spec => []GateFollowsToken` | |
| `AdminPanelsSafe` | `Spec => []AdminPanelsAskedByAdmins` | |
| `UserIsLearnt` | `Spec => []UnknownUserIsAsked` | |

**What the hypotheses stand for.** *Postgres*: on SQLite ids are reused, and the run
`sqlite_reuse` shows the property false; the history theorems rest on identity.
*`CooldownMax > 0`*: a cap of zero or less means no cap (`proxy.py` 52), so there
is no bound to keep. *`DynamicCooldown`*: switched off, the code sets no pauses.
*`StreakCap <= 2 * MaxFailures`*: `MaxFailures` is the bound at which the model's
history stops counting, and an error counts twice in the streak; it is no setting
of the code. *`PerKeyRpm >= 0`*: with a negative value a key takes from its owner's
quota, and a quota read while keys are deleted may be above any the user had.
*`MaxSamples > 0`*: otherwise a body with `n_samples` -0.5 is let through as 0.
*SQLite*: with row locks `client_keys_postgres` shows the property false.

### The arguments

**The key pool.** `PoolInv` is the common inductive invariant: types, `CheckEdits`
(what a check has edited so far differs from what it loaded only in status,
tier and streak) and `IdsIssued` (on Postgres, stored rows, log rows and copies
all have ids below `nextId`).

* `CountersWithinLog` is inductive once the copies in `req` are included: a commit
  writes a counter either not at all or as copy plus one, while the log grows by
  one, and a log never shrinks. `CheckEdits` is needed because a sweep's commit
  must not write a counter.
* `OnlyToggleSwitches` needs that no other edit differs from its loaded row in
  `is_enabled`, which is `CheckEdits` again and a lemma for each edit of a request.
* `CopiesAreOfTheStoredKey` needs that an id once issued is never issued again:
  `IdsIssued`, and with it a new row cannot meet an old copy.
* `PendingKeysAreUnused` needs that a copy of a request is of a checked key and
  that no edit sets `pending`, so a commit that leaves the status alone over a
  pending row is excluded by the identity of the copy.
* `CooldownEndsInTime` holds of the columns of one row together. A commit writes
  `last_used_at` and may leave `cooldown_until` alone, so `UsesInOrder` is needed: no
  copy, and nothing stored, was last used later than now, and no copy knows of a
  later use than its key does, so a copy that goes back cannot take
  `last_used_at` back. On SQLite a copy may be of another key; there it is the pause
  between uses (`KeyCooldown`, 3 s unless set otherwise) that helps: a request is
  sent only with a key last used before now (`UsesArePast`), so its commit writes
  `last_used_at` whatever row it meets. Without the pause the property is false there.
* `ImplementsLifecycle`: `PoolInv`, `PendingSafe` and the identity of copies map each
  action to one of the abstract specification or to a stutter; `ReqsFinite` is needed
  because the number of requests in progress is a cardinality; a commit over a row
  that another request has changed meanwhile is a step of the abstract key from the
  phase that is stored, not from the one that was read.

**The history of the key pool.** Between two of its requests a key's row is moved by
checks, toggles and deletions only. `KeyMoves` says of every step and every id
that it is one of `Quiet`, `Appears`, `Starts`, `Succeeds`, `Fails`; each invariant
is then kept by five lemmas and not by sixteen. `Started` (until two overlap at most
one request of a key is in progress, and its copy agrees with the row in the columns
only requests write) gives `Exact` (counters equal the log), `Struck` (while
the strikes are below the threshold, the row's and the copy's streak are at least as
many; from then on the status is not healthy and no request is in progress) and `Due` (the cooldown reaches to the end
of the pause).

**Bodies.** `AdmissionSafe` compares two products: that of the numbers sent and that of
their whole parts, which is what the code bounds. The whole parts are each at most
the number and above it less one, so `width * height <= MaxPixels` suffices to be
sent, and `(width - 1) * (height - 1) < MaxPixels` is what follows from being sent
(`ProductBounds`).

**The proxies.** `CooldownBounded` needs the delay computed from any streak to be within
the longest of the settings, by lemmas on the power of two and on `min`. The
refinement maps a state that settings have just built to a breaker that is closed.
A proxy that is chosen at its first entry is available; one chosen at a later entry
is listed twice, which is when the breaker lets a request through.
`StreakExplained` is inductive: each report moves the streak by one and each answer
is reported once or twice, so a streak lies between the failures counted, up to the
cap, and twice as many.

**Settings and tasks.** `HistoryInv` says for each pair of a node and a key that is not
raced what the node knows in each phase of a refresh (`KeyOK`): while it is idle
or has seen news, either the setting is *accounted* for (it agrees with the table, or
a save of this node is about to commit it), or there is *news*, a row newer than
what the node has loaded; between the two reads, what was read is what is stored;
before the stamp is taken, the setting is accounted for. Nothing less is
inductive: a save applies its value before the commit, and a refresh may overwrite
it in between. `NothingMissed` follows because a node that is settled has no
news and no save. `SchedulerInv` adds that the task of a node follows its own
settings unless a save of the node is under way, there is news, the node is raced or
it has given up; with `NothingMissed` for both keys its own settings are the
stored ones. The attempt to prove this found two ways of missing a write that
the history of the model did not name, see 6.

**Quota.** `RateNotAbove`: what a request has counted so far is at most what its user
had at that moment, and `top` only grows. `BurstBounded` is an argument by numbers of
elements (`BurstInv`): the rows in the window and the requests on their way to adding
one are together fewer than the highest quota and all requests. A request that is
admitted found fewer rows than its quota, and those that are not logged yet are
among the requests in progress, which are finitely many.

**Client keys.** `RotationsHold`: a rotation that has its lock has deactivated all keys
its user has, and nothing can have changed the table since.

**Accounts.** `AdministratorSafe` rests on: the table of accounts is a partial function,
accounts are only added, under names that are free, and the one change to an
account makes it the administrator's. A node comes up only in the two steps that see
or make the account. `AttemptsBounded` and `FailuresBounded` count as `BurstBounded`
does: rows in the window and requests that may still add to them stay within the
bound (`Within`). So does `RegisteredOnce`: only for a name that has an account is there
a registration that has succeeded or is about to, and then one (`RegistrationsInv`);
accounts are made only with an address that is free (`EmailsApart`).

**The console.** The invariants are inductive together with the types: an answer of the
session writes its user's data and takes the panel out of `late`, one of another
session puts it there, and what a session leaves behind when its token goes is
emptied or, if a login takes the token, named by `late`. An administrator's panel
is asked for by the role of the user that the page knows, so `AdminPanelsAskedByAdmins`
needs `UserOfTheSession`: until `mixed`, this is the user of the token.
`UnknownUserIsAsked` needs `LoginFirst`: the request that
follows a login asks for the user, and no login comes later in a chain.

**What stays with TLC.** `EnabledKeyIsRuledOn`, `BrokenKeyLeaves`, `ConvergesUnlessRaced`
and `LeaderTakesOver` are liveness under fairness, which is beyond the prover. The
four properties that are false (section 6) have counterexamples. On SQLite the
history properties of the key pool and `ImplementsLifecycle` are not claimed. Every
other property of a passing run is the subject of a theorem.

## 6. Findings

Each has a run whose counterexample shows it.

* `sqlite_reuse`: on SQLite the id of a deleted key is given to the next upload, to
  which a check or a request in progress then writes the result of the old key.
* `proxy_count`: a network error is reported to the proxy pool twice, by the except
  clause and by the common tail as a 502, so one error counts as two consecutive
  failures.
* `config_consistent`: the newest `updated_at` is read after the rows, and is stamped
  before the commit. A row that falls in between is marked as loaded and never
  applied on that node until something else is written.
* `client_keys_postgres`: two rotations that overlap deactivate the same old keys
  and leave two active ones on Postgres; on SQLite they wait for each other.

The models also have, without a run of their own, behaviour that a reader of the
documents may not expect:

* Nothing reserves a chosen key and `last_used_at` is written at the end of a
  request (`proxy.py` 312), so requests that overlap get the same key while others
  idle (`GenerateImage`); `README.en.md` 9 speaks of round-robin selection.
* A body that is not the JSON its content type claims raises outside the handled
  exceptions (`proxy.py` 296): no log row is left (`MalformedAnswer`).
* 5xx answers to requests that overlap count as one strike (`proxy.py` 103).
* A check writes its verdict if it differs from the status it loaded
  (`health_check.py` 60), whatever has happened since. The check of an upload that
  loaded the key as `pending`, or a sweep that loaded it `unhealthy` or `invalid`,
  readmits it over failures, a 401 or another check's verdict that came in between, if
  it found the key in order before. One that loaded it healthy does not, because
  the column is unchanged (`KeyLifecycle`'s `Rule`).
* On Postgres a key that was ever used cannot be deleted (`DeleteKey`); on SQLite
  it can, and its log rows then refer to no key.
* A user's proxy is chosen among those available at the moment
  (`upstream_proxy_pool.py` 97), so one proxy's rest moves users of the others.
* A URL that `upstream_proxies` lists twice has two states (`upstream_proxy_pool.py`
  39), and a report finds the first (110): the second never rests, so some of its
  users are sent through the proxy while it rests (`ListedTwice`).
* On SQLite a `PATCH /client-keys/{id}` that has found its key (`client_keys.py` 79)
  writes by id (84). If the key is deleted meanwhile and its id given to the next
  key generated, that key is switched, whoever owns it (`SetActive`, `NewKeys`).
* One enabled key whose ciphertext cannot be decrypted raises out of every sweep
  before its commit (`health_check.py` 24, 58): as long as it is there, checks rule
  on no key (`Rollback`; `LiveSpec` assumes it away).
* `update_config` does not strip a Boolean (`admin.py` 27), the refresh does
  (`system_config.py` 54): saving " true" switches a setting off on the node
  that saves it until its next refresh. If " true" is what the row holds already,
  no row is written, no refresh follows, and the node keeps the setting off until
  the next write of any key, with its loop cancelled (`ApplyItem`; `raced` names
  the pair).
* A save takes its stamp before it commits, so the row stamped later may be committed
  first and then be overwritten with the earlier stamp. The newest stamp in the table
  goes back, and until it has passed the highest one a node has loaded, the node
  notices nothing (`Unaware`). Found by the proof of `NothingMissed`.
* A refresh that has applied the rows and then fails to read the newest stamp leaves
  the loops as they were (`main.py` 88 is not reached). The next refresh makes good for
  it, unless there is none: when the newer row has been overwritten with an earlier
  stamp meanwhile, a loop runs on, or stays away, against settings the node has
  (`GivenUp`, `behind`). Found by the proof of `TasksFollowTable`.
* `int()` rounds towards zero, so a body with 28.9 steps passes a limit of 28 and is
  sent as it came (`proxy.py` 145). For pixels that is more than a fraction: 1024.9 x
  1024.9 passes a limit of 1024 x 1024 and asks for some 1840 pixels more; what bounds
  it is a row and a column (`LimitsKept`). `1e999` raises an `OverflowError` that is not
  caught (`proxy.py` 147) and leaves a 500 and no row, as does a `model` that
  cannot be hashed (`proxy.py` 226).
* Of nodes that start together on a new database one makes the administrator and
  the startup of the others fails (`main.py` 200); started again, they come up.
  Without `admin_force_reset` somebody who has registered under that name before
  keeps the account, as a user, and there is no administrator.
* An administrator may disable himself (`admin.py` 228), and neither a restart nor
  `admin_force_reset` undoes it.
* The console takes an answer whatever has happened since the request
  (`app.js` 425, 570, 1017): after a logout it puts the user and his panels back
  (that of `/auth/me` uncovers the page too), and a refused `/auth/me` of an ended
  session ends the one that has begun since (429). A login on top of a session
  (943) leaves panels that the new user's refreshes do not touch, such as a new
  client key, as they were.
* A logout, a refused `/auth/me` and a refresh without a token leave the form that
  `refreshConfig` has filled in (`app.js` 446-552) as it was: `clearSensitiveUiState`
  (209-250) empties only `state.config`, the three texts made of it and the hint on the
  proxies. The administrator's settings stay on the page, behind the login screen and
  then, for a user, in a section he has no button for (`Cleared`, panel `settings`).
* `manual_rpm` set to null is taken for absent (`admin.py` 225), though the console
  sends it for "auto" (`app.js` 385).
* Saving a setting starts and cancels the loops at once (`scheduler.py` 99), where
  the console announces a restart (`app.js` 1368).

## 7. Not modelled

The listings and statistics (pure reads), password hashing, JWT and AES (library
code), nginx and compose. Of the console the rendering, the forms and the progress
of a batch upload: `ConsoleSession` is one tab; the two requests of `refreshAdmin`
are one step; that the button for a new client key is disabled while one is made
is left out, so more overlaps; a change of several settings is one request.
`AuthGuard` leaves out names of more than 50
characters (recorded cut, looked for uncut), registration being switched off, and
the race of two nodes for the creation of the tables. `SystemConfig` leaves out
texts that cannot be cast (`update_config` refuses them before its commit) and
keys that name no setting. Clock skew between nodes. Two uploads of the same
text at the same moment are decided by the unique constraint and appear as one
upload that succeeds. `UploadKey` stands for the whole handler up to its commit.
Settings do not change during a behaviour of `KeyPool` and `Quota`. Prefixes and
names of keys, the masking of proxy credentials and the error texts kept for
display. A use of a client key reads only.

## 8. Plan

In order of what matters most to the system:

1. `KeyHealth`, `KeyPool`, `KeyPoolHistory`, `KeyLifecycle`, `KeyPoolLive` — modelled and
   checked; every safety property and the refinement — proved.
2. `UpstreamProxyPool`, `CircuitBreaker`, `SystemConfig`, `Scheduler`, `Quota`,
   `Admission`, `ClientKeys`, `AuthGuard`, `ConsoleSession` — modelled and checked;
   every safety property and the refinement — proved.
3. Left for the prover: the abstract
   specification that `Scheduler` would implement without races (one leader) and its
   refinement; the facts about `Admission` beyond `LimitsKept`.
4. Left for TLC: liveness (section 5), and a run of `Scheduler` with three events if its
   state space can be made to fit.
