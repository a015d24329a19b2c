---------------------------- MODULE KeyHealth ----------------------------
(***************************************************************************)
(* One row of the api_keys table and what the relay does to it.            *)
(*                                                                         *)
(* Everything here is a pure function of a row: the health hints taken     *)
(* from the answer to a relayed request (routers/proxy.py), the verdict of *)
(* a subscription check (services/health_check.py) and the column-wise     *)
(* write-back of an edited row (the SQLAlchemy unit of work).              *)
(*                                                                         *)
(* Not kept: owner, ciphertext, last_checked_at, last_error, created_at.   *)
(* No decision of the code reads the last three.                           *)
(***************************************************************************)
EXTENDS Integers

CONSTANTS
    KeyHashes,        \* distinct NovelAI keys, by their SHA-256 (key_hash)
    FailThreshold,    \* health_check_fail_threshold
    DynamicCooldown,  \* dynamic_cooldown_enabled
    CooldownMax,      \* cooldown_max_seconds; not positive means no cap
    CooldownBase,     \* cooldown_402/409/429/5xx_base_seconds
    RequireOpus       \* require_opus_tier

\* Classes of failing upstream answers. "401" stands for 401 and 403, "5xx"
\* for 5xx and for the 502 that a network error is turned into, "4xx" for
\* every other 4xx.
Codes == {"401", "402", "409", "429", "5xx", "4xx"}

ASSUME ThresholdAssumption == FailThreshold \in Nat
ASSUME CooldownAssumption ==
    /\ DynamicCooldown \in BOOLEAN
    /\ CooldownMax \in Int
    /\ CooldownBase \in [{"402", "409", "429", "5xx"} -> Int]
ASSUME OpusAssumption == RequireOpus \in BOOLEAN

Statuses == {"pending", "healthy", "unhealthy", "invalid"}
Tiers == {"none", "opus", "other"}

Never == -1          \* NULL in a DateTime column
Times == Nat \cup {Never}

KeyRows ==
    [key_hash         : KeyHashes,
     status           : Statuses,
     tier             : Tiers,
     is_enabled       : BOOLEAN,
     total_requests   : Nat,
     success_requests : Nat,
     fail_requests    : Nat,
     fail_streak      : Nat,
     last_used_at     : Times,
     cooldown_until   : Times]

NewKey(hash) ==
    [key_hash         |-> hash,
     status           |-> "pending",
     tier             |-> "none",
     is_enabled       |-> TRUE,
     total_requests   |-> 0,
     success_requests |-> 0,
     fail_requests    |-> 0,
     fail_streak      |-> 0,
     last_used_at     |-> Never,
     cooldown_until   |-> Never]

AtLeast(a, b) == IF a < b THEN b ELSE a
AtMost(a, b)  == IF a > b THEN b ELSE a

---------------------------------------------------------------------------
(* Cooldown and backoff *)

\* 2 ** min(streak - 1, 4)
BackoffFactor(streak) == <<1, 2, 4, 8, 16>>[AtMost(AtLeast(streak, 1), 5)]

\* Faulty: without the cap.
ComputeBackoffUncapped(base, streak) ==
    IF base <= 0 THEN 0 ELSE base * BackoffFactor(streak)

ComputeBackoff(base, streak) ==
    LET seconds == base * BackoffFactor(streak)
    IN  IF base <= 0 THEN 0
        ELSE IF CooldownMax > 0 THEN AtMost(seconds, CooldownMax)
        ELSE seconds

\* A cooldown is only ever extended. Never is below every instant.
SetKeyCooldown(cooldown, seconds, t) ==
    IF seconds > 0 THEN AtLeast(cooldown, t + seconds) ELSE cooldown

---------------------------------------------------------------------------
(* The answer to a relayed request *)

Persistent(streak) == streak >= FailThreshold

\* An unknown 4xx borrows the (small) base of 409.
BaseFor(code) == IF code = "4xx" THEN CooldownBase["409"] ELSE CooldownBase[code]

StreakAfter(row, code) ==
    IF code \in {"409", "429"} THEN AtMost(row.fail_streak + 1, FailThreshold)
    ELSE row.fail_streak + 1

\* Faulty: a status that the model does not know.
StatusAfterLimited(row, code) ==
    IF code \in {"409", "429"} THEN "limited" ELSE row.status

StatusAfter(row, code) ==
    IF code = "401" THEN "invalid"
    ELSE IF code \notin {"409", "429"} /\ Persistent(row.fail_streak + 1) THEN "unhealthy"
    ELSE row.status

\* Faulty: the Retry-After header is dropped.
CooldownSecondsOwn(row, code, retry_after) ==
    IF ~DynamicCooldown \/ code = "401" THEN 0
    ELSE ComputeBackoff(BaseFor(code), StreakAfter(row, code))

\* Seconds of cooldown an answer asks for; retry_after is 0 when the header
\* is absent or not a number, and is read on a 429 only. It is applied after
\* the cap, so a long Retry-After exceeds CooldownMax.
CooldownSeconds(row, code, retry_after) ==
    LET backoff == ComputeBackoff(BaseFor(code), StreakAfter(row, code))
    IN  IF ~DynamicCooldown \/ code = "401" THEN 0
        ELSE IF code = "429" THEN AtLeast(backoff, retry_after)
        ELSE backoff

UpdateKeyFromUpstream(row, code, retry_after, t) ==
    [row EXCEPT
        !.fail_streak    = StreakAfter(row, code),
        !.status         = StatusAfter(row, code),
        !.cooldown_until =
            SetKeyCooldown(@, CooldownSeconds(row, code, retry_after), t)]

\* Faulty: the total is not counted.
RecordSuccessUncounted(row, t) ==
    [row EXCEPT
        !.success_requests = @ + 1,
        !.last_used_at     = t,
        !.fail_streak      = 0,
        !.cooldown_until   = Never]

RecordSuccess(row, t) ==
    [row EXCEPT
        !.total_requests   = @ + 1,
        !.success_requests = @ + 1,
        !.last_used_at     = t,
        !.fail_streak      = 0,
        !.cooldown_until   = Never]

RecordFailure(row, code, retry_after, t) ==
    UpdateKeyFromUpstream(
        [row EXCEPT !.total_requests = @ + 1,
                    !.fail_requests  = @ + 1,
                    !.last_used_at   = t],
        code, retry_after, t)

---------------------------------------------------------------------------
(* The verdict of a subscription check *)

\* "opus" / "other": a 2xx or 3xx answer whose JSON names that tier; "401";
\* "error": any other 4xx or 5xx, a timeout, a network error, a bad body.
Verdicts == {"opus", "other", "401", "error"}

MarkStatus(row, status, tier) == [row EXCEPT !.status = status, !.tier = tier]

\* Faulty: a check that gets no ruling from NovelAI counts and evicts nobody.
CheckKeyHealthLenient(row, verdict) ==
    LET struck == [row EXCEPT !.fail_streak = @ + 1]
    IN  CASE verdict = "401"   -> MarkStatus(struck, "invalid", "none")
          [] verdict = "error" -> struck
          [] verdict = "other" /\ RequireOpus ->
               MarkStatus(row, "unhealthy", verdict)
          [] OTHER ->
               MarkStatus([row EXCEPT !.fail_streak = 0], "healthy", verdict)

CheckKeyHealth(row, verdict) ==
    LET struck == [row EXCEPT !.fail_streak = @ + 1]
    IN  CASE verdict = "401"   -> MarkStatus(struck, "invalid", "none")
          [] verdict = "error" ->
               IF Persistent(struck.fail_streak)
               THEN MarkStatus(struck, "unhealthy", row.tier)
               ELSE struck
          [] verdict = "other" /\ RequireOpus ->
               MarkStatus(row, "unhealthy", verdict)
          [] OTHER ->
               MarkStatus([row EXCEPT !.fail_streak = 0], "healthy", verdict)

---------------------------------------------------------------------------
(* Write-back of an edited row *)

\* The UPDATE that commit() emits names only the columns whose value differs
\* from the one loaded, with literal values, so every other column keeps what
\* is stored by now; nothing in it checks that the row is still as loaded.
Flush(stored, loaded, edited) ==
    [column \in DOMAIN stored |->
        IF edited[column] = loaded[column] THEN stored[column] ELSE edited[column]]

==========================================================================
