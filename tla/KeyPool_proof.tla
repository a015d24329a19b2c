--------------------------- MODULE KeyPool_proof ---------------------------
(***************************************************************************)
(* Theorems about KeyPool for every set of keys, handlers, checkers and    *)
(* administrators, every setting of the cooldowns and both databases.      *)
(***************************************************************************)
EXTENDS KeyPool, FiniteSetTheorems, TLAPS

---------------------------------------------------------------------------
(* Edits of one row: every edit yields a row, and how it moves the status and
   the counters *)

\* A new key is a row.
LEMMA NewKeyIsRow == ASSUME NEW hash \in KeyHashes PROVE NewKey(hash) \in KeyRows
BY DEF NewKey, KeyRows, Statuses, Tiers, Times, Never

\* The backoff is never negative, whatever the settings (proxy.py:45-52).
LEMMA BackoffIsNat ==
    ASSUME NEW base \in Int, NEW streak \in Nat
    PROVE  ComputeBackoff(base, streak) \in Nat
<1>1. BackoffFactor(streak) \in Nat
  BY DEF BackoffFactor, AtMost, AtLeast
<1> QED
  BY <1>1, CooldownAssumption DEF ComputeBackoff, AtMost

\* A positive cap bounds the backoff for every base and every streak.
LEMMA BackoffIsCapped ==
    ASSUME NEW base \in Int, NEW streak \in Nat, CooldownMax > 0
    PROVE  ComputeBackoff(base, streak) <= CooldownMax
<1>1. BackoffFactor(streak) \in Nat
  BY DEF BackoffFactor, AtMost, AtLeast
<1> QED
  BY <1>1, CooldownAssumption DEF ComputeBackoff, AtMost

\* The fields of a row, for leaves that need no more than that.
LEMMA RowFields ==
    ASSUME NEW row \in KeyRows
    PROVE  /\ row.key_hash \in KeyHashes
           /\ row.status \in Statuses
           /\ row.tier \in Tiers
           /\ row.is_enabled \in BOOLEAN
           /\ row.total_requests \in Nat
           /\ row.success_requests \in Nat
           /\ row.fail_requests \in Nat
           /\ row.fail_streak \in Nat
           /\ row.last_used_at \in Times
           /\ row.cooldown_until \in Times
BY DEF KeyRows

LEMMA StreakAfterIsNat ==
    ASSUME NEW row \in KeyRows, NEW code \in Codes
    PROVE  StreakAfter(row, code) \in Nat
BY RowFields, ThresholdAssumption DEF StreakAfter, AtMost

LEMMA CooldownSecondsIsNat ==
    ASSUME NEW row \in KeyRows, NEW code \in Codes, NEW retry_after \in Nat
    PROVE  CooldownSeconds(row, code, retry_after) \in Nat
<1>1. CASE ~DynamicCooldown \/ code = "401"
  BY <1>1 DEF CooldownSeconds
<1>2. CASE DynamicCooldown /\ code # "401"
  <2>1. BaseFor(code) \in Int
    BY <1>2, CooldownAssumption DEF BaseFor, Codes
  <2>2. ComputeBackoff(BaseFor(code), StreakAfter(row, code)) \in Nat
    BY <2>1, StreakAfterIsNat, BackoffIsNat
  <2> QED
    BY <1>2, <2>2 DEF CooldownSeconds, AtLeast
<1> QED
  BY <1>1, <1>2, CooldownAssumption

\* A cooldown is within the cap or what NovelAI asks for itself (proxy.py:45-67).
LEMMA CooldownSecondsBounded ==
    ASSUME NEW row \in KeyRows, NEW code \in Codes, NEW retry_after \in Nat,
           CooldownMax > 0
    PROVE  \/ CooldownSeconds(row, code, retry_after) <= CooldownMax
           \/ CooldownSeconds(row, code, retry_after) = retry_after
<1>1. CASE ~DynamicCooldown \/ code = "401"
  BY <1>1, CooldownAssumption DEF CooldownSeconds
<1>2. CASE DynamicCooldown /\ code # "401"
  <2>1. BaseFor(code) \in Int
    BY <1>2, CooldownAssumption DEF BaseFor, Codes
  <2>2. /\ ComputeBackoff(BaseFor(code), StreakAfter(row, code)) \in Nat
        /\ ComputeBackoff(BaseFor(code), StreakAfter(row, code)) <= CooldownMax
    BY <2>1, StreakAfterIsNat, BackoffIsNat, BackoffIsCapped
  <2> QED
    BY <1>2, <2>2, CooldownAssumption DEF CooldownSeconds, AtLeast
<1> QED
  BY <1>1, <1>2, CooldownAssumption

LEMMA SetKeyCooldownIsTime ==
    ASSUME NEW cooldown \in Times, NEW seconds \in Nat, NEW t \in Nat
    PROVE  SetKeyCooldown(cooldown, seconds, t) \in Times
BY DEF SetKeyCooldown, AtLeast, Times, Never

\* Recording a success yields a row, one request further, with the key's
\* identity, switch and status as they were (proxy.py:311-317).
LEMMA SuccessIsRow ==
    ASSUME NEW row \in KeyRows, NEW t \in Nat
    PROVE  LET edited == RecordSuccess(row, t)
           IN  /\ edited \in KeyRows
               /\ edited.key_hash = row.key_hash
               /\ edited.is_enabled = row.is_enabled
               /\ edited.status = row.status
               /\ edited.tier = row.tier
               /\ edited.total_requests = row.total_requests + 1
               /\ edited.success_requests = row.success_requests + 1
               /\ edited.fail_requests = row.fail_requests
               /\ edited.last_used_at = t
               /\ edited.fail_streak = 0
               /\ edited.cooldown_until = Never
<1> DEFINE total == row.total_requests + 1
           success == row.success_requests + 1
<1>1. total \in Nat /\ success \in Nat /\ t \in Times /\ Never \in Times
  BY RowFields DEF Times
<1>2. RecordSuccess(row, t) =
        [row EXCEPT !.total_requests = total, !.success_requests = success,
                    !.last_used_at = t, !.fail_streak = 0, !.cooldown_until = Never]
  BY DEF RecordSuccess
<1> HIDE DEF total, success
<1>3. RecordSuccess(row, t) \in KeyRows
  <2>1. [row EXCEPT !.total_requests = total, !.success_requests = success,
                    !.last_used_at = t, !.fail_streak = 0, !.cooldown_until = Never]
          \in KeyRows
    BY <1>1 DEF KeyRows
  <2> QED
    BY <1>2, <2>1
<1>4. /\ RecordSuccess(row, t).total_requests = total
      /\ RecordSuccess(row, t).success_requests = success
      /\ RecordSuccess(row, t).fail_requests = row.fail_requests
      /\ RecordSuccess(row, t).last_used_at = t
      /\ RecordSuccess(row, t).fail_streak = 0
      /\ RecordSuccess(row, t).cooldown_until = Never
  BY <1>2 DEF KeyRows
<1>5. /\ RecordSuccess(row, t).key_hash = row.key_hash
      /\ RecordSuccess(row, t).is_enabled = row.is_enabled
      /\ RecordSuccess(row, t).status = row.status
      /\ RecordSuccess(row, t).tier = row.tier
  BY <1>2 DEF KeyRows
<1> QED
  BY <1>3, <1>4, <1>5 DEF total, success

\* The new status is a demotion or the old status (proxy.py:69-131).
LEMMA StatusAfterDemotes ==
    ASSUME NEW row \in KeyRows, NEW code \in Codes
    PROVE  StatusAfter(row, code) \in {row.status, "unhealthy", "invalid"}
BY DEF StatusAfter

\* Recording a failure yields a row, one request further, with the key's
\* identity and switch as they were and a status that is no better.
LEMMA FailureIsRow ==
    ASSUME NEW row \in KeyRows, NEW code \in Codes,
           NEW retry_after \in Nat, NEW t \in Nat
    PROVE  LET edited == RecordFailure(row, code, retry_after, t)
           IN  /\ edited \in KeyRows
               /\ edited.key_hash = row.key_hash
               /\ edited.is_enabled = row.is_enabled
               /\ edited.tier = row.tier
               /\ edited.status \in {row.status, "unhealthy", "invalid"}
               /\ edited.total_requests = row.total_requests + 1
               /\ edited.success_requests = row.success_requests
               /\ edited.fail_requests = row.fail_requests + 1
<1> DEFINE total == row.total_requests + 1
           failed == row.fail_requests + 1
           counted == [row EXCEPT !.total_requests = total,
                                  !.fail_requests = failed,
                                  !.last_used_at = t]
           edited == RecordFailure(row, code, retry_after, t)
<1>1. total \in Nat /\ failed \in Nat /\ t \in Times
  BY RowFields DEF Times
<1>2. edited = UpdateKeyFromUpstream(counted, code, retry_after, t)
  BY DEF RecordFailure
<1> HIDE DEF total, failed
<1>3. counted \in KeyRows
  BY <1>1 DEF KeyRows
<1>4. /\ counted.key_hash = row.key_hash
      /\ counted.is_enabled = row.is_enabled
      /\ counted.status = row.status
      /\ counted.tier = row.tier
      /\ counted.total_requests = total
      /\ counted.success_requests = row.success_requests
      /\ counted.fail_requests = failed
  BY DEF KeyRows
<1> HIDE DEF counted
<1> DEFINE streak == StreakAfter(counted, code)
           status == StatusAfter(counted, code)
           until == SetKeyCooldown(counted.cooldown_until,
                        CooldownSeconds(counted, code, retry_after), t)
<1>5. streak \in Nat
  BY <1>3, StreakAfterIsNat
<1>6. status \in {counted.status, "unhealthy", "invalid"} /\ status \in Statuses
  BY <1>3, StatusAfterDemotes, RowFields DEF Statuses
<1>7. until \in Times
  BY <1>3, CooldownSecondsIsNat, SetKeyCooldownIsTime, RowFields
<1>8. edited = [counted EXCEPT !.fail_streak = streak, !.status = status,
                               !.cooldown_until = until]
  BY <1>2 DEF UpdateKeyFromUpstream
<1> HIDE DEF edited, streak, status, until
<1>9. edited \in KeyRows
  BY <1>3, <1>5, <1>6, <1>7, <1>8 DEF KeyRows
<1>10. /\ edited.key_hash = counted.key_hash
       /\ edited.is_enabled = counted.is_enabled
       /\ edited.tier = counted.tier
       /\ edited.status = status
       /\ edited.total_requests = counted.total_requests
       /\ edited.success_requests = counted.success_requests
       /\ edited.fail_requests = counted.fail_requests
  BY <1>3, <1>8 DEF KeyRows
<1>11. /\ edited.total_requests = row.total_requests + 1
       /\ edited.fail_requests = row.fail_requests + 1
  BY <1>4, <1>10 DEF total, failed
<1> QED
  BY <1>4, <1>6, <1>9, <1>10, <1>11 DEF edited

\* What a failure makes of the columns that decide about the key's next use
LEMMA FailureEdits ==
    ASSUME NEW row \in KeyRows, NEW code \in Codes,
           NEW retry_after \in Nat, NEW t \in Nat
    PROVE  LET edited == RecordFailure(row, code, retry_after, t)
           IN  /\ edited.last_used_at = t
               /\ edited.fail_streak = StreakAfter(row, code)
               /\ edited.status = StatusAfter(row, code)
               /\ edited.cooldown_until = SetKeyCooldown(row.cooldown_until,
                      CooldownSeconds(row, code, retry_after), t)
<1> DEFINE total == row.total_requests + 1
           failed == row.fail_requests + 1
           counted == [row EXCEPT !.total_requests = total,
                                  !.fail_requests = failed,
                                  !.last_used_at = t]
           edited == RecordFailure(row, code, retry_after, t)
<1>1. edited = UpdateKeyFromUpstream(counted, code, retry_after, t)
  BY DEF RecordFailure
<1> HIDE DEF total, failed
<1>2. /\ counted.fail_streak = row.fail_streak
      /\ counted.status = row.status
      /\ counted.cooldown_until = row.cooldown_until
      /\ counted.last_used_at = t
      /\ DOMAIN counted = DOMAIN row
      /\ {"fail_streak", "status", "cooldown_until", "last_used_at"} \subseteq DOMAIN row
  BY DEF KeyRows
<1> HIDE DEF counted
<1> DEFINE streak == StreakAfter(counted, code)
           status == StatusAfter(counted, code)
           seconds == CooldownSeconds(counted, code, retry_after)
           until == SetKeyCooldown(counted.cooldown_until, seconds, t)
<1>3. streak = StreakAfter(row, code)
  BY <1>2 DEF StreakAfter
<1>4. status = StatusAfter(row, code)
  BY <1>2 DEF StatusAfter
<1>5. seconds = CooldownSeconds(row, code, retry_after)
  BY <1>3 DEF CooldownSeconds
<1>6. edited = [counted EXCEPT !.fail_streak = streak, !.status = status,
                               !.cooldown_until = until]
  BY <1>1 DEF UpdateKeyFromUpstream
<1> HIDE DEF edited, streak, status, seconds
<1>7. /\ edited.fail_streak = streak /\ edited.status = status
      /\ edited.cooldown_until = until /\ edited.last_used_at = t
  BY <1>2, <1>6
<1> QED
  BY <1>2, <1>3, <1>4, <1>5, <1>7 DEF edited

\* A verdict leaves identity, switch, counters and times alone, and yields
\* "pending" on a key that was pending only (health_check.py:16-52).
LEMMA CheckedIsRow ==
    ASSUME NEW row \in KeyRows, NEW verdict \in Verdicts
    PROVE  LET edited == CheckKeyHealth(row, verdict)
           IN  /\ edited \in KeyRows
               /\ edited.key_hash = row.key_hash
               /\ edited.is_enabled = row.is_enabled
               /\ edited.status = "pending" => row.status = "pending"
               /\ edited.total_requests = row.total_requests
               /\ edited.success_requests = row.success_requests
               /\ edited.fail_requests = row.fail_requests
               /\ edited.last_used_at = row.last_used_at
               /\ edited.cooldown_until = row.cooldown_until
<1> DEFINE streak == row.fail_streak + 1
           struck == [row EXCEPT !.fail_streak = streak]
           edited == CheckKeyHealth(row, verdict)
<1>1. streak \in Nat
  BY RowFields
<1> HIDE DEF edited
<1>2. PICK s \in Nat, status \in Statuses, tier \in Tiers :
        /\ edited = [row EXCEPT !.fail_streak = s, !.status = status, !.tier = tier]
        /\ status = "pending" => row.status = "pending"
  <2>1. CASE verdict = "401"
    <3>1. edited = [row EXCEPT !.fail_streak = streak, !.status = "invalid", !.tier = "none"]
      BY <2>1 DEF edited, CheckKeyHealth, MarkStatus, KeyRows
    <3> QED
      BY <1>1, <3>1 DEF Statuses, Tiers
  <2>2. CASE verdict = "error" /\ Persistent(struck.fail_streak)
    <3>1. edited = [row EXCEPT !.fail_streak = streak, !.status = "unhealthy", !.tier = row.tier]
      BY <2>2 DEF edited, CheckKeyHealth, MarkStatus, KeyRows
    <3> QED
      BY <1>1, <3>1, RowFields DEF Statuses
  <2>3. CASE verdict = "error" /\ ~Persistent(struck.fail_streak)
    <3>1. edited = [row EXCEPT !.fail_streak = streak, !.status = row.status, !.tier = row.tier]
      BY <2>3 DEF edited, CheckKeyHealth, KeyRows
    <3> QED
      BY <1>1, <3>1, RowFields
  <2>4. CASE verdict = "other" /\ RequireOpus
    <3>1. edited = [row EXCEPT !.fail_streak = row.fail_streak, !.status = "unhealthy", !.tier = "other"]
      BY <2>4 DEF edited, CheckKeyHealth, MarkStatus, KeyRows
    <3>2. "unhealthy" \in Statuses /\ "other" \in Tiers /\ row.fail_streak \in Nat
      BY RowFields DEF Statuses, Tiers
    <3> QED
      BY <3>1, <3>2
  <2>5. CASE verdict \in {"opus", "other"} /\ ~(verdict = "other" /\ RequireOpus)
    <3>1. edited = [row EXCEPT !.fail_streak = 0, !.status = "healthy", !.tier = verdict]
      BY <2>5 DEF edited, CheckKeyHealth, MarkStatus, KeyRows
    <3> QED
      BY <2>5, <3>1 DEF Statuses, Tiers
  <2> QED
    BY <2>1, <2>2, <2>3, <2>4, <2>5 DEF Verdicts
<1>3. edited \in KeyRows
  BY <1>2 DEF KeyRows
<1>4. /\ edited.key_hash = row.key_hash
      /\ edited.is_enabled = row.is_enabled
      /\ edited.status = "pending" => row.status = "pending"
      /\ edited.total_requests = row.total_requests
      /\ edited.success_requests = row.success_requests
      /\ edited.fail_requests = row.fail_requests
      /\ edited.last_used_at = row.last_used_at
      /\ edited.cooldown_until = row.cooldown_until
  BY <1>2 DEF KeyRows
<1> QED
  BY <1>3, <1>4 DEF edited

LEMMA ToggledIsRow ==
    ASSUME NEW row \in KeyRows
    PROVE  LET edited == [row EXCEPT !.is_enabled = ~@]
           IN  /\ edited \in KeyRows
               /\ edited.key_hash = row.key_hash
               /\ edited.status = row.status
               /\ edited.last_used_at = row.last_used_at
               /\ edited.total_requests = row.total_requests
               /\ edited.success_requests = row.success_requests
               /\ edited.fail_requests = row.fail_requests
               /\ edited.fail_streak = row.fail_streak
               /\ edited.cooldown_until = row.cooldown_until
BY DEF KeyRows

\* Writing back an edited copy yields a row.
LEMMA FlushIsRow ==
    ASSUME NEW stored \in KeyRows, NEW loaded \in KeyRows, NEW edited \in KeyRows
    PROVE  Flush(stored, loaded, edited) \in KeyRows
BY DEF Flush, KeyRows

\* A column the handler did not change keeps what is stored by now, and a
\* column it did change takes the handler's value: there is no third outcome.
LEMMA FlushedColumns ==
    ASSUME NEW stored \in KeyRows, NEW loaded \in KeyRows, NEW edited \in KeyRows
    PROVE  LET new == Flush(stored, loaded, edited)
           IN  /\ new.key_hash = (IF edited.key_hash = loaded.key_hash
                                  THEN stored.key_hash ELSE edited.key_hash)
               /\ new.status = (IF edited.status = loaded.status
                                THEN stored.status ELSE edited.status)
               /\ new.is_enabled = (IF edited.is_enabled = loaded.is_enabled
                                    THEN stored.is_enabled ELSE edited.is_enabled)
               /\ new.total_requests = (IF edited.total_requests = loaded.total_requests
                                        THEN stored.total_requests ELSE edited.total_requests)
               /\ new.success_requests = (IF edited.success_requests = loaded.success_requests
                                          THEN stored.success_requests ELSE edited.success_requests)
               /\ new.fail_requests = (IF edited.fail_requests = loaded.fail_requests
                                       THEN stored.fail_requests ELSE edited.fail_requests)
               /\ new.last_used_at = (IF edited.last_used_at = loaded.last_used_at
                                      THEN stored.last_used_at ELSE edited.last_used_at)
               /\ new.fail_streak = (IF edited.fail_streak = loaded.fail_streak
                                     THEN stored.fail_streak ELSE edited.fail_streak)
               /\ new.cooldown_until = (IF edited.cooldown_until = loaded.cooldown_until
                                        THEN stored.cooldown_until ELSE edited.cooldown_until)
BY DEF Flush, KeyRows

---------------------------------------------------------------------------
(* Mappings *)

LEMMA EmptyIsMapping ==
    ASSUME NEW S, NEW T
    PROVE  IsMapping(Empty, S, T) /\ DOMAIN Empty = {}
BY DEF IsMapping, Empty

LEMMA PutIsMapping ==
    ASSUME NEW S, NEW T, NEW f, IsMapping(f, S, T), NEW x \in S, NEW v \in T
    PROVE  LET g == Put(f, x, v)
           IN  /\ IsMapping(g, S, T)
               /\ DOMAIN g = DOMAIN f \cup {x}
               /\ g[x] = v
               /\ \A y \in DOMAIN f : y # x => g[y] = f[y]
BY DEF IsMapping, Put

LEMMA RestrictIsMapping ==
    ASSUME NEW S, NEW T, NEW f, IsMapping(f, S, T), NEW D, D \subseteq DOMAIN f
    PROVE  LET g == Restrict(f, D)
           IN  /\ IsMapping(g, S, T)
               /\ DOMAIN g = D
               /\ \A y \in D : g[y] = f[y]
BY DEF IsMapping, Restrict

LEMMA DropIsMapping ==
    ASSUME NEW S, NEW T, NEW f, IsMapping(f, S, T), NEW x
    PROVE  LET g == Drop(f, x)
           IN  /\ IsMapping(g, S, T)
               /\ DOMAIN g = DOMAIN f \ {x}
               /\ \A y \in DOMAIN g : g[y] = f[y]
BY DOMAIN f \ {x} \subseteq DOMAIN f, RestrictIsMapping DEF Drop

LEMMA ExceptIsMapping ==
    ASSUME NEW S, NEW T, NEW f, IsMapping(f, S, T), NEW x \in DOMAIN f, NEW v \in T
    PROVE  LET g == [f EXCEPT ![x] = v]
           IN  /\ IsMapping(g, S, T)
               /\ DOMAIN g = DOMAIN f
               /\ g[x] = v
               /\ \A y \in DOMAIN f : y # x => g[y] = f[y]
BY DEF IsMapping

LEMMA MapIsMapping ==
    ASSUME NEW S, NEW T, NEW D, D \subseteq S, NEW g, g = [x \in D |-> g[x]],
           \A x \in D : g[x] \in T
    PROVE  IsMapping(g, S, T) /\ DOMAIN g = D
BY DEF IsMapping

LEMMA CountUp ==
    ASSUME NEW S, NEW f \in [S -> Nat], NEW i \in S, NEW g,
           g = [f EXCEPT ![i] = @ + 1]
    PROVE  /\ g \in [S -> Nat]
           /\ g[i] = f[i] + 1
           /\ \A j \in S : f[j] <= g[j]
OBVIOUS

---------------------------------------------------------------------------
(* Types *)

\* What a commit of a relayed request may write: the copy it took, one request
\* further.
LEMMA FinishTypes ==
    ASSUME TypeOK, NEW h \in DOMAIN req, NEW edited \in KeyRows, Finish(h, edited)
    PROVE  /\ IsMapping(key', KeyIds, KeyRows)
           /\ IsMapping(req', Handlers, Snapshots)
           /\ req[h].id \in KeyIds /\ req[h].row \in KeyRows
           /\ req[h].id \in DOMAIN key
           /\ DOMAIN key' = DOMAIN key
           /\ key'[req[h].id] = Flush(key[req[h].id], req[h].row, edited)
           /\ \A j \in DOMAIN key : j # req[h].id => key'[j] = key[j]
           /\ DOMAIN req' = DOMAIN req \ {h}
           /\ \A g \in DOMAIN req' : req'[g] = req[g]
           /\ UNCHANGED <<now, nextId, check, toggle>>
<1> DEFINE i == req[h].id
           row == req[h].row
<1>1. i \in KeyIds /\ row \in KeyRows
  BY DEF TypeOK, IsMapping, Snapshots
<1>2. /\ i \in DOMAIN key
      /\ key' = [key EXCEPT ![i] = Flush(key[i], row, edited)]
      /\ req' = Drop(req, h)
      /\ UNCHANGED <<now, nextId, check, toggle>>
  BY DEF Finish
<1>3. key[i] \in KeyRows
  BY <1>2 DEF TypeOK, IsMapping
<1>4. Flush(key[i], row, edited) \in KeyRows
  BY <1>1, <1>3, FlushIsRow
<1>5. IsMapping(key, KeyIds, KeyRows) /\ IsMapping(req, Handlers, Snapshots)
  BY DEF TypeOK
<1> HIDE DEF i, row
<1>6. /\ IsMapping(key', KeyIds, KeyRows)
      /\ DOMAIN key' = DOMAIN key
      /\ key'[i] = Flush(key[i], row, edited)
      /\ \A j \in DOMAIN key : j # i => key'[j] = key[j]
  BY <1>2, <1>4, <1>5, ExceptIsMapping
<1>7. /\ IsMapping(req', Handlers, Snapshots)
      /\ DOMAIN req' = DOMAIN req \ {h}
      /\ \A g \in DOMAIN req' : req'[g] = req[g]
  BY <1>2, <1>5 DEF Drop, Restrict, IsMapping
<1> QED
  BY <1>1, <1>2, <1>6, <1>7 DEF i, row

\* The effect of a committed check on the table.
LEMMA CommitTypes ==
    ASSUME TypeOK, NEW c, CommitCheck(c)
    PROVE  /\ c \in DOMAIN check
           /\ DOMAIN key' = DOMAIN key
           /\ IsMapping(key', KeyIds, KeyRows)
           /\ \A i \in DOMAIN key :
                key'[i] = IF i \in DOMAIN check[c].loaded
                          THEN Flush(key[i], check[c].loaded[i], check[c].edited[i])
                          ELSE key[i]
           /\ \A i \in DOMAIN check[c].loaded :
                check[c].loaded[i] \in KeyRows /\ check[c].edited[i] \in KeyRows
           /\ DOMAIN check' = DOMAIN check \ {c}
           /\ \A d \in DOMAIN check' : check'[d] = check[d]
<1> DEFINE loaded == check[c].loaded
           edited == check[c].edited
           new(i) == IF i \in DOMAIN loaded
                     THEN Flush(key[i], loaded[i], edited[i]) ELSE key[i]
<1>1. c \in DOMAIN check /\ CheckStates(check[c])
  BY DEF CommitCheck, TypeOK
<1>2. \A i \in DOMAIN loaded : loaded[i] \in KeyRows /\ edited[i] \in KeyRows
  BY <1>1 DEF CheckStates, IsMapping
<1>3. key' = [i \in DOMAIN key |-> new(i)] /\ check' = Drop(check, c)
  BY DEF CommitCheck
<1>4. DOMAIN key \subseteq KeyIds /\ \A i \in DOMAIN key : key[i] \in KeyRows
  BY DEF TypeOK, IsMapping
<1>5. \A i \in DOMAIN key : new(i) \in KeyRows
  BY <1>2, <1>4, FlushIsRow
<1> HIDE DEF new, loaded, edited
<1>6. DOMAIN key' = DOMAIN key /\ \A i \in DOMAIN key : key'[i] = new(i)
  BY <1>3
<1>7. IsMapping(key', KeyIds, KeyRows)
  BY <1>3, <1>4, <1>5, <1>6 DEF IsMapping
<1>8. DOMAIN check' = DOMAIN check \ {c} /\ \A d \in DOMAIN check' : check'[d] = check[d]
  BY <1>3 DEF Drop, Restrict
<1> QED
  BY <1>1, <1>2, <1>6, <1>7, <1>8 DEF new, loaded, edited

LEMMA TypeInit == Init => TypeOK
BY EmptyIsMapping DEF Init, TypeOK

LEMMA TypeStep == TypeOK /\ [Next]_vars => TypeOK'
<1> SUFFICES ASSUME TypeOK, [Next]_vars PROVE TypeOK'
  OBVIOUS
<1> USE DEF TypeOK
<1>1. CASE UNCHANGED vars
  BY <1>1 DEF vars
<1>2. CASE Tick
  BY <1>2 DEF Tick
<1>3. ASSUME NEW i \in KeyIds, NEW hash \in KeyHashes, Insert(i, hash),
             UNCHANGED check \/ \E c \in Checkers : UploadAndVerify(i, hash, c)
      PROVE  TypeOK'
  <2>1. IsMapping(key', KeyIds, KeyRows)
    BY <1>3, NewKeyIsRow, PutIsMapping DEF Insert
  <2>2. nextId' \in Nat \ {0}
    BY <1>3 DEF Insert
  <2>3. DOMAIN check' \subseteq Checkers /\ \A c \in DOMAIN check' : CheckStates(check'[c])
    <3>1. CASE UNCHANGED check
      BY <3>1
    <3>2. ASSUME NEW c \in Checkers, UploadAndVerify(i, hash, c)
          PROVE  DOMAIN check' \subseteq Checkers /\ \A d \in DOMAIN check' : CheckStates(check'[d])
      <4>1. CheckStates([todo |-> {i}, loaded |-> Empty, edited |-> Empty])
        BY EmptyIsMapping DEF CheckStates
      <4> QED
        BY <3>2, <4>1 DEF UploadAndVerify, Put
    <3> QED
      BY <1>3, <3>1, <3>2
  <2> QED
    BY <1>3, <2>1, <2>2, <2>3 DEF Insert
<1>4. ASSUME NEW i \in KeyIds, DeleteKey(i) PROVE TypeOK'
  BY <1>4, DropIsMapping DEF DeleteKey
<1>5. ASSUME NEW a \in Admins, NEW i \in KeyIds, ToggleRead(a, i) PROVE TypeOK'
  <2>1. [id |-> i, row |-> key[i]] \in Snapshots
    BY <1>5 DEF ToggleRead, IsMapping, Snapshots
  <2>2. IsMapping(toggle', Admins, Snapshots)
    BY <1>5, <2>1, PutIsMapping DEF ToggleRead
  <2> QED
    BY <1>5, <2>2 DEF ToggleRead
<1>6. ASSUME NEW a \in Admins, ToggleCommit(a) PROVE TypeOK'
  <2>1. IsMapping(toggle', Admins, Snapshots)
    BY <1>6, DropIsMapping DEF ToggleCommit
  <2>2. IsMapping(key', KeyIds, KeyRows)
    <3> DEFINE i == toggle[a].id
               row == toggle[a].row
    <3>1. CASE i \notin DOMAIN key
      BY <1>6, <3>1 DEF ToggleCommit
    <3>2. CASE i \in DOMAIN key
      <4>1. row \in KeyRows /\ key[i] \in KeyRows
        BY <1>6, <3>2 DEF ToggleCommit, IsMapping, Snapshots
      <4>2. Flush(key[i], row, ToggleEdit(row)) \in KeyRows
        BY <4>1, ToggledIsRow, FlushIsRow DEF ToggleEdit
      <4>3. key' = [key EXCEPT ![i] = Flush(key[i], row, ToggleEdit(row))]
        BY <1>6, <3>2 DEF ToggleCommit
      <4>4. IsMapping(key, KeyIds, KeyRows)
        OBVIOUS
      <4> HIDE DEF i, row, TypeOK
      <4> QED
        BY <3>2, <4>2, <4>3, <4>4, ExceptIsMapping
    <3> QED
      BY <3>1, <3>2
  <2> QED
    BY <1>6, <2>1, <2>2 DEF ToggleCommit
<1>7. ASSUME NEW h \in Handlers, NEW i \in KeyIds, GenerateImage(h, i) PROVE TypeOK'
  <2>1. [id |-> i, row |-> key[i]] \in Snapshots
    BY <1>7 DEF GenerateImage, Candidates, IsMapping, Snapshots
  <2>2. IsMapping(req', Handlers, Snapshots)
    BY <1>7, <2>1, PutIsMapping DEF GenerateImage
  <2> QED
    BY <1>7, <2>2 DEF GenerateImage
<1>8. ASSUME NEW h \in Handlers, UpstreamSucceeds(h) PROVE TypeOK'
  <2>1. h \in DOMAIN req /\ req[h].row \in KeyRows
    BY <1>8 DEF UpstreamSucceeds, IsMapping, Snapshots
  <2>2. RecordSuccess(req[h].row, now) \in KeyRows
    BY <2>1, SuccessIsRow
  <2>3. Finish(h, RecordSuccess(req[h].row, now))
    BY <1>8 DEF UpstreamSucceeds
  <2>4. /\ IsMapping(key', KeyIds, KeyRows)
        /\ IsMapping(req', Handlers, Snapshots)
        /\ UNCHANGED <<now, nextId, check, toggle>>
    BY <2>1, <2>2, <2>3, FinishTypes
  <2>5. okLog' \in [KeyIds -> Nat] /\ failLog' = failLog
    <3>1. /\ okLog \in [KeyIds -> Nat]
          /\ req[h].id \in KeyIds
          /\ okLog' = [okLog EXCEPT ![req[h].id] = @ + 1]
          /\ UNCHANGED failLog
      BY <1>8, <2>1 DEF UpstreamSucceeds, IsMapping, Snapshots
    <3> QED
      BY <3>1, CountUp
  <2> QED
    BY <2>4, <2>5
<1>9. ASSUME NEW h \in Handlers, NEW code \in Codes, NEW retry_after \in RetryAfters,
             UpstreamFails(h, code, retry_after)
      PROVE  TypeOK'
  <2>1. h \in DOMAIN req /\ req[h].row \in KeyRows /\ retry_after \in Nat
    BY <1>9, PoolAssumption DEF UpstreamFails, IsMapping, Snapshots
  <2>2. RecordFailure(req[h].row, code, retry_after, now) \in KeyRows
    BY <2>1, FailureIsRow
  <2>3. Finish(h, RecordFailure(req[h].row, code, retry_after, now))
    BY <1>9 DEF UpstreamFails
  <2>4. /\ IsMapping(key', KeyIds, KeyRows)
        /\ IsMapping(req', Handlers, Snapshots)
        /\ UNCHANGED <<now, nextId, check, toggle>>
    BY <2>1, <2>2, <2>3, FinishTypes
  <2>5. failLog' \in [KeyIds -> Nat] /\ okLog' = okLog
    <3>1. /\ failLog \in [KeyIds -> Nat]
          /\ req[h].id \in KeyIds
          /\ failLog' = [failLog EXCEPT ![req[h].id] = @ + 1]
          /\ UNCHANGED okLog
      BY <1>9, <2>1 DEF UpstreamFails, IsMapping, Snapshots
    <3> QED
      BY <3>1, CountUp
  <2> QED
    BY <2>4, <2>5
<1>10. ASSUME NEW h \in Handlers, MalformedAnswer(h) \/ Abandoned(h) PROVE TypeOK'
  <2>1. IsMapping(req', Handlers, Snapshots)
    BY <1>10 DEF MalformedAnswer, Abandoned, Drop, Restrict, IsMapping
  <2> QED
    BY <1>10, <2>1 DEF MalformedAnswer, Abandoned
<1>11. ASSUME NEW c \in Checkers, StartSweep(c) PROVE TypeOK'
  <2> DEFINE copy == Restrict(key, Enabled)
  <2>1. Enabled \subseteq DOMAIN key
    BY DEF Enabled
  <2>2. IsMapping(copy, KeyIds, KeyRows)
    BY <2>1, RestrictIsMapping
  <2>3. CheckStates([todo |-> Enabled, loaded |-> copy, edited |-> copy])
    BY <2>1, <2>2 DEF CheckStates, IsMapping
  <2> QED
    BY <1>11, <2>3 DEF StartSweep, Put
<1>12. ASSUME NEW c \in Checkers, Refresh(c) PROVE TypeOK'
  <2>1. PICK i \in check[c].todo \ DOMAIN check[c].loaded :
          /\ i \in DOMAIN key
          /\ check' = [check EXCEPT ![c].loaded = Restrict(key, {i}),
                                    ![c].edited = Restrict(key, {i})]
    BY <1>12 DEF Refresh
  <2>2. IsMapping(Restrict(key, {i}), KeyIds, KeyRows)
    BY <2>1, RestrictIsMapping
  <2>3. CheckStates(check'[c])
    BY <1>12, <2>1, <2>2 DEF CheckStates, Refresh
  <2> QED
    BY <1>12, <2>1, <2>3 DEF Refresh
<1>13. ASSUME NEW c \in Checkers, NEW i \in KeyIds, NEW verdict \in Verdicts,
              Probe(c, i, verdict)
       PROVE  TypeOK'
  <2> DEFINE s == check[c]
             row == CheckKeyHealth(s.edited[i], verdict)
  <2>1. c \in DOMAIN check /\ CheckStates(s) /\ i \in DOMAIN s.edited
    BY <1>13 DEF Probe, CheckStates
  <2>2. row \in KeyRows
    BY <2>1, CheckedIsRow DEF CheckStates, IsMapping
  <2>3. check' = [check EXCEPT ![c] = [s EXCEPT !.todo = s.todo \ {i},
                                                !.edited = [s.edited EXCEPT ![i] = row]]]
    BY <1>13, <2>1 DEF Probe, CheckStates
  <2> HIDE DEF row
  <2>4. IsMapping([s.edited EXCEPT ![i] = row], KeyIds, KeyRows)
        /\ DOMAIN [s.edited EXCEPT ![i] = row] = DOMAIN s.edited
    BY <2>1, <2>2, ExceptIsMapping DEF CheckStates
  <2>5. CheckStates([s EXCEPT !.todo = s.todo \ {i},
                              !.edited = [s.edited EXCEPT ![i] = row]])
    BY <2>1, <2>4 DEF CheckStates
  <2> QED
    BY <1>13, <2>1, <2>3, <2>5 DEF Probe
<1>14. ASSUME NEW c \in Checkers, CommitCheck(c) PROVE TypeOK'
  BY <1>14, CommitTypes DEF CommitCheck
<1>15. ASSUME NEW c \in Checkers, Rollback(c) PROVE TypeOK'
  BY <1>15 DEF Rollback, Drop, Restrict
<1> QED
  BY <1>1, <1>2, <1>3, <1>4, <1>5, <1>6, <1>7, <1>8, <1>9, <1>10, <1>11, <1>12,
     <1>13, <1>14, <1>15
  DEF Next, KeyManagement, Relay, HealthChecks, UploadKey, UploadAndVerify

\* Type correctness: rows, copies and log counts keep their types.
THEOREM TypeCorrect == Spec => []TypeOK
BY TypeInit, TypeStep, PTL DEF Spec

---------------------------------------------------------------------------
(* What a check may have edited *)

\* A probe edits status, tier and streak of its copy only, and never turns a
\* copy "pending". The invariant the theorems below need of checks in progress.
SameButVerdict(loaded, edited) ==
    /\ edited.key_hash = loaded.key_hash
    /\ edited.is_enabled = loaded.is_enabled
    /\ edited.status = "pending" => loaded.status = "pending"
    /\ edited.total_requests = loaded.total_requests
    /\ edited.success_requests = loaded.success_requests
    /\ edited.fail_requests = loaded.fail_requests
    /\ edited.last_used_at = loaded.last_used_at
    /\ edited.cooldown_until = loaded.cooldown_until

CheckEdits ==
    \A c \in DOMAIN check : \A i \in DOMAIN check[c].loaded :
        SameButVerdict(check[c].loaded[i], check[c].edited[i])

LEMMA CheckEditsStep == TypeOK /\ CheckEdits /\ [Next]_vars => CheckEdits'
<1> SUFFICES ASSUME TypeOK, CheckEdits, [Next]_vars PROVE CheckEdits'
  OBVIOUS
<1>1. CASE UNCHANGED check
  BY <1>1 DEF CheckEdits
<1>2. ASSUME NEW c \in Checkers, NEW i \in KeyIds, NEW hash \in KeyHashes,
             UploadAndVerify(i, hash, c)
      PROVE  CheckEdits'
  BY <1>2, EmptyIsMapping DEF UploadAndVerify, Put, CheckEdits
<1>3. ASSUME NEW c \in Checkers, StartSweep(c) PROVE CheckEdits'
  BY <1>3 DEF StartSweep, Put, CheckEdits, SameButVerdict
<1>4. ASSUME NEW c \in Checkers, Refresh(c) PROVE CheckEdits'
  <2>1. PICK i \in check[c].todo \ DOMAIN check[c].loaded :
          check' = [check EXCEPT ![c].loaded = Restrict(key, {i}),
                                 ![c].edited = Restrict(key, {i})]
    BY <1>4 DEF Refresh
  <2>2. c \in DOMAIN check /\ CheckStates(check[c])
    BY <1>4 DEF Refresh, TypeOK
  <2>3. /\ DOMAIN check' = DOMAIN check
        /\ check'[c].loaded = check'[c].edited
        /\ \A d \in DOMAIN check : d # c => check'[d] = check[d]
    BY <2>1, <2>2 DEF CheckStates
  <2> QED
    BY <2>3 DEF CheckEdits, SameButVerdict
<1>5. ASSUME NEW c \in Checkers, NEW i \in KeyIds, NEW verdict \in Verdicts,
             Probe(c, i, verdict)
      PROVE  CheckEdits'
  <2> DEFINE s == check[c]
             row == CheckKeyHealth(s.edited[i], verdict)
  <2>1. /\ c \in DOMAIN check /\ CheckStates(s)
        /\ i \in DOMAIN s.loaded /\ i \in DOMAIN s.edited
        /\ s.edited[i] \in KeyRows
    BY <1>5 DEF Probe, TypeOK, CheckStates, IsMapping
  <2>2. SameButVerdict(s.edited[i], row)
    BY <2>1, CheckedIsRow DEF SameButVerdict
  <2>3. SameButVerdict(s.loaded[i], s.edited[i])
    BY <2>1 DEF CheckEdits
  <2>4. SameButVerdict(s.loaded[i], row)
    BY <2>2, <2>3 DEF SameButVerdict
  <2>5. /\ DOMAIN check' = DOMAIN check
        /\ check'[c].loaded = s.loaded
        /\ check'[c].edited = [s.edited EXCEPT ![i] = row]
        /\ \A d \in DOMAIN check : d # c => check'[d] = check[d]
    BY <1>5, <2>1 DEF Probe, CheckStates
  <2> HIDE DEF row
  <2>6. \A j \in DOMAIN s.loaded :
          SameButVerdict(s.loaded[j], [s.edited EXCEPT ![i] = row][j])
    BY <2>1, <2>4 DEF CheckEdits, CheckStates
  <2> QED
    BY <2>5, <2>6 DEF CheckEdits
<1>6. ASSUME NEW c \in Checkers, CommitCheck(c) \/ Rollback(c) PROVE CheckEdits'
  BY <1>6 DEF CommitCheck, Rollback, Drop, Restrict, CheckEdits
<1> QED
  BY <1>1, <1>2, <1>3, <1>4, <1>5, <1>6
  DEF Next, vars, Tick, KeyManagement, Relay, HealthChecks, UploadKey, DeleteKey,
      ToggleRead, ToggleCommit, GenerateImage, UpstreamSucceeds, UpstreamFails,
      Finish, MalformedAnswer, Abandoned

LEMMA CheckEditsInit == Init => CheckEdits
BY EmptyIsMapping DEF Init, CheckEdits

\* A committed check leaves every column but status, tier and streak as stored.
LEMMA CommitKeeps ==
    ASSUME TypeOK, CheckEdits, NEW c, CommitCheck(c), NEW i \in DOMAIN key
    PROVE  /\ i \in DOMAIN key'
           /\ SameButVerdict(key[i], key'[i])
<1>1. CASE i \notin DOMAIN check[c].loaded
  BY <1>1, CommitTypes DEF SameButVerdict
<1>2. CASE i \in DOMAIN check[c].loaded
  <2> DEFINE loaded == check[c].loaded[i]
             edited == check[c].edited[i]
  <2>1. key[i] \in KeyRows /\ loaded \in KeyRows /\ edited \in KeyRows
    BY <1>2, CommitTypes DEF TypeOK, IsMapping
  <2>2. i \in DOMAIN key' /\ key'[i] = Flush(key[i], loaded, edited)
    BY <1>2, CommitTypes
  <2>3. SameButVerdict(loaded, edited)
    BY <1>2, CommitTypes DEF CheckEdits
  <2> HIDE DEF loaded, edited
  <2> QED
    BY <2>1, <2>2, <2>3, FlushedColumns DEF SameButVerdict
<1> QED
  BY <1>1, <1>2

\* A committed toggle leaves every column but is_enabled as stored.
LEMMA ToggleKeeps ==
    ASSUME TypeOK, NEW a \in Admins, ToggleCommit(a), NEW i \in DOMAIN key
    PROVE  /\ DOMAIN key' = DOMAIN key
           /\ i # toggle[a].id => key'[i] = key[i]
           /\ key'[i].key_hash = key[i].key_hash
           /\ key'[i].status = key[i].status
           /\ key'[i].total_requests = key[i].total_requests
           /\ key'[i].success_requests = key[i].success_requests
           /\ key'[i].fail_requests = key[i].fail_requests
           /\ key'[i].last_used_at = key[i].last_used_at
           /\ key'[i].fail_streak = key[i].fail_streak
           /\ key'[i].cooldown_until = key[i].cooldown_until
<1> DEFINE j == toggle[a].id
           row == toggle[a].row
<1>1. CASE j \notin DOMAIN key
  BY <1>1 DEF ToggleCommit
<1>2. CASE j \in DOMAIN key
  <2>1. row \in KeyRows /\ key[j] \in KeyRows
    BY <1>2 DEF ToggleCommit, TypeOK, IsMapping, Snapshots
  <2>2. key' = [key EXCEPT ![j] = Flush(key[j], row, ToggleEdit(row))]
    BY <1>2 DEF ToggleCommit
  <2> DEFINE new == Flush(key[j], row, ToggleEdit(row))
  <2>3. /\ new.key_hash = key[j].key_hash
        /\ new.status = key[j].status
        /\ new.total_requests = key[j].total_requests
        /\ new.success_requests = key[j].success_requests
        /\ new.fail_requests = key[j].fail_requests
        /\ new.last_used_at = key[j].last_used_at
        /\ new.fail_streak = key[j].fail_streak
        /\ new.cooldown_until = key[j].cooldown_until
    <3> DEFINE edited == ToggleEdit(row)
    <3>1. /\ edited \in KeyRows
          /\ edited.key_hash = row.key_hash
          /\ edited.status = row.status
          /\ edited.last_used_at = row.last_used_at
          /\ edited.total_requests = row.total_requests
          /\ edited.success_requests = row.success_requests
          /\ edited.fail_requests = row.fail_requests
          /\ edited.fail_streak = row.fail_streak
          /\ edited.cooldown_until = row.cooldown_until
      BY <2>1, ToggledIsRow DEF ToggleEdit
    <3> HIDE DEF edited, j, row
    <3>2. new = Flush(key[j], row, edited)
      BY DEF edited, row
    <3> HIDE DEF new
    <3> QED
      BY <2>1, <3>1, <3>2, FlushedColumns
  <2> HIDE DEF new, j
  <2>4. key' = [key EXCEPT ![j] = new]
    BY <2>2 DEF new
  <2> QED
    BY <1>2, <2>3, <2>4 DEF j
<1> QED
  BY <1>1, <1>2

---------------------------------------------------------------------------
(* The counters never exceed the log *)

LEMMA CountersInit == Init => CountersWithinLog
BY EmptyIsMapping DEF Init, CountersWithinLog

LEMMA CountersStep ==
    TypeOK /\ TypeOK' /\ CheckEdits /\ CountersWithinLog /\ [Next]_vars
        => CountersWithinLog'
<1> SUFFICES ASSUME TypeOK, TypeOK', CheckEdits, CountersWithinLog, [Next]_vars
             PROVE  CountersWithinLog'
  OBVIOUS
<1>a. /\ DOMAIN key \subseteq KeyIds /\ DOMAIN key' \subseteq KeyIds
      /\ \A i \in DOMAIN key : key[i] \in KeyRows
      /\ \A i \in DOMAIN key' : key'[i] \in KeyRows
      /\ \A h \in DOMAIN req : req[h].id \in KeyIds /\ req[h].row \in KeyRows
      /\ \A i \in KeyIds : okLog[i] \in Nat /\ failLog[i] \in Nat
      /\ \A i \in KeyIds : okLog'[i] \in Nat /\ failLog'[i] \in Nat
  BY DEF TypeOK, IsMapping, Snapshots
<1>1. CASE UNCHANGED <<key, req, okLog, failLog>>
  BY <1>1 DEF CountersWithinLog, CountersInLog
<1>2. ASSUME NEW i \in KeyIds, NEW hash \in KeyHashes, Insert(i, hash)
      PROVE  CountersWithinLog'
  <2>1. /\ DOMAIN key' = DOMAIN key \cup {i}
        /\ key'[i] = NewKey(hash)
        /\ \A j \in DOMAIN key : j # i => key'[j] = key[j]
        /\ UNCHANGED <<req, okLog, failLog>>
    BY <1>2 DEF Insert, Put
  <2>2. CountersInLog(i, NewKey(hash))
    BY <1>a DEF CountersInLog, NewKey
  <2> QED
    BY <2>1, <2>2 DEF CountersWithinLog, CountersInLog
<1>3. ASSUME NEW i \in KeyIds, DeleteKey(i) PROVE CountersWithinLog'
  BY <1>3 DEF DeleteKey, Drop, Restrict, CountersWithinLog, CountersInLog
<1>4. ASSUME NEW a \in Admins, ToggleCommit(a) PROVE CountersWithinLog'
  <2>1. UNCHANGED <<req, okLog, failLog>>
    BY <1>4 DEF ToggleCommit
  <2>2. DOMAIN key' = DOMAIN key
    BY <1>4 DEF ToggleCommit
  <2>3. ASSUME NEW i \in DOMAIN key PROVE CountersInLog(i, key[i])'
    BY <1>4, <2>1, ToggleKeeps DEF CountersWithinLog, CountersInLog
  <2> QED
    BY <2>1, <2>2, <2>3 DEF CountersWithinLog, CountersInLog
<1>5. ASSUME NEW h \in Handlers, NEW i \in KeyIds, GenerateImage(h, i)
      PROVE  CountersWithinLog'
  <2>1. /\ i \in DOMAIN key
        /\ DOMAIN req' = DOMAIN req \cup {h}
        /\ req'[h] = [id |-> i, row |-> key[i]]
        /\ \A g \in DOMAIN req : g # h => req'[g] = req[g]
        /\ UNCHANGED <<key, okLog, failLog>>
    BY <1>5 DEF GenerateImage, Candidates, Put
  <2> QED
    BY <2>1 DEF CountersWithinLog, CountersInLog
<1>6. ASSUME NEW h \in DOMAIN req, NEW edited \in KeyRows, Finish(h, edited),
             okLog[req[h].id] <= okLog'[req[h].id],
             failLog[req[h].id] <= failLog'[req[h].id],
             \A j \in KeyIds : okLog[j] <= okLog'[j] /\ failLog[j] <= failLog'[j],
             edited.total_requests <= okLog'[req[h].id] + failLog'[req[h].id],
             edited.success_requests <= okLog'[req[h].id],
             edited.fail_requests <= failLog'[req[h].id]
      PROVE  CountersWithinLog'
  <2>0. PICK i \in KeyIds : i = req[h].id
    BY <1>a, <1>6
  <2>1. /\ req[h].row \in KeyRows /\ i \in DOMAIN key
        /\ DOMAIN key' = DOMAIN key
        /\ key'[i] = Flush(key[i], req[h].row, edited)
        /\ \A j \in DOMAIN key : j # i => key'[j] = key[j]
        /\ DOMAIN req' \subseteq DOMAIN req
        /\ \A g \in DOMAIN req' : req'[g] = req[g]
    BY <1>6, <2>0, FinishTypes
  <2>2. CountersInLog(i, key[i])
    BY <2>1 DEF CountersWithinLog
  <2>3. CountersInLog(i, key[i])'
    <3>1. /\ key'[i].total_requests \in {key[i].total_requests, edited.total_requests}
          /\ key'[i].success_requests \in {key[i].success_requests, edited.success_requests}
          /\ key'[i].fail_requests \in {key[i].fail_requests, edited.fail_requests}
      BY <1>a, <2>1, FlushedColumns
    <3>2. /\ key[i].total_requests \in Nat
          /\ key[i].success_requests \in Nat
          /\ key[i].fail_requests \in Nat
      BY <1>a, <2>1, RowFields
    <3> QED
      BY <1>a, <1>6, <2>0, <2>1, <2>2, <3>1, <3>2 DEF CountersInLog
  <2>4. ASSUME NEW j \in DOMAIN key, j # i PROVE CountersInLog(j, key[j])'
    <3>1. CountersInLog(j, key[j]) /\ key'[j] = key[j] /\ j \in KeyIds
      BY <1>a, <2>1, <2>4 DEF CountersWithinLog
    <3>2. /\ key[j].total_requests \in Nat
          /\ key[j].success_requests \in Nat
          /\ key[j].fail_requests \in Nat
      BY <1>a, RowFields
    <3> QED
      BY <1>a, <1>6, <3>1, <3>2 DEF CountersInLog
  <2>5. ASSUME NEW g \in DOMAIN req' PROVE CountersInLog(req[g].id, req[g].row)'
    <3>1. g \in DOMAIN req /\ req'[g] = req[g]
      BY <2>1
    <3>2. /\ CountersInLog(req[g].id, req[g].row)
          /\ req[g].id \in KeyIds
          /\ req[g].row \in KeyRows
      BY <1>a, <3>1 DEF CountersWithinLog
    <3>3. /\ req[g].row.total_requests \in Nat
          /\ req[g].row.success_requests \in Nat
          /\ req[g].row.fail_requests \in Nat
      BY <3>2, RowFields
    <3> QED
      BY <1>a, <1>6, <3>1, <3>2, <3>3 DEF CountersInLog
  <2>6. DOMAIN key' = DOMAIN key
    BY <2>1
  <2> QED
    BY <2>3, <2>4, <2>5, <2>6 DEF CountersWithinLog
<1>7. ASSUME NEW h \in Handlers, UpstreamSucceeds(h) PROVE CountersWithinLog'
  <2> DEFINE i == req[h].id
             row == req[h].row
             edited == RecordSuccess(row, now)
  <2>1. h \in DOMAIN req /\ i \in KeyIds /\ row \in KeyRows /\ now \in Nat
    BY <1>7, <1>a DEF UpstreamSucceeds, TypeOK
  <2>2. /\ edited \in KeyRows
        /\ edited.total_requests = row.total_requests + 1
        /\ edited.success_requests = row.success_requests + 1
        /\ edited.fail_requests = row.fail_requests
    <3> HIDE DEF i, row
    <3> QED
      BY <2>1, SuccessIsRow
  <2>3. Finish(h, edited) /\ okLog' = [okLog EXCEPT ![i] = @ + 1] /\ failLog' = failLog
    BY <1>7 DEF UpstreamSucceeds
  <2>4. CountersInLog(i, row)
    BY <2>1 DEF CountersWithinLog
  <2> HIDE DEF i, row, edited
  <2>5. /\ okLog'[i] = okLog[i] + 1
        /\ \A j \in KeyIds : okLog[j] <= okLog'[j] /\ failLog[j] <= failLog'[j]
    BY <1>a, <2>1, <2>3, CountUp DEF TypeOK
  <2>6. /\ edited.total_requests <= okLog'[i] + failLog'[i]
        /\ edited.success_requests <= okLog'[i]
        /\ edited.fail_requests <= failLog'[i]
    BY <1>a, <2>1, <2>2, <2>3, <2>4, <2>5, RowFields DEF CountersInLog
  <2> QED
    BY <1>6, <2>1, <2>2, <2>3, <2>5, <2>6 DEF i
<1>8. ASSUME NEW h \in Handlers, NEW code \in Codes, NEW retry_after \in RetryAfters,
             UpstreamFails(h, code, retry_after)
      PROVE  CountersWithinLog'
  <2> DEFINE i == req[h].id
             row == req[h].row
             edited == RecordFailure(row, code, retry_after, now)
  <2>1. h \in DOMAIN req /\ i \in KeyIds /\ row \in KeyRows /\ now \in Nat
        /\ retry_after \in Nat
    BY <1>8, <1>a, PoolAssumption DEF UpstreamFails, TypeOK
  <2>2. /\ edited \in KeyRows
        /\ edited.total_requests = row.total_requests + 1
        /\ edited.success_requests = row.success_requests
        /\ edited.fail_requests = row.fail_requests + 1
    <3> HIDE DEF i, row
    <3> QED
      BY <2>1, FailureIsRow
  <2>3. Finish(h, edited) /\ failLog' = [failLog EXCEPT ![i] = @ + 1] /\ okLog' = okLog
    BY <1>8 DEF UpstreamFails
  <2>4. CountersInLog(i, row)
    BY <2>1 DEF CountersWithinLog
  <2> HIDE DEF i, row, edited
  <2>5. /\ failLog'[i] = failLog[i] + 1
        /\ \A j \in KeyIds : okLog[j] <= okLog'[j] /\ failLog[j] <= failLog'[j]
    BY <1>a, <2>1, <2>3, CountUp DEF TypeOK
  <2>6. /\ edited.total_requests <= okLog'[i] + failLog'[i]
        /\ edited.success_requests <= okLog'[i]
        /\ edited.fail_requests <= failLog'[i]
    BY <1>a, <2>1, <2>2, <2>3, <2>4, <2>5, RowFields DEF CountersInLog
  <2> QED
    BY <1>6, <2>1, <2>2, <2>3, <2>5, <2>6 DEF i
<1>9. ASSUME NEW h \in Handlers, MalformedAnswer(h) \/ Abandoned(h)
      PROVE  CountersWithinLog'
  BY <1>9 DEF MalformedAnswer, Abandoned, Drop, Restrict, CountersWithinLog, CountersInLog
<1>10. ASSUME NEW c \in Checkers, CommitCheck(c) PROVE CountersWithinLog'
  <2>1. DOMAIN key' = DOMAIN key /\ UNCHANGED <<req, okLog, failLog>>
    BY <1>10, CommitTypes DEF CommitCheck
  <2>2. ASSUME NEW i \in DOMAIN key PROVE CountersInLog(i, key[i])'
    BY <1>10, <2>1, CommitKeeps DEF CountersWithinLog, CountersInLog, SameButVerdict
  <2> QED
    BY <2>1, <2>2 DEF CountersWithinLog, CountersInLog
<1> QED
  BY <1>1, <1>2, <1>3, <1>4, <1>5, <1>7, <1>8, <1>9, <1>10
  DEF Next, vars, Tick, KeyManagement, Relay, HealthChecks, UploadKey, UploadAndVerify,
      ToggleRead, StartSweep, Refresh, Probe, Rollback

\* No overlap of requests, checks, toggles and deletions, on Postgres or on
\* SQLite with its reused ids, makes a key claim more requests than are logged.
THEOREM CountersSafe == Spec => []CountersWithinLog
<1>1. Init => TypeOK /\ CheckEdits /\ CountersWithinLog
  BY TypeInit, CheckEditsInit, CountersInit
<1>2. TypeOK /\ CheckEdits /\ CountersWithinLog /\ [Next]_vars
        => (TypeOK /\ CheckEdits /\ CountersWithinLog)'
  BY TypeStep, CheckEditsStep, CountersStep
<1> QED
  BY <1>1, <1>2, PTL DEF Spec

---------------------------------------------------------------------------
(* What any step does to the table, to the copies and to the log *)

\* Ids that Postgres has handed out stay below the sequence.
IdsIssued ==
    Postgres =>
        /\ \A i \in DOMAIN key : i < nextId
        /\ \A h \in DOMAIN req : req[h].id < nextId
        /\ \A a \in DOMAIN toggle : toggle[a].id < nextId
        /\ \A c \in DOMAIN check : \A i \in DOMAIN check[c].loaded : i < nextId

\* A row that stays: its identity, its switch, its status and its last use.
RowStep(j) ==
    /\ key'[j].key_hash = key[j].key_hash
    /\ \/ key'[j].is_enabled = key[j].is_enabled
       \/ \E a \in DOMAIN toggle \ DOMAIN toggle' : toggle[a].id = j
    /\ key'[j].status = "pending" => key[j].status = "pending"
    /\ key'[j].last_used_at = key[j].last_used_at \/ InFlight(j) # {}

\* A row that appears.
NewRow(j) ==
    /\ \E hash \in KeyHashes : key'[j] = NewKey(hash)
    /\ Postgres => j = nextId /\ nextId' = nextId + 1
    /\ UNCHANGED <<req, toggle, okLog, failLog>>

LEMMA FinishKeeps ==
    ASSUME TypeOK, NEW h \in DOMAIN req, NEW edited \in KeyRows, Finish(h, edited),
           edited.key_hash = req[h].row.key_hash,
           edited.is_enabled = req[h].row.is_enabled,
           edited.status \in {req[h].row.status, "unhealthy", "invalid"}
    PROVE  DOMAIN key' = DOMAIN key /\ \A j \in DOMAIN key : RowStep(j)
<1> DEFINE i == req[h].id
           row == req[h].row
<1>1. /\ row \in KeyRows /\ i \in DOMAIN key /\ key[i] \in KeyRows
      /\ DOMAIN key' = DOMAIN key
      /\ key'[i] = Flush(key[i], row, edited)
      /\ \A j \in DOMAIN key : j # i => key'[j] = key[j]
  BY FinishTypes DEF TypeOK, IsMapping
<1>2. /\ key'[i].key_hash = key[i].key_hash
      /\ key'[i].is_enabled = key[i].is_enabled
      /\ key'[i].status \in {key[i].status, "unhealthy", "invalid"}
  BY <1>1, FlushedColumns
<1>3. InFlight(i) # {}
  BY DEF InFlight
<1> QED
  BY <1>1, <1>2, <1>3 DEF RowStep

LEMMA TableStep ==
    ASSUME TypeOK, CheckEdits, IdsIssued, [Next]_vars
    PROVE  /\ \A j \in DOMAIN key \cap DOMAIN key' : RowStep(j)
           /\ \A j \in DOMAIN key' \ DOMAIN key : NewRow(j)
           /\ nextId <= nextId'
<1> DEFINE Rows == /\ DOMAIN key' \subseteq DOMAIN key
                   /\ \A j \in DOMAIN key' : RowStep(j)
<1>0. nextId \in Nat
  BY DEF TypeOK
<1>1. CASE UNCHANGED <<key, nextId>>
  BY <1>0, <1>1 DEF RowStep
<1>2. ASSUME NEW i \in KeyIds, NEW hash \in KeyHashes, Insert(i, hash)
      PROVE  /\ \A j \in DOMAIN key \cap DOMAIN key' : RowStep(j)
             /\ \A j \in DOMAIN key' \ DOMAIN key : NewRow(j)
             /\ nextId <= nextId'
  <2>1. /\ DOMAIN key' = DOMAIN key \cup {i}
        /\ key'[i] = NewKey(hash)
        /\ \A j \in DOMAIN key : j # i => key'[j] = key[j]
        /\ Postgres => i = nextId /\ nextId' = nextId + 1
        /\ ~Postgres => nextId' = nextId /\ \A j \in DOMAIN key : j < i
        /\ UNCHANGED <<req, toggle, okLog, failLog>>
    BY <1>2 DEF Insert, NewId, Put
  <2>2. DOMAIN key \subseteq Nat /\ i \in Nat
    BY KeyIdsAssumption DEF TypeOK, IsMapping
  <2>3. i \notin DOMAIN key
    BY <1>0, <2>1, <2>2, PoolAssumption DEF IdsIssued
  <2>4. \A j \in DOMAIN key : RowStep(j)
    BY <2>1, <2>3 DEF RowStep
  <2>5. NewRow(i)
    BY <2>1 DEF NewRow
  <2> QED
    BY <1>0, <2>1, <2>4, <2>5, PoolAssumption
<1>3. ASSUME NEW i \in KeyIds, DeleteKey(i) PROVE Rows /\ nextId' = nextId
  BY <1>3 DEF DeleteKey, Drop, Restrict, RowStep
<1>4. ASSUME NEW a \in Admins, ToggleCommit(a) PROVE Rows /\ nextId' = nextId
  <2>1. DOMAIN key' = DOMAIN key /\ nextId' = nextId
    BY <1>4 DEF ToggleCommit
  <2>2. a \in DOMAIN toggle \ DOMAIN toggle'
    BY <1>4 DEF ToggleCommit, Drop, Restrict
  <2>3. ASSUME NEW j \in DOMAIN key PROVE RowStep(j)
    <3>1. /\ j # toggle[a].id => key'[j] = key[j]
          /\ key'[j].key_hash = key[j].key_hash
          /\ key'[j].status = key[j].status
          /\ key'[j].last_used_at = key[j].last_used_at
      BY <1>4, ToggleKeeps
    <3> QED
      BY <2>2, <3>1 DEF RowStep
  <2> QED
    BY <2>1, <2>3
<1>5. ASSUME NEW h \in Handlers, UpstreamSucceeds(h) PROVE Rows /\ nextId' = nextId
  <2> DEFINE edited == RecordSuccess(req[h].row, now)
  <2>1. h \in DOMAIN req /\ req[h].row \in KeyRows /\ now \in Nat
    BY <1>5 DEF UpstreamSucceeds, TypeOK, IsMapping, Snapshots
  <2>2. /\ edited \in KeyRows
        /\ edited.key_hash = req[h].row.key_hash
        /\ edited.is_enabled = req[h].row.is_enabled
        /\ edited.status = req[h].row.status
    BY <2>1, SuccessIsRow
  <2>3. Finish(h, edited) /\ nextId' = nextId
    BY <1>5 DEF UpstreamSucceeds, Finish
  <2> HIDE DEF edited
  <2> QED
    BY <2>1, <2>2, <2>3, FinishKeeps
<1>6. ASSUME NEW h \in Handlers, NEW code \in Codes, NEW retry_after \in RetryAfters,
             UpstreamFails(h, code, retry_after)
      PROVE  Rows /\ nextId' = nextId
  <2> DEFINE edited == RecordFailure(req[h].row, code, retry_after, now)
  <2>1. h \in DOMAIN req /\ req[h].row \in KeyRows /\ now \in Nat /\ retry_after \in Nat
    BY <1>6, PoolAssumption DEF UpstreamFails, TypeOK, IsMapping, Snapshots
  <2>2. /\ edited \in KeyRows
        /\ edited.key_hash = req[h].row.key_hash
        /\ edited.is_enabled = req[h].row.is_enabled
        /\ edited.status \in {req[h].row.status, "unhealthy", "invalid"}
    BY <2>1, FailureIsRow
  <2>3. Finish(h, edited) /\ nextId' = nextId
    BY <1>6 DEF UpstreamFails, Finish
  <2> HIDE DEF edited
  <2> QED
    BY <2>1, <2>2, <2>3, FinishKeeps
<1>7. ASSUME NEW c \in Checkers, CommitCheck(c) PROVE Rows /\ nextId' = nextId
  <2>1. DOMAIN key' = DOMAIN key /\ nextId' = nextId
    BY <1>7, CommitTypes DEF CommitCheck
  <2>2. \A j \in DOMAIN key : SameButVerdict(key[j], key'[j])
    BY <1>7, CommitKeeps
  <2> QED
    BY <2>1, <2>2 DEF RowStep, SameButVerdict
<1> HIDE DEF Rows
<1>8. ASSUME Rows, nextId' = nextId
      PROVE  /\ \A j \in DOMAIN key \cap DOMAIN key' : RowStep(j)
             /\ \A j \in DOMAIN key' \ DOMAIN key : NewRow(j)
             /\ nextId <= nextId'
  BY <1>0, <1>8 DEF Rows
<1> QED
  BY <1>1, <1>2, <1>3, <1>4, <1>5, <1>6, <1>7, <1>8
  DEF Next, vars, Tick, KeyManagement, Relay, HealthChecks, UploadKey, UploadAndVerify,
      ToggleRead, GenerateImage, MalformedAnswer, Abandoned, StartSweep, Refresh, Probe,
      Rollback

\* A copy is an old one, or was taken in this step from a table that the step
\* leaves alone.
LEMMA CopyStep ==
    ASSUME TypeOK, [Next]_vars
    PROVE  /\ \A h \in DOMAIN req' :
                \/ h \in DOMAIN req /\ req'[h] = req[h]
                \/ /\ key' = key /\ req'[h].id \in DOMAIN key
                   /\ req'[h].row = key[req'[h].id]
                   /\ key[req'[h].id].status = "healthy"
           /\ \A a \in DOMAIN toggle' :
                \/ a \in DOMAIN toggle /\ toggle'[a] = toggle[a]
                \/ /\ key' = key /\ toggle'[a].id \in DOMAIN key
                   /\ toggle'[a].row = key[toggle'[a].id]
           /\ \A c \in DOMAIN check' : \A i \in DOMAIN check'[c].loaded :
                \/ /\ c \in DOMAIN check /\ i \in DOMAIN check[c].loaded
                   /\ check'[c].loaded[i] = check[c].loaded[i]
                \/ /\ key' = key /\ i \in DOMAIN key
                   /\ check'[c].loaded[i] = key[i]
<1> DEFINE Req == \A h \in DOMAIN req' :
                \/ h \in DOMAIN req /\ req'[h] = req[h]
                \/ /\ key' = key /\ req'[h].id \in DOMAIN key
                   /\ req'[h].row = key[req'[h].id]
                   /\ key[req'[h].id].status = "healthy"
           Toggle == \A a \in DOMAIN toggle' :
                \/ a \in DOMAIN toggle /\ toggle'[a] = toggle[a]
                \/ /\ key' = key /\ toggle'[a].id \in DOMAIN key
                   /\ toggle'[a].row = key[toggle'[a].id]
           Check == \A c \in DOMAIN check' : \A i \in DOMAIN check'[c].loaded :
                \/ /\ c \in DOMAIN check /\ i \in DOMAIN check[c].loaded
                   /\ check'[c].loaded[i] = check[c].loaded[i]
                \/ /\ key' = key /\ i \in DOMAIN key
                   /\ check'[c].loaded[i] = key[i]
<1>1. Req
  <2>1. CASE UNCHANGED req
    BY <2>1
  <2>2. ASSUME NEW h \in Handlers, NEW i \in KeyIds, GenerateImage(h, i) PROVE Req
    BY <2>2 DEF GenerateImage, Candidates, Selectable, Put
  <2>3. ASSUME NEW h \in Handlers, req' = Drop(req, h) PROVE Req
    BY <2>3 DEF Drop, Restrict
  <2> QED
    BY <2>1, <2>2, <2>3
    DEF Next, vars, Tick, KeyManagement, Relay, HealthChecks, UploadKey, UploadAndVerify,
        Insert, DeleteKey, ToggleRead, ToggleCommit, UpstreamSucceeds, UpstreamFails,
        Finish, MalformedAnswer, Abandoned, StartSweep, Refresh, Probe, CommitCheck,
        Rollback
<1>2. Toggle
  <2>1. CASE UNCHANGED toggle
    BY <2>1
  <2>2. ASSUME NEW a \in Admins, NEW i \in KeyIds, ToggleRead(a, i) PROVE Toggle
    BY <2>2 DEF ToggleRead, Put
  <2>3. ASSUME NEW a \in Admins, ToggleCommit(a) PROVE Toggle
    BY <2>3 DEF ToggleCommit, Drop, Restrict
  <2> QED
    BY <2>1, <2>2, <2>3
    DEF Next, vars, Tick, KeyManagement, Relay, HealthChecks, UploadKey, UploadAndVerify,
        Insert, DeleteKey, GenerateImage, UpstreamSucceeds, UpstreamFails, Finish,
        MalformedAnswer, Abandoned, StartSweep, Refresh, Probe, CommitCheck, Rollback
<1>3. Check
  <2>1. CASE UNCHANGED check
    BY <2>1
  <2>2. ASSUME NEW i \in KeyIds, NEW hash \in KeyHashes, NEW c \in Checkers,
               UploadAndVerify(i, hash, c)
        PROVE  Check
    BY <2>2, EmptyIsMapping DEF UploadAndVerify, Put
  <2>3. ASSUME NEW c \in Checkers, StartSweep(c) PROVE Check
    BY <2>3 DEF StartSweep, Put, Restrict, Enabled
  <2>4. ASSUME NEW c \in Checkers, Refresh(c) PROVE Check
    <3>1. PICK i \in check[c].todo \ DOMAIN check[c].loaded :
            /\ i \in DOMAIN key
            /\ check' = [check EXCEPT ![c].loaded = Restrict(key, {i}),
                                      ![c].edited = Restrict(key, {i})]
      BY <2>4 DEF Refresh
    <3>2. c \in DOMAIN check /\ CheckStates(check[c]) /\ key' = key
      BY <2>4 DEF Refresh, TypeOK
    <3>3. /\ DOMAIN check' = DOMAIN check
          /\ check'[c].loaded = Restrict(key, {i})
          /\ \A d \in DOMAIN check : d # c => check'[d] = check[d]
      BY <3>1, <3>2 DEF CheckStates
    <3>4. DOMAIN check'[c].loaded = {i} /\ check'[c].loaded[i] = key[i]
      BY <3>3 DEF Restrict
    <3> QED
      BY <3>1, <3>2, <3>3, <3>4
  <2>5. ASSUME NEW c \in Checkers, NEW i \in KeyIds, NEW verdict \in Verdicts,
               Probe(c, i, verdict)
        PROVE  Check
    <3>1. c \in DOMAIN check /\ CheckStates(check[c])
      BY <2>5 DEF Probe, TypeOK
    <3>2. /\ DOMAIN check' = DOMAIN check
          /\ check'[c].loaded = check[c].loaded
          /\ \A d \in DOMAIN check : d # c => check'[d] = check[d]
      BY <2>5, <3>1 DEF Probe, CheckStates
    <3>3. \A d \in DOMAIN check : check'[d].loaded = check[d].loaded
      BY <3>2
    <3> QED
      BY <3>2, <3>3
  <2>6. ASSUME NEW c \in Checkers, CommitCheck(c) \/ Rollback(c) PROVE Check
    BY <2>6 DEF CommitCheck, Rollback, Drop, Restrict
  <2> QED
    BY <2>1, <2>2, <2>3, <2>4, <2>5, <2>6
    DEF Next, vars, Tick, KeyManagement, Relay, HealthChecks, UploadKey, DeleteKey,
        ToggleRead, ToggleCommit, GenerateImage, UpstreamSucceeds, UpstreamFails, Finish,
        MalformedAnswer, Abandoned
<1> QED
  BY <1>1, <1>2, <1>3

\* The log grows only for a key that a request is in progress with and that is
\* stored; on Postgres a key with a log is not deleted.
LEMMA LogStep ==
    ASSUME TypeOK, [Next]_vars
    PROVE  /\ \A j \in KeyIds :
                \/ okLog'[j] = okLog[j] /\ failLog'[j] = failLog[j]
                \/ InFlight(j) # {} /\ j \in DOMAIN key /\ j \in DOMAIN key'
           /\ \A j \in DOMAIN key \ DOMAIN key' :
                /\ Postgres => okLog[j] + failLog[j] = 0
                /\ UNCHANGED <<okLog, failLog>>
<1> DEFINE Logs == \A j \in KeyIds :
                \/ okLog'[j] = okLog[j] /\ failLog'[j] = failLog[j]
                \/ InFlight(j) # {} /\ j \in DOMAIN key /\ j \in DOMAIN key'
<1>1. CASE UNCHANGED <<key, okLog, failLog>>
  BY <1>1
<1>2. ASSUME NEW i \in KeyIds, NEW hash \in KeyHashes, Insert(i, hash)
      PROVE  Logs /\ DOMAIN key \subseteq DOMAIN key'
  BY <1>2 DEF Insert, Put
<1>3. ASSUME NEW i \in KeyIds, DeleteKey(i)
      PROVE  /\ Logs
             /\ \A j \in DOMAIN key \ DOMAIN key' :
                  (Postgres => okLog[j] + failLog[j] = 0) /\ UNCHANGED <<okLog, failLog>>
  BY <1>3 DEF DeleteKey, Drop, Restrict
<1>4. ASSUME NEW a \in Admins, ToggleCommit(a)
      PROVE  Logs /\ DOMAIN key \subseteq DOMAIN key'
  BY <1>4 DEF ToggleCommit
<1>5. ASSUME NEW h \in DOMAIN req, NEW edited, Finish(h, edited),
             \A j \in KeyIds : j # req[h].id =>
                 okLog'[j] = okLog[j] /\ failLog'[j] = failLog[j]
      PROVE  Logs /\ DOMAIN key \subseteq DOMAIN key'
  BY <1>5 DEF Finish, InFlight
<1>6. ASSUME NEW h \in Handlers, UpstreamSucceeds(h)
      PROVE  Logs /\ DOMAIN key \subseteq DOMAIN key'
  <2>1. /\ h \in DOMAIN req /\ Finish(h, RecordSuccess(req[h].row, now))
        /\ \A j \in KeyIds : j # req[h].id =>
              okLog'[j] = okLog[j] /\ failLog'[j] = failLog[j]
    BY <1>6 DEF UpstreamSucceeds, TypeOK
  <2> QED
    BY <1>5, <2>1
<1>7. ASSUME NEW h \in Handlers, NEW code \in Codes, NEW retry_after \in RetryAfters,
             UpstreamFails(h, code, retry_after)
      PROVE  Logs /\ DOMAIN key \subseteq DOMAIN key'
  <2>1. /\ h \in DOMAIN req
        /\ Finish(h, RecordFailure(req[h].row, code, retry_after, now))
        /\ \A j \in KeyIds : j # req[h].id =>
              okLog'[j] = okLog[j] /\ failLog'[j] = failLog[j]
    BY <1>7 DEF UpstreamFails, TypeOK
  <2> QED
    BY <1>5, <2>1
<1>8. ASSUME NEW c \in Checkers, CommitCheck(c)
      PROVE  Logs /\ DOMAIN key \subseteq DOMAIN key'
  BY <1>8, CommitTypes DEF CommitCheck
<1> QED
  BY <1>1, <1>2, <1>3, <1>4, <1>6, <1>7, <1>8
  DEF Next, vars, Tick, KeyManagement, Relay, HealthChecks, UploadKey, UploadAndVerify,
      ToggleRead, GenerateImage, MalformedAnswer, Abandoned, StartSweep, Refresh, Probe,
      Rollback

---------------------------------------------------------------------------
(* An administrator's switch *)

LEMMA IdsIssuedInit == Init => IdsIssued
BY EmptyIsMapping DEF Init, IdsIssued

LEMMA IdsIssuedStep == TypeOK /\ CheckEdits /\ IdsIssued /\ [Next]_vars => IdsIssued'
<1> SUFFICES ASSUME TypeOK, CheckEdits, IdsIssued, [Next]_vars, Postgres
             PROVE  /\ \A i \in DOMAIN key' : i < nextId'
                    /\ \A h \in DOMAIN req' : req'[h].id < nextId'
                    /\ \A a \in DOMAIN toggle' : toggle'[a].id < nextId'
                    /\ \A c \in DOMAIN check' :
                         \A i \in DOMAIN check'[c].loaded : i < nextId'
  BY DEF IdsIssued
<1>1. nextId \in Nat /\ nextId' \in Nat /\ nextId <= nextId'
  BY TableStep, TypeStep DEF TypeOK
<1>2. /\ DOMAIN key \subseteq Nat
      /\ \A h \in DOMAIN req : req[h].id \in Nat
      /\ \A a \in DOMAIN toggle : toggle[a].id \in Nat
      /\ \A c \in DOMAIN check : DOMAIN check[c].loaded \subseteq Nat
  BY KeyIdsAssumption DEF TypeOK, IsMapping, Snapshots, CheckStates
<1>3. \A i \in DOMAIN key : i < nextId'
  BY <1>1, <1>2 DEF IdsIssued
<1>4. \A i \in DOMAIN key' : i < nextId'
  BY <1>1, <1>3, TableStep DEF NewRow
<1>5. \A h \in DOMAIN req' : req'[h].id < nextId'
  BY <1>1, <1>2, <1>3, CopyStep DEF IdsIssued
<1>6. \A a \in DOMAIN toggle' : toggle'[a].id < nextId'
  BY <1>1, <1>2, <1>3, CopyStep DEF IdsIssued
<1>7. \A c \in DOMAIN check' : \A i \in DOMAIN check'[c].loaded : i < nextId'
  BY <1>1, <1>2, <1>3, CopyStep DEF IdsIssued
<1> QED
  BY <1>4, <1>5, <1>6, <1>7

\* The invariant that all theorems below rest on.
PoolInv == TypeOK /\ CheckEdits /\ IdsIssued

LEMMA PoolInvHolds == Spec => []PoolInv
<1>1. Init => PoolInv
  BY TypeInit, CheckEditsInit, IdsIssuedInit DEF PoolInv
<1>2. PoolInv /\ [Next]_vars => PoolInv'
  BY TypeStep, CheckEditsStep, IdsIssuedStep DEF PoolInv
<1> QED
  BY <1>1, <1>2, PTL DEF Spec

\* A switch set by an administrator is moved by a toggle only, on both
\* databases: no request or check in progress writes the flag it loaded back.
THEOREM SwitchSafe == Spec => OnlyToggleSwitches
<1>1. PoolInv /\ [Next]_vars =>
        [\A i \in DOMAIN key \cap DOMAIN key' :
           key'[i].is_enabled # key[i].is_enabled =>
               \E a \in DOMAIN toggle \ DOMAIN toggle' : toggle[a].id = i]_vars
  BY TableStep DEF PoolInv, RowStep
<1> QED
  BY <1>1, PoolInvHolds, PTL DEF Spec, OnlyToggleSwitches

---------------------------------------------------------------------------
(* Identity: a copy is of the key that has its id *)

LEMMA CopiesStep ==
    Postgres /\ PoolInv /\ CopiesAreOfTheStoredKey /\ [Next]_vars
        => CopiesAreOfTheStoredKey'
<1> SUFFICES ASSUME Postgres, PoolInv, CopiesAreOfTheStoredKey, [Next]_vars
             PROVE  CopiesAreOfTheStoredKey'
  OBVIOUS
<1> USE DEF PoolInv
<1>1. \A j \in DOMAIN key \cap DOMAIN key' : key'[j].key_hash = key[j].key_hash
  BY TableStep DEF RowStep
<1>2. \A j \in DOMAIN key' \ DOMAIN key : j = nextId
  BY TableStep DEF NewRow
<1>3. nextId \in Nat
  BY DEF TypeOK
<1>4. ASSUME NEW h \in DOMAIN req', req'[h].id \in DOMAIN key'
      PROVE  key'[req'[h].id].key_hash = req'[h].row.key_hash
  <2>1. CASE h \in DOMAIN req /\ req'[h] = req[h]
    <3>1. req[h].id \in DOMAIN key
      BY <1>2, <1>3, <1>4, <2>1 DEF IdsIssued
    <3> QED
      BY <1>1, <1>4, <2>1, <3>1 DEF CopiesAreOfTheStoredKey
  <2>2. CASE /\ key' = key /\ req'[h].id \in DOMAIN key
             /\ req'[h].row = key[req'[h].id]
    BY <2>2
  <2> QED
    BY <2>1, <2>2, CopyStep
<1>5. ASSUME NEW a \in DOMAIN toggle', toggle'[a].id \in DOMAIN key'
      PROVE  key'[toggle'[a].id].key_hash = toggle'[a].row.key_hash
  <2>1. CASE a \in DOMAIN toggle /\ toggle'[a] = toggle[a]
    <3>1. toggle[a].id \in DOMAIN key
      BY <1>2, <1>3, <1>5, <2>1 DEF IdsIssued
    <3> QED
      BY <1>1, <1>5, <2>1, <3>1 DEF CopiesAreOfTheStoredKey
  <2>2. CASE /\ key' = key /\ toggle'[a].id \in DOMAIN key
             /\ toggle'[a].row = key[toggle'[a].id]
    BY <2>2
  <2> QED
    BY <2>1, <2>2, CopyStep
<1>6. ASSUME NEW c \in DOMAIN check', NEW i \in DOMAIN check'[c].loaded \cap DOMAIN key'
      PROVE  key'[i].key_hash = check'[c].loaded[i].key_hash
  <2>1. CASE /\ c \in DOMAIN check /\ i \in DOMAIN check[c].loaded
             /\ check'[c].loaded[i] = check[c].loaded[i]
    <3>1. i \in DOMAIN key
      BY <1>2, <1>3, <1>6, <2>1 DEF IdsIssued
    <3> QED
      BY <1>1, <1>6, <2>1, <3>1 DEF CopiesAreOfTheStoredKey
  <2>2. CASE key' = key /\ i \in DOMAIN key /\ check'[c].loaded[i] = key[i]
    BY <2>2
  <2> QED
    BY <2>1, <2>2, CopyStep
<1> QED
  BY <1>4, <1>5, <1>6 DEF CopiesAreOfTheStoredKey

\* On Postgres no commit reaches a row of another key, although it addresses
\* the row by id alone and nothing is locked across the await.
THEOREM IdentitySafe == ASSUME Postgres PROVE Spec => []CopiesAreOfTheStoredKey
<1>1. Init => CopiesAreOfTheStoredKey
  BY EmptyIsMapping DEF Init, CopiesAreOfTheStoredKey
<1>2. PoolInv /\ CopiesAreOfTheStoredKey /\ [Next]_vars => CopiesAreOfTheStoredKey'
  BY CopiesStep
<1> QED
  BY <1>1, <1>2, PoolInvHolds, PTL DEF Spec

---------------------------------------------------------------------------
(* The log refers to stored keys, and an unchecked key has none *)

LEMMA LogsStep ==
    Postgres /\ PoolInv /\ LogsReferToKeys /\ [Next]_vars => LogsReferToKeys'
<1> SUFFICES ASSUME Postgres, PoolInv, LogsReferToKeys, [Next]_vars,
                    NEW j \in KeyIds, okLog'[j] + failLog'[j] > 0
             PROVE  j \in DOMAIN key'
  BY DEF LogsReferToKeys
<1>1. CASE InFlight(j) # {} /\ j \in DOMAIN key /\ j \in DOMAIN key'
  BY <1>1
<1>2. CASE okLog'[j] = okLog[j] /\ failLog'[j] = failLog[j]
  <2>1. okLog[j] \in Nat /\ failLog[j] \in Nat
    BY DEF PoolInv, TypeOK
  <2>2. j \in DOMAIN key
    BY <1>2 DEF LogsReferToKeys
  <2> QED
    BY <1>2, <2>1, <2>2, LogStep DEF PoolInv
<1> QED
  BY <1>1, <1>2, LogStep DEF PoolInv

\* On Postgres the log never refers to a key that is gone.
THEOREM ReferencesSafe == ASSUME Postgres PROVE Spec => []LogsReferToKeys
<1>1. Init => LogsReferToKeys
  BY DEF Init, LogsReferToKeys
<1>2. PoolInv /\ LogsReferToKeys /\ [Next]_vars => LogsReferToKeys'
  BY LogsStep
<1> QED
  BY <1>1, <1>2, PoolInvHolds, PTL DEF Spec

LEMMA PendingStep ==
    Postgres /\ PoolInv /\ LogsReferToKeys /\ PendingKeysAreUnused /\ [Next]_vars
        => PendingKeysAreUnused'
<1> SUFFICES ASSUME Postgres, PoolInv, LogsReferToKeys, PendingKeysAreUnused,
                    [Next]_vars,
                    NEW j \in DOMAIN key', key'[j].status = "pending"
             PROVE  (/\ okLog[j] + failLog[j] = 0
                     /\ InFlight(j) = {}
                     /\ key[j].last_used_at = Never)'
  BY DEF PendingKeysAreUnused
<1> USE DEF PoolInv
<1>1. j \in KeyIds /\ okLog[j] \in Nat /\ failLog[j] \in Nat
  BY TypeStep DEF TypeOK, IsMapping
<1>2. CASE j \in DOMAIN key
  <2>1. RowStep(j)
    BY <1>2, TableStep
  <2>2. key[j].status = "pending"
    BY <2>1 DEF RowStep
  <2>3. /\ okLog[j] + failLog[j] = 0
        /\ InFlight(j) = {}
        /\ key[j].last_used_at = Never
    BY <1>2, <2>2 DEF PendingKeysAreUnused
  <2>4. okLog'[j] = okLog[j] /\ failLog'[j] = failLog[j]
    BY <1>1, <2>3, LogStep
  <2>5. \A h \in DOMAIN req' : req'[h].id # j
    BY <2>2, <2>3, CopyStep DEF InFlight
  <2> QED
    BY <2>1, <2>3, <2>4, <2>5 DEF RowStep, InFlight
<1>3. CASE j \notin DOMAIN key
  <2>1. NewRow(j)
    BY <1>3, TableStep
  <2>2. okLog[j] + failLog[j] = 0
    BY <1>1, <1>3 DEF LogsReferToKeys
  <2>3. \A h \in DOMAIN req : req[h].id # j
    <3>1. j = nextId /\ nextId \in Nat
      BY <2>1 DEF NewRow, TypeOK
    <3> QED
      BY <3>1 DEF IdsIssued
  <2>4. key'[j].last_used_at = Never
    BY <2>1 DEF NewRow, NewKey
  <2> QED
    BY <2>1, <2>2, <2>3, <2>4 DEF NewRow, InFlight
<1> QED
  BY <1>2, <1>3

\* On Postgres a key that no check has ruled on has carried no traffic, and
\* stays so whatever stale copies are written back.
THEOREM PendingSafe == ASSUME Postgres PROVE Spec => []PendingKeysAreUnused
<1>1. Init => PendingKeysAreUnused
  BY EmptyIsMapping DEF Init, PendingKeysAreUnused
<1>2. PoolInv /\ LogsReferToKeys /\ PendingKeysAreUnused /\ [Next]_vars
        => PendingKeysAreUnused'
  BY PendingStep
<1>3. Spec => []LogsReferToKeys
  BY ReferencesSafe
<1> QED
  BY <1>1, <1>2, <1>3, PoolInvHolds, PTL DEF Spec

---------------------------------------------------------------------------
(* Cooldowns *)

\* An answer is written to row j: the instant of use, and the cooldown it asks for.
Answered(h, j) ==
    /\ h \in DOMAIN req /\ req[h].id = j /\ now' = now
    /\ key'[j].last_used_at =
         IF req[h].row.last_used_at = now THEN key[j].last_used_at ELSE now
    /\ \/ key'[j].cooldown_until \in {key[j].cooldown_until, Never}
       \/ \E pause \in RetryAfters \cup {CooldownMax} :
            key'[j].cooldown_until <= now + pause

UseStep(j) ==
    \/ /\ key'[j].last_used_at = key[j].last_used_at
       /\ key'[j].cooldown_until = key[j].cooldown_until
    \/ \E h : Answered(h, j)

\* The columns that a commit of an answered request decides about the next use by
LEMMA FinishUse ==
    ASSUME TypeOK, NEW h \in DOMAIN req, NEW edited \in KeyRows, Finish(h, edited)
    PROVE  LET j == req[h].id
           IN  /\ j \in DOMAIN key /\ now' = now
               /\ \A i \in DOMAIN key \ {j} : key'[i] = key[i]
               /\ key'[j].last_used_at =
                    IF edited.last_used_at = req[h].row.last_used_at
                    THEN key[j].last_used_at ELSE edited.last_used_at
               /\ key'[j].cooldown_until =
                    IF edited.cooldown_until = req[h].row.cooldown_until
                    THEN key[j].cooldown_until ELSE edited.cooldown_until
<1> DEFINE j == req[h].id
<1>1. /\ req[h].row \in KeyRows /\ j \in DOMAIN key /\ key[j] \in KeyRows
      /\ key'[j] = Flush(key[j], req[h].row, edited)
      /\ \A i \in DOMAIN key : i # j => key'[i] = key[i]
      /\ now' = now
  BY FinishTypes DEF TypeOK, IsMapping
<1> HIDE DEF j
<1>2. /\ key'[j].last_used_at =
           IF edited.last_used_at = req[h].row.last_used_at
           THEN key[j].last_used_at ELSE edited.last_used_at
      /\ key'[j].cooldown_until =
           IF edited.cooldown_until = req[h].row.cooldown_until
           THEN key[j].cooldown_until ELSE edited.cooldown_until
  BY <1>1, FlushedColumns
<1> QED
  BY <1>1, <1>2 DEF j

LEMMA NextUse ==
    ASSUME TypeOK, CheckEdits, IdsIssued, CooldownMax > 0, [Next]_vars,
           NEW j \in DOMAIN key \cap DOMAIN key'
    PROVE  UseStep(j)
<1>1. CASE UNCHANGED key
  BY <1>1 DEF UseStep
<1>2. ASSUME NEW i \in KeyIds, NEW hash \in KeyHashes, Insert(i, hash) PROVE UseStep(j)
  <2>1. /\ key' = Put(key, i, NewKey(hash))
        /\ Postgres => i = nextId
        /\ ~Postgres => \A k \in DOMAIN key : k < i
    BY <1>2 DEF Insert, NewId
  <2>2. DOMAIN key \subseteq Nat /\ i \in Nat /\ nextId \in Nat
    BY KeyIdsAssumption DEF TypeOK, IsMapping
  <2>3. i \notin DOMAIN key
    BY <2>1, <2>2, PoolAssumption DEF IdsIssued
  <2> QED
    BY <2>1, <2>3 DEF Put, UseStep
<1>3. ASSUME NEW i \in KeyIds, DeleteKey(i) PROVE UseStep(j)
  BY <1>3 DEF DeleteKey, Drop, Restrict, UseStep
<1>4. ASSUME NEW a \in Admins, ToggleCommit(a) PROVE UseStep(j)
  BY <1>4, ToggleKeeps DEF UseStep
<1>5. ASSUME NEW h \in Handlers, UpstreamSucceeds(h) PROVE UseStep(j)
  <2> DEFINE edited == RecordSuccess(req[h].row, now)
  <2>1. h \in DOMAIN req /\ req[h].row \in KeyRows /\ now \in Nat
    BY <1>5 DEF UpstreamSucceeds, TypeOK, IsMapping, Snapshots
  <2>2. edited \in KeyRows /\ edited.last_used_at = now /\ edited.cooldown_until = Never
    BY <2>1, SuccessIsRow
  <2>3. Finish(h, edited)
    BY <1>5 DEF UpstreamSucceeds
  <2> HIDE DEF edited
  <2>4. CASE req[h].id # j
    BY <2>1, <2>2, <2>3, <2>4, FinishUse DEF UseStep
  <2>5. CASE req[h].id = j
    <3>1. Answered(h, j)
      BY <2>1, <2>2, <2>3, <2>5, FinishUse DEF Answered
    <3> QED
      BY <3>1 DEF UseStep
  <2> QED
    BY <2>4, <2>5
<1>6. ASSUME NEW h \in Handlers, NEW code \in Codes, NEW retry_after \in RetryAfters,
             UpstreamFails(h, code, retry_after)
      PROVE  UseStep(j)
  <2> DEFINE row == req[h].row
             edited == RecordFailure(row, code, retry_after, now)
             seconds == CooldownSeconds(row, code, retry_after)
  <2>1. h \in DOMAIN req /\ row \in KeyRows /\ now \in Nat /\ retry_after \in Nat
    BY <1>6, PoolAssumption DEF UpstreamFails, TypeOK, IsMapping, Snapshots
  <2>2. seconds \in Nat /\ (seconds <= CooldownMax \/ seconds = retry_after)
    BY <2>1, CooldownSecondsIsNat, CooldownSecondsBounded
  <2>3. /\ edited \in KeyRows /\ edited.last_used_at = now
        /\ edited.cooldown_until = SetKeyCooldown(row.cooldown_until, seconds, now)
    BY <2>1, FailureIsRow, FailureEdits
  <2>4. Finish(h, edited)
    BY <1>6 DEF UpstreamFails
  <2> HIDE DEF edited, seconds
  <2>5. edited.cooldown_until # row.cooldown_until => edited.cooldown_until = now + seconds
    BY <2>3 DEF SetKeyCooldown, AtLeast
  <2>6. CASE req[h].id # j
    BY <2>1, <2>3, <2>4, <2>6, FinishUse DEF UseStep
  <2>7. CASE req[h].id = j
    <3>1. \E pause \in RetryAfters \cup {CooldownMax} : now + seconds <= now + pause
      BY <2>1, <2>2, CooldownAssumption
    <3>2. Answered(h, j)
      BY <2>1, <2>3, <2>4, <2>5, <2>7, <3>1, FinishUse DEF Answered
    <3> QED
      BY <3>2 DEF UseStep
  <2> QED
    BY <2>6, <2>7
<1>7. ASSUME NEW c \in Checkers, CommitCheck(c) PROVE UseStep(j)
  BY <1>7, CommitKeeps DEF SameButVerdict, UseStep
<1> QED
  BY <1>1, <1>2, <1>3, <1>4, <1>5, <1>6, <1>7
  DEF Next, vars, Tick, KeyManagement, Relay, HealthChecks, UploadKey, UploadAndVerify,
      ToggleRead, GenerateImage, MalformedAnswer, Abandoned, StartSweep, Refresh, Probe,
      Rollback

LEMMA NowStep == ASSUME TypeOK, [Next]_vars PROVE now \in Nat /\ now' \in Nat /\ now <= now'
<1>1. now \in Nat
  BY DEF TypeOK
<1>2. KeyManagement => UNCHANGED now
  BY DEF KeyManagement, UploadKey, UploadAndVerify, Insert, DeleteKey, ToggleRead,
         ToggleCommit
<1>3. ASSUME NEW h, NEW edited, Finish(h, edited) PROVE UNCHANGED now
  BY <1>3 DEF Finish
<1>4. Relay => UNCHANGED now
  BY <1>3 DEF Relay, GenerateImage, UpstreamSucceeds, UpstreamFails, MalformedAnswer,
              Abandoned
<1>5. ASSUME NEW c, CommitCheck(c) PROVE UNCHANGED now
  BY <1>5 DEF CommitCheck
<1>6. HealthChecks => UNCHANGED now
  BY <1>5 DEF HealthChecks, StartSweep, Refresh, Probe, Rollback
<1> QED
  BY <1>1, <1>2, <1>4, <1>6 DEF Next, vars, Tick

\* No use of a key is later than now, and no copy of a key knows of a later one than
\* the key: a key is used when its request is answered, so a copy that goes back
\* cannot take last_used_at back.
UsesInOrder ==
    /\ \A i \in DOMAIN key : key[i].last_used_at <= now
    /\ \A h \in DOMAIN req :
         /\ req[h].row.last_used_at <= now
         /\ req[h].id \in DOMAIN key =>
              req[h].row.last_used_at <= key[req[h].id].last_used_at

LEMMA UsesTyped ==
    ASSUME TypeOK
    PROVE  /\ \A i \in DOMAIN key : key[i].last_used_at \in Int /\ key[i].cooldown_until \in Int
           /\ \A h \in DOMAIN req : /\ req[h].row.last_used_at \in Int
                                    /\ req[h].row.cooldown_until \in Int
<1>1. /\ \A i \in DOMAIN key : key[i] \in KeyRows
      /\ \A h \in DOMAIN req : req[h].row \in KeyRows
  BY DEF TypeOK, IsMapping, Snapshots
<1> QED
  BY <1>1, RowFields DEF Times, Never

\* A step uses a key now or leaves its last use.
LEMMA UsesStay ==
    ASSUME CooldownMax > 0, PoolInv, \A i \in DOMAIN key : key[i].last_used_at <= now,
           [Next]_vars, NEW j \in DOMAIN key'
    PROVE  /\ key'[j].last_used_at <= now /\ key'[j].last_used_at <= now'
           /\ j \in DOMAIN key => key[j].last_used_at <= key'[j].last_used_at
<1> USE DEF PoolInv
<1>1. now \in Nat /\ now' \in Nat /\ now <= now'
  BY NowStep
<1>2. CASE j \in DOMAIN key
  <2>1. key'[j].last_used_at \in {key[j].last_used_at, now}
    BY <1>2, NextUse DEF UseStep, Answered
  <2>2. key[j].last_used_at <= now /\ key[j].last_used_at \in Int
    BY <1>2, UsesTyped
  <2> QED
    BY <1>1, <2>1, <2>2
<1>3. CASE j \notin DOMAIN key
  <2>1. key'[j].last_used_at = -1
    BY <1>3, TableStep DEF NewRow, NewKey, Never
  <2> QED
    BY <1>1, <1>3, <2>1
<1> QED
  BY <1>2, <1>3

LEMMA UsesStep ==
    ASSUME Postgres, CooldownMax > 0, PoolInv, PoolInv', UsesInOrder, [Next]_vars
    PROVE  UsesInOrder'
<1> USE DEF PoolInv
<1>1. now \in Nat /\ now' \in Nat /\ now <= now'
  BY NowStep
<1>2. ASSUME NEW j \in DOMAIN key'
      PROVE  /\ key'[j].last_used_at <= now
             /\ j \in DOMAIN key => key[j].last_used_at <= key'[j].last_used_at
  BY <1>2, UsesStay DEF UsesInOrder
<1>3. \A j \in DOMAIN key' : key'[j].last_used_at \in Int
  <2>1. TypeOK'
    BY TypeStep
  <2>2. \A j \in DOMAIN key' : key'[j] \in KeyRows
    BY <2>1 DEF TypeOK, IsMapping
  <2> QED
    BY <2>2, RowFields DEF Times, Never
<1>4. ASSUME NEW h \in DOMAIN req'
      PROVE  /\ req'[h].row.last_used_at <= now'
             /\ req'[h].id \in DOMAIN key' =>
                  req'[h].row.last_used_at <= key'[req'[h].id].last_used_at
  <2>1. CASE h \in DOMAIN req /\ req'[h] = req[h]
    <3>1. req[h].row.last_used_at <= now /\ req[h].row.last_used_at \in Int
      BY <2>1, UsesTyped DEF UsesInOrder
    <3>2. ASSUME req[h].id \in DOMAIN key'
          PROVE  req[h].row.last_used_at <= key'[req[h].id].last_used_at
      <4>1. req[h].id \in DOMAIN key
        <5>1. req[h].id < nextId /\ nextId \in Nat
          BY <2>1 DEF IdsIssued, TypeOK
        <5> QED
          BY <3>2, <5>1, TableStep DEF NewRow
      <4>2. /\ req[h].row.last_used_at <= key[req[h].id].last_used_at
            /\ key[req[h].id].last_used_at \in Int
        BY <2>1, <4>1, UsesTyped DEF UsesInOrder
      <4> QED
        BY <1>2, <1>3, <3>1, <3>2, <4>1, <4>2
    <3> QED
      BY <1>1, <2>1, <3>1, <3>2
  <2>2. CASE /\ key' = key /\ req'[h].id \in DOMAIN key
             /\ req'[h].row = key[req'[h].id]
    <3>1. req'[h].row.last_used_at <= now /\ req'[h].row.last_used_at \in Int
      BY <2>2, UsesTyped DEF UsesInOrder
    <3> QED
      BY <1>1, <2>2, <3>1
  <2> QED
    BY <2>1, <2>2, CopyStep
<1>5. \A j \in DOMAIN key' : key'[j].last_used_at <= now'
  BY <1>1, <1>2, <1>3
<1> QED
  BY <1>4, <1>5 DEF UsesInOrder

\* With a pause between the uses of a key, what a request knows of its last use is
\* over when it is chosen, and stays so, whichever key has the id by then.
UsesArePast ==
    /\ \A i \in DOMAIN key : key[i].last_used_at <= now
    /\ \A h \in DOMAIN req : req[h].row.last_used_at < now

LEMMA ChosenIsPast ==
    ASSUME TypeOK, KeyCooldown > 0, [Next]_vars, NEW h \in DOMAIN req'
    PROVE  \/ h \in DOMAIN req /\ req'[h] = req[h]
           \/ now' = now /\ req'[h].row.last_used_at < now
<1> DEFINE Past == \/ h \in DOMAIN req /\ req'[h] = req[h]
                   \/ now' = now /\ req'[h].row.last_used_at < now
<1>1. CASE UNCHANGED req
  BY <1>1
<1>2. ASSUME NEW g \in Handlers, NEW i \in KeyIds, GenerateImage(g, i) PROVE Past
  <2>1. /\ req' = Put(req, g, [id |-> i, row |-> key[i]]) /\ now' = now
        /\ i \in DOMAIN key
        /\ key[i].last_used_at = Never \/ key[i].last_used_at <= now - KeyCooldown
    BY <1>2 DEF GenerateImage, Candidates, Selectable
  <2>2. key[i].last_used_at < now
    BY <2>1, UsesTyped, PoolAssumption DEF TypeOK, Never
  <2>3. CASE h = g
    <3>1. req'[h].row = key[i]
      BY <2>1, <2>3 DEF Put
    <3> QED
      BY <2>1, <2>2, <3>1
  <2>4. CASE h # g
    BY <2>1, <2>4 DEF Put
  <2> QED
    BY <2>3, <2>4
<1>3. ASSUME NEW g \in Handlers, req' = Drop(req, g) PROVE Past
  BY <1>3 DEF Drop, Restrict
<1> QED
  BY <1>1, <1>2, <1>3
  DEF Next, vars, Tick, KeyManagement, Relay, HealthChecks, UploadKey, UploadAndVerify,
      Insert, DeleteKey, ToggleRead, ToggleCommit, UpstreamSucceeds, UpstreamFails,
      Finish, MalformedAnswer, Abandoned, StartSweep, Refresh, Probe, CommitCheck,
      Rollback

LEMMA PastStep ==
    ASSUME KeyCooldown > 0, CooldownMax > 0, PoolInv, UsesArePast, [Next]_vars
    PROVE  UsesArePast'
<1> USE DEF PoolInv
<1>1. now \in Nat /\ now' \in Nat /\ now <= now'
  BY NowStep
<1>2. \A j \in DOMAIN key' : key'[j].last_used_at <= now'
  BY UsesStay DEF UsesArePast
<1>3. ASSUME NEW h \in DOMAIN req' PROVE req'[h].row.last_used_at < now'
  <2>1. CASE h \in DOMAIN req /\ req'[h] = req[h]
    <3>1. req[h].row.last_used_at < now /\ req[h].row.last_used_at \in Int
      BY <2>1, UsesTyped DEF UsesArePast
    <3> QED
      BY <1>1, <2>1, <3>1
  <2>2. CASE now' = now /\ req'[h].row.last_used_at < now
    BY <2>2
  <2> QED
    BY <2>1, <2>2, ChosenIsPast
<1> QED
  BY <1>2, <1>3 DEF UsesArePast

\* An answer to a request that knows of no use at this moment moves last_used_at to it.
MovesUse(h, j) ==
    /\ key[j].last_used_at <= now
    /\ req[h].row.last_used_at = now => key[j].last_used_at = now

LEMMA CooldownStep ==
    ASSUME CooldownMax > 0, PoolInv, CooldownEndsInTime, [Next]_vars,
           \A h \in DOMAIN req : req[h].id \in DOMAIN key => MovesUse(h, req[h].id)
    PROVE  CooldownEndsInTime'
<1> USE DEF PoolInv
<1> SUFFICES ASSUME NEW j \in DOMAIN key', key'[j].cooldown_until # Never
             PROVE  \E pause \in RetryAfters \cup {CooldownMax} :
                      key'[j].cooldown_until <= key'[j].last_used_at + pause
  BY DEF CooldownEndsInTime
<1>1. now \in Nat /\ RetryAfters \cup {CooldownMax} \subseteq Int
  BY PoolAssumption, CooldownAssumption DEF TypeOK
<1>2. CASE j \notin DOMAIN key
  BY <1>2, TableStep DEF NewRow, NewKey
<1>3. ASSUME j \in DOMAIN key, NEW h, Answered(h, j)
      PROVE  \E pause \in RetryAfters \cup {CooldownMax} :
               key'[j].cooldown_until <= key'[j].last_used_at + pause
  <2>1. /\ MovesUse(h, j)
        /\ key[j].last_used_at \in Int /\ key[j].cooldown_until \in Int
    BY <1>3, UsesTyped DEF Answered
  <2>2. key'[j].last_used_at = now
    BY <1>3, <2>1 DEF Answered, MovesUse
  <2>3. CASE \E pause \in RetryAfters \cup {CooldownMax} :
               key'[j].cooldown_until <= now + pause
    BY <2>2, <2>3
  <2>4. CASE key'[j].cooldown_until = key[j].cooldown_until
    <3>1. PICK pause \in RetryAfters \cup {CooldownMax} :
            key[j].cooldown_until <= key[j].last_used_at + pause
      BY <1>3, <2>4 DEF CooldownEndsInTime
    <3>2. pause \in Int
      BY <1>1
    <3>3. key[j].cooldown_until <= now + pause
      BY <1>1, <2>1, <3>1, <3>2 DEF MovesUse
    <3> QED
      BY <2>2, <2>4, <3>3
  <2> QED
    BY <1>3, <2>3, <2>4 DEF Answered
<1>4. CASE /\ j \in DOMAIN key
           /\ key'[j].last_used_at = key[j].last_used_at
           /\ key'[j].cooldown_until = key[j].cooldown_until
  BY <1>4 DEF CooldownEndsInTime
<1> QED
  BY <1>2, <1>3, <1>4, NextUse DEF UseStep

\* With a cap, a cooldown ends within the cap, or the Retry-After that NovelAI sent,
\* of the last use of the key (proxy.py:36-52, 86-93), in whatever order requests
\* that overlap write the two columns. This takes a pause between the uses of a key
\* (key_pool.py) or ids that are not used again; without either, a request may be
\* answered for another key which then has a cooldown and no use. Without a cap a
\* backoff is as long as its base asks for.
THEOREM CooldownSafe ==
    ASSUME Postgres \/ KeyCooldown > 0, CooldownMax > 0
    PROVE  Spec => []CooldownEndsInTime
<1>1. CASE Postgres
  <2>1. Init => UsesInOrder /\ CooldownEndsInTime
    BY EmptyIsMapping DEF Init, UsesInOrder, CooldownEndsInTime
  <2>2. ASSUME PoolInv, PoolInv', UsesInOrder, CooldownEndsInTime, [Next]_vars
        PROVE  UsesInOrder' /\ CooldownEndsInTime'
    <3>1. ASSUME NEW h \in DOMAIN req, req[h].id \in DOMAIN key
          PROVE  MovesUse(h, req[h].id)
      <4>1. /\ req[h].row.last_used_at <= key[req[h].id].last_used_at
            /\ key[req[h].id].last_used_at <= now
            /\ now \in Nat /\ key[req[h].id].last_used_at \in Int
        BY <2>2, <3>1, UsesTyped DEF UsesInOrder, PoolInv, TypeOK
      <4> QED
        BY <4>1 DEF MovesUse
    <3> QED
      BY <1>1, <2>2, <3>1, UsesStep, CooldownStep
  <2> QED
    BY <2>1, <2>2, PoolInvHolds, PTL DEF Spec
<1>2. CASE KeyCooldown > 0
  <2>1. Init => UsesArePast /\ CooldownEndsInTime
    BY EmptyIsMapping DEF Init, UsesArePast, CooldownEndsInTime
  <2>2. ASSUME PoolInv, UsesArePast, CooldownEndsInTime, [Next]_vars
        PROVE  UsesArePast' /\ CooldownEndsInTime'
    <3>1. ASSUME NEW h \in DOMAIN req, req[h].id \in DOMAIN key
          PROVE  MovesUse(h, req[h].id)
      <4>1. /\ req[h].row.last_used_at < now /\ key[req[h].id].last_used_at <= now
            /\ now \in Nat /\ req[h].row.last_used_at \in Int
        BY <2>2, <3>1, UsesTyped DEF UsesArePast, PoolInv, TypeOK
      <4> QED
        BY <4>1 DEF MovesUse
    <3> QED
      BY <1>2, <2>2, <3>1, PastStep, CooldownStep
  <2> QED
    BY <2>1, <2>2, PoolInvHolds, PTL DEF Spec
<1> QED
  BY <1>1, <1>2

---------------------------------------------------------------------------
(* The refinement of KeyLifecycle, an action at a time *)

PhaseMap == [i \in KeyIds |-> Phase(i)]
ServingMap == [i \in KeyIds |-> Cardinality(InFlight(i))]
SeenMap == [c \in Checkers |-> [i \in KeyIds |-> Seen(c, i)]]
life == <<PhaseMap, ServingMap, SeenMap>>

\* Requests are counted: there are finitely many of them, however many handlers.
ReqsFinite == IsFiniteSet(DOMAIN req)

LEMMA ReqsFiniteStep == TypeOK /\ ReqsFinite /\ [Next]_vars => ReqsFinite'
<1> SUFFICES ASSUME TypeOK, ReqsFinite, [Next]_vars PROVE ReqsFinite'
  OBVIOUS
<1>1. \E h : DOMAIN req' \subseteq DOMAIN req \cup {h}
  <2>1. CASE UNCHANGED req
    BY <2>1
  <2>2. ASSUME NEW h, NEW i, GenerateImage(h, i) PROVE DOMAIN req' \subseteq DOMAIN req \cup {h}
    BY <2>2 DEF GenerateImage, Put
  <2>3. ASSUME NEW h, req' = Drop(req, h) PROVE DOMAIN req' \subseteq DOMAIN req \cup {h}
    BY <2>3 DEF Drop, Restrict
  <2> QED
    BY <2>1, <2>2, <2>3
    DEF Next, vars, Tick, KeyManagement, Relay, HealthChecks, UploadKey, UploadAndVerify,
        Insert, DeleteKey, ToggleRead, ToggleCommit, UpstreamSucceeds, UpstreamFails,
        Finish, MalformedAnswer, Abandoned, StartSweep, Refresh, Probe, CommitCheck,
        Rollback
<1>2. PICK h : DOMAIN req' \subseteq DOMAIN req \cup {h}
  BY <1>1
<1>3. IsFiniteSet(DOMAIN req \cup {h})
  BY FS_AddElement DEF ReqsFinite
<1> QED
  BY <1>2, <1>3, FS_Subset DEF ReqsFinite

LEMMA InFlightFinite ==
    ASSUME ReqsFinite, NEW i
    PROVE  IsFiniteSet(InFlight(i)) /\ Cardinality(InFlight(i)) \in Nat
BY FS_Subset, FS_CardinalityType DEF ReqsFinite, InFlight

LEMMA SamePhases ==
    ASSUME DOMAIN key' = DOMAIN key, nextId' = nextId,
           \A j \in DOMAIN key : key'[j].status = key[j].status
    PROVE  PhaseMap' = PhaseMap
BY DEF PhaseMap, Phase

LEMMA SameServing == ASSUME UNCHANGED req PROVE ServingMap' = ServingMap
BY DEF ServingMap, InFlight

\* A check that goes on with the rows it has loaded saw what it saw.
LEMMA SameSeen ==
    ASSUME \A c \in DOMAIN check' : IF c \in DOMAIN check
                                     THEN check'[c].loaded = check[c].loaded
                                     ELSE DOMAIN check'[c].loaded = {},
           DOMAIN check \subseteq DOMAIN check'
    PROVE  SeenMap' = SeenMap
<1>1. ASSUME NEW c, NEW i PROVE Seen(c, i)' = Seen(c, i)
  BY DEF Seen
<1> QED
  BY <1>1 DEF SeenMap

LEMMA SameChecks == ASSUME UNCHANGED check PROVE SeenMap' = SeenMap
BY SameSeen

\* An answer ends one request, and a choice begins one.
LEMMA DropServing ==
    ASSUME TypeOK, ReqsFinite, NEW h \in DOMAIN req, req' = Drop(req, h),
           NEW i \in KeyIds, i = req[h].id
    PROVE  ServingMap[i] > 0 /\ ServingMap' = [ServingMap EXCEPT ![i] = ServingMap[i] - 1]
<1>1. /\ DOMAIN req' = DOMAIN req \ {h}
      /\ \A g \in DOMAIN req' : req'[g] = req[g]
  BY DEF Drop, Restrict
<1>2. InFlight(i)' = InFlight(i) \ {h} /\ h \in InFlight(i)
  BY <1>1 DEF InFlight
<1>3. \A j \in KeyIds \ {i} : InFlight(j)' = InFlight(j)
  BY <1>1 DEF InFlight
<1>4. /\ Cardinality(InFlight(i)') = Cardinality(InFlight(i)) - 1
      /\ Cardinality(InFlight(i)) > 0
  <2>1. /\ IsFiniteSet(InFlight(i) \ {h})
        /\ Cardinality(InFlight(i) \ {h}) = Cardinality(InFlight(i)) - 1
    BY <1>2, InFlightFinite, FS_RemoveElement
  <2>2. Cardinality(InFlight(i)) \in Nat /\ Cardinality(InFlight(i) \ {h}) \in Nat
    BY <2>1, InFlightFinite, FS_CardinalityType
  <2> QED
    BY <1>2, <2>1, <2>2
<1> QED
  BY <1>3, <1>4 DEF ServingMap

LEMMA PutServing ==
    ASSUME TypeOK, ReqsFinite, NEW h, h \notin DOMAIN req, NEW i \in KeyIds, NEW row,
           req' = Put(req, h, [id |-> i, row |-> row])
    PROVE  ServingMap' = [ServingMap EXCEPT ![i] = ServingMap[i] + 1]
<1>1. /\ DOMAIN req' = DOMAIN req \cup {h} /\ req'[h].id = i
      /\ \A g \in DOMAIN req : req'[g] = req[g]
  BY DEF Put
<1>2. InFlight(i)' = InFlight(i) \cup {h} /\ h \notin InFlight(i)
  BY <1>1 DEF InFlight
<1>3. \A j \in KeyIds \ {i} : InFlight(j)' = InFlight(j)
  BY <1>1 DEF InFlight
<1>4. Cardinality(InFlight(i)') = Cardinality(InFlight(i)) + 1
  BY <1>2, InFlightFinite, FS_AddElement
<1> QED
  BY <1>3, <1>4 DEF ServingMap

---------------------------------------------------------------------------

LEMMA UploadRefines ==
    ASSUME Postgres, PoolInv, NEW i \in KeyIds, NEW hash \in KeyHashes, Insert(i, hash),
           SeenMap' = SeenMap
    PROVE  Lifecycle!Next
<1>1. /\ i = nextId /\ nextId' = nextId + 1 /\ nextId \in Nat /\ UNCHANGED req
      /\ key' = Put(key, i, NewKey(hash))
  BY DEF Insert, NewId, PoolInv, TypeOK
<1>2. i \notin DOMAIN key
  BY <1>1 DEF PoolInv, IdsIssued
<1>3. /\ DOMAIN key' = DOMAIN key \cup {i} /\ key'[i].status = "pending"
      /\ \A j \in DOMAIN key : key'[j] = key[j]
  BY <1>1, <1>2 DEF Put, NewKey
<1>4. PhaseMap[i] = "absent" /\ PhaseMap'[i] = "pending"
  BY <1>1, <1>2, <1>3 DEF PhaseMap, Phase
<1>5. \A j \in KeyIds \ {i} : PhaseMap'[j] = PhaseMap[j]
  BY <1>1, <1>3, KeyIdsAssumption DEF PhaseMap, Phase
<1>6. PhaseMap' = [PhaseMap EXCEPT ![i] = "pending"]
  BY <1>4, <1>5 DEF PhaseMap
<1>7. Lifecycle!Upload(i)
  BY <1>1, <1>4, <1>6, SameServing DEF Lifecycle!Upload, PhaseMap, ServingMap, SeenMap
<1> QED
  BY <1>7 DEF Lifecycle!Next

LEMMA DeleteRefines ==
    ASSUME Postgres, PoolInv, NEW i \in KeyIds, DeleteKey(i)
    PROVE  Lifecycle!Next
<1>1. /\ i \in DOMAIN key /\ i < nextId /\ nextId' = nextId /\ UNCHANGED <<req, check>>
      /\ key' = Drop(key, i)
  BY DEF DeleteKey, PoolInv, IdsIssued
<1>2. DOMAIN key' = DOMAIN key \ {i} /\ \A j \in DOMAIN key' : key'[j] = key[j]
  BY <1>1 DEF Drop, Restrict
<1>3. PhaseMap[i] = key[i].status /\ PhaseMap'[i] = "gone"
  BY <1>1, <1>2 DEF PhaseMap, Phase
<1>4. key[i].status \in Statuses
  BY <1>1, RowFields DEF PoolInv, TypeOK, IsMapping
<1>5. \A j \in KeyIds \ {i} : PhaseMap'[j] = PhaseMap[j]
  BY <1>1, <1>2 DEF PhaseMap, Phase
<1>6. PhaseMap' = [PhaseMap EXCEPT ![i] = "gone"]
  BY <1>3, <1>5 DEF PhaseMap
<1>7. Lifecycle!Remove(i)
  BY <1>1, <1>3, <1>4, <1>6, SameServing, SameChecks
  DEF Lifecycle!Remove, Lifecycle!Stored, Lifecycle!Checked, Statuses, PhaseMap, ServingMap,
      SeenMap
<1> QED
  BY <1>7 DEF Lifecycle!Next

LEMMA GenerateRefines ==
    ASSUME PoolInv, ReqsFinite, NEW h \in Handlers, NEW i \in KeyIds, GenerateImage(h, i)
    PROVE  Lifecycle!Next
<1>1. /\ i \in DOMAIN key /\ key[i].status = "healthy" /\ UNCHANGED <<key, nextId, check>>
      /\ h \notin DOMAIN req /\ req' = Put(req, h, [id |-> i, row |-> key[i]])
  BY DEF GenerateImage, Candidates, Selectable
<1>2. PhaseMap[i] = "healthy" /\ PhaseMap' = PhaseMap
  BY <1>1, SamePhases DEF PhaseMap, Phase
<1>3. ServingMap' = [ServingMap EXCEPT ![i] = ServingMap[i] + 1]
  BY <1>1, PutServing DEF PoolInv
<1>4. Lifecycle!Begin(i)
  BY <1>1, <1>2, <1>3, SameChecks DEF Lifecycle!Begin, PhaseMap, ServingMap, SeenMap
<1> QED
  BY <1>4 DEF Lifecycle!Next

LEMMA AbandonRefines ==
    ASSUME PoolInv, ReqsFinite, NEW h \in DOMAIN req, req' = Drop(req, h),
           UNCHANGED <<key, nextId, check>>
    PROVE  Lifecycle!Next
<1> DEFINE i == req[h].id
<1>1. i \in KeyIds
  BY DEF PoolInv, TypeOK, IsMapping, Snapshots
<1>2. PhaseMap' = PhaseMap
  BY SamePhases
<1>3. ServingMap[i] > 0 /\ ServingMap' = [ServingMap EXCEPT ![i] = ServingMap[i] - 1]
  BY <1>1, DropServing DEF PoolInv
<1> HIDE DEF i
<1>4. Lifecycle!End(i)
  BY <1>2, <1>3, SameChecks DEF Lifecycle!End, PhaseMap, ServingMap, SeenMap
<1> QED
  BY <1>1, <1>4 DEF Lifecycle!Next

\* An answer leaves the key in its phase or pushes it out: the key is not pending, for
\* a request is in progress with it.
LEMMA FinishRefines ==
    ASSUME PoolInv, ReqsFinite, PendingKeysAreUnused, NEW h \in DOMAIN req,
           NEW edited \in KeyRows, Finish(h, edited),
           edited.status \in {req[h].row.status, "unhealthy", "invalid"}
    PROVE  Lifecycle!Next
<1> DEFINE i == req[h].id
<1>1. /\ i \in KeyIds /\ i \in DOMAIN key /\ DOMAIN key' = DOMAIN key
      /\ key[i] \in KeyRows /\ req[h].row \in KeyRows
      /\ key'[i] = Flush(key[i], req[h].row, edited)
      /\ \A j \in DOMAIN key : j # i => key'[j] = key[j]
      /\ nextId' = nextId /\ req' = Drop(req, h) /\ UNCHANGED check
  BY FinishTypes DEF PoolInv, TypeOK, IsMapping, Finish
<1>2. key[i].status \in {"healthy", "unhealthy", "invalid"}
  <2>1. InFlight(i) # {}
    BY DEF InFlight
  <2>2. key[i].status # "pending"
    BY <1>1, <2>1 DEF PendingKeysAreUnused
  <2> QED
    BY <1>1, <2>2, RowFields DEF Statuses
<1>3. key'[i].status \in {key[i].status, "unhealthy", "invalid"}
  BY <1>1, FlushedColumns
<1>4. ServingMap[i] > 0 /\ ServingMap' = [ServingMap EXCEPT ![i] = ServingMap[i] - 1]
  BY <1>1, DropServing DEF PoolInv
<1> HIDE DEF i
<1>5. PhaseMap[i] = key[i].status /\ PhaseMap'[i] = key'[i].status
  BY <1>1 DEF PhaseMap, Phase
<1>6. \A j \in KeyIds \ {i} : PhaseMap'[j] = PhaseMap[j]
  BY <1>1 DEF PhaseMap, Phase
<1>7. PhaseMap' = [PhaseMap EXCEPT ![i] = key'[i].status]
  BY <1>1, <1>5, <1>6 DEF PhaseMap
<1>8. \/ PhaseMap' = PhaseMap
      \/ /\ PhaseMap[i] \in Lifecycle!Checked
         /\ \E p \in {"unhealthy", "invalid"} : PhaseMap' = [PhaseMap EXCEPT ![i] = p]
  <2>1. CASE key'[i].status = key[i].status
    BY <1>5, <1>6, <2>1 DEF PhaseMap
  <2>2. CASE key'[i].status \in {"unhealthy", "invalid"}
    BY <1>2, <1>5, <1>7, <2>2 DEF Lifecycle!Checked
  <2> QED
    BY <1>3, <2>1, <2>2
<1>9. Lifecycle!End(i)
  BY <1>1, <1>4, <1>8, SameChecks DEF Lifecycle!End, PhaseMap, ServingMap, SeenMap
<1> QED
  BY <1>1, <1>9 DEF Lifecycle!Next

\* A check that loads rows, or gives up, sees stored keys as they are or none.
LEMMA LookRefines ==
    ASSUME PoolInv, NEW c \in Checkers, UNCHANGED <<key, nextId, req>>,
           \A d \in Checkers \ {c} : d \in DOMAIN check' <=> d \in DOMAIN check,
           \A d \in DOMAIN check' \ {c} : check'[d] = check[d],
           c \in DOMAIN check' => \E rows : check'[c].loaded = Restrict(key, rows)
                                          /\ rows \subseteq DOMAIN key
    PROVE  Lifecycle!Next
<1> DEFINE s == [i \in KeyIds |-> Seen(c, i)']
<1>1. ASSUME NEW i \in KeyIds
      PROVE  \/ s[i] = "unseen"
             \/ s[i] = PhaseMap[i] /\ s[i] \in Lifecycle!Stored
  <2>1. CASE c \in DOMAIN check' /\ i \in DOMAIN check'[c].loaded
    <3>1. i \in DOMAIN key /\ check'[c].loaded[i] = key[i]
      BY <2>1 DEF Restrict
    <3>2. key[i].status \in Statuses
      BY <3>1, RowFields DEF PoolInv, TypeOK, IsMapping
    <3> QED
      BY <2>1, <3>1, <3>2
      DEF Seen, PhaseMap, Phase, Lifecycle!Stored, Lifecycle!Checked, Statuses
  <2>2. CASE ~(c \in DOMAIN check' /\ i \in DOMAIN check'[c].loaded)
    BY <2>2 DEF Seen
  <2> QED
    BY <2>1, <2>2
<1>2. ASSUME NEW d \in Checkers, d # c, NEW i \in KeyIds PROVE Seen(d, i)' = Seen(d, i)
  BY <1>2 DEF Seen
<1>3. SeenMap' = [SeenMap EXCEPT ![c] = s]
  BY <1>2 DEF SeenMap
<1>4. s \in [KeyIds -> Lifecycle!Stored \cup {"unseen"}]
  BY <1>1
<1>5. PhaseMap' = PhaseMap /\ ServingMap' = ServingMap
  BY SamePhases, SameServing
<1> HIDE DEF s
<1>6. Lifecycle!Look(c)
  BY <1>1, <1>3, <1>4, <1>5 DEF Lifecycle!Look, PhaseMap, ServingMap, SeenMap
<1> QED
  BY <1>6 DEF Lifecycle!Next

\* A check rules on stored keys that it has loaded, where its verdict is another
\* status than the one it loaded, and leaves none unchecked.
LEMMA CommitRefines ==
    ASSUME PoolInv, NEW c \in Checkers, CommitCheck(c)
    PROVE  Lifecycle!Next
<1>1. /\ DOMAIN key' = DOMAIN key /\ nextId' = nextId /\ UNCHANGED req
      /\ \A j \in DOMAIN key : key[j] \in KeyRows /\ key'[j] \in KeyRows
  BY CommitTypes DEF CommitCheck, PoolInv, TypeOK, IsMapping
<1>2. \A j \in DOMAIN key : key'[j].status = "pending" => key[j].status = "pending"
  BY CommitKeeps DEF PoolInv, SameButVerdict
<1>3. \A j \in DOMAIN key : key[j].status \in Statuses /\ key'[j].status \in Statuses
  BY <1>1, RowFields
<1>4. ASSUME NEW j \in KeyIds, PhaseMap'[j] # PhaseMap[j]
      PROVE  /\ PhaseMap[j] \in Lifecycle!Stored
             /\ PhaseMap'[j] \in Lifecycle!Checked
             /\ SeenMap[c][j] # "unseen" /\ PhaseMap'[j] # SeenMap[c][j]
  <2> DEFINE loaded == check[c].loaded
             edited == check[c].edited
  <2>1. /\ j \in DOMAIN key /\ key'[j].status # key[j].status
        /\ PhaseMap[j] = key[j].status /\ PhaseMap'[j] = key'[j].status
    BY <1>1, <1>4 DEF PhaseMap, Phase
  <2>2. /\ c \in DOMAIN check /\ j \in DOMAIN loaded
        /\ loaded[j] \in KeyRows /\ edited[j] \in KeyRows
        /\ key'[j] = Flush(key[j], loaded[j], edited[j])
    BY <2>1, CommitTypes DEF PoolInv
  <2> HIDE DEF edited
  <2>3. key'[j].status # loaded[j].status
    BY <1>1, <2>1, <2>2, FlushedColumns
  <2>4. SeenMap[c][j] = loaded[j].status /\ loaded[j].status \in Statuses
    BY <2>2, RowFields DEF SeenMap, Seen
  <2> QED
    BY <1>2, <1>3, <2>1, <2>3, <2>4 DEF Lifecycle!Stored, Lifecycle!Checked, Statuses
<1>5. PhaseMap' \in [KeyIds -> Lifecycle!Phases]
  BY <1>1, <1>3
  DEF PhaseMap, Phase, Lifecycle!Phases, Lifecycle!Stored, Lifecycle!Checked, Statuses
<1>6. SeenMap' = [SeenMap EXCEPT ![c] = Lifecycle!NothingSeen]
  <2>1. /\ DOMAIN check' = DOMAIN check \ {c}
        /\ \A d \in DOMAIN check' : check'[d] = check[d]
    BY CommitTypes DEF PoolInv
  <2>2. ASSUME NEW d, NEW i
        PROVE  Seen(d, i)' = IF d = c THEN "unseen" ELSE Seen(d, i)
    BY <2>1 DEF Seen
  <2> QED
    BY <2>2 DEF SeenMap, Lifecycle!NothingSeen
<1>7. Lifecycle!Rule(c)
  BY <1>1, <1>4, <1>5, <1>6, SameServing
  DEF Lifecycle!Rule, PhaseMap, ServingMap, SeenMap
<1> QED
  BY <1>7 DEF Lifecycle!Next

LEMMA NextRefines ==
    ASSUME Postgres, PoolInv, ReqsFinite, PendingKeysAreUnused, [Next]_vars
    PROVE  Lifecycle!Next \/ UNCHANGED life
<1>1. CASE UNCHANGED <<key, nextId, req, check>>
  BY <1>1, SamePhases, SameServing, SameChecks DEF life
<1>2. ASSUME NEW a \in Admins, ToggleCommit(a) PROVE UNCHANGED life
  <2>1. DOMAIN key' = DOMAIN key /\ nextId' = nextId /\ UNCHANGED <<req, check>>
    BY <1>2 DEF ToggleCommit
  <2>2. \A j \in DOMAIN key : key'[j].status = key[j].status
    BY <1>2, ToggleKeeps DEF PoolInv
  <2> QED
    BY <2>1, <2>2, SamePhases, SameServing, SameChecks DEF life
<1>3. ASSUME NEW h \in Handlers, UpstreamSucceeds(h) PROVE Lifecycle!Next
  <2>1. h \in DOMAIN req /\ req[h].row \in KeyRows /\ now \in Nat
    BY <1>3 DEF UpstreamSucceeds, PoolInv, TypeOK, IsMapping, Snapshots
  <2>2. /\ RecordSuccess(req[h].row, now) \in KeyRows
        /\ RecordSuccess(req[h].row, now).status = req[h].row.status
    BY <2>1, SuccessIsRow
  <2>3. Finish(h, RecordSuccess(req[h].row, now))
    BY <1>3 DEF UpstreamSucceeds
  <2> QED
    BY <2>1, <2>2, <2>3, FinishRefines
<1>4. ASSUME NEW h \in Handlers, NEW code \in Codes, NEW retry_after \in RetryAfters,
             UpstreamFails(h, code, retry_after)
      PROVE  Lifecycle!Next
  <2> DEFINE edited == RecordFailure(req[h].row, code, retry_after, now)
  <2>1. h \in DOMAIN req /\ req[h].row \in KeyRows /\ now \in Nat /\ retry_after \in Nat
    BY <1>4, PoolAssumption DEF UpstreamFails, PoolInv, TypeOK, IsMapping, Snapshots
  <2>2. /\ edited \in KeyRows
        /\ edited.status \in {req[h].row.status, "unhealthy", "invalid"}
    BY <2>1, FailureIsRow
  <2>3. Finish(h, edited)
    BY <1>4 DEF UpstreamFails
  <2> HIDE DEF edited
  <2> QED
    BY <2>1, <2>2, <2>3, FinishRefines
<1>5. ASSUME NEW h, MalformedAnswer(h) \/ Abandoned(h) PROVE Lifecycle!Next
  BY <1>5, AbandonRefines DEF MalformedAnswer, Abandoned
<1>6. ASSUME NEW i \in KeyIds, NEW hash \in KeyHashes,
             \/ UploadKey(i, hash)
             \/ \E c \in Checkers : UploadAndVerify(i, hash, c)
      PROVE  Lifecycle!Next
  <2>1. CASE UploadKey(i, hash)
    BY <2>1, SameChecks, UploadRefines DEF UploadKey
  <2>2. ASSUME NEW c \in Checkers, UploadAndVerify(i, hash, c) PROVE Lifecycle!Next
    <3>1. /\ DOMAIN check' = DOMAIN check \cup {c} /\ c \notin DOMAIN check
          /\ check'[c].loaded = Empty
          /\ \A d \in DOMAIN check : check'[d] = check[d]
      BY <2>2 DEF UploadAndVerify, Put
    <3>2. SeenMap' = SeenMap
      BY <3>1, SameSeen, EmptyIsMapping
    <3> QED
      BY <2>2, <3>2, UploadRefines DEF UploadAndVerify
  <2> QED
    BY <1>6, <2>1, <2>2
<1>7. ASSUME NEW c \in Checkers, StartSweep(c) \/ Refresh(c) \/ Rollback(c)
      PROVE  Lifecycle!Next
  <2>1. CASE StartSweep(c)
    <3>1. /\ UNCHANGED <<key, nextId, req>>
          /\ DOMAIN check' = DOMAIN check \cup {c}
          /\ \A d \in DOMAIN check' \ {c} : check'[d] = check[d]
          /\ check'[c].loaded = Restrict(key, Enabled) /\ Enabled \subseteq DOMAIN key
      BY <2>1 DEF StartSweep, Put, Enabled
    <3> QED
      BY <3>1, LookRefines
  <2>2. CASE Refresh(c)
    <3>1. PICK i \in DOMAIN key :
            check' = [check EXCEPT ![c].loaded = Restrict(key, {i}),
                                   ![c].edited = Restrict(key, {i})]
      BY <2>2 DEF Refresh
    <3>2. c \in DOMAIN check /\ CheckStates(check[c])
      BY <2>2 DEF Refresh, PoolInv, TypeOK
    <3>3. /\ DOMAIN check' = DOMAIN check
          /\ \A d \in DOMAIN check' \ {c} : check'[d] = check[d]
          /\ check'[c].loaded = Restrict(key, {i})
      BY <3>1, <3>2 DEF CheckStates
    <3>4. UNCHANGED <<key, nextId, req>> /\ {i} \subseteq DOMAIN key
      BY <2>2 DEF Refresh
    <3> QED
      BY <3>3, <3>4, LookRefines
  <2>3. CASE Rollback(c)
    <3>1. /\ UNCHANGED <<key, nextId, req>>
          /\ DOMAIN check' = DOMAIN check \ {c}
          /\ \A d \in DOMAIN check' \ {c} : check'[d] = check[d]
      BY <2>3 DEF Rollback, Drop, Restrict
    <3> QED
      BY <3>1, LookRefines
  <2> QED
    BY <1>7, <2>1, <2>2, <2>3
<1>8. ASSUME NEW c \in Checkers, NEW i \in KeyIds, NEW verdict \in Verdicts,
             Probe(c, i, verdict)
      PROVE  UNCHANGED life
  <2>1. /\ UNCHANGED <<key, nextId, req>> /\ DOMAIN check' = DOMAIN check
        /\ \A d \in DOMAIN check : check'[d].loaded = check[d].loaded
    BY <1>8 DEF Probe, PoolInv, TypeOK, CheckStates
  <2> QED
    BY <2>1, SamePhases, SameServing, SameSeen DEF life
<1> QED
  BY <1>1, <1>2, <1>3, <1>4, <1>5, <1>6, <1>7, <1>8, DeleteRefines, GenerateRefines,
     CommitRefines
  DEF Next, vars, Tick, KeyManagement, Relay, HealthChecks, ToggleRead

\* On Postgres the pool implements the life of its keys: only the commit of a check
\* that had loaded a key out of the rotation brings it in, none makes it unchecked
\* again or brings a deleted one back, and a request begins with a healthy key only.
THEOREM PoolImplementsLifecycle == ASSUME Postgres PROVE Spec => ImplementsLifecycle
<1>1. Init => Lifecycle!Init /\ ReqsFinite
  <2> SUFFICES ASSUME Init PROVE Lifecycle!Init /\ ReqsFinite
    OBVIOUS
  <2>1. DOMAIN key = {} /\ DOMAIN req = {} /\ nextId = 1
    BY EmptyIsMapping DEF Init
  <2>2. PhaseMap = [i \in KeyIds |-> "absent"]
    BY <2>1, KeyIdsAssumption DEF PhaseMap, Phase
  <2>3. ServingMap = [i \in KeyIds |-> 0]
    BY <2>1, FS_EmptySet DEF ServingMap, InFlight
  <2>4. SeenMap = [c \in Checkers |-> Lifecycle!NothingSeen]
    BY EmptyIsMapping DEF Init, SeenMap, Seen, Lifecycle!NothingSeen
  <2> QED
    BY <2>1, <2>2, <2>3, <2>4, FS_EmptySet
    DEF Lifecycle!Init, PhaseMap, ServingMap, SeenMap, ReqsFinite
<1>2. PoolInv /\ ReqsFinite /\ [Next]_vars => ReqsFinite'
  BY ReqsFiniteStep DEF PoolInv
<1>3. PoolInv /\ ReqsFinite /\ PendingKeysAreUnused /\ [Next]_vars
        => [Lifecycle!Next]_life
  BY NextRefines
<1>4. Spec => []PendingKeysAreUnused
  BY PendingSafe
<1> QED
  BY <1>1, <1>2, <1>3, <1>4, PoolInvHolds, PTL
  DEF Spec, ImplementsLifecycle, Lifecycle!Spec, life, PhaseMap, ServingMap, SeenMap

==========================================================================
