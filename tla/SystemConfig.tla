--------------------------- MODULE SystemConfig ---------------------------
(***************************************************************************)
(* Settings of several nodes and the system_config table they share.       *)
(*                                                                         *)
(* update_config applies a setting to its own process and then commits the *)
(* row. A node learns of rows written through others when a request finds  *)
(* the newest updated_at of the table above the one it loaded last; it     *)
(* then reads the rows, applies them and reads the newest updated_at again *)
(* (SystemConfigRefreshMiddleware). A lock lets one request of a node at a *)
(* time do so; the table is not locked.                                    *)
(*                                                                         *)
(* A row holds a text. What the refresh makes of it is Cast, and what       *)
(* update_config makes of it is CastOnSave: only the former strips a text  *)
(* that is to be a Boolean. Texts that cannot be cast, and keys that may   *)
(* not be set through the API or name no setting, are left out.            *)
(* multi_node_enabled is true.                                             *)
(***************************************************************************)
EXTENDS Integers, FiniteSets, FiniteSetsExt, Mappings

CONSTANTS
    Nodes,
    Writers,    \* slots for POST /admin/config in progress
    Defaults,   \* the settings a process starts with: key -> value
    Writes,     \* what administrators may set: a set of [key, value]
    Cast, CastOnSave,   \* text -> value
    DatabaseFails,  \* whether statements may fail
    MaxTime,    \* bound on the clock
    MaxEvents   \* bound on the writes and restarts of a behaviour

Keys == DOMAIN Defaults
Texts == {e.value : e \in Writes}
Values == {Defaults[k] : k \in Keys} \cup {Cast[t] : t \in Texts}

ASSUME ConfigAssumption ==
    /\ Defaults \in [Keys -> Values]
    /\ \A e \in Writes : e.key \in Keys
    /\ Texts \subseteq DOMAIN Cast /\ Texts \subseteq DOMAIN CastOnSave
    /\ \A t \in Texts : CastOnSave[t] \in Values
    /\ DatabaseFails \in BOOLEAN
    /\ MaxTime \in Nat
    /\ MaxEvents \in Nat

VARIABLES
    now,       \* utcnow()
    row,       \* table system_config: key -> value (a text) and updated_at
    settings,  \* node -> the settings of its process
    cached,    \* node -> _cfg_last_updated_at
    refresh,   \* node -> the refresh (or load at startup) in progress
    write,     \* writer -> the update_config in progress
    events     \* writes and restarts so far

vars == <<now, row, settings, cached, refresh, write, events>>

Never == -1      \* None
Idle == [phase |-> "idle", rows |-> Empty, boot |-> FALSE]

\* SELECT max(updated_at)
Latest == Max({Never} \cup {row[k].at : k \in DOMAIN row})

Init ==
    /\ now = 0
    /\ row = Empty
    /\ settings = [n \in Nodes |-> Defaults]
    /\ cached = [n \in Nodes |-> Never]
    /\ refresh = [n \in Nodes |-> Idle]
    /\ write = Empty
    /\ events = 0

Tick ==
    /\ now < MaxTime
    /\ now' = now + 1
    /\ UNCHANGED <<row, settings, cached, refresh, write, events>>

---------------------------------------------------------------------------
(* POST /admin/config *)

ReadItem(w, n, e) ==
    /\ w \notin DOMAIN write
    /\ ~refresh[n].boot
    /\ events < MaxEvents
    /\ write' = Put(write, w,
         [node |-> n, key |-> e.key, value |-> e.value, at |-> Never,
          found |-> {row[k].value : k \in DOMAIN row \cap {e.key}}])
    /\ events' = events + 1
    /\ UNCHANGED <<now, row, settings, cached, refresh>>

\* The process has the value before the commit, whose UPDATE or INSERT is
\* stamped with the time of this moment.
ApplyItem(w) ==
    /\ w \in DOMAIN write
    /\ write[w].at = Never
    /\ settings' = [settings EXCEPT ![write[w].node][write[w].key] =
                                   CastOnSave[write[w].value]]
    /\ write' = [write EXCEPT ![w].at = now]
    /\ UNCHANGED <<now, row, cached, refresh, events>>

\* A value equal to the one read changes nothing and is not written.
Unchanged(w) == write[w].value \in write[w].found

\* The row was missing and another writer has inserted it meanwhile.
Duplicate(w) == write[w].found = {} /\ write[w].key \in DOMAIN row

\* Faulty: updated_at is set by the INSERT only.
CommitItemUnstamped(w) ==
    /\ w \in DOMAIN write
    /\ write[w].at # Never
    /\ ~Duplicate(w)
    /\ LET k == write[w].key
           at == IF k \in DOMAIN row THEN row[k].at ELSE write[w].at
       IN  row' = IF Unchanged(w) THEN row
                  ELSE Put(row, k, [value |-> write[w].value, at |-> at])
    /\ write' = Drop(write, w)
    /\ UNCHANGED <<now, settings, cached, refresh, events>>

CommitItem(w) ==
    /\ w \in DOMAIN write
    /\ write[w].at # Never
    /\ ~Duplicate(w)
    /\ row' = IF Unchanged(w) THEN row
              ELSE Put(row, write[w].key, [value |-> write[w].value, at |-> write[w].at])
    /\ write' = Drop(write, w)
    /\ UNCHANGED <<now, settings, cached, refresh, events>>

\* The process keeps the value.
CommitFails(w) ==
    /\ w \in DOMAIN write
    /\ DatabaseFails \/ (write[w].at # Never /\ Duplicate(w))
    /\ write' = Drop(write, w)
    /\ UNCHANGED <<now, row, settings, cached, refresh, events>>

---------------------------------------------------------------------------
(* The refresh of a node *)

InPhase(n, phase) == refresh[n].phase = phase

\* Faulty: only a node that has loaded nothing yet looks for news.
SeesNewsOnce(n) ==
    /\ InPhase(n, "idle")
    /\ Latest > cached[n] /\ cached[n] = Never
    /\ refresh' = [refresh EXCEPT ![n].phase = "stale"]
    /\ UNCHANGED <<now, row, settings, cached, write, events>>

SeesNews(n) ==
    /\ InPhase(n, "idle")
    /\ Latest > cached[n]
    /\ refresh' = [refresh EXCEPT ![n].phase = "stale"]
    /\ UNCHANGED <<now, row, settings, cached, write, events>>

ReadRows(n) ==
    /\ InPhase(n, "stale")
    /\ refresh' = [refresh EXCEPT ![n].phase = "read", ![n].rows = row]
    /\ UNCHANGED <<now, row, settings, cached, write, events>>

ApplyRows(n) ==
    /\ InPhase(n, "read")
    /\ settings' = [settings EXCEPT ![n] =
         [k \in Keys |-> IF k \in DOMAIN refresh[n].rows
                         THEN Cast[refresh[n].rows[k].value] ELSE @[k]]]
    /\ refresh' = [refresh EXCEPT ![n].phase = "applied", ![n].rows = Empty]
    /\ UNCHANGED <<now, row, cached, write, events>>

Stamp(n) ==
    /\ InPhase(n, "applied")
    /\ cached' = [cached EXCEPT ![n] = Latest]
    /\ refresh' = [refresh EXCEPT ![n] = Idle]
    /\ UNCHANGED <<now, row, settings, write, events>>

\* One of the two reads fails, which the middleware ignores. At startup too.
RefreshFails(n) ==
    /\ DatabaseFails
    /\ InPhase(n, "stale") \/ InPhase(n, "applied")
    /\ refresh' = [refresh EXCEPT ![n] = Idle]
    /\ UNCHANGED <<now, row, settings, cached, write, events>>

\* The process ends and starts anew: it loads the table before it serves.
Restart(n) ==
    /\ events < MaxEvents
    /\ settings' = [settings EXCEPT ![n] = Defaults]
    /\ cached' = [cached EXCEPT ![n] = Never]
    /\ refresh' = [refresh EXCEPT ![n] = [Idle EXCEPT !.phase = "stale", !.boot = TRUE]]
    /\ write' = Restrict(write, {w \in DOMAIN write : write[w].node # n})
    /\ events' = events + 1
    /\ UNCHANGED <<now, row>>

---------------------------------------------------------------------------
Next ==
    \/ Tick
    \/ \E w \in Writers :
         \/ \E n \in Nodes, e \in Writes : ReadItem(w, n, e)
         \/ ApplyItem(w)
         \/ CommitItem(w)
         \/ CommitFails(w)
    \/ \E n \in Nodes :
         \/ SeesNews(n)
         \/ ReadRows(n)
         \/ ApplyRows(n)
         \/ Stamp(n)
         \/ RefreshFails(n)
         \/ Restart(n)

Spec == Init /\ [][Next]_vars

---------------------------------------------------------------------------
(* Properties *)

Rows == [value : Texts, at : 0..MaxTime]

WriteStates ==
    [node : Nodes, key : Keys, value : Texts, at : {Never} \cup 0..MaxTime,
     found : SUBSET Texts]

LoadStates(s) ==
    /\ DOMAIN s = {"phase", "rows", "boot"}
    /\ s.phase \in {"idle", "stale", "read", "applied"}
    /\ IsMapping(s.rows, Keys, Rows)
    /\ s.boot \in BOOLEAN

TypeOK ==
    /\ now \in 0..MaxTime
    /\ IsMapping(row, Keys, Rows)
    /\ settings \in [Nodes -> [Keys -> Values]]
    /\ cached \in [Nodes -> {Never} \cup 0..MaxTime]
    /\ DOMAIN refresh = Nodes
    /\ \A n \in Nodes : LoadStates(refresh[n])
    /\ IsMapping(write, Writers, WriteStates)
    /\ events \in 0..MaxEvents

\* What the table says, and the defaults where it says nothing.
Stored == [k \in Keys |-> IF k \in DOMAIN row THEN Cast[row[k].value] ELSE Defaults[k]]
Agrees(n, k) == settings[n][k] = Stored[k]

==========================================================================
