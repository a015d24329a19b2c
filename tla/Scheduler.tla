----------------------------- MODULE Scheduler -----------------------------
(***************************************************************************)
(* The background loop of each node: SystemConfig with the task that runs  *)
(* the health checks (or the keepalive probes, which are scheduled alike). *)
(*                                                                         *)
(* reconcile_background_tasks starts or cancels the task of its process at *)
(* startup, after update_config has committed and after a refresh that has *)
(* loaded the table. The loop looks once more at the settings when it      *)
(* begins. Nodes run leader-only and with multi_node_enabled.              *)
(***************************************************************************)
EXTENDS SystemConfigHistory

ASSUME SchedulerAssumption == Keys = {"enabled", "leader"}

VARIABLES
    task,    \* node -> "none", "created" (and not begun) or "running"
    behind   \* history: nodes that gave up a refresh whose rows they had applied,
             \* with no newer row left to make them try again

schedulerVars == <<allVars, task, behind>>

\* s: the settings that node n goes by
ShouldRun(n, s) == s["enabled"] /\ s["leader"] = n

\* Faulty: tasks are started and never cancelled.
ReconcileStarts(n) ==
    task' = IF ShouldRun(n, settings[n]) /\ task[n] = "none"
            THEN [task EXCEPT ![n] = "created"]
            ELSE task

\* Faulty: a cancelled task stays in _TASKS.
ReconcileUnpopped(n) ==
    task' = [task EXCEPT ![n] = IF ~ShouldRun(n, settings[n])
                                THEN IF @ = "none" THEN @ ELSE "cancelled"
                                ELSE IF @ = "none" THEN "created"
                                ELSE @]

Reconcile(n) ==
    task' = [task EXCEPT ![n] = IF ~ShouldRun(n, settings[n]) THEN "none"
                                ELSE IF @ = "none" THEN "created"
                                ELSE @]

\* The loop runs, or ends at once.
Begin(n) ==
    /\ task[n] = "created"
    /\ task' = [task EXCEPT ![n] = IF ShouldRun(n, settings[n]) THEN "running" ELSE "none"]
    /\ UNCHANGED <<allVars, behind>>

---------------------------------------------------------------------------
SchedulerInit ==
    /\ HistoryInit
    /\ task = [n \in Nodes |-> IF ShouldRun(n, Defaults) THEN "created" ELSE "none"]
    /\ behind = {}

\* Faulty: a refresh leaves the tasks alone.
LoadedQuietly(n) == Stamped(n) /\ UNCHANGED <<task, behind>>

\* The refresh is complete, or a startup is, with the table loaded or without.
Loaded(n) ==
    /\ Stamped(n) \/ (refresh[n].boot /\ Abandoned(n))
    /\ Reconcile(n)
    /\ behind' = behind \ {n}

\* The tasks are left alone, also when the rows have been applied.
GivenUp(n) ==
    /\ Abandoned(n)
    /\ ~refresh[n].boot
    /\ behind' = IF InPhase(n, "applied") /\ Latest <= cached[n]
                 THEN behind \cup {n} ELSE behind
    /\ UNCHANGED task

Configured(w) ==
    /\ Committed(w)
    /\ Reconcile(write[w].node)
    /\ behind' = behind \ {write[w].node}

Started(n) ==
    /\ Restarted(n)
    /\ task' = [task EXCEPT ![n] = "none"]
    /\ behind' = behind \ {n}

Elsewhere ==
    /\ \/ Ticked
       \/ \E w \in Writers :
            \/ \E n \in Nodes, e \in Writes : Accepted(w, n, e)
            \/ Applied(w) \/ Failed(w)
       \/ \E n \in Nodes : Noticed(n) \/ RowsRead(n) \/ RowsApplied(n)
    /\ UNCHANGED <<task, behind>>

SchedulerNext ==
    \/ \E n \in Nodes : Begin(n) \/ Loaded(n) \/ GivenUp(n) \/ Started(n)
    \/ \E w \in Writers : Configured(w)
    \/ Elsewhere

SchedulerSpec ==
    /\ SchedulerInit
    /\ [][SchedulerNext]_schedulerVars
    /\ HandlersRun
    /\ RefreshesRun
    /\ \A n \in Nodes : WF_schedulerVars(Begin(n))

---------------------------------------------------------------------------
(* Properties *)

SchedulerTypeOK ==
    /\ TypeOK
    /\ task \in [Nodes -> {"none", "created", "running"}]
    /\ behind \subseteq Nodes

Raced(n) == \E k \in Keys : <<n, k>> \in raced

\* The task of a node that has nothing left to do for a change of the settings
\* exists if and only if the stored settings want it: no order of writes,
\* refreshes and failures leaves a loop that should be gone, or none (raced
\* writes, and a refresh given up for good, excepted).
TasksFollowTable ==
    \A n \in Nodes \ behind : Settled(n) /\ ~Raced(n) =>
        (task[n] # "none") = ShouldRun(n, Stored)

\* When writes and restarts have come to an end, the stored leader runs the loop
\* and no other node does, unless a node was raced or has given up.
LeaderTakesOver ==
    \A n \in Nodes : <>[](Raced(n) \/ n \in behind \/ (task[n] = "running") = ShouldRun(n, Stored))

===========================================================================
