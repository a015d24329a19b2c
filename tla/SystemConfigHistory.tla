----------------------- MODULE SystemConfigHistory -----------------------
(***************************************************************************)
(* SystemConfig with a record of what its timestamps cannot tell the nodes, *)
(* and with the fairness of its steps.                                     *)
(***************************************************************************)
EXTENDS SystemConfig

VARIABLE raced   \* <<node, key>>: the node may have missed a write of the key

allVars == <<vars, raced>>

HistoryInit == Init /\ raced = {}

\* Nodes that will not notice a row that w commits now: its stamp is no later
\* than the newest one they have loaded, or they have read the rows and not yet
\* their newest stamp.
Unaware(w) ==
    {n \in Nodes : \/ write[w].at <= cached[n]
                   \/ InPhase(n, "read") \/ InPhase(n, "applied")}

\* Besides, w may leave unwritten a value that is not the stored one any more, or
\* that is the stored one, which its own node has cast differently: no row is newer
\* for that.
RacedBy(w) ==
    LET k == write[w].key
    IN IF ~Unchanged(w) THEN Unaware(w) \X {k}
       ELSE IF Cast[row[k].value] # CastOnSave[write[w].value] THEN {<<write[w].node, k>>}
       ELSE {}

\* A commit that fails leaves its node with the value.
LeftBy(w) == IF write[w].at = Never THEN {} ELSE {<<write[w].node, write[w].key>>}

Committed(w) == CommitItem(w) /\ raced' = raced \cup RacedBy(w)
Failed(w) == CommitFails(w) /\ raced' = raced \cup LeftBy(w)
RowsRead(n) == ReadRows(n) /\ raced' = raced \ ({n} \X DOMAIN row)
Restarted(n) == Restart(n) /\ raced' = raced \ ({n} \X Keys)

\* The other steps
Accepted(w, n, e) == ReadItem(w, n, e) /\ UNCHANGED raced
Applied(w) == ApplyItem(w) /\ UNCHANGED raced
Noticed(n) == SeesNews(n) /\ UNCHANGED raced
RowsApplied(n) == ApplyRows(n) /\ UNCHANGED raced
Stamped(n) == Stamp(n) /\ UNCHANGED raced
Abandoned(n) == RefreshFails(n) /\ UNCHANGED raced
Ticked == Tick /\ UNCHANGED raced

HistoryNext ==
    \/ Ticked
    \/ \E w \in Writers :
         \/ \E n \in Nodes, e \in Writes : Accepted(w, n, e)
         \/ Applied(w) \/ Committed(w) \/ Failed(w)
    \/ \E n \in Nodes :
         \/ Noticed(n) \/ RowsRead(n) \/ RowsApplied(n) \/ Stamped(n)
         \/ Abandoned(n) \/ Restarted(n)

HistorySpec == HistoryInit /\ [][HistoryNext]_allVars

\* Requests keep coming to every node and handlers are not stopped for ever. The
\* database may fail in any step of a refresh, but not each time.
HandlersRun == \A w \in Writers : WF_allVars(Applied(w) \/ Committed(w) \/ Failed(w))
RefreshesRun == \A n \in Nodes :
    /\ WF_allVars(Noticed(n))
    /\ SF_allVars(RowsRead(n))
    /\ SF_allVars(RowsApplied(n))
    /\ SF_allVars(Stamped(n))

FairSpec == HistorySpec /\ HandlersRun /\ RefreshesRun

---------------------------------------------------------------------------
(* Properties *)

Settled(n) ==
    /\ InPhase(n, "idle")
    /\ cached[n] >= Latest
    /\ \A w \in DOMAIN write : write[w].node # n

\* A node that sees no news has the stored settings: the ways in which nodes
\* come to differ for good are those that "raced" names.
NothingMissed ==
    \A n \in Nodes, k \in Keys :
        Settled(n) /\ <<n, k>> \notin raced => Agrees(n, k)

\* Unless raced, every node ends up with the stored settings.
ConvergesUnlessRaced ==
    \A n \in Nodes, k \in Keys : <>[](<<n, k>> \in raced \/ Agrees(n, k))

\* services/system_config.py:68: "This enables multi-node consistency when nodes
\* share the same DB."
EventuallyConsistent == \A n \in Nodes, k \in Keys : <>[]Agrees(n, k)

==========================================================================
