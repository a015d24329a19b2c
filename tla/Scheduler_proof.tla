-------------------------- MODULE Scheduler_proof --------------------------
(***************************************************************************)
(* Theorems about the settings that nodes share through one table and the  *)
(* background loops that follow them: for every set of nodes, writers and  *)
(* settings, every pair of casts, and a database that may fail.            *)
(***************************************************************************)
EXTENDS Scheduler, FiniteSetTheorems, TLAPS

---------------------------------------------------------------------------
(* Mappings *)

LEMMA EmptyTyped ==
    ASSUME NEW S, NEW T
    PROVE  IsMapping(Empty, S, T) /\ DOMAIN Empty = {}
BY DEF IsMapping, Empty

LEMMA PutTyped ==
    ASSUME NEW S, NEW T, NEW f, IsMapping(f, S, T), NEW x \in S, NEW v \in T
    PROVE  /\ IsMapping(Put(f, x, v), S, T)
           /\ DOMAIN Put(f, x, v) = DOMAIN f \cup {x}
           /\ Put(f, x, v)[x] = v
           /\ \A y \in DOMAIN f : y # x => Put(f, x, v)[y] = f[y]
BY DEF IsMapping, Put

LEMMA RestrictTyped ==
    ASSUME NEW S, NEW T, NEW f, IsMapping(f, S, T), NEW D, D \subseteq DOMAIN f
    PROVE  /\ IsMapping(Restrict(f, D), S, T)
           /\ DOMAIN Restrict(f, D) = D
           /\ \A y \in D : Restrict(f, D)[y] = f[y]
BY DEF IsMapping, Restrict

LEMMA DropTyped ==
    ASSUME NEW S, NEW T, NEW f, IsMapping(f, S, T), NEW x
    PROVE  /\ IsMapping(Drop(f, x), S, T)
           /\ DOMAIN Drop(f, x) = DOMAIN f \ {x}
           /\ \A y \in DOMAIN f : y # x => Drop(f, x)[y] = f[y]
BY DOMAIN f \ {x} \subseteq DOMAIN f, RestrictTyped DEF Drop

---------------------------------------------------------------------------
(* The newest stamp of the table *)

\* By induction on the subsets of S: one that is minimal among those without a
\* highest element has one as soon as an element is taken out.
LEMMA HighestExists ==
    ASSUME NEW S \in SUBSET Int, IsFiniteSet(S), S # {}
    PROVE  \E x \in S : \A y \in S : x >= y
<1> DEFINE HasHighest(A) == \E x \in A : \A y \in A : x >= y
           Without == {A \in SUBSET S : A # {} /\ ~HasHighest(A)}
<1>1. SUFFICES ASSUME Without # {} PROVE FALSE
  OBVIOUS
<1>2. Without \subseteq FiniteSubsetsOf(S)
  BY FS_FiniteSubsetsOfFinite
<1>3. PICK A \in Without : \A B \in Without : <<B, A>> \notin StrictSubsetOrdering(S)
  <2> HIDE DEF Without
  <2> QED
    BY <1>1, <1>2, FS_StrictSubsetOrderingWellFounded, WFMin
<1>4. PICK x \in A : TRUE
  OBVIOUS
<1> DEFINE B == A \ {x}
<1>5. <<B, A>> \in StrictSubsetOrdering(S)
  BY <1>4 DEF StrictSubsetOrdering
<1>6. B = {} \/ HasHighest(B)
  BY <1>3, <1>5
<1>7. CASE B = {}
  <2>1. \A y \in A : x >= y
    BY <1>4, <1>7
  <2> QED
    BY <1>4, <2>1
<1>8. CASE HasHighest(B)
  <2>1. PICK m \in B : \A y \in B : m >= y
    BY <1>8
  <2>2. m \in A /\ m \in Int /\ x \in Int
    BY <1>4, <2>1
  <2>3. IF x >= m THEN \A y \in A : x >= y ELSE \A y \in A : m >= y
    BY <2>1, <2>2
  <2> QED
    BY <1>4, <2>2, <2>3
<1> QED
  BY <1>6, <1>7, <1>8

\* No row is newer than Latest, and Latest is the stamp of a row or Never.
LEMMA LatestIsNewest ==
    ASSUME IsMapping(row, Keys, Rows)
    PROVE  /\ Latest \in {Never} \cup 0..MaxTime
           /\ \A k \in DOMAIN row : row[k].at \in 0..MaxTime /\ row[k].at <= Latest
           /\ Latest # Never => \E k \in DOMAIN row : row[k].at = Latest
<1> DEFINE Stamps == {Never} \cup {row[k].at : k \in DOMAIN row}
<1>1. \A k \in DOMAIN row : row[k].at \in 0..MaxTime
  BY DEF IsMapping, Rows
<1>2. Stamps \subseteq -1 .. MaxTime /\ Stamps # {}
  BY <1>1, ConfigAssumption DEF Never
<1>3. IsFiniteSet(Stamps)
  <2>1. -1 \in Int /\ MaxTime \in Int
    BY ConfigAssumption
  <2>2. IsFiniteSet(-1 .. MaxTime)
    BY <2>1, FS_Interval
  <2> HIDE DEF Stamps
  <2> QED
    BY <1>2, <2>2, FS_Subset
<1>4. Latest = Max(Stamps)
  BY DEF Latest
<1>5. Stamps \in SUBSET Int
  BY <1>2
<1> HIDE DEF Stamps
<1>6. Max(Stamps) \in Stamps /\ \A y \in Stamps : Max(Stamps) >= y
  BY <1>2, <1>3, <1>5, HighestExists DEF Max
<1> USE DEF Stamps
<1>7. Latest \in Stamps /\ \A k \in DOMAIN row : row[k].at <= Latest
  <2>1. \A k \in DOMAIN row : Latest >= row[k].at
    BY <1>4, <1>6
  <2> QED
    BY <1>1, <1>2, <1>4, <1>6, <2>1
<1> QED
  BY <1>1, <1>7

---------------------------------------------------------------------------
(* What the steps do to the refreshes *)

\* No other node is refreshed by a step of n.
MovesRefresh(n) ==
    /\ DOMAIN refresh' = DOMAIN refresh
    /\ \A m \in DOMAIN refresh : m # n => refresh'[m] = refresh[m]

IdleAgain(n) ==
    /\ refresh'[n].phase = "idle" /\ refresh'[n].rows = Empty /\ refresh'[n].boot = FALSE
    /\ DOMAIN refresh'[n] = {"phase", "rows", "boot"}

LEMMA RefreshMoves ==
    ASSUME TypeOK, NEW n \in Nodes
    PROVE  /\ SeesNews(n) => /\ MovesRefresh(n) /\ DOMAIN refresh'[n] = DOMAIN refresh[n]
                             /\ refresh'[n].phase = "stale"
                             /\ refresh'[n].rows = refresh[n].rows
                             /\ refresh'[n].boot = refresh[n].boot
           /\ ReadRows(n) => /\ MovesRefresh(n) /\ DOMAIN refresh'[n] = DOMAIN refresh[n]
                             /\ refresh'[n].phase = "read"
                             /\ refresh'[n].rows = row
                             /\ refresh'[n].boot = refresh[n].boot
           /\ ApplyRows(n) => /\ MovesRefresh(n) /\ DOMAIN refresh'[n] = DOMAIN refresh[n]
                              /\ refresh'[n].phase = "applied"
                              /\ refresh'[n].rows = Empty
                              /\ refresh'[n].boot = refresh[n].boot
           /\ Stamp(n) => MovesRefresh(n) /\ IdleAgain(n)
           /\ RefreshFails(n) => MovesRefresh(n) /\ IdleAgain(n)
           /\ Restart(n) => /\ MovesRefresh(n)
                            /\ DOMAIN refresh'[n] = {"phase", "rows", "boot"}
                            /\ refresh'[n].phase = "stale" /\ refresh'[n].rows = Empty
                            /\ refresh'[n].boot = TRUE
<1>1. n \in DOMAIN refresh /\ DOMAIN refresh[n] = {"phase", "rows", "boot"}
  BY DEF TypeOK, LoadStates
<1>2. SeesNews(n) => /\ MovesRefresh(n) /\ DOMAIN refresh'[n] = DOMAIN refresh[n]
                     /\ refresh'[n].phase = "stale"
                     /\ refresh'[n].rows = refresh[n].rows
                     /\ refresh'[n].boot = refresh[n].boot
  BY <1>1 DEF SeesNews, MovesRefresh
<1>3. ReadRows(n) => /\ MovesRefresh(n) /\ DOMAIN refresh'[n] = DOMAIN refresh[n]
                     /\ refresh'[n].phase = "read"
                     /\ refresh'[n].rows = row
                     /\ refresh'[n].boot = refresh[n].boot
  BY <1>1 DEF ReadRows, MovesRefresh
<1>4. ApplyRows(n) => /\ MovesRefresh(n) /\ DOMAIN refresh'[n] = DOMAIN refresh[n]
                      /\ refresh'[n].phase = "applied"
                      /\ refresh'[n].rows = Empty
                      /\ refresh'[n].boot = refresh[n].boot
  BY <1>1 DEF ApplyRows, MovesRefresh
<1>5. Stamp(n) => MovesRefresh(n) /\ IdleAgain(n)
  BY <1>1 DEF Stamp, MovesRefresh, IdleAgain, Idle
<1>6. RefreshFails(n) => MovesRefresh(n) /\ IdleAgain(n)
  BY <1>1 DEF RefreshFails, MovesRefresh, IdleAgain, Idle
<1>7. Restart(n) => /\ MovesRefresh(n)
                    /\ DOMAIN refresh'[n] = {"phase", "rows", "boot"}
                    /\ refresh'[n].phase = "stale" /\ refresh'[n].rows = Empty
                    /\ refresh'[n].boot = TRUE
  BY <1>1 DEF Restart, MovesRefresh, Idle
<1> QED
  BY <1>2, <1>3, <1>4, <1>5, <1>6, <1>7

---------------------------------------------------------------------------
(* Types *)

LEMMA InitTypeOK == Init => TypeOK
<1> SUFFICES ASSUME Init PROVE TypeOK
  OBVIOUS
<1>1. /\ IsMapping(row, Keys, Rows)
      /\ IsMapping(write, Writers, WriteStates)
      /\ IsMapping(Empty, Keys, Rows)
  BY EmptyTyped DEF Init
<1>2. \A n \in Nodes : LoadStates(refresh[n])
  BY <1>1 DEF Init, Idle, LoadStates
<1>3. settings \in [Nodes -> [Keys -> Values]]
  BY ConfigAssumption DEF Init
<1>4. now \in 0..MaxTime /\ events \in 0..MaxEvents
  BY ConfigAssumption DEF Init
<1> QED
  BY <1>1, <1>2, <1>3, <1>4 DEF Init, TypeOK

LEMMA RefreshTyped ==
    ASSUME TypeOK, NEW n \in Nodes, DOMAIN refresh' = DOMAIN refresh,
           \A m \in DOMAIN refresh : m # n => refresh'[m] = refresh[m],
           LoadStates(refresh'[n])
    PROVE  DOMAIN refresh' = Nodes /\ \A m \in Nodes : LoadStates(refresh[m])'
BY DEF TypeOK, LoadStates

LEMMA AddedTyped ==
    ASSUME TypeOK, NEW w \in Writers, NEW n \in Nodes, NEW e \in Writes, ReadItem(w, n, e)
    PROVE  TypeOK'
<1> DEFINE new == [node |-> n, key |-> e.key, value |-> e.value, at |-> Never,
                   found |-> {row[k].value : k \in DOMAIN row \cap {e.key}}]
<1>1. new \in WriteStates
  BY ConfigAssumption DEF WriteStates, TypeOK, IsMapping, Rows, Texts
<1>2. IsMapping(write', Writers, WriteStates)
  <2>1. write' = Put(write, w, new)
    BY DEF ReadItem
  <2> HIDE DEF new
  <2> QED
    BY <1>1, <2>1, PutTyped DEF TypeOK
<1>3. events' \in 0..MaxEvents
  BY ConfigAssumption DEF ReadItem, TypeOK
<1> QED
  BY <1>2, <1>3 DEF ReadItem, TypeOK

LEMMA AppliedTyped ==
    ASSUME TypeOK, NEW w \in Writers, ApplyItem(w)
    PROVE  TypeOK'
<1>1. write[w] \in WriteStates /\ w \in DOMAIN write
  BY DEF ApplyItem, TypeOK, IsMapping
<1>2. IsMapping(write', Writers, WriteStates)
  <2>1. [write[w] EXCEPT !.at = now] \in WriteStates
    BY <1>1 DEF WriteStates, TypeOK
  <2>2. write' = [write EXCEPT ![w] = [write[w] EXCEPT !.at = now]]
    BY DEF ApplyItem
  <2> QED
    BY <2>1, <2>2 DEF TypeOK, IsMapping
<1>3. settings' \in [Nodes -> [Keys -> Values]]
  <2>1. CastOnSave[write[w].value] \in Values
    BY <1>1, ConfigAssumption DEF WriteStates
  <2> QED
    BY <1>1, <2>1 DEF ApplyItem, TypeOK, WriteStates
<1> QED
  BY <1>2, <1>3 DEF ApplyItem, TypeOK

LEMMA CommittedTyped ==
    ASSUME TypeOK, NEW w \in Writers, CommitItem(w)
    PROVE  TypeOK'
<1> DEFINE new == [value |-> write[w].value, at |-> write[w].at]
<1>1. write[w] \in WriteStates /\ w \in DOMAIN write /\ write[w].at # Never
  BY DEF CommitItem, TypeOK, IsMapping
<1>2. new \in Rows /\ write[w].key \in Keys
  BY <1>1 DEF WriteStates, Rows
<1>3. IsMapping(row', Keys, Rows)
  <2>1. row' = row \/ row' = Put(row, write[w].key, new)
    BY DEF CommitItem
  <2>2. IsMapping(row, Keys, Rows)
    BY DEF TypeOK
  <2> HIDE DEF new
  <2>3. IsMapping(Put(row, write[w].key, new), Keys, Rows)
    BY <1>2, <2>2, PutTyped
  <2> QED
    BY <2>1, <2>2, <2>3
<1>4. IsMapping(write', Writers, WriteStates)
  BY DropTyped DEF TypeOK, CommitItem
<1> QED
  BY <1>3, <1>4 DEF CommitItem, TypeOK

LEMMA CommitFailsTyped ==
    ASSUME TypeOK, NEW w \in Writers, CommitFails(w)
    PROVE  TypeOK'
<1>1. IsMapping(write', Writers, WriteStates)
  BY DropTyped DEF TypeOK, CommitFails
<1> QED
  BY <1>1 DEF CommitFails, TypeOK

LEMMA RefreshesTyped ==
    ASSUME TypeOK, NEW n \in Nodes,
           SeesNews(n) \/ ReadRows(n) \/ ApplyRows(n) \/ Stamp(n) \/ RefreshFails(n) \/ Restart(n)
    PROVE  DOMAIN refresh' = Nodes /\ \A m \in Nodes : LoadStates(refresh[m])'
<1>1. LoadStates(refresh[n])
  BY DEF TypeOK
<1>2. LoadStates(refresh'[n])
  <2>1. IsMapping(row, Keys, Rows) /\ IsMapping(Empty, Keys, Rows)
    BY EmptyTyped DEF TypeOK
  <2>2. /\ DOMAIN refresh'[n] = {"phase", "rows", "boot"}
        /\ refresh'[n].phase \in {"idle", "stale", "read", "applied"}
        /\ \/ refresh'[n].rows = refresh[n].rows
           \/ refresh'[n].rows = row
           \/ refresh'[n].rows = Empty
        /\ refresh'[n].boot \in BOOLEAN
    <3>1. DOMAIN refresh[n] = {"phase", "rows", "boot"} /\ refresh[n].boot \in BOOLEAN
      BY <1>1 DEF LoadStates
    <3> QED
      BY <3>1, RefreshMoves DEF IdleAgain
  <2>3. IsMapping(refresh'[n].rows, Keys, Rows)
    BY <1>1, <2>1, <2>2 DEF LoadStates
  <2> QED
    BY <2>2, <2>3 DEF LoadStates
<1>3. MovesRefresh(n)
  BY RefreshMoves
<1> QED
  BY <1>2, <1>3, RefreshTyped DEF MovesRefresh

LEMMA RowsAppliedTyped ==
    ASSUME TypeOK, NEW n \in Nodes, ApplyRows(n)
    PROVE  TypeOK'
<1>1. settings' \in [Nodes -> [Keys -> Values]]
  <2>1. \A k \in DOMAIN refresh[n].rows : Cast[refresh[n].rows[k].value] \in Values
    BY DEF TypeOK, LoadStates, IsMapping, Rows, Values
  <2>2. settings[n] \in [Keys -> Values]
    BY DEF TypeOK
  <2>3. [k \in Keys |-> IF k \in DOMAIN refresh[n].rows
                        THEN Cast[refresh[n].rows[k].value] ELSE settings[n][k]]
            \in [Keys -> Values]
    BY <2>1, <2>2
  <2> QED
    BY <2>3 DEF ApplyRows, TypeOK
<1> QED
  BY <1>1, RefreshesTyped DEF ApplyRows, TypeOK

LEMMA RestartedTyped ==
    ASSUME TypeOK, NEW n \in Nodes, Restart(n)
    PROVE  TypeOK'
<1>1. IsMapping(write', Writers, WriteStates)
  BY RestrictTyped DEF Restart, TypeOK
<1>2. settings' \in [Nodes -> [Keys -> Values]]
  BY ConfigAssumption DEF Restart, TypeOK
<1>3. events' \in 0..MaxEvents
  BY ConfigAssumption DEF Restart, TypeOK
<1>4. cached' \in [Nodes -> {Never} \cup 0..MaxTime]
  BY DEF Restart, TypeOK
<1> QED
  BY <1>1, <1>2, <1>3, <1>4, RefreshesTyped DEF Restart, TypeOK

LEMMA NextTypeOK == TypeOK /\ [Next]_vars => TypeOK'
<1> SUFFICES ASSUME TypeOK, [Next]_vars PROVE TypeOK'
  OBVIOUS
<1>1. CASE Tick
  BY <1>1, ConfigAssumption DEF Tick, TypeOK
<1>2. ASSUME NEW w \in Writers, NEW n \in Nodes, NEW e \in Writes, ReadItem(w, n, e)
      PROVE  TypeOK'
  BY <1>2, AddedTyped
<1>3. ASSUME NEW w \in Writers, ApplyItem(w) \/ CommitItem(w) \/ CommitFails(w)
      PROVE  TypeOK'
  BY <1>3, AppliedTyped, CommittedTyped, CommitFailsTyped
<1>4. ASSUME NEW n \in Nodes, SeesNews(n) \/ ReadRows(n) \/ RefreshFails(n)
      PROVE  TypeOK'
  BY <1>4, RefreshesTyped DEF TypeOK, SeesNews, ReadRows, RefreshFails
<1>5. ASSUME NEW n \in Nodes, Stamp(n)
      PROVE  TypeOK'
  <2>1. cached' \in [Nodes -> {Never} \cup 0..MaxTime]
    BY <1>5, LatestIsNewest DEF Stamp, TypeOK
  <2> QED
    BY <1>5, <2>1, RefreshesTyped DEF TypeOK, Stamp
<1>6. CASE UNCHANGED vars
  BY <1>6 DEF vars, TypeOK, LoadStates
<1> QED
  BY <1>1, <1>2, <1>3, <1>4, <1>5, <1>6, RowsAppliedTyped, RestartedTyped DEF Next

---------------------------------------------------------------------------
(* What a node knows of a key *)

\* A writer has given the node the value and has not committed it.
Holds(w, n, k) ==
    /\ w \in DOMAIN write
    /\ write[w].node = n /\ write[w].key = k
    /\ write[w].at # Never
    /\ settings[n][k] = CastOnSave[write[w].value]

Accounted(n, k) == Agrees(n, k) \/ \E w \in Writers : Holds(w, n, k)

\* The row is newer than what the node has loaded.
News(n, k) == k \in DOMAIN row /\ row[k].at > cached[n]

\* The refresh has read what the row says.
ReadIsStored(n, k) ==
    /\ k \in DOMAIN row
    /\ Cast[refresh[n].rows[k].value] = Cast[row[k].value]

KeyOK(n, k) ==
    /\ InPhase(n, "idle") \/ InPhase(n, "stale") => Accounted(n, k) \/ News(n, k)
    /\ InPhase(n, "read") => IF k \in DOMAIN refresh[n].rows
                             THEN ReadIsStored(n, k) ELSE Accounted(n, k)
    /\ InPhase(n, "applied") => Accounted(n, k)

\* Rows are not deleted.
FoundOK == \A w \in DOMAIN write : write[w].found # {} => write[w].key \in DOMAIN row

HistoryInv ==
    /\ TypeOK
    /\ FoundOK
    /\ \A n \in Nodes, k \in Keys : <<n, k>> \notin raced => KeyOK(n, k)

\* A step that leaves the row of a key alone
SameRow(k) ==
    /\ k \in DOMAIN row' <=> k \in DOMAIN row
    /\ k \in DOMAIN row => row'[k] = row[k]

\* ... and every writer that has given its value to the node
KeepsWriters(n, k) ==
    \A w \in Writers : Holds(w, n, k) => w \in DOMAIN write' /\ write'[w] = write[w]

LEMMA AccountedKept ==
    ASSUME NEW n \in Nodes, NEW k \in Keys, Accounted(n, k),
           settings'[n][k] = settings[n][k], SameRow(k), KeepsWriters(n, k)
    PROVE  Accounted(n, k)'
<1>1. Agrees(n, k) => Agrees(n, k)'
  BY DEF Agrees, Stored, SameRow
<1>2. ASSUME NEW w \in Writers, Holds(w, n, k) PROVE Holds(w, n, k)'
  BY <1>2 DEF Holds, KeepsWriters
<1> QED
  BY <1>1, <1>2 DEF Accounted

LEMMA KeyKept ==
    ASSUME NEW n \in Nodes, NEW k \in Keys, KeyOK(n, k), refresh'[n] = refresh[n],
           settings'[n][k] = settings[n][k], cached'[n] = cached[n],
           SameRow(k), KeepsWriters(n, k)
    PROVE  KeyOK(n, k)'
<1>1. Accounted(n, k) => Accounted(n, k)'
  BY AccountedKept
<1>2. News(n, k) => News(n, k)'
  BY DEF News, SameRow
<1>3. ReadIsStored(n, k) => ReadIsStored(n, k)'
  BY DEF ReadIsStored, SameRow
<1> QED
  BY <1>1, <1>2, <1>3 DEF KeyOK, InPhase

LEMMA InitHistory == HistoryInit => HistoryInv
<1> SUFFICES ASSUME HistoryInit PROVE HistoryInv
  OBVIOUS
<1>1. row = Empty /\ write = Empty /\ settings = [n \in Nodes |-> Defaults]
  BY DEF HistoryInit, Init
<1>2. \A n \in Nodes : refresh[n].phase = "idle"
  BY DEF HistoryInit, Init, Idle
<1>3. DOMAIN row = {} /\ DOMAIN write = {}
  BY <1>1, EmptyTyped DEF Empty
<1>4. \A n \in Nodes, k \in Keys : Agrees(n, k)
  BY <1>1, <1>3 DEF Agrees, Stored
<1> QED
  BY <1>2, <1>3, <1>4, InitTypeOK
  DEF HistoryInit, HistoryInv, FoundOK, KeyOK, Accounted, InPhase

LEMMA FoundKept ==
    ASSUME TypeOK, FoundOK, [Next]_vars
    PROVE  FoundOK'
<1>1. CASE UNCHANGED <<row, write>>
  BY <1>1 DEF FoundOK
<1>2. ASSUME NEW w \in Writers, NEW n \in Nodes, NEW e \in Writes, ReadItem(w, n, e)
      PROVE  FoundOK'
  <2> DEFINE new == [node |-> n, key |-> e.key, value |-> e.value, at |-> Never,
                     found |-> {row[k].value : k \in DOMAIN row \cap {e.key}}]
  <2>1. new.found # {} => new.key \in DOMAIN row
    OBVIOUS
  <2>2. write' = Put(write, w, new) /\ row' = row
    BY <1>2 DEF ReadItem
  <2> HIDE DEF new
  <2>3. DOMAIN write' = DOMAIN write \cup {w}
        /\ \A v \in DOMAIN write' : write'[v] = IF v = w THEN new ELSE write[v]
    BY <2>2 DEF Put
  <2> QED
    BY <2>1, <2>2, <2>3 DEF FoundOK
<1>3. ASSUME NEW w \in Writers, ApplyItem(w)
      PROVE  FoundOK'
  <2>1. write[w] \in WriteStates
    BY <1>3 DEF ApplyItem, TypeOK, IsMapping
  <2>2. /\ DOMAIN write' = DOMAIN write /\ row' = row
        /\ \A v \in DOMAIN write : write'[v].found = write[v].found
                                  /\ write'[v].key = write[v].key
    BY <1>3, <2>1 DEF ApplyItem, WriteStates
  <2> QED
    BY <2>2 DEF FoundOK
<1>4. ASSUME NEW w \in Writers, CommitItem(w) \/ CommitFails(w)
      PROVE  FoundOK'
  <2>1. DOMAIN row \subseteq DOMAIN row'
    BY <1>4 DEF CommitItem, CommitFails, Put
  <2>2. DOMAIN write' \subseteq DOMAIN write
        /\ \A v \in DOMAIN write' : write'[v] = write[v]
    BY <1>4 DEF CommitItem, CommitFails, Drop, Restrict
  <2> QED
    BY <2>1, <2>2 DEF FoundOK
<1>5. ASSUME NEW n \in Nodes, Restart(n)
      PROVE  FoundOK'
  <2>1. DOMAIN write' \subseteq DOMAIN write /\ row' = row
        /\ \A v \in DOMAIN write' : write'[v] = write[v]
    BY <1>5 DEF Restart, Restrict
  <2> QED
    BY <2>1 DEF FoundOK
<1> QED
  BY <1>1, <1>2, <1>3, <1>4, <1>5
  DEF Next, vars, Tick, SeesNews, ReadRows, ApplyRows, Stamp, RefreshFails

---------------------------------------------------------------------------
(* One lemma per step: what a node that is not raced knows of a key *)

LEMMA KeyAccepted ==
    ASSUME HistoryInv, NEW w \in Writers, NEW m \in Nodes, NEW e \in Writes, Accepted(w, m, e),
           NEW n \in Nodes, NEW k \in Keys, <<n, k>> \notin raced'
    PROVE  KeyOK(n, k)'
<1>1. \A v \in DOMAIN write : v \in DOMAIN write' /\ write'[v] = write[v]
  BY DEF Accepted, ReadItem, Put
<1>2. KeepsWriters(n, k)
  BY <1>1 DEF KeepsWriters, Holds
<1>3. SameRow(k) /\ KeyOK(n, k)
  BY DEF Accepted, ReadItem, SameRow, HistoryInv
<1> QED
  BY <1>2, <1>3, KeyKept DEF Accepted, ReadItem

LEMMA KeyApplied ==
    ASSUME HistoryInv, NEW w \in Writers, Applied(w),
           NEW n \in Nodes, NEW k \in Keys, <<n, k>> \notin raced'
    PROVE  KeyOK(n, k)'
<1>1. /\ w \in DOMAIN write /\ write[w].at = Never
      /\ write[w] \in WriteStates /\ write[w].node \in Nodes /\ write[w].key \in Keys
  BY DEF Applied, ApplyItem, HistoryInv, TypeOK, IsMapping, WriteStates
<1>2. SameRow(k) /\ KeyOK(n, k)
  BY DEF Applied, ApplyItem, SameRow, HistoryInv
<1>3. settings \in [Nodes -> [Keys -> Values]] /\ now \in 0..MaxTime
  BY DEF HistoryInv, TypeOK
<1>4. refresh' = refresh /\ cached' = cached /\ row' = row
  BY DEF Applied, ApplyItem
<1>5. CASE write[w].node = n /\ write[w].key = k
  <2>1. /\ DOMAIN write' = DOMAIN write
        /\ write'[w].node = n /\ write'[w].key = k
        /\ write'[w].at = now /\ write'[w].value = write[w].value
    BY <1>1, <1>5 DEF Applied, ApplyItem, WriteStates
  <2>2. settings'[n][k] = CastOnSave[write[w].value]
    BY <1>1, <1>3, <1>5 DEF Applied, ApplyItem
  <2>3. now # Never
    BY <1>3, ConfigAssumption DEF Never
  <2>4. Holds(w, n, k)'
    BY <1>1, <2>1, <2>2, <2>3 DEF Holds
  <2>5. Accounted(n, k)'
    BY <2>4 DEF Accounted
  <2>6. ReadIsStored(n, k) => ReadIsStored(n, k)'
    BY <1>4 DEF ReadIsStored
  <2> QED
    BY <1>2, <1>4, <2>5, <2>6 DEF KeyOK, InPhase
<1>6. CASE ~(write[w].node = n /\ write[w].key = k)
  <2>1. settings'[n][k] = settings[n][k]
    BY <1>1, <1>3, <1>6 DEF Applied, ApplyItem
  <2>2. \A v \in DOMAIN write : v # w => v \in DOMAIN write' /\ write'[v] = write[v]
    BY DEF Applied, ApplyItem
  <2>3. KeepsWriters(n, k)
    BY <1>1, <2>2 DEF KeepsWriters, Holds
  <2> QED
    BY <1>2, <1>4, <2>1, <2>3, KeyKept
<1> QED
  BY <1>5, <1>6

LEMMA KeyCommitted ==
    ASSUME HistoryInv, NEW w \in Writers, Committed(w),
           NEW n \in Nodes, NEW k \in Keys, <<n, k>> \notin raced'
    PROVE  KeyOK(n, k)'
<1>1. /\ w \in DOMAIN write /\ write[w] \in WriteStates
      /\ write[w].key \in Keys /\ write[w].at \in 0..MaxTime
  BY DEF Committed, CommitItem, HistoryInv, TypeOK, IsMapping, WriteStates
<1>2. KeyOK(n, k) /\ <<n, k>> \notin RacedBy(w)
  BY DEF Committed, HistoryInv
<1>3. refresh' = refresh /\ cached' = cached /\ settings' = settings
  BY DEF Committed, CommitItem
<1>4. \A v \in DOMAIN write : v # w => v \in DOMAIN write' /\ write'[v] = write[v]
  BY DEF Committed, CommitItem, Drop, Restrict
<1>5. CASE Unchanged(w)
  <2>1. row' = row /\ SameRow(k)
    BY <1>5 DEF Committed, CommitItem, SameRow
  <2>2. CASE Holds(w, n, k)
    <3>1. k \in DOMAIN row
      BY <1>1, <1>5, <2>2 DEF Holds, Unchanged, HistoryInv, FoundOK
    <3>2. settings[n][k] = CastOnSave[write[w].value] /\ write[w].node = n /\ write[w].key = k
      BY <2>2 DEF Holds
    <3>3. Cast[row[k].value] = CastOnSave[write[w].value]
      BY <1>2, <1>5, <3>2 DEF RacedBy
    <3>4. Agrees(n, k)'
      BY <1>3, <2>1, <3>1, <3>2, <3>3 DEF Agrees, Stored
    <3>5. ReadIsStored(n, k) => ReadIsStored(n, k)'
      BY <1>3, <2>1 DEF ReadIsStored
    <3> QED
      BY <1>2, <1>3, <3>4, <3>5 DEF KeyOK, Accounted, InPhase
  <2>3. CASE ~Holds(w, n, k)
    <3>1. KeepsWriters(n, k)
      BY <1>4, <2>3 DEF KeepsWriters, Holds
    <3> QED
      BY <1>2, <1>3, <2>1, <3>1, KeyKept
  <2> QED
    BY <2>2, <2>3
<1>6. CASE ~Unchanged(w)
  <2>1. row' = Put(row, write[w].key, [value |-> write[w].value, at |-> write[w].at])
    BY <1>6 DEF Committed, CommitItem
  <2>2. CASE write[w].key = k
    <3>1. n \notin Unaware(w)
      BY <1>2, <1>6, <2>2 DEF RacedBy
    <3>2. cached[n] \in {Never} \cup 0..MaxTime /\ cached[n] \in Int
      BY ConfigAssumption DEF HistoryInv, TypeOK, Never
    <3>3. write[w].at > cached[n] /\ ~InPhase(n, "read") /\ ~InPhase(n, "applied")
      BY <1>1, <3>1, <3>2 DEF Unaware
    <3>4. k \in DOMAIN row' /\ row'[k].at = write[w].at
      BY <2>1, <2>2 DEF Put
    <3>5. News(n, k)'
      BY <1>3, <3>3, <3>4 DEF News
    <3> QED
      BY <1>3, <3>3, <3>5 DEF KeyOK, InPhase
  <2>3. CASE write[w].key # k
    <3>1. SameRow(k)
      BY <2>1, <2>3 DEF SameRow, Put
    <3>2. KeepsWriters(n, k)
      BY <1>4, <2>3 DEF KeepsWriters, Holds
    <3> QED
      BY <1>2, <1>3, <3>1, <3>2, KeyKept
  <2> QED
    BY <2>2, <2>3
<1> QED
  BY <1>5, <1>6

LEMMA KeyFailed ==
    ASSUME HistoryInv, NEW w \in Writers, Failed(w),
           NEW n \in Nodes, NEW k \in Keys, <<n, k>> \notin raced'
    PROVE  KeyOK(n, k)'
<1>1. ~Holds(w, n, k)
  BY DEF Failed, LeftBy, Holds
<1>2. \A v \in DOMAIN write : v # w => v \in DOMAIN write' /\ write'[v] = write[v]
  BY DEF Failed, CommitFails, Drop, Restrict
<1>3. KeepsWriters(n, k)
  BY <1>1, <1>2 DEF KeepsWriters, Holds
<1>4. SameRow(k) /\ KeyOK(n, k)
  BY DEF Failed, CommitFails, SameRow, HistoryInv
<1> QED
  BY <1>3, <1>4, KeyKept DEF Failed, CommitFails

\* The steps of the refreshes of other nodes
LEMMA KeyElsewhere ==
    ASSUME HistoryInv, NEW m \in Nodes,
           Noticed(m) \/ RowsRead(m) \/ RowsApplied(m) \/ Stamped(m) \/ Abandoned(m) \/ Restarted(m),
           NEW n \in Nodes, n # m, NEW k \in Keys, <<n, k>> \notin raced'
    PROVE  KeyOK(n, k)'
<1>1. TypeOK
  BY DEF HistoryInv
<1>2. refresh'[n] = refresh[n]
  <2>1. MovesRefresh(m)
    BY <1>1, RefreshMoves DEF Noticed, RowsRead, RowsApplied, Stamped, Abandoned, Restarted
  <2> QED
    BY <1>1, <2>1 DEF MovesRefresh, TypeOK
<1>3. settings'[n] = settings[n] /\ cached'[n] = cached[n]
  BY <1>1
  DEF Noticed, RowsRead, RowsApplied, Stamped, Abandoned, Restarted, TypeOK,
      SeesNews, ReadRows, ApplyRows, Stamp, RefreshFails, Restart
<1>4. SameRow(k)
  BY DEF Noticed, RowsRead, RowsApplied, Stamped, Abandoned, Restarted, SameRow,
         SeesNews, ReadRows, ApplyRows, Stamp, RefreshFails, Restart
<1>5. KeepsWriters(n, k)
  BY DEF Noticed, RowsRead, RowsApplied, Stamped, Abandoned, Restarted, KeepsWriters, Holds,
         SeesNews, ReadRows, ApplyRows, Stamp, RefreshFails, Restart, Restrict
<1>6. <<n, k>> \notin raced
  BY DEF Noticed, RowsRead, RowsApplied, Stamped, Abandoned, Restarted
<1> QED
  BY <1>2, <1>3, <1>4, <1>5, <1>6, KeyKept DEF HistoryInv

\* Its own: what it has read it applies, and what it applies is the stored value.
LEMMA KeyRefreshed ==
    ASSUME HistoryInv, NEW n \in Nodes,
           Noticed(n) \/ RowsRead(n) \/ RowsApplied(n) \/ Stamped(n) \/ Abandoned(n),
           NEW k \in Keys, <<n, k>> \notin raced'
    PROVE  KeyOK(n, k)'
<1>1. TypeOK
  BY DEF HistoryInv
<1>2. SameRow(k) /\ KeepsWriters(n, k) /\ row' = row
  BY DEF Noticed, RowsRead, RowsApplied, Stamped, Abandoned, SameRow, KeepsWriters, Holds,
         SeesNews, ReadRows, ApplyRows, Stamp, RefreshFails
<1>3. settings'[n][k] = settings[n][k] /\ Accounted(n, k) => Accounted(n, k)'
  BY <1>2, AccountedKept
<1>4. cached'[n] = cached[n] /\ News(n, k) => News(n, k)'
  BY <1>2 DEF News
<1>5. CASE Noticed(n)
  <2>1. KeyOK(n, k) /\ InPhase(n, "idle")
    BY <1>5 DEF Noticed, SeesNews, HistoryInv
  <2>2. refresh'[n].phase = "stale" /\ settings' = settings /\ cached' = cached
    BY <1>1, <1>5, RefreshMoves DEF Noticed, SeesNews
  <2> QED
    BY <1>3, <1>4, <2>1, <2>2 DEF KeyOK, InPhase
<1>6. CASE RowsRead(n)
  <2>1. InPhase(n, "stale") /\ settings' = settings
    BY <1>6 DEF RowsRead, ReadRows
  <2>2. refresh'[n].phase = "read" /\ refresh'[n].rows = row
    BY <1>1, <1>6, RefreshMoves DEF RowsRead
  <2>3. CASE k \in DOMAIN row
    BY <1>2, <2>2, <2>3 DEF KeyOK, InPhase, ReadIsStored
  <2>4. CASE k \notin DOMAIN row
    <3>1. KeyOK(n, k)
      BY <1>6, <2>4 DEF RowsRead, HistoryInv
    <3>2. Accounted(n, k)
      BY <2>1, <2>4, <3>1 DEF KeyOK, News
    <3> QED
      BY <1>3, <2>1, <2>2, <2>4, <3>2 DEF KeyOK, InPhase
  <2> QED
    BY <2>3, <2>4
<1>7. CASE RowsApplied(n)
  <2>1. KeyOK(n, k) /\ InPhase(n, "read")
    BY <1>7 DEF RowsApplied, ApplyRows, HistoryInv
  <2>2. refresh'[n].phase = "applied"
    BY <1>1, <1>7, RefreshMoves DEF RowsApplied
  <2>3. settings'[n][k] = IF k \in DOMAIN refresh[n].rows
                          THEN Cast[refresh[n].rows[k].value] ELSE settings[n][k]
    BY <1>1, <1>7 DEF RowsApplied, ApplyRows, TypeOK
  <2>4. Accounted(n, k)'
    <3>1. CASE k \in DOMAIN refresh[n].rows
      <4>1. settings'[n][k] = Stored'[k]
        BY <1>2, <2>1, <2>3, <3>1 DEF KeyOK, ReadIsStored, Stored
      <4> QED
        BY <4>1 DEF Accounted, Agrees
    <3>2. CASE k \notin DOMAIN refresh[n].rows
      BY <1>3, <2>1, <2>3, <3>2 DEF KeyOK
    <3> QED
      BY <3>1, <3>2
  <2> QED
    BY <2>2, <2>4 DEF KeyOK, InPhase
<1>8. CASE Stamped(n)
  <2>1. KeyOK(n, k) /\ InPhase(n, "applied") /\ settings' = settings
    BY <1>8 DEF Stamped, Stamp, HistoryInv
  <2>2. refresh'[n].phase = "idle"
    BY <1>1, <1>8, RefreshMoves DEF Stamped, IdleAgain
  <2> QED
    BY <1>3, <2>1, <2>2 DEF KeyOK, InPhase
<1>9. CASE Abandoned(n)
  <2>1. /\ InPhase(n, "stale") \/ InPhase(n, "applied")
        /\ settings' = settings /\ cached' = cached
    BY <1>9 DEF Abandoned, RefreshFails
  <2>2. refresh'[n].phase = "idle"
    BY <1>1, <1>9, RefreshMoves DEF Abandoned, IdleAgain
  <2>3. KeyOK(n, k)
    BY <1>9 DEF Abandoned, HistoryInv
  <2>4. Accounted(n, k) \/ News(n, k)
    BY <2>1, <2>3 DEF KeyOK
  <2> QED
    BY <1>3, <1>4, <2>1, <2>2, <2>4 DEF KeyOK, InPhase
<1> QED
  BY <1>5, <1>6, <1>7, <1>8, <1>9

LEMMA KeyRestarted ==
    ASSUME HistoryInv, NEW n \in Nodes, Restarted(n), NEW k \in Keys
    PROVE  KeyOK(n, k)'
<1>1. TypeOK
  BY DEF HistoryInv
<1>2. refresh'[n].phase = "stale"
  BY <1>1, RefreshMoves DEF Restarted
<1>3. settings'[n] = Defaults /\ cached'[n] = Never /\ row' = row
  BY <1>1 DEF Restarted, Restart, TypeOK
<1>4. CASE k \in DOMAIN row
  <2>1. row[k].at \in 0..MaxTime
    BY <1>1, <1>4, LatestIsNewest DEF TypeOK
  <2>2. row[k].at > Never
    BY <2>1, ConfigAssumption DEF Never
  <2>3. News(n, k)'
    BY <1>3, <1>4, <2>2 DEF News
  <2> QED
    BY <1>2, <2>3 DEF KeyOK, InPhase
<1>5. CASE k \notin DOMAIN row
  <2>1. Agrees(n, k)'
    BY <1>3, <1>5 DEF Agrees, Stored
  <2> QED
    BY <1>2, <2>1 DEF KeyOK, InPhase, Accounted
<1> QED
  BY <1>4, <1>5

LEMMA NextHistory == HistoryInv /\ [HistoryNext]_allVars => HistoryInv'
<1> SUFFICES ASSUME HistoryInv, [HistoryNext]_allVars PROVE HistoryInv'
  OBVIOUS
<1>1. [Next]_vars
  BY DEF HistoryNext, allVars, Next, Ticked, Accepted, Applied, Committed, Failed, Noticed,
         RowsRead, RowsApplied, Stamped, Abandoned, Restarted
<1>2. TypeOK' /\ FoundOK'
  BY <1>1, NextTypeOK, FoundKept DEF HistoryInv
<1>3. ASSUME NEW n \in Nodes, NEW k \in Keys, <<n, k>> \notin raced'
      PROVE  KeyOK(n, k)'
  <2>1. CASE Ticked \/ UNCHANGED allVars
    <3>1. UNCHANGED <<row, settings, cached, refresh, write, raced>>
      BY <2>1 DEF Ticked, Tick, allVars, vars
    <3>2. SameRow(k) /\ KeepsWriters(n, k)
      BY <3>1 DEF SameRow, KeepsWriters, Holds
    <3> QED
      BY <1>3, <3>1, <3>2, KeyKept DEF HistoryInv
  <2>2. CASE \E w \in Writers, m \in Nodes, e \in Writes : Accepted(w, m, e)
    BY <1>3, <2>2, KeyAccepted
  <2>3. CASE \E w \in Writers : Applied(w) \/ Committed(w) \/ Failed(w)
    BY <1>3, <2>3, KeyApplied, KeyCommitted, KeyFailed
  <2>4. ASSUME NEW m \in Nodes,
               \/ Noticed(m) \/ RowsRead(m) \/ RowsApplied(m) \/ Stamped(m)
               \/ Abandoned(m) \/ Restarted(m)
        PROVE  KeyOK(n, k)'
    BY <1>3, <2>4, KeyElsewhere, KeyRefreshed, KeyRestarted
  <2> QED
    BY <2>1, <2>2, <2>3, <2>4 DEF HistoryNext
<1> QED
  BY <1>2, <1>3 DEF HistoryInv

\* No News for a node that has loaded the newest stamp.
LEMMA NoNews ==
    ASSUME TypeOK, NEW n \in Nodes, cached[n] >= Latest, NEW k \in Keys
    PROVE  ~News(n, k)
<1>1. cached[n] \in Int
  BY ConfigAssumption DEF TypeOK, Never
<1>2. Latest \in Int
  BY LatestIsNewest, ConfigAssumption DEF TypeOK, Never
<1>3. k \in DOMAIN row => row[k].at \in Int /\ row[k].at <= Latest
  BY LatestIsNewest, ConfigAssumption DEF TypeOK
<1> QED
  BY <1>1, <1>2, <1>3 DEF News

LEMMA InvMissesNothing == HistoryInv => NothingMissed
<1> SUFFICES ASSUME HistoryInv, NEW n \in Nodes, NEW k \in Keys, Settled(n), <<n, k>> \notin raced
             PROVE  Agrees(n, k)
  BY DEF NothingMissed
<1>1. KeyOK(n, k) /\ InPhase(n, "idle")
  BY DEF HistoryInv, Settled
<1>2. ~News(n, k)
  BY NoNews DEF HistoryInv, Settled
<1>3. \A w \in Writers : ~Holds(w, n, k)
  BY DEF Holds, Settled
<1> QED
  BY <1>1, <1>2, <1>3 DEF KeyOK, Accounted

\* A node that sees no news has the stored value of every setting for which it is
\* not raced: update_config, the refreshes, failures and restarts leave no other
\* way to miss a write.
THEOREM NothingIsMissed == HistorySpec => []NothingMissed
<1> QED
  BY InitHistory, NextHistory, InvMissesNothing, PTL DEF HistorySpec

---------------------------------------------------------------------------
(* The tasks *)

TasksTyped == task \in [Nodes -> {"none", "created", "running"}]

\* The loop exists as the settings of the node want it.
Synced(n) == (task[n] # "none") = ShouldRun(n, settings[n])

\* A setting given to the node will be committed, or not and leave it raced.
Writing(n) == \E w \in DOMAIN write : write[w].node = n /\ write[w].at # Never

AnyNews(n) == \E k \in Keys : News(n, k)

\* Unless the node is to reconcile once more, its loop is in step.
TaskOK(n) ==
    /\ InPhase(n, "idle") \/ InPhase(n, "stale")
    /\ ~refresh[n].boot
    /\ n \notin behind
    /\ ~Raced(n)
    => Synced(n) \/ Writing(n) \/ AnyNews(n)

\* A process that starts loads the table at once.
BootLoads == \A n \in Nodes : refresh[n].boot => ~InPhase(n, "idle")

SchedulerInv ==
    /\ HistoryInv
    /\ TasksTyped /\ behind \subseteq Nodes
    /\ BootLoads
    /\ \A n \in Nodes : TaskOK(n)

\* The steps of the tasks and the configuration are steps of the configuration.
LEMMA StepIsHistory == [SchedulerNext]_schedulerVars => [HistoryNext]_allVars
BY DEF SchedulerNext, schedulerVars, Begin, Loaded, GivenUp, Configured, Started, Elsewhere,
       HistoryNext

LEMMA HistoryIsConfig == [HistoryNext]_allVars => [Next]_vars
BY DEF HistoryNext, allVars, Next, Ticked, Accepted, Applied, Committed, Failed, Noticed,
       RowsRead, RowsApplied, Stamped, Abandoned, Restarted

LEMMA ReconcileSyncs ==
    ASSUME TasksTyped, NEW n \in Nodes, Reconcile(n), settings'[n] = settings[n]
    PROVE  /\ TasksTyped' /\ Synced(n)'
           /\ \A m \in Nodes : m # n => task'[m] = task[m]
BY DEF TasksTyped, Reconcile, Synced, ShouldRun

LEMMA BeginSyncs ==
    ASSUME TasksTyped, NEW n \in Nodes, Begin(n)
    PROVE  /\ TasksTyped' /\ Synced(n)'
           /\ \A m \in Nodes : m # n => task'[m] = task[m]
BY DEF TasksTyped, Begin, Synced, ShouldRun, allVars, vars

LEMMA NextTasksTyped ==
    ASSUME HistoryInv, TasksTyped, behind \subseteq Nodes, [SchedulerNext]_schedulerVars
    PROVE  TasksTyped' /\ behind' \subseteq Nodes
<1>1. ASSUME NEW n \in Nodes, Begin(n)
      PROVE  TasksTyped' /\ behind' \subseteq Nodes
  BY <1>1, BeginSyncs DEF Begin
<1>2. ASSUME NEW n \in Nodes, Loaded(n)
      PROVE  TasksTyped' /\ behind' \subseteq Nodes
  <2>1. settings'[n] = settings[n]
    BY <1>2 DEF Loaded, Stamped, Stamp, Abandoned, RefreshFails
  <2> QED
    BY <1>2, <2>1, ReconcileSyncs DEF Loaded
<1>3. ASSUME NEW n \in Nodes, GivenUp(n)
      PROVE  TasksTyped' /\ behind' \subseteq Nodes
  BY <1>3 DEF GivenUp, TasksTyped
<1>4. ASSUME NEW n \in Nodes, Started(n)
      PROVE  TasksTyped' /\ behind' \subseteq Nodes
  BY <1>4 DEF Started, TasksTyped
<1>5. ASSUME NEW w \in Writers, Configured(w)
      PROVE  TasksTyped' /\ behind' \subseteq Nodes
  <2>1. write[w].node \in Nodes
    BY <1>5
    DEF Configured, Committed, CommitItem, HistoryInv, TypeOK, IsMapping, WriteStates
  <2>2. settings' = settings
    BY <1>5 DEF Configured, Committed, CommitItem
  <2> QED
    BY <1>5, <2>1, <2>2, ReconcileSyncs DEF Configured
<1>6. CASE Elsewhere \/ UNCHANGED schedulerVars
  BY <1>6 DEF Elsewhere, schedulerVars, TasksTyped
<1> QED
  BY <1>1, <1>2, <1>3, <1>4, <1>5, <1>6 DEF SchedulerNext

LEMMA NextBootLoads ==
    ASSUME TypeOK, BootLoads, [HistoryNext]_allVars
    PROVE  BootLoads'
<1>1. CASE refresh' = refresh
  BY <1>1 DEF BootLoads, InPhase
<1>2. ASSUME NEW n \in Nodes,
             SeesNews(n) \/ ReadRows(n) \/ ApplyRows(n) \/ Stamp(n) \/ RefreshFails(n) \/ Restart(n)
      PROVE  BootLoads'
  <2>1. \A m \in Nodes : m # n => refresh'[m] = refresh[m]
    BY <1>2, RefreshMoves DEF MovesRefresh, TypeOK
  <2>2. refresh'[n].boot => refresh'[n].phase # "idle"
    BY <1>2, RefreshMoves DEF IdleAgain
  <2> QED
    BY <2>1, <2>2 DEF BootLoads, InPhase
<1> QED
  BY <1>1, <1>2, HistoryIsConfig
  DEF Next, vars, Tick, ReadItem, ApplyItem, CommitItem, CommitFails

---------------------------------------------------------------------------
(* One lemma per step: the task of a node *)

\* The node has as much left to do as before.
LEMMA TaskKept ==
    ASSUME NEW n \in Nodes, TaskOK(n),
           task'[n] = task[n], settings'[n] = settings[n],
           InPhase(n, "idle")' \/ InPhase(n, "stale")' => InPhase(n, "idle") \/ InPhase(n, "stale"),
           refresh'[n].boot = refresh[n].boot,
           n \in behind => n \in behind', Raced(n) => Raced(n)',
           Writing(n) => Writing(n)', AnyNews(n) => AnyNews(n)' \/ Raced(n)'
    PROVE  TaskOK(n)'
BY DEF TaskOK, Synced

LEMMA NewsKept ==
    ASSUME NEW n \in Nodes, row' = row, cached'[n] = cached[n]
    PROVE  AnyNews(n) => AnyNews(n)'
BY DEF AnyNews, News

LEMMA TaskBegun ==
    ASSUME SchedulerInv, NEW m \in Nodes, Begin(m), NEW n \in Nodes
    PROVE  TaskOK(n)'
<1>1. TaskOK(n) /\ TasksTyped
  BY DEF SchedulerInv
<1>2. UNCHANGED <<row, settings, cached, refresh, write, raced, behind>>
  BY DEF Begin, allVars, vars
<1>3. CASE n = m
  BY <1>1, <1>3, BeginSyncs DEF TaskOK
<1>4. CASE n # m
  <2>1. task'[n] = task[n]
    BY <1>1, <1>4, BeginSyncs
  <2>2. AnyNews(n) => AnyNews(n)'
    BY <1>2, NewsKept
  <2>3. Raced(n)' = Raced(n) /\ Writing(n)' = Writing(n)
    BY <1>2 DEF Raced, Writing
  <2>4. InPhase(n, "idle")' = InPhase(n, "idle") /\ InPhase(n, "stale")' = InPhase(n, "stale")
    BY <1>2 DEF InPhase
  <2> QED
    BY <1>1, <1>2, <2>1, <2>2, <2>3, <2>4, TaskKept
<1> QED
  BY <1>3, <1>4

\* The steps of the refresh and the restart of another node
LEMMA TaskElsewhere ==
    ASSUME SchedulerInv, NEW m \in Nodes, NEW n \in Nodes, n # m,
           Noticed(m) \/ RowsRead(m) \/ RowsApplied(m) \/ Stamped(m) \/ Abandoned(m) \/ Restarted(m),
           task'[n] = task[n], n \in behind => n \in behind'
    PROVE  TaskOK(n)'
<1>1. TaskOK(n) /\ TypeOK
  BY DEF SchedulerInv, HistoryInv
<1>2. refresh'[n] = refresh[n]
  <2>1. MovesRefresh(m)
    BY <1>1, RefreshMoves DEF Noticed, RowsRead, RowsApplied, Stamped, Abandoned, Restarted
  <2> QED
    BY <1>1, <2>1 DEF MovesRefresh, TypeOK
<1>3. settings'[n] = settings[n] /\ cached'[n] = cached[n]
  BY <1>1
  DEF Noticed, RowsRead, RowsApplied, Stamped, Abandoned, Restarted, TypeOK,
      SeesNews, ReadRows, ApplyRows, Stamp, RefreshFails, Restart
<1>4. row' = row
  BY DEF Noticed, RowsRead, RowsApplied, Stamped, Abandoned, Restarted,
         SeesNews, ReadRows, ApplyRows, Stamp, RefreshFails, Restart
<1>5. Writing(n) => Writing(n)'
  BY DEF Noticed, RowsRead, RowsApplied, Stamped, Abandoned, Restarted, Writing,
         SeesNews, ReadRows, ApplyRows, Stamp, RefreshFails, Restart, Restrict
<1>6. Raced(n) => Raced(n)'
  BY DEF Noticed, RowsRead, RowsApplied, Stamped, Abandoned, Restarted, Raced
<1>7. AnyNews(n) => AnyNews(n)'
  BY <1>3, <1>4, NewsKept
<1>8. InPhase(n, "idle")' = InPhase(n, "idle") /\ InPhase(n, "stale")' = InPhase(n, "stale")
  BY <1>2 DEF InPhase
<1> QED
  BY <1>1, <1>2, <1>3, <1>5, <1>6, <1>7, <1>8, TaskKept

\* Its own: the rows are applied in full before the task is.
LEMMA TaskRefreshed ==
    ASSUME SchedulerInv, NEW n \in Nodes,
           \/ Loaded(n) \/ Started(n)
           \/ RowsRead(n) \/ RowsApplied(n)
    PROVE  TaskOK(n)'
<1>1. TypeOK /\ TasksTyped
  BY DEF SchedulerInv, HistoryInv
<1>2. CASE Loaded(n)
  <2>1. settings'[n] = settings[n] /\ Reconcile(n)
    BY <1>2 DEF Loaded, Stamped, Stamp, Abandoned, RefreshFails
  <2> QED
    BY <1>1, <2>1, ReconcileSyncs DEF TaskOK
<1>3. CASE Started(n)
  <2>1. refresh'[n].boot = TRUE
    BY <1>1, <1>3, RefreshMoves DEF Started, Restarted
  <2> QED
    BY <2>1 DEF TaskOK
<1>4. CASE RowsRead(n) \/ RowsApplied(n)
  <2>1. refresh'[n].phase \in {"read", "applied"}
    BY <1>1, <1>4, RefreshMoves DEF RowsRead, RowsApplied
  <2> QED
    BY <2>1 DEF TaskOK, InPhase
<1> QED
  BY <1>2, <1>3, <1>4

LEMMA TaskNoticed ==
    ASSUME SchedulerInv, NEW n \in Nodes, Noticed(n), UNCHANGED <<task, behind>>
    PROVE  TaskOK(n)'
<1>1. TaskOK(n) /\ TypeOK /\ InPhase(n, "idle")
  BY DEF SchedulerInv, HistoryInv, Noticed, SeesNews
<1>2. refresh'[n].boot = refresh[n].boot
  BY <1>1, RefreshMoves DEF Noticed
<1>3. UNCHANGED <<row, settings, cached, write, raced>>
  BY DEF Noticed, SeesNews
<1>4. AnyNews(n) => AnyNews(n)'
  BY <1>3, NewsKept
<1>5. Raced(n)' = Raced(n) /\ Writing(n)' = Writing(n)
  BY <1>3 DEF Raced, Writing
<1> QED
  BY <1>1, <1>2, <1>3, <1>4, <1>5, TaskKept

\* Given up before the rows are applied, the refresh has changed nothing. After
\* that, a row newer than what the node has loaded makes it try again.
LEMMA TaskGivenUp ==
    ASSUME SchedulerInv, NEW n \in Nodes, GivenUp(n)
    PROVE  TaskOK(n)'
<1>1. TaskOK(n) /\ TypeOK
  BY DEF SchedulerInv, HistoryInv
<1>2. UNCHANGED <<row, settings, cached, write, raced, task>>
  BY DEF GivenUp, Abandoned, RefreshFails
<1>3. CASE InPhase(n, "stale")
  <2>1. refresh[n].boot = FALSE /\ refresh'[n].boot = FALSE /\ behind \subseteq behind'
    BY <1>1, RefreshMoves DEF GivenUp, Abandoned, IdleAgain, TypeOK, LoadStates
  <2>2. AnyNews(n) => AnyNews(n)'
    BY <1>2, NewsKept
  <2>3. Raced(n)' = Raced(n) /\ Writing(n)' = Writing(n)
    BY <1>2 DEF Raced, Writing
  <2> QED
    BY <1>1, <1>2, <1>3, <2>1, <2>2, <2>3, TaskKept
<1>4. CASE InPhase(n, "applied")
  <2>1. CASE Latest <= cached[n]
    BY <1>4, <2>1 DEF GivenUp, TaskOK
  <2>2. CASE ~(Latest <= cached[n])
    <3>1. cached[n] \in Int /\ cached[n] >= Never
      BY <1>1, ConfigAssumption DEF TypeOK, Never
    <3>2. Latest \in Int
      BY <1>1, LatestIsNewest, ConfigAssumption DEF TypeOK, Never
    <3>3. Latest > cached[n] /\ Latest # Never
      BY <2>2, <3>1, <3>2 DEF Never
    <3>4. PICK k \in DOMAIN row : row[k].at = Latest
      BY <1>1, <3>3, LatestIsNewest DEF TypeOK
    <3>5. k \in Keys
      BY <1>1 DEF TypeOK, IsMapping
    <3>6. AnyNews(n)'
      BY <1>2, <3>3, <3>4, <3>5 DEF AnyNews, News
    <3> QED
      BY <3>6 DEF TaskOK
  <2> QED
    BY <2>1, <2>2
<1> QED
  BY <1>3, <1>4 DEF GivenUp, Abandoned, RefreshFails

\* A row that replaces the news of a node is news, or the node is raced.
LEMMA TaskConfigured ==
    ASSUME SchedulerInv, NEW w \in Writers, Configured(w), NEW n \in Nodes
    PROVE  TaskOK(n)'
<1>1. TaskOK(n) /\ TypeOK /\ TasksTyped
  BY DEF SchedulerInv, HistoryInv
<1>2. /\ w \in DOMAIN write /\ write[w] \in WriteStates /\ write[w].at \in 0..MaxTime
      /\ write[w].node \in Nodes /\ write[w].key \in Keys
  BY <1>1 DEF Configured, Committed, CommitItem, TypeOK, IsMapping, WriteStates
<1>3. UNCHANGED <<settings, cached, refresh>>
  BY DEF Configured, Committed, CommitItem
<1>4. CASE n = write[w].node
  BY <1>1, <1>3, <1>4, ReconcileSyncs DEF Configured, TaskOK
<1>5. CASE n # write[w].node
  <2>1. task'[n] = task[n]
    BY <1>1, <1>2, <1>3, <1>5, ReconcileSyncs DEF Configured
  <2>2. \A v \in DOMAIN write : v # w => v \in DOMAIN write' /\ write'[v] = write[v]
    BY DEF Configured, Committed, CommitItem, Drop, Restrict
  <2>3. Writing(n) => Writing(n)'
    BY <1>5, <2>2 DEF Writing
  <2>4. Raced(n) => Raced(n)'
    BY DEF Configured, Committed, Raced
  <2>5. AnyNews(n) => AnyNews(n)' \/ Raced(n)'
    <3> SUFFICES ASSUME NEW k \in Keys, News(n, k), ~Raced(n)' PROVE News(n, k)'
      BY DEF AnyNews
    <3>1. CASE Unchanged(w) \/ write[w].key # k
      <4>1. SameRow(k)
        BY <3>1 DEF Configured, Committed, CommitItem, SameRow, Put
      <4> QED
        BY <1>3, <4>1 DEF News, SameRow
    <3>2. CASE ~Unchanged(w) /\ write[w].key = k
      <4>1. <<n, k>> \notin RacedBy(w)
        BY DEF Raced, Configured, Committed
      <4>2. n \notin Unaware(w)
        BY <3>2, <4>1 DEF RacedBy
      <4>3. cached[n] \in Int
        BY <1>1, ConfigAssumption DEF TypeOK, Never
      <4>4. write[w].at > cached[n]
        BY <1>2, <4>2, <4>3 DEF Unaware
      <4>5. k \in DOMAIN row' /\ row'[k].at = write[w].at
        BY <3>2 DEF Configured, Committed, CommitItem, Put
      <4> QED
        BY <1>3, <4>4, <4>5 DEF News
    <3> QED
      BY <3>1, <3>2
  <2>6. n \in behind => n \in behind'
    BY <1>5 DEF Configured
  <2>7. InPhase(n, "idle")' = InPhase(n, "idle") /\ InPhase(n, "stale")' = InPhase(n, "stale")
    BY <1>3 DEF InPhase
  <2> QED
    BY <1>1, <1>3, <2>1, <2>3, <2>4, <2>5, <2>6, <2>7, TaskKept
<1> QED
  BY <1>4, <1>5

\* The other steps of update_config
LEMMA TaskWritten ==
    ASSUME SchedulerInv, NEW w \in Writers, UNCHANGED <<task, behind>>,
           \/ Applied(w) \/ Failed(w)
           \/ \E m \in Nodes, e \in Writes : Accepted(w, m, e),
           NEW n \in Nodes
    PROVE  TaskOK(n)'
<1>1. TaskOK(n) /\ TypeOK
  BY DEF SchedulerInv, HistoryInv
<1>2. UNCHANGED <<row, cached, refresh>>
  BY DEF Applied, ApplyItem, Failed, CommitFails, Accepted, ReadItem
<1>3. AnyNews(n) => AnyNews(n)'
  BY <1>2, NewsKept
<1>4. InPhase(n, "idle")' = InPhase(n, "idle") /\ InPhase(n, "stale")' = InPhase(n, "stale")
  BY <1>2 DEF InPhase
<1>5. Raced(n) => Raced(n)'
  BY DEF Applied, Failed, Accepted, Raced
<1>6. CASE Applied(w)
  <2>1. /\ w \in DOMAIN write /\ write[w] \in WriteStates /\ write[w].node \in Nodes
        /\ now \in 0..MaxTime /\ now # Never /\ settings \in [Nodes -> [Keys -> Values]]
    BY <1>1, <1>6, ConfigAssumption
    DEF Applied, ApplyItem, TypeOK, IsMapping, WriteStates, Never
  <2>2. /\ w \in DOMAIN write' /\ write'[w].at = now /\ write'[w].node = write[w].node
        /\ \A v \in DOMAIN write : v # w => v \in DOMAIN write' /\ write'[v] = write[v]
    BY <1>6, <2>1 DEF Applied, ApplyItem, WriteStates
  <2>3. CASE n = write[w].node
    BY <2>1, <2>2, <2>3 DEF Writing, TaskOK
  <2>4. CASE n # write[w].node
    <3>1. settings'[n] = settings[n]
      BY <1>6, <2>1, <2>4 DEF Applied, ApplyItem
    <3>2. Writing(n) => Writing(n)'
      BY <2>2, <2>4 DEF Writing
    <3> QED
      BY <1>1, <1>2, <1>3, <1>4, <1>5, <3>1, <3>2, TaskKept
  <2> QED
    BY <2>3, <2>4
<1>7. CASE Failed(w)
  <2>1. \A v \in DOMAIN write : v # w => v \in DOMAIN write' /\ write'[v] = write[v]
    BY <1>7 DEF Failed, CommitFails, Drop, Restrict
  <2>2. CASE n = write[w].node /\ write[w].at # Never
    <3>1. w \in DOMAIN write /\ write[w] \in WriteStates /\ write[w].key \in Keys
      BY <1>1, <1>7 DEF Failed, CommitFails, TypeOK, IsMapping, WriteStates
    <3>2. Raced(n)'
      BY <1>7, <2>2, <3>1 DEF Failed, LeftBy, Raced
    <3> QED
      BY <3>2 DEF TaskOK
  <2>3. CASE ~(n = write[w].node /\ write[w].at # Never)
    <3>1. Writing(n) => Writing(n)'
      BY <2>1, <2>3 DEF Writing
    <3>2. settings' = settings
      BY <1>7 DEF Failed, CommitFails
    <3> QED
      BY <1>1, <1>2, <1>3, <1>4, <1>5, <3>1, <3>2, TaskKept
  <2> QED
    BY <2>2, <2>3
<1>8. ASSUME NEW m \in Nodes, NEW e \in Writes, Accepted(w, m, e)
      PROVE  TaskOK(n)'
  <2>1. \A v \in DOMAIN write : v \in DOMAIN write' /\ write'[v] = write[v]
    BY <1>8 DEF Accepted, ReadItem, Put
  <2>2. Writing(n) => Writing(n)'
    BY <2>1 DEF Writing
  <2>3. settings' = settings
    BY <1>8 DEF Accepted, ReadItem
  <2> QED
    BY <1>1, <1>2, <1>3, <1>4, <1>5, <2>2, <2>3, TaskKept
<1> QED
  BY <1>6, <1>7, <1>8

LEMMA InitScheduler == SchedulerInit => SchedulerInv
<1> SUFFICES ASSUME SchedulerInit PROVE SchedulerInv
  OBVIOUS
<1>1. HistoryInv
  BY InitHistory DEF SchedulerInit
<1>2. TasksTyped /\ behind = {}
  BY DEF SchedulerInit, TasksTyped
<1>3. \A n \in Nodes : refresh[n].boot = FALSE
  BY DEF SchedulerInit, HistoryInit, Init, Idle
<1>4. \A n \in Nodes : settings[n] = Defaults
  BY DEF SchedulerInit, HistoryInit, Init
<1>5. \A n \in Nodes : Synced(n)
  BY <1>4 DEF SchedulerInit, Synced, ShouldRun
<1> QED
  BY <1>1, <1>2, <1>3, <1>5 DEF SchedulerInv, BootLoads, TaskOK

LEMMA NextScheduler == SchedulerInv /\ [SchedulerNext]_schedulerVars => SchedulerInv'
<1> SUFFICES ASSUME SchedulerInv, [SchedulerNext]_schedulerVars PROVE SchedulerInv'
  OBVIOUS
<1>1. HistoryInv' /\ BootLoads'
  BY StepIsHistory, NextHistory, NextBootLoads DEF SchedulerInv, HistoryInv
<1>2. TasksTyped' /\ behind' \subseteq Nodes
  BY NextTasksTyped DEF SchedulerInv
<1>3. ASSUME NEW n \in Nodes
      PROVE  TaskOK(n)'
  <2>1. ASSUME NEW m \in Nodes, Begin(m) \/ Loaded(m) \/ GivenUp(m) \/ Started(m)
        PROVE  TaskOK(n)'
    <3>1. CASE n = m
      BY <2>1, <3>1, TaskBegun, TaskRefreshed, TaskGivenUp
    <3>2. CASE n # m
      <4>1. CASE Begin(m)
        BY <4>1, TaskBegun
      <4>2. CASE Loaded(m)
        <5>1. settings'[m] = settings[m] /\ TasksTyped
          BY <4>2 DEF SchedulerInv, Loaded, Stamped, Stamp, Abandoned, RefreshFails
        <5>2. task'[n] = task[n]
          BY <3>2, <4>2, <5>1, ReconcileSyncs DEF Loaded
        <5> QED
          BY <3>2, <4>2, <5>2, TaskElsewhere DEF Loaded
      <4>3. CASE GivenUp(m)
        BY <3>2, <4>3, TaskElsewhere DEF GivenUp
      <4>4. CASE Started(m)
        BY <3>2, <4>4, TaskElsewhere DEF Started, SchedulerInv, TasksTyped
      <4> QED
        BY <2>1, <4>1, <4>2, <4>3, <4>4
    <3> QED
      BY <3>1, <3>2
  <2>2. ASSUME NEW w \in Writers, Configured(w)
        PROVE  TaskOK(n)'
    BY <2>2, TaskConfigured
  <2>3. CASE Elsewhere
    <3>1. UNCHANGED <<task, behind>>
      BY <2>3 DEF Elsewhere
    <3>2. ASSUME NEW m \in Nodes, Noticed(m) \/ RowsRead(m) \/ RowsApplied(m)
          PROVE  TaskOK(n)'
      <4>1. CASE n = m
        BY <3>1, <3>2, <4>1, TaskNoticed, TaskRefreshed
      <4>2. CASE n # m
        BY <3>1, <3>2, <4>2, TaskElsewhere
      <4> QED
        BY <4>1, <4>2
    <3>3. CASE Ticked
      BY <3>1, <3>3
      DEF Ticked, Tick, SchedulerInv, TaskOK, Synced, Writing, AnyNews, News, Raced, InPhase
    <3>4. ASSUME NEW w \in Writers,
                 \/ Applied(w) \/ Failed(w)
                 \/ \E m \in Nodes, e \in Writes : Accepted(w, m, e)
          PROVE  TaskOK(n)'
      BY <3>1, <3>4, TaskWritten
    <3> QED
      BY <2>3, <3>2, <3>3, <3>4 DEF Elsewhere
  <2>4. CASE UNCHANGED schedulerVars
    BY <2>4
    DEF schedulerVars, allVars, vars, SchedulerInv, TaskOK, Synced, Writing, AnyNews, News,
        Raced, InPhase
  <2> QED
    BY <2>1, <2>2, <2>3, <2>4 DEF SchedulerNext
<1> QED
  BY <1>1, <1>2, <1>3 DEF SchedulerInv

LEMMA InvTasksFollow == SchedulerInv => TasksFollowTable
<1> SUFFICES ASSUME SchedulerInv, NEW n \in Nodes \ behind, Settled(n), ~Raced(n)
             PROVE  (task[n] # "none") = ShouldRun(n, Stored)
  BY DEF TasksFollowTable
<1>1. TaskOK(n) /\ HistoryInv /\ InPhase(n, "idle")
  BY DEF SchedulerInv, Settled
<1>2. ~AnyNews(n) /\ ~Writing(n)
  BY <1>1, NoNews DEF AnyNews, Writing, Settled, HistoryInv
<1>3. ~refresh[n].boot
  BY <1>1 DEF SchedulerInv, BootLoads
<1>4. Synced(n)
  BY <1>1, <1>2, <1>3 DEF TaskOK
<1>5. Agrees(n, "enabled") /\ Agrees(n, "leader")
  BY <1>1, InvMissesNothing, SchedulerAssumption DEF NothingMissed, Raced
<1> QED
  BY <1>4, <1>5 DEF Synced, ShouldRun, Agrees

---------------------------------------------------------------------------
(* The theorems *)

\* The composition with the tasks takes only steps of the configuration.
THEOREM ComposesWithConfig == SchedulerSpec => HistorySpec
<1> QED
  BY StepIsHistory, PTL DEF SchedulerSpec, SchedulerInit, HistorySpec

\* Values keep their types.
THEOREM TypeCorrect == SchedulerSpec => []SchedulerTypeOK
<1>1. SchedulerInv => SchedulerTypeOK
  BY DEF SchedulerInv, HistoryInv, TasksTyped, SchedulerTypeOK
<1> QED
  BY <1>1, InitScheduler, NextScheduler, PTL DEF SchedulerSpec

\* reconcile_background_tasks after each write and each refresh is enough: a node
\* that sees no news, is not raced and has not given up has the loop if and only
\* if the stored settings want it.
THEOREM TasksFollow == SchedulerSpec => []TasksFollowTable
<1> QED
  BY InitScheduler, NextScheduler, InvTasksFollow, PTL DEF SchedulerSpec

==========================================================================
