----------------------------- MODULE ScanProofs -----------------------------
(***************************************************************************)
(* Theorems about the scanner, for any number of scanners, tables, rows,   *)
(* modes, budgets, faults and crashes.                                     *)
(*                                                                         *)
(* The notion that carries them is Covered: every row up to a key was      *)
(* queued, except the late ones.  It survives a write of QQ because the    *)
(* key is that of a row that is there, so that a new row behind it is late *)
(* by definition.                                                          *)
(***************************************************************************)
EXTENDS CollectorScan, FiniteSetTheorems, WellFoundedInduction, TLAPS

Covered(t, c) ==
    \A k \in present[t] : k <= c /\ k \notin late[t] => k \in queued[t]

Anchored(t, c) == (c # 0 => c \in present[t]) /\ Covered(t, c)

Reading == {"copy", "table", "page", "save"}

SourceInv ==
    \A t \in TableIds : Backlog[t] \subseteq present[t] /\ Backlog[t] \intersect late[t] = {}

CursorInv == \A t \in TableIds : Anchored(t, cursor[t])

\* A copy misses only rows that are late or above all of its own.
IsCopy(t, keys) ==
    /\ keys \subseteq present[t]
    /\ Backlog[t] \subseteq keys
    /\ \A k \in present[t] \ keys : k \in late[t] \/ \A j \in keys : j < k

ViewOK(s) == pc[s] \in Reading =>
    /\ at[s] \in TableIds
    /\ \A t \in TableIds : DbOf[t] = DbOf[at[s]] => IsCopy(t, view[s][t])

PageOK(s) == pc[s] \in {"page", "save"} => Anchored(at[s], page[s])

Done(t) == Backlog[t] \subseteq queued[t]

ShortOK(s) == pc[s] = "save" /\ short[s] => Done(at[s])

\* A walk that met no issue and no limit has left nothing behind.
WalkOK(s) ==
    /\ pc[s] \in {"idle", "down"} => at[s] = 1
    /\ pc[s] \notin {"idle", "down"} /\ ~issues[s] /\ ~more[s] =>
          \A t \in TableIds : t < at[s] => Done(t)
    /\ pc[s] = "end" /\ ~more[s] => at[s] > Len(Tables)

ScannerInv(s) == ViewOK(s) /\ PageOK(s) /\ ShortOK(s) /\ WalkOK(s)

ScanInv ==
    /\ SourceInv /\ CursorInv /\ InitialScanIsComplete
    /\ \A s \in Scanners : ScannerInv(s)

-----------------------------------------------------------------------------
(* Helpers *)

LEMMA TablesAreNumbered ==
    /\ Len(Tables) \in Nat
    /\ TableIds \subseteq Nat
    /\ \A i : i \in TableIds <=> i \in Nat /\ 1 <= i /\ i <= Len(Tables)
<1>1. Len(Tables) \in Nat
  <2>1. Tables \in Seq(STRING)
    BY ScanAssumption
  <2>2. QED
    BY <2>1
<1>2. QED
  BY <1>1 DEF TableIds

LEMMA Numbers ==
    /\ MaxKey \in Nat /\ 0 \in 0..MaxKey /\ Keys \subseteq 0..MaxKey
    /\ 0 \in 0..Retries /\ 1 \in 0..Retries
    /\ 0 \in 0..MaxFaults /\ 0 \in 0..MaxCrashes
    /\ 1 \in 1..Len(Tables) + 1
    /\ Daemon \in Scanners
<1>1. /\ MaxKey \in Nat /\ Retries \in Nat \ {0} /\ MaxFaults \in Nat /\ MaxCrashes \in Nat
      /\ Daemon \in Scanners
  BY ScanAssumption
<1>2. QED
  BY <1>1, TablesAreNumbered DEF Keys

\* A walk that leaves a database goes on behind the table it was at.
LEMMA NextDatabaseIsAhead ==
    ASSUME NEW i \in TableIds
    PROVE  NextDatabase(i) \in Nat /\ i < NextDatabase(i) /\ NextDatabase(i) <= Len(Tables) + 1
<1> DEFINE S == {j \in Nat : j \in (i + 1)..(Len(Tables) + 1) /\ (j <= Len(Tables) => DbOf[j] # DbOf[i])}
<1> DEFINE R == OpToRel(<, Nat)
<1>1. S \subseteq Nat /\ Len(Tables) + 1 \in S
  BY TablesAreNumbered
<1>2. \E x \in S : \A y \in S : ~(<<y, x>> \in R)
  <2>1. IsWellFoundedOn(R, Nat)
    BY NatLessThanWellFounded
  <2>2. S # {}
    BY <1>1
  <2> HIDE DEF S, R
  <2>3. QED
    BY <1>1, <2>1, <2>2, WFMin
<1>3. PICK x \in S : \A y \in S : ~(<<y, x>> \in R)
  BY <1>2
<1>4. \A y \in S : ~(y < x)
  BY <1>3 DEF OpToRel
<1>5. \A h \in (i + 1)..(x - 1) : DbOf[h] = DbOf[i]
  <2> SUFFICES ASSUME NEW h \in (i + 1)..(x - 1), DbOf[h] # DbOf[i] PROVE FALSE
    OBVIOUS
  <2>1. h \in Nat /\ h < x /\ x <= Len(Tables) + 1 /\ i + 1 <= h
    BY TablesAreNumbered
  <2>2. h \in S
    BY <2>1, TablesAreNumbered
  <2>3. QED
    BY <2>1, <2>2, <1>4
<1>6. \E j \in (i + 1)..(Len(Tables) + 1) :
          /\ j <= Len(Tables) => DbOf[j] # DbOf[i]
          /\ \A h \in (i + 1)..(j - 1) : DbOf[h] = DbOf[i]
  BY <1>5
<1>7. NextDatabase(i) \in (i + 1)..(Len(Tables) + 1)
  BY <1>6 DEF NextDatabase
<1>8. QED
  BY <1>7, TablesAreNumbered

LEMMA KeysAreFinite ==
    ASSUME NEW K, K \subseteq Keys
    PROVE  IsFiniteSet(K) /\ Cardinality(K) \in Nat
<1>1. IsFiniteSet(Keys)
  BY ScanAssumption, FS_Interval DEF Keys
<1>2. IsFiniteSet(K)
  BY <1>1, FS_Subset
<1>3. QED
  BY <1>2, FS_CardinalityType

LEMMA AheadType ==
    ASSUME ScanTypeOK, NEW s \in Scanners, at[s] \in TableIds
    PROVE  /\ NextDatabase(at[s]) \in 1..Len(Tables) + 1
           /\ at[s] + 1 \in 1..Len(Tables) + 1
<1> DEFINE i == at[s]
           n == NextDatabase(i)
<1>1. n \in Nat /\ i < n /\ n <= Len(Tables) + 1
  BY NextDatabaseIsAhead
<1>2. i \in Nat /\ 1 <= i /\ i <= Len(Tables)
  BY TablesAreNumbered
<1> HIDE DEF i, n
<1>3. n \in 1..Len(Tables) + 1 /\ i + 1 \in 1..Len(Tables) + 1
  BY <1>1, <1>2, TablesAreNumbered
<1>4. QED
  BY <1>3 DEF i, n

LEMMA LeaveType ==
    ASSUME ScanTypeOK, NEW s \in Scanners, at[s] \in TableIds, LeaveDatabase(s) \/ AfterTable(s)
    PROVE  at' \in [Scanners -> 1..Len(Tables) + 1] /\ pc' \in [Scanners -> Steps]
<1> DEFINE T == 1..Len(Tables) + 1
<1>1. at \in [Scanners -> T] /\ pc \in [Scanners -> Steps]
  BY DEF ScanTypeOK
<1>2. NextDatabase(at[s]) \in T /\ at[s] + 1 \in T
  BY AheadType
<1>3. \/ at' = [at EXCEPT ![s] = NextDatabase(at[s])]
      \/ at' = [at EXCEPT ![s] = at[s] + 1]
  BY DEF LeaveDatabase, AfterTable
<1> HIDE DEF T
<1>4. at' \in [Scanners -> T]
  BY <1>1, <1>2, <1>3
<1>5. pc' \in [Scanners -> Steps]
  BY <1>1 DEF LeaveDatabase, AfterTable, Goto, Steps
<1>6. QED
  BY <1>4, <1>5 DEF T

\* The keys a scanner may read.
LEMMA SelectedType ==
    ASSUME ScanTypeOK, NEW s \in Scanners, at[s] \in TableIds
    PROVE  Selected(s) \subseteq Keys
BY DEF ScanTypeOK, Selected

-----------------------------------------------------------------------------
(* Types *)

LEMMA ScanInitially == ScanInit => ScanTypeOK /\ ScanInv
<1> SUFFICES ASSUME ScanInit PROVE ScanTypeOK /\ ScanInv
  OBVIOUS
<1>1. ScanTypeOK
  <2>1. /\ present \in [TableIds -> SUBSET Keys] /\ late \in [TableIds -> SUBSET Keys]
        /\ queued \in [TableIds -> SUBSET Keys]
    BY ScanAssumption DEF ScanInit
  <2>2. /\ cursor \in [TableIds -> 0..MaxKey]
        /\ page \in [Scanners -> 0..MaxKey] /\ saved \in [Scanners -> 0..MaxKey]
    BY Numbers DEF ScanInit
  <2>3. at \in [Scanners -> 1..Len(Tables) + 1] /\ tries \in [Scanners -> 0..Retries]
    BY Numbers DEF ScanInit
  <2>4. view \in [Scanners -> [TableIds -> SUBSET Keys]]
    BY DEF ScanInit
  <2>5. pc \in [Scanners -> Steps] /\ mode \in [Scanners -> Modes] /\ count \in [Scanners -> Nat]
    BY DEF ScanInit, Steps, Modes
  <2>6. /\ initialDone \in BOOLEAN /\ due \in BOOLEAN
        /\ first \in [Scanners -> BOOLEAN] /\ short \in [Scanners -> BOOLEAN]
        /\ more \in [Scanners -> BOOLEAN] /\ issues \in [Scanners -> BOOLEAN]
    BY DEF ScanInit
  <2>7. faults \in 0..MaxFaults /\ crashes \in 0..MaxCrashes
    BY Numbers DEF ScanInit
  <2>8. QED
    BY <2>1, <2>2, <2>3, <2>4, <2>5, <2>6, <2>7 DEF ScanTypeOK
<1>2. SourceInv
  BY ScanAssumption DEF ScanInit, SourceInv
<1>3. CursorInv
  <2> SUFFICES ASSUME NEW t \in TableIds PROVE Anchored(t, 0)
    BY DEF ScanInit, CursorInv
  <2>1. present[t] \subseteq Keys
    BY <1>1 DEF ScanTypeOK
  <2>2. QED
    BY <2>1, ScanAssumption DEF Anchored, Covered, Keys
<1>4. ASSUME NEW s \in Scanners PROVE ScannerInv(s)
  BY DEF ScanInit, ScannerInv, ViewOK, PageOK, ShortOK, WalkOK, Reading
<1>5. InitialScanIsComplete
  BY DEF ScanInit, InitialScanIsComplete
<1>6. QED
  BY <1>2, <1>3, <1>4, <1>5, <1>1 DEF ScanInv

LEMMA ScanTypeStep == ScanTypeOK /\ ScanInv /\ [ScanNext]_vars => ScanTypeOK'
<1> SUFFICES ASSUME ScanTypeOK, ScanInv, [ScanNext]_vars PROVE ScanTypeOK'
  OBVIOUS
<1> USE TablesAreNumbered
<1>1. ASSUME NEW t \in TableIds, NEW k \in Keys, QQWrites(t, k) PROVE ScanTypeOK'
  BY <1>1 DEF ScanTypeOK, QQWrites, store, locals, reading, result
<1>2. CASE ReconcileFallsDue
  BY <1>2 DEF ScanTypeOK, ReconcileFallsDue, source, store, locals, reading, result
<1>3. ASSUME NEW s \in Scanners, StartScan(s) PROVE ScanTypeOK'
  <2>1. PICK m \in Modes : mode' = [mode EXCEPT ![s] = m]
    BY <1>3, ScanAssumption DEF StartScan, ScheduledMode, Modes
  <2>2. QED
    BY <1>3, <2>1 DEF ScanTypeOK, StartScan, Goto, Steps, source, store, reading, result
<1>4. ASSUME NEW s \in Scanners, OpenDatabase(s) PROVE ScanTypeOK'
  <2>1. /\ present' = present /\ late' = late /\ queued' = queued /\ cursor' = cursor
        /\ initialDone' = initialDone /\ due' = due /\ mode' = mode /\ page' = page
        /\ saved' = saved /\ first' = first /\ short' = short /\ count' = count
        /\ faults' = faults /\ crashes' = crashes
    BY <1>4 DEF OpenDatabase, source, store, reading
  <2>2. at' \in [Scanners -> 1..Len(Tables) + 1]
    <3>1. at[s] \in 1..Len(Tables) + 1 /\ at \in [Scanners -> 1..Len(Tables) + 1]
      BY DEF ScanTypeOK
    <3>2. at' = at \/ (LeaveDatabase(s) /\ at[s] <= Len(Tables))
      BY <1>4 DEF OpenDatabase, DatabaseFails
    <3>3. at[s] <= Len(Tables) => at[s] \in TableIds
      BY <3>1, TablesAreNumbered
    <3>4. QED
      BY <3>1, <3>2, <3>3, LeaveType
  <2>3. pc' \in [Scanners -> Steps]
    <3>1. pc \in [Scanners -> Steps]
      BY DEF ScanTypeOK
    <3>2. \E step \in Steps : pc' = [pc EXCEPT ![s] = step]
      BY <1>4 DEF OpenDatabase, DatabaseFails, LeaveDatabase, Goto, Steps
    <3>3. QED
      BY <3>1, <3>2
  <2>4. \A d : RowsOf(d) \in [TableIds -> SUBSET Keys]
    BY DEF RowsOf, ScanTypeOK
  <2>5. view' \in [Scanners -> [TableIds -> SUBSET Keys]]
    <3>1. view \in [Scanners -> [TableIds -> SUBSET Keys]]
      BY DEF ScanTypeOK
    <3>2. view' = view \/ view' = [view EXCEPT ![s] = RowsOf(DbOf[at[s]])]
      BY <1>4 DEF OpenDatabase
    <3>3. QED
      BY <2>4, <3>1, <3>2
  <2>6. tries' \in [Scanners -> 0..Retries]
    BY <1>4, Numbers DEF OpenDatabase, ScanTypeOK
  <2>7. more' \in [Scanners -> BOOLEAN] /\ issues' \in [Scanners -> BOOLEAN]
    BY <1>4 DEF OpenDatabase, DatabaseFails, LeaveDatabase, ScanTypeOK
  <2>8. QED
    BY <2>1, <2>2, <2>3, <2>5, <2>6, <2>7 DEF ScanTypeOK
<1>5. ASSUME NEW s \in Scanners, FinishCopy(s) PROVE ScanTypeOK'
  <2>1. at[s] \in TableIds
    BY <1>5 DEF FinishCopy, ScanInv, ScannerInv, ViewOK, Reading
  <2>2. RowsOf(DbOf[at[s]]) \in [TableIds -> SUBSET Keys]
    BY DEF RowsOf, ScanTypeOK
  <2>3. at' \in [Scanners -> 1..Len(Tables) + 1]
    <3>1. at' = at \/ LeaveDatabase(s)
      BY <1>5 DEF FinishCopy, DatabaseFails
    <3>2. QED
      BY <2>1, <3>1, LeaveType DEF ScanTypeOK
  <2>4. view' \in [Scanners -> [TableIds -> SUBSET Keys]]
    <3>1. view \in [Scanners -> [TableIds -> SUBSET Keys]]
      BY DEF ScanTypeOK
    <3>2. view' = view \/ view' = [view EXCEPT ![s] = RowsOf(DbOf[at[s]])]
      BY <1>5 DEF FinishCopy
    <3>3. QED
      BY <2>2, <3>1, <3>2
  <2>5. tries' \in [Scanners -> 0..Retries]
    <3>1. tries[s] \in 0..Retries /\ Retries \in Nat
      BY ScanAssumption DEF ScanTypeOK
    <3>2. RetryCopy(s) => tries[s] + 1 \in 0..Retries
      BY <3>1 DEF RetryCopy
    <3>3. QED
      BY <1>5, <3>2 DEF FinishCopy, ScanTypeOK
  <2>6. pc' \in [Scanners -> Steps] /\ issues' \in [Scanners -> BOOLEAN]
    BY <1>5 DEF FinishCopy, DatabaseFails, LeaveDatabase, ScanTypeOK, Goto, Steps
  <2>7. QED
    BY <1>5, <2>3, <2>4, <2>5, <2>6 DEF ScanTypeOK, FinishCopy, source, store, reading
<1>6. ASSUME NEW s \in Scanners, StartTable(s) PROVE ScanTypeOK'
  <2>1. at[s] \in TableIds
    BY <1>6 DEF StartTable, ScanInv, ScannerInv, ViewOK, Reading
  <2>2. at' \in [Scanners -> 1..Len(Tables) + 1]
    <3>1. at' = at \/ LeaveDatabase(s)
      BY <1>6 DEF StartTable
    <3>2. QED
      BY <2>1, <3>1, LeaveType DEF ScanTypeOK
  <2>3. cursor[at[s]] \in 0..MaxKey /\ FirstCursor(s) \in 0..MaxKey
    <3>1. cursor[at[s]] \in 0..MaxKey
      BY <2>1 DEF ScanTypeOK
    <3>2. QED
      BY <3>1, Numbers DEF FirstCursor
  <2>4. saved' \in [Scanners -> 0..MaxKey] /\ page' \in [Scanners -> 0..MaxKey]
    <3>1. saved \in [Scanners -> 0..MaxKey] /\ page \in [Scanners -> 0..MaxKey]
      BY DEF ScanTypeOK
    <3>2. /\ saved' = saved \/ saved' = [saved EXCEPT ![s] = cursor[at[s]]]
          /\ page' = page \/ page' = [page EXCEPT ![s] = FirstCursor(s)]
      BY <1>6 DEF StartTable, reading
    <3>3. QED
      BY <2>3, <3>1, <3>2
  <2>5. /\ first' \in [Scanners -> BOOLEAN] /\ short' \in [Scanners -> BOOLEAN]
        /\ more' \in [Scanners -> BOOLEAN] /\ pc' \in [Scanners -> Steps]
    BY <1>6 DEF StartTable, LeaveDatabase, ScanTypeOK, reading, Goto, Steps
  <2>6. QED
    BY <1>6, <2>2, <2>4, <2>5 DEF ScanTypeOK, StartTable, source, store
<1>7. ASSUME NEW s \in Scanners, TableEnds(s) PROVE ScanTypeOK'
  <2>1. at[s] \in TableIds
    BY <1>7 DEF TableEnds, ScanInv, ScannerInv, ViewOK, Reading
  <2>2. at' \in [Scanners -> 1..Len(Tables) + 1]
    BY <1>7, <2>1, LeaveType DEF TableEnds
  <2>3. pc' \in [Scanners -> Steps] /\ more' \in [Scanners -> BOOLEAN]
    BY <1>7 DEF TableEnds, AfterTable, BudgetRunsOut, ScanTypeOK, Goto, Steps
  <2>4. QED
    BY <1>7, <2>2, <2>3 DEF ScanTypeOK, TableEnds, source, store, reading
<1>8. ASSUME NEW s \in Scanners, QueuePage(s) PROVE ScanTypeOK'
  <2>1. at[s] \in TableIds
    BY <1>8 DEF QueuePage, ScanInv, ScannerInv, ViewOK, Reading
  <2>2. PICK last \in Selected(s) :
           /\ queued' = [queued EXCEPT ![at[s]] = @ \union UpTo(Selected(s), last)]
           /\ count' = [count EXCEPT ![s] = @ + Cardinality(UpTo(Selected(s), last))]
           /\ short' = [short EXCEPT ![s] = Cardinality(UpTo(Selected(s), last)) < Remaining(s)]
           /\ page' = [page EXCEPT ![s] = last]
    BY <1>8 DEF QueuePage
  <2>3. last \in Keys /\ UpTo(Selected(s), last) \subseteq Keys
    BY <2>1, SelectedType DEF UpTo
  <2>4. Cardinality(UpTo(Selected(s), last)) \in Nat
    BY <2>3, KeysAreFinite
  <2>5. queued' \in [TableIds -> SUBSET Keys]
    BY <2>2, <2>3 DEF ScanTypeOK
  <2>6. count' \in [Scanners -> Nat]
    BY <2>2, <2>4 DEF ScanTypeOK
  <2>7. page' \in [Scanners -> 0..MaxKey] /\ short' \in [Scanners -> BOOLEAN]
    <3>1. page \in [Scanners -> 0..MaxKey] /\ short \in [Scanners -> BOOLEAN] /\ last \in 0..MaxKey
      BY <2>3, Numbers DEF ScanTypeOK
    <3>2. QED
      BY <2>2, <3>1
  <2>8. first' \in [Scanners -> BOOLEAN] /\ pc' \in [Scanners -> Steps]
    BY <1>8 DEF QueuePage, ScanTypeOK, Goto, Steps
  <2>9. QED
    BY <1>8, <2>5, <2>6, <2>7, <2>8 DEF ScanTypeOK, QueuePage, source
<1>9. ASSUME NEW s \in Scanners, PageRaises(s) PROVE ScanTypeOK'
  <2>1. at[s] \in TableIds
    BY <1>9 DEF PageRaises, ScanInv, ScannerInv, ViewOK, Reading
  <2>2. PICK last \in Selected(s) : count' = [count EXCEPT ![s] = @ + Cardinality({k \in Selected(s) :
            \A b \in UpTo(Selected(s), last) \intersect Poison[at[s]] : k < b})]
    BY <1>9 DEF PageRaises
  <2>3. Cardinality({k \in Selected(s) :
            \A b \in UpTo(Selected(s), last) \intersect Poison[at[s]] : k < b}) \in Nat
    BY <2>1, SelectedType, KeysAreFinite
  <2>4. count' \in [Scanners -> Nat]
    BY <2>2, <2>3 DEF ScanTypeOK
  <2>5. at' \in [Scanners -> 1..Len(Tables) + 1]
    BY <1>9, <2>1, LeaveType DEF PageRaises, DatabaseFails
  <2>6. pc' \in [Scanners -> Steps] /\ issues' \in [Scanners -> BOOLEAN]
    BY <1>9 DEF PageRaises, DatabaseFails, LeaveDatabase, ScanTypeOK, Goto, Steps
  <2>7. QED
    BY <1>9, <2>4, <2>5, <2>6 DEF ScanTypeOK, PageRaises, source, store, reading
<1>10. ASSUME NEW s \in Scanners, SaveCursor(s) PROVE ScanTypeOK'
  <2>1. at[s] \in TableIds
    BY <1>10 DEF SaveCursor, ScanInv, ScannerInv, ViewOK, Reading
  <2>2. cursor' \in [TableIds -> 0..MaxKey] /\ saved' \in [Scanners -> 0..MaxKey]
    <3>1. /\ cursor \in [TableIds -> 0..MaxKey] /\ saved \in [Scanners -> 0..MaxKey]
          /\ page[s] \in 0..MaxKey
      BY DEF ScanTypeOK
    <3>2. /\ cursor' = cursor \/ cursor' = [cursor EXCEPT ![at[s]] = page[s]]
          /\ saved' = saved \/ saved' = [saved EXCEPT ![s] = page[s]]
      BY <1>10 DEF SaveCursor
    <3>3. QED
      BY <3>1, <3>2
  <2>3. at' \in [Scanners -> 1..Len(Tables) + 1]
    <3>1. at' = at \/ AfterTable(s)
      BY <1>10 DEF SaveCursor
    <3>2. QED
      BY <2>1, <3>1, LeaveType DEF ScanTypeOK
  <2>4. pc' \in [Scanners -> Steps]
    <3>1. pc \in [Scanners -> Steps]
      BY DEF ScanTypeOK
    <3>2. \E step \in Steps : pc' = [pc EXCEPT ![s] = step]
      BY <1>10 DEF SaveCursor, AfterTable, Goto, Steps
    <3>3. QED
      BY <3>1, <3>2
  <2>5. QED
    BY <1>10, <2>2, <2>3, <2>4 DEF ScanTypeOK, SaveCursor, source, result
<1>11. ASSUME NEW s \in Scanners, Forget(s) PROVE
          /\ mode' \in [Scanners -> Modes]
          /\ at' \in [Scanners -> 1..Len(Tables) + 1]
          /\ view' \in [Scanners -> [TableIds -> SUBSET Keys]]
          /\ tries' \in [Scanners -> 0..Retries]
          /\ page' \in [Scanners -> 0..MaxKey] /\ saved' \in [Scanners -> 0..MaxKey]
          /\ first' \in [Scanners -> BOOLEAN] /\ short' \in [Scanners -> BOOLEAN]
          /\ count' \in [Scanners -> Nat]
          /\ more' \in [Scanners -> BOOLEAN] /\ issues' \in [Scanners -> BOOLEAN]
  BY <1>11, Numbers DEF Forget, ScanTypeOK, Modes
<1>12. ASSUME NEW s \in Scanners, EndScan(s) PROVE ScanTypeOK'
  <2>1. /\ initialDone' \in BOOLEAN /\ due' \in BOOLEAN
        /\ pc' \in [Scanners -> Steps] /\ faults' \in 0..MaxFaults
    <3>1. faults \in 0..MaxFaults /\ MaxFaults \in Nat
      BY ScanAssumption DEF ScanTypeOK
    <3>2. faults < MaxFaults => faults + 1 \in 0..MaxFaults
      BY <3>1
    <3>3. initialDone \in BOOLEAN /\ due \in BOOLEAN /\ pc \in [Scanners -> Steps]
      BY DEF ScanTypeOK
    <3>4. faults' \in 0..MaxFaults
      BY <1>12, <3>1, <3>2 DEF EndScan
    <3>5. initialDone' \in BOOLEAN /\ due' \in BOOLEAN
      BY <1>12, <3>3 DEF EndScan
    <3>6. pc' \in [Scanners -> Steps]
      BY <1>12, <3>3 DEF EndScan, Goto, Steps
    <3>7. QED
      BY <3>4, <3>5, <3>6
  <2>2. Forget(s)
    BY <1>12 DEF EndScan
  <2>3. QED
    BY <1>12, <2>1, <2>2, <1>11 DEF EndScan, ScanTypeOK, source
<1>13. ASSUME NEW s \in Scanners, PageFails(s) PROVE ScanTypeOK'
  <2>1. at[s] \in TableIds
    BY <1>13 DEF PageFails, ScanInv, ScannerInv, ViewOK, Reading
  <2>2. at' \in [Scanners -> 1..Len(Tables) + 1]
    BY <1>13, <2>1, LeaveType DEF PageFails, DatabaseFails
  <2>3. pc' \in [Scanners -> Steps] /\ issues' \in [Scanners -> BOOLEAN] /\ faults' \in 0..MaxFaults
    BY <1>13, ScanAssumption DEF PageFails, DatabaseFails, LeaveDatabase, ScanTypeOK, Goto, Steps
  <2>4. QED
    BY <1>13, <2>2, <2>3 DEF ScanTypeOK, PageFails, source, store, reading
<1>14. ASSUME NEW s \in Scanners, Crash(s) PROVE ScanTypeOK'
  <2>1. due' \in BOOLEAN /\ pc' \in [Scanners -> Steps] /\ crashes' \in 0..MaxCrashes
    BY <1>14, ScanAssumption DEF Crash, ScanTypeOK, Goto, Steps
  <2>2. Forget(s)
    BY <1>14 DEF Crash
  <2>3. QED
    BY <1>14, <2>1, <2>2, <1>11 DEF Crash, ScanTypeOK, source, store
<1>15. ASSUME NEW s \in Scanners, Restart(s) PROVE ScanTypeOK'
  BY <1>15 DEF ScanTypeOK, Restart, Goto, Steps, source, store, locals, reading, result
<1>16. CASE UNCHANGED vars
  BY <1>16 DEF ScanTypeOK, vars, source, store, locals, reading, result
<1>17. QED
  BY <1>1, <1>2, <1>3, <1>4, <1>5, <1>6, <1>7, <1>8, <1>9, <1>10, <1>12, <1>13, <1>14, <1>15, <1>16
     DEF ScanNext, ScanStep
-----------------------------------------------------------------------------
(* What one scanner does to the invariant *)

\* The other scanners keep what the invariant says of them.
Others(s) ==
    \A r \in Scanners \ {s} :
        /\ pc'[r] = pc[r] /\ at'[r] = at[r] /\ view'[r] = view[r] /\ page'[r] = page[r]
        /\ short'[r] = short[r] /\ issues'[r] = issues[r] /\ more'[r] = more[r]

\* A step that adds nothing to the source and takes nothing from the queue has
\* only to answer for its own scanner, the cursors and the meta value.
LEMMA OneScanner ==
    ASSUME ScanInv, NEW s \in Scanners, Others(s),
           present' = present, late' = late,
           \A t \in TableIds : queued[t] \subseteq queued'[t],
           \A t \in TableIds : cursor'[t] = cursor[t] \/ Anchored(t, cursor'[t]),
           initialDone' => initialDone \/ \A t \in TableIds : Done(t),
           ScannerInv(s)'
    PROVE  ScanInv'
<1>1. SourceInv'
  BY DEF ScanInv, SourceInv
<1>2. CursorInv'
  <2> SUFFICES ASSUME NEW t \in TableIds PROVE Anchored(t, cursor[t])'
    BY DEF CursorInv
  <2>1. Anchored(t, cursor[t])
    BY DEF ScanInv, CursorInv
  <2>2. QED
    BY <2>1 DEF Anchored, Covered
<1>3. ASSUME NEW r \in Scanners, r # s PROVE ScannerInv(r)'
  <2>1. ScannerInv(r)
    BY DEF ScanInv
  <2>2. /\ pc'[r] = pc[r] /\ at'[r] = at[r] /\ view'[r] = view[r] /\ page'[r] = page[r]
        /\ short'[r] = short[r] /\ issues'[r] = issues[r] /\ more'[r] = more[r]
    BY <1>3 DEF Others
  <2>3. ViewOK(r)'
    BY <2>1, <2>2 DEF ScannerInv, ViewOK, IsCopy
  <2>4. PageOK(r)'
    <3>1. pc[r] \in {"page", "save"} => at[r] \in TableIds
      BY <2>1 DEF ScannerInv, ViewOK, Reading
    <3>2. QED
      BY <2>1, <2>2, <3>1 DEF ScannerInv, PageOK, Anchored, Covered
  <2>5. ShortOK(r)'
    <3>1. pc[r] = "save" => at[r] \in TableIds
      BY <2>1 DEF ScannerInv, ViewOK, Reading
    <3>2. QED
      BY <2>1, <2>2, <3>1 DEF ScannerInv, ShortOK, Done
  <2>6. WalkOK(r)'
    <3>1. ASSUME NEW t \in TableIds, Done(t) PROVE Done(t)'
      BY <3>1 DEF Done
    <3>2. QED
      BY <2>1, <2>2, <3>1 DEF ScannerInv, WalkOK
  <2>7. QED
    BY <2>3, <2>4, <2>5, <2>6 DEF ScannerInv
<1>4. InitialScanIsComplete'
  BY DEF ScanInv, InitialScanIsComplete, Done
<1>5. QED
  BY <1>1, <1>2, <1>3, <1>4 DEF ScanInv

\* The same for a scanner that is not reading afterwards.
LEMMA NotReading ==
    ASSUME NEW s \in Scanners, WalkOK(s)', pc'[s] \notin Reading
    PROVE  ScannerInv(s)'
BY DEF ScannerInv, ViewOK, PageOK, ShortOK, Reading

\* A row that a scan does not select lies behind its cursor.
LEMMA PassedOver ==
    ASSUME ScanTypeOK, ScanInv, NEW s \in Scanners, pc[s] = "page",
           NEW k \in present[at[s]], k \notin Selected(s), k \notin late[at[s]],
           \/ ReadMode[DbOf[at[s]]] = "live"
           \/ k \in view[s][at[s]]
    PROVE  k \in queued[at[s]]
<1> DEFINE t == at[s]
           p == page[s]
<1>1. ScannerInv(s) /\ t \in TableIds /\ Anchored(t, p) /\ IsCopy(t, view[s][t])
  BY DEF ScanInv, ScannerInv, ViewOK, PageOK, Reading
<1>2. k \in Keys /\ k \in Nat /\ present[t] \subseteq Keys /\ p \in Nat
  BY <1>1, Numbers DEF ScanTypeOK, Keys
<1>3. CASE first[s] /\ Overlap[mode[s]] > 0 /\ p > 0
  <2>1. ~(TimeOf[k] >= TimeOf[p] - Overlap[mode[s]])
    BY <1>3 DEF Selected
  <2>2. p \in Keys /\ TimeOf[k] \in Nat /\ TimeOf[p] \in Nat /\ Overlap[mode[s]] \in Nat
    <3>1. p \in Keys
      BY <1>1, <1>2, <1>3 DEF Anchored
    <3>2. TimeOf \in [Keys -> Nat] /\ Overlap \in [Modes -> Nat] /\ mode[s] \in Modes
      BY ScanAssumption DEF ScanTypeOK
    <3>3. QED
      BY <3>1, <3>2, <1>2
  <2>3. p <= k => TimeOf[p] <= TimeOf[k]
    BY <2>2, <1>2, ScanAssumption
  <2>4. k < p
    BY <2>1, <2>2, <2>3, <1>2
  <2>5. QED
    BY <2>4, <1>1, <1>2 DEF Anchored, Covered
<1>4. CASE ~(first[s] /\ Overlap[mode[s]] > 0 /\ p > 0)
  <2>1. ~(k > p)
    BY <1>4 DEF Selected
  <2>2. QED
    BY <2>1, <1>1, <1>2 DEF Anchored, Covered
<1>5. QED
  BY <1>3, <1>4

\* What a scan may select of a table.
LEMMA SelectedIsThere ==
    ASSUME ScanTypeOK, ScanInv, NEW s \in Scanners, pc[s] = "page"
    PROVE  /\ at[s] \in TableIds
           /\ Selected(s) \subseteq present[at[s]]
           /\ Backlog[at[s]] \subseteq present[at[s]]
           /\ Backlog[at[s]] \intersect late[at[s]] = {}
           /\ \/ ReadMode[DbOf[at[s]]] = "live"
              \/ Backlog[at[s]] \subseteq view[s][at[s]] /\ Selected(s) \subseteq view[s][at[s]]
<1>1. at[s] \in TableIds /\ IsCopy(at[s], view[s][at[s]])
  BY DEF ScanInv, ScannerInv, ViewOK, Reading
<1>2. QED
  BY <1>1 DEF ScanInv, SourceInv, IsCopy, Selected

\* An empty selection means that nothing of the backlog is missing.
LEMMA NothingLeft ==
    ASSUME ScanTypeOK, ScanInv, NEW s \in Scanners, pc[s] = "page",
           NEW rows, Backlog[at[s]] \intersect Selected(s) \subseteq rows
    PROVE  Backlog[at[s]] \subseteq queued[at[s]] \union rows
<1> SUFFICES ASSUME NEW k \in Backlog[at[s]], k \notin rows PROVE k \in queued[at[s]]
  OBVIOUS
<1>1. k \in present[at[s]] /\ k \notin late[at[s]] /\ k \notin Selected(s)
  BY SelectedIsThere
<1>2. \/ ReadMode[DbOf[at[s]]] = "live"
      \/ k \in view[s][at[s]]
  BY SelectedIsThere
<1>3. QED
  BY <1>1, <1>2, PassedOver

-----------------------------------------------------------------------------
(* Every step preserves the invariant *)

LEMMA WriteKeepsInv ==
    ASSUME ScanTypeOK, ScanInv, NEW t \in TableIds, NEW k \in Keys, QQWrites(t, k)
    PROVE  ScanInv'
<1>1. /\ k \notin present[t]
      /\ present' = [present EXCEPT ![t] = @ \union {k}]
      /\ late' = IF \E j \in present[t] : j > k THEN [late EXCEPT ![t] = @ \union {k}] ELSE late
      /\ UNCHANGED <<queued, cursor, initialDone, pc, at, view, page, short, issues, more>>
  BY DEF QQWrites, store, locals, reading, result
<1>2. present \in [TableIds -> SUBSET Keys] /\ late \in [TableIds -> SUBSET Keys]
  BY DEF ScanTypeOK
<1>3. Keys \subseteq Nat
  BY Numbers DEF Keys
<1>4. \A u \in TableIds :
          /\ present[u] \subseteq present'[u] /\ late[u] \subseteq late'[u]
          /\ \A j \in late'[u] \ late[u] : u = t /\ j = k
          /\ \A j \in present'[u] \ present[u] : u = t /\ j = k
  BY <1>1, <1>2
<1>5. \A j \in present[t] : k < j => k \in late'[t]
  BY <1>1, <1>2
<1>6. ASSUME NEW u \in TableIds, NEW c, Anchored(u, c), c \in 0..MaxKey PROVE Anchored(u, c)'
  <2>1. c # 0 => c \in present'[u]
    BY <1>4, <1>6 DEF Anchored
  <2>2. ASSUME NEW j \in present'[u], j <= c, j \notin late'[u] PROVE j \in queued'[u]
    <3>1. CASE j \in present[u]
      BY <2>2, <3>1, <1>1, <1>4, <1>6 DEF Anchored, Covered
    <3>2. CASE j \notin present[u]
      <4>1. u = t /\ j = k
        BY <1>4, <2>2, <3>2
      <4>2. j \in Nat /\ j # 0
        BY <4>1, Numbers DEF Keys
      <4>3. c # 0 /\ c \in present[u]
        BY <2>2, <4>2, <1>6, Numbers DEF Anchored
      <4>4. j # c /\ c \in Nat
        BY <3>2, <4>3, <1>2, <1>3
      <4>5. QED
        BY <1>5, <2>2, <4>1, <4>2, <4>3, <4>4
    <3>3. QED
      BY <3>1, <3>2
  <2>3. QED
    BY <2>1, <2>2, <1>1 DEF Anchored, Covered
<1>7. SourceInv'
  BY <1>1, <1>2, <1>4, ScanAssumption DEF ScanInv, SourceInv
<1>8. CursorInv'
  BY <1>1, <1>6 DEF ScanInv, CursorInv, ScanTypeOK
<1>9. ASSUME NEW s \in Scanners PROVE ScannerInv(s)'
  <2>1. ScannerInv(s)
    BY DEF ScanInv
  <2>2. ViewOK(s)'
    <3> SUFFICES ASSUME pc[s] \in Reading, NEW u \in TableIds, DbOf[u] = DbOf[at[s]]
                 PROVE  IsCopy(u, view[s][u])'
      BY <2>1, <1>1 DEF ScannerInv, ViewOK
    <3>1. IsCopy(u, view[s][u])
      BY <2>1 DEF ScannerInv, ViewOK
    <3>2. ASSUME NEW j \in present'[u] \ view[s][u], j \notin late'[u], NEW i \in view[s][u]
          PROVE  i < j
      <4>1. CASE j \in present[u]
        BY <3>1, <3>2, <4>1, <1>4 DEF IsCopy
      <4>2. CASE j \notin present[u]
        <5>1. u = t /\ j = k
          BY <1>4, <3>2, <4>2
        <5>2. i \in present[u]
          BY <3>1 DEF IsCopy
        <5>3. i \in Nat /\ k \in Nat /\ i # k
          BY <5>1, <5>2, <4>2, <1>2, <1>3
        <5>4. ~(k < i)
          BY <1>5, <3>2, <5>1, <5>2
        <5>5. QED
          BY <5>1, <5>3, <5>4
      <4>3. QED
        BY <4>1, <4>2
    <3>3. QED
      BY <3>1, <3>2, <1>1, <1>4 DEF IsCopy
  <2>3. PageOK(s)'
    <3>1. pc[s] \in {"page", "save"} => at[s] \in TableIds /\ page[s] \in 0..MaxKey
      BY <2>1 DEF ScannerInv, ViewOK, Reading, ScanTypeOK
    <3>2. QED
      BY <2>1, <3>1, <1>1, <1>6 DEF ScannerInv, PageOK
  <2>4. ShortOK(s)' /\ WalkOK(s)'
    BY <2>1, <1>1 DEF ScannerInv, ShortOK, WalkOK, Done
  <2>5. QED
    BY <2>2, <2>3, <2>4 DEF ScannerInv
<1>10. InitialScanIsComplete'
  BY <1>1 DEF ScanInv, InitialScanIsComplete
<1>11. QED
  BY <1>7, <1>8, <1>9, <1>10 DEF ScanInv

\* A scanner that gives up a database reports it, and a walk that reports an
\* issue or a limit promises nothing.
LEMMA LeavingKeepsInv ==
    ASSUME ScanTypeOK, ScanInv, NEW s \in Scanners, LeaveDatabase(s),
           UNCHANGED <<source, store, view, page, short>>,
           \/ issues' = [issues EXCEPT ![s] = TRUE] /\ more' = more
           \/ more' = [more EXCEPT ![s] = TRUE] /\ issues' = issues
    PROVE  ScanInv'
<1>1. pc' = [pc EXCEPT ![s] = "open"] /\ at' = [at EXCEPT ![s] = NextDatabase(at[s])]
  BY DEF LeaveDatabase, Goto
<1>2. /\ pc \in [Scanners -> Steps] /\ at \in [Scanners -> 1..Len(Tables) + 1]
      /\ more \in [Scanners -> BOOLEAN] /\ issues \in [Scanners -> BOOLEAN]
  BY DEF ScanTypeOK
<1>3. pc'[s] = "open" /\ (issues'[s] \/ more'[s])
  BY <1>1, <1>2
<1>4. WalkOK(s)'
  BY <1>3 DEF WalkOK
<1>5. ScannerInv(s)'
  BY <1>3, <1>4, NotReading DEF Reading
<1>6. Others(s)
  BY <1>1, <1>2 DEF Others
<1>7. QED
  BY <1>5, <1>6, OneScanner DEF source, store

LEMMA OpenKeepsInv ==
    ASSUME ScanTypeOK, ScanInv, NEW s \in Scanners, OpenDatabase(s)
    PROVE  ScanInv'
<1>1. UNCHANGED <<present, late, queued, cursor, initialDone, page, short>> /\ pc[s] = "open"
  BY DEF OpenDatabase, source, store, reading
<1>2. /\ pc \in [Scanners -> Steps] /\ at \in [Scanners -> 1..Len(Tables) + 1]
      /\ view \in [Scanners -> [TableIds -> SUBSET Keys]]
      /\ more \in [Scanners -> BOOLEAN] /\ issues \in [Scanners -> BOOLEAN]
  BY DEF ScanTypeOK
<1>3. WalkOK(s)
  BY DEF ScanInv, ScannerInv
<1>4. CASE at[s] > Len(Tables) /\ Goto(s, "end") /\ UNCHANGED <<at, view, tries, more, issues>>
  <2>1. pc' = [pc EXCEPT ![s] = "end"] /\ pc'[s] = "end"
    BY <1>2, <1>4 DEF Goto
  <2>2. WalkOK(s)'
    BY <1>1, <1>3, <1>4, <2>1 DEF WalkOK, Done
  <2>3. ScannerInv(s)'
    BY <2>1, <2>2, NotReading DEF Reading
  <2>4. Others(s)
    BY <1>1, <1>2, <1>4, <2>1 DEF Others
  <2>5. QED
    BY <1>1, <2>3, <2>4, OneScanner
<1>5. CASE more' = [more EXCEPT ![s] = TRUE] /\ Goto(s, "end") /\ UNCHANGED <<at, view, tries, issues>>
  <2>1. pc' = [pc EXCEPT ![s] = "end"] /\ pc'[s] = "end" /\ more'[s]
    BY <1>2, <1>5 DEF Goto
  <2>2. WalkOK(s)'
    BY <2>1 DEF WalkOK
  <2>3. ScannerInv(s)'
    BY <2>1, <2>2, NotReading DEF Reading
  <2>4. Others(s)
    BY <1>1, <1>2, <1>5, <2>1 DEF Others
  <2>5. QED
    BY <1>1, <2>3, <2>4, OneScanner
<1>6. CASE DatabaseFails(s) /\ UNCHANGED <<view, tries, more>>
  BY <1>1, <1>6, LeavingKeepsInv DEF DatabaseFails, source, store
<1>7. CASE /\ at[s] <= Len(Tables)
           /\ view' = [view EXCEPT ![s] = RowsOf(DbOf[at[s]])]
           /\ Goto(s, IF ReadMode[DbOf[at[s]]] = "family" THEN "copy" ELSE "table")
           /\ UNCHANGED <<at, more, issues>>
  <2>1. pc'[s] \in {"copy", "table"} /\ at[s] \in TableIds
        /\ \A r \in Scanners \ {s} : pc'[r] = pc[r]
    BY <1>2, <1>7, TablesAreNumbered DEF Goto
  <2>2. ViewOK(s)'
    <3>1. view'[s] = RowsOf(DbOf[at[s]])
      BY <1>2, <1>7
    <3>2. ASSUME NEW t \in TableIds, DbOf[t] = DbOf[at[s]] PROVE IsCopy(t, view[s][t])'
      <4>1. view'[s][t] = present[t]
        BY <3>1, <3>2 DEF RowsOf
      <4>2. QED
        BY <1>1, <4>1 DEF IsCopy, ScanInv, SourceInv
    <3>3. QED
      BY <1>7, <2>1, <3>2 DEF ViewOK
  <2>3. WalkOK(s)'
    BY <1>1, <1>3, <1>7, <2>1 DEF WalkOK, Done
  <2>4. ScannerInv(s)'
    BY <2>1, <2>2, <2>3 DEF ScannerInv, PageOK, ShortOK
  <2>5. Others(s)
    BY <1>1, <1>2, <1>7, <2>1 DEF Others
  <2>6. QED
    BY <1>1, <2>4, <2>5, OneScanner
<1>8. QED
  BY <1>4, <1>5, <1>6, <1>7 DEF OpenDatabase

LEMMA CopyKeepsInv ==
    ASSUME ScanTypeOK, ScanInv, NEW s \in Scanners, FinishCopy(s)
    PROVE  ScanInv'
<1>1. /\ UNCHANGED <<present, late, queued, cursor, initialDone, page, short, more>>
      /\ pc[s] = "copy"
  BY DEF FinishCopy, source, store, reading
<1>2. /\ pc \in [Scanners -> Steps] /\ at \in [Scanners -> 1..Len(Tables) + 1]
      /\ view \in [Scanners -> [TableIds -> SUBSET Keys]]
  BY DEF ScanTypeOK
<1>3. ScannerInv(s) /\ at[s] \in TableIds
  BY <1>1 DEF ScanInv, ScannerInv, ViewOK, Reading
<1>4. CASE Goto(s, "table") /\ UNCHANGED <<at, view, tries, issues>>
  <2>1. pc'[s] = "table" /\ \A r \in Scanners \ {s} : pc'[r] = pc[r]
    BY <1>2, <1>4 DEF Goto
  <2>2. ViewOK(s)'
    BY <1>1, <1>3, <1>4, <2>1 DEF ScannerInv, ViewOK, IsCopy, Reading
  <2>3. WalkOK(s)'
    BY <1>1, <1>3, <1>4, <2>1 DEF ScannerInv, WalkOK, Done
  <2>4. ScannerInv(s)'
    BY <2>1, <2>2, <2>3 DEF ScannerInv, PageOK, ShortOK
  <2>5. Others(s)
    BY <1>1, <1>4, <2>1 DEF Others
  <2>6. QED
    BY <1>1, <2>4, <2>5, OneScanner
<1>5. CASE view' = [view EXCEPT ![s] = RowsOf(DbOf[at[s]])] /\ UNCHANGED <<pc, at, issues>>
  <2>1. view'[s] = RowsOf(DbOf[at[s]])
    BY <1>2, <1>5
  <2>2. ViewOK(s)'
    <3>1. ASSUME NEW t \in TableIds, DbOf[t] = DbOf[at[s]] PROVE IsCopy(t, view[s][t])'
      <4>1. view'[s][t] = present[t]
        BY <2>1, <3>1 DEF RowsOf
      <4>2. QED
        BY <1>1, <4>1 DEF IsCopy, ScanInv, SourceInv
    <3>2. QED
      BY <1>3, <1>5, <3>1 DEF ViewOK
  <2>3. WalkOK(s)'
    BY <1>1, <1>3, <1>5 DEF ScannerInv, WalkOK, Done
  <2>4. ScannerInv(s)'
    BY <1>1, <1>5, <2>2, <2>3 DEF ScannerInv, PageOK, ShortOK
  <2>5. Others(s)
    BY <1>1, <1>2, <1>5 DEF Others
  <2>6. QED
    BY <1>1, <2>4, <2>5, OneScanner
<1>6. CASE DatabaseFails(s) /\ UNCHANGED <<view, tries>>
  BY <1>1, <1>6, LeavingKeepsInv DEF DatabaseFails, source, store
<1>7. QED
  BY <1>4, <1>5, <1>6 DEF FinishCopy

LEMMA TableKeepsInv ==
    ASSUME ScanTypeOK, ScanInv, NEW s \in Scanners, StartTable(s)
    PROVE  ScanInv'
<1>1. /\ UNCHANGED <<present, late, queued, cursor, initialDone, view, issues>>
      /\ pc[s] = "table"
  BY DEF StartTable, source, store
<1>2. /\ pc \in [Scanners -> Steps] /\ page \in [Scanners -> 0..MaxKey]
  BY DEF ScanTypeOK
<1>3. ScannerInv(s) /\ at[s] \in TableIds
  BY <1>1 DEF ScanInv, ScannerInv, ViewOK, Reading
<1>4. CASE more' = [more EXCEPT ![s] = TRUE] /\ LeaveDatabase(s) /\ UNCHANGED reading
  BY <1>1, <1>4, LeavingKeepsInv DEF source, store, reading
<1>5. CASE /\ page' = [page EXCEPT ![s] = FirstCursor(s)]
           /\ Goto(s, "page")
           /\ UNCHANGED <<at, more, short>>
  <2>1. /\ pc'[s] = "page" /\ page'[s] = FirstCursor(s)
        /\ \A r \in Scanners \ {s} : pc'[r] = pc[r] /\ page'[r] = page[r]
    BY <1>2, <1>5 DEF Goto
  <2>2. Anchored(at[s], FirstCursor(s))
    <3>1. Anchored(at[s], cursor[at[s]])
      BY <1>3 DEF ScanInv, CursorInv
    <3>2. Anchored(at[s], 0)
      <4>1. present[at[s]] \subseteq Keys
        BY <1>3 DEF ScanTypeOK
      <4>2. QED
        BY <4>1, Numbers DEF Anchored, Covered, Keys
    <3>3. QED
      BY <3>1, <3>2 DEF FirstCursor
  <2>3. PageOK(s)'
    BY <1>1, <1>5, <2>1, <2>2 DEF PageOK, Anchored, Covered
  <2>4. ViewOK(s)'
    BY <1>1, <1>3, <1>5 DEF ScannerInv, ViewOK, IsCopy, Reading
  <2>5. WalkOK(s)'
    BY <1>1, <1>3, <1>5, <2>1 DEF ScannerInv, WalkOK, Done
  <2>6. ScannerInv(s)'
    BY <2>1, <2>3, <2>4, <2>5 DEF ScannerInv, ShortOK
  <2>7. Others(s)
    BY <1>1, <1>5, <2>1 DEF Others
  <2>8. QED
    BY <1>1, <2>6, <2>7, OneScanner
<1>6. QED
  BY <1>4, <1>5 DEF StartTable

\* Going on behind a table whose backlog is queued.
LEMMA AfterTableKeepsWalk ==
    ASSUME ScanTypeOK, ScanInv, NEW s \in Scanners, pc[s] \in {"page", "save"}, AfterTable(s),
           UNCHANGED <<present, late, queued, view, issues>>,
           more'[s] \/ (more'[s] = more[s] /\ Done(at[s]))
    PROVE  /\ ScannerInv(s)'
           /\ at'[s] = at[s] + 1
           /\ \A r \in Scanners \ {s} : pc'[r] = pc[r] /\ at'[r] = at[r]
<1>1. /\ pc \in [Scanners -> Steps] /\ at \in [Scanners -> 1..Len(Tables) + 1]
  BY DEF ScanTypeOK
<1>2. ScannerInv(s) /\ at[s] \in TableIds
  BY DEF ScanInv, ScannerInv, ViewOK, Reading
<1>3. /\ at'[s] = at[s] + 1 /\ \A r \in Scanners \ {s} : pc'[r] = pc[r] /\ at'[r] = at[r]
  BY <1>1 DEF AfterTable, Goto
<1>4. \/ /\ pc'[s] = "table" /\ at'[s] <= Len(Tables) /\ DbOf[at'[s]] = DbOf[at[s]]
      \/ pc'[s] = "open"
  BY <1>1 DEF AfterTable, Goto
<1>5. ViewOK(s)'
  <2>1. pc'[s] = "table" => at'[s] \in TableIds
    BY <1>2, <1>3, <1>4, TablesAreNumbered
  <2>2. QED
    BY <1>2, <1>4, <2>1 DEF ScannerInv, ViewOK, IsCopy, Reading
<1>6. ASSUME ~issues'[s], ~more'[s], NEW t \in TableIds, t < at'[s] PROVE Done(t)'
  <2>1. t < at[s] \/ t = at[s]
    BY <1>2, <1>3, <1>6, TablesAreNumbered
  <2>2. Done(t)
    BY <1>2, <1>6, <2>1 DEF ScannerInv, WalkOK
  <2>3. QED
    BY <2>2 DEF Done
<1>7. WalkOK(s)'
  BY <1>4, <1>6 DEF WalkOK
<1>8. QED
  BY <1>3, <1>4, <1>5, <1>7 DEF ScannerInv, PageOK, ShortOK

LEMMA TableEndKeepsInv ==
    ASSUME ScanTypeOK, ScanInv, NEW s \in Scanners, TableEnds(s)
    PROVE  ScanInv'
<1>1. /\ UNCHANGED <<present, late, queued, cursor, initialDone, view, page, short, issues>>
      /\ pc[s] = "page" /\ AfterTable(s)
  BY DEF TableEnds, source, store, reading
<1>2. more \in [Scanners -> BOOLEAN]
  BY DEF ScanTypeOK
<1>3. /\ more'[s] \/ (more'[s] = more[s] /\ Done(at[s]))
      /\ \A r \in Scanners \ {s} : more'[r] = more[r]
  <2>1. CASE BudgetRunsOut(s)
    BY <1>2, <2>1 DEF BudgetRunsOut
  <2>2. CASE Selected(s) = {} /\ UNCHANGED more
    <3>1. Backlog[at[s]] \subseteq queued[at[s]] \union {}
      BY <1>1, <2>2, NothingLeft
    <3>2. QED
      BY <2>2, <3>1 DEF Done
  <2>3. QED
    BY <2>1, <2>2 DEF TableEnds
<1>4. ScannerInv(s)' /\ Others(s)
  BY <1>1, <1>3, AfterTableKeepsWalk DEF Others
<1>5. QED
  BY <1>1, <1>4, OneScanner

\* A queued page leaves no row behind its last key.
LEMMA PageIsCovered ==
    ASSUME ScanTypeOK, ScanInv, NEW s \in Scanners, pc[s] = "page", NEW last \in Selected(s),
           NEW k \in present[at[s]], k <= last, k \notin late[at[s]]
    PROVE  k \in queued[at[s]] \union UpTo(Selected(s), last)
<1> DEFINE t == at[s]
<1>1. t \in TableIds /\ IsCopy(t, view[s][t])
  BY DEF ScanInv, ScannerInv, ViewOK, Reading
<1>2. last \in Nat /\ k \in Nat
  <2>1. Selected(s) \subseteq Keys /\ present[t] \subseteq Keys
    BY <1>1, SelectedType DEF ScanTypeOK
  <2>2. Keys \subseteq Nat
    BY Numbers DEF Keys
  <2>3. QED
    BY <2>1, <2>2
<1>3. CASE k \in Selected(s)
  BY <1>3 DEF UpTo
<1>4. CASE k \notin Selected(s) /\ (ReadMode[DbOf[t]] = "live" \/ k \in view[s][t])
  BY <1>4, PassedOver
<1>5. CASE ReadMode[DbOf[t]] # "live" /\ k \notin view[s][t]
  <2>1. last \in view[s][t]
    BY <1>5, SelectedIsThere
  <2>2. last < k
    BY <1>1, <1>5, <2>1 DEF IsCopy
  <2>3. QED
    BY <1>2, <2>2
<1>6. QED
  BY <1>3, <1>4, <1>5

LEMMA QueueKeepsInv ==
    ASSUME ScanTypeOK, ScanInv, NEW s \in Scanners, QueuePage(s)
    PROVE  ScanInv'
<1>1. /\ UNCHANGED <<present, late, cursor, initialDone, at, view, issues, more>>
      /\ pc[s] = "page" /\ pc' = [pc EXCEPT ![s] = "save"]
  BY DEF QueuePage, source, Goto
<1>2. PICK last \in Selected(s) :
         /\ IsPage(Selected(s), last, Remaining(s))
         /\ queued' = [queued EXCEPT ![at[s]] = @ \union UpTo(Selected(s), last)]
         /\ short' = [short EXCEPT ![s] = Cardinality(UpTo(Selected(s), last)) < Remaining(s)]
         /\ page' = [page EXCEPT ![s] = last]
  BY DEF QueuePage
<1>3. /\ pc \in [Scanners -> Steps] /\ page \in [Scanners -> 0..MaxKey]
      /\ short \in [Scanners -> BOOLEAN] /\ queued \in [TableIds -> SUBSET Keys]
  BY DEF ScanTypeOK
<1>4. ScannerInv(s) /\ at[s] \in TableIds
  BY <1>1 DEF ScanInv, ScannerInv, ViewOK, Reading
<1>5. /\ pc'[s] = "save" /\ page'[s] = last
      /\ short'[s] = (Cardinality(UpTo(Selected(s), last)) < Remaining(s))
      /\ queued'[at[s]] = queued[at[s]] \union UpTo(Selected(s), last)
      /\ \A r \in Scanners \ {s} : pc'[r] = pc[r] /\ page'[r] = page[r] /\ short'[r] = short[r]
      /\ \A t \in TableIds : queued[t] \subseteq queued'[t]
  BY <1>1, <1>2, <1>3, <1>4
<1>6. PageOK(s)'
  <2>1. last \in present[at[s]]
    BY <1>1, SelectedIsThere
  <2>2. \A k \in present[at[s]] : k <= last /\ k \notin late[at[s]] => k \in queued'[at[s]]
    BY <1>1, <1>5, PageIsCovered
  <2>3. QED
    BY <1>1, <1>5, <2>1, <2>2 DEF PageOK, Anchored, Covered
<1>7. ShortOK(s)'
  <2> SUFFICES ASSUME short'[s] PROVE Backlog[at[s]] \subseteq queued'[at[s]]
    BY <1>1, <1>5 DEF ShortOK, Done
  <2>1. UpTo(Selected(s), last) = Selected(s)
    <3>1. UpTo(Selected(s), last) \subseteq Keys
      BY <1>4, SelectedType DEF UpTo
    <3>2. Cardinality(UpTo(Selected(s), last)) \in Nat
      BY <3>1, KeysAreFinite
    <3>3. Cardinality(UpTo(Selected(s), last)) < Remaining(s)
      BY <1>5
    <3>4. Cardinality(UpTo(Selected(s), last)) # Remaining(s)
      BY <3>2, <3>3
    <3>5. QED
      BY <1>2, <3>4 DEF IsPage
  <2>2. Backlog[at[s]] \subseteq queued[at[s]] \union Selected(s)
    BY <1>1, NothingLeft
  <2>3. QED
    BY <1>5, <2>1, <2>2
<1>8. ViewOK(s)'
  BY <1>1, <1>4, <1>5 DEF ScannerInv, ViewOK, IsCopy, Reading
<1>9. WalkOK(s)'
  <2>1. ASSUME NEW t \in TableIds, Done(t) PROVE Done(t)'
    BY <1>5, <2>1 DEF Done
  <2>2. QED
    BY <1>1, <1>4, <1>5, <2>1 DEF ScannerInv, WalkOK
<1>10. ScannerInv(s)' /\ Others(s)
  BY <1>1, <1>5, <1>6, <1>7, <1>8, <1>9 DEF ScannerInv, Others
<1>11. QED
  BY <1>1, <1>5, <1>10, OneScanner

LEMMA SaveKeepsInv ==
    ASSUME ScanTypeOK, ScanInv, NEW s \in Scanners, SaveCursor(s)
    PROVE  ScanInv'
<1>1. /\ UNCHANGED <<present, late, queued, initialDone, view, page, short, more, issues>>
      /\ pc[s] = "save"
  BY DEF SaveCursor, source, result
<1>2. /\ pc \in [Scanners -> Steps] /\ cursor \in [TableIds -> 0..MaxKey]
  BY DEF ScanTypeOK
<1>3. ScannerInv(s) /\ at[s] \in TableIds
  BY <1>1 DEF ScanInv, ScannerInv, ViewOK, Reading
<1>4. \A t \in TableIds : cursor'[t] = cursor[t] \/ Anchored(t, cursor'[t])
  <2>1. Anchored(at[s], page[s])
    BY <1>1, <1>3 DEF ScannerInv, PageOK
  <2>2. QED
    BY <1>2, <2>1 DEF SaveCursor
<1>5. CASE short[s] /\ AfterTable(s)
  <2>1. Done(at[s])
    BY <1>1, <1>3, <1>5 DEF ScannerInv, ShortOK
  <2>2. ScannerInv(s)' /\ Others(s)
    BY <1>1, <1>5, <2>1, AfterTableKeepsWalk DEF Others
  <2>3. QED
    BY <1>1, <1>4, <2>2, OneScanner
<1>6. CASE Goto(s, "page") /\ UNCHANGED at
  <2>1. pc'[s] = "page" /\ \A r \in Scanners \ {s} : pc'[r] = pc[r]
    BY <1>2, <1>6 DEF Goto
  <2>2. ViewOK(s)'
    BY <1>1, <1>3, <1>6 DEF ScannerInv, ViewOK, IsCopy, Reading
  <2>3. PageOK(s)'
    BY <1>1, <1>3, <1>6 DEF ScannerInv, PageOK, Anchored, Covered
  <2>4. WalkOK(s)'
    BY <1>1, <1>3, <1>6, <2>1 DEF ScannerInv, WalkOK, Done
  <2>5. ScannerInv(s)' /\ Others(s)
    BY <1>1, <1>6, <2>1, <2>2, <2>3, <2>4 DEF ScannerInv, ShortOK, Others
  <2>6. QED
    BY <1>1, <1>4, <2>5, OneScanner
<1>7. QED
  BY <1>5, <1>6 DEF SaveCursor

\* A process that ends its scan, dies or comes back forgets where it was.
LEMMA ForgettingKeepsInv ==
    ASSUME ScanTypeOK, ScanInv, NEW s \in Scanners, Forget(s),
           pc'[s] \in {"idle", "down"}, \A r \in Scanners \ {s} : pc'[r] = pc[r],
           UNCHANGED <<present, late, queued, cursor>>,
           initialDone' => initialDone \/ \A t \in TableIds : Done(t)
    PROVE  ScanInv'
<1>1. at'[s] = 1
  BY DEF Forget, ScanTypeOK
<1>2. WalkOK(s)'
  BY <1>1 DEF WalkOK
<1>3. ScannerInv(s)'
  BY <1>2, NotReading DEF Reading
<1>4. Others(s)
  BY DEF Others, Forget, ScanTypeOK
<1>5. QED
  BY <1>3, <1>4, OneScanner

LEMMA EndKeepsInv ==
    ASSUME ScanTypeOK, ScanInv, NEW s \in Scanners, EndScan(s)
    PROVE  ScanInv'
<1>1. /\ UNCHANGED <<present, late, queued, cursor>> /\ Forget(s)
      /\ pc[s] = "end" /\ pc' = [pc EXCEPT ![s] = "idle"]
      /\ initialDone' = (initialDone \/
            (s = Daemon /\ mode[s] = "initial" /\ ~issues[s] /\ ~more[s]))
  BY DEF EndScan, source, Goto
<1>2. pc'[s] \in {"idle", "down"} /\ \A r \in Scanners \ {s} : pc'[r] = pc[r]
  BY <1>1 DEF ScanTypeOK
<1>3. ASSUME ~issues[s], ~more[s], NEW t \in TableIds PROVE Done(t)
  <2>1. WalkOK(s) /\ at[s] > Len(Tables)
    BY <1>1, <1>3 DEF ScanInv, ScannerInv, WalkOK
  <2>2. t < at[s]
    BY <2>1, TablesAreNumbered DEF ScanTypeOK
  <2>3. QED
    BY <1>1, <1>3, <2>1, <2>2 DEF WalkOK
<1>4. initialDone' => initialDone \/ \A t \in TableIds : Done(t)
  BY <1>1, <1>3
<1>5. QED
  BY <1>1, <1>2, <1>4, ForgettingKeepsInv

LEMMA ScanStepKeepsInv == ScanTypeOK /\ ScanInv /\ [ScanNext]_vars => ScanInv'
<1> SUFFICES ASSUME ScanTypeOK, ScanInv, [ScanNext]_vars PROVE ScanInv'
  OBVIOUS
<1>1. ASSUME NEW t \in TableIds, NEW k \in Keys, QQWrites(t, k) PROVE ScanInv'
  BY <1>1, WriteKeepsInv
<1>2. CASE UNCHANGED <<source, store, pc, locals>>
  <2>1. ASSUME NEW s \in Scanners PROVE ScannerInv(s)'
    BY <1>2 DEF ScanInv, ScannerInv, ViewOK, PageOK, ShortOK, WalkOK, IsCopy, Anchored, Covered,
                Done, source, store, locals, reading, result
  <2>2. SourceInv' /\ CursorInv' /\ InitialScanIsComplete'
    BY <1>2 DEF ScanInv, SourceInv, CursorInv, InitialScanIsComplete, Anchored, Covered,
                source, store
  <2>3. QED
    BY <2>1, <2>2 DEF ScanInv
<1>3. CASE ReconcileFallsDue \/ UNCHANGED vars
  BY <1>2, <1>3 DEF ReconcileFallsDue, vars
<1>4. ASSUME NEW s \in Scanners, StartScan(s) PROVE ScanInv'
  <2>1. /\ UNCHANGED <<present, late, queued, cursor, initialDone, at, view, page, short,
                       issues, more>>
        /\ pc[s] = "idle" /\ pc'[s] = "open"
        /\ \A r \in Scanners \ {s} : pc'[r] = pc[r]
    BY <1>4 DEF StartScan, Goto, ScanTypeOK, source, store, reading, result
  <2>2. at'[s] = 1
    BY <2>1 DEF ScanInv, ScannerInv, WalkOK
  <2>3. \A t \in TableIds : ~(t < 1)
    BY TablesAreNumbered
  <2>4. WalkOK(s)'
    BY <2>1, <2>2, <2>3 DEF WalkOK
  <2>5. ScannerInv(s)' /\ Others(s)
    BY <2>1, <2>4, NotReading DEF Reading, Others
  <2>6. QED
    BY <2>1, <2>5, OneScanner
<1>5. ASSUME NEW s \in Scanners, PageRaises(s) \/ PageFails(s) PROVE ScanInv'
  <2>1. DatabaseFails(s) /\ UNCHANGED <<source, store, view, page, short, more>>
    BY <1>5 DEF PageRaises, PageFails, reading
  <2>2. QED
    BY <2>1, LeavingKeepsInv DEF DatabaseFails
<1>6. ASSUME NEW s \in Scanners, Crash(s) PROVE ScanInv'
  <2>1. pc'[s] \in {"idle", "down"} /\ \A r \in Scanners \ {s} : pc'[r] = pc[r]
    BY <1>6 DEF Crash, Goto, ScanTypeOK
  <2>2. QED
    BY <1>6, <2>1, ForgettingKeepsInv DEF Crash, source, store
<1>7. ASSUME NEW s \in Scanners, Restart(s) PROVE ScanInv'
  <2>1. /\ UNCHANGED <<present, late, queued, cursor, initialDone, at, view, page, short,
                       issues, more>>
        /\ pc[s] = "down" /\ pc'[s] = "idle"
        /\ \A r \in Scanners \ {s} : pc'[r] = pc[r]
    BY <1>7 DEF Restart, Goto, ScanTypeOK, source, store, locals, reading, result
  <2>2. WalkOK(s)'
    BY <2>1 DEF ScanInv, ScannerInv, WalkOK
  <2>3. ScannerInv(s)' /\ Others(s)
    BY <2>1, <2>2, NotReading DEF Reading, Others
  <2>4. QED
    BY <2>1, <2>3, OneScanner
<1>8. QED
  BY <1>1, <1>3, <1>4, <1>5, <1>6, <1>7, OpenKeepsInv, CopyKeepsInv, TableKeepsInv,
     TableEndKeepsInv, QueueKeepsInv, SaveKeepsInv, EndKeepsInv
     DEF ScanNext, ScanStep

-----------------------------------------------------------------------------
(* Theorems *)

LEMMA ScanInvariant == ScanSpec => [](ScanTypeOK /\ ScanInv)
<1>1. ScanInit => ScanTypeOK /\ ScanInv
  BY ScanInitially
<1>2. ScanTypeOK /\ ScanInv /\ [ScanNext]_vars => ScanTypeOK' /\ ScanInv'
  BY ScanTypeStep, ScanStepKeepsInv
<1>3. QED
  BY <1>1, <1>2, PTL DEF ScanSpec

\* The variables of the scanner keep their types: a walk stays within the
\* tables, a page behind the keys, a copy within its retries.
THEOREM ScanTypeCorrect == ScanSpec => []ScanTypeOK
BY ScanInvariant, PTL

\* A saved cursor stands for every row behind it, whoever moved it: scans of
\* any mode and budget beside each other, a rolled-back page and a crash
\* between the queue and the cursor leave no row behind it.
THEOREM CursorsSkipNothing == ScanSpec => []NoRowSkipped
<1>1. ScanInv => NoRowSkipped
  BY DEF ScanInv, CursorInv, Anchored, Covered, NoRowSkipped
<1>2. QED
  BY <1>1, ScanInvariant, PTL

\* initial_scan_completed is only written when every row that was there at the
\* start is queued, whatever limit or issue ended the walks before.
THEOREM InitialScanCompletes == ScanSpec => []InitialScanIsComplete
<1>1. ScanInv => InitialScanIsComplete
  BY DEF ScanInv
<1>2. QED
  BY <1>1, ScanInvariant, PTL

=============================================================================
