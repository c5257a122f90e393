---------------------------- MODULE CollectorScan ----------------------------
(***************************************************************************)
(* How the collector finds the rows of the QQ databases.  A scan walks the *)
(* discovered databases and their message tables, reads each table page by *)
(* page behind a cursor, queues a page in one transaction and then moves   *)
(* the saved cursor (collector/sync/scanner.py, cursor.py, state.py,       *)
(* qqnt/versions/fallback.py, qqnt/snapshot.py).  The daemon chooses the   *)
(* mode of its scans (collector/sync/scheduler.py); the CLI "scan" command *)
(* may run beside it, because it does not pass the sync_runs gate.         *)
(*                                                                         *)
(* A row is its key: its rank in the order (time, seq, id, identity) in    *)
(* which pages are read.  QQ adds rows in any order: a row that arrives    *)
(* behind a row already there (synchronised from another device) is late.  *)
(***************************************************************************)
EXTENDS Integers, FiniteSets, Sequences

CONSTANTS
    Scanners,      \* processes that scan
    Daemon,        \* the one that runs the schedule
    Databases,
    Tables,        \* the message tables, in the order a scan visits them
    DbOf,          \* the database each of them is in
    ReadMode,      \* how a database is read: "live", "backup", "family"
    MaxKey,
    TimeOf,        \* the time of each key
    Backlog,       \* the keys each table holds when the collector is set up
    Poison,        \* the keys whose rows make the parser or the staging raise
    Locked,        \* databases that cannot be opened
    Overlap,       \* MODE_OVERLAP_SECONDS
    PageSize,
    InitialBudget, \* max_messages of a scan of mode "initial"
    ManualModes,   \* modes the CLI is asked for
    ManualBudget,  \* its --max-messages; 0 is none
    Retries,       \* of a copy of a database that is being written
    MaxFaults,     \* bound on the faults of one cycle that leave no trace
    MaxCrashes     \* bound on the number of process crashes

Keys == 1..MaxKey
Modes == {"initial", "incremental", "reconcile"}
TableIds == 1..Len(Tables)

ASSUME ScanAssumption ==
    /\ Daemon \in Scanners
    /\ MaxKey \in Nat
    /\ Tables \in Seq(STRING)
    /\ DbOf \in [TableIds -> Databases]
    /\ ReadMode \in [Databases -> {"live", "backup", "family"}]
    /\ TimeOf \in [Keys -> Nat]
    /\ \A j, k \in Keys : j <= k => TimeOf[j] <= TimeOf[k]
    /\ Backlog \in [TableIds -> SUBSET Keys]
    /\ Poison \in [TableIds -> SUBSET Keys]
    /\ Locked \subseteq Databases
    /\ Overlap \in [Modes -> Nat]
    /\ PageSize \in Nat \ {0} /\ InitialBudget \in Nat \ {0}
    /\ ManualModes \subseteq Modes /\ ManualBudget \in Nat
    /\ Retries \in Nat \ {0} /\ MaxFaults \in Nat /\ MaxCrashes \in Nat

VARIABLES
    \* the QQ databases
    present,       \* the keys in each table
    late,          \* those that arrived behind a key already there
    \* the state database
    queued,        \* the keys of each table that were queued
    cursor,        \* the saved cursor of each table; 0 is none
    initialDone,   \* the meta value initial_scan_completed
    due,           \* has reconcile_interval_hours passed in this process?
    \* one process
    pc,
    mode,
    at,            \* the table it is at
    view,          \* what it reads of each table when it reads a copy
    tries,         \* copies of the current database it has started
    page,          \* page_cursor
    saved,         \* saved_cursor
    first,         \* is the next page the first of its table?
    short,         \* was the page it just queued shorter than asked for?
    count,         \* scanned_messages
    more,          \* has_more
    issues,        \* did a database fail?
    \* bookkeeping
    faults, crashes

source == <<present, late>>
store == <<queued, cursor, initialDone>>
reading == <<page, saved, first, short>>
result == <<count, more, issues>>
locals == <<mode, at, view, tries, reading, result>>
vars == <<source, store, due, pc, locals, faults, crashes>>

Steps == {"down", "idle", "open", "copy", "table", "page", "save", "end"}

ScanTypeOK ==
    /\ present \in [TableIds -> SUBSET Keys]
    /\ late \in [TableIds -> SUBSET Keys]
    /\ queued \in [TableIds -> SUBSET Keys]
    /\ cursor \in [TableIds -> 0..MaxKey]
    /\ initialDone \in BOOLEAN /\ due \in BOOLEAN
    /\ pc \in [Scanners -> Steps]
    /\ mode \in [Scanners -> Modes]
    /\ at \in [Scanners -> 1..Len(Tables) + 1]
    /\ view \in [Scanners -> [TableIds -> SUBSET Keys]]
    /\ tries \in [Scanners -> 0..Retries]
    /\ page \in [Scanners -> 0..MaxKey]
    /\ saved \in [Scanners -> 0..MaxKey]
    /\ first \in [Scanners -> BOOLEAN] /\ short \in [Scanners -> BOOLEAN]
    /\ count \in [Scanners -> Nat]
    /\ more \in [Scanners -> BOOLEAN] /\ issues \in [Scanners -> BOOLEAN]
    /\ faults \in 0..MaxFaults /\ crashes \in 0..MaxCrashes

ScanInit ==
    /\ present = Backlog /\ late = [t \in TableIds |-> {}]
    /\ queued = [t \in TableIds |-> {}] /\ cursor = [t \in TableIds |-> 0]
    /\ initialDone = FALSE /\ due = FALSE
    /\ pc = [s \in Scanners |-> "idle"]
    /\ mode = [s \in Scanners |-> "initial"]
    /\ at = [s \in Scanners |-> 1]
    /\ view = [s \in Scanners |-> [t \in TableIds |-> {}]]
    /\ tries = [s \in Scanners |-> 0]
    /\ page = [s \in Scanners |-> 0] /\ saved = [s \in Scanners |-> 0]
    /\ first = [s \in Scanners |-> FALSE] /\ short = [s \in Scanners |-> FALSE]
    /\ count = [s \in Scanners |-> 0]
    /\ more = [s \in Scanners |-> FALSE] /\ issues = [s \in Scanners |-> FALSE]
    /\ faults = 0 /\ crashes = 0

-----------------------------------------------------------------------------
(* QQ and the clock *)

\* QQ adds a row, in front of or behind those it has.
QQWrites(t, k) ==
    /\ k \notin present[t]
    /\ present' = [present EXCEPT ![t] = @ \union {k}]
    /\ late' = IF \E j \in present[t] : j > k
               THEN [late EXCEPT ![t] = @ \union {k}] ELSE late
    /\ UNCHANGED <<store, due, pc, locals, faults, crashes>>

\* _last_reconcile_at starts with the process: the interval passes only while
\* the daemon is up.
ReconcileFallsDue ==
    /\ ~due /\ pc[Daemon] # "down"
    /\ due' = TRUE
    /\ UNCHANGED <<source, store, pc, locals, faults, crashes>>

-----------------------------------------------------------------------------
(* One scan *)

Goto(s, step) == pc' = [pc EXCEPT ![s] = step]

\* The locals of a scan end with it.
Forget(s) ==
    /\ mode' = [mode EXCEPT ![s] = "initial"]
    /\ at' = [at EXCEPT ![s] = 1]
    /\ view' = [view EXCEPT ![s] = [t \in TableIds |-> {}]]
    /\ tries' = [tries EXCEPT ![s] = 0]
    /\ page' = [page EXCEPT ![s] = 0] /\ saved' = [saved EXCEPT ![s] = 0]
    /\ first' = [first EXCEPT ![s] = FALSE] /\ short' = [short EXCEPT ![s] = FALSE]
    /\ count' = [count EXCEPT ![s] = 0]
    /\ more' = [more EXCEPT ![s] = FALSE] /\ issues' = [issues EXCEPT ![s] = FALSE]

\* The mode run_forever gives its next run.
ScheduledMode ==
    IF ~initialDone THEN "initial" ELSE IF due THEN "reconcile" ELSE "incremental"

StartScan(s) ==
    /\ pc[s] = "idle"
    /\ \E m \in IF s = Daemon THEN {ScheduledMode} ELSE ManualModes :
          mode' = [mode EXCEPT ![s] = m]
    /\ Goto(s, "open")
    /\ UNCHANGED <<source, store, due, at, view, tries, reading, result, faults, crashes>>

Budget(s) ==
    IF s # Daemon THEN ManualBudget
    ELSE IF mode[s] = "initial" THEN InitialBudget ELSE 0

Spent(s) == Budget(s) > 0 /\ count[s] >= Budget(s)

\* remaining: the size of the next page.
Remaining(s) ==
    IF Budget(s) = 0 \/ Budget(s) - count[s] > PageSize
    THEN PageSize ELSE Budget(s) - count[s]

\* The first table of the next database, or the end of the walk.
NextDatabase(i) ==
    CHOOSE j \in (i + 1)..(Len(Tables) + 1) :
        /\ j <= Len(Tables) => DbOf[j] # DbOf[i]
        /\ \A h \in (i + 1)..(j - 1) : DbOf[h] = DbOf[i]

\* The next table of this database, if it has one; else the next database.
AfterTable(s) ==
    LET i == at[s] + 1
    IN  /\ at' = [at EXCEPT ![s] = i]
        /\ Goto(s, IF i <= Len(Tables) /\ DbOf[i] = DbOf[at[s]] THEN "table" ELSE "open")

\* Mutant: a database that is left is the last one of the walk.
LeaveWalk(s) ==
    /\ at' = [at EXCEPT ![s] = Len(Tables) + 1]
    /\ Goto(s, "open")

LeaveDatabase(s) ==
    /\ at' = [at EXCEPT ![s] = NextDatabase(at[s])]
    /\ Goto(s, "open")

\* A ScanIssue: the rest of the database is left, the other ones go on.
DatabaseFails(s) ==
    /\ issues' = [issues EXCEPT ![s] = TRUE]
    /\ LeaveDatabase(s)

\* What the key check and the open say of a database.
Opens(d) == d \notin Locked

\* The rows of a copy of it.
RowsOf(d) == [t \in TableIds |-> IF DbOf[t] = d THEN present[t] ELSE {}]

\* The walk is over, the budget is spent, or the next database is opened.
OpenDatabase(s) ==
    /\ pc[s] = "open"
    /\ \/ /\ at[s] > Len(Tables)
          /\ Goto(s, "end")
          /\ UNCHANGED <<at, view, tries, more, issues>>
       \/ /\ at[s] <= Len(Tables) /\ Spent(s)
          /\ more' = [more EXCEPT ![s] = TRUE]
          /\ Goto(s, "end")
          /\ UNCHANGED <<at, view, tries, issues>>
       \/ /\ at[s] <= Len(Tables) /\ ~Spent(s)
          /\ ~Opens(DbOf[at[s]])
          /\ DatabaseFails(s)
          /\ UNCHANGED <<view, tries, more>>
       \/ /\ at[s] <= Len(Tables) /\ ~Spent(s)
          /\ Opens(DbOf[at[s]])
          /\ view' = [view EXCEPT ![s] = RowsOf(DbOf[at[s]])]
          /\ tries' = [tries EXCEPT ![s] = 1]
          /\ Goto(s, IF ReadMode[DbOf[at[s]]] = "family" THEN "copy" ELSE "table")
          /\ UNCHANGED <<at, more, issues>>
    /\ UNCHANGED <<source, store, due, mode, reading, count, faults, crashes>>

RetryCopy(s) == tries[s] < Retries

\* snapshot_file_family: a copy counts when no file changed while it was made.
FinishCopy(s) ==
    LET now == RowsOf(DbOf[at[s]])
    IN  /\ pc[s] = "copy"
        /\ \/ /\ view[s] = now
              /\ Goto(s, "table")
              /\ UNCHANGED <<at, view, tries, issues>>
           \/ /\ view[s] # now /\ RetryCopy(s)
              /\ view' = [view EXCEPT ![s] = now]
              /\ tries' = [tries EXCEPT ![s] = @ + 1]
              /\ UNCHANGED <<pc, at, issues>>
           \/ /\ view[s] # now /\ ~RetryCopy(s)
              /\ DatabaseFails(s)
              /\ UNCHANGED <<view, tries>>
        /\ UNCHANGED <<source, store, due, mode, reading, count, more, faults, crashes>>

\* Mutant: a reconcile scan starts at the saved cursor.
FirstCursorSaved(s) == cursor[at[s]]

FirstCursor(s) == IF mode[s] = "reconcile" THEN 0 ELSE cursor[at[s]]

StartTable(s) ==
    /\ pc[s] = "table"
    /\ \/ /\ Spent(s)
          /\ more' = [more EXCEPT ![s] = TRUE]
          /\ LeaveDatabase(s)
          /\ UNCHANGED reading
       \/ /\ ~Spent(s)
          /\ saved' = [saved EXCEPT ![s] = cursor[at[s]]]
          /\ page' = [page EXCEPT ![s] = FirstCursor(s)]
          /\ first' = [first EXCEPT ![s] = TRUE]
          /\ Goto(s, "page")
          /\ UNCHANGED <<at, more, short>>
    /\ UNCHANGED <<source, store, due, mode, view, tries, count, issues, faults, crashes>>

\* What read_page selects: the overlap window on the first page behind a
\* cursor, the keys after the cursor otherwise.
Selected(s) ==
    LET t == at[s]
        keys == IF ReadMode[DbOf[t]] = "live" THEN present[t] ELSE view[s][t]
    IN  IF first[s] /\ Overlap[mode[s]] > 0 /\ page[s] > 0
        THEN {k \in keys : TimeOf[k] >= TimeOf[page[s]] - Overlap[mode[s]]}
        ELSE {k \in keys : k > page[s]}

UpTo(keys, last) == {k \in keys : k <= last}

IsPage(keys, last, limit) ==
    /\ last \in keys
    /\ Cardinality(UpTo(keys, last)) <= limit
    /\ \/ Cardinality(UpTo(keys, last)) = limit
       \/ UpTo(keys, last) = keys

\* Mutant: running out of budget is not reported as has_more.
BudgetRunsOutSilently(s) == Remaining(s) <= 0 /\ UNCHANGED more

BudgetRunsOut(s) == Remaining(s) <= 0 /\ more' = [more EXCEPT ![s] = TRUE]

\* The table has no more rows, or no more that the budget allows.
TableEnds(s) ==
    /\ pc[s] = "page"
    /\ \/ BudgetRunsOut(s)
       \/ /\ Remaining(s) > 0 /\ Selected(s) = {}
          /\ UNCHANGED more
    /\ AfterTable(s)
    /\ UNCHANGED <<source, store, due, mode, view, tries, reading, count, issues,
                   faults, crashes>>

\* One transaction queues the page.
QueuePage(s) ==
    /\ pc[s] = "page" /\ Remaining(s) > 0
    /\ \E last \in Selected(s) :
          LET rows == UpTo(Selected(s), last)
          IN  /\ IsPage(Selected(s), last, Remaining(s))
              /\ rows \intersect Poison[at[s]] = {}
              /\ queued' = [queued EXCEPT ![at[s]] = @ \union rows]
              /\ count' = [count EXCEPT ![s] = @ + Cardinality(rows)]
              /\ short' = [short EXCEPT ![s] = Cardinality(rows) < Remaining(s)]
              /\ page' = [page EXCEPT ![s] = last]
    /\ first' = [first EXCEPT ![s] = FALSE]
    /\ Goto(s, "save")
    /\ UNCHANGED <<source, cursor, initialDone, due, mode, at, view, tries, saved, more,
                   issues, faults, crashes>>

\* A row of the page raises: the transaction is rolled back and the database
\* left, but scanned_messages counts the rows in front of the one that raised.
PageRaises(s) ==
    /\ pc[s] = "page" /\ Remaining(s) > 0
    /\ \E last \in Selected(s) :
          LET bad == UpTo(Selected(s), last) \intersect Poison[at[s]]
          IN  /\ IsPage(Selected(s), last, Remaining(s))
              /\ bad # {}
              /\ count' = [count EXCEPT ![s] =
                    @ + Cardinality({k \in Selected(s) : \A b \in bad : k < b})]
    /\ DatabaseFails(s)
    /\ UNCHANGED <<source, store, due, mode, view, tries, reading, more, faults, crashes>>

\* Mutant: the cursor moves past a page that was rolled back.
PageFailsMoving(s) ==
    /\ pc[s] \in {"page", "save"} /\ faults < MaxFaults
    /\ faults' = faults + 1
    /\ \E last \in Selected(s) : cursor' = [cursor EXCEPT ![at[s]] = last]
    /\ DatabaseFails(s)
    /\ UNCHANGED <<source, queued, initialDone, due, mode, view, tries, reading, count,
                   more, crashes>>

\* A read or a write fails this once: the database is busy, the disk is full.
PageFails(s) ==
    /\ pc[s] \in {"page", "save"} /\ faults < MaxFaults
    /\ faults' = faults + 1
    /\ DatabaseFails(s)
    /\ UNCHANGED <<source, store, due, mode, view, tries, reading, count, more, crashes>>

\* cursor_after: compared with the cursor this scan knows, not the stored one.
CursorGreater(s) == page[s] > saved[s]

SaveCursor(s) ==
    /\ pc[s] = "save"
    /\ IF CursorGreater(s)
       THEN /\ cursor' = [cursor EXCEPT ![at[s]] = page[s]]
            /\ saved' = [saved EXCEPT ![s] = page[s]]
       ELSE UNCHANGED <<cursor, saved>>
    /\ IF short[s] THEN AfterTable(s) ELSE Goto(s, "page") /\ UNCHANGED at
    /\ UNCHANGED <<source, queued, initialDone, due, mode, view, tries, page, first, short,
                   result, faults, crashes>>

\* run_once after the scan, and run_forever after run_once: a reconcile scan
\* stays due when the rest of the cycle raises.
EndScan(s) ==
    /\ pc[s] = "end"
    /\ initialDone' = (initialDone \/
          (s = Daemon /\ mode[s] = "initial" /\ ~issues[s] /\ ~more[s]))
    /\ \/ /\ due' = (due /\ ~(s = Daemon /\ mode[s] = "reconcile"))
          /\ UNCHANGED faults
       \/ /\ s = Daemon /\ mode[s] = "reconcile" /\ faults < MaxFaults
          /\ faults' = faults + 1
          /\ UNCHANGED due
    /\ Goto(s, "idle")
    /\ Forget(s)
    /\ UNCHANGED <<source, queued, cursor, crashes>>

Crash(s) ==
    /\ pc[s] # "down" /\ crashes < MaxCrashes
    /\ crashes' = crashes + 1
    /\ Goto(s, "down")
    /\ Forget(s)
    /\ due' = (due /\ s # Daemon)
    /\ UNCHANGED <<source, store, faults>>

Restart(s) ==
    /\ pc[s] = "down"
    /\ Goto(s, "idle")
    /\ UNCHANGED <<source, store, due, locals, faults, crashes>>

-----------------------------------------------------------------------------
ScanStep(s) ==
    \/ OpenDatabase(s) \/ FinishCopy(s) \/ StartTable(s)
    \/ TableEnds(s) \/ QueuePage(s) \/ PageRaises(s) \/ SaveCursor(s) \/ EndScan(s)

ScanNext ==
    \/ \E t \in TableIds, k \in Keys : QQWrites(t, k)
    \/ ReconcileFallsDue
    \/ \E s \in Scanners : StartScan(s) \/ ScanStep(s) \/ PageFails(s) \/ Crash(s) \/ Restart(s)

ScanFairness ==
    /\ WF_vars(ReconcileFallsDue)
    /\ WF_vars(StartScan(Daemon)) /\ WF_vars(ScanStep(Daemon)) /\ WF_vars(Restart(Daemon))

ScanSpec == ScanInit /\ [][ScanNext]_vars
FairScanSpec == ScanSpec /\ ScanFairness

-----------------------------------------------------------------------------
(* Properties *)

\* A saved cursor stands for every row behind it: all of them were queued,
\* except those QQ wrote behind the cursor's row after that row was there.  It
\* holds while the tray program and the CLI scan the same table and the slower
\* one moves the cursor back, and when a page is rolled back.
NoRowSkipped ==
    \A t \in TableIds : \A k \in present[t] :
        k <= cursor[t] /\ k \notin late[t] => k \in queued[t]

\* initial_scan_completed means what it says: no row that was there when the
\* collector was set up is missing from the queue, whatever budget cut a scan
\* short and whatever database failed.
InitialScanIsComplete ==
    initialDone => \A t \in TableIds : Backlog[t] \subseteq queued[t]

\* Every row is found in the end, the late ones by a reconcile scan.
EveryRowQueued ==
    \A t \in TableIds, k \in Keys : k \in present[t] ~> k \in queued[t]

\* A row that always raises, and a database that never opens, hold up no row
\* of another database.
Healthy(t) ==
    /\ DbOf[t] \notin Locked
    /\ \A u \in TableIds : DbOf[u] = DbOf[t] => Poison[u] = {}

HealthyRowsQueued ==
    \A t \in TableIds, k \in Keys :
        Healthy(t) /\ k \in present[t] /\ k \notin late[t] ~> k \in queued[t]
=============================================================================
