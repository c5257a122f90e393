# Verification of chat-audit-core

This directory holds TLA+ models of chat-audit-core, the configurations TLC
checks them with, and theorems about them that TLAPS has checked. Paths below
are relative to the repository (`collector/...`, `app/...`); `PROJECT.json`
gives, for every definition, the lines it translates.

Contents: [the system](#1-the-system) ·
[inventory](#2-inventory) · [modules](#3-the-modules) · [runs](#4-the-runs) ·
[proofs](#5-what-is-proved) · [divergences](#6-where-the-code-and-its-documents-disagree) ·
[limits](#7-what-is-only-checked-and-what-is-left-out) · [what remains](#8-what-remains)

## 1. The system

chat-audit-core archives QQ conversations. Two producers feed one server:

* a **OneBot adapter** (NapCat) pushes live events over a WebSocket;
* the **collector**, a Windows program, reads the local QQNT databases, keeps
  what it found in a durable queue (a SQLite file), and uploads it: media files
  first, one by one, then messages in batches that refer to those files by hash.

The **server** (FastAPI, SQLAlchemy) stores messages, media references and media
assets, makes backups and restores them, and answers the web console and the
evidence interface.

                 QQ databases                      OneBot adapter
                      |                                 |
      collector   scanner/parsers                       | WebSocket
                      v                                 v
               pending_messages, pending_media     ws / onebot_rpc
                      |   (sync_runs gate)              |
                      v                                 v
                  uploader ----- HTTPS ----> import service, message service
                                                  |            |
                                  media assets, backfill    backups, packages
                                                  |
                                            queries -> web console

What the whole thing is for: nothing the collector saw is lost or misrepresented
on the way, what the archive shows can be read offline, and a backup brings it
all back. The models follow that path from a row of the QQ database to the
message in the console.

## 2. Inventory

For each part: its state, its operations, who it talks to, what is hard about
it, and what makes it correct. The status in brackets is the one `PROJECT.json`
records; its notes say what of a part that is modelled *partly* is left out.

### Collector

**Upload queue** (`collector/sync/queue.py`) [modelled]. State: tables
`pending_messages` and `pending_media`, with status, attempts,
`next_attempt_at`, `lease_until` and payload. Operations: `enqueue_message`,
`enqueue_media`, `lease_ready`, `mark_completed`, `mark_retry`,
`patch_message_media` (three roles), `requeue_dead_letter`; each is one
transaction. Hard: several processes share the file; a lease may run out
during an upload; a rescan replaces payloads other steps have already patched.
Correct when no row gets out of reach, no media row is without its message, and
an outcome is written back only to the row it is about.

**Run loop** (`collector/sync/scheduler.py`, `uploader.py`) [partly]. State: the
`sync_runs` rows, and in memory the leased items, the batch and the halves still
to be sent. Operations: start a run, scan, register the source, upload media,
patch and confirm, lease and send messages, halve a rejected request, settle
each item, finish. Hard: crashes between any two transactions, lost answers,
items that fail alone, a run another process takes for dead. Correct when runs
exclude each other, an item is settled as the server judged it, everything
queued is in the end delivered or shown as a dead letter, and work resumes
after a restart.

**Scanner and cursors** (`scanner.py`, `cursor.py`, `qqnt/versions/`) [modelled].
State: the cursor of each table and `initial_scan_completed`. Operations: open a
database, read a page behind the cursor, queue it in one transaction, then move
the cursor. Hard: QQ adds rows behind the cursor, equal timestamps across pages,
two scans at a time, a budget that cuts a scan short, a crash between a page and
its cursor. Correct when no row of a table is skipped for ever and one bad
database holds up no other.

**State database** (`state.py`) [partly]. Schema, cursors, runs, parser
failures. Transactions are `BEGIN IMMEDIATE`, so each is atomic against every
other process.

**Parsers** (`parsers/`) [partly]. From a database row to a message payload and
the files it stages. Only what an element of a message turns into matters to
the queue. **Media staging, index, resolver** (`media/`) [partly]: copies a
local file into a staging directory; may fail. **QQNT access** (`qqnt/`)
[partly]: which databases open, and what a copy shows of one that is written to.

**Tray program and command line** (`gui/`, `app/main.py`) [partly]. The two
programs that run cycles. The tray program recovers interrupted runs when it
starts; the command line never does, and its `scan` runs outside the gate.

**Configuration, credentials, diagnostics, logging** [not modelled]: parsing and
pure I/O.

### Server

**Import contract and service** (`app/import_contract.py`,
`app/services/import_service.py`, handlers in `app/api.py`) [partly]. State:
sources, batches, answered chunks, source records, media references. Operations:
create a source, a batch, import a chunk, finish a batch. Hard: repeated, late
and concurrent requests, per-item savepoints, a cached answer, a reference that
must not fall back from `complete`, two writers of the same reference. Correct
when an ended batch stays as it ended, a completed one hides no failure, and
what a client was told is stored stays stored, at least as good.

**HTTP and WebSocket API** (`app/api.py`) [partly]. The handlers of the import
and of the media upload, whose row in `media_assets` the collector's second phase
depends on. The other handlers keep no state of their own.

**Message service and identity** (`message_service.py`) [partly]. Real-time
events write the same messages and references as the import, and spend their
time on downloads between reading and writing.

**OneBot connection** (`ws.py`, `onebot_rpc_service.py`) [modelled]. State: the
registry of live connections, pending calls by echo, a heartbeat per socket,
background tasks. Hard: a robot that connects anew while its old handler ends, a
socket that speaks for a second robot, a handler that reads nothing while it
stores. Correct when the newest registration survives, calls never go out over
another connection, and a lost connection ends.

**Media service and backfill** (`media_service.py`, `media_backfill_service.py`)
[partly], **offline audit and repair** (`offline_audit_service.py`,
`offline_repair_service.py`) [partly]. State: the text of each message, the
archive state of its references, rows and files, the cursor of the backfill.
Hard: a pass reads a page of texts, downloads for minutes and writes whole texts
back; dead links never leave the page. Correct when what says *local* is there,
an audit without a finding is right, and nothing alive waits behind the dead.

**Backup jobs and worker** (`app/backup/jobs.py`, `worker.py`) [modelled]. State:
a request and a status file per job, an execution lock, the archives. Operations:
queue, claim by rename, export, publish, retention, finish, mark interrupted jobs.
Hard: deaths between two renames, two workers, media that appears and disappears
during an export. Correct when no job runs twice, success means a complete
archive, retention keeps the newest, and every job ends.

**Backup archive, export, restore** (`app/backup/`) [partly]. A restore inserts
every section in one transaction and publishes files with a journal of those it
created. Correct when a commit is the whole archive and a failure leaves nothing
of itself behind.

**Legacy packages** (`backup_service.py`, `app/backup/legacy.py`) [partly]. A
JSON export read table by table without a snapshot, its preview and import on
any server, and its conversion to an archive. Correct when a package is closed,
an import that raises was announced, archived media is never taken back, and
the two ways into an empty server agree.

**Query service** (`query_service.py`) [partly] and **web console**
(`app/static/assets/app.js`) [partly]. The console is one thread whose requests
are answered in any order. Correct when what is shown belongs to the title, the
timeline settles on the server's newest page, and scrolling up reaches the
first message.

**Capture policy and interactions, accounts, tokens and audit log, profiles,
database layer, scripts** [not modelled]: request handlers over single rows,
schema, one-off maintenance.

The hazards found while reading, each at its line and with the properties that
would catch it, are in `PROJECT.json`.

## 3. The modules

| Module | Models | Composes |
| --- | --- | --- |
| `CollectorQueue` | the two queue tables and every transaction of `queue.py` on them, under an arbitrary client (`QueueSpec`) | |
| `CollectorSync` | the processes that run sync cycles: the gate, media and message upload, splitting, settling, crashes | `EXTENDS CollectorQueue`; implements `QueueSpec` and `Outbox` |
| `Outbox` | what the collector promises of a message, whatever its tables do: the abstract specification | |
| `CollectorScan` | how rows are found: databases, tables, pages, cursors, modes, budgets | |
| `ImportService` | the server's batches, answered chunks, media references and files, one transaction per action, under arbitrary clients (`ServerSpec`) | |
| `ImportSession` | the collector's requests for one lot of messages, over a connection that loses answers and delays requests | `EXTENDS ImportService`, implements `ServerSpec` |
| `OneBotConnection` | sockets, handlers, the registry, heartbeats and background tasks | |
| `MediaArchive` | events, hydrations, imports, backfill passes, repair and audit over texts, references, rows and files | |
| `BackupJobs` | jobs as files, workers, export, retention | |
| `BackupRestore` | a restore of one of those archives | `EXTENDS BackupJobs` |
| `BackupPackage` | legacy packages: export, preview, import, conversion | |
| `ConsoleTimeline` | the console's timeline over the server's queries | |
| `CollectorProofs`, `ScanProofs`, `ImportProofs`, `OneBotProofs`, `MediaProofs`, `BackupProofs`, `PackageProofs`, `ConsoleProofs` | theorems and their lemmas | each `EXTENDS` the modules it is about; `CollectorProofs` those of queue, collector and outbox |
| `MC...` | instances for TLC: `MCCollectorSync`, `MCCollectorScan`, `MCImportSession`, `MCOneBotConnection`, `MCMediaArchive`, `MCBackupJobs`, `MCBackupRestore`, `MCBackupPackage`, `MCConsoleTimeline` | |

Operators called *Mutant* in a comment are variants of the definition that
follows them, each with a fault a change to the code could introduce. No
specification uses them; `PROJECT.json` says which property notices which.

### CollectorQueue

A row of `pending_messages` is a record: status, attempts, `due` for
`next_attempt_at <= now`, `lease` for `lease_until` (none, held, expired) and
the payload. A row of `pending_media` is addressed by message, element and role,
the table's unique key. Time is the actions that make a row due or a lease
expire; attempts stop counting at the largest number they are compared with.

A payload says, of each element that may hold media, what the server's contract
and the patches look at: the two states of the reference, whether it has the
file's hash and the thumbnail's, and whether the text is a forward token that is
still to be replaced. `PartOf` gives the part the parser makes of each *view* of
an element: a picture on disk, one that could not be staged, a thumbnail, only
metadata, a forward, or nothing (recalled). Each public method is an action with
its guards and early returns: `EnqueuePage` is the transaction of a scanned page
(messages and media together), `LeaseMediaRows` and `LeaseMessageRows` reclaim
expired leases first and apply the media gate of `lease_ready`, `DeferMessage`
and `DeferMedia` are `mark_retry`, `PatchMessage` covers the three roles of a
patch.

### CollectorSync and Outbox

A process has a program counter that names what it does next: `idle`, the two
kinds of scan, `media`, `patching`, `confirming`, `messages`, `sending`,
`settling`, `finishing`. Its leased copies (`snap`, `mediaLease`) are what
`QueueItem` objects are in the program: they stay as they were when they were
leased, whatever happens to the tables. `StartRun` is `try_start_sync_run`;
`Start` of a process in `Guis` is the tray program's recovery of interrupted
runs. `ManualScan` is the command line's `scan`, which does not ask the gate.
`Crash` may fall between any two transactions. Every request may be executed
with its answer lost. `BatchSplit` is one level of the recursion in
`_upload_message_items`: the second half waits in `rest`. An exception out of a
settle or a patch ends the run (`Raise`), with the leases left behind.

The server is a relation here: the files it confirmed, the payload of each
message it accepted last, and the validation of a whole request, which comes
before any item is imported.

`Outbox` forgets all of that. A message is unknown, waiting, delivered or given
up; it has a content, and there is the content the server accepted last.
Delivery is possible only while the two are the same, and only a scan opens a
delivered message again. `ImplementsOutbox` maps the tables to it: `fate` from a
row's status, `content` from its payload, `received` from what the server holds.

### CollectorScan

A row is its key, its rank in the order (time, sequence, id, identity) in which
pages are read. QQ adds rows in any order; one that arrives behind a row already
there is *late*. A scan walks the databases and their tables: `OpenDatabase`
fails for a locked one and copies one that is read through a copy
(`FinishCopy`, which may find it changed and start over, up to `Retries`),
`StartTable` takes the cursor back by the mode's overlap (a reconcile scan to the
beginning), `QueuePage` and `SaveCursor` are the two transactions of a page,
`PageRaises` rolls a page back and leaves its database, `EndScan` decides
`initial_scan_completed`. `StartScan` of the daemon chooses the mode as the
scheduler does; that of the command line is any mode it is asked for, beside a
scan of the daemon.

### ImportService and ImportSession

`ImportService` opens the server up. An item is a source record with its
message and at most one media reference; a reference is its two states and its
two hashes. `Updated` is `_upsert_media_reference` on an existing row, `Contract`
is `validate_media_reference_assets` together with the CHECK constraints of the
table, `Localized` completes a reference from a file a real-time event already
stored. `ImportChunk` imports a chunk item by item; an item that fails leaves
nothing behind and is counted, and the answer is cached under the chunk's exact
content. A chunk answered before is answered again before the batch's state is
looked at. `ReceiveMessage` is the real-time event.

`UploadMedia` leaves the state as it was: the handler answers, but its session is
closed without a commit. `StoreAsset` is a file that some other path commits.

`ImportSession` follows one lot through create, import and complete. Its batch
id is a function of the lot; an ended batch is replaced by one with a fresh id.
A request the collector gives up on is lost, or executed without an answer, or
put in `late`, from where the server may execute it at any later time. Another
scan may have changed the item's reference by then.

The collector's queue is reduced in `ImportSession` to the items still pending
and the reference each carries. That its items are never changed while they are
leased, and are settled as the answer says, is what `CollectorSync` shows.

### OneBotConnection

A socket's handler reads one frame after another, and nothing while it stores a
message. `conn` is its connection id, the position of its registration in
`registered`; `registry` is `_connections`. Registering replaces the former
connection, which is closed afterwards (`replaced`) and whose handler
unregisters by id when it ends. A heartbeat asks over the connection of its
socket and waits for the answer or a time-out; a background task is given the
connection id when it starts and asks later. A call is known by who makes it, and
`sentOn` says where it went. A socket may close at either end, and a peer may
stop answering without closing (`silent`).

### MediaArchive

A message is its place in the archive's order, its text a function from its slots
to where each points: to the URL, to a file, to nothing any more. There are three
sessions: `pass` (one backfill request, with its pages, batches and cursor),
`event` (one incoming event) and `forward` (a hydration, or a reader of a
forwarded conversation). Each holds the text it read, fetches slot by slot and
writes the whole text back; `staged` are the rows it inserted and has not
committed. `Save` is `save_media_asset`: a file under its hash, a row if there is
none, and an error when the row has no `content_sha256`. `Repair` indexes files
without one; `Attach` and `Import` are the other writers of references. The audit
is the operator `OfflineReady` on the state: it opens the texts of the oldest
`AuditLimit` messages (`Audited`) and the file of every row, whatever message it
belongs to. References are known by their position among the media of a message
(`RefOrdinal`), and audit, backfill and the upgrade of references find the slot of
a position in a text again (`Ordinal`, `CoveredUrls`, `Upgraded`): in the text a
local path counts, whatever it was, and an unfetched forward does not.

### BackupJobs, BackupRestore and BackupPackage

A job is two files: `request`, by its name (queued, running, or gone), and
`status`. A worker claims the oldest request by renaming it, then writes its
status; both orders of death in between are actions of their own (`ClaimTorn`,
`FinishTorn`). It takes the execution lock, a snapshot of the database, and then
one file after the other from a storage directory that goes on changing;
publishes; deletes what retention lets it; writes the outcome. A worker started
with `run` marks the jobs it finds interrupted as failed. `due` remembers what
the database held when a job was queued, for `SucceededCovers`.

`BackupRestore` adds one restore at a time: the target's rows, the files of its
storage with their content, what the restore created and noted (`own`), and the
file it created and has not noted yet (`unnoted`), which is what a failure at that
moment leaves behind.

In `BackupPackage` a database is a record with a field per table. The server
writes (`ServerWrites`) while `StartExport` and its queries read one table after
the other in `ReadOrder`; the package, signed or not, is carried to one of
`Servers` or stays, is validated with that server's key, pins and requirement
(`site`), previewed, and imported: the embedded files are written one by one
(`RestoreFile`, with `todo` the files left and `gone` those that vanished
meanwhile), and the transaction is committed without another look at them.
`Archive` is the conversion, the sections of `LegacySections` and the media an asset
claims; `Restores` inserts them in `SectionOrder`, under the foreign keys that
PostgreSQL checks, and `Restored` is what comes out.

### ConsoleTimeline

A handler runs until it awaits a request. A request carries its kind, the
account, room, filter and anchor it was made for, and what its tokens will say:
`fresh` (no other room was opened since) and `latest` (no later request of its
kind). Answers are processed in any order, with the guards the handlers have after
their `await`. The pages of the server are cut by (timestamp, sequence), the
console sorts by (timestamp, hash); the instance contains a second in which the
two differ.

## 4. The runs

| Run | Question | Instance |
| --- | --- | --- |
| `sync_core` | Does the collector implement the outbox and the queue, do runs exclude each other, are leases intact, are hashes backed by files of the server? | two command-line processes, one message (thumbnail, then full picture), 2 attempts, all faults, one crash, operator requeues |
| `sync_reconcile` | Is a completed patch ever lost, is a row ever out of reach, does anything die early, when every scan is a reconcile scan? | the tray program, scans inside and outside the gate, every view except thumbnails, server unavailable at times, one crash |
| `sync_settles` | Does splitting partition the leased messages, is everything queued settled, does a crashed process scan again? | two messages, server unavailable or failing single items, one crash, with fairness |
| `import` | Is what is delivered archived, are ended batches closed, is everything delivered? | one message, five references, two scans, one request given up on, one faulty chunk, three fresh ids, with fairness |
| `scan_race` | Does a cursor ever stand for a row that was not queued, is `initial_scan_completed` true, is every row found? | daemon and command line, one table, 4 keys (two of one second), pages of 2, budgets of 1, one fault, with fairness |
| `scan_issues` | Do bad databases hold up good ones? | daemon, 4 tables in 3 databases, 2 keys, one row that always raises, one locked database, one fault, one crash, with fairness |
| `connection` | Does the newest registration survive, do calls keep their connection, do lost connections end? | 2 sockets, 2 robots, 3 event frames, one task, one hanging peer, with fairness |
| `media` | Is what says *local* there, is an audit right, is everything alive archived? | 3 messages (picture and dead link; picture and forward; legacy picture), pages of 2, audits of the oldest message, two arrivals, one fault, with fairness |
| `backup` | Does a job run once, does success mean a complete archive, does retention keep the newest, does every job end? | 2 jobs, a looping and a single worker, one item, `keep_latest` 1, two deaths, one lost file, with fairness |
| `restore` | Is a commit the archive, is a failure undone? | one job, 2 items, any storage, one death of the restore |
| `package` | Is a package closed, are raises announced, is archived media kept, do both ways agree? | 2 messages, 2 assets (one too big to embed), 2 sources of one device, 5 servers with a key, a new key or none, 3 writes, 2 exports, one move |
| `timeline` | Does what is shown belong to the title, does the timeline settle, is the first message reached? | 2 accounts, 2 rooms, 5 messages, pages of 2 (at most 3), 3 clicks, 2 requests in flight, one failure, with fairness |

**Why these bounds.** The queue's transactions touch one message row and the
media rows of that message, and its media gate looks at one message at a time,
so one message with one element reaches every interaction of roles. Two messages
matter where they share something, the request; that is `sync_settles`. Two
processes are enough for one to take away what the other has leased; two attempts
tell a first attempt from a last one. The import needs two scans, for an older and a
newer payload, and one request given up on, for a late execution after its own
replacement; three fresh ids are as many as those scans and faults can use up
(with two, `AllDelivered` fails for want of an id). `BatchLimit` exceeds the
number of rows: a batch that leaves rows behind is covered by the theorems.

A scan needs four keys for a page, a row between two pages, one that is late
within the overlap and one that is late outside it. Two sockets are one
replacement; with the second robot they are a socket that leaves a registration
behind. Three messages and pages of two are a page that is full of the dead. An audit of the
oldest message leaves the second and its two files to what the rows say (the third is
the one that came without rows); the oldest has a picture before its dead link, so
that the link's position changes for whoever counts only what is still open. Two
jobs are the least retention can choose between; one item is a row with or
without its file, and `restore` has two, for a failure between them. The five
servers of `package` are one for each way of disagreeing: empty, repaired without a
hash, bound elsewhere, known under another source id, archived as another file. Two
of them want signatures, two have a new key and pin what the old one signed, one has
no key; a package may be signed by either key or by none.
In `timeline` two requests in flight besides those of the refresh and a click are
enough for any two answers to change places, and five messages are two pages and
a second that the two orders arrange differently.

**Deadlock** is checked in `sync_reconcile`, `sync_settles`, `import`,
`scan_race` and `scan_issues`. In `sync_core` both processes may be waiting on a
running row a crashed one left (a skipped run changes nothing, so nothing may be
enabled); that is what the code does. The other runs have bounded arrivals,
clicks or jobs and stop when all work is done.

**Fairness** is stated of what the program schedules itself.
* `CollectorSync!FairSpec`: a process that is down is started again, the loop
  starts a run when the gate lets it, a step of an upload is taken in the end
  (requests have timeouts, local transactions finish), time passes for rows that
  wait; and, *strongly* fair, the registration of the source succeeds again and
  again, which an unavailable server may delay but not for ever. Faults are not
  limited in number: whoever meets them every time ends as a dead letter, which
  is settled.
* `ImportSession!FairSpec`: the three requests of a lot, nothing of late ones.
* `CollectorScan!FairScanSpec`: the daemon's steps, its restart and its reconcile
  interval; nothing of the command line or of QQ.
* `OneBotConnection!FairSpec`: the event loop runs handlers, heartbeats and tasks,
  and `wait_for` ends a wait; a peer owes nothing.
* `MediaArchive!FairSpec`: a session that has begun goes on, and the operator keeps
  asking for passes, which is what the cursor is for.
* `BackupJobs!FairJobsSpec`: each worker takes its steps, and the container starts
  its loop again.
* `ConsoleTimeline!FairSpec`: requests are answered, the timer ticks, and the user
  keeps scrolling up.

Scans of the command line, crashes, faults, operators and other clicks are never
forced.

## 5. What is proved

Every theorem is for all values of the constants, so for any number of messages,
elements, processes, batches, requests, keys, sockets and jobs; the bounds of
section 4 play no part in the arguments. There are no unproved steps and no
assumptions but the named ones: on the constants (`MessagesAssumption`,
`MaxAttemptsAssumption`, `BatchLimitAssumption`, `SyncAssumption`,
`ScanAssumption`, `ImportAssumption`, `SessionAssumption`, `ConnectionAssumption`,
`ArchiveAssumption`, `BackupAssumption`, `RestoreAssumption`, `PackageAssumption`,
`TimelineAssumption`), which TLC also evaluates, and the five hypotheses
`SoleRecoverer`, `Gated`, `Reconciling`, `OnlyUnavailable` and
`CollectorAssumption` named below.

**The queue** (`CollectorProofs`). `QueueInv` is the type invariant with
`RowsRecoverable`. It is inductive: `GoodRows` says that it suffices that a
transaction leaves good rows, and each transaction's row function is shown to
yield good ones. From it `QueueTypeCorrect` and `QueueRowsRecoverable`;
`QueueHasNoOrphans` is inductive together with it, because a page is one
transaction.

**The collector** (`CollectorProofs`).
* `SyncImplementsQueue`: every step of every process is a transaction of the
  queue or leaves the tables alone. `SyncRowsRecoverable` follows from the
  queue's theorem, and so do the tables' types in `TypeCorrect`.
* `RunsExclude`, under `SoleRecoverer`: a process that recovers interrupted runs
  is the only process. `GateInv` strengthens exclusion to *the one running row is
  that of the process in the run*. The assumption is needed: the tray program
  fails the row of a live command-line run (section 6).
* `HashesAreOnServer`, without any assumption: a hash enters a payload only from
  `current`, the file the server just confirmed. `HashInv` adds that to the
  property, and a copy is shown to claim no more than the row it was taken from.

**Outcomes** (`CollectorProofs`), under `Gated`: `SoleRecoverer` and no
scan outside the gate. `OutcomeInv` ties the leased copies to the rows (still
inflight, same payload), the pending halves to one another (disjoint, and
together exactly what is leased and unsettled), and each verdict to what the
server accepted. From it `LeasesStayIntact`, `SplitsPartition` and
`CompletedAreAccepted`. Leases may expire during an upload all the same: only
the next `lease_ready` takes such a row away, and behind the gate nobody calls
it while the upload is under way.

`PatchesAreKept` has the hypothesis `Reconciling` instead: `SoleRecoverer`, and every
scan, in the gate or outside it, is a reconcile scan. `RowsInv` adds to the property
that a completed message lacks no hash; `PatchInv` says of a process that a file it
is about to confirm is in its message already unless the lease was lost, and that
the copy of a row still in flight has the row's payload. The hypothesis is needed:
with an incremental scan TLC finds the lost patch of section 6.

`NothingDiesEarly` (`DeadLetterOnlyWhenExhausted`) has the hypothesis
`OnlyUnavailable`: `Reconciling`, a server that is unavailable at times but refuses
no file, no operator who requeues, and no view of a thumbnail without its picture.
`GiveUpInv` adds two things to the invariant of `PatchesAreKept`. `FitInv`: the only
thing a server can reject in a payload is a missing hash. `AttemptsInv`: a leased
copy of a row that is still inflight has the row's attempts (`mark_retry` judges the
copy), and a message that is sent without a hash, or was rejected for it, had one of
its media rows given up before it was leased. Each part of the hypothesis is needed:
a refused file is a dead letter at once, as it should be; a thumbnail that comes after
its picture makes a combination that is rejected (section 6); and a media row requeued
while its message is in flight leaves a message that is rejected without any dead
media row to explain it.

**The outbox** (`CollectorProofs`). `SyncImplementsOutbox`, under `Gated`: every step
of every process is a step of `Outbox` or a stutter, one case per action, with
`OutcomeInv` where a message is settled. `OutboxKeepsItsPromise` reads the
outbox's own invariant back in the collector's terms: whatever implements the
outbox has completed only what the server accepted as queued.

**The scan** (`ScanProofs`). A cursor is `Anchored` when it is zero or the key of
a row that is there, and `Covered` when every row at or below it is queued or
late. `ScanInv` asks both of every saved cursor and of the last row of every page
in progress, asks of every copy that it lacks only late rows and rows above all
of its own (`IsCopy`), and of every walk that what it passed without an issue or
a limit has its backlog queued (`WalkOK`). From it `CursorsSkipNothing`, for any
number of scanners, and `InitialScanCompletes`. Anchoring is what makes a row that
appears behind a cursor late by definition.

**The import** (`ImportProofs`).
* For any clients: `ServerTypeCorrect` (with the CHECK constraints of the
  references, which neither writer can break), `CompletedBatchesAreClean` and
  `EndedBatchesAreClosed`, from `BatchInv`: a chunk with a failed item leaves its
  trace in the counter the verdict is decided from.
* `CompleteStaysComplete` under `CollectorAssumption`, that only a complete
  reference names a file: `complete` is then terminal. Without the assumption it
  is not (section 6). `ArchiveInv` also keeps, for every cached
  chunk, that its items that passed are archived at least as well as that chunk
  said, which is what makes an answer from the cache true.
* `SessionImplementsServer`: the collector is one of the clients the server is
  specified for, so all of that holds in the conversation.
* `DeliveredStaysArchived` from `AnswerInv`; `CompletionsAreAccepted` from
  `VerdictInv`, that an ended batch has the verdict its failures call for and that
  whoever asks for *partial* was told of a failure. `UpdatesAlwaysFit`:
  under `ArchiveInv` no offered reference leads an update into a CHECK.

**The connection** (`OneBotProofs`). `RegistryInv` ties the registry to the history
of registrations, `HandlerInv` says that a running handler's connection is the
newest of its socket and that one that is being registered is the newest of its
robot. From them `NewestStaysRegistered`, `EndedAreGone` and
`CallsStayOnTheirConnection`.

**Media** (`MediaProofs`). `LocalStaysServed`: a session writes back a text it read
before its downloads, so the property alone is not inductive. `ServedInv` says the
same of every text a session holds (`EventInv`, `ForwardInv`, `PassInv`): each local
path in it is *backed* (`Backs`) by a file and by a row, committed or staged by that
very session. Rows and files only grow for the one who holds a text (`GrownFor`);
what a session commits makes its staged rows everybody's, and what it rolls back
was nobody else's. `AuditIsEnough` (`ReadyMeansServed`) joins the audit to that
invariant: a text beyond `AuditLimit` is not opened, but it is served because the
row it points to exists and the audit did look at the row's file. Only archives that
came without rows (`Legacy`) must be within the limit. For an audited text it shows
that the URL at the ordinal of a reference is the URL of that reference's own slot,
whatever was fetched before it: the lemmas `Positions` and `OwnPosition`, for which
the assumption is needed that a forward comes last in its message.

`PagesPassNoneOver` is the safety half of `EventuallyArchived`. A page goes on where
the cursor is and from the start again; no message is on it twice, and a pending
message that is not on it comes, in that order, after all of a page that is full, so
behind the cursor its last message becomes. What a pass can be kept from is therefore
only ending. `ArchiveTypeCorrect` rests on it, since the cursor is taken from the page;
`PassAtInv` adds to `ServedInv` that a pass fetches slots of the message it is at.

**Backups** (`BackupProofs`). `JobInv`: a request leaves the queue once, so a job
has one worker and at most one archive (`JobsAreNotRepeated`), whichever of the
renames a death comes between. `CoverInv` follows the rows of a job from the
database it was queued from through the snapshot and the files still to be copied
into the archive (`SucceededJobsCover`). `RetentionIsSafe` is inductive with the
finiteness of the archives: an archive that was surplus stays so, since newer
ones are only added. `RestoreInv` says what a restore knows of its own files;
`RestoresAreFaithful` and `RestoresAreUndone` follow.

**Packages** (`PackageProofs`). `PackageSafe` is inductive. Its first part, `Sound`,
says that every row of the database refers to rows that are there, through every
write and every merge (`TablesStaySound`). `ReadInv` is about an export between two
of its queries: each table it has read is explained by the tables as they are now.
That survives whatever is written in between, since the tables those rows refer to
(sources, batches, assets) only grow (`Grows`), and it is one case per query that the
next one selects enough. `PackageInv` is what the finished package then is,
`ReportInv` that a preview's findings still hold when the import validates,
`FilesInv` that while an import runs every described file is there, still to be
written, or gone. From it `ExportsAreClosed`, `PreviewsWarn` and
`ImportsKeepTheArchive`. `ConversionsAgree` follows the restore through its sections:
`LegacyPlaces` and `SectionPlaces` say where each table stands in the two lists,
`SameSections` that they are the same tables, `TablesSoFar` what is there after each
insert, `OrderOfRestore` that every foreign key then holds, given that the package's
rows are closed; `MergedIntoEmpty` computes the import it is compared with, and the
two judgments of a signature are shown to agree where there is a key.

**The console** (`ConsoleProofs`). `ConsoleInv` joins to the two properties what is
true of requests in flight: each has an answer of the room and account it was made
for (`Fitting`); of the requests for the list of rooms, the one whose token is the
latest is of the present account (`RequestsFit`); and, unless a search result or a
switch of account has come in between, a page whose token lets it in was asked for
by that account (`LoadsFit`). `ShownMessagesWereAsked` follows, of the room always and
of the account in that case, and `SidebarFollowsAccount`. Of the filter they say
nothing; `TimelineSettles` does.
`InOrderHolds` and `NewestAreLast` are what ordering a finite set and cutting a page
from its end do, and `PagesMeet` combines them: in the server's own order no message
falls between a page and the page before it. The console gives the server a message
that is first in its own order, which is where section 6 has its seam.

## 6. Where the code and its documents disagree

These were met while modelling. The models have them as the code does; a property
that one of them would break is stated with the exception it needs, or under the
hypothesis that excludes it.

**Collector**

* **A patch is lost.** A message waits because the server is
  unavailable, its picture is uploaded and patched in; an overlapping incremental
  scan replaces the payload (`queue.py:63`) and keeps the completed media row
  (`queue.py:115`). The message is sent as `complete` without a hash, is
  rejected, and becomes a dead letter at its first attempt. Only
  `sync_reconcile`, where media is queued again together with the message, keeps
  its patches (`PatchNotLost`, proved as `PatchesAreKept`).
* **A message ships without saying so.** `queue.py:190-191`
  relies on an `archive_state` of `failed` that nothing writes: the parser wrote
  `complete`, and a dead media row changes no message.
* **A recalled message blocks the queue.** A rescan that no
  longer yields the reference makes every later patch raise
  (`queue.py:304`), before any message of that cycle is sent. `sync_settles`
  has no recalls.
* Only the tray program clears the running row of a process that died
  (`controller.py:118`); after a crash of the command-line daemon every run is
  skipped (`scheduler.py:43`), although `collector/README.md:49-50` says that the
  next run resumes. `ResumesAfterRestart` is checked for the tray program. The
  same recovery, when the tray program starts, fails the run of a live
  command-line process, which is why `RunsExclude` has its hypothesis.
* A thumbnail confirmed after its picture patches `thumbnail_only` onto
  `downloaded` (`queue.py:318`), a combination the contract does not have; the
  message is rejected.
* A rescan that queues a media row again makes it due at once and keeps its
  attempts (`queue.py:131-132`): no backoff, and fewer attempts.
* A reconcile scan puts a forward's token back into the text, and the artifact row
  is not queued again (`message.py:373`): the token is what the reader sees.
* `initial_scan_completed` is never set while a database stays locked, so every scan
  keeps the small budget of the mode *initial* (`scheduler.py:58`).

**Import**

* **An upload is not recorded.** `upload_external_media`
  (`api.py:1524`) inserts the row in `media_assets`, answers, and the session is
  closed without a commit. The import that names the hash then fails for that
  item, again and again, until a real-time event, the media backfill or the
  offline repair stores the same file. `AllDelivered` is therefore stated of the
  items whose files the server knows.
* **A complete reference falls back.** A QQNT item with
  another file is applied without asking the transition table
  (`import_service.py:725`). The repository's collector never sends such an item
  (`CollectorAssumption`, `CompleteStaysComplete`).
* The counters of a batch are read and written back without a lock that SQLite
  knows (`import_service.py:363`); two server processes could lose an increment.
* An event whose message is inserted by an import during its downloads is dropped
  (`message_service.py:248`).
* The contract allows combinations the table's CHECK constraints refuse after an
  update, such as an item `unknown`/`failed` with a file onto a reference
  `not_downloaded`; such an item fails in every retry. The collector's own items
  never do (`UpdatesAlwaysFit`).

**Media**

* Repair indexes a file without `content_sha256`
  (`offline_repair_service.py:95-105`); `save_media_asset` then raises for the same
  file (`message_service.py:169`): events with it are dropped, and a pass
  stops at the same place every time, although the cursor is there so that
  everything behind a head that cannot be fetched is reached
  (`media_backfill_service.py:266-268`). `EventuallyArchived` excepts exactly this.
* A lost file never comes back, although the audit advises to run repair and
  backfill (`offline_audit_service.py:48-51`): the row is there, so nothing is
  written (`message_service.py:141-145`).
* A download that fails for a moment becomes a permanent placeholder when the
  operator asks for a final pass.
* Two patterns number the media of a text, and they differ
  (`message_service.py:593-608`, `media_service.py:468-502`): the second counts
  market faces, which the first and the collector do not. The model has none, and one
  numbering. It also has forwards only at the end of a message, as QQ sends them: a
  fetched forward is a local path and counts, so a medium behind one would change its
  position. Nested forwards share
  one set of what was seen, so that a repeated nested conversation stays uncached
  (`media_service.py:1165-1170`).

**Packages**

* A preview counts a source record that is bound to another message, and a complete
  reference that would be bound anew, as *update* and calls the package valid
  (`backup_service.py:1675-1690`); the import refuses it with 400
  (`backup_service.py:2015-2020`). `PreviewWarns` therefore accepts an update as a
  warning.
* An import overwrites `content_sha256` of an asset with the package's null; an
  avatar known by it then dangles, and the server's next export is refused when it
  is validated. `ExportIsClosed` names this exception.
* Importing an older package resets `local_message` and unlinks parts until the
  archive is imported again (`ImportKeepsArchive` speaks of references and files
  only). An import that fails leaves the files it wrote. Nothing looks at the files
  between validation and commit, so one that vanishes meanwhile is missed by nobody. An
  asset above `max_media_bytes` is described in a package that does not hold it.

* What a preview said is worth nothing once rows have changed: the import does not
  ask for it and judges anew. `PreviewWarns` compares the two on the same rows.
* A server without a key imports a signed package unseen and an unsigned one as
  well, unless it requires signatures (`backup_service.py:1505-1530`); it converts
  none, since an archive must be signed. The converter's `--require-legacy-signature`
  is taken to be what the server is configured with, and a pin to be on the package.
* Foreign keys are checked by PostgreSQL only; SQLite would let the restore insert its
  sections in any order.

**Console**

* A switch of account, or a search result, while a room is loading leaves
  `loadingRoom` set: the skeleton stays and live refresh stops
  (`app.js:2668-2676`). `TimelineSettles` excepts it (`Stuck`).
* The same two do not raise `roomLoadToken` (`app.js:2668-2708`, `app.js:3201-3214`):
  a load that was started under the former account is shown when a search result
  opens the same room under the new one, with messages this account may not be able
  to see. `ShownIsAsked` therefore promises the account only in a room that was
  opened from the list (`detour`), and the room always.
* A switch that fails leaves the rooms of the former account under the new name
  (`app.js:2695-2702`), until the next refresh; `SidebarIsOfAccount` excepts it.
* A search has no token (`app.js:3222`): the answer to an older keyword may replace
  that of a newer one.
* History is prepended without looking for duplicates (`app.js:3455`), its cursor
  is the first message in the client's order, and pages are cut in the server's:
  messages of one second may appear twice until the next refresh, and a second that
  holds more than a page is never passed.
* With the media filter a refresh replaces the list by the latest 200 at most. After
  a jump, or when more messages arrive while the tab is hidden than a refresh
  fetches, the list has holes.

## 7. What is only checked, and what is left out

**Only model-checked.** All liveness (`EventuallySettled`, `ResumesAfterRestart`,
`AllDelivered`, `EveryRowQueued`, `HealthyRowsQueued`, `LostConnectionsEnd`,
`EventuallyArchived`, `EveryJobEnds`, `TimelineSettles`, `HistoryReachesStart`),
since the prover has neither fairness nor ENABLED. Every safety and every action
property of the runs is stated by a theorem.

**Abstractions to know of.** The collector's server in `CollectorSync` knows the
files it confirmed; what becomes of a message whose file the server has
forgotten is in `ImportSession`, and, seen from the queue, is the fault
`item_failed`. A scanned page is any set of messages in `CollectorSync`; which
set is `CollectorScan`'s subject. Rows whose sequence is NULL are left out there.
Payload identities (dedupe keys, chunk hashes, batch ids) are taken to be
injective. Transactions are serialised, which SQLite does for a single server
process; an import of a package is therefore one step once its files are written.
Message text is reduced to where it points and whether it is a forward token;
names, profiles, source records' other columns and counters other than
`failed_media` are left out, because nothing reads them to decide anything. A file
is present or not, and, in a restore, right or not. In packages the checks of the
fields of a record are left out, and only version 3 is modelled. In the console
the newest page is any answer that the queries give; previews and rendering are
left out.

**Not modelled.**
* File formats (QQNT, SQLCipher, protobuf, the layout and signatures of archives):
  data without control of their own.
* Which stored message an incoming one is (identity resolution), the linking of its
  parts, capture policy, the paging of evidence, the quota of the staging
  directory: sequential functions of one call's arguments that a unit test
  reaches; they share no state with the behaviours above but the rows they return.
* Configuration, credentials, logging, diagnostics, windows and forms: pure I/O.
* Accounts, tokens, audit log, profiles, interactions: handlers over a single row,
  in one transaction.
* Schema, migrations, scripts: run alone, once.

## 8. What remains

* The sequential functions of section 7 as operators, against reference definitions:
  identity resolution and capture policy first.
* A composition of `CollectorScan` and `CollectorSync`, in which pages come from the
  cursor and the gate decides who scans.
