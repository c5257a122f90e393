----------------------------- MODULE BackupJobs -----------------------------
(***************************************************************************)
(* Full backups.  The server, its scheduler and the command line queue a   *)
(* job as two files, a request and a status (app/backup/jobs.py); a worker *)
(* process claims the oldest request by renaming it, exports a snapshot of *)
(* the database and the media files behind it into one archive             *)
(* (worker.py, exporter.py, archive.py), deletes automatic archives it     *)
(* need not keep, and writes the outcome.  The container runs "worker      *)
(* run"; an operator may run "worker once" beside it.                      *)
(*                                                                         *)
(* Jobs are numbered in the order they are queued.  An item is a row of    *)
(* media_assets with the file behind it.                                   *)
(***************************************************************************)
EXTENDS Integers, FiniteSets

CONSTANTS
    MaxJobs,       \* bound on the number of jobs
    Workers,
    Looping,       \* those started with "run", not "once"
    Items,
    Keep,          \* keep_latest; 0 keeps all
    MayCrash,      \* the workers that may die
    MaxCrashes,    \* bound on their deaths
    MaxLost        \* bound on the media files that disappear

Jobs == 1..MaxJobs

ASSUME BackupAssumption ==
    /\ MaxJobs \in Nat
    /\ Looping \subseteq Workers /\ MayCrash \subseteq Workers
    /\ IsFiniteSet(Items)
    /\ Keep \in Nat /\ MaxCrashes \in Nat /\ MaxLost \in Nat

VARIABLES
    \* the server
    stored,        \* items whose file is in the storage directory
    committed,     \* items whose row is in the database
    lost,          \* items whose file disappeared
    \* BACKUP_ROOT/.backup-jobs
    request,       \* the name of each job's request file
    status,        \* the state in its status file
    kind,          \* backup_type
    due,           \* what the database held when the job was queued
    \* BACKUP_ROOT
    made,          \* the archives published so far
    removed,       \* those retention deleted
    \* one worker
    pc, job,
    view,          \* the rows of its database snapshot
    todo,          \* the rows whose file it has not come to
    copied,        \* the rows whose file it archived
    outcome,       \* what it will write of its job
    crashes

server == <<stored, committed, lost>>
queue == <<request, status, kind, due>>
archives == <<made, removed>>
export == <<view, todo, copied>>
worker == <<pc, job, export, outcome>>
jobVars == <<server, queue, archives, worker, crashes>>

Requests == {"none", "queued", "claimed", "succeeded", "failed"}
Statuses == {"none", "queued", "running", "succeeded", "failed"}
Kinds == {"none", "auto", "manual"}
Archives == [job : Jobs, kind : Kinds, rows : SUBSET Items, files : SUBSET Items, nth : Nat]

Exporting == {"snapshot", "media", "retain"}
Working == {"lock"} \union Exporting

JobsTypeOK ==
    /\ stored \subseteq Items /\ committed \subseteq Items /\ lost \subseteq Items
    /\ request \in [Jobs -> Requests] /\ status \in [Jobs -> Statuses]
    /\ kind \in [Jobs -> Kinds] /\ due \in [Jobs -> SUBSET Items]
    /\ made \subseteq Archives /\ removed \subseteq made
    /\ pc \in [Workers -> {"down", "idle", "finish"} \union Working]
    /\ job \in [Workers -> Jobs \union {0}]
    /\ \A w \in Workers : job[w] = 0 <=> pc[w] \in {"down", "idle"}
    /\ view \in [Workers -> SUBSET Items]
    /\ todo \in [Workers -> SUBSET Items] /\ copied \in [Workers -> SUBSET Items]
    /\ outcome \in [Workers -> {"succeeded", "failed"}]
    /\ crashes \in 0..MaxCrashes

JobsInit ==
    /\ stored = {} /\ committed = {} /\ lost = {}
    /\ request = [j \in Jobs |-> "none"] /\ status = [j \in Jobs |-> "none"]
    /\ kind = [j \in Jobs |-> "none"] /\ due = [j \in Jobs |-> {}]
    /\ made = {} /\ removed = {}
    /\ pc = [w \in Workers |-> "down"] /\ job = [w \in Workers |-> 0]
    /\ view = [w \in Workers |-> {}] /\ todo = [w \in Workers |-> {}]
    /\ copied = [w \in Workers |-> {}]
    /\ outcome = [w \in Workers |-> "failed"]
    /\ crashes = 0

-----------------------------------------------------------------------------
(* The server: a file is stored before its row is committed. *)

StoreFile(i) ==
    /\ i \notin stored \union lost
    /\ stored' = stored \union {i}
    /\ UNCHANGED <<committed, lost, queue, archives, worker, crashes>>

CommitRow(i) ==
    /\ i \in stored \ committed
    /\ committed' = committed \union {i}
    /\ UNCHANGED <<stored, lost, queue, archives, worker, crashes>>

LoseFile(i) ==
    /\ i \in stored /\ Cardinality(lost) < MaxLost
    /\ stored' = stored \ {i}
    /\ lost' = lost \union {i}
    /\ UNCHANGED <<committed, queue, archives, worker, crashes>>

-----------------------------------------------------------------------------
(* Queueing a job *)

Active == {j \in Jobs : status[j] \in {"queued", "running"}}

Unused == {j \in Jobs : request[j] = "none"}

\* enqueue_backup_job writes the request first; the second write may fail, or
\* the process die before it.
Enqueue(k, written) ==
    \E j \in Unused :
        /\ \A i \in Unused : j <= i
        /\ Active = {}
        /\ request' = [request EXCEPT ![j] = "queued"]
        /\ status' = IF written THEN [status EXCEPT ![j] = "queued"] ELSE status
        /\ kind' = [kind EXCEPT ![j] = k]
        /\ due' = [due EXCEPT ![j] = committed]
        /\ UNCHANGED <<server, archives, worker, crashes>>

\* _auto_backup_loop and the buttons of the console ask for a heartbeat first;
\* it may be as old as its maximal age, so it promises nothing of the worker,
\* and the command line does not ask.
AutoBackup(written) == Enqueue("auto", written)
ManualBackup(written) == Enqueue("manual", written)

-----------------------------------------------------------------------------
(* A worker *)

Goto(w, step) == pc' = [pc EXCEPT ![w] = step]

\* What a process forgets when its job is over, or when it dies.
Forget(w) ==
    /\ job' = [job EXCEPT ![w] = 0]
    /\ view' = [view EXCEPT ![w] = {}] /\ todo' = [todo EXCEPT ![w] = {}]
    /\ copied' = [copied EXCEPT ![w] = {}]
    /\ outcome' = [outcome EXCEPT ![w] = "failed"]

Interrupted == {j \in Jobs : request[j] = "claimed"}

\* Mutant: interrupted jobs are queued again.
MarkInterruptedRetrying ==
    /\ request' = [j \in Jobs |-> IF j \in Interrupted THEN "queued" ELSE request[j]]
    /\ status' = [j \in Jobs |-> IF j \in Interrupted THEN "queued" ELSE status[j]]

\* mark_interrupted_jobs_failed
MarkInterrupted ==
    /\ request' = [j \in Jobs |-> IF j \in Interrupted THEN "failed" ELSE request[j]]
    /\ status' = [j \in Jobs |-> IF j \in Interrupted THEN "failed" ELSE status[j]]

StartLoop(w) ==
    /\ w \in Looping /\ pc[w] = "down"
    /\ MarkInterrupted
    /\ Goto(w, "idle")
    /\ UNCHANGED <<server, kind, due, archives, job, export, outcome, crashes>>

\* Mutant: a request without a status is passed over.
ClaimableListed(j) ==
    /\ request[j] = "queued" /\ status[j] = "queued"
    /\ \A i \in Jobs : request[i] = "queued" => j <= i

Claimable(j) ==
    /\ request[j] = "queued"
    /\ \A i \in Jobs : request[i] = "queued" => j <= i

\* The request is renamed, then the status written.
Claim(w) ==
    /\ pc[w] = IF w \in Looping THEN "idle" ELSE "down"
    /\ \E j \in Jobs :
          /\ Claimable(j)
          /\ request' = [request EXCEPT ![j] = "claimed"]
          /\ status' = [status EXCEPT ![j] = "running"]
          /\ job' = [job EXCEPT ![w] = j]
    /\ Goto(w, "lock")
    /\ UNCHANGED <<server, kind, due, archives, export, outcome, crashes>>

\* The process dies between the two.
ClaimTorn(w) ==
    /\ w \in MayCrash /\ crashes < MaxCrashes
    /\ crashes' = crashes + 1
    /\ pc[w] = IF w \in Looping THEN "idle" ELSE "down"
    /\ \E j \in Jobs :
          /\ Claimable(j)
          /\ request' = [request EXCEPT ![j] = "claimed"]
    /\ Goto(w, "down")
    /\ UNCHANGED <<server, status, kind, due, archives, job, export, outcome>>

LockHeld == \E w \in Workers : pc[w] \in Exporting

\* backup_execution_lock does not wait.
TakeLock(w) ==
    /\ pc[w] = "lock" /\ ~LockHeld
    /\ Goto(w, "snapshot")
    /\ UNCHANGED <<server, queue, archives, job, export, outcome, crashes>>

LockRefused(w) ==
    /\ pc[w] = "lock" /\ LockHeld
    /\ Goto(w, "finish")
    /\ UNCHANGED <<server, queue, archives, job, export, outcome, crashes>>

\* _copy_sqlite_database
TakeSnapshot(w) ==
    /\ pc[w] = "snapshot"
    /\ view' = [view EXCEPT ![w] = committed]
    /\ todo' = [todo EXCEPT ![w] = committed]
    /\ Goto(w, "media")
    /\ UNCHANGED <<server, queue, archives, job, copied, outcome, crashes>>

HasFile(i) == i \in stored

\* _write_media_assets: a file that is not there is counted as missing.
ArchiveFile(w) ==
    /\ pc[w] = "media"
    /\ \E i \in todo[w] :
          /\ todo' = [todo EXCEPT ![w] = @ \ {i}]
          /\ copied' = IF HasFile(i) THEN [copied EXCEPT ![w] = @ \union {i}] ELSE copied
    /\ UNCHANGED <<server, queue, archives, pc, job, view, outcome, crashes>>

Archive(w) ==
    [job |-> job[w], kind |-> kind[job[w]], rows |-> view[w], files |-> copied[w],
     nth |-> Cardinality(made) + 1]

\* validate_backup_archive: nothing but files of the rows, all that were noted.
Validates(a) == a.files \subseteq a.rows

\* finalize: closed, flushed, validated, and only then given its name.
Publish(w) ==
    /\ pc[w] = "media" /\ todo[w] = {}
    /\ Validates(Archive(w))
    /\ made' = made \union {Archive(w)}
    /\ outcome' = [outcome EXCEPT ![w] = "succeeded"]
    /\ Goto(w, "retain")
    /\ UNCHANGED <<server, queue, removed, job, export, crashes>>

Visible == made \ removed
AutoArchives(set) == {a \in set : a.kind = "auto"}
NewerThan(a, set) == {b \in set : b.nth > a.nth}

\* Mutant: one archive too many is deleted.
SurplusOneMore ==
    {a \in AutoArchives(Visible) : Cardinality(NewerThan(a, AutoArchives(Visible))) >= Keep - 1}

\* backups[:-keep]
Surplus ==
    {a \in AutoArchives(Visible) : Cardinality(NewerThan(a, AutoArchives(Visible))) >= Keep}

ApplyRetention(w) ==
    /\ pc[w] = "retain"
    /\ removed' = IF kind[job[w]] = "auto" /\ Keep > 0 THEN removed \union Surplus ELSE removed
    /\ Goto(w, "finish")
    /\ UNCHANGED <<server, queue, made, job, export, outcome, crashes>>

\* Mutant: an exception is not noticed.
JobRaisesUnnoticed(w) ==
    /\ pc[w] \in Working
    /\ outcome' = [outcome EXCEPT ![w] = "succeeded"]
    /\ Goto(w, "finish")
    /\ UNCHANGED <<server, queue, archives, job, export, crashes>>

\* Any step raises: a file changes while it is copied, the disk is full, the new
\* archive cannot be read back, another worker's retention deleted it.
JobRaises(w) ==
    /\ pc[w] \in Working \/ (pc[w] = "finish" /\ outcome[w] = "succeeded")
    /\ outcome' = [outcome EXCEPT ![w] = "failed"]
    /\ Goto(w, "finish")
    /\ UNCHANGED <<server, queue, archives, job, export, crashes>>

\* The status is written; then the request is renamed, if it is still where
\* the worker left it.
Finish(w) ==
    /\ pc[w] = "finish"
    /\ status' = [status EXCEPT ![job[w]] = outcome[w]]
    /\ request' = [request EXCEPT ![job[w]] = IF @ = "claimed" THEN outcome[w] ELSE @]
    /\ Goto(w, IF w \in Looping THEN "idle" ELSE "down")
    /\ Forget(w)
    /\ UNCHANGED <<server, kind, due, archives, crashes>>

\* The process dies between the two.
FinishTorn(w) ==
    /\ w \in MayCrash /\ crashes < MaxCrashes
    /\ crashes' = crashes + 1
    /\ pc[w] = "finish"
    /\ status' = [status EXCEPT ![job[w]] = outcome[w]]
    /\ Goto(w, "down")
    /\ Forget(w)
    /\ UNCHANGED <<server, request, kind, due, archives>>

Crash(w) ==
    /\ w \in MayCrash /\ crashes < MaxCrashes
    /\ crashes' = crashes + 1
    /\ pc[w] # "down"
    /\ Goto(w, "down")
    /\ Forget(w)
    /\ UNCHANGED <<server, queue, archives>>

WorkerStep(w) ==
    \/ StartLoop(w) \/ Claim(w) \/ TakeLock(w) \/ LockRefused(w)
    \/ TakeSnapshot(w) \/ ArchiveFile(w) \/ Publish(w)
    \/ ApplyRetention(w) \/ JobRaises(w) \/ Finish(w)

JobsNext ==
    \/ \E i \in Items : StoreFile(i) \/ CommitRow(i) \/ LoseFile(i)
    \/ \E written \in BOOLEAN : AutoBackup(written) \/ ManualBackup(written)
    \/ \E w \in Workers : WorkerStep(w) \/ ClaimTorn(w) \/ FinishTorn(w) \/ Crash(w)

\* A running process goes on; the container starts its loop again.
JobsFairness == \A w \in Workers : WF_jobVars(WorkerStep(w))

JobsSpec == JobsInit /\ [][JobsNext]_jobVars
FairJobsSpec == JobsSpec /\ JobsFairness

-----------------------------------------------------------------------------
(* Properties *)

\* No job is executed twice, by two workers or again after a crash
\* ("without silently retrying the same full backup", jobs.py:265).
JobsRunOnce == \A a, b \in made : a.job = b.job => a = b

\* A job that says it succeeded left an archive with everything the database
\* held when it was queued, and with every file of it that had not disappeared.
SucceededCovers ==
    \A j \in Jobs : status[j] = "succeeded" =>
        \E a \in made :
            /\ a.job = j
            /\ due[j] \subseteq a.rows
            /\ a.rows \ a.files \subseteq lost

\* Retention only ever deletes automatic archives that Keep newer ones replace,
\* however the jobs of several workers interleave.
RetentionKeepsNewest ==
    \A a \in removed :
        /\ a.kind = "auto"
        /\ Cardinality(NewerThan(a, AutoArchives(made))) >= Keep

\* A queued job ends, whatever is written of it and whichever worker dies.
EveryJobEnds ==
    \A j \in Jobs : request[j] = "queued" ~> status[j] \in {"succeeded", "failed"}
=============================================================================
