---------------------------- MODULE BackupProofs ----------------------------
(***************************************************************************)
(* Theorems about backup jobs, for any number of jobs, workers, items,     *)
(* crashes and lost files.                                                 *)
(*                                                                         *)
(* JobInv says that a request leaves the queue once, so that a job belongs *)
(* to one worker and to one archive.  CoverInv follows the rows of a job   *)
(* from the database it was queued from into the archive.                  *)
(***************************************************************************)
EXTENDS BackupRestore, FiniteSetTheorems, TLAPS

Waiting(j) == request[j] \in {"none", "queued"}

NotMade(j) == \A a \in made : a.job # j

JobInv ==
    /\ \A j \in Jobs : request[j] = "none" => status[j] = "none"
    /\ \A j \in Jobs : Waiting(j) => NotMade(j) /\ \A w \in Workers : job[w] # j
    /\ \A v, w \in Workers : job[v] = job[w] /\ job[v] # 0 => v = w
    /\ \A w \in Workers : pc[w] \in {"lock", "snapshot", "media"} => NotMade(job[w])
    /\ JobsRunOnce

\* The archive a job that succeeded has left.
Covered(j) ==
    \E a \in made : a.job = j /\ due[j] \subseteq a.rows /\ a.rows \ a.files \subseteq lost

\* What a worker that copies files still has to do.
CopyInv(w) ==
    /\ due[job[w]] \subseteq view[w]
    /\ todo[w] \subseteq committed
    /\ view[w] \subseteq todo[w] \union copied[w] \union lost

CoverInv ==
    /\ committed \subseteq stored \union lost
    /\ \A j \in Jobs : due[j] \subseteq committed
    /\ \A w \in Workers : pc[w] = "media" => CopyInv(w)
    /\ \A w \in Workers : outcome[w] = "succeeded" => pc[w] \in {"retain", "finish"} /\ Covered(job[w])
    /\ \A j \in Jobs : status[j] = "succeeded" => Covered(j)

RetentionInv == IsFiniteSet(made) /\ RetentionKeepsNewest

-----------------------------------------------------------------------------
(* Types *)

LEMMA JobsInitially == JobsInit => JobsTypeOK /\ JobInv /\ CoverInv /\ RetentionInv
<1> SUFFICES ASSUME JobsInit PROVE JobsTypeOK /\ JobInv /\ CoverInv /\ RetentionInv
  OBVIOUS
<1>1. JobsTypeOK
  <2>1. 0 \in 0..MaxCrashes
    BY BackupAssumption
  <2>2. request \in [Jobs -> Requests] /\ status \in [Jobs -> Statuses]
    BY DEF JobsInit, Requests, Statuses
  <2>3. kind \in [Jobs -> Kinds] /\ due \in [Jobs -> SUBSET Items]
    BY DEF JobsInit, Kinds
  <2>4. pc \in [Workers -> {"down", "idle", "finish"} \union Working]
    BY DEF JobsInit
  <2>5. job \in [Workers -> Jobs \union {0}] /\ \A w \in Workers : job[w] = 0 <=> pc[w] \in {"down", "idle"}
    BY DEF JobsInit
  <2>6. /\ view \in [Workers -> SUBSET Items] /\ todo \in [Workers -> SUBSET Items]
        /\ copied \in [Workers -> SUBSET Items]
        /\ outcome \in [Workers -> {"succeeded", "failed"}]
    BY DEF JobsInit
  <2>7. /\ stored \subseteq Items /\ committed \subseteq Items /\ lost \subseteq Items
        /\ made \subseteq Archives /\ removed \subseteq made /\ crashes \in 0..MaxCrashes
    BY <2>1 DEF JobsInit
  <2>8. QED
    BY <2>2, <2>3, <2>4, <2>5, <2>6, <2>7 DEF JobsTypeOK
<1>2. JobInv
  BY DEF JobsInit, JobInv, NotMade, JobsRunOnce, Jobs
<1>3. CoverInv
  BY DEF JobsInit, CoverInv
<1>4. RetentionInv
  BY FS_EmptySet DEF JobsInit, RetentionInv, RetentionKeepsNewest
<1>5. QED
  BY <1>1, <1>2, <1>3, <1>4

\* The archive a worker publishes.
LEMMA ArchiveType ==
    ASSUME JobsTypeOK, RetentionInv, NEW w \in Workers, pc[w] = "media"
    PROVE  Archive(w) \in Archives
<1>1. job[w] \in Jobs
  BY DEF JobsTypeOK
<1>2. Cardinality(made) + 1 \in Nat
  BY FS_CardinalityType DEF RetentionInv
<1>3. kind[job[w]] \in Kinds /\ view[w] \in SUBSET Items /\ copied[w] \in SUBSET Items
  BY <1>1 DEF JobsTypeOK
<1>4. QED
  BY <1>1, <1>2, <1>3 DEF Archive, Archives

LEMMA CrashBound == ASSUME JobsTypeOK, crashes < MaxCrashes PROVE crashes + 1 \in 0..MaxCrashes
BY BackupAssumption DEF JobsTypeOK

LEMMA StoreTypes ==
    ASSUME JobsTypeOK,
           \/ \E i \in Items : StoreFile(i) \/ CommitRow(i) \/ LoseFile(i)
           \/ \E written \in BOOLEAN : AutoBackup(written) \/ ManualBackup(written)
    PROVE  JobsTypeOK'
<1> USE DEF JobsTypeOK, server, queue, archives, worker, export
<1>1. ASSUME NEW i \in Items, StoreFile(i) \/ CommitRow(i) \/ LoseFile(i) PROVE JobsTypeOK'
  BY <1>1 DEF StoreFile, CommitRow, LoseFile
<1>2. ASSUME NEW k \in {"auto", "manual"}, NEW written \in BOOLEAN, Enqueue(k, written)
      PROVE  JobsTypeOK'
  <2>1. request' \in [Jobs -> Requests]
    BY <1>2 DEF Enqueue, Unused, Requests
  <2>2. status' \in [Jobs -> Statuses]
    BY <1>2 DEF Enqueue, Unused, Statuses
  <2>3. kind' \in [Jobs -> Kinds] /\ due' \in [Jobs -> SUBSET Items]
    BY <1>2 DEF Enqueue, Unused, Kinds
  <2>4. UNCHANGED <<server, archives, worker, crashes>>
    BY <1>2 DEF Enqueue
  <2>5. QED
    BY <2>1, <2>2, <2>3, <2>4
<1>3. QED
  BY <1>1, <1>2 DEF AutoBackup, ManualBackup

\* The requests and their statuses.
LEMMA QueueTypes ==
    ASSUME JobsTypeOK, NEW w \in Workers,
           \/ StartLoop(w) \/ Claim(w) \/ ClaimTorn(w)
           \/ (Finish(w) \/ FinishTorn(w)) /\ job[w] \in Jobs
           \/ UNCHANGED <<request, status>>
    PROVE  request' \in [Jobs -> Requests] /\ status' \in [Jobs -> Statuses]
<1> USE DEF JobsTypeOK, Requests, Statuses
<1>1. CASE StartLoop(w)
  BY <1>1 DEF StartLoop, MarkInterrupted
<1>2. CASE Claim(w)
  BY <1>2 DEF Claim
<1>3. CASE ClaimTorn(w)
  BY <1>3 DEF ClaimTorn
<1>4. CASE (Finish(w) \/ FinishTorn(w)) /\ job[w] \in Jobs
  <2>1. outcome[w] \in {"succeeded", "failed"}
    OBVIOUS
  <2>2. status' = [status EXCEPT ![job[w]] = outcome[w]]
    BY <1>4 DEF Finish, FinishTorn
  <2>3. request' \in [Jobs -> Requests]
    BY <1>4, <2>1 DEF Finish, FinishTorn
  <2>4. QED
    BY <1>4, <2>1, <2>2, <2>3
<1>5. QED
  BY <1>1, <1>2, <1>3, <1>4

LEMMA WorkerTypes ==
    ASSUME JobsTypeOK, RetentionInv, NEW w \in Workers,
           WorkerStep(w) \/ ClaimTorn(w) \/ FinishTorn(w) \/ Crash(w)
    PROVE  JobsTypeOK'
<1>1. pc[w] = "finish" => job[w] \in Jobs
  BY DEF JobsTypeOK
<1>2. request' \in [Jobs -> Requests] /\ status' \in [Jobs -> Statuses]
  BY <1>1, QueueTypes DEF WorkerStep, TakeLock, LockRefused, TakeSnapshot, ArchiveFile, Publish,
     ApplyRetention, JobRaises, Crash, Finish, FinishTorn, queue
<1>3. UNCHANGED <<stored, committed, lost, kind, due>>
  BY DEF WorkerStep, StartLoop, Claim, ClaimTorn, TakeLock, LockRefused, TakeSnapshot,
     ArchiveFile, Publish, ApplyRetention, JobRaises, Crash, Finish, FinishTorn, queue, server
<1>4. crashes' \in 0..MaxCrashes
  BY CrashBound DEF JobsTypeOK, WorkerStep, StartLoop, Claim, ClaimTorn, TakeLock, LockRefused,
     TakeSnapshot, ArchiveFile, Publish, ApplyRetention, JobRaises, Crash, Finish, FinishTorn
<1>5. made' \subseteq Archives /\ removed' \subseteq made'
  <2>1. CASE Publish(w)
    BY <2>1, ArchiveType DEF Publish, JobsTypeOK
  <2>2. CASE ApplyRetention(w)
    BY <2>2 DEF ApplyRetention, JobsTypeOK, Surplus, AutoArchives, Visible
  <2>3. CASE ~Publish(w) /\ ~ApplyRetention(w)
    <3>1. UNCHANGED archives
      BY <2>3 DEF WorkerStep, StartLoop, Claim, ClaimTorn, TakeLock, LockRefused,
         TakeSnapshot, ArchiveFile, JobRaises, Crash, Finish, FinishTorn
    <3>2. QED
      BY <3>1 DEF archives, JobsTypeOK
  <2>4. QED
    BY <2>1, <2>2, <2>3
<1>6. /\ pc' \in [Workers -> {"down", "idle", "finish"} \union Working]
      /\ job' \in [Workers -> Jobs \union {0}]
      /\ \A v \in Workers : job'[v] = 0 <=> pc'[v] \in {"down", "idle"}
  <2> USE DEF JobsTypeOK, Goto, Working, Exporting
  <2>1. CASE StartLoop(w) \/ ClaimTorn(w)
    BY <2>1 DEF StartLoop, ClaimTorn
  <2>2. CASE Claim(w)
    BY <2>2 DEF Claim, Jobs
  <2>3. CASE TakeLock(w) \/ LockRefused(w) \/ TakeSnapshot(w) \/ JobRaises(w)
    BY <2>3 DEF TakeLock, LockRefused, TakeSnapshot, JobRaises
  <2>4. CASE ArchiveFile(w) \/ Publish(w) \/ ApplyRetention(w)
    BY <2>4 DEF ArchiveFile, Publish, ApplyRetention
  <2>5. CASE Finish(w) \/ FinishTorn(w) \/ Crash(w)
    BY <2>5 DEF Finish, FinishTorn, Crash, Forget
  <2>6. QED
    BY <2>1, <2>2, <2>3, <2>4, <2>5 DEF WorkerStep
<1>7. /\ view' \in [Workers -> SUBSET Items] /\ todo' \in [Workers -> SUBSET Items]
      /\ copied' \in [Workers -> SUBSET Items]
      /\ outcome' \in [Workers -> {"succeeded", "failed"}]
  <2> USE DEF JobsTypeOK, export
  <2>1. CASE Finish(w) \/ FinishTorn(w) \/ Crash(w)
    BY <2>1 DEF Finish, FinishTorn, Crash, Forget
  <2>2. CASE TakeSnapshot(w)
    BY <2>2 DEF TakeSnapshot
  <2>3. CASE ArchiveFile(w)
    BY <2>3 DEF ArchiveFile
  <2>4. CASE Publish(w) \/ JobRaises(w)
    BY <2>4 DEF Publish, JobRaises
  <2>5. CASE StartLoop(w) \/ Claim(w) \/ ClaimTorn(w) \/ TakeLock(w) \/ LockRefused(w) \/ ApplyRetention(w)
    BY <2>5 DEF StartLoop, Claim, ClaimTorn, TakeLock, LockRefused, ApplyRetention
  <2>6. QED
    BY <2>1, <2>2, <2>3, <2>4, <2>5 DEF WorkerStep
<1>8. QED
  BY <1>2, <1>3, <1>4, <1>5, <1>6, <1>7 DEF JobsTypeOK

LEMMA JobsTypeStep == JobsTypeOK /\ RetentionInv /\ [JobsNext]_jobVars => JobsTypeOK'
<1> SUFFICES ASSUME JobsTypeOK, RetentionInv, [JobsNext]_jobVars PROVE JobsTypeOK'
  OBVIOUS
<1>1. CASE UNCHANGED jobVars
  BY <1>1 DEF JobsTypeOK, jobVars, server, queue, archives, worker, export
<1>2. CASE JobsNext
  BY <1>2, StoreTypes, WorkerTypes DEF JobsNext
<1>3. QED
  BY <1>1, <1>2

-----------------------------------------------------------------------------
(* One worker, one archive *)

\* A step that publishes nothing, hands out no job and puts none back in the queue.
LEMMA SameJobs ==
    ASSUME JobsTypeOK, JobInv, UNCHANGED made,
           \A j \in Jobs : Waiting(j)' => Waiting(j),
           \A j \in Jobs : request'[j] = "none" => request[j] = "none" /\ status'[j] = status[j],
           \A w \in Workers : job'[w] \in {job[w], 0},
           \A w \in Workers :
               pc'[w] \in {"lock", "snapshot", "media"} =>
                   pc[w] \in {"lock", "snapshot", "media"} /\ job'[w] = job[w]
    PROVE  JobInv'
<1>1. \A j \in Jobs : Waiting(j) => NotMade(j) /\ \A w \in Workers : job[w] # j
  BY DEF JobInv
<1>2. \A j \in Jobs : Waiting(j)' => NotMade(j)' /\ \A w \in Workers : job'[w] # j
  <2> SUFFICES ASSUME NEW j \in Jobs, Waiting(j)'
               PROVE  NotMade(j)' /\ \A w \in Workers : job'[w] # j
    OBVIOUS
  <2>1. NotMade(j) /\ (\A w \in Workers : job[w] # j) /\ j # 0
    BY <1>1 DEF Jobs
  <2>2. QED
    BY <2>1 DEF NotMade
<1>3. \A v, w \in Workers : job'[v] = job'[w] /\ job'[v] # 0 => v = w
  BY DEF JobInv
<1>4. \A w \in Workers : pc'[w] \in {"lock", "snapshot", "media"} => NotMade(job[w])'
  BY DEF JobInv, NotMade
<1>5. JobsRunOnce'
  BY DEF JobInv, JobsRunOnce
<1>6. \A j \in Jobs : request'[j] = "none" => status'[j] = "none"
  BY DEF JobInv
<1>7. QED
  BY <1>2, <1>3, <1>4, <1>5, <1>6 DEF JobInv

LEMMA QuietJobs ==
    ASSUME JobsTypeOK, JobInv, NEW w \in Workers,
           \/ StartLoop(w) \/ ClaimTorn(w) \/ TakeLock(w) \/ LockRefused(w) \/ TakeSnapshot(w)
           \/ ArchiveFile(w) \/ ApplyRetention(w) \/ JobRaises(w)
           \/ Finish(w) \/ FinishTorn(w) \/ Crash(w)
    PROVE  JobInv'
<1> DEFINE Copying == {"lock", "snapshot", "media"}
<1>1. UNCHANGED made /\ \A v \in Workers : job'[v] \in {job[v], 0}
  BY DEF JobsTypeOK, StartLoop, ClaimTorn, TakeLock, LockRefused, TakeSnapshot, ArchiveFile,
     ApplyRetention, JobRaises, Finish, FinishTorn, Crash, Forget, archives
<1>2. \A v \in Workers : pc'[v] \in Copying => pc[v] \in Copying /\ job'[v] = job[v]
  <2>1. CASE StartLoop(w) \/ ClaimTorn(w) \/ Finish(w) \/ FinishTorn(w) \/ Crash(w)
    BY <2>1 DEF JobsTypeOK, StartLoop, ClaimTorn, Finish, FinishTorn, Crash, Goto, Forget
  <2>2. CASE TakeLock(w) \/ LockRefused(w) \/ TakeSnapshot(w) \/ ApplyRetention(w) \/ JobRaises(w)
    BY <2>2 DEF JobsTypeOK, TakeLock, LockRefused, TakeSnapshot, ApplyRetention, JobRaises, Goto
  <2>3. CASE ArchiveFile(w)
    BY <2>3 DEF ArchiveFile
  <2>4. QED
    BY <2>1, <2>2, <2>3
<1>3. /\ \A j \in Jobs : Waiting(j)' => Waiting(j)
      /\ \A j \in Jobs : request'[j] = "none" => request[j] = "none" /\ status'[j] = status[j]
  <2>1. CASE StartLoop(w)
    BY <2>1 DEF StartLoop, MarkInterrupted, Interrupted, Waiting
  <2>2. CASE ClaimTorn(w)
    BY <2>2 DEF ClaimTorn, Waiting, JobsTypeOK
  <2>3. CASE Finish(w) \/ FinishTorn(w)
    <3>1. job[w] \in Jobs /\ ~Waiting(job[w])
      BY <2>3 DEF JobsTypeOK, JobInv, Finish, FinishTorn
    <3>2. \A j \in Jobs : j # job[w] => status'[j] = status[j] /\ request'[j] = request[j]
      BY <2>3 DEF Finish, FinishTorn, JobsTypeOK
    <3>3. request'[job[w]] \notin {"none", "queued"}
      BY <2>3, <3>1 DEF Finish, FinishTorn, JobsTypeOK, Waiting
    <3>4. QED
      BY <3>1, <3>2, <3>3 DEF Waiting
  <2>4. CASE UNCHANGED queue
    BY <2>4 DEF queue, Waiting
  <2>5. QED
    BY <2>1, <2>2, <2>3, <2>4 DEF TakeLock, LockRefused, TakeSnapshot, ArchiveFile,
       ApplyRetention, JobRaises, Crash
<1>4. QED
  BY <1>1, <1>2, <1>3, SameJobs

LEMMA ServerJobs ==
    ASSUME JobsTypeOK, JobInv,
           \/ \E i \in Items : StoreFile(i) \/ CommitRow(i) \/ LoseFile(i)
           \/ \E written \in BOOLEAN : AutoBackup(written) \/ ManualBackup(written)
    PROVE  JobInv'
<1>1. UNCHANGED <<made, job, pc>>
  BY DEF StoreFile, CommitRow, LoseFile, AutoBackup, ManualBackup, Enqueue, archives, worker
<1>2. /\ \A j \in Jobs : Waiting(j)' => Waiting(j)
      /\ \A j \in Jobs : request'[j] = "none" => request[j] = "none" /\ status'[j] = status[j]
  <2>1. CASE UNCHANGED queue
    BY <2>1 DEF queue, Waiting
  <2>2. ASSUME NEW k, NEW written \in BOOLEAN, Enqueue(k, written)
        PROVE  /\ \A j \in Jobs : Waiting(j)' => Waiting(j)
               /\ \A j \in Jobs : request'[j] = "none" =>
                                     request[j] = "none" /\ status'[j] = status[j]
    BY <2>2 DEF Enqueue, Unused, Waiting, JobsTypeOK
  <2>3. QED
    BY <2>1, <2>2 DEF StoreFile, CommitRow, LoseFile, AutoBackup, ManualBackup
<1>3. QED
  BY <1>1, <1>2, SameJobs

\* A worker takes a job nobody has and nobody has run.
LEMMA ClaimStep ==
    ASSUME JobsTypeOK, JobInv, NEW w \in Workers, Claim(w)
    PROVE  JobInv'
<1>1. PICK j \in Jobs : /\ request[j] = "queued"
                        /\ request' = [request EXCEPT ![j] = "claimed"]
                        /\ status' = [status EXCEPT ![j] = "running"]
                        /\ job' = [job EXCEPT ![w] = j]
  BY DEF Claim, Claimable
<1>2. pc' = [pc EXCEPT ![w] = "lock"] /\ made' = made
  BY DEF Claim, Goto, archives
<1>3. NotMade(j) /\ (\A v \in Workers : job[v] # j) /\ j # 0
  BY <1>1 DEF JobInv, Waiting, Jobs
<1>4. \A v \in Workers : job'[v] = IF v = w THEN j ELSE job[v]
  BY <1>1 DEF JobsTypeOK
<1>5. \A i \in Jobs : request'[i] = (IF i = j THEN "claimed" ELSE request[i])
                      /\ status'[i] = (IF i = j THEN "running" ELSE status[i])
  BY <1>1 DEF JobsTypeOK
<1>6. \A i \in Jobs : request'[i] = "none" => status'[i] = "none"
  BY <1>5 DEF JobInv
<1>7. ASSUME NEW i \in Jobs, Waiting(i)' PROVE NotMade(i)' /\ \A v \in Workers : job'[v] # i
  <2>1. i # j /\ Waiting(i)
    BY <1>5, <1>7 DEF Waiting
  <2>2. NotMade(i) /\ \A v \in Workers : job[v] # i
    BY <2>1 DEF JobInv
  <2>3. QED
    BY <1>2, <1>4, <2>1, <2>2 DEF NotMade
<1>8. \A u, v \in Workers : job'[u] = job'[v] /\ job'[u] # 0 => u = v
  BY <1>3, <1>4 DEF JobInv
<1>9. ASSUME NEW v \in Workers, pc'[v] \in {"lock", "snapshot", "media"} PROVE NotMade(job[v])'
  <2>1. CASE v = w
    BY <1>2, <1>3, <1>4, <2>1 DEF NotMade
  <2>2. CASE v # w
    BY <1>2, <1>4, <1>9, <2>2 DEF JobInv, NotMade, JobsTypeOK
  <2>3. QED
    BY <2>1, <2>2
<1>10. JobsRunOnce'
  BY <1>2 DEF JobInv, JobsRunOnce
<1>11. QED
  BY <1>6, <1>7, <1>8, <1>9, <1>10 DEF JobInv

\* The archive of a job is its first.
LEMMA PublishStep ==
    ASSUME JobsTypeOK, JobInv, NEW w \in Workers, Publish(w)
    PROVE  JobInv'
<1>1. /\ pc[w] = "media" /\ pc' = [pc EXCEPT ![w] = "retain"]
      /\ made' = made \union {Archive(w)}
      /\ UNCHANGED <<request, status, job>>
  BY DEF Publish, Goto, queue
<1>2. Archive(w).job = job[w] /\ NotMade(job[w]) /\ job[w] \in Jobs
  BY <1>1 DEF Archive, JobInv, JobsTypeOK
<1>3. ~Waiting(job[w])
  BY <1>2 DEF JobInv
<1>4. ASSUME NEW j \in Jobs, Waiting(j)' PROVE NotMade(j)' /\ \A v \in Workers : job'[v] # j
  <2>1. Waiting(j)
    BY <1>1, <1>4 DEF Waiting
  <2>2. NotMade(j) /\ (\A v \in Workers : job[v] # j)
    BY <2>1 DEF JobInv
  <2>3. QED
    BY <1>1, <1>2, <2>2 DEF NotMade
<1>5. ASSUME NEW v \in Workers, pc'[v] \in {"lock", "snapshot", "media"} PROVE NotMade(job[v])'
  <2>1. v # w /\ pc'[v] = pc[v]
    BY <1>1, <1>5 DEF JobsTypeOK
  <2>2. job[v] # job[w]
    BY <1>2, <2>1 DEF JobInv, Jobs
  <2>3. NotMade(job[v])
    BY <1>5, <2>1 DEF JobInv
  <2>4. QED
    BY <1>1, <1>2, <2>2, <2>3 DEF NotMade
<1>6. JobsRunOnce'
  BY <1>1, <1>2 DEF JobInv, JobsRunOnce, NotMade
<1>7. (\A j \in Jobs : request'[j] = "none" => status'[j] = "none")
      /\ \A u, v \in Workers : job'[u] = job'[v] /\ job'[u] # 0 => u = v
  BY <1>1 DEF JobInv
<1>8. QED
  BY <1>4, <1>5, <1>6, <1>7 DEF JobInv

LEMMA JobStep == JobsTypeOK /\ JobInv /\ [JobsNext]_jobVars => JobInv'
<1> SUFFICES ASSUME JobsTypeOK, JobInv, [JobsNext]_jobVars PROVE JobInv'
  OBVIOUS
<1>1. CASE UNCHANGED jobVars
  BY <1>1, SameJobs DEF jobVars, queue, archives, worker, Waiting
<1>2. CASE JobsNext
  BY <1>2, ServerJobs, QuietJobs, ClaimStep, PublishStep DEF JobsNext, WorkerStep
<1>3. QED
  BY <1>1, <1>2

-----------------------------------------------------------------------------
(* What an archive covers *)

\* Every step but for what it copies and publishes.
LEMMA SameCover ==
    ASSUME JobsTypeOK, JobInv, CoverInv,
           made \subseteq made', lost \subseteq lost', committed \subseteq committed',
           committed' \subseteq stored' \union lost',
           \A j \in Jobs : due'[j] \subseteq committed',
           \A j \in Jobs : request[j] # "none" => due'[j] = due[j],
           \A j \in Jobs : status'[j] = "succeeded" =>
               \/ status[j] = "succeeded"
               \/ \E w \in Workers : outcome[w] = "succeeded" /\ job[w] = j,
           \A w \in Workers : pc'[w] = "media" =>
               \/ CopyInv(w)'
               \/ /\ pc[w] = "media" /\ job'[w] = job[w]
                  /\ UNCHANGED <<view[w], todo[w], copied[w]>>,
           \A w \in Workers : outcome'[w] = "succeeded" =>
               /\ pc'[w] \in {"retain", "finish"}
               /\ Covered(job[w])' \/ (outcome[w] = "succeeded" /\ job'[w] = job[w])
    PROVE  CoverInv'
<1>1. \A j : Covered(j) /\ due'[j] = due[j] => Covered(j)'
  BY DEF Covered
<1>2. ASSUME NEW w \in Workers, pc[w] \in {"media", "retain", "finish"}
      PROVE  job[w] \in Jobs /\ due'[job[w]] = due[job[w]]
  <2>1. job[w] \in Jobs
    BY <1>2 DEF JobsTypeOK
  <2>2. request[job[w]] # "none"
    BY <2>1 DEF JobInv, Waiting
  <2>3. QED
    BY <2>1, <2>2
<1>3. ASSUME NEW w \in Workers, NEW j, j = job[w], outcome[w] = "succeeded" PROVE Covered(j)'
  <2>1. pc[w] \in {"retain", "finish"} /\ Covered(j)
    BY <1>3 DEF CoverInv
  <2>2. due'[j] = due[j]
    BY <1>2, <1>3, <2>1
  <2>3. QED
    BY <1>1, <2>1, <2>2
<1>4. ASSUME NEW w \in Workers, pc'[w] = "media" PROVE CopyInv(w)'
  <2> SUFFICES ASSUME ~CopyInv(w)' PROVE CopyInv(w)'
    OBVIOUS
  <2>1. pc[w] = "media" /\ job'[w] = job[w] /\ UNCHANGED <<view[w], todo[w], copied[w]>>
    BY <1>4
  <2>2. CopyInv(w) /\ due'[job[w]] = due[job[w]]
    BY <1>2, <2>1 DEF CoverInv
  <2>3. QED
    BY <2>1, <2>2 DEF CopyInv
<1>5. ASSUME NEW w \in Workers, outcome'[w] = "succeeded"
      PROVE  pc'[w] \in {"retain", "finish"} /\ Covered(job[w])'
  <2> SUFFICES ASSUME ~Covered(job[w])' PROVE pc'[w] \in {"retain", "finish"} /\ Covered(job[w])'
    BY <1>5
  <2>1. outcome[w] = "succeeded" /\ job'[w] = job[w] /\ pc'[w] \in {"retain", "finish"}
    BY <1>5
  <2>2. \A j : j = job[w] => Covered(j)'
    BY <1>3, <2>1
  <2>3. QED
    BY <2>1, <2>2
<1>6. ASSUME NEW j \in Jobs, status'[j] = "succeeded" PROVE Covered(j)'
  <2>1. CASE status[j] = "succeeded"
    <3>1. Covered(j)
      BY <2>1 DEF CoverInv
    <3>2. request[j] # "none"
      BY <2>1 DEF JobInv
    <3>3. QED
      BY <1>1, <3>1, <3>2
  <2>2. CASE \E w \in Workers : outcome[w] = "succeeded" /\ job[w] = j
    BY <1>3, <2>2
  <2>3. QED
    BY <1>6, <2>1, <2>2
<1>7. QED
  BY <1>4, <1>5, <1>6 DEF CoverInv

LEMMA ServerCover ==
    ASSUME JobsTypeOK, JobInv, CoverInv,
           \/ \E i \in Items : StoreFile(i) \/ CommitRow(i) \/ LoseFile(i)
           \/ \E written \in BOOLEAN : AutoBackup(written) \/ ManualBackup(written)
    PROVE  CoverInv'
<1>1. UNCHANGED <<archives, worker>> /\ lost \subseteq lost' /\ committed \subseteq committed'
  BY DEF StoreFile, CommitRow, LoseFile, AutoBackup, ManualBackup, Enqueue, server
<1>2. committed' \subseteq stored' \union lost'
  BY DEF StoreFile, CommitRow, LoseFile, AutoBackup, ManualBackup, Enqueue, server, CoverInv
<1>3. /\ \A j \in Jobs : due'[j] \subseteq committed'
      /\ \A j \in Jobs : request[j] # "none" => due'[j] = due[j]
      /\ \A j \in Jobs : status'[j] = "succeeded" => status[j] = "succeeded"
  <2>1. CASE UNCHANGED queue
    BY <1>1, <2>1 DEF queue, CoverInv
  <2>2. ASSUME NEW k, NEW written \in BOOLEAN, Enqueue(k, written)
        PROVE  /\ \A j \in Jobs : due'[j] \subseteq committed'
               /\ \A j \in Jobs : request[j] # "none" => due'[j] = due[j]
               /\ \A j \in Jobs : status'[j] = "succeeded" => status[j] = "succeeded"
    BY <2>2 DEF Enqueue, Unused, JobsTypeOK, CoverInv, server
  <2>3. QED
    BY <2>1, <2>2 DEF StoreFile, CommitRow, LoseFile, AutoBackup, ManualBackup
<1>4. \A w \in Workers : outcome[w] = "succeeded" => pc[w] \in {"retain", "finish"}
  BY DEF CoverInv
<1>5. QED
  BY <1>1, <1>2, <1>3, <1>4, SameCover DEF archives, worker, export

\* The steps of a worker that neither read the database nor copy nor publish.
LEMMA QuietCover ==
    ASSUME JobsTypeOK, JobInv, CoverInv, NEW w \in Workers,
           \/ StartLoop(w) \/ Claim(w) \/ ClaimTorn(w) \/ TakeLock(w) \/ LockRefused(w)
           \/ ApplyRetention(w) \/ JobRaises(w) \/ Finish(w) \/ FinishTorn(w) \/ Crash(w)
    PROVE  CoverInv'
<1>1. UNCHANGED <<made, server, due>>
  BY DEF StartLoop, Claim, ClaimTorn, TakeLock, LockRefused, ApplyRetention, JobRaises, Finish,
     FinishTorn, Crash, archives, queue
<1>2. \A v \in Workers : outcome[v] = "succeeded" => pc[v] \in {"retain", "finish"}
  BY DEF CoverInv
<1>3. \A j \in Jobs : status'[j] = "succeeded" =>
          \/ status[j] = "succeeded"
          \/ \E v \in Workers : outcome[v] = "succeeded" /\ job[v] = j
  <2>1. CASE StartLoop(w)
    BY <2>1 DEF StartLoop, MarkInterrupted
  <2>2. CASE Claim(w)
    BY <2>2 DEF Claim, JobsTypeOK
  <2>3. CASE Finish(w) \/ FinishTorn(w)
    BY <2>3 DEF Finish, FinishTorn, JobsTypeOK
  <2>4. CASE UNCHANGED status
    BY <2>4
  <2>5. QED
    BY <2>1, <2>2, <2>3, <2>4 DEF ClaimTorn, TakeLock, LockRefused, ApplyRetention, JobRaises,
       Crash, queue
<1>4. ASSUME NEW v \in Workers
      PROVE  /\ pc'[v] = "media" =>
                   pc[v] = "media" /\ job'[v] = job[v] /\ UNCHANGED <<view[v], todo[v], copied[v]>>
             /\ outcome'[v] = "succeeded" =>
                   /\ outcome[v] = "succeeded" /\ job'[v] = job[v]
                   /\ pc'[v] \in {"retain", "finish"}
  <2> USE DEF JobsTypeOK, Goto, export
  <2>1. CASE v # w
    BY <1>2, <2>1 DEF StartLoop, Claim, ClaimTorn, TakeLock, LockRefused, ApplyRetention,
       JobRaises, Finish, FinishTorn, Crash, Forget
  <2>2. CASE v = w
    <3>1. CASE Claim(w) \/ ClaimTorn(w) \/ StartLoop(w)
      BY <1>2, <2>2, <3>1 DEF Claim, ClaimTorn, StartLoop
    <3>2. CASE TakeLock(w) \/ LockRefused(w) \/ ApplyRetention(w) \/ JobRaises(w)
      BY <1>2, <2>2, <3>2 DEF TakeLock, LockRefused, ApplyRetention, JobRaises
    <3>3. CASE Finish(w) \/ FinishTorn(w) \/ Crash(w)
      BY <1>2, <2>2, <3>3 DEF Finish, FinishTorn, Crash, Forget
    <3>4. QED
      BY <3>1, <3>2, <3>3
  <2>3. QED
    BY <2>1, <2>2
<1>5. committed \subseteq stored \union lost /\ \A j \in Jobs : due[j] \subseteq committed
  BY DEF CoverInv
<1>6. QED
  BY <1>1, <1>3, <1>4, <1>5, SameCover DEF server

LEMMA ExportCover ==
    ASSUME JobsTypeOK, JobInv, CoverInv, NEW w \in Workers,
           TakeSnapshot(w) \/ ArchiveFile(w) \/ Publish(w)
    PROVE  CoverInv'
<1>1. UNCHANGED <<server, status, due, job>> /\ made \subseteq made'
  BY DEF TakeSnapshot, ArchiveFile, Publish, queue, archives
<1>2. committed \subseteq stored \union lost /\ \A j \in Jobs : due[j] \subseteq committed
  BY DEF CoverInv
<1>3. pc[w] \in {"snapshot", "media"} /\ job[w] \in Jobs
  BY DEF TakeSnapshot, ArchiveFile, Publish, JobsTypeOK
<1>4. ASSUME NEW v \in Workers, v # w
      PROVE  UNCHANGED <<pc[v], outcome[v], view[v], todo[v], copied[v]>>
  BY <1>4 DEF TakeSnapshot, ArchiveFile, Publish, JobsTypeOK, Goto, export
<1>5. CASE TakeSnapshot(w)
  <2>1. view'[w] = committed /\ todo'[w] = committed /\ outcome' = outcome
    BY <1>5 DEF TakeSnapshot, JobsTypeOK
  <2>2. CopyInv(w)'
    BY <1>1, <1>2, <1>3, <2>1 DEF CopyInv, server
  <2>3. outcome[w] # "succeeded"
    BY <1>3 DEF CoverInv
  <2>4. \A v \in Workers : outcome[v] = "succeeded" => pc[v] \in {"retain", "finish"}
    BY DEF CoverInv
  <2>5. QED
    BY <1>1, <1>2, <1>4, <2>1, <2>2, <2>3, <2>4, SameCover DEF server
<1>6. CASE ArchiveFile(w)
  <2>1. PICK i \in todo[w] :
           /\ todo' = [todo EXCEPT ![w] = @ \ {i}]
           /\ copied' = IF i \in stored THEN [copied EXCEPT ![w] = @ \union {i}] ELSE copied
    BY <1>6 DEF ArchiveFile, HasFile
  <2>2. pc[w] = "media" /\ UNCHANGED <<pc, view, outcome>>
    BY <1>6 DEF ArchiveFile
  <2>3. CopyInv(w)
    BY <2>2 DEF CoverInv
  <2>4. todo'[w] = todo[w] \ {i} /\ copied[w] \subseteq copied'[w]
    BY <2>1 DEF JobsTypeOK
  <2>5. i \in copied'[w] \/ i \in lost
    BY <1>2, <2>1, <2>3 DEF CopyInv, JobsTypeOK
  <2>6. CopyInv(w)'
    BY <1>1, <2>2, <2>3, <2>4, <2>5 DEF CopyInv, server
  <2>7. \A v \in Workers : outcome[v] = "succeeded" => pc[v] \in {"retain", "finish"}
    BY DEF CoverInv
  <2>8. QED
    BY <1>1, <1>2, <1>4, <2>2, <2>6, <2>7, SameCover DEF server
<1>7. CASE Publish(w)
  <2>1. /\ pc[w] = "media" /\ todo[w] = {} /\ Archive(w) \in made'
        /\ pc'[w] = "retain" /\ UNCHANGED export
    BY <1>7 DEF Publish, JobsTypeOK, Goto
  <2>2. CopyInv(w)
    BY <2>1 DEF CoverInv
  <2>3. /\ Archive(w).job = job[w] /\ due[job[w]] \subseteq Archive(w).rows
        /\ Archive(w).rows \ Archive(w).files \subseteq lost
    BY <2>1, <2>2 DEF CopyInv, Archive
  <2>4. Covered(job[w])'
    BY <1>1, <2>1, <2>3 DEF Covered, server
  <2>5. \A v \in Workers : outcome[v] = "succeeded" => pc[v] \in {"retain", "finish"}
    BY DEF CoverInv
  <2>6. QED
    BY <1>1, <1>2, <1>4, <2>1, <2>4, <2>5, SameCover DEF server
<1>8. QED
  BY <1>5, <1>6, <1>7

LEMMA CoverStep == JobsTypeOK /\ JobInv /\ CoverInv /\ [JobsNext]_jobVars => CoverInv'
<1> SUFFICES ASSUME JobsTypeOK, JobInv, CoverInv, [JobsNext]_jobVars PROVE CoverInv'
  OBVIOUS
<1>1. CASE UNCHANGED jobVars
  <2>1. \A w \in Workers : outcome[w] = "succeeded" => pc[w] \in {"retain", "finish"}
    BY DEF CoverInv
  <2>2. committed \subseteq stored \union lost /\ \A j \in Jobs : due[j] \subseteq committed
    BY DEF CoverInv
  <2>3. QED
    BY <1>1, <2>1, <2>2, SameCover DEF jobVars, server, queue, archives, worker, export
<1>2. CASE JobsNext
  BY <1>2, ServerCover, QuietCover, ExportCover DEF JobsNext, WorkerStep
<1>3. QED
  BY <1>1, <1>2

-----------------------------------------------------------------------------
(* Retention *)

\* The automatic archives that are newer than one, in a growing set of archives.
LEMMA NewerGrow ==
    ASSUME NEW a, NEW S, NEW T, IsFiniteSet(T), S \subseteq T
    PROVE  /\ Cardinality(NewerThan(a, AutoArchives(S))) \in Nat
           /\ Cardinality(NewerThan(a, AutoArchives(S))) <= Cardinality(NewerThan(a, AutoArchives(T)))
           /\ Cardinality(NewerThan(a, AutoArchives(T))) \in Nat
<1>1. NewerThan(a, AutoArchives(S)) \subseteq NewerThan(a, AutoArchives(T))
  BY DEF NewerThan, AutoArchives
<1>2. NewerThan(a, AutoArchives(T)) \subseteq T
  BY DEF NewerThan, AutoArchives
<1>3. IsFiniteSet(NewerThan(a, AutoArchives(T)))
  BY <1>2, FS_Subset
<1>4. IsFiniteSet(NewerThan(a, AutoArchives(S)))
  BY <1>1, <1>3, FS_Subset
<1>5. QED
  BY <1>1, <1>3, <1>4, FS_Subset, FS_CardinalityType

LEMMA RetentionStep == JobsTypeOK /\ RetentionInv /\ [JobsNext]_jobVars => RetentionInv'
<1> SUFFICES ASSUME JobsTypeOK, RetentionInv, [JobsNext]_jobVars PROVE RetentionInv'
  OBVIOUS
<1>1. Keep \in Nat
  BY BackupAssumption
<1>2. IsFiniteSet(made)
  BY DEF RetentionInv
<1>3. ASSUME made' = made, \A a \in removed' : a \in removed \/ (Keep > 0 /\ a \in Surplus)
      PROVE  RetentionInv'
  <2>1. ASSUME NEW a \in removed'
        PROVE  a.kind = "auto" /\ Cardinality(NewerThan(a, AutoArchives(made))) >= Keep
    <3>1. CASE a \in removed
      BY <3>1 DEF RetentionInv, RetentionKeepsNewest
    <3>2. CASE a \in Surplus
      <4>1. a.kind = "auto" /\ Cardinality(NewerThan(a, AutoArchives(Visible))) >= Keep
        BY <3>2 DEF Surplus, AutoArchives
      <4>2. Visible \subseteq made
        BY DEF Visible
      <4>3. QED
        BY <1>1, <1>2, <4>1, <4>2, NewerGrow
    <3>3. QED
      BY <1>3, <2>1, <3>1, <3>2
  <2>2. QED
    BY <1>2, <1>3, <2>1 DEF RetentionInv, RetentionKeepsNewest
<1>4. ASSUME NEW w \in Workers, Publish(w) PROVE RetentionInv'
  <2>1. made' = made \union {Archive(w)} /\ removed' = removed
    BY <1>4 DEF Publish
  <2>2. IsFiniteSet(made')
    BY <1>2, <2>1, FS_AddElement
  <2>3. ASSUME NEW a \in removed
        PROVE  a.kind = "auto" /\ Cardinality(NewerThan(a, AutoArchives(made'))) >= Keep
    <3>1. a.kind = "auto" /\ Cardinality(NewerThan(a, AutoArchives(made))) >= Keep
      BY <2>3 DEF RetentionInv, RetentionKeepsNewest
    <3>2. QED
      BY <1>1, <2>1, <2>2, <3>1, NewerGrow
  <2>4. QED
    BY <2>1, <2>2, <2>3 DEF RetentionInv, RetentionKeepsNewest, AutoArchives, NewerThan
<1>5. ASSUME NEW w \in Workers, ApplyRetention(w) PROVE RetentionInv'
  BY <1>3, <1>5 DEF ApplyRetention
<1>6. CASE UNCHANGED archives
  BY <1>3, <1>6 DEF archives
<1>7. QED
  BY <1>4, <1>5, <1>6 DEF JobsNext, WorkerStep, jobVars, StoreFile, CommitRow, LoseFile,
     AutoBackup, ManualBackup, Enqueue, StartLoop, Claim, ClaimTorn, TakeLock, LockRefused,
     TakeSnapshot, ArchiveFile, JobRaises, Finish, FinishTorn, Crash

LEMMA JobsInvariant == JobsSpec => [](JobsTypeOK /\ JobInv /\ CoverInv /\ RetentionInv)
<1> DEFINE Inv == JobsTypeOK /\ JobInv /\ CoverInv /\ RetentionInv
<1>1. JobsInit => Inv
  BY JobsInitially
<1>2. Inv /\ [JobsNext]_jobVars => Inv'
  BY JobsTypeStep, JobStep, CoverStep, RetentionStep
<1>3. QED
  BY <1>1, <1>2, PTL DEF JobsSpec

-----------------------------------------------------------------------------
(* Theorems *)

\* The requests, statuses, archives and workers keep their types; a worker has a
\* job exactly while it works on one.
THEOREM JobsTypeCorrect == JobsSpec => []JobsTypeOK
BY JobsInvariant, PTL

\* No job is executed twice, by however many workers, and however often they die
\* between the rename of a request and the writing of its status.
THEOREM JobsAreNotRepeated == JobsSpec => []JobsRunOnce
<1>1. JobInv => JobsRunOnce
  BY DEF JobInv
<1>2. QED
  BY <1>1, JobsInvariant, PTL

\* What says it succeeded left an archive of everything the database held when the
\* job was queued, with every file that had not disappeared.
THEOREM SucceededJobsCover == JobsSpec => []SucceededCovers
<1>1. CoverInv => SucceededCovers
  BY DEF CoverInv, Covered, SucceededCovers
<1>2. QED
  BY <1>1, JobsInvariant, PTL

\* Retention deletes automatic archives only, and of those only what Keep newer
\* ones replace, whatever other workers publish and delete meanwhile.
THEOREM RetentionIsSafe == JobsSpec => []RetentionKeepsNewest
<1>1. RetentionInv => RetentionKeepsNewest
  BY DEF RetentionInv
<1>2. QED
  BY <1>1, JobsInvariant, PTL

-----------------------------------------------------------------------------
(* Restores *)

\* While a restore runs it knows which files are its own: what it has come to is
\* in place, and what differs from before was not there and is noted, but for
\* the last file.
RestoreInv ==
    /\ ~restoring => published = {} /\ own = {} /\ unnoted = {}
    /\ restoring => target = {} /\ source \in made
    /\ \A i \in published : disk[i] = "right"
    /\ \A i \in own \union unnoted : before[i] = "none"
    /\ restoring => \A i \in Items : i \notin own \union unnoted => disk[i] = before[i]
    /\ \A i, j \in unnoted : i = j
    /\ RestoreFaithful /\ RestoreUndone

LEMMA MadeGrows ==
    ASSUME [JobsNext]_jobVars
    PROVE  made \subseteq made'
<1>1. ASSUME NEW w \in Workers, Publish(w) PROVE made \subseteq made'
  BY <1>1 DEF Publish
<1>2. ASSUME NEW w \in Workers, ApplyRetention(w) PROVE made' = made
  BY <1>2 DEF ApplyRetention
<1>3. QED
  BY <1>1, <1>2 DEF JobsNext, WorkerStep, jobVars, archives, StoreFile, CommitRow, LoseFile,
     AutoBackup, ManualBackup, Enqueue, StartLoop, Claim, ClaimTorn, TakeLock, LockRefused,
     TakeSnapshot, ArchiveFile, JobRaises, Finish, FinishTorn, Crash

LEMMA RestoreInitially == RestoreInit => RestoreTypeOK /\ RestoreInv
<1> SUFFICES ASSUME RestoreInit PROVE RestoreTypeOK /\ RestoreInv
  OBVIOUS
<1>1. 0 \in 0..MaxRestoreCrashes
  BY RestoreAssumption
<1>2. RestoreTypeOK
  BY <1>1 DEF RestoreInit, RestoreTypeOK
<1>3. RestoreInv
  BY DEF RestoreInit, RestoreInv, RestoreFaithful, RestoreUndone
<1>4. QED
  BY <1>2, <1>3

LEMMA RestoreTypeStep ==
    ASSUME JobsTypeOK, RestoreTypeOK, RestoreInv, RestoreNext, UNCHANGED jobVars
    PROVE  RestoreTypeOK'
<1>1. made' = made
  BY DEF jobVars, archives
<1>2. disk \in [Items -> {"none", "right", "other"}] /\ before \in [Items -> {"none", "right", "other"}]
  BY DEF RestoreTypeOK
<1>3. ASSUME NEW a \in Visible, StartRestore(a) PROVE RestoreTypeOK'
  <2>1. a \in made /\ published = published'
    BY <1>3 DEF Visible, StartRestore
  <2>2. published' \subseteq source'.files
    BY <1>3 DEF StartRestore, RestoreInv
  <2>3. QED
    BY <1>1, <1>2, <1>3, <2>1, <2>2 DEF StartRestore, RestoreTypeOK
<1>4. ASSUME NEW i \in Items, PublishFile(i) PROVE RestoreTypeOK'
  <2>1. disk' \in [Items -> {"none", "right", "other"}]
    BY <1>2, <1>4 DEF PublishFile
  <2>2. published' \subseteq source.files /\ own \subseteq published' /\ unnoted' \subseteq published'
    BY <1>4 DEF PublishFile, RestoreTypeOK
  <2>3. QED
    BY <1>1, <1>4, <2>1, <2>2 DEF PublishFile, RestoreTypeOK
<1>5. CASE NoteFile
  BY <1>1, <1>5 DEF NoteFile, RestoreTypeOK
<1>6. CASE CommitRestore
  <2>1. restoring /\ source \in made \union {NoArchive}
    BY <1>6 DEF CommitRestore, RestoreTypeOK
  <2>2. source.rows \subseteq Items
    BY <2>1 DEF NoArchive, JobsTypeOK, Archives
  <2>3. QED
    BY <1>1, <1>6, <2>2 DEF CommitRestore, EndRestore, Inserted, RestoreTypeOK, NoArchive
<1>7. CASE FailRestore
  <2>1. disk' \in [Items -> {"none", "right", "other"}]
    BY <1>2, <1>7 DEF FailRestore
  <2>2. QED
    BY <1>1, <1>7, <2>1 DEF FailRestore, EndRestore, RestoreTypeOK, NoArchive
<1>8. CASE CrashRestore
  <2>1. restoreCrashes' \in 0..MaxRestoreCrashes
    BY <1>8, RestoreAssumption DEF CrashRestore, RestoreTypeOK
  <2>2. QED
    BY <1>1, <1>8, <2>1 DEF CrashRestore, EndRestore, RestoreTypeOK, NoArchive
<1>9. QED
  BY <1>3, <1>4, <1>5, <1>6, <1>7, <1>8 DEF RestoreNext

LEMMA RestoreStep ==
    ASSUME JobsTypeOK, RestoreTypeOK, RestoreInv, RestoreNext, UNCHANGED jobVars
    PROVE  RestoreInv'
<1>1. made' = made
  BY DEF jobVars, archives
<1>2. disk \in [Items -> {"none", "right", "other"}] /\ before \in [Items -> {"none", "right", "other"}]
  BY DEF RestoreTypeOK
<1>3. ASSUME NEW a \in Visible, StartRestore(a) PROVE RestoreInv'
  <2>1. a \in made
    BY <1>3 DEF Visible
  <2>2. published = {} /\ own = {} /\ unnoted = {} /\ target = {}
    BY <1>3 DEF StartRestore, RestoreInv
  <2>3. QED
    BY <1>1, <1>3, <2>1, <2>2 DEF StartRestore, RestoreInv, RestoreFaithful, RestoreUndone
<1>4. ASSUME NEW i \in Items, PublishFile(i) PROVE RestoreInv'
  <2>1. CASE Reusable(i) /\ UNCHANGED <<disk, unnoted>>
    BY <1>1, <1>4, <2>1 DEF PublishFile, Reusable, RestoreInv, RestoreFaithful, RestoreUndone
  <2>2. CASE disk[i] = "none" /\ disk' = [disk EXCEPT ![i] = "right"] /\ unnoted' = {i}
    <3>1. disk'[i] = "right" /\ \A j \in Items \ {i} : disk'[j] = disk[j]
      BY <1>2, <2>2
    <3>2. i \notin published /\ restoring /\ unnoted = {} /\ published' = published \union {i}
      BY <1>4 DEF PublishFile
    <3>3. UNCHANGED <<target, before, restoring, source, own, ended>>
      BY <1>4 DEF PublishFile
    <3>4. own \subseteq published
      BY DEF RestoreTypeOK
    <3>5. before[i] = "none"
      BY <2>2, <3>2 DEF RestoreInv
    <3>6. published \subseteq Items
      <4>1. source \in made
        BY <3>2 DEF RestoreInv
      <4>2. QED
        BY <4>1 DEF RestoreTypeOK, JobsTypeOK, Archives
    <3>7. \A j \in published' : disk'[j] = "right"
      BY <3>1, <3>2, <3>6 DEF RestoreInv
    <3>8. \A j \in Items : j \notin own' \union unnoted' => disk'[j] = before'[j]
      BY <2>2, <3>1, <3>2, <3>3 DEF RestoreInv
    <3>9. QED
      BY <1>1, <2>2, <3>2, <3>3, <3>5, <3>7, <3>8 DEF RestoreInv, RestoreFaithful, RestoreUndone
  <2>3. QED
    BY <1>4, <2>1, <2>2 DEF PublishFile
<1>5. CASE NoteFile
  BY <1>1, <1>5 DEF NoteFile, RestoreInv, RestoreFaithful, RestoreUndone
<1>6. CASE CommitRestore
  BY <1>1, <1>6 DEF CommitRestore, EndRestore, Inserted, RestoreInv, RestoreFaithful, RestoreUndone
<1>7. CASE FailRestore
  <2>1. \A i \in Items : disk'[i] = IF i \in own THEN "none" ELSE disk[i]
    BY <1>7 DEF FailRestore, RolledBack
  <2>2. \A i \in Items : i \notin unnoted => disk'[i] = before[i]
    BY <1>7, <2>1 DEF FailRestore, RestoreInv
  <2>3. \A i \in Items : before[i] # "none" => i \notin unnoted
    BY DEF RestoreInv
  <2>4. \A i, j \in Items : disk'[i] # before[i] /\ disk'[j] # before[j] => i = j
    BY <2>2 DEF RestoreInv
  <2>5. RestoreUndone'
    BY <1>7, <2>2, <2>3, <2>4 DEF FailRestore, RestoreUndone
  <2>6. target' = {} /\ restoring' = FALSE /\ published' = {} /\ own' = {} /\ unnoted' = {}
    BY <1>7 DEF FailRestore, EndRestore, RestoreInv
  <2>7. QED
    BY <2>5, <2>6 DEF RestoreInv, RestoreFaithful
<1>8. CASE CrashRestore
  BY <1>1, <1>8 DEF CrashRestore, EndRestore, RestoreInv, RestoreFaithful, RestoreUndone
<1>9. QED
  BY <1>3, <1>4, <1>5, <1>6, <1>7, <1>8 DEF RestoreNext

\* New archives do not disturb a restore.
LEMMA BackupsBesideRestore ==
    ASSUME RestoreTypeOK, RestoreInv, [JobsNext]_jobVars, UNCHANGED restore
    PROVE  RestoreTypeOK' /\ RestoreInv'
<1>1. made \subseteq made'
  BY MadeGrows
<1>2. RestoreTypeOK'
  BY <1>1 DEF RestoreTypeOK, restore
<1>3. RestoreInv'
  BY <1>1 DEF RestoreInv, RestoreFaithful, RestoreUndone, restore
<1>4. QED
  BY <1>2, <1>3

LEMMA BackupInvariant ==
    Spec => [](JobsTypeOK /\ JobInv /\ CoverInv /\ RetentionInv /\ RestoreTypeOK /\ RestoreInv)
<1> DEFINE Inv == JobsTypeOK /\ JobInv /\ CoverInv /\ RetentionInv
<1>1. Init => Inv /\ RestoreTypeOK /\ RestoreInv
  BY JobsInitially, RestoreInitially DEF Init
<1>2. Inv /\ RestoreTypeOK /\ RestoreInv /\ [Next]_vars => Inv' /\ RestoreTypeOK' /\ RestoreInv'
  <2> SUFFICES ASSUME Inv, RestoreTypeOK, RestoreInv, [Next]_vars
               PROVE  Inv' /\ RestoreTypeOK' /\ RestoreInv'
    OBVIOUS
  <2>1. \/ [JobsNext]_jobVars /\ UNCHANGED restore
        \/ RestoreNext /\ UNCHANGED jobVars
    BY DEF Next, vars
  <2>2. Inv'
    BY <2>1, JobsTypeStep, JobStep, CoverStep, RetentionStep
  <2>3. QED
    BY <2>1, <2>2, RestoreTypeStep, RestoreStep, BackupsBesideRestore
<1>3. QED
  BY <1>1, <1>2, PTL DEF Spec

\* The same of the jobs beside the variables of a restore.
THEOREM BackupTypeCorrect == Spec => []BackupTypeOK
<1>1. JobsTypeOK /\ RestoreTypeOK => BackupTypeOK
  BY DEF BackupTypeOK
<1>2. QED
  BY <1>1, BackupInvariant, PTL

\* A restore that committed is its archive, rows and files, whatever the storage
\* held before and however many restores failed or died before it.
THEOREM RestoresAreFaithful == Spec => []RestoreFaithful
<1>1. RestoreInv => RestoreFaithful
  BY DEF RestoreInv
<1>2. QED
  BY <1>1, BackupInvariant, PTL

\* A restore that failed has removed what it had noted as its own, and nothing
\* that was there before.
THEOREM RestoresAreUndone == Spec => []RestoreUndone
<1>1. RestoreInv => RestoreUndone
  BY DEF RestoreInv
<1>2. QED
  BY <1>1, BackupInvariant, PTL

=============================================================================
