---------------------------- MODULE CollectorSync ----------------------------
(***************************************************************************)
(* The collector at run time.  Processes (the tray program, the CLI) pass  *)
(* the sync_runs gate, scan the QQ databases into the queue, upload the    *)
(* leased media one by one, then the leased messages in batches, and write *)
(* back one transaction per item (collector/sync/scheduler.py, scanner.py, *)
(* uploader.py, parsers/message.py).  Between any two transactions, and    *)
(* while a request is in flight, another process may run, the process may  *)
(* die, a lease may expire, or the operator may requeue a dead letter.     *)
(*                                                                         *)
(* The server is what the collector can tell of it: files it confirmed,    *)
(* the payload of each message it accepted last, and its reference         *)
(* contract (app/import_contract.py), which rejects a whole request.       *)
(***************************************************************************)
EXTENDS CollectorQueue, Sequences

CONSTANTS
    Procs,         \* operating-system processes that run sync cycles
    Guis,          \* those that recover interrupted runs when they start
    SourceViews,   \* the views the QQ database can present for each element
    Scans,         \* kinds of scan a run may make: "incremental", "reconcile"
    ManualScans,   \* kinds of scan the CLI "scan" command may make, ungated
    Faults,        \* "unavailable", "refused", "item_failed"
    Requeues,      \* may the operator requeue dead letters?
    MaxCrashes     \* bound on the number of process crashes

ASSUME SyncAssumption ==
    /\ Guis \subseteq Procs
    /\ SourceViews \in [Elements -> SUBSET Views]
    /\ Scans \subseteq {"incremental", "reconcile"}
    /\ ManualScans \subseteq {"incremental", "reconcile"}
    /\ Faults \subseteq {"unavailable", "refused", "item_failed"}
    /\ Requeues \in BOOLEAN
    /\ MaxCrashes \in Nat

VARIABLES
    \* the rest of the state database
    running,       \* owners of the sync_runs rows whose status is 'running'
    \* one process
    pc,            \* what it does next
    mediaLease,    \* attempts of each media row it leased; 0 when not leased
    current,       \* the media row whose upload was confirmed, if any
    snap,          \* the leased copy (QueueItem) of each message row
    batch,         \* the messages of the request it is about
    rest,          \* the halves of split batches still to be sent
    verdict,       \* how each message of the batch is to be marked
    \* the server
    stored,        \* media rows whose file the server confirmed
    acked,         \* the payload of each message it accepted last
    \* bookkeeping
    crashes

mediaLocals == <<mediaLease, current>>
messageLocals == <<snap, batch, rest, verdict>>
server == <<stored, acked>>
vars == <<tables, running, pc, mediaLocals, messageLocals, server, crashes>>

-----------------------------------------------------------------------------
(* The server's contract *)

ValidCombinations ==
    {<<"downloaded", "complete">>, <<"downloaded", "failed">>,
     <<"not_downloaded", "thumbnail_only">>, <<"not_downloaded", "metadata_only">>}

ValidPart(part) ==
    \/ part.archive = "none"
    \/ /\ <<part.source, part.archive>> \in ValidCombinations
       /\ part.archive = "complete" => part.asset
       /\ part.archive = "thumbnail_only" => part.thumbnail
       /\ part.source = "not_downloaded" => ~part.asset

ValidPayload(payload) == \A e \in Elements : ValidPart(payload[e])

-----------------------------------------------------------------------------
(* Types *)

NotLeased == [attempts |-> 0, payload |-> BlankPayload]

Snapshots == [attempts : 0..MaxAttempts, payload : Payloads]

Verdicts == {"waiting", "accepted", "deferred", "rejected"}

PCs == {"down", "idle", "incremental", "reconcile", "media", "patching",
        "confirming", "sending", "settling", "finishing"}

TypeOK ==
    /\ msgs \in [Messages -> MessageRows]
    /\ media \in [Slots -> MediaRows]
    /\ running \subseteq Procs
    /\ pc \in [Procs -> PCs]
    /\ mediaLease \in [Procs -> [Slots -> 0..MaxAttempts]]
    /\ current \in [Procs -> SUBSET Slots]
    /\ snap \in [Procs -> [Messages -> Snapshots]]
    /\ batch \in [Procs -> SUBSET Messages]
    /\ rest \in [Procs -> Seq(SUBSET Messages)]
    /\ verdict \in [Procs -> [Messages -> Verdicts]]
    /\ stored \subseteq Slots
    /\ acked \in [Messages -> SUBSET Payloads]
    /\ crashes \in 0..MaxCrashes

Init ==
    /\ QueueInit
    /\ running = {}
    /\ pc = [p \in Procs |-> "down"]
    /\ mediaLease = [p \in Procs |-> [s \in Slots |-> 0]]
    /\ current = [p \in Procs |-> {}]
    /\ snap = [p \in Procs |-> [m \in Messages |-> NotLeased]]
    /\ batch = [p \in Procs |-> {}]
    /\ rest = [p \in Procs |-> <<>>]
    /\ verdict = [p \in Procs |-> [m \in Messages |-> "waiting"]]
    /\ stored = {}
    /\ acked = [m \in Messages |-> {}]
    /\ crashes = 0

Goto(p, label) == pc' = [pc EXCEPT ![p] = label]

\* A process that leaves a cycle early forgets everything it had leased.
Forget(p) ==
    /\ mediaLease' = [mediaLease EXCEPT ![p] = [s \in Slots |-> 0]]
    /\ current' = [current EXCEPT ![p] = {}]
    /\ snap' = [snap EXCEPT ![p] = [m \in Messages |-> NotLeased]]
    /\ batch' = [batch EXCEPT ![p] = {}]
    /\ rest' = [rest EXCEPT ![p] = <<>>]
    /\ verdict' = [verdict EXCEPT ![p] = [m \in Messages |-> "waiting"]]

\* A CollectorStateError is no CollectorApiError: it ends the whole cycle.
Raise(p) ==
    /\ Goto(p, "finishing")
    /\ Forget(p)
    /\ UNCHANGED <<tables, running, server, crashes>>

-----------------------------------------------------------------------------
(* Processes and runs *)

\* Mutant: a process that finds an unfinished run gives up instead of recovering it.
StartUnrecovered(p) ==
    /\ \/ pc[p] = "down" /\ Goto(p, "idle")
       \/ pc[p] = "idle" /\ running # {} /\ Goto(p, "down")
    /\ UNCHANGED <<tables, running, mediaLocals, messageLocals, server, crashes>>

\* The tray program marks every running row failed when it starts.
Start(p) ==
    /\ pc[p] = "down"
    /\ Goto(p, "idle")
    /\ running' = IF p \in Guis THEN {} ELSE running
    /\ UNCHANGED <<tables, mediaLocals, messageLocals, server, crashes>>

Crash(p) ==
    /\ pc[p] # "down"
    /\ crashes < MaxCrashes
    /\ crashes' = crashes + 1
    /\ Goto(p, "down")
    /\ Forget(p)
    /\ UNCHANGED <<tables, running, server>>

\* Mutant: the insert does not look for a running row.
StartRunUngated(p) ==
    /\ pc[p] = "idle"
    /\ running' = running \union {p}
    /\ \E kind \in Scans : Goto(p, kind)
    /\ UNCHANGED <<tables, mediaLocals, messageLocals, server, crashes>>

\* run_once: no run starts while any row says 'running'.
StartRun(p) ==
    /\ pc[p] = "idle"
    /\ running = {}
    /\ running' = {p}
    /\ \E kind \in Scans : Goto(p, kind)
    /\ UNCHANGED <<tables, mediaLocals, messageLocals, server, crashes>>

\* finish_sync_run raises when the row was recovered meanwhile; the loop of
\* run_forever goes on either way.
FinishRun(p) ==
    /\ pc[p] = "finishing"
    /\ running' = running \ {p}
    /\ Goto(p, "idle")
    /\ UNCHANGED <<tables, mediaLocals, messageLocals, server, crashes>>

ScanPage(p) ==
    /\ pc[p] \in {"incremental", "reconcile"}
    /\ \E page \in SUBSET Messages :
          \E views \in [page -> [Elements -> Views]] :
             /\ \A m \in page, e \in Elements : views[m][e] \in SourceViews[e]
             /\ EnqueuePage(page, views, pc[p] = "reconcile")
    /\ UNCHANGED <<running, pc, mediaLocals, messageLocals, server, crashes>>

\* "scan" on the command line: the same scanner, outside the sync_runs gate.
ManualScan(kind) ==
    /\ \E page \in SUBSET Messages :
          \E views \in [page -> [Elements -> Views]] :
             /\ \A m \in page, e \in Elements : views[m][e] \in SourceViews[e]
             /\ EnqueuePage(page, views, kind = "reconcile")
    /\ UNCHANGED <<running, pc, mediaLocals, messageLocals, server, crashes>>

\* ensure_server_source fails: the run ends before anything is leased.
SourceUnavailable(p) ==
    /\ pc[p] \in {"incremental", "reconcile"}
    /\ Faults \intersect {"unavailable", "refused"} # {}
    /\ Goto(p, "finishing")
    /\ UNCHANGED <<tables, running, mediaLocals, messageLocals, server, crashes>>

-----------------------------------------------------------------------------
(* Media upload *)

\* The scan is over and the server registered the source.
LeaseMedia(p) ==
    /\ pc[p] \in {"incremental", "reconcile"}
    /\ \E picked \in SUBSET Slots :
          /\ LeaseMediaRows(picked)
          /\ mediaLease' = [mediaLease EXCEPT ![p] =
                [s \in Slots |-> IF s \in picked THEN media'[s].attempts ELSE 0]]
    /\ Goto(p, "media")
    /\ UNCHANGED <<running, current, messageLocals, server, crashes>>

\* Mutant: the confirmed hash and size are not compared with the staged file's.
UploadUnverified(p, s) ==
    /\ pc[p] = "media"
    /\ mediaLease[p][s] > 0
    /\ stored' \in {stored, stored \union {s}}
    /\ current' = [current EXCEPT ![p] = {s}]
    /\ Goto(p, "patching")
    /\ UNCHANGED <<tables, running, mediaLease, messageLocals, acked, crashes>>

\* The server confirms a file with the expected hash and size.
UploadMedia(p, s) ==
    /\ pc[p] = "media"
    /\ mediaLease[p][s] > 0
    /\ stored' = stored \union {s}
    /\ current' = [current EXCEPT ![p] = {s}]
    /\ Goto(p, "patching")
    /\ UNCHANGED <<tables, running, mediaLease, messageLocals, acked, crashes>>

\* The upload ends in a CollectorApiError, possibly after the server stored the
\* file (a lost or a mismatching answer), and the item goes through mark_retry.
MediaFaulted(p, s) ==
    /\ pc[p] = "media"
    /\ mediaLease[p][s] > 0
    /\ \E fault \in Faults \intersect {"unavailable", "refused"} :
          DeferMedia(s, mediaLease[p][s], IF fault = "unavailable" THEN MaxAttempts ELSE 1)
    /\ stored' \in {stored, stored \union {s}}
    /\ mediaLease' = [mediaLease EXCEPT ![p][s] = 0]
    /\ UNCHANGED <<running, pc, current, messageLocals, acked, crashes>>

\* mark_retry finds the row no longer inflight.
MediaLeaseLost(p, s) ==
    /\ pc[p] = "media"
    /\ mediaLease[p][s] > 0
    /\ Faults \intersect {"unavailable", "refused"} # {}
    /\ media[s].status # "inflight"
    /\ Raise(p)

PatchMedia(p) ==
    /\ pc[p] = "patching"
    /\ \E s \in current[p] : PatchMessage(s)
    /\ Goto(p, "confirming")
    /\ UNCHANGED <<running, mediaLocals, messageLocals, server, crashes>>

\* patch_message_media finds no reference at the ordinal.
PatchRaises(p) ==
    /\ pc[p] = "patching"
    /\ \E s \in current[p] : PatchRefused(s)
    /\ Raise(p)

ConfirmMedia(p) ==
    /\ pc[p] = "confirming"
    /\ \E s \in current[p] :
          /\ CompleteMedia(s)
          /\ mediaLease' = [mediaLease EXCEPT ![p][s] = 0]
    /\ current' = [current EXCEPT ![p] = {}]
    /\ Goto(p, "media")
    /\ UNCHANGED <<running, messageLocals, server, crashes>>

ConfirmRaises(p) ==
    /\ pc[p] = "confirming"
    /\ \E s \in current[p] : media[s].status # "inflight"
    /\ Raise(p)

-----------------------------------------------------------------------------
(* Message upload *)

\* Every leased media row has been dealt with; the messages that are ready are
\* leased and copied, and form one batch.
LeaseMessages(p) ==
    /\ pc[p] = "media"
    /\ \A s \in Slots : mediaLease[p][s] = 0
    /\ \E picked \in SUBSET Messages :
          /\ LeaseMessageRows(picked)
          /\ snap' = [snap EXCEPT ![p] =
                [m \in Messages |->
                    IF m \in picked
                    THEN [attempts |-> msgs'[m].attempts, payload |-> msgs'[m].payload]
                    ELSE NotLeased]]
          /\ batch' = [batch EXCEPT ![p] = picked]
          /\ Goto(p, IF picked = {} THEN "finishing" ELSE "sending")
    /\ UNCHANGED <<running, mediaLocals, rest, verdict, server, crashes>>

BatchValid(p) == \A m \in batch[p] : ValidPayload(snap[p][m].payload)

\* The server accepts these messages of the batch as they were leased.
Accept(p, accepted) ==
    acked' = [m \in Messages |-> IF m \in accepted THEN {snap[p][m].payload} ELSE acked[m]]

Judge(p, accepted, other) ==
    verdict' = [verdict EXCEPT ![p] =
        [m \in Messages |->
            IF m \in batch[p]
            THEN IF m \in accepted THEN "accepted" ELSE other
            ELSE "waiting"]]

\* Batch created, messages imported (all, or all but the failed items), batch
\* completed.
BatchAccepted(p) ==
    /\ pc[p] = "sending"
    /\ BatchValid(p)
    /\ \E accepted \in SUBSET batch[p] :
          /\ accepted = batch[p] \/ "item_failed" \in Faults
          /\ Accept(p, accepted)
          /\ Judge(p, accepted, "deferred")
    /\ Goto(p, "settling")
    /\ UNCHANGED <<tables, running, mediaLocals, snap, batch, rest, stored, crashes>>

\* One of the three requests fails.  The import may have been committed before
\* the failure, in full or but for its failed items.
BatchFaulted(p) ==
    /\ pc[p] = "sending"
    /\ \E fault \in Faults \intersect {"unavailable", "refused"} :
          Judge(p, {}, IF fault = "unavailable" THEN "deferred" ELSE "rejected")
    /\ \E landed \in SUBSET batch[p] :
          /\ landed # {} => BatchValid(p)
          /\ landed \in {{}, batch[p]} \/ "item_failed" \in Faults
          /\ Accept(p, landed)
    /\ Goto(p, "settling")
    /\ UNCHANGED <<tables, running, mediaLocals, snap, batch, rest, stored, crashes>>

\* Mutant: the second half starts one item early.
BatchSplitOverlapping(p) ==
    /\ pc[p] = "sending"
    /\ ~BatchValid(p)
    /\ Cardinality(batch[p]) > 1
    /\ \E first \in SUBSET batch[p], shared \in batch[p] :
          /\ Cardinality(first) = Cardinality(batch[p]) \div 2
          /\ shared \in first
          /\ batch' = [batch EXCEPT ![p] = first]
          /\ rest' = [rest EXCEPT ![p] = <<(batch[p] \ first) \union {shared}>> \o @]
    /\ UNCHANGED <<tables, running, pc, mediaLocals, snap, verdict, server, crashes>>

\* HTTP 422 for the whole request: a batch of several messages is halved, a
\* single message is rejected for good.
BatchSplit(p) ==
    /\ pc[p] = "sending"
    /\ ~BatchValid(p)
    /\ Cardinality(batch[p]) > 1
    /\ \E first \in SUBSET batch[p] :
          /\ Cardinality(first) = Cardinality(batch[p]) \div 2
          /\ batch' = [batch EXCEPT ![p] = first]
          /\ rest' = [rest EXCEPT ![p] = <<batch[p] \ first>> \o @]
    /\ UNCHANGED <<tables, running, pc, mediaLocals, snap, verdict, server, crashes>>

BatchRejected(p) ==
    /\ pc[p] = "sending"
    /\ ~BatchValid(p)
    /\ Cardinality(batch[p]) = 1
    /\ Judge(p, {}, "rejected")
    /\ Goto(p, "settling")
    /\ UNCHANGED <<tables, running, mediaLocals, snap, batch, rest, server, crashes>>

\* mark_completed or mark_retry of one item, each its own transaction.
SettleMessage(p, m) ==
    /\ pc[p] = "settling"
    /\ m \in batch[p]
    /\ \/ /\ verdict[p][m] = "accepted"
          /\ CompleteMessage(m)
       \/ /\ verdict[p][m] = "deferred"
          /\ DeferMessage(m, snap[p][m].attempts, MaxAttempts)
       \/ /\ verdict[p][m] = "rejected"
          /\ DeferMessage(m, snap[p][m].attempts, 1)
    /\ snap' = [snap EXCEPT ![p][m] = NotLeased]
    /\ verdict' = [verdict EXCEPT ![p][m] = "waiting"]
    /\ UNCHANGED <<running, pc, mediaLocals, batch, rest, server, crashes>>

SettleRaises(p, m) ==
    /\ pc[p] = "settling"
    /\ m \in batch[p]
    /\ verdict[p][m] # "waiting"
    /\ msgs[m].status # "inflight"
    /\ Raise(p)

NextBatch(p) ==
    /\ pc[p] = "settling"
    /\ \A m \in batch[p] : verdict[p][m] = "waiting"
    /\ IF rest[p] = <<>>
       THEN /\ Goto(p, "finishing")
            /\ batch' = [batch EXCEPT ![p] = {}]
            /\ UNCHANGED rest
       ELSE /\ Goto(p, "sending")
            /\ batch' = [batch EXCEPT ![p] = Head(rest[p])]
            /\ rest' = [rest EXCEPT ![p] = Tail(@)]
    /\ UNCHANGED <<tables, running, mediaLocals, snap, verdict, server, crashes>>

-----------------------------------------------------------------------------
(* The system *)

Others == <<running, pc, mediaLocals, messageLocals, server, crashes>>

\* Mutant: the operator requeues whatever is not delivered.
OperatorRequeuesWaiting ==
    /\ Requeues
    /\ \E s \in Slots :
          /\ media[s].status \in {"dead_letter", "retry"}
          /\ media' = [media EXCEPT ![s] = Requeued(@)]
    /\ UNCHANGED <<msgs, Others>>

\* "retry" on the command line, or the tray program's button, row by row.
OperatorRequeues ==
    /\ Requeues
    /\ \/ \E m \in Messages : RequeueMessage(m)
       \/ \E s \in Slots : RequeueMedia(s)
    /\ UNCHANGED Others

Tick == TimePasses /\ UNCHANGED Others

\* The steps of a run that has scanned and leased, up to its end.
Upload(p) ==
    \/ \E s \in Slots : UploadMedia(p, s) \/ MediaFaulted(p, s) \/ MediaLeaseLost(p, s)
    \/ PatchMedia(p) \/ PatchRaises(p)
    \/ ConfirmMedia(p) \/ ConfirmRaises(p)
    \/ LeaseMessages(p)
    \/ BatchAccepted(p) \/ BatchFaulted(p) \/ BatchSplit(p) \/ BatchRejected(p)
    \/ \E m \in Messages : SettleMessage(p, m) \/ SettleRaises(p, m)
    \/ NextBatch(p)
    \/ FinishRun(p)

Next ==
    \/ \E p \in Procs :
          \/ Start(p) \/ Crash(p) \/ StartRun(p)
          \/ ScanPage(p) \/ SourceUnavailable(p) \/ LeaseMedia(p)
          \/ Upload(p)
    \/ \E kind \in ManualScans : ManualScan(kind)
    \/ OperatorRequeues
    \/ Tick

Spec == Init /\ [][Next]_vars

\* The daemon loop keeps starting runs, a scan ends, every request is answered
\* or times out, and clocks advance.  The registration of the source is only
\* asked to succeed again and again, not always.
Fairness ==
    /\ \A p \in Procs :
          /\ WF_vars(Start(p))
          /\ WF_vars(StartRun(p))
          /\ SF_vars(LeaseMedia(p))
          /\ WF_vars(Upload(p))
    /\ \A m \in Messages :
          /\ WF_vars(MessageLeaseExpires(m) /\ UNCHANGED Others)
          /\ WF_vars(MessageBackoffElapses(m) /\ UNCHANGED Others)
    /\ \A s \in Slots :
          /\ WF_vars(MediaLeaseExpires(s) /\ UNCHANGED Others)
          /\ WF_vars(MediaBackoffElapses(s) /\ UNCHANGED Others)

FairSpec == Spec /\ Fairness

-----------------------------------------------------------------------------
(* Properties *)

InRun(p) == pc[p] \notin {"down", "idle"}

\* The sync_runs gate: at most one process is anywhere inside a run
\* (try_start_sync_run).  Holds when no process recovers another's run.
RunExclusive == \A p, q \in Procs : InRun(p) /\ InRun(q) => p = q

\* What a process leased is still leased, and still what it copied, when it
\* comes to write the outcome back: mark_completed and mark_retry never find
\* the row taken away or its payload replaced under an upload.
LeasesIntact ==
    \A p \in Procs :
        /\ \A s \in Slots : mediaLease[p][s] > 0 => media[s].status = "inflight"
        /\ \A m \in Messages :
              snap[p][m].attempts > 0 =>
                 /\ msgs[m].status = "inflight"
                 /\ msgs[m].payload = snap[p][m].payload

\* While a process sends, every message it leased and has not settled is in the
\* request at hand or in exactly one half still to be sent: splitting a rejected
\* batch neither loses a message nor sends one twice (_upload_message_items).
BatchesPartition ==
    \A p \in Procs : pc[p] = "sending" =>
        /\ {m \in Messages : snap[p][m].attempts > 0}
              = batch[p] \union UNION {rest[p][i] : i \in DOMAIN rest[p]}
        /\ \A i, j \in DOMAIN rest[p] :
              /\ rest[p][i] \intersect batch[p] = {}
              /\ i # j => rest[p][i] \intersect rest[p][j] = {}

\* A message the collector calls completed is on the server, with the very
\* payload the queue holds: no update of it is left behind, and none was
\* dropped because a request, an answer or the process was lost.
CompletedMeansAccepted ==
    \A m \in Messages : msgs[m].status = "completed" => acked[m] = {msgs[m].payload}

\* The hashes and links of a payload.
Claims(m, payload) ==
    {s \in SlotsOf(m) :
        \/ s[3] = "asset" /\ payload[s[2]].asset
        \/ s[3] = "thumbnail" /\ payload[s[2]].thumbnail
        \/ s[3] = "artifact" /\ payload[s[2]].text = "linked"}

\* Two-phase upload: no payload, queued, being sent or accepted, names a file
\* the server has not confirmed.
HashesOnServer ==
    \A m \in Messages :
        /\ Claims(m, msgs[m].payload) \subseteq stored
        /\ \A p \in Procs : Claims(m, snap[p][m].payload) \subseteq stored
        /\ \A payload \in acked[m] : Claims(m, payload) \subseteq stored

Fate(row) ==
    CASE row.status = "absent"      -> "unknown"
      [] row.status = "completed"   -> "delivered"
      [] row.status = "dead_letter" -> "given up"
      [] OTHER                      -> "waiting"

\* The tables seen as an outbox, and the server as what it accepted last.
Box == INSTANCE Outbox WITH
    fate     <- [m \in Messages |-> Fate(msgs[m])],
    content  <- [m \in Messages |-> msgs[m].payload],
    received <- acked

\* Leases, retries, split batches, crashes and requests whose answer is lost implement
\* an outbox (Outbox): a message is delivered only once the server has accepted the
\* content of its row, an update never slips between the two, and neither a late media
\* patch nor an overlapping scan touches what was delivered.
ImplementsOutbox == Box!Spec

\* While the server is merely unavailable, a media row is given up only after its
\* MaxAttempts attempts (mark_retry, max_attempts=8), and so is a message, unless
\* one of its media rows was given up before it.
DeadLetterOnlyWhenExhausted ==
    [][/\ \A m \in Messages :
             msgs'[m].status = "dead_letter" /\ msgs[m].status # "dead_letter"
                => \/ msgs[m].attempts = MaxAttempts
                   \/ \E s \in SlotsOf(m) : media[s].status = "dead_letter"
       /\ \A s \in Slots :
             media'[s].status = "dead_letter" /\ media[s].status # "dead_letter"
                => media[s].attempts = MaxAttempts]_vars

\* A message reference that says "complete" and has no hash still has a media
\* row that can bring it (pending, inflight, retry) or that was given up: the
\* patch of a completed upload is never overwritten.
PatchNotLost ==
    \A m \in Messages, e \in Elements :
        /\ msgs[m].status # "absent"
        /\ msgs[m].payload[e].archive = "complete"
        /\ ~msgs[m].payload[e].asset
        => media[<<m, e, "asset">>].status \notin {"absent", "completed"}

\* No message is parked: whatever is queued is in the end delivered or shown
\* as a dead letter.
EventuallySettled ==
    \A m \in Messages :
        (msgs[m].status # "absent") ~> (msgs[m].status \in {"completed", "dead_letter"})

\* A process that is up gets to scan: the next run resumes after a restart.
ResumesAfterRestart ==
    \A p \in Procs : (pc[p] = "idle") ~> (pc[p] \in Scans)

=============================================================================
