--------------------------- MODULE CollectorQueue ---------------------------
(***************************************************************************)
(* The collector's durable upload queue: the pending_messages and          *)
(* pending_media tables of its local SQLite file and every transaction     *)
(* collector/sync/queue.py runs on them.  Each action of this module is    *)
(* one committed transaction; who calls them, and in which order, is the   *)
(* subject of CollectorSync.  QueueSpec lets any client call any of them   *)
(* at any time, so what is proved of it holds for every caller.            *)
(*                                                                         *)
(* Time is abstracted: next_attempt_at and lease_until only matter through *)
(* the comparison with now, so a row carries "due" and "lease", and time   *)
(* passing is an action on one row.  The attempt counter saturates at      *)
(* MaxAttempts, the largest number it is ever compared with.               *)
(***************************************************************************)
EXTENDS Naturals, FiniteSets

CONSTANTS
    Messages,      \* rows of pending_messages (one per dedupe_key)
    Elements,      \* positions of a message that may hold media or a forward
    MaxAttempts,   \* max_attempts of mark_retry for a retryable error
    BatchLimit     \* LIMIT of lease_ready

ASSUME MessagesAssumption == IsFiniteSet(Messages)
ASSUME MaxAttemptsAssumption == MaxAttempts \in Nat \ {0}
ASSUME BatchLimitAssumption == BatchLimit \in Nat \ {0}

VARIABLES
    msgs,          \* pending_messages
    media          \* pending_media

tables == <<msgs, media>>

-----------------------------------------------------------------------------
(* Payloads *)

Roles == {"asset", "thumbnail", "artifact"}

\* UNIQUE(message_queue_id, ordinal, media_role): a slot is absent or one row.
Slots == Messages \X Elements \X Roles

\* What one element of a scanned message turns into.  "gone" is an element
\* the latest parse no longer yields (a recalled or undecodable message), and
\* a forward whose artifact could not be staged and was replaced by its text.
Views == {"full", "unstaged", "thumbnail", "metadata", "forward", "gone"}

\* One element of a payload: the states of its media reference, the hashes it
\* carries, and whether its text is a forward token still to be replaced.
Parts == [source    : {"none", "downloaded", "not_downloaded"},
          archive   : {"none", "complete", "thumbnail_only", "metadata_only", "failed"},
          asset     : BOOLEAN,
          thumbnail : BOOLEAN,
          text      : {"plain", "token", "linked"}]

Payloads == [Elements -> Parts]

\* Mutant: the parser writes the hash of the staged file into the reference.
NewPartHashed(source, archive, text) ==
    [source |-> source, archive |-> archive,
     asset |-> archive = "complete", thumbnail |-> FALSE, text |-> text]

\* A parsed reference never carries a hash: only patch_message_media adds one.
NewPart(source, archive, text) ==
    [source |-> source, archive |-> archive,
     asset |-> FALSE, thumbnail |-> FALSE, text |-> text]

PartOf(view) ==
    CASE view = "full"      -> NewPart("downloaded", "complete", "plain")
      [] view = "unstaged"  -> NewPart("downloaded", "failed", "plain")
      [] view = "thumbnail" -> NewPart("not_downloaded", "thumbnail_only", "plain")
      [] view = "metadata"  -> NewPart("not_downloaded", "metadata_only", "plain")
      [] view = "forward"   -> NewPart("none", "none", "token")
      [] OTHER              -> NewPart("none", "none", "plain")

\* The media row a staged element queues.
Queues(view, role) ==
    \/ view = "full" /\ role = "asset"
    \/ view = "thumbnail" /\ role = "thumbnail"
    \/ view = "forward" /\ role = "artifact"

BlankPayload == [e \in Elements |-> PartOf("gone")]

PatchedPart(part, role) ==
    CASE role = "asset" ->
            [part EXCEPT !.source = "downloaded", !.archive = "complete", !.asset = TRUE]
      [] role = "thumbnail" ->
            [part EXCEPT !.archive = "thumbnail_only", !.thumbnail = TRUE]
      [] OTHER ->
            [part EXCEPT !.text = IF @ = "token" THEN "linked" ELSE @]

PatchedPayload(payload, s) ==
    [payload EXCEPT ![s[2]] = PatchedPart(@, s[3])]

-----------------------------------------------------------------------------
(* Rows *)

Statuses == {"absent", "pending", "inflight", "retry", "dead_letter", "completed"}

MediaRows == [status   : Statuses,
              attempts : 0..MaxAttempts,
              due      : BOOLEAN,                        \* next_attempt_at <= now
              lease    : {"none", "held", "expired"}]    \* lease_until

MessageRows == [status   : Statuses,
                attempts : 0..MaxAttempts,
                due      : BOOLEAN,
                lease    : {"none", "held", "expired"},
                payload  : Payloads]

AbsentMedia ==
    [status |-> "absent", attempts |-> 0, due |-> TRUE, lease |-> "none"]

AbsentMessage ==
    [status |-> "absent", attempts |-> 0, due |-> TRUE, lease |-> "none",
     payload |-> BlankPayload]

Bump(n) == IF n < MaxAttempts THEN n + 1 ELSE n

\* ON CONFLICT(dedupe_key) DO UPDATE of enqueue_message.
UpsertedMessage(row, payload, force) ==
    CASE row.status = "absent" ->
            [AbsentMessage EXCEPT !.status = "pending", !.payload = payload]
      [] row.status # "absent" /\ force ->
            [row EXCEPT !.status = "pending", !.attempts = 0, !.due = TRUE,
                        !.payload = payload]
      [] row.status # "absent" /\ ~force ->
            [row EXCEPT !.payload = IF row.status = "completed" THEN @ ELSE payload]

\* Mutant: enqueue_media forgets force_refresh.
UpsertedMediaUnforced(row, force) ==
    IF row.status = "absent" THEN [AbsentMedia EXCEPT !.status = "pending"]
    ELSE IF row.status = "completed" THEN row
    ELSE [row EXCEPT !.status = "pending", !.due = TRUE]

\* enqueue_media: a completed row is kept unless forced; any other row becomes
\* pending and due, with its attempts and its lease left as they were.
UpsertedMedia(row, force) ==
    CASE row.status = "absent" ->
            [AbsentMedia EXCEPT !.status = "pending"]
      [] row.status = "completed" /\ ~force -> row
      [] OTHER -> [row EXCEPT !.status = "pending", !.due = TRUE]

Reclaimed(row) ==
    IF row.status = "inflight" /\ row.lease = "expired"
    THEN [row EXCEPT !.status = "retry", !.lease = "none"]
    ELSE row

\* Mutant: lease_until is not written.
LeasedForever(row) == [row EXCEPT !.status = "inflight", !.attempts = Bump(@)]

Leased(row) ==
    [row EXCEPT !.status = "inflight", !.attempts = Bump(@), !.lease = "held"]

\* Mutant: lease_until is not cleared.
CompletedHeld(row) == [row EXCEPT !.status = "completed"]

Completed(row) == [row EXCEPT !.status = "completed", !.lease = "none"]

\* Mutant: off by one on the number of attempts.
DeferredEarly(row, attempts, max) ==
    IF attempts + 1 >= max
    THEN [row EXCEPT !.status = "dead_letter", !.due = TRUE, !.lease = "none"]
    ELSE [row EXCEPT !.status = "retry", !.due = FALSE, !.lease = "none"]

\* Mutant: a status the CHECK constraint does not know.
DeferredAsFailed(row, attempts, max) ==
    [row EXCEPT !.status = IF attempts >= max THEN "failed" ELSE "retry",
                !.due = attempts >= max, !.lease = "none"]

\* mark_retry judges the attempts of the leased item, not of the row.
Deferred(row, attempts, max) ==
    IF attempts >= max
    THEN [row EXCEPT !.status = "dead_letter", !.due = TRUE, !.lease = "none"]
    ELSE [row EXCEPT !.status = "retry", !.due = FALSE, !.lease = "none"]

Requeued(row) == [row EXCEPT !.status = "pending", !.attempts = 0, !.due = TRUE]

\* Mutant: a completed row is patched like any other.
PatchedAlways(row, s) ==
    LET patched == [row EXCEPT !.payload = PatchedPayload(row.payload, s)]
    IN  IF row.status = "dead_letter" THEN [Requeued(patched) EXCEPT !.lease = "none"]
        ELSE patched

\* A delivered message drops the patch; a dead-lettered one comes back to life.
PatchedMessage(row, s) ==
    LET patched == [row EXCEPT !.payload = PatchedPayload(row.payload, s)]
    IN  CASE row.status = "completed"   -> row
          [] row.status = "dead_letter" -> [Requeued(patched) EXCEPT !.lease = "none"]
          [] OTHER                      -> patched

Leasable(row) == row.status \in {"pending", "retry"} /\ row.due

\* Any LIMIT rows of the ready ones: created_at and id order them arbitrarily.
Picks(ready) ==
    {S \in SUBSET ready :
        \/ S = ready /\ Cardinality(ready) <= BatchLimit
        \/ Cardinality(S) = BatchLimit}

SlotsOf(m) == {m} \X Elements \X Roles

\* Mutant: gating on 'completed' alone.
MediaCompleted(m) ==
    \A s \in SlotsOf(m) : media[s].status \in {"absent", "completed"}

\* The NOT EXISTS of lease_ready("message"): no media row can still progress.
MediaSettled(m) ==
    \A s \in SlotsOf(m) : media[s].status \in {"absent", "completed", "dead_letter"}

-----------------------------------------------------------------------------
(* Transactions *)

QueueInit ==
    /\ msgs = [m \in Messages |-> AbsentMessage]
    /\ media = [s \in Slots |-> AbsentMedia]

ScannedMessages(page, views, force) ==
    [m \in Messages |->
        IF m \in page
        THEN UpsertedMessage(msgs[m], [e \in Elements |-> PartOf(views[m][e])], force)
        ELSE msgs[m]]

\* Artifact rows are queued without the force_refresh flag.
ScannedMedia(page, views, force) ==
    [s \in Slots |->
        IF s[1] \in page /\ Queues(views[s[1]][s[2]], s[3])
        THEN UpsertedMedia(media[s], force /\ s[3] # "artifact")
        ELSE media[s]]

\* One scanned page in one store.transaction(): every message is upserted,
\* then every row its staged elements queue.
EnqueuePage(page, views, force) ==
    /\ msgs' = ScannedMessages(page, views, force)
    /\ media' = ScannedMedia(page, views, force)

LeaseMediaRows(picked) ==
    LET rows == [s \in Slots |-> Reclaimed(media[s])]
    IN  /\ picked \in Picks({s \in Slots : Leasable(rows[s])})
        /\ media' = [s \in Slots |-> IF s \in picked THEN Leased(rows[s]) ELSE rows[s]]
        /\ UNCHANGED msgs

LeaseMessageRows(picked) ==
    LET rows == [m \in Messages |-> Reclaimed(msgs[m])]
    IN  /\ picked \in Picks({m \in Messages : Leasable(rows[m]) /\ MediaSettled(m)})
        /\ msgs' = [m \in Messages |-> IF m \in picked THEN Leased(rows[m]) ELSE rows[m]]
        /\ UNCHANGED media

CompleteMessage(m) ==
    /\ msgs[m].status = "inflight"
    /\ msgs' = [msgs EXCEPT ![m] = Completed(@)]
    /\ UNCHANGED media

CompleteMedia(s) ==
    /\ media[s].status = "inflight"
    /\ media' = [media EXCEPT ![s] = Completed(@)]
    /\ UNCHANGED msgs

DeferMessage(m, attempts, max) ==
    /\ msgs[m].status = "inflight"
    /\ msgs' = [msgs EXCEPT ![m] = Deferred(@, attempts, max)]
    /\ UNCHANGED media

DeferMedia(s, attempts, max) ==
    /\ media[s].status = "inflight"
    /\ media' = [media EXCEPT ![s] = Deferred(@, attempts, max)]
    /\ UNCHANGED msgs

\* patch_message_media raises CollectorStateError: the payload was replaced by
\* one that has no reference at this ordinal.
PatchRefused(s) ==
    /\ msgs[s[1]].status # "completed"
    /\ s[3] \in {"asset", "thumbnail"}
    /\ msgs[s[1]].payload[s[2]].archive = "none"

PatchMessage(s) ==
    /\ msgs[s[1]].status # "absent"
    /\ ~PatchRefused(s)
    /\ msgs' = [msgs EXCEPT ![s[1]] = PatchedMessage(@, s)]
    /\ UNCHANGED media

RequeueMessage(m) ==
    /\ msgs[m].status = "dead_letter"
    /\ msgs' = [msgs EXCEPT ![m] = Requeued(@)]
    /\ UNCHANGED media

RequeueMedia(s) ==
    /\ media[s].status = "dead_letter"
    /\ media' = [media EXCEPT ![s] = Requeued(@)]
    /\ UNCHANGED msgs

\* lease_until passes.
MessageLeaseExpires(m) ==
    /\ msgs[m].lease = "held"
    /\ msgs' = [msgs EXCEPT ![m].lease = "expired"]
    /\ UNCHANGED media

MediaLeaseExpires(s) ==
    /\ media[s].lease = "held"
    /\ media' = [media EXCEPT ![s].lease = "expired"]
    /\ UNCHANGED msgs

\* next_attempt_at passes.
MessageBackoffElapses(m) ==
    /\ ~msgs[m].due
    /\ msgs' = [msgs EXCEPT ![m].due = TRUE]
    /\ UNCHANGED media

MediaBackoffElapses(s) ==
    /\ ~media[s].due
    /\ media' = [media EXCEPT ![s].due = TRUE]
    /\ UNCHANGED msgs

TimePasses ==
    \/ \E m \in Messages : MessageLeaseExpires(m) \/ MessageBackoffElapses(m)
    \/ \E s \in Slots : MediaLeaseExpires(s) \/ MediaBackoffElapses(s)

\* Every transaction of the queue, called by anyone at any time.
QueueNext ==
    \/ \E page \in SUBSET Messages, force \in BOOLEAN :
          \E views \in [page -> [Elements -> Views]] : EnqueuePage(page, views, force)
    \/ \E picked \in SUBSET Slots : LeaseMediaRows(picked)
    \/ \E picked \in SUBSET Messages : LeaseMessageRows(picked)
    \/ \E m \in Messages :
          \/ CompleteMessage(m)
          \/ RequeueMessage(m)
          \/ \E attempts \in 0..MaxAttempts, max \in 1..MaxAttempts :
                DeferMessage(m, attempts, max)
    \/ \E s \in Slots :
          \/ CompleteMedia(s)
          \/ PatchMessage(s)
          \/ RequeueMedia(s)
          \/ \E attempts \in 0..MaxAttempts, max \in 1..MaxAttempts :
                DeferMedia(s, attempts, max)
    \/ TimePasses

QueueSpec == QueueInit /\ [][QueueNext]_tables

-----------------------------------------------------------------------------
(* Properties of the tables, whoever the clients are *)

QueueTypeOK ==
    /\ msgs \in [Messages -> MessageRows]
    /\ media \in [Slots -> MediaRows]

RowRecoverable(row) ==
    /\ row.status = "inflight" => row.lease # "none" /\ row.attempts > 0
    /\ row.status \in {"retry", "dead_letter", "completed"} =>
          row.lease = "none" /\ row.attempts > 0
    /\ ~row.due => row.status = "retry"

\* A row some worker took and never gave back can always be taken again: an
\* inflight row has a lease that runs out, a settled one has no lease left that
\* could resurrect it, and only a retry row waits for its time.
RowsRecoverable ==
    /\ \A m \in Messages : RowRecoverable(msgs[m])
    /\ \A s \in Slots : RowRecoverable(media[s])

\* A media row always has the message its upload is patched into.
NoOrphanMedia ==
    \A s \in Slots : media[s].status # "absent" => msgs[s[1]].status # "absent"

=============================================================================
