-------------------------- MODULE CollectorProofs ---------------------------
(***************************************************************************)
(* Theorems about the collector's queue and about the collector at run     *)
(* time, in four parts.                                                    *)
(*                                                                         *)
(* The tables, for every client of the queue and every number of messages, *)
(* elements and attempts: the row lemmas say what each UPDATE of           *)
(* collector/sync/queue.py does to one row, the step lemma lifts them to   *)
(* the transactions.                                                       *)
(*                                                                         *)
(* The processes, for any number of them and of crashes, any source, and   *)
(* any faults of the server: every step of CollectorSync is a transaction  *)
(* of the queue or leaves its tables alone, so that what was shown of the  *)
(* tables holds here too.                                                  *)
(*                                                                         *)
(* What a run writes back is true: with one run at a time and no scan      *)
(* outside the gate, what a process leased is not taken away or changed    *)
(* under it, a split batch is a partition of what was leased, and a        *)
(* message marked completed is on the server with the payload of its row.  *)
(*                                                                         *)
(* The outbox keeps its promise, and the running collector implements it:  *)
(* with one run at a time and no scan outside the gate, every step of      *)
(* CollectorSync is a step of Outbox or leaves the outbox alone.           *)
(***************************************************************************)
EXTENDS CollectorSync, FiniteSetTheorems, TLAPS

-----------------------------------------------------------------------------
(* The tables of the queue *)

LEMMA BumpType ==
    ASSUME NEW n \in 0..MaxAttempts
    PROVE  Bump(n) \in 0..MaxAttempts /\ Bump(n) > 0
BY MaxAttemptsAssumption DEF Bump

LEMMA NoAttempts == 0 \in 0..MaxAttempts
BY MaxAttemptsAssumption

LEMMA PartOfType == \A view : PartOf(view) \in Parts
BY DEF PartOf, NewPart, Parts

LEMMA PatchedPartType ==
    ASSUME NEW part \in Parts, NEW role
    PROVE  PatchedPart(part, role) \in Parts
BY DEF PatchedPart, Parts

LEMMA SlotParts ==
    ASSUME NEW s \in Slots
    PROVE  s[1] \in Messages /\ s[2] \in Elements /\ s[3] \in Roles
BY DEF Slots

LEMMA PatchedPayloadType ==
    ASSUME NEW payload \in Payloads, NEW s \in Slots
    PROVE  PatchedPayload(payload, s) \in Payloads
BY PatchedPartType, SlotParts DEF PatchedPayload, Payloads

LEMMA ViewsPayloadType ==
    ASSUME NEW view PROVE [e \in Elements |-> PartOf(view[e])] \in Payloads
BY PartOfType DEF Payloads

LEMMA BlankPayloadType == BlankPayload \in Payloads
BY PartOfType DEF BlankPayload, Payloads

-----------------------------------------------------------------------------
(* Rows *)

GoodMedia(row) == row \in MediaRows /\ RowRecoverable(row)

GoodMessage(row) == row \in MessageRows /\ RowRecoverable(row)

LEMMA MediaUpdates ==
    ASSUME NEW row \in MediaRows, RowRecoverable(row)
    PROVE  /\ GoodMedia(Reclaimed(row))
           /\ Leasable(row) => GoodMedia(Leased(row))
           /\ row.status = "inflight" => GoodMedia(Completed(row))
           /\ row.status = "dead_letter" => GoodMedia(Requeued(row))
           /\ row.lease = "held" => GoodMedia([row EXCEPT !.lease = "expired"])
           /\ GoodMedia([row EXCEPT !.due = TRUE])
<1> USE DEF GoodMedia, MediaRows, Statuses, RowRecoverable
<1>1. GoodMedia(Reclaimed(row))
  BY DEF Reclaimed
<1>2. Leasable(row) => GoodMedia(Leased(row))
  <2>1. Bump(row.attempts) \in 0..MaxAttempts /\ Bump(row.attempts) > 0
    BY BumpType
  <2>2. QED
    BY <2>1 DEF Leasable, Leased
<1>3. row.status = "inflight" => GoodMedia(Completed(row))
  BY DEF Completed
<1>4. row.status = "dead_letter" => GoodMedia(Requeued(row))
  BY NoAttempts DEF Requeued
<1>5. row.lease = "held" => GoodMedia([row EXCEPT !.lease = "expired"])
  OBVIOUS
<1>6. GoodMedia([row EXCEPT !.due = TRUE])
  OBVIOUS
<1>7. QED
  BY <1>1, <1>2, <1>3, <1>4, <1>5, <1>6

LEMMA MediaDeferred ==
    ASSUME NEW row \in MediaRows, RowRecoverable(row), row.status = "inflight", NEW attempts, NEW max
    PROVE  GoodMedia(Deferred(row, attempts, max))
BY DEF GoodMedia, MediaRows, Statuses, RowRecoverable, Deferred

LEMMA MediaUpserted ==
    ASSUME NEW row \in MediaRows, RowRecoverable(row), NEW force \in BOOLEAN
    PROVE  GoodMedia(UpsertedMedia(row, force))
BY NoAttempts
   DEF GoodMedia, MediaRows, Statuses, RowRecoverable, UpsertedMedia, AbsentMedia

LEMMA MessageUpdates ==
    ASSUME NEW row \in MessageRows, RowRecoverable(row)
    PROVE  /\ GoodMessage(Reclaimed(row))
           /\ Leasable(row) => GoodMessage(Leased(row))
           /\ row.status = "inflight" => GoodMessage(Completed(row))
           /\ row.status = "dead_letter" => GoodMessage(Requeued(row))
           /\ row.lease = "held" => GoodMessage([row EXCEPT !.lease = "expired"])
           /\ GoodMessage([row EXCEPT !.due = TRUE])
<1> USE DEF GoodMessage, MessageRows, Statuses, RowRecoverable
<1>1. GoodMessage(Reclaimed(row))
  BY DEF Reclaimed
<1>2. Leasable(row) => GoodMessage(Leased(row))
  <2>1. Bump(row.attempts) \in 0..MaxAttempts /\ Bump(row.attempts) > 0
    BY BumpType
  <2>2. QED
    BY <2>1 DEF Leasable, Leased
<1>3. row.status = "inflight" => GoodMessage(Completed(row))
  BY DEF Completed
<1>4. row.status = "dead_letter" => GoodMessage(Requeued(row))
  BY NoAttempts DEF Requeued
<1>5. row.lease = "held" => GoodMessage([row EXCEPT !.lease = "expired"])
  OBVIOUS
<1>6. GoodMessage([row EXCEPT !.due = TRUE])
  OBVIOUS
<1>7. QED
  BY <1>1, <1>2, <1>3, <1>4, <1>5, <1>6

LEMMA MessageDeferred ==
    ASSUME NEW row \in MessageRows, RowRecoverable(row), row.status = "inflight", NEW attempts, NEW max
    PROVE  GoodMessage(Deferred(row, attempts, max))
BY DEF GoodMessage, MessageRows, Statuses, RowRecoverable, Deferred

LEMMA MessageUpserted ==
    ASSUME NEW row \in MessageRows, RowRecoverable(row), NEW payload \in Payloads, NEW force \in BOOLEAN
    PROVE  GoodMessage(UpsertedMessage(row, payload, force))
<1> USE DEF GoodMessage, MessageRows, Statuses, RowRecoverable
<1>1. CASE row.status = "absent"
  BY <1>1, NoAttempts DEF UpsertedMessage, AbsentMessage
<1>2. CASE row.status # "absent" /\ force
  BY <1>2, NoAttempts DEF UpsertedMessage
<1>3. CASE row.status # "absent" /\ ~force
  BY <1>3 DEF UpsertedMessage
<1>4. QED
  BY <1>1, <1>2, <1>3

LEMMA MessagePatched ==
    ASSUME NEW row \in MessageRows, RowRecoverable(row), NEW s \in Slots
    PROVE  GoodMessage(PatchedMessage(row, s))
<1> USE DEF GoodMessage, MessageRows, Statuses, RowRecoverable
<1> DEFINE patched == [row EXCEPT !.payload = PatchedPayload(row.payload, s)]
<1>1. GoodMessage(patched) /\ patched.status = row.status
  BY PatchedPayloadType
<1>2. row.status = "dead_letter" => GoodMessage([Requeued(patched) EXCEPT !.lease = "none"])
  BY <1>1, NoAttempts DEF Requeued
<1>3. QED
  BY <1>1, <1>2 DEF PatchedMessage

-----------------------------------------------------------------------------
(* Transactions *)

QueueInv == QueueTypeOK /\ RowsRecoverable

LEMMA InitGood == QueueInit => QueueInv
<1> SUFFICES ASSUME QueueInit PROVE QueueInv
  OBVIOUS
<1>1. AbsentMedia \in MediaRows /\ RowRecoverable(AbsentMedia)
  BY NoAttempts DEF AbsentMedia, MediaRows, Statuses, RowRecoverable
<1>2. AbsentMessage \in MessageRows /\ RowRecoverable(AbsentMessage)
  BY NoAttempts, BlankPayloadType DEF AbsentMessage, MessageRows, Statuses, RowRecoverable
<1>3. QED
  BY <1>1, <1>2 DEF QueueInit, QueueInv, QueueTypeOK, RowsRecoverable

\* To show that a transaction preserves the invariant, show that every row it
\* leaves behind is good.
LEMMA GoodRows ==
    ASSUME QueueInv,
           NEW newMsgs \in [Messages -> MessageRows],
           NEW newMedia \in [Slots -> MediaRows],
           msgs' = newMsgs, media' = newMedia,
           \A m \in Messages : RowRecoverable(newMsgs[m]),
           \A s \in Slots : RowRecoverable(newMedia[s])
    PROVE  QueueInv'
BY DEF QueueInv, QueueTypeOK, RowsRecoverable

LEMMA OneMessage ==
    ASSUME QueueInv, NEW m \in Messages, NEW row, GoodMessage(row),
           msgs' = [msgs EXCEPT ![m] = row], media' = media
    PROVE  QueueInv'
BY DEF QueueInv, QueueTypeOK, RowsRecoverable, GoodMessage

LEMMA OneMedia ==
    ASSUME QueueInv, NEW s \in Slots, NEW row, GoodMedia(row),
           media' = [media EXCEPT ![s] = row], msgs' = msgs
    PROVE  QueueInv'
BY DEF QueueInv, QueueTypeOK, RowsRecoverable, GoodMedia

LEMMA EnqueueGood ==
    ASSUME QueueInv, NEW page, NEW views, NEW force \in BOOLEAN,
           EnqueuePage(page, views, force)
    PROVE  QueueInv'
<1>1. \A m \in Messages : GoodMessage(ScannedMessages(page, views, force)[m])
  <2> TAKE m \in Messages
  <2>1. [e \in Elements |-> PartOf(views[m][e])] \in Payloads
    BY PartOfType DEF Payloads
  <2>2. msgs[m] \in MessageRows /\ RowRecoverable(msgs[m])
    BY DEF QueueInv, QueueTypeOK, RowsRecoverable
  <2>3. GoodMessage(UpsertedMessage(msgs[m], [e \in Elements |-> PartOf(views[m][e])], force))
    BY <2>1, <2>2, MessageUpserted
  <2>4. QED
    BY <2>2, <2>3 DEF ScannedMessages, GoodMessage
<1>2. \A s \in Slots : GoodMedia(ScannedMedia(page, views, force)[s])
  <2> TAKE s \in Slots
  <2>1. media[s] \in MediaRows /\ RowRecoverable(media[s])
    BY DEF QueueInv, QueueTypeOK, RowsRecoverable
  <2>2. GoodMedia(UpsertedMedia(media[s], force /\ s[3] # "artifact"))
    BY <2>1, MediaUpserted
  <2>3. QED
    BY <2>1, <2>2 DEF ScannedMedia, GoodMedia
<1>3. /\ ScannedMessages(page, views, force) \in [Messages -> MessageRows]
      /\ ScannedMedia(page, views, force) \in [Slots -> MediaRows]
  BY <1>1, <1>2 DEF GoodMessage, GoodMedia, ScannedMessages, ScannedMedia
<1>4. QED
  BY <1>1, <1>2, <1>3, GoodRows DEF EnqueuePage, GoodMessage, GoodMedia

LEMMA LeaseMediaGood ==
    ASSUME QueueInv, NEW picked, LeaseMediaRows(picked)
    PROVE  QueueInv'
<1> DEFINE rows == [s \in Slots |-> Reclaimed(media[s])]
           leased == [s \in Slots |-> IF s \in picked THEN Leased(rows[s]) ELSE rows[s]]
<1>1. picked \subseteq {s \in Slots : Leasable(rows[s])} /\ media' = leased /\ msgs' = msgs
  BY DEF LeaseMediaRows, Picks
<1>2. \A s \in Slots : GoodMedia(leased[s])
  <2> TAKE s \in Slots
  <2>1. media[s] \in MediaRows /\ RowRecoverable(media[s])
    BY DEF QueueInv, QueueTypeOK, RowsRecoverable
  <2>2. rows[s] \in MediaRows /\ RowRecoverable(rows[s])
    BY <2>1, MediaUpdates DEF GoodMedia
  <2>3. Leasable(rows[s]) => GoodMedia(Leased(rows[s]))
    BY <2>2, MediaUpdates
  <2>4. QED
    BY <1>1, <2>2, <2>3 DEF GoodMedia
<1>3. leased \in [Slots -> MediaRows]
  BY <1>2 DEF GoodMedia
<1>4. QED
  BY <1>1, <1>2, <1>3 DEF QueueInv, QueueTypeOK, RowsRecoverable, GoodMedia

LEMMA LeaseMessagesGood ==
    ASSUME QueueInv, NEW picked, LeaseMessageRows(picked)
    PROVE  QueueInv'
<1> DEFINE rows == [m \in Messages |-> Reclaimed(msgs[m])]
           leased == [m \in Messages |-> IF m \in picked THEN Leased(rows[m]) ELSE rows[m]]
<1>1. picked \subseteq {m \in Messages : Leasable(rows[m])} /\ msgs' = leased /\ media' = media
  BY DEF LeaseMessageRows, Picks
<1>2. \A m \in Messages : GoodMessage(leased[m])
  <2> TAKE m \in Messages
  <2>1. msgs[m] \in MessageRows /\ RowRecoverable(msgs[m])
    BY DEF QueueInv, QueueTypeOK, RowsRecoverable
  <2>2. rows[m] \in MessageRows /\ RowRecoverable(rows[m])
    BY <2>1, MessageUpdates DEF GoodMessage
  <2>3. Leasable(rows[m]) => GoodMessage(Leased(rows[m]))
    BY <2>2, MessageUpdates
  <2>4. QED
    BY <1>1, <2>2, <2>3 DEF GoodMessage
<1>3. leased \in [Messages -> MessageRows]
  BY <1>2 DEF GoodMessage
<1>4. QED
  BY <1>1, <1>2, <1>3 DEF QueueInv, QueueTypeOK, RowsRecoverable, GoodMessage

LEMMA MessageRowGood ==
    ASSUME QueueInv, NEW m \in Messages,
           \/ CompleteMessage(m)
           \/ RequeueMessage(m)
           \/ \E attempts, max : DeferMessage(m, attempts, max)
           \/ MessageLeaseExpires(m)
           \/ MessageBackoffElapses(m)
    PROVE  QueueInv'
<1>0. msgs[m] \in MessageRows /\ RowRecoverable(msgs[m])
  BY DEF QueueInv, QueueTypeOK, RowsRecoverable
<1>1. CASE CompleteMessage(m)
  BY <1>0, <1>1, MessageUpdates, OneMessage DEF CompleteMessage
<1>2. CASE RequeueMessage(m)
  BY <1>0, <1>2, MessageUpdates, OneMessage DEF RequeueMessage
<1>3. ASSUME NEW attempts, NEW max, DeferMessage(m, attempts, max) PROVE QueueInv'
  BY <1>0, <1>3, MessageDeferred, OneMessage DEF DeferMessage
<1>4. CASE MessageLeaseExpires(m)
  <2>1. msgs' = [msgs EXCEPT ![m] = [msgs[m] EXCEPT !.lease = "expired"]] /\ media' = media
    BY <1>4 DEF MessageLeaseExpires
  <2>2. GoodMessage([msgs[m] EXCEPT !.lease = "expired"])
    BY <1>0, <1>4, MessageUpdates DEF MessageLeaseExpires
  <2>3. QED
    BY <2>1, <2>2, OneMessage
<1>5. CASE MessageBackoffElapses(m)
  <2>1. msgs' = [msgs EXCEPT ![m] = [msgs[m] EXCEPT !.due = TRUE]] /\ media' = media
    BY <1>5 DEF MessageBackoffElapses
  <2>2. GoodMessage([msgs[m] EXCEPT !.due = TRUE])
    BY <1>0, MessageUpdates
  <2>3. QED
    BY <2>1, <2>2, OneMessage
<1>6. QED
  BY <1>1, <1>2, <1>3, <1>4, <1>5

LEMMA MediaRowGood ==
    ASSUME QueueInv, NEW s \in Slots,
           \/ CompleteMedia(s)
           \/ RequeueMedia(s)
           \/ \E attempts, max : DeferMedia(s, attempts, max)
           \/ MediaLeaseExpires(s)
           \/ MediaBackoffElapses(s)
    PROVE  QueueInv'
<1>0. media[s] \in MediaRows /\ RowRecoverable(media[s])
  BY DEF QueueInv, QueueTypeOK, RowsRecoverable
<1>1. CASE CompleteMedia(s)
  BY <1>0, <1>1, MediaUpdates, OneMedia DEF CompleteMedia
<1>2. CASE RequeueMedia(s)
  BY <1>0, <1>2, MediaUpdates, OneMedia DEF RequeueMedia
<1>3. ASSUME NEW attempts, NEW max, DeferMedia(s, attempts, max) PROVE QueueInv'
  BY <1>0, <1>3, MediaDeferred, OneMedia DEF DeferMedia
<1>4. CASE MediaLeaseExpires(s)
  <2>1. media' = [media EXCEPT ![s] = [media[s] EXCEPT !.lease = "expired"]] /\ msgs' = msgs
    BY <1>4 DEF MediaLeaseExpires
  <2>2. GoodMedia([media[s] EXCEPT !.lease = "expired"])
    BY <1>0, <1>4, MediaUpdates DEF MediaLeaseExpires
  <2>3. QED
    BY <2>1, <2>2, OneMedia
<1>5. CASE MediaBackoffElapses(s)
  <2>1. media' = [media EXCEPT ![s] = [media[s] EXCEPT !.due = TRUE]] /\ msgs' = msgs
    BY <1>5 DEF MediaBackoffElapses
  <2>2. GoodMedia([media[s] EXCEPT !.due = TRUE])
    BY <1>0, MediaUpdates
  <2>3. QED
    BY <2>1, <2>2, OneMedia
<1>6. QED
  BY <1>1, <1>2, <1>3, <1>4, <1>5

LEMMA PatchGood ==
    ASSUME QueueInv, NEW s \in Slots, PatchMessage(s)
    PROVE  QueueInv'
<1>1. s[1] \in Messages
  BY SlotParts
<1>2. msgs[s[1]] \in MessageRows /\ RowRecoverable(msgs[s[1]])
  BY <1>1 DEF QueueInv, QueueTypeOK, RowsRecoverable
<1>3. GoodMessage(PatchedMessage(msgs[s[1]], s))
  BY <1>2, MessagePatched
<1>4. QED
  BY <1>1, <1>3, OneMessage DEF PatchMessage

LEMMA QueueStep == QueueInv /\ [QueueNext]_tables => QueueInv'
<1> SUFFICES ASSUME QueueInv, [QueueNext]_tables PROVE QueueInv'
  OBVIOUS
<1>1. ASSUME NEW page \in SUBSET Messages, NEW force \in BOOLEAN,
             NEW views \in [page -> [Elements -> Views]],
             EnqueuePage(page, views, force)
      PROVE  QueueInv'
  BY <1>1, EnqueueGood
<1>2. ASSUME NEW picked \in SUBSET Slots, LeaseMediaRows(picked) PROVE QueueInv'
  BY <1>2, LeaseMediaGood
<1>3. ASSUME NEW picked \in SUBSET Messages, LeaseMessageRows(picked) PROVE QueueInv'
  BY <1>3, LeaseMessagesGood
<1>4. ASSUME NEW m \in Messages,
             \/ CompleteMessage(m)
             \/ RequeueMessage(m)
             \/ \E attempts \in 0..MaxAttempts, max \in 1..MaxAttempts :
                   DeferMessage(m, attempts, max)
      PROVE  QueueInv'
  BY <1>4, MessageRowGood
<1>5. ASSUME NEW s \in Slots,
             \/ CompleteMedia(s)
             \/ PatchMessage(s)
             \/ RequeueMedia(s)
             \/ \E attempts \in 0..MaxAttempts, max \in 1..MaxAttempts :
                   DeferMedia(s, attempts, max)
      PROVE  QueueInv'
  BY <1>5, MediaRowGood, PatchGood
<1>6. CASE TimePasses
  BY <1>6, MessageRowGood, MediaRowGood DEF TimePasses
<1>7. CASE UNCHANGED tables
  BY <1>7 DEF tables, QueueInv, QueueTypeOK, RowsRecoverable
<1>8. QED
  BY <1>1, <1>2, <1>3, <1>4, <1>5, <1>6, <1>7 DEF QueueNext

\* The tables keep their types: every status, counter and payload stays within
\* what the DDL of collector/sync/state.py and the parser allow.
THEOREM QueueTypeCorrect == QueueSpec => []QueueTypeOK
<1>1. QueueInv => QueueTypeOK
  BY DEF QueueInv
<1>2. QED
  BY <1>1, InitGood, QueueStep, PTL DEF QueueSpec

\* No row is lost to a worker that died, whoever calls the queue and whenever:
\* an inflight row always has a lease that lease_ready can find expired.
THEOREM QueueRowsRecoverable == QueueSpec => []RowsRecoverable
<1>1. QueueInv => RowsRecoverable
  BY DEF QueueInv
<1>2. QED
  BY <1>1, InitGood, QueueStep, PTL DEF QueueSpec

-----------------------------------------------------------------------------
(* Rows are never deleted, and media rows only appear with their message *)

Present(row) == row.status # "absent"

LEMMA UpdatesKeepPresent ==
    ASSUME NEW row \in MessageRows \union MediaRows, Present(row),
           NEW payload, NEW force \in BOOLEAN, NEW s, NEW attempts, NEW max
    PROVE  /\ row \in MessageRows => Present(UpsertedMessage(row, payload, force))
           /\ row \in MessageRows => Present(PatchedMessage(row, s))
           /\ Present(Reclaimed(row)) /\ Present(Leased(Reclaimed(row)))
           /\ Present(Completed(row)) /\ Present(Deferred(row, attempts, max))
           /\ Present(Requeued(row))
           /\ Present([row EXCEPT !.lease = "expired"])
           /\ Present([row EXCEPT !.due = TRUE])
<1> USE DEF Present
<1>1. row \in MessageRows => Present(UpsertedMessage(row, payload, force))
  BY DEF UpsertedMessage, MessageRows
<1>2. row \in MessageRows => Present(PatchedMessage(row, s))
  BY DEF PatchedMessage, Requeued, MessageRows
<1>3. Present(Reclaimed(row)) /\ Present(Leased(Reclaimed(row)))
  BY DEF Reclaimed, Leased, MessageRows, MediaRows
<1>4. Present(Completed(row)) /\ Present(Deferred(row, attempts, max))
  BY DEF Completed, Deferred, MessageRows, MediaRows
<1>5. Present(Requeued(row))
  BY DEF Requeued, MessageRows, MediaRows
<1>6. Present([row EXCEPT !.lease = "expired"]) /\ Present([row EXCEPT !.due = TRUE])
  BY DEF MessageRows, MediaRows
<1>7. QED
  BY <1>1, <1>2, <1>3, <1>4, <1>5, <1>6

\* A transaction other than EnqueuePage creates no row and deletes none.
SameRows ==
    /\ \A m \in Messages : Present(msgs[m]) => Present(msgs'[m])
    /\ \A s \in Slots : Present(media'[s]) => Present(media[s])

LEMMA SameRowsKeepOrphanless == NoOrphanMedia /\ SameRows => NoOrphanMedia'
BY SlotParts DEF NoOrphanMedia, SameRows, Present

LEMMA EnqueueOrphanless ==
    ASSUME QueueTypeOK, NoOrphanMedia, NEW page, NEW views, NEW force \in BOOLEAN,
           EnqueuePage(page, views, force)
    PROVE  NoOrphanMedia'
<1> SUFFICES ASSUME NEW s \in Slots, Present(media'[s]) PROVE Present(msgs'[s[1]])
  BY DEF NoOrphanMedia, Present
<1>0. s[1] \in Messages /\ msgs[s[1]] \in MessageRows
  BY SlotParts DEF QueueTypeOK
<1>1. CASE s[1] \in page
  <2> DEFINE payload == [e \in Elements |-> PartOf(views[s[1]][e])]
  <2>1. msgs'[s[1]] = UpsertedMessage(msgs[s[1]], payload, force)
    BY <1>0, <1>1 DEF EnqueuePage, ScannedMessages
  <2>2. Present(UpsertedMessage(msgs[s[1]], payload, force))
    BY <1>0 DEF UpsertedMessage, AbsentMessage, Present, MessageRows
  <2>3. QED
    BY <2>1, <2>2
<1>2. CASE s[1] \notin page
  <2>1. Present(media[s])
    BY <1>2 DEF EnqueuePage, ScannedMedia
  <2>2. msgs'[s[1]] = msgs[s[1]]
    BY <1>0, <1>2 DEF EnqueuePage, ScannedMessages
  <2>3. QED
    BY <2>1, <2>2 DEF NoOrphanMedia, Present
<1>3. QED
  BY <1>1, <1>2

LEMMA LeaseMediaSameRows ==
    ASSUME QueueTypeOK, NEW picked, LeaseMediaRows(picked)
    PROVE  SameRows
<1>1. /\ msgs' = msgs
      /\ picked \subseteq {s \in Slots : Leasable(Reclaimed(media[s]))}
      /\ \A s \in Slots : media'[s] = IF s \in picked THEN Leased(Reclaimed(media[s]))
                                      ELSE Reclaimed(media[s])
  BY DEF LeaseMediaRows, Picks
<1>2. ASSUME NEW s \in Slots, ~Present(media[s]) PROVE ~Present(media'[s])
  BY <1>1, <1>2 DEF Present, Reclaimed, Leasable, QueueTypeOK, MediaRows
<1>3. QED
  BY <1>1, <1>2 DEF SameRows

LEMMA LeaseMessagesSameRows ==
    ASSUME QueueTypeOK, NEW picked, LeaseMessageRows(picked)
    PROVE  SameRows
<1>1. /\ media' = media
      /\ \A m \in Messages : msgs'[m] = IF m \in picked THEN Leased(Reclaimed(msgs[m]))
                                        ELSE Reclaimed(msgs[m])
  BY DEF LeaseMessageRows
<1>2. QED
  BY <1>1, UpdatesKeepPresent DEF SameRows, QueueTypeOK

LEMMA MessageRowSameRows ==
    ASSUME QueueTypeOK, NEW m \in Messages,
           \/ CompleteMessage(m)
           \/ RequeueMessage(m)
           \/ \E attempts, max : DeferMessage(m, attempts, max)
           \/ MessageLeaseExpires(m)
           \/ MessageBackoffElapses(m)
    PROVE  SameRows
<1>1. msgs[m] \in MessageRows
  BY DEF QueueTypeOK
<1>2. SUFFICES ASSUME NEW row, media' = media, msgs' = [msgs EXCEPT ![m] = row],
                      Present(msgs[m]) => Present(row)
               PROVE  SameRows
  BY <1>1, UpdatesKeepPresent
     DEF CompleteMessage, RequeueMessage, DeferMessage, MessageLeaseExpires, MessageBackoffElapses
<1>3. QED
  BY <1>2 DEF SameRows, QueueTypeOK

LEMMA MediaRowSameRows ==
    ASSUME QueueTypeOK, NEW s \in Slots,
           \/ CompleteMedia(s)
           \/ RequeueMedia(s)
           \/ \E attempts, max : DeferMedia(s, attempts, max)
           \/ MediaLeaseExpires(s)
           \/ MediaBackoffElapses(s)
    PROVE  SameRows
<1>1. msgs' = msgs /\ \E row : media' = [media EXCEPT ![s] = row]
  BY DEF CompleteMedia, RequeueMedia, DeferMedia, MediaLeaseExpires, MediaBackoffElapses
<1>2. ~Present(media[s]) => ~Present(media'[s])
  BY DEF CompleteMedia, RequeueMedia, DeferMedia, MediaLeaseExpires, MediaBackoffElapses,
         Present, QueueTypeOK, MediaRows
<1>3. QED
  BY <1>1, <1>2 DEF SameRows, QueueTypeOK

LEMMA PatchSameRows ==
    ASSUME QueueTypeOK, NEW s \in Slots, PatchMessage(s)
    PROVE  SameRows
<1>1. s[1] \in Messages /\ msgs[s[1]] \in MessageRows
  BY SlotParts DEF QueueTypeOK
<1>2. Present(msgs[s[1]]) => Present(PatchedMessage(msgs[s[1]], s))
  BY <1>1, UpdatesKeepPresent
<1>3. QED
  BY <1>1, <1>2 DEF PatchMessage, SameRows, QueueTypeOK

LEMMA OrphanlessStep == QueueTypeOK /\ NoOrphanMedia /\ [QueueNext]_tables => NoOrphanMedia'
<1> SUFFICES ASSUME QueueTypeOK, NoOrphanMedia, [QueueNext]_tables PROVE NoOrphanMedia'
  OBVIOUS
<1>1. ASSUME NEW page \in SUBSET Messages, NEW force \in BOOLEAN,
             NEW views \in [page -> [Elements -> Views]],
             EnqueuePage(page, views, force)
      PROVE  NoOrphanMedia'
  BY <1>1, EnqueueOrphanless
<1>2. CASE \/ \E picked \in SUBSET Slots : LeaseMediaRows(picked)
           \/ \E picked \in SUBSET Messages : LeaseMessageRows(picked)
  BY <1>2, LeaseMediaSameRows, LeaseMessagesSameRows, SameRowsKeepOrphanless
<1>3. ASSUME NEW m \in Messages,
             \/ CompleteMessage(m)
             \/ RequeueMessage(m)
             \/ \E attempts \in 0..MaxAttempts, max \in 1..MaxAttempts :
                   DeferMessage(m, attempts, max)
      PROVE  NoOrphanMedia'
  BY <1>3, MessageRowSameRows, SameRowsKeepOrphanless
<1>4. ASSUME NEW s \in Slots,
             \/ CompleteMedia(s)
             \/ PatchMessage(s)
             \/ RequeueMedia(s)
             \/ \E attempts \in 0..MaxAttempts, max \in 1..MaxAttempts :
                   DeferMedia(s, attempts, max)
      PROVE  NoOrphanMedia'
  BY <1>4, MediaRowSameRows, PatchSameRows, SameRowsKeepOrphanless
<1>5. CASE TimePasses
  BY <1>5, MessageRowSameRows, MediaRowSameRows, SameRowsKeepOrphanless DEF TimePasses
<1>6. CASE UNCHANGED tables
  BY <1>6 DEF tables, NoOrphanMedia
<1>7. QED
  BY <1>1, <1>2, <1>3, <1>4, <1>5, <1>6 DEF QueueNext

\* A media row never exists without its message, which the foreign key asks for
\* and patch_message_media relies on: every row is queued in the transaction
\* that queues its message, and no row is ever deleted.
THEOREM QueueHasNoOrphans == QueueSpec => []NoOrphanMedia
<1>1. QueueInit => NoOrphanMedia
  BY DEF QueueInit, NoOrphanMedia, AbsentMedia
<1>2. QED
  BY <1>1, QueueTypeCorrect, OrphanlessStep, PTL DEF QueueSpec

-----------------------------------------------------------------------------
(* The processes *)

LocalTypeOK ==
    /\ running \subseteq Procs
    /\ pc \in [Procs -> PCs]
    /\ mediaLease \in [Procs -> [Slots -> 0..MaxAttempts]]
    /\ current \in [Procs -> SUBSET Slots]
    /\ snap \in [Procs -> [Messages -> Snapshots]]
    /\ batch \in [Procs -> SUBSET Messages]
    /\ rest \in [Procs -> Seq(SUBSET Messages)]
    /\ verdict \in [Procs -> [Messages -> Verdicts]]
    /\ stored \subseteq Slots
    /\ acked \in [Messages -> SUBSET Payloads]
    /\ crashes \in 0..MaxCrashes

LEMMA TypeParts == TypeOK <=> QueueTypeOK /\ LocalTypeOK
BY DEF TypeOK, QueueTypeOK, LocalTypeOK

-----------------------------------------------------------------------------
(* Every step is a step of the queue *)

LEMMA ScanIsQueueStep ==
    ASSUME NEW page \in SUBSET Messages, NEW views \in [page -> [Elements -> Views]],
           NEW force \in BOOLEAN, EnqueuePage(page, views, force)
    PROVE  QueueNext
BY DEF QueueNext

LEMMA LeaseMediaIsQueueStep ==
    ASSUME NEW picked \in SUBSET Slots, LeaseMediaRows(picked)
    PROVE  QueueNext
BY DEF QueueNext

LEMMA LeaseMessagesIsQueueStep ==
    ASSUME NEW picked \in SUBSET Messages, LeaseMessageRows(picked)
    PROVE  QueueNext
BY DEF QueueNext

LEMMA MessageRowIsQueueStep ==
    ASSUME NEW m \in Messages,
           \/ CompleteMessage(m)
           \/ RequeueMessage(m)
           \/ \E attempts \in 0..MaxAttempts, max \in 1..MaxAttempts :
                 DeferMessage(m, attempts, max)
    PROVE  QueueNext
BY DEF QueueNext

LEMMA MediaRowIsQueueStep ==
    ASSUME NEW s \in Slots,
           \/ CompleteMedia(s)
           \/ PatchMessage(s)
           \/ RequeueMedia(s)
           \/ \E attempts \in 0..MaxAttempts, max \in 1..MaxAttempts :
                 DeferMedia(s, attempts, max)
    PROVE  QueueNext
BY DEF QueueNext

LEMMA Budgets == MaxAttempts \in 1..MaxAttempts /\ 1 \in 1..MaxAttempts
BY MaxAttemptsAssumption

\* The actions that leave the tables alone, whatever else they do.
LEMMA StutteringActions ==
    ASSUME NEW p \in Procs,
           \/ Start(p) \/ Crash(p) \/ StartRun(p) \/ SourceUnavailable(p) \/ FinishRun(p)
           \/ \E s \in Slots : UploadMedia(p, s) \/ MediaLeaseLost(p, s)
           \/ PatchRaises(p) \/ ConfirmRaises(p)
           \/ BatchAccepted(p) \/ BatchFaulted(p) \/ BatchSplit(p) \/ BatchRejected(p)
           \/ \E m \in Messages : SettleRaises(p, m)
           \/ NextBatch(p)
    PROVE  UNCHANGED tables
BY DEF Start, Crash, StartRun, SourceUnavailable, FinishRun, UploadMedia, MediaLeaseLost,
       PatchRaises, ConfirmRaises, BatchAccepted, BatchFaulted, BatchSplit, BatchRejected,
       SettleRaises, NextBatch, Raise, tables

LEMMA StepIsQueueStep == TypeOK /\ [Next]_vars => [QueueNext]_tables
<1> SUFFICES ASSUME TypeOK, [Next]_vars PROVE [QueueNext]_tables
  OBVIOUS
<1>1. ASSUME NEW p \in Procs, ScanPage(p) PROVE QueueNext
  BY <1>1, ScanIsQueueStep DEF ScanPage
<1>2. ASSUME NEW p \in Procs, LeaseMedia(p) PROVE QueueNext
  BY <1>2, LeaseMediaIsQueueStep DEF LeaseMedia
<1>3. ASSUME NEW p \in Procs, NEW s \in Slots, MediaFaulted(p, s) PROVE QueueNext
  <2>1. mediaLease[p][s] \in 0..MaxAttempts
    BY DEF TypeOK
  <2>2. PICK max \in 1..MaxAttempts : DeferMedia(s, mediaLease[p][s], max)
    BY <1>3, Budgets DEF MediaFaulted
  <2>3. QED
    BY <2>1, <2>2, MediaRowIsQueueStep
<1>4. ASSUME NEW p \in Procs, PatchMedia(p) PROVE QueueNext
  BY <1>4, MediaRowIsQueueStep DEF PatchMedia, TypeOK
<1>5. ASSUME NEW p \in Procs, ConfirmMedia(p) PROVE QueueNext
  BY <1>5, MediaRowIsQueueStep DEF ConfirmMedia, TypeOK
<1>6. ASSUME NEW p \in Procs, LeaseMessages(p) PROVE QueueNext
  BY <1>6, LeaseMessagesIsQueueStep DEF LeaseMessages
<1>7. ASSUME NEW p \in Procs, NEW m \in Messages, SettleMessage(p, m) PROVE QueueNext
  <2>1. snap[p][m].attempts \in 0..MaxAttempts
    BY DEF TypeOK, Snapshots
  <2>2. \/ CompleteMessage(m)
        \/ \E max \in 1..MaxAttempts : DeferMessage(m, snap[p][m].attempts, max)
    BY <1>7, Budgets DEF SettleMessage
  <2>3. QED
    BY <2>1, <2>2, MessageRowIsQueueStep
<1>8. ASSUME NEW kind \in ManualScans, ManualScan(kind) PROVE QueueNext
  BY <1>8, ScanIsQueueStep DEF ManualScan
<1>9. ASSUME OperatorRequeues PROVE QueueNext
  BY <1>9, MessageRowIsQueueStep, MediaRowIsQueueStep DEF OperatorRequeues
<1>10. ASSUME Tick PROVE QueueNext
  BY <1>10 DEF Tick, QueueNext
<1>11. CASE UNCHANGED vars
  BY <1>11 DEF vars, tables
<1>12. QED
  BY <1>1, <1>2, <1>3, <1>4, <1>5, <1>6, <1>7, <1>8, <1>9, <1>10, <1>11, StutteringActions
     DEF Next, Upload

-----------------------------------------------------------------------------
(* Types *)

LEMMA NotLeasedType == NotLeased \in Snapshots
BY NoAttempts, BlankPayloadType DEF NotLeased, Snapshots

LEMMA ForgetType ==
    ASSUME LocalTypeOK, NEW p \in Procs, Forget(p)
    PROVE  /\ mediaLease' \in [Procs -> [Slots -> 0..MaxAttempts]]
           /\ current' \in [Procs -> SUBSET Slots]
           /\ snap' \in [Procs -> [Messages -> Snapshots]]
           /\ batch' \in [Procs -> SUBSET Messages]
           /\ rest' \in [Procs -> Seq(SUBSET Messages)]
           /\ verdict' \in [Procs -> [Messages -> Verdicts]]
<1>1. [s \in Slots |-> 0] \in [Slots -> 0..MaxAttempts]
  BY NoAttempts
<1>2. [m \in Messages |-> NotLeased] \in [Messages -> Snapshots]
  BY NotLeasedType
<1>3. [m \in Messages |-> "waiting"] \in [Messages -> Verdicts]
  BY DEF Verdicts
<1>4. QED
  BY <1>1, <1>2, <1>3 DEF Forget, LocalTypeOK

LEMMA RaiseType ==
    ASSUME LocalTypeOK, NEW p \in Procs, Raise(p)
    PROVE  LocalTypeOK'
<1>1. pc' \in [Procs -> PCs]
  BY DEF Raise, Goto, LocalTypeOK, PCs
<1>2. UNCHANGED <<running, stored, acked, crashes>>
  BY DEF Raise, server
<1>3. QED
  BY <1>1, <1>2, ForgetType DEF Raise, LocalTypeOK

LEMMA GotoType ==
    ASSUME LocalTypeOK, NEW p \in Procs, NEW label \in PCs, Goto(p, label)
    PROVE  pc' \in [Procs -> PCs]
BY DEF Goto, LocalTypeOK

LEMMA RunTypes ==
    ASSUME LocalTypeOK, NEW p \in Procs,
           \/ Start(p) \/ Crash(p) \/ StartRun(p)
           \/ ScanPage(p) \/ SourceUnavailable(p) \/ FinishRun(p)
    PROVE  LocalTypeOK'
<1> USE DEF LocalTypeOK, mediaLocals, messageLocals, server
<1>1. CASE Start(p)
  BY <1>1 DEF Start, Goto, PCs
<1>2. CASE Crash(p)
  <2>1. UNCHANGED <<running, stored, acked>> /\ crashes' \in 0..MaxCrashes
    BY <1>2, SyncAssumption DEF Crash
  <2>2. pc' \in [Procs -> PCs]
    BY <1>2 DEF Crash, Goto, PCs
  <2>3. QED
    BY <1>2, <2>1, <2>2, ForgetType DEF Crash
<1>3. CASE StartRun(p)
  <2>1. Scans \subseteq PCs
    BY SyncAssumption DEF PCs
  <2>2. QED
    BY <1>3, <2>1 DEF StartRun, Goto
<1>4. CASE ScanPage(p)
  BY <1>4 DEF ScanPage
<1>5. CASE SourceUnavailable(p)
  BY <1>5 DEF SourceUnavailable, Goto, PCs
<1>6. CASE FinishRun(p)
  BY <1>6 DEF FinishRun, Goto, PCs
<1>7. QED
  BY <1>1, <1>2, <1>3, <1>4, <1>5, <1>6

LEMMA MediaTypes ==
    ASSUME LocalTypeOK, QueueTypeOK', NEW p \in Procs,
           \/ LeaseMedia(p)
           \/ \E s \in Slots : UploadMedia(p, s) \/ MediaFaulted(p, s) \/ MediaLeaseLost(p, s)
           \/ PatchMedia(p) \/ PatchRaises(p) \/ ConfirmMedia(p) \/ ConfirmRaises(p)
    PROVE  LocalTypeOK'
<1> USE DEF mediaLocals, messageLocals, server
<1>1. CASE LeaseMedia(p)
  <2>1. PICK picked \in SUBSET Slots :
           mediaLease' = [mediaLease EXCEPT ![p] =
               [s \in Slots |-> IF s \in picked THEN media'[s].attempts ELSE 0]]
    BY <1>1 DEF LeaseMedia
  <2>2. \A s \in Slots : media'[s].attempts \in 0..MaxAttempts
    BY DEF QueueTypeOK, MediaRows
  <2>3. mediaLease' \in [Procs -> [Slots -> 0..MaxAttempts]]
    BY <2>1, <2>2, NoAttempts DEF LocalTypeOK
  <2>4. QED
    BY <1>1, <2>3 DEF LeaseMedia, Goto, LocalTypeOK, PCs
<1>2. ASSUME NEW s \in Slots, UploadMedia(p, s) PROVE LocalTypeOK'
  BY <1>2 DEF UploadMedia, Goto, LocalTypeOK, PCs
<1>3. ASSUME NEW s \in Slots, MediaFaulted(p, s) PROVE LocalTypeOK'
  <2>1. mediaLease' \in [Procs -> [Slots -> 0..MaxAttempts]]
    BY <1>3, NoAttempts DEF MediaFaulted, LocalTypeOK
  <2>2. QED
    BY <1>3, <2>1 DEF MediaFaulted, LocalTypeOK
<1>4. ASSUME NEW s \in Slots, MediaLeaseLost(p, s) PROVE LocalTypeOK'
  BY <1>4, RaiseType DEF MediaLeaseLost
<1>5. CASE PatchMedia(p)
  BY <1>5 DEF PatchMedia, Goto, LocalTypeOK, PCs
<1>6. CASE PatchRaises(p) \/ ConfirmRaises(p)
  BY <1>6, RaiseType DEF PatchRaises, ConfirmRaises
<1>7. CASE ConfirmMedia(p)
  <2>1. mediaLease' \in [Procs -> [Slots -> 0..MaxAttempts]]
    BY <1>7, NoAttempts DEF ConfirmMedia, LocalTypeOK
  <2>2. QED
    BY <1>7, <2>1 DEF ConfirmMedia, Goto, LocalTypeOK, PCs
<1>8. QED
  BY <1>1, <1>2, <1>3, <1>4, <1>5, <1>6, <1>7

LEMMA JudgeType ==
    ASSUME LocalTypeOK, NEW p \in Procs, NEW accepted,
           NEW other \in Verdicts, Judge(p, accepted, other)
    PROVE  verdict' \in [Procs -> [Messages -> Verdicts]]
BY DEF Judge, LocalTypeOK, Verdicts

LEMMA AcceptType ==
    ASSUME LocalTypeOK, NEW p \in Procs, NEW accepted, Accept(p, accepted)
    PROVE  acked' \in [Messages -> SUBSET Payloads]
<1>1. \A m \in Messages : snap[p][m].payload \in Payloads
  BY DEF LocalTypeOK, Snapshots
<1>2. QED
  BY <1>1 DEF Accept, LocalTypeOK

LEMMA MessageTypes ==
    ASSUME LocalTypeOK, QueueTypeOK', NEW p \in Procs,
           \/ LeaseMessages(p)
           \/ BatchAccepted(p) \/ BatchFaulted(p) \/ BatchSplit(p) \/ BatchRejected(p)
           \/ \E m \in Messages : SettleMessage(p, m) \/ SettleRaises(p, m)
           \/ NextBatch(p)
    PROVE  LocalTypeOK'
<1> USE DEF mediaLocals, messageLocals, server
<1>1. CASE LeaseMessages(p)
  <2>1. PICK picked \in SUBSET Messages :
           /\ snap' = [snap EXCEPT ![p] =
                 [m \in Messages |->
                     IF m \in picked
                     THEN [attempts |-> msgs'[m].attempts, payload |-> msgs'[m].payload]
                     ELSE NotLeased]]
           /\ batch' = [batch EXCEPT ![p] = picked]
           /\ Goto(p, IF picked = {} THEN "finishing" ELSE "sending")
    BY <1>1 DEF LeaseMessages
  <2>2. \A m \in Messages : [attempts |-> msgs'[m].attempts, payload |-> msgs'[m].payload]
                               \in Snapshots
    BY DEF QueueTypeOK, MessageRows, Snapshots
  <2>3. snap' \in [Procs -> [Messages -> Snapshots]]
    BY <2>1, <2>2, NotLeasedType DEF LocalTypeOK
  <2>4. pc' \in [Procs -> PCs] /\ batch' \in [Procs -> SUBSET Messages]
    BY <2>1 DEF Goto, LocalTypeOK, PCs
  <2>5. QED
    BY <1>1, <2>3, <2>4 DEF LeaseMessages, LocalTypeOK
<1>2. CASE BatchAccepted(p)
  <2>1. pc' \in [Procs -> PCs]
    BY <1>2 DEF BatchAccepted, Goto, LocalTypeOK, PCs
  <2>2. /\ verdict' \in [Procs -> [Messages -> Verdicts]]
        /\ acked' \in [Messages -> SUBSET Payloads]
    BY <1>2, JudgeType, AcceptType DEF BatchAccepted, Verdicts
  <2>3. QED
    BY <1>2, <2>1, <2>2 DEF BatchAccepted, LocalTypeOK
<1>3. CASE BatchFaulted(p)
  <2>1. pc' \in [Procs -> PCs]
    BY <1>3 DEF BatchFaulted, Goto, LocalTypeOK, PCs
  <2>2. PICK other \in Verdicts : Judge(p, {}, other)
    BY <1>3 DEF BatchFaulted, Verdicts
  <2>3. /\ verdict' \in [Procs -> [Messages -> Verdicts]]
        /\ acked' \in [Messages -> SUBSET Payloads]
    BY <1>3, <2>2, JudgeType, AcceptType DEF BatchFaulted
  <2>4. QED
    BY <1>3, <2>1, <2>3 DEF BatchFaulted, LocalTypeOK
<1>4. CASE BatchSplit(p)
  <2>1. PICK first \in SUBSET batch[p] :
           /\ batch' = [batch EXCEPT ![p] = first]
           /\ rest' = [rest EXCEPT ![p] = <<batch[p] \ first>> \o @]
    BY <1>4 DEF BatchSplit
  <2>2. batch[p] \subseteq Messages /\ rest[p] \in Seq(SUBSET Messages)
    BY DEF LocalTypeOK
  <2>3. <<batch[p] \ first>> \o rest[p] \in Seq(SUBSET Messages)
    BY <2>2
  <2>4. rest' \in [Procs -> Seq(SUBSET Messages)] /\ batch' \in [Procs -> SUBSET Messages]
    BY <2>1, <2>2, <2>3 DEF LocalTypeOK
  <2>5. QED
    BY <1>4, <2>4 DEF BatchSplit, LocalTypeOK
<1>5. CASE BatchRejected(p)
  <2>1. pc' \in [Procs -> PCs]
    BY <1>5 DEF BatchRejected, Goto, LocalTypeOK, PCs
  <2>2. verdict' \in [Procs -> [Messages -> Verdicts]]
    BY <1>5, JudgeType DEF BatchRejected, Verdicts
  <2>3. QED
    BY <1>5, <2>1, <2>2 DEF BatchRejected, LocalTypeOK
<1>6. ASSUME NEW m \in Messages, SettleMessage(p, m) PROVE LocalTypeOK'
  <2>1. snap' \in [Procs -> [Messages -> Snapshots]]
    BY <1>6, NotLeasedType DEF SettleMessage, LocalTypeOK
  <2>2. verdict' \in [Procs -> [Messages -> Verdicts]]
    BY <1>6 DEF SettleMessage, LocalTypeOK, Verdicts
  <2>3. QED
    BY <1>6, <2>1, <2>2 DEF SettleMessage, LocalTypeOK
<1>7. ASSUME NEW m \in Messages, SettleRaises(p, m) PROVE LocalTypeOK'
  BY <1>7, RaiseType DEF SettleRaises
<1>8. CASE NextBatch(p)
  <2>1. pc' \in [Procs -> PCs]
    BY <1>8 DEF NextBatch, Goto, LocalTypeOK, PCs
  <2>2. CASE rest[p] = <<>>
    BY <1>8, <2>1, <2>2 DEF NextBatch, LocalTypeOK
  <2>3. CASE rest[p] # <<>>
    <3>1. rest[p] \in Seq(SUBSET Messages)
      BY DEF LocalTypeOK
    <3>2. Head(rest[p]) \in SUBSET Messages /\ Tail(rest[p]) \in Seq(SUBSET Messages)
      BY <2>3, <3>1
    <3>3. batch' \in [Procs -> SUBSET Messages] /\ rest' \in [Procs -> Seq(SUBSET Messages)]
      BY <1>8, <2>3, <3>2 DEF NextBatch, LocalTypeOK
    <3>4. QED
      BY <1>8, <2>1, <3>3 DEF NextBatch, LocalTypeOK
  <2>4. QED
    BY <2>2, <2>3
<1>9. QED
  BY <1>1, <1>2, <1>3, <1>4, <1>5, <1>6, <1>7, <1>8

LEMMA LocalTypeStep == LocalTypeOK /\ QueueTypeOK' /\ [Next]_vars => LocalTypeOK'
<1> SUFFICES ASSUME LocalTypeOK, QueueTypeOK', [Next]_vars PROVE LocalTypeOK'
  OBVIOUS
<1>1. ASSUME NEW p \in Procs,
             \/ Start(p) \/ Crash(p) \/ StartRun(p)
             \/ ScanPage(p) \/ SourceUnavailable(p) \/ LeaseMedia(p)
             \/ Upload(p)
      PROVE  LocalTypeOK'
  BY <1>1, RunTypes, MediaTypes, MessageTypes DEF Upload
<1>2. CASE \E kind \in ManualScans : ManualScan(kind)
  BY <1>2 DEF ManualScan, LocalTypeOK, mediaLocals, messageLocals, server
<1>3. CASE OperatorRequeues \/ Tick
  BY <1>3 DEF OperatorRequeues, Tick, Others, LocalTypeOK, mediaLocals, messageLocals, server
<1>4. CASE UNCHANGED vars
  BY <1>4 DEF vars, LocalTypeOK, mediaLocals, messageLocals, server
<1>5. QED
  BY <1>1, <1>2, <1>3, <1>4 DEF Next

LEMMA TypeInit == Init => QueueInv /\ LocalTypeOK
<1> SUFFICES ASSUME Init PROVE QueueInv /\ LocalTypeOK
  OBVIOUS
<1>1. 0 \in 0..MaxCrashes
  BY SyncAssumption
<1>2. QED
  BY <1>1, InitGood, NotLeasedType, NoAttempts DEF Init, LocalTypeOK, PCs, Verdicts

LEMMA TypeStep == QueueInv /\ LocalTypeOK /\ [Next]_vars => QueueInv' /\ LocalTypeOK'
<1>1. QueueInv /\ LocalTypeOK => TypeOK
  BY TypeParts DEF QueueInv
<1>2. QueueInv /\ LocalTypeOK /\ [Next]_vars => QueueInv'
  BY <1>1, StepIsQueueStep, QueueStep
<1>3. QueueInv' => QueueTypeOK'
  BY DEF QueueInv
<1>4. QED
  BY <1>2, <1>3, LocalTypeStep

\* Every variable of the running collector keeps its type: the tables, the
\* leased copies, the halves of split batches and what the server confirmed.
THEOREM TypeCorrect == Spec => []TypeOK
<1>1. QueueInv /\ LocalTypeOK => TypeOK
  BY TypeParts DEF QueueInv
<1>2. QED
  BY <1>1, TypeInit, TypeStep, PTL DEF Spec

\* The running collector implements the queue: whatever processes do, crash or
\* overlap, the tables only change by the transactions of queue.py.
THEOREM SyncImplementsQueue == Spec => QueueSpec
<1>1. Init => QueueInit
  BY DEF Init
<1>2. QED
  BY <1>1, TypeCorrect, StepIsQueueStep, PTL DEF Spec, QueueSpec

\* With two processes and scans outside the gate too, no row is ever stuck
\* with a worker that is gone.
THEOREM SyncRowsRecoverable == Spec => []RowsRecoverable
BY SyncImplementsQueue, QueueRowsRecoverable, PTL

-----------------------------------------------------------------------------
(* The sync_runs gate *)

\* A process that recovers interrupted runs is the only process there is: the
\* tray program without a command-line daemon beside it, or no tray program.
SoleRecoverer == \A g \in Guis : Procs = {g}

\* The run somebody is inside is the one row that says 'running'.
GateInv == \A p \in Procs : InRun(p) => running = {p}

LEMMA GateStep == SoleRecoverer /\ LocalTypeOK /\ GateInv /\ [Next]_vars => GateInv'
<1> SUFFICES ASSUME SoleRecoverer, LocalTypeOK, GateInv, [Next]_vars PROVE GateInv'
  OBVIOUS
<1> USE DEF GateInv, InRun
<1>1. ASSUME NEW p \in Procs, Start(p) PROVE GateInv'
  BY <1>1 DEF Start, Goto, SoleRecoverer, LocalTypeOK
<1>2. ASSUME NEW p \in Procs, Crash(p) PROVE GateInv'
  BY <1>2 DEF Crash, Goto, LocalTypeOK
<1>3. ASSUME NEW p \in Procs, StartRun(p) PROVE GateInv'
  BY <1>3 DEF StartRun, Goto, LocalTypeOK
<1>4. ASSUME NEW p \in Procs, FinishRun(p) PROVE GateInv'
  BY <1>4 DEF FinishRun, Goto, LocalTypeOK
<1>5. ASSUME NEW p \in Procs, NEW label, InRun(p), running' = running,
             pc' = pc \/ Goto(p, label)
      PROVE  GateInv'
  BY <1>5 DEF Goto, LocalTypeOK
<1>6. ASSUME NEW p \in Procs,
             \/ ScanPage(p) \/ SourceUnavailable(p) \/ LeaseMedia(p)
             \/ \E s \in Slots : UploadMedia(p, s) \/ MediaFaulted(p, s) \/ MediaLeaseLost(p, s)
             \/ PatchMedia(p) \/ PatchRaises(p) \/ ConfirmMedia(p) \/ ConfirmRaises(p)
      PROVE  GateInv'
  <2>1. InRun(p) /\ running' = running /\ (pc' = pc \/ \E label : Goto(p, label))
    BY <1>6 DEF ScanPage, SourceUnavailable, LeaseMedia, UploadMedia, MediaFaulted,
                MediaLeaseLost, PatchMedia, PatchRaises, ConfirmMedia, ConfirmRaises, Raise
  <2>2. QED
    BY <1>5, <2>1
<1>7. ASSUME NEW p \in Procs,
             \/ LeaseMessages(p)
             \/ BatchAccepted(p) \/ BatchFaulted(p) \/ BatchSplit(p) \/ BatchRejected(p)
             \/ \E m \in Messages : SettleMessage(p, m) \/ SettleRaises(p, m)
             \/ NextBatch(p)
      PROVE  GateInv'
  <2>1. InRun(p) /\ running' = running /\ (pc' = pc \/ \E label : Goto(p, label))
    BY <1>7 DEF LeaseMessages, BatchAccepted, BatchFaulted, BatchSplit, BatchRejected,
                SettleMessage, SettleRaises, NextBatch, Raise
  <2>2. QED
    BY <1>5, <2>1
<1>8. CASE (\E kind \in ManualScans : ManualScan(kind)) \/ OperatorRequeues \/ Tick
  BY <1>8 DEF ManualScan, OperatorRequeues, Tick, Others
<1>9. CASE UNCHANGED vars
  BY <1>9 DEF vars
<1>10. QED
  BY <1>1, <1>2, <1>3, <1>4, <1>6, <1>7, <1>8, <1>9 DEF Next, Upload

\* try_start_sync_run lets no two processes into a run, however many there are
\* and however often they crash, unless one that recovers interrupted runs
\* starts beside another.
THEOREM RunsExclude == ASSUME SoleRecoverer PROVE Spec => []RunExclusive
<1>1. Init => GateInv
  BY DEF Init, GateInv, InRun
<1>2. GateInv => RunExclusive
  BY DEF GateInv, RunExclusive
<1>3. SoleRecoverer
  OBVIOUS
<1>4. QED
  BY <1>1, <1>2, <1>3, TypeInit, TypeStep, GateStep, PTL DEF Spec

-----------------------------------------------------------------------------
(* Two-phase upload *)

LEMMA ParsedClaimsNothing ==
    ASSUME NEW m \in Messages, NEW view
    PROVE  Claims(m, [e \in Elements |-> PartOf(view[e])]) = {}
<1>1. \A v : ~PartOf(v).asset /\ ~PartOf(v).thumbnail /\ PartOf(v).text # "linked"
  BY DEF PartOf, NewPart
<1>2. \A s \in SlotsOf(m) : s[2] \in Elements
  BY DEF SlotsOf
<1>3. QED
  BY <1>1, <1>2 DEF Claims

LEMMA BlankClaimsNothing ==
    ASSUME NEW m \in Messages
    PROVE  Claims(m, BlankPayload) = {}
<1>1. ~PartOf("gone").asset /\ ~PartOf("gone").thumbnail /\ PartOf("gone").text # "linked"
  BY DEF PartOf, NewPart
<1>2. \A s \in SlotsOf(m) : s[2] \in Elements
  BY DEF SlotsOf
<1>3. QED
  BY <1>1, <1>2 DEF Claims, BlankPayload

\* A patch claims the file it was called for and no other.
LEMMA PatchClaimsOne ==
    ASSUME NEW s \in Slots, NEW payload \in Payloads
    PROVE  Claims(s[1], PatchedPayload(payload, s)) \subseteq Claims(s[1], payload) \union {s}
<1> SUFFICES ASSUME NEW t \in Claims(s[1], PatchedPayload(payload, s)), t # s
             PROVE  t \in Claims(s[1], payload)
  OBVIOUS
<1>1. t \in SlotsOf(s[1]) /\ t[1] = s[1] /\ t[2] \in Elements /\ t[3] \in Roles
  BY DEF Claims, SlotsOf
<1>2. s[2] \in Elements /\ s[3] \in Roles
  BY SlotParts
<1>3. t[2] # s[2] \/ t[3] # s[3]
  BY <1>1 DEF Slots, SlotsOf
<1>4. payload[t[2]] \in Parts /\ payload[s[2]] \in Parts
  BY <1>1, <1>2 DEF Payloads
<1>5. CASE t[2] # s[2]
  <2>1. PatchedPayload(payload, s)[t[2]] = payload[t[2]]
    BY <1>1, <1>5 DEF PatchedPayload, Payloads
  <2>2. QED
    BY <1>1, <2>1 DEF Claims
<1>6. CASE t[2] = s[2] /\ t[3] # s[3]
  <2>1. PatchedPayload(payload, s)[t[2]] = PatchedPart(payload[s[2]], s[3])
    BY <1>2, <1>6 DEF PatchedPayload, Payloads
  <2>2. /\ s[3] # "asset" => PatchedPart(payload[s[2]], s[3]).asset = payload[s[2]].asset
        /\ s[3] # "thumbnail" =>
              PatchedPart(payload[s[2]], s[3]).thumbnail = payload[s[2]].thumbnail
        /\ s[3] \in {"asset", "thumbnail"} =>
              PatchedPart(payload[s[2]], s[3]).text = payload[s[2]].text
    BY <1>4 DEF PatchedPart, Parts
  <2>3. QED
    BY <1>1, <1>2, <1>6, <2>1, <2>2 DEF Claims, Roles
<1>7. QED
  BY <1>3, <1>5, <1>6

HashInv ==
    /\ HashesOnServer
    /\ \A p \in Procs : current[p] \subseteq stored

\* What a step may do to the payloads of the queue.
PayloadsBacked ==
    \A m \in Messages :
        \/ msgs'[m].payload = msgs[m].payload
        \/ Claims(m, msgs'[m].payload) = {}
        \/ \E s \in stored : Claims(m, msgs'[m].payload)
                                \subseteq Claims(m, msgs[m].payload) \union {s}

LEMMA ScanBacked ==
    ASSUME QueueTypeOK, NEW page, NEW views, NEW force \in BOOLEAN,
           EnqueuePage(page, views, force)
    PROVE  PayloadsBacked
<1> SUFFICES ASSUME NEW m \in Messages
             PROVE  \/ msgs'[m].payload = msgs[m].payload
                    \/ Claims(m, msgs'[m].payload) = {}
  BY DEF PayloadsBacked
<1> DEFINE scanned == [e \in Elements |-> PartOf(views[m][e])]
<1>1. Claims(m, scanned) = {}
  BY ParsedClaimsNothing
<1>2. msgs[m] \in MessageRows
  BY DEF QueueTypeOK
<1>3. msgs'[m] = msgs[m] \/ msgs'[m] = UpsertedMessage(msgs[m], scanned, force)
  BY DEF EnqueuePage, ScannedMessages
<1>4. \/ UpsertedMessage(msgs[m], scanned, force).payload = scanned
      \/ UpsertedMessage(msgs[m], scanned, force).payload = msgs[m].payload
  <2> HIDE DEF scanned
  <2> QED
    BY <1>2 DEF UpsertedMessage, AbsentMessage, MessageRows
<1>5. QED
  BY <1>1, <1>3, <1>4

LEMMA RowsBacked ==
    ASSUME QueueTypeOK,
           \/ UNCHANGED msgs
           \/ \E picked : LeaseMessageRows(picked)
           \/ \E m \in Messages :
                 \/ CompleteMessage(m) \/ RequeueMessage(m)
                 \/ \E attempts, max : DeferMessage(m, attempts, max)
                 \/ MessageLeaseExpires(m) \/ MessageBackoffElapses(m)
    PROVE  \A m \in Messages : msgs'[m].payload = msgs[m].payload
<1> USE DEF QueueTypeOK, MessageRows
<1>1. ASSUME NEW picked, LeaseMessageRows(picked)
      PROVE  \A m \in Messages : msgs'[m].payload = msgs[m].payload
  <2> TAKE m \in Messages
  <2>1. msgs'[m] = Leased(Reclaimed(msgs[m])) \/ msgs'[m] = Reclaimed(msgs[m])
    BY <1>1 DEF LeaseMessageRows
  <2>2. msgs[m] \in MessageRows
    OBVIOUS
  <2>3. /\ Reclaimed(msgs[m]).payload = msgs[m].payload
        /\ Leased(Reclaimed(msgs[m])).payload = msgs[m].payload
    BY <2>2 DEF Reclaimed, Leased
  <2>4. QED
    BY <2>1, <2>3
<1>2. ASSUME NEW n \in Messages,
             \/ CompleteMessage(n) \/ RequeueMessage(n)
             \/ \E attempts, max : DeferMessage(n, attempts, max)
             \/ MessageLeaseExpires(n) \/ MessageBackoffElapses(n)
      PROVE  \A m \in Messages : msgs'[m].payload = msgs[m].payload
  <2>1. msgs[n] \in MessageRows
    OBVIOUS
  <2> USE <2>1
  <2>2. CASE CompleteMessage(n)
    BY <2>2 DEF CompleteMessage, Completed
  <2>3. CASE RequeueMessage(n)
    BY <2>3 DEF RequeueMessage, Requeued
  <2>4. ASSUME NEW attempts, NEW max, DeferMessage(n, attempts, max)
        PROVE  \A m \in Messages : msgs'[m].payload = msgs[m].payload
    BY <2>4 DEF DeferMessage, Deferred
  <2>5. CASE MessageLeaseExpires(n)
    BY <2>5 DEF MessageLeaseExpires
  <2>6. CASE MessageBackoffElapses(n)
    BY <2>6 DEF MessageBackoffElapses
  <2>7. QED
    BY <1>2, <2>2, <2>3, <2>4, <2>5, <2>6
<1>3. QED
  BY <1>1, <1>2

LEMMA PatchBacked ==
    ASSUME QueueTypeOK, NEW s \in Slots, s \in stored, PatchMessage(s)
    PROVE  PayloadsBacked
<1> SUFFICES ASSUME NEW m \in Messages
             PROVE  \/ msgs'[m].payload = msgs[m].payload
                    \/ Claims(m, msgs'[m].payload) \subseteq Claims(m, msgs[m].payload) \union {s}
  BY DEF PayloadsBacked
<1>1. s[1] \in Messages /\ msgs[s[1]] \in MessageRows
  BY SlotParts DEF QueueTypeOK
<1>2. msgs' = [msgs EXCEPT ![s[1]] = PatchedMessage(msgs[s[1]], s)]
  BY DEF PatchMessage
<1>3. CASE m # s[1]
  BY <1>2, <1>3 DEF QueueTypeOK
<1>4. CASE m = s[1]
  <2>1. \/ PatchedMessage(msgs[m], s).payload = msgs[m].payload
        \/ PatchedMessage(msgs[m], s).payload = PatchedPayload(msgs[m].payload, s)
    BY <1>1, <1>4 DEF PatchedMessage, Requeued, MessageRows
  <2>2. Claims(m, PatchedPayload(msgs[m].payload, s))
           \subseteq Claims(m, msgs[m].payload) \union {s}
    BY <1>1, <1>4, PatchClaimsOne DEF MessageRows
  <2>3. msgs'[m] = PatchedMessage(msgs[m], s)
    BY <1>1, <1>2, <1>4 DEF QueueTypeOK
  <2>4. QED
    BY <2>1, <2>2, <2>3
<1>5. QED
  BY <1>3, <1>4

\* A leased copy is one the queue holds now, one it was already, or blank.
CopiesBacked ==
    \A p \in Procs, m \in Messages :
        \/ snap'[p][m].payload = snap[p][m].payload
        \/ snap'[p][m].payload = BlankPayload
        \/ snap'[p][m].payload = msgs'[m].payload

\* An accepted payload is one the server held before, or the copy of a process.
AcceptedBacked ==
    \A m \in Messages : \A payload \in acked'[m] :
        payload \in acked[m] \/ \E p \in Procs : payload = snap[p][m].payload

LEMMA BackedStep ==
    ASSUME HashInv, stored \subseteq stored', PayloadsBacked, CopiesBacked, AcceptedBacked,
           \A p \in Procs : current'[p] \subseteq stored'
    PROVE  HashInv'
<1>1. \A m \in Messages : Claims(m, msgs'[m].payload) \subseteq stored'
  BY DEF HashInv, HashesOnServer, PayloadsBacked
<1>2. \A p \in Procs, m \in Messages : Claims(m, snap'[p][m].payload) \subseteq stored'
  <2> TAKE p \in Procs, m \in Messages
  <2>1. Claims(m, snap[p][m].payload) \subseteq stored
    BY DEF HashInv, HashesOnServer
  <2>2. Claims(m, BlankPayload) = {}
    BY BlankClaimsNothing
  <2>3. QED
    BY <1>1, <2>1, <2>2 DEF CopiesBacked
<1>3. \A m \in Messages : \A payload \in acked'[m] : Claims(m, payload) \subseteq stored'
  BY DEF HashInv, HashesOnServer, AcceptedBacked
<1>4. QED
  BY <1>1, <1>2, <1>3 DEF HashInv, HashesOnServer, Claims, SlotsOf

LEMMA ForgetBacked ==
    ASSUME TypeOK, HashInv, NEW p \in Procs, Forget(p), stored' = stored
    PROVE  CopiesBacked /\ \A q \in Procs : current'[q] \subseteq stored'
<1>1. \A q \in Procs, m \in Messages :
         snap'[q][m] = IF q = p THEN NotLeased ELSE snap[q][m]
  BY DEF Forget, TypeOK
<1>2. \A q \in Procs : current'[q] = IF q = p THEN {} ELSE current[q]
  BY DEF Forget, TypeOK
<1>3. NotLeased.payload = BlankPayload
  BY DEF NotLeased
<1>4. QED
  BY <1>1, <1>2, <1>3 DEF CopiesBacked, HashInv

LEMMA RaiseKeepsHashes ==
    ASSUME TypeOK, HashInv, NEW p \in Procs, Raise(p)
    PROVE  HashInv'
<1>1. UNCHANGED <<msgs, stored, acked>>
  BY DEF Raise, tables, server
<1>2. PayloadsBacked /\ AcceptedBacked
  BY <1>1 DEF PayloadsBacked, AcceptedBacked
<1>3. QED
  BY <1>1, <1>2, ForgetBacked, BackedStep DEF Raise

\* Steps that touch no copy, no answer and no file.
LEMMA QuietKeepsHashes ==
    ASSUME HashInv, PayloadsBacked, UNCHANGED <<snap, stored, acked>>,
           \A p \in Procs : current'[p] \subseteq current[p]
    PROVE  HashInv'
<1>1. CopiesBacked /\ AcceptedBacked
  BY DEF CopiesBacked, AcceptedBacked
<1>2. QED
  BY <1>1, BackedStep DEF HashInv

LEMMA SamePayloadsBacked ==
    ASSUME \A m \in Messages : msgs'[m].payload = msgs[m].payload
    PROVE  PayloadsBacked
BY DEF PayloadsBacked

LEMMA RunKeepsHashes ==
    ASSUME TypeOK, HashInv, NEW p \in Procs,
           \/ Start(p) \/ Crash(p) \/ StartRun(p)
           \/ ScanPage(p) \/ SourceUnavailable(p) \/ FinishRun(p)
    PROVE  HashInv'
<1> USE DEF mediaLocals, messageLocals, server, tables
<1>1. CASE Start(p) \/ StartRun(p) \/ SourceUnavailable(p) \/ FinishRun(p)
  <2>1. UNCHANGED <<msgs, snap, stored, acked, current>>
    BY <1>1 DEF Start, StartRun, SourceUnavailable, FinishRun
  <2>2. QED
    BY <2>1, SamePayloadsBacked, QuietKeepsHashes
<1>2. CASE Crash(p)
  <2>1. UNCHANGED <<msgs, stored, acked>>
    BY <1>2 DEF Crash
  <2>2. PayloadsBacked /\ AcceptedBacked
    BY <2>1 DEF PayloadsBacked, AcceptedBacked
  <2>3. QED
    BY <1>2, <2>1, <2>2, ForgetBacked, BackedStep DEF Crash
<1>3. CASE ScanPage(p)
  <2>1. PayloadsBacked /\ UNCHANGED <<snap, stored, acked, current>>
    BY <1>3, ScanBacked, TypeParts DEF ScanPage
  <2>2. QED
    BY <2>1, QuietKeepsHashes
<1>4. QED
  BY <1>1, <1>2, <1>3

LEMMA MediaKeepsHashes ==
    ASSUME TypeOK, HashInv, NEW p \in Procs,
           \/ LeaseMedia(p)
           \/ \E s \in Slots : UploadMedia(p, s) \/ MediaFaulted(p, s) \/ MediaLeaseLost(p, s)
           \/ PatchMedia(p) \/ PatchRaises(p) \/ ConfirmMedia(p) \/ ConfirmRaises(p)
    PROVE  HashInv'
<1> USE DEF mediaLocals, messageLocals, server, tables
<1>1. CASE LeaseMedia(p)
  <2>1. UNCHANGED <<msgs, snap, stored, acked, current>>
    BY <1>1 DEF LeaseMedia, LeaseMediaRows
  <2>2. QED
    BY <2>1, SamePayloadsBacked, QuietKeepsHashes
<1>2. ASSUME NEW s \in Slots, UploadMedia(p, s) PROVE HashInv'
  <2>1. UNCHANGED <<msgs, snap, acked>> /\ stored' = stored \union {s}
    BY <1>2 DEF UploadMedia
  <2>2. \A q \in Procs : current'[q] \subseteq stored'
    BY <1>2, <2>1 DEF UploadMedia, TypeOK, HashInv
  <2>3. PayloadsBacked /\ CopiesBacked /\ AcceptedBacked
    BY <2>1 DEF PayloadsBacked, CopiesBacked, AcceptedBacked
  <2>4. QED
    BY <2>1, <2>2, <2>3, BackedStep
<1>3. ASSUME NEW s \in Slots, MediaFaulted(p, s) PROVE HashInv'
  <2>1. UNCHANGED <<msgs, snap, acked, current>> /\ stored \subseteq stored'
    BY <1>3 DEF MediaFaulted, DeferMedia
  <2>2. PayloadsBacked /\ CopiesBacked /\ AcceptedBacked
    BY <2>1 DEF PayloadsBacked, CopiesBacked, AcceptedBacked
  <2>3. QED
    BY <2>1, <2>2, BackedStep DEF HashInv
<1>4. CASE PatchMedia(p)
  <2>1. PICK s \in current[p] : PatchMessage(s)
    BY <1>4 DEF PatchMedia
  <2>2. s \in Slots /\ s \in stored
    BY DEF TypeOK, HashInv
  <2>3. PayloadsBacked
    BY <2>1, <2>2, PatchBacked, TypeParts
  <2>4. UNCHANGED <<snap, stored, acked, current>>
    BY <1>4 DEF PatchMedia
  <2>5. QED
    BY <2>3, <2>4, QuietKeepsHashes
<1>5. CASE ConfirmMedia(p)
  <2>1. UNCHANGED <<msgs, snap, stored, acked>> /\ current' = [current EXCEPT ![p] = {}]
    BY <1>5 DEF ConfirmMedia, CompleteMedia
  <2>2. \A q \in Procs : current'[q] \subseteq current[q]
    BY <2>1 DEF TypeOK
  <2>3. QED
    BY <2>1, <2>2, SamePayloadsBacked, QuietKeepsHashes
<1>6. CASE (\E s \in Slots : MediaLeaseLost(p, s)) \/ PatchRaises(p) \/ ConfirmRaises(p)
  BY <1>6, RaiseKeepsHashes DEF MediaLeaseLost, PatchRaises, ConfirmRaises
<1>7. QED
  BY <1>1, <1>2, <1>3, <1>4, <1>5, <1>6

LEMMA MessagesKeepHashes ==
    ASSUME TypeOK, HashInv, NEW p \in Procs,
           \/ LeaseMessages(p)
           \/ BatchAccepted(p) \/ BatchFaulted(p) \/ BatchSplit(p) \/ BatchRejected(p)
           \/ \E m \in Messages : SettleMessage(p, m) \/ SettleRaises(p, m)
           \/ NextBatch(p)
    PROVE  HashInv'
<1> USE DEF mediaLocals, messageLocals, server, tables
<1>1. CASE LeaseMessages(p)
  <2>1. PICK picked \in SUBSET Messages :
           /\ LeaseMessageRows(picked)
           /\ snap' = [snap EXCEPT ![p] =
                 [m \in Messages |->
                     IF m \in picked
                     THEN [attempts |-> msgs'[m].attempts, payload |-> msgs'[m].payload]
                     ELSE NotLeased]]
    BY <1>1 DEF LeaseMessages
  <2>2. UNCHANGED <<stored, acked, current>>
    BY <1>1 DEF LeaseMessages
  <2>3. PayloadsBacked
    BY <2>1, RowsBacked, SamePayloadsBacked, TypeParts
  <2>4. CopiesBacked
    <3>1. \A q \in Procs \ {p}, m \in Messages : snap'[q][m] = snap[q][m]
      BY <2>1 DEF TypeOK
    <3>2. \A m \in Messages :
             snap'[p][m].payload = msgs'[m].payload \/ snap'[p][m] = NotLeased
      BY <2>1 DEF TypeOK
    <3>3. QED
      BY <3>1, <3>2 DEF CopiesBacked, NotLeased
  <2>5. AcceptedBacked
    BY <2>2 DEF AcceptedBacked
  <2>6. QED
    BY <2>2, <2>3, <2>4, <2>5, BackedStep DEF HashInv
<1>2. CASE BatchAccepted(p) \/ BatchFaulted(p)
  <2>1. UNCHANGED <<msgs, snap, stored, current>>
    BY <1>2 DEF BatchAccepted, BatchFaulted
  <2>2. PICK accepted : Accept(p, accepted)
    BY <1>2 DEF BatchAccepted, BatchFaulted
  <2>3. PayloadsBacked /\ CopiesBacked /\ AcceptedBacked
    BY <2>1, <2>2 DEF PayloadsBacked, CopiesBacked, AcceptedBacked, Accept
  <2>4. QED
    BY <2>1, <2>3, BackedStep DEF HashInv
<1>3. CASE BatchSplit(p) \/ BatchRejected(p) \/ NextBatch(p)
  <2>1. UNCHANGED <<msgs, snap, stored, acked, current>>
    BY <1>3 DEF BatchSplit, BatchRejected, NextBatch
  <2>2. QED
    BY <2>1, SamePayloadsBacked, QuietKeepsHashes
<1>4. ASSUME NEW m \in Messages, SettleMessage(p, m) PROVE HashInv'
  <2>1. UNCHANGED <<stored, acked, current>>
    BY <1>4 DEF SettleMessage
  <2>2. PayloadsBacked
    BY <1>4, RowsBacked, SamePayloadsBacked, TypeParts DEF SettleMessage
  <2>3. CopiesBacked
    BY <1>4 DEF SettleMessage, CopiesBacked, NotLeased, TypeOK
  <2>4. AcceptedBacked
    BY <2>1 DEF AcceptedBacked
  <2>5. QED
    BY <2>1, <2>2, <2>3, <2>4, BackedStep DEF HashInv
<1>5. ASSUME NEW m \in Messages, SettleRaises(p, m) PROVE HashInv'
  BY <1>5, RaiseKeepsHashes DEF SettleRaises
<1>6. QED
  BY <1>1, <1>2, <1>3, <1>4, <1>5

LEMMA HashStep == TypeOK /\ HashInv /\ [Next]_vars => HashInv'
<1> SUFFICES ASSUME TypeOK, HashInv, [Next]_vars PROVE HashInv'
  OBVIOUS
<1> USE DEF mediaLocals, messageLocals, server, tables
<1>1. ASSUME NEW p \in Procs,
             \/ Start(p) \/ Crash(p) \/ StartRun(p)
             \/ ScanPage(p) \/ SourceUnavailable(p) \/ LeaseMedia(p)
             \/ Upload(p)
      PROVE  HashInv'
  BY <1>1, RunKeepsHashes, MediaKeepsHashes, MessagesKeepHashes DEF Upload
<1>2. ASSUME NEW kind \in ManualScans, ManualScan(kind) PROVE HashInv'
  <2>1. PayloadsBacked /\ UNCHANGED <<snap, stored, acked, current>>
    BY <1>2, ScanBacked, TypeParts DEF ManualScan
  <2>2. QED
    BY <2>1, QuietKeepsHashes
<1>3. CASE OperatorRequeues \/ Tick
  <2>1. UNCHANGED <<snap, stored, acked, current>>
    BY <1>3 DEF OperatorRequeues, Tick, Others
  <2>2. \/ UNCHANGED msgs
        \/ \E m \in Messages : \/ RequeueMessage(m)
                               \/ MessageLeaseExpires(m) \/ MessageBackoffElapses(m)
    BY <1>3 DEF OperatorRequeues, Tick, TimePasses, RequeueMedia, MediaLeaseExpires,
                MediaBackoffElapses
  <2>3. PayloadsBacked
    BY <2>2, RowsBacked, SamePayloadsBacked, TypeParts
  <2>4. QED
    BY <2>1, <2>3, QuietKeepsHashes
<1>4. CASE UNCHANGED vars
  <2>1. UNCHANGED <<msgs, snap, stored, acked, current>>
    BY <1>4 DEF vars
  <2>2. QED
    BY <2>1, SamePayloadsBacked, QuietKeepsHashes
<1>5. QED
  BY <1>1, <1>2, <1>3, <1>4 DEF Next

\* Two-phase upload, for every interleaving of processes, crashes, lost answers
\* and scans outside the gate: a hash or a link gets into a payload only when
\* the server has confirmed the file, so no payload that is queued, being sent
\* or accepted names a file the server has not confirmed.
THEOREM HashesAreOnServer == Spec => []HashesOnServer
<1>1. Init => HashInv
  <2> SUFFICES ASSUME Init PROVE HashInv
    OBVIOUS
  <2>1. \A m \in Messages : Claims(m, BlankPayload) = {}
    BY BlankClaimsNothing
  <2>2. \A m \in Messages : msgs[m].payload = BlankPayload
    BY DEF Init, QueueInit, AbsentMessage
  <2>3. \A p \in Procs, m \in Messages : snap[p][m].payload = BlankPayload
    BY DEF Init, NotLeased
  <2>4. QED
    BY <2>1, <2>2, <2>3 DEF Init, HashInv, HashesOnServer
<1>2. HashInv => HashesOnServer
  BY DEF HashInv
<1>3. QED
  BY <1>1, <1>2, TypeCorrect, HashStep, PTL DEF Spec

-----------------------------------------------------------------------------
(* What a run writes back *)

\* Every scan is inside a run, and no run is recovered while it is under way.
Gated == SoleRecoverer /\ ManualScans = {}

InRest(p, m) == \E i \in DOMAIN rest[p] : m \in rest[p][i]

\* Media rows are only leased between LeaseMedia and LeaseMessages.
MediaInv(p) ==
    /\ pc[p] \notin {"media", "patching", "confirming"} =>
          \A s \in Slots : mediaLease[p][s] = 0
    /\ \A s \in Slots : mediaLease[p][s] > 0 => media[s].status = "inflight"

Disjoint(p) ==
    \A i \in DOMAIN rest[p] :
        /\ rest[p][i] \intersect batch[p] = {}
        /\ \A j \in DOMAIN rest[p] : i # j => rest[p][i] \intersect rest[p][j] = {}

\* Message rows are leased while they are sent and until their verdict is
\* written back; a row leased is the row copied.
MessageInv(p) ==
    /\ pc[p] \notin {"sending", "settling"} =>
          /\ \A m \in Messages : snap[p][m].attempts = 0
          /\ rest[p] = <<>>
    /\ pc[p] # "settling" => \A m \in Messages : verdict[p][m] = "waiting"
    /\ pc[p] \in {"sending", "settling"} =>
          \A m \in Messages :
              snap[p][m].attempts > 0 <=>
                 \/ InRest(p, m)
                 \/ m \in batch[p] /\ (pc[p] = "sending" \/ verdict[p][m] # "waiting")
    /\ Disjoint(p)
    /\ \A m \in Messages : verdict[p][m] # "waiting" => m \in batch[p]
    /\ \A m \in Messages :
          snap[p][m].attempts > 0 =>
             msgs[m].status = "inflight" /\ msgs[m].payload = snap[p][m].payload
    /\ \A m \in Messages : verdict[p][m] = "accepted" => acked[m] = {snap[p][m].payload}

OutcomeInv ==
    /\ GateInv
    /\ CompletedMeansAccepted
    /\ \A p \in Procs : MediaInv(p) /\ MessageInv(p)

-----------------------------------------------------------------------------
(* Frames: what a step leaves alone *)

Idle == {"down", "idle", "incremental", "reconcile", "finishing"}

LocalInv == CompletedMeansAccepted /\ \A p \in Procs : MediaInv(p) /\ MessageInv(p)

\* Between two phases nothing is leased.
LEMMA PhaseChange ==
    ASSUME LocalTypeOK, LocalInv, NEW p \in Procs, NEW label \in Idle, pc[p] \in Idle,
           Goto(p, label), UNCHANGED <<tables, mediaLocals, messageLocals, server>>
    PROVE  LocalInv'
<1>1. UNCHANGED <<msgs, media, mediaLease, snap, batch, rest, verdict, acked>>
  BY DEF tables, mediaLocals, messageLocals, server
<1>2. \A q \in Procs : pc'[q] = IF q = p THEN label ELSE pc[q]
  BY DEF Goto, LocalTypeOK
<1>3. CompletedMeansAccepted'
  BY <1>1 DEF LocalInv, CompletedMeansAccepted
<1>4. ASSUME NEW q \in Procs PROVE MediaInv(q)'
  BY <1>1, <1>2 DEF LocalInv, MediaInv, Idle
<1>5. ASSUME NEW q \in Procs PROVE MessageInv(q)'
  <2>1. CASE q = p
    <3>1. MessageInv(p)
      BY DEF LocalInv
    <3>2. pc'[p] = label
      BY <1>2
    <3>3. QED
      BY <1>1, <3>1, <3>2, <2>1 DEF MessageInv, Disjoint, InRest, Idle
  <2>2. CASE q # p
    <3>1. MessageInv(q) /\ pc'[q] = pc[q]
      BY <1>2, <2>2 DEF LocalInv
    <3>2. QED
      BY <1>1, <3>1 DEF MessageInv, Disjoint, InRest
  <2>3. QED
    BY <2>1, <2>2
<1>6. QED
  BY <1>3, <1>4, <1>5 DEF LocalInv

\* A process that forgets disturbs nobody.
LEMMA ForgetKeeps ==
    ASSUME LocalTypeOK, LocalInv, NEW p \in Procs, NEW label \in Idle,
           Goto(p, label), Forget(p), UNCHANGED <<tables, server>>
    PROVE  LocalInv'
<1>1. UNCHANGED <<msgs, media, acked>>
  BY DEF tables, server
<1>2. \A q \in Procs :
         q # p => /\ pc'[q] = pc[q] /\ mediaLease'[q] = mediaLease[q]
                  /\ snap'[q] = snap[q] /\ batch'[q] = batch[q]
                  /\ rest'[q] = rest[q] /\ verdict'[q] = verdict[q]
  BY DEF Goto, Forget, LocalTypeOK
<1>3. /\ pc'[p] = label /\ mediaLease'[p] = [s \in Slots |-> 0]
      /\ snap'[p] = [m \in Messages |-> NotLeased] /\ batch'[p] = {}
      /\ rest'[p] = <<>> /\ verdict'[p] = [m \in Messages |-> "waiting"]
  BY DEF Goto, Forget, LocalTypeOK
<1>4. CompletedMeansAccepted'
  BY <1>1 DEF LocalInv, CompletedMeansAccepted
<1>5. ASSUME NEW q \in Procs PROVE MediaInv(q)' /\ MessageInv(q)'
  <2>1. CASE q = p
    BY <1>3, <2>1 DEF MediaInv, MessageInv, Disjoint, InRest, Idle, NotLeased
  <2>2. CASE q # p
    <3>1. MediaInv(q) /\ MessageInv(q)
      BY DEF LocalInv
    <3>2. MediaInv(q)'
      BY <1>1, <1>2, <2>2, <3>1 DEF MediaInv
    <3>3. MessageInv(q)'
      BY <1>1, <1>2, <2>2, <3>1 DEF MessageInv, Disjoint, InRest
    <3>4. QED
      BY <3>2, <3>3
  <2>3. QED
    BY <2>1, <2>2
<1>6. QED
  BY <1>4, <1>5 DEF LocalInv

\* Only the process inside the run has anything leased.
LEMMA Alone ==
    ASSUME LocalTypeOK, OutcomeInv, NEW p \in Procs, InRun(p), NEW q \in Procs, q # p
    PROVE  /\ pc[q] \in {"down", "idle"}
           /\ \A s \in Slots : mediaLease[q][s] = 0
           /\ \A m \in Messages : snap[q][m].attempts = 0
           /\ rest[q] = <<>>
           /\ \A m \in Messages : verdict[q][m] = "waiting"
<1>1. ~InRun(q)
  BY DEF OutcomeInv, GateInv
<1>2. pc[q] \in {"down", "idle"}
  BY <1>1 DEF InRun
<1>3. MediaInv(q) /\ MessageInv(q)
  BY DEF OutcomeInv
<1>4. QED
  BY <1>2, <1>3 DEF MediaInv, MessageInv

\* The other processes' locals are left alone by a step of p.
OthersKept(p) ==
    \A q \in Procs \ {p} :
        /\ pc'[q] = pc[q] /\ mediaLease'[q] = mediaLease[q]
        /\ snap'[q] = snap[q] /\ batch'[q] = batch[q]
        /\ rest'[q] = rest[q] /\ verdict'[q] = verdict[q]

LEMMA StepAlone ==
    ASSUME LocalTypeOK, OutcomeInv, NEW p \in Procs, InRun(p), OthersKept(p),
           CompletedMeansAccepted', MediaInv(p)', MessageInv(p)'
    PROVE  LocalInv'
<1>1. ASSUME NEW q \in Procs, q # p PROVE MediaInv(q)' /\ MessageInv(q)'
  <2>1. /\ pc'[q] \in {"down", "idle"}
        /\ \A s \in Slots : mediaLease'[q][s] = 0
        /\ \A m \in Messages : snap'[q][m].attempts = 0
        /\ rest'[q] = <<>>
        /\ \A m \in Messages : verdict'[q][m] = "waiting"
    BY <1>1, Alone DEF OthersKept
  <2>2. MediaInv(q)'
    BY <2>1 DEF MediaInv
  <2>3. MessageInv(q)'
    BY <2>1 DEF MessageInv, Disjoint, InRest
  <2>4. QED
    BY <2>2, <2>3
<1>2. QED
  BY <1>1 DEF LocalInv

-----------------------------------------------------------------------------
(* Steps nobody's leases can feel *)

\* Rows that are inflight stay as they are, and no row becomes completed.
RowsKept ==
    /\ \A m \in Messages :
          /\ msgs[m].status = "inflight" =>
                msgs'[m].status = "inflight" /\ msgs'[m].payload = msgs[m].payload
          /\ msgs'[m].status = "completed" => msgs'[m] = msgs[m]
    /\ \A s \in Slots : media[s].status = "inflight" => media'[s].status = "inflight"

LEMMA RowsKeptStep ==
    ASSUME LocalInv, RowsKept, UNCHANGED <<pc, mediaLease, snap, batch, rest, verdict, acked>>
    PROVE  LocalInv'
<1>1. CompletedMeansAccepted'
  BY DEF LocalInv, CompletedMeansAccepted, RowsKept
<1>2. ASSUME NEW p \in Procs PROVE MediaInv(p)'
  <2>1. MediaInv(p)
    BY DEF LocalInv
  <2>2. QED
    BY <2>1 DEF MediaInv, RowsKept
<1>3. ASSUME NEW p \in Procs PROVE MessageInv(p)'
  <2>1. MessageInv(p)
    BY DEF LocalInv
  <2>2. QED
    BY <2>1 DEF MessageInv, Disjoint, InRest, RowsKept
<1>4. QED
  BY <1>1, <1>2, <1>3 DEF LocalInv

LEMMA OperatorKeepsRows ==
    ASSUME QueueInv, OperatorRequeues \/ Tick
    PROVE  RowsKept
<1> USE DEF RowsKept, QueueInv, QueueTypeOK, RowsRecoverable
<1>1. ASSUME NEW n \in Messages, RequeueMessage(n) PROVE RowsKept
  <2>1. msgs[n] \in MessageRows
    OBVIOUS
  <2>2. QED
    BY <1>1, <2>1 DEF RequeueMessage, Requeued, MessageRows
<1>2. ASSUME NEW n \in Messages, MessageLeaseExpires(n) PROVE RowsKept
  <2>1. msgs[n] \in MessageRows /\ RowRecoverable(msgs[n])
    OBVIOUS
  <2>2. QED
    BY <1>2, <2>1 DEF MessageLeaseExpires, MessageRows, RowRecoverable
<1>3. ASSUME NEW n \in Messages, MessageBackoffElapses(n) PROVE RowsKept
  <2>1. msgs[n] \in MessageRows /\ RowRecoverable(msgs[n])
    OBVIOUS
  <2>2. QED
    BY <1>3, <2>1 DEF MessageBackoffElapses, MessageRows, RowRecoverable
<1>4. ASSUME NEW s \in Slots, RequeueMedia(s) \/ MediaLeaseExpires(s) \/ MediaBackoffElapses(s)
      PROVE  RowsKept
  <2>1. media[s] \in MediaRows
    OBVIOUS
  <2>2. QED
    BY <1>4, <2>1 DEF RequeueMedia, MediaLeaseExpires, MediaBackoffElapses, Requeued, MediaRows
<1>5. QED
  BY <1>1, <1>2, <1>3, <1>4 DEF OperatorRequeues, Tick, TimePasses

-----------------------------------------------------------------------------
(* The scan *)

\* An incremental scan leaves a delivered message alone and a reconcile scan
\* reopens it: no scan makes a message look delivered.
LEMMA ScanDeliversNothing ==
    ASSUME QueueTypeOK, NEW page, NEW views, NEW force \in BOOLEAN,
           EnqueuePage(page, views, force), NEW m \in Messages,
           msgs'[m].status = "completed"
    PROVE  msgs[m].status = "completed" /\ msgs'[m].payload = msgs[m].payload
<1> DEFINE payload == [e \in Elements |-> PartOf(views[m][e])]
<1>1. msgs[m] \in MessageRows
  BY DEF QueueTypeOK
<1>2. msgs'[m] = msgs[m] \/ msgs'[m] = UpsertedMessage(msgs[m], payload, force)
  BY DEF EnqueuePage, ScannedMessages
<1>3. UpsertedMessage(msgs[m], payload, force).status = "completed" =>
         /\ msgs[m].status = "completed"
         /\ UpsertedMessage(msgs[m], payload, force).payload = msgs[m].payload
  <2> HIDE DEF payload
  <2> QED
    BY <1>1 DEF UpsertedMessage, AbsentMessage, MessageRows
<1>4. QED
  BY <1>2, <1>3

LEMMA ScanOutcome ==
    ASSUME TypeOK, OutcomeInv, NEW p \in Procs, ScanPage(p)
    PROVE  LocalInv'
<1> USE DEF mediaLocals, messageLocals, server
<1>1. InRun(p) /\ pc[p] \in {"incremental", "reconcile"}
  BY DEF ScanPage, InRun
<1>2. UNCHANGED <<pc, mediaLease, snap, batch, rest, verdict, acked>>
  BY DEF ScanPage
<1>3. CompletedMeansAccepted'
  <2>1. ASSUME NEW m \in Messages, msgs'[m].status = "completed"
        PROVE  msgs[m].status = "completed" /\ msgs'[m].payload = msgs[m].payload
    BY <2>1, ScanDeliversNothing, TypeParts DEF ScanPage
  <2>2. QED
    BY <1>2, <2>1 DEF OutcomeInv, CompletedMeansAccepted
<1>4. MediaInv(p) /\ MessageInv(p)
  BY DEF OutcomeInv
<1>5. MediaInv(p)'
  BY <1>1, <1>2, <1>4 DEF MediaInv
<1>6. MessageInv(p)'
  BY <1>1, <1>2, <1>4 DEF MessageInv, Disjoint, InRest
<1>7. QED
  BY <1>1, <1>2, <1>3, <1>5, <1>6, StepAlone, TypeParts DEF OthersKept

-----------------------------------------------------------------------------
(* Media *)

\* While media are uploaded no message is leased, so a step may change message
\* rows as long as it delivers none.
LEMMA MediaPhase ==
    ASSUME LocalTypeOK, OutcomeInv, NEW p \in Procs, InRun(p),
           pc[p] \notin {"sending", "settling"}, pc'[p] \notin {"sending", "settling"},
           OthersKept(p), UNCHANGED <<snap, batch, rest, verdict, acked>>,
           \A m \in Messages :
               msgs'[m].status = "completed" =>
                  msgs[m].status = "completed" /\ msgs'[m].payload = msgs[m].payload,
           MediaInv(p)'
    PROVE  LocalInv'
<1>1. MessageInv(p)
  BY DEF OutcomeInv
<1>2. MessageInv(p)'
  <2>1. /\ \A m \in Messages : snap'[p][m].attempts = 0
        /\ rest'[p] = <<>>
        /\ \A m \in Messages : verdict'[p][m] = "waiting"
    BY <1>1 DEF MessageInv
  <2>2. QED
    BY <2>1 DEF MessageInv, Disjoint, InRest
<1>3. CompletedMeansAccepted'
  BY DEF OutcomeInv, CompletedMeansAccepted
<1>4. QED
  BY <1>2, <1>3, StepAlone

LEMMA LeaseMediaOutcome ==
    ASSUME TypeOK, OutcomeInv, NEW p \in Procs, LeaseMedia(p)
    PROVE  LocalInv'
<1> USE DEF messageLocals, server
<1>1. PICK picked \in SUBSET Slots :
         /\ LeaseMediaRows(picked)
         /\ mediaLease' = [mediaLease EXCEPT ![p] =
               [s \in Slots |-> IF s \in picked THEN media'[s].attempts ELSE 0]]
  BY DEF LeaseMedia
<1>2. \A s \in picked : media'[s].status = "inflight"
  <2> TAKE s \in picked
  <2>1. media'[s] = Leased(Reclaimed(media[s])) /\ media[s] \in MediaRows
    BY <1>1 DEF LeaseMediaRows, TypeOK
  <2>2. QED
    BY <2>1 DEF Leased, Reclaimed, MediaRows
<1>3. pc' = [pc EXCEPT ![p] = "media"] /\ UNCHANGED <<msgs, snap, batch, rest, verdict, acked>>
  BY <1>1 DEF LeaseMedia, Goto, LeaseMediaRows
<1>4. MediaInv(p)'
  <2>1. \A s \in Slots : mediaLease'[p][s] > 0 => s \in picked
    BY <1>1 DEF TypeOK
  <2>2. QED
    BY <1>2, <1>3, <2>1 DEF MediaInv, TypeOK
<1>5. OthersKept(p)
  BY <1>1, <1>3 DEF OthersKept, TypeOK
<1>6. QED
  BY <1>3, <1>4, <1>5, MediaPhase, TypeParts DEF LeaseMedia, InRun, TypeOK

LEMMA MediaOutcome ==
    ASSUME TypeOK, OutcomeInv, NEW p \in Procs,
           \/ \E s \in Slots : UploadMedia(p, s) \/ MediaFaulted(p, s)
           \/ ConfirmMedia(p)
    PROVE  LocalInv'
<1> USE DEF mediaLocals, messageLocals, server
<1>0. MediaInv(p)
  BY DEF OutcomeInv
<1>1. ASSUME NEW s \in Slots, UploadMedia(p, s) PROVE LocalInv'
  <2>1. /\ pc[p] = "media" /\ pc' = [pc EXCEPT ![p] = "patching"]
        /\ UNCHANGED <<msgs, media, mediaLease, snap, batch, rest, verdict, acked>>
    BY <1>1 DEF UploadMedia, Goto, tables
  <2>2. MediaInv(p)'
    BY <1>0, <2>1 DEF MediaInv, TypeOK
  <2>3. OthersKept(p)
    BY <2>1 DEF OthersKept, TypeOK
  <2>4. QED
    BY <2>1, <2>2, <2>3, MediaPhase, TypeParts DEF InRun, TypeOK
<1>2. ASSUME NEW s \in Slots, MediaFaulted(p, s) PROVE LocalInv'
  <2>1. /\ pc[p] = "media" /\ mediaLease' = [mediaLease EXCEPT ![p][s] = 0]
        /\ UNCHANGED <<pc, msgs, snap, batch, rest, verdict, acked>>
    BY <1>2 DEF MediaFaulted, DeferMedia
  <2>2. \A t \in Slots \ {s} : media'[t] = media[t]
    BY <1>2 DEF MediaFaulted, DeferMedia, TypeOK
  <2>3. MediaInv(p)'
    BY <1>0, <2>1, <2>2 DEF MediaInv, TypeOK
  <2>4. OthersKept(p)
    BY <2>1 DEF OthersKept, TypeOK
  <2>5. QED
    BY <2>1, <2>3, <2>4, MediaPhase, TypeParts DEF InRun
<1>3. CASE ConfirmMedia(p)
  <2>1. PICK s \in current[p] :
           CompleteMedia(s) /\ mediaLease' = [mediaLease EXCEPT ![p][s] = 0]
    BY <1>3 DEF ConfirmMedia
  <2>2. s \in Slots
    BY DEF TypeOK
  <2>3. /\ pc[p] = "confirming" /\ pc' = [pc EXCEPT ![p] = "media"]
        /\ UNCHANGED <<msgs, snap, batch, rest, verdict, acked>>
    BY <1>3, <2>1 DEF ConfirmMedia, CompleteMedia, Goto
  <2>4. \A t \in Slots \ {s} : media'[t] = media[t]
    BY <2>1 DEF CompleteMedia, TypeOK
  <2>5. MediaInv(p)'
    BY <1>0, <2>1, <2>2, <2>3, <2>4 DEF MediaInv, TypeOK
  <2>6. OthersKept(p)
    BY <2>1, <2>3 DEF OthersKept, TypeOK
  <2>7. QED
    BY <2>3, <2>5, <2>6, MediaPhase, TypeParts DEF InRun, TypeOK
<1>4. QED
  BY <1>1, <1>2, <1>3

LEMMA PatchOutcome ==
    ASSUME TypeOK, OutcomeInv, NEW p \in Procs, PatchMedia(p)
    PROVE  LocalInv'
<1> USE DEF mediaLocals, messageLocals, server
<1>1. PICK s \in current[p] : PatchMessage(s)
  BY DEF PatchMedia
<1>2. s \in Slots /\ s[1] \in Messages /\ msgs[s[1]] \in MessageRows
  BY SlotParts DEF TypeOK
<1>3. /\ pc[p] = "patching" /\ pc' = [pc EXCEPT ![p] = "confirming"]
      /\ UNCHANGED <<media, mediaLease, snap, batch, rest, verdict, acked>>
  BY <1>1 DEF PatchMedia, PatchMessage, Goto
<1>4. ASSUME NEW m \in Messages, msgs'[m].status = "completed"
      PROVE  msgs'[m] = msgs[m]
  <2>1. CASE m # s[1]
    BY <1>1, <2>1 DEF PatchMessage, TypeOK
  <2>2. CASE m = s[1]
    <3>1. msgs'[m] = PatchedMessage(msgs[m], s)
      BY <1>1, <1>2, <2>2 DEF PatchMessage, TypeOK
    <3>2. QED
      BY <1>2, <1>4, <2>2, <3>1 DEF PatchedMessage, Requeued, MessageRows
  <2>3. QED
    BY <2>1, <2>2
<1>5. MediaInv(p)'
  <2>1. MediaInv(p)
    BY DEF OutcomeInv
  <2>2. QED
    BY <1>3, <2>1 DEF MediaInv, TypeOK
<1>6. OthersKept(p)
  BY <1>3 DEF OthersKept, TypeOK
<1>7. QED
  BY <1>3, <1>4, <1>5, <1>6, MediaPhase, TypeParts DEF InRun, TypeOK

-----------------------------------------------------------------------------
(* Messages *)

LEMMA LeaseMessagesOutcome ==
    ASSUME QueueInv', TypeOK, OutcomeInv, NEW p \in Procs, LeaseMessages(p)
    PROVE  LocalInv'
<1> USE DEF mediaLocals, server
<1>1. PICK picked \in SUBSET Messages :
         /\ LeaseMessageRows(picked)
         /\ snap' = [snap EXCEPT ![p] =
               [m \in Messages |->
                   IF m \in picked
                   THEN [attempts |-> msgs'[m].attempts, payload |-> msgs'[m].payload]
                   ELSE NotLeased]]
         /\ batch' = [batch EXCEPT ![p] = picked]
         /\ Goto(p, IF picked = {} THEN "finishing" ELSE "sending")
  BY DEF LeaseMessages
<1>2. /\ pc[p] = "media" /\ \A s \in Slots : mediaLease[p][s] = 0
      /\ UNCHANGED <<media, mediaLease, rest, verdict, acked>>
  BY <1>1 DEF LeaseMessages, LeaseMessageRows
<1>3. pc'[p] = IF picked = {} THEN "finishing" ELSE "sending"
  BY <1>1 DEF Goto, TypeOK
<1>4. MessageInv(p)
  BY DEF OutcomeInv
<1>5. /\ batch'[p] = picked /\ rest'[p] = <<>>
      /\ \A m \in Messages : verdict'[p][m] = "waiting"
  BY <1>1, <1>2, <1>4 DEF MessageInv, TypeOK
<1>6. \A m \in Messages :
         snap'[p][m] = IF m \in picked
                       THEN [attempts |-> msgs'[m].attempts, payload |-> msgs'[m].payload]
                       ELSE NotLeased
  BY <1>1 DEF TypeOK
<1>7. ASSUME NEW m \in picked PROVE msgs'[m].status = "inflight" /\ msgs'[m].attempts > 0
  <2>1. msgs'[m] = Leased(Reclaimed(msgs[m])) /\ msgs[m] \in MessageRows
    BY <1>1 DEF LeaseMessageRows, TypeOK
  <2>2. msgs'[m].status = "inflight"
    BY <2>1 DEF Leased, Reclaimed, MessageRows
  <2>3. QED
    BY <2>2 DEF QueueInv, RowsRecoverable, RowRecoverable
<1>8. MessageInv(p)'
  <2>1. \A m \in Messages \ picked : snap'[p][m].attempts = 0
    <3> TAKE m \in Messages \ picked
    <3>1. snap'[p][m] = NotLeased
      BY <1>6
    <3>2. QED
      BY <3>1 DEF NotLeased
  <2>2. \A m \in picked : snap'[p][m].attempts > 0 /\ snap'[p][m].payload = msgs'[m].payload
    <3> TAKE m \in picked
    <3>1. snap'[p][m] = [attempts |-> msgs'[m].attempts, payload |-> msgs'[m].payload]
      BY <1>6
    <3>2. msgs'[m].attempts > 0
      BY <1>7
    <3>3. QED
      BY <3>1, <3>2
  <2>3. \A m \in Messages : snap'[p][m].attempts > 0 <=> m \in picked
    BY <2>1, <2>2
  <2>4. Disjoint(p)'
    BY <1>5 DEF Disjoint
  <2>5. \A m \in Messages : ~InRest(p, m)'
    BY <1>5 DEF InRest
  <2>6. pc'[p] # "settling" /\ (pc'[p] # "sending" => picked = {})
    BY <1>3
  <2>7. QED
    BY <1>3, <1>5, <1>7, <2>1, <2>2, <2>3, <2>4, <2>5, <2>6 DEF MessageInv
<1>9. MediaInv(p)'
  BY <1>2 DEF MediaInv
<1>10. CompletedMeansAccepted'
  <2>1. ASSUME NEW m \in Messages, msgs'[m].status = "completed" PROVE msgs'[m] = msgs[m]
    <3>1. /\ msgs[m] \in MessageRows
          /\ msgs'[m] = Leased(Reclaimed(msgs[m])) \/ msgs'[m] = Reclaimed(msgs[m])
      BY <1>1 DEF LeaseMessageRows, TypeOK
    <3>2. QED
      BY <2>1, <3>1 DEF Leased, Reclaimed, MessageRows
  <2>2. QED
    BY <1>2, <2>1 DEF OutcomeInv, CompletedMeansAccepted
<1>11. OthersKept(p)
  BY <1>1, <1>2 DEF OthersKept, Goto, TypeOK
<1>12. QED
  BY <1>2, <1>8, <1>9, <1>10, <1>11, StepAlone, TypeParts DEF InRun

\* Judging a batch gives a verdict to its messages and to no other; those
\* accepted are on the server as they were leased.
LEMMA JudgedOutcome ==
    ASSUME TypeOK, OutcomeInv, NEW p \in Procs, pc[p] = "sending",
           NEW accepted, NEW landed, accepted \subseteq landed, landed \subseteq batch[p],
           NEW other \in {"deferred", "rejected"},
           Judge(p, accepted, other), Accept(p, landed), Goto(p, "settling"),
           UNCHANGED <<tables, mediaLocals, snap, batch, rest>>
    PROVE  LocalInv'
<1> USE DEF mediaLocals, tables
<1>1. MediaInv(p) /\ MessageInv(p)
  BY DEF OutcomeInv
<1>2. /\ pc'[p] = "settling"
      /\ msgs' = msgs /\ media' = media /\ mediaLease' = mediaLease
      /\ snap' = snap /\ batch' = batch /\ rest' = rest
  BY DEF Goto, TypeOK
<1>3. \A m \in Messages :
         verdict'[p][m] = IF m \in batch[p]
                          THEN IF m \in accepted THEN "accepted" ELSE other
                          ELSE "waiting"
  BY DEF Judge, TypeOK
<1>4. \A m \in Messages :
         acked'[m] = IF m \in landed THEN {snap[p][m].payload} ELSE acked[m]
  BY DEF Accept
<1>5. MediaInv(p)'
  BY <1>1, <1>2 DEF MediaInv
<1>6. MessageInv(p)'
  <2>1. \A m \in Messages :
           snap[p][m].attempts > 0 <=> InRest(p, m) \/ m \in batch[p]
    BY <1>1 DEF MessageInv
  <2>2. \A m \in Messages : m \in batch[p] <=> verdict'[p][m] # "waiting"
    BY <1>3
  <2>3. \A m \in Messages : verdict'[p][m] = "accepted" => m \in landed
    BY <1>3
  <2>4. \A m \in Messages : InRest(p, m)' <=> InRest(p, m)
    BY <1>2 DEF InRest
  <2>5. Disjoint(p)'
    <3>1. Disjoint(p)
      BY <1>1 DEF MessageInv
    <3>2. QED
      BY <1>2, <3>1 DEF Disjoint
  <2>6. \A m \in Messages :
           snap'[p][m].attempts > 0 <=>
              InRest(p, m)' \/ (m \in batch'[p] /\ verdict'[p][m] # "waiting")
    BY <1>2, <2>1, <2>2, <2>4
  <2>7. \A m \in Messages :
           snap'[p][m].attempts > 0 =>
              msgs'[m].status = "inflight" /\ msgs'[m].payload = snap'[p][m].payload
    BY <1>1, <1>2 DEF MessageInv
  <2>8. \A m \in Messages : verdict'[p][m] = "accepted" => acked'[m] = {snap'[p][m].payload}
    BY <1>2, <1>4, <2>3
  <2>9. \A m \in Messages : verdict'[p][m] # "waiting" => m \in batch'[p]
    BY <1>2, <2>2
  <2>10. pc'[p] = "settling"
    BY <1>2
  <2>11. QED
    BY <2>5, <2>6, <2>7, <2>8, <2>9, <2>10 DEF MessageInv
<1>7. CompletedMeansAccepted'
  <2>1. ASSUME NEW m \in landed PROVE msgs[m].status = "inflight"
    BY <1>1, <2>1 DEF MessageInv, TypeOK
  <2>2. QED
    BY <1>2, <1>4, <2>1 DEF OutcomeInv, CompletedMeansAccepted
<1>8. OthersKept(p)
  BY <1>2 DEF OthersKept, Goto, Judge, TypeOK
<1>9. QED
  BY <1>5, <1>6, <1>7, <1>8, StepAlone, TypeParts DEF InRun

LEMMA AnswerOutcome ==
    ASSUME TypeOK, OutcomeInv, NEW p \in Procs,
           BatchAccepted(p) \/ BatchFaulted(p) \/ BatchRejected(p)
    PROVE  LocalInv'
<1>1. CASE BatchAccepted(p)
  <2>1. PICK accepted \in SUBSET batch[p] :
           Accept(p, accepted) /\ Judge(p, accepted, "deferred")
    BY <1>1 DEF BatchAccepted
  <2>2. QED
    BY <1>1, <2>1, JudgedOutcome DEF BatchAccepted
<1>2. CASE BatchFaulted(p)
  <2>1. PICK landed \in SUBSET batch[p] : Accept(p, landed)
    BY <1>2 DEF BatchFaulted
  <2>2. PICK other \in {"deferred", "rejected"} : Judge(p, {}, other)
    BY <1>2 DEF BatchFaulted
  <2>3. QED
    BY <1>2, <2>1, <2>2, JudgedOutcome DEF BatchFaulted
<1>3. CASE BatchRejected(p)
  <2>1. Accept(p, {})
    BY <1>3 DEF BatchRejected, Accept, server, TypeOK
  <2>2. Judge(p, {}, "rejected")
    BY <1>3 DEF BatchRejected
  <2>3. QED
    BY <1>3, <2>1, <2>2, JudgedOutcome DEF BatchRejected
<1>4. QED
  BY <1>1, <1>2, <1>3

LEMMA SplitOutcome ==
    ASSUME TypeOK, OutcomeInv, NEW p \in Procs, BatchSplit(p)
    PROVE  LocalInv'
<1> USE DEF mediaLocals, server, tables
<1>1. PICK first \in SUBSET batch[p] :
         /\ batch' = [batch EXCEPT ![p] = first]
         /\ rest' = [rest EXCEPT ![p] = <<batch[p] \ first>> \o @]
  BY DEF BatchSplit
<1>2. /\ pc[p] = "sending"
      /\ UNCHANGED <<msgs, media, pc, mediaLease, snap, verdict, acked>>
  BY DEF BatchSplit
<1>3. MediaInv(p) /\ MessageInv(p) /\ batch[p] \subseteq Messages
  BY DEF OutcomeInv, TypeOK
<1>4. /\ batch'[p] = first
      /\ rest'[p] = <<batch[p] \ first>> \o rest[p]
      /\ rest[p] \in Seq(SUBSET Messages)
  BY <1>1 DEF TypeOK
<1>5. /\ DOMAIN rest[p] = 1..Len(rest[p]) /\ Len(rest[p]) \in Nat
      /\ DOMAIN rest'[p] = 1..(Len(rest[p]) + 1)
      /\ rest'[p][1] = batch[p] \ first
      /\ \A i \in DOMAIN rest'[p] : i # 1 =>
            i - 1 \in DOMAIN rest[p] /\ rest'[p][i] = rest[p][i - 1]
      /\ \A i \in DOMAIN rest[p] :
            i + 1 \in DOMAIN rest'[p] /\ rest'[p][i + 1] = rest[p][i]
  BY <1>4
<1>6. \A m \in Messages :
         InRest(p, m)' \/ m \in batch'[p] <=> InRest(p, m) \/ m \in batch[p]
  <2> TAKE m \in Messages
  <2>1. InRest(p, m)' => InRest(p, m) \/ m \in batch[p]
    BY <1>5 DEF InRest
  <2>2. InRest(p, m) => InRest(p, m)'
    BY <1>5 DEF InRest
  <2>3. m \in batch[p] => m \in batch'[p] \/ InRest(p, m)'
    BY <1>4, <1>5 DEF InRest
  <2>4. QED
    BY <1>4, <2>1, <2>2, <2>3
<1>7. Disjoint(p)'
  <2>1. Disjoint(p)
    BY <1>3 DEF MessageInv
  <2>2. ASSUME NEW i \in DOMAIN rest'[p] PROVE rest'[p][i] \intersect batch'[p] = {}
    BY <1>4, <1>5, <2>1 DEF Disjoint
  <2>3. ASSUME NEW i \in DOMAIN rest'[p], NEW j \in DOMAIN rest'[p], i # j
        PROVE  rest'[p][i] \intersect rest'[p][j] = {}
    <3>1. CASE i = 1
      BY <1>5, <2>1, <2>3, <3>1 DEF Disjoint
    <3>2. CASE j = 1
      BY <1>5, <2>1, <2>3, <3>2 DEF Disjoint
    <3>3. CASE i # 1 /\ j # 1
      <4>1. i - 1 \in DOMAIN rest[p] /\ j - 1 \in DOMAIN rest[p] /\ i - 1 # j - 1
        BY <1>5, <2>3, <3>3
      <4>2. rest'[p][i] = rest[p][i - 1] /\ rest'[p][j] = rest[p][j - 1]
        BY <1>5, <3>3
      <4>3. QED
        BY <2>1, <4>1, <4>2 DEF Disjoint
    <3>4. QED
      BY <3>1, <3>2, <3>3
  <2>4. QED
    BY <2>2, <2>3 DEF Disjoint
<1>8. MessageInv(p)'
  <2>1. \A m \in Messages : snap[p][m].attempts > 0 <=> InRest(p, m) \/ m \in batch[p]
    BY <1>2, <1>3 DEF MessageInv
  <2>2. \A m \in Messages : verdict[p][m] = "waiting"
    BY <1>2, <1>3 DEF MessageInv
  <2>3. \A m \in Messages : snap'[p][m].attempts > 0 <=> InRest(p, m)' \/ m \in batch'[p]
    BY <1>2, <1>6, <2>1
  <2>4. \A m \in Messages :
           snap'[p][m].attempts > 0 =>
              msgs'[m].status = "inflight" /\ msgs'[m].payload = snap'[p][m].payload
    BY <1>2, <1>3 DEF MessageInv
  <2>5. QED
    BY <1>2, <1>7, <2>2, <2>3, <2>4 DEF MessageInv
<1>9. MediaInv(p)'
  BY <1>2, <1>3 DEF MediaInv
<1>10. CompletedMeansAccepted'
  BY <1>2 DEF OutcomeInv, CompletedMeansAccepted
<1>11. OthersKept(p)
  BY <1>1, <1>2 DEF OthersKept, TypeOK
<1>12. QED
  BY <1>2, <1>8, <1>9, <1>10, <1>11, StepAlone, TypeParts DEF InRun

LEMMA SettleOutcome ==
    ASSUME TypeOK, OutcomeInv, NEW p \in Procs, NEW m \in Messages, SettleMessage(p, m)
    PROVE  LocalInv'
<1> USE DEF mediaLocals, server
<1>1. /\ pc[p] = "settling" /\ m \in batch[p] /\ verdict[p][m] # "waiting"
      /\ UNCHANGED <<media, pc, mediaLease, batch, rest, acked>>
  BY DEF SettleMessage, CompleteMessage, DeferMessage
<1>2. /\ snap' = [snap EXCEPT ![p][m] = NotLeased]
      /\ verdict' = [verdict EXCEPT ![p][m] = "waiting"]
  BY DEF SettleMessage
<1>3. /\ snap'[p] = [snap[p] EXCEPT ![m] = NotLeased]
      /\ verdict'[p] = [verdict[p] EXCEPT ![m] = "waiting"]
  BY <1>2 DEF TypeOK
<1>4. /\ snap'[p][m].attempts = 0 /\ verdict'[p][m] = "waiting"
      /\ \A n \in Messages \ {m} : snap'[p][n] = snap[p][n] /\ verdict'[p][n] = verdict[p][n]
  BY <1>3 DEF TypeOK, NotLeased
<1>5. MediaInv(p) /\ MessageInv(p)
  BY DEF OutcomeInv
<1>6. /\ msgs[m] \in MessageRows
      /\ \A n \in Messages \ {m} : msgs'[n] = msgs[n]
  BY DEF SettleMessage, CompleteMessage, DeferMessage, TypeOK
<1>7. ~InRest(p, m)
  BY <1>1, <1>5 DEF MessageInv, Disjoint, InRest
<1>8. MessageInv(p)'
  <2>1. \A n \in Messages :
           snap[p][n].attempts > 0 <=>
              InRest(p, n) \/ (n \in batch[p] /\ verdict[p][n] # "waiting")
    BY <1>1, <1>5 DEF MessageInv
  <2>2. \A n \in Messages :
           snap'[p][n].attempts > 0 <=>
              InRest(p, n) \/ (n \in batch[p] /\ verdict'[p][n] # "waiting")
    BY <1>4, <1>7, <2>1
  <2>3. Disjoint(p)'
    BY <1>1, <1>5 DEF MessageInv, Disjoint
  <2>4. \A n \in Messages : verdict'[p][n] # "waiting" => n \in batch[p]
    BY <1>4, <1>5 DEF MessageInv
  <2>5. \A n \in Messages :
           snap'[p][n].attempts > 0 =>
              msgs'[n].status = "inflight" /\ msgs'[n].payload = snap'[p][n].payload
    BY <1>4, <1>5, <1>6 DEF MessageInv
  <2>6. \A n \in Messages : verdict'[p][n] = "accepted" => acked'[n] = {snap'[p][n].payload}
    BY <1>1, <1>4, <1>5 DEF MessageInv
  <2>7. \A n \in Messages : InRest(p, n)' <=> InRest(p, n)
    BY <1>1 DEF InRest
  <2>8. QED
    BY <1>1, <2>2, <2>3, <2>4, <2>5, <2>6, <2>7 DEF MessageInv
<1>9. CompletedMeansAccepted'
  <2>1. ASSUME msgs'[m].status = "completed" PROVE acked'[m] = {msgs'[m].payload}
    <3>1. verdict[p][m] = "accepted" /\ CompleteMessage(m)
      <4>1. ASSUME NEW attempts, NEW max, DeferMessage(m, attempts, max)
            PROVE  FALSE
        <5>1. msgs'[m] = Deferred(msgs[m], attempts, max)
          BY <4>1 DEF DeferMessage, TypeOK
        <5>2. msgs'[m].status \in {"dead_letter", "retry"}
          BY <1>6, <5>1 DEF Deferred, MessageRows
        <5>3. QED
          BY <2>1, <5>2
      <4>2. \/ verdict[p][m] = "accepted" /\ CompleteMessage(m)
            \/ DeferMessage(m, snap[p][m].attempts, MaxAttempts)
            \/ DeferMessage(m, snap[p][m].attempts, 1)
        BY DEF SettleMessage
      <4>3. QED
        BY <4>1, <4>2
    <3>2. msgs'[m].payload = msgs[m].payload
      BY <1>6, <3>1 DEF CompleteMessage, Completed, TypeOK, MessageRows
    <3>3. snap[p][m].attempts > 0
      BY <1>1, <1>5 DEF MessageInv
    <3>4. QED
      BY <1>1, <1>5, <3>1, <3>2, <3>3 DEF MessageInv
  <2>2. QED
    BY <1>1, <1>6, <2>1 DEF OutcomeInv, CompletedMeansAccepted
<1>10. MediaInv(p)'
  BY <1>1, <1>5 DEF MediaInv
<1>11. OthersKept(p)
  BY <1>1, <1>2 DEF OthersKept, TypeOK
<1>12. QED
  BY <1>1, <1>8, <1>9, <1>10, <1>11, StepAlone, TypeParts DEF InRun

LEMMA NextBatchOutcome ==
    ASSUME TypeOK, OutcomeInv, NEW p \in Procs, NextBatch(p)
    PROVE  LocalInv'
<1> USE DEF mediaLocals, server, tables
<1>1. /\ pc[p] = "settling" /\ \A m \in batch[p] : verdict[p][m] = "waiting"
      /\ UNCHANGED <<msgs, media, mediaLease, snap, verdict, acked>>
  BY DEF NextBatch
<1>2. MediaInv(p) /\ MessageInv(p) /\ batch[p] \subseteq Messages
  BY DEF OutcomeInv, TypeOK
<1>3. \A m \in Messages : verdict[p][m] = "waiting"
  BY <1>1, <1>2 DEF MessageInv
<1>4. \A m \in Messages : snap[p][m].attempts > 0 <=> InRest(p, m)
  BY <1>1, <1>2, <1>3 DEF MessageInv
<1>5. MessageInv(p)'
  <2>1. CASE rest[p] = <<>>
    <3>1. pc'[p] = "finishing" /\ batch'[p] = {} /\ rest'[p] = <<>>
      BY <2>1 DEF NextBatch, Goto, TypeOK
    <3>2. \A m \in Messages : ~(snap[p][m].attempts > 0)
      BY <1>4, <2>1 DEF InRest
    <3>3. \A m \in Messages : snap[p][m].attempts = 0
      BY <3>2 DEF TypeOK, Snapshots
    <3>4. QED
      BY <1>1, <1>3, <3>1, <3>3 DEF MessageInv, Disjoint, InRest
  <2>2. CASE rest[p] # <<>>
    <3>1. /\ pc'[p] = "sending" /\ batch'[p] = Head(rest[p]) /\ rest'[p] = Tail(rest[p])
          /\ rest[p] \in Seq(SUBSET Messages)
      BY <2>2 DEF NextBatch, Goto, TypeOK
    <3>2. /\ Len(rest[p]) \in Nat /\ Len(rest[p]) > 0 /\ DOMAIN rest[p] = 1..Len(rest[p])
          /\ batch'[p] = rest[p][1] /\ 1 \in DOMAIN rest[p]
          /\ DOMAIN rest'[p] = 1..(Len(rest[p]) - 1)
          /\ \A i \in DOMAIN rest'[p] :
                i + 1 \in DOMAIN rest[p] /\ rest'[p][i] = rest[p][i + 1]
          /\ \A i \in DOMAIN rest[p] : i # 1 =>
                i - 1 \in DOMAIN rest'[p] /\ rest'[p][i - 1] = rest[p][i]
      BY <2>2, <3>1
    <3>3. \A m \in Messages : InRest(p, m) <=> InRest(p, m)' \/ m \in batch'[p]
      <4> TAKE m \in Messages
      <4>1. InRest(p, m) => InRest(p, m)' \/ m \in batch'[p]
        BY <3>2 DEF InRest
      <4>2. InRest(p, m)' \/ m \in batch'[p] => InRest(p, m)
        BY <3>2 DEF InRest
      <4>3. QED
        BY <4>1, <4>2
    <3>4. Disjoint(p)'
      <4>1. Disjoint(p)
        BY <1>2 DEF MessageInv
      <4>2. ASSUME NEW i \in DOMAIN rest'[p] PROVE rest'[p][i] \intersect batch'[p] = {}
        <5>1. i + 1 \in DOMAIN rest[p] /\ i + 1 # 1 /\ rest'[p][i] = rest[p][i + 1]
          BY <3>2
        <5>2. QED
          BY <3>2, <4>1, <5>1 DEF Disjoint
      <4>3. ASSUME NEW i \in DOMAIN rest'[p], NEW j \in DOMAIN rest'[p], i # j
            PROVE  rest'[p][i] \intersect rest'[p][j] = {}
        <5>1. /\ i + 1 \in DOMAIN rest[p] /\ j + 1 \in DOMAIN rest[p] /\ i + 1 # j + 1
              /\ rest'[p][i] = rest[p][i + 1] /\ rest'[p][j] = rest[p][j + 1]
          BY <3>2, <4>3
        <5>2. QED
          BY <4>1, <5>1 DEF Disjoint
      <4>4. QED
        BY <4>2, <4>3 DEF Disjoint
    <3>5. \A m \in Messages :
             snap'[p][m].attempts > 0 =>
                msgs'[m].status = "inflight" /\ msgs'[m].payload = snap'[p][m].payload
      BY <1>1, <1>2 DEF MessageInv
    <3>6. QED
      BY <1>1, <1>3, <1>4, <3>1, <3>3, <3>4, <3>5 DEF MessageInv
  <2>3. QED
    BY <2>1, <2>2
<1>6. MediaInv(p)'
  <2>1. pc'[p] \in {"finishing", "sending"}
    BY DEF NextBatch, Goto, TypeOK
  <2>2. QED
    BY <1>1, <1>2, <2>1 DEF MediaInv
<1>7. CompletedMeansAccepted'
  BY <1>1 DEF OutcomeInv, CompletedMeansAccepted
<1>8. OthersKept(p)
  BY <1>1 DEF NextBatch, Goto, OthersKept, TypeOK
<1>9. QED
  BY <1>1, <1>5, <1>6, <1>7, <1>8, StepAlone, TypeParts DEF InRun

-----------------------------------------------------------------------------
(* The invariant *)

LEMMA InvParts == OutcomeInv <=> GateInv /\ LocalInv
BY DEF OutcomeInv, LocalInv

LEMMA RunOutcome ==
    ASSUME TypeOK, OutcomeInv, NEW p \in Procs,
           \/ Start(p) \/ Crash(p) \/ StartRun(p)
           \/ SourceUnavailable(p) \/ FinishRun(p)
    PROVE  LocalInv'
<1>0. LocalTypeOK /\ LocalInv
  BY InvParts, TypeParts
<1>1. CASE Start(p) \/ SourceUnavailable(p) \/ FinishRun(p)
  <2>1. PICK label \in Idle : Goto(p, label)
    BY <1>1 DEF Start, SourceUnavailable, FinishRun, Idle
  <2>2. pc[p] \in Idle /\ UNCHANGED <<tables, mediaLocals, messageLocals, server>>
    BY <1>1 DEF Start, SourceUnavailable, FinishRun, Idle
  <2>3. QED
    BY <1>0, <2>1, <2>2, PhaseChange
<1>2. CASE StartRun(p)
  <2>1. PICK kind \in Scans : Goto(p, kind)
    BY <1>2 DEF StartRun
  <2>2. kind \in Idle /\ pc[p] \in Idle
    BY <1>2, SyncAssumption DEF StartRun, Idle
  <2>3. UNCHANGED <<tables, mediaLocals, messageLocals, server>>
    BY <1>2 DEF StartRun
  <2>4. QED
    BY <1>0, <2>1, <2>2, <2>3, PhaseChange
<1>3. CASE Crash(p)
  <2>1. "down" \in Idle /\ Goto(p, "down") /\ Forget(p) /\ UNCHANGED <<tables, server>>
    BY <1>3 DEF Crash, Idle
  <2>2. QED
    BY <1>0, <2>1, ForgetKeeps
<1>4. QED
  BY <1>1, <1>2, <1>3

LEMMA RaiseOutcome ==
    ASSUME TypeOK, OutcomeInv, NEW p \in Procs,
           \/ \E s \in Slots : MediaLeaseLost(p, s)
           \/ PatchRaises(p) \/ ConfirmRaises(p)
           \/ \E m \in Messages : SettleRaises(p, m)
    PROVE  LocalInv'
<1>1. Raise(p)
  BY DEF MediaLeaseLost, PatchRaises, ConfirmRaises, SettleRaises
<1>2. "finishing" \in Idle /\ LocalTypeOK /\ LocalInv
  BY InvParts, TypeParts DEF Idle
<1>3. Goto(p, "finishing") /\ Forget(p) /\ UNCHANGED <<tables, server>>
  BY <1>1 DEF Raise
<1>4. QED
  BY <1>2, <1>3, ForgetKeeps

LEMMA OutcomeStep ==
    ASSUME Gated, QueueInv, QueueInv', TypeOK, OutcomeInv, [Next]_vars
    PROVE  OutcomeInv'
<1>1. GateInv'
  BY GateStep, InvParts, TypeParts DEF Gated
<1>2. ASSUME NEW p \in Procs,
             \/ Start(p) \/ Crash(p) \/ StartRun(p)
             \/ ScanPage(p) \/ SourceUnavailable(p) \/ LeaseMedia(p)
             \/ FinishRun(p)
      PROVE  LocalInv'
  BY <1>2, RunOutcome, ScanOutcome, LeaseMediaOutcome
<1>3. ASSUME NEW p \in Procs,
             \/ \E s \in Slots : UploadMedia(p, s) \/ MediaFaulted(p, s) \/ MediaLeaseLost(p, s)
             \/ PatchMedia(p) \/ PatchRaises(p) \/ ConfirmMedia(p) \/ ConfirmRaises(p)
      PROVE  LocalInv'
  BY <1>3, MediaOutcome, PatchOutcome, RaiseOutcome
<1>4. ASSUME NEW p \in Procs,
             \/ LeaseMessages(p)
             \/ BatchAccepted(p) \/ BatchFaulted(p) \/ BatchSplit(p) \/ BatchRejected(p)
             \/ \E m \in Messages : SettleMessage(p, m) \/ SettleRaises(p, m)
             \/ NextBatch(p)
      PROVE  LocalInv'
  BY <1>4, LeaseMessagesOutcome, AnswerOutcome, SplitOutcome, SettleOutcome, RaiseOutcome,
     NextBatchOutcome
<1>5. ASSUME OperatorRequeues \/ Tick PROVE LocalInv'
  <2>1. UNCHANGED <<pc, mediaLease, snap, batch, rest, verdict, acked>>
    BY <1>5 DEF OperatorRequeues, Tick, Others, mediaLocals, messageLocals, server
  <2>2. QED
    BY <1>5, <2>1, OperatorKeepsRows, RowsKeptStep, InvParts
<1>6. ASSUME UNCHANGED vars PROVE LocalInv'
  <2>1. UNCHANGED <<msgs, media, pc, mediaLease, snap, batch, rest, verdict, acked>>
    BY <1>6 DEF vars, tables, mediaLocals, messageLocals, server
  <2>2. RowsKept
    BY <2>1 DEF RowsKept
  <2>3. QED
    BY <2>1, <2>2, RowsKeptStep, InvParts
<1>7. LocalInv'
  <2>1. ASSUME NEW p \in Procs, Upload(p) PROVE LocalInv'
    BY <1>2, <1>3, <1>4, <2>1 DEF Upload
  <2>2. ~ \E kind \in ManualScans : ManualScan(kind)
    BY DEF Gated
  <2>3. QED
    BY <1>2, <1>5, <1>6, <2>1, <2>2 DEF Next
<1>8. QED
  BY <1>1, <1>7 DEF OutcomeInv, LocalInv

LEMMA OutcomeInit == Init => OutcomeInv
<1> SUFFICES ASSUME Init PROVE OutcomeInv
  OBVIOUS
<1>1. \A p \in Procs : MediaInv(p)
  BY DEF Init, MediaInv
<1>2. \A p \in Procs : MessageInv(p)
  BY DEF Init, MessageInv, Disjoint, InRest, NotLeased
<1>3. GateInv
  BY DEF Init, GateInv, InRun
<1>4. CompletedMeansAccepted
  BY DEF Init, QueueInit, AbsentMessage, CompletedMeansAccepted
<1>5. QED
  BY <1>1, <1>2, <1>3, <1>4 DEF OutcomeInv

LEMMA OutcomeInvariant == ASSUME Gated PROVE Spec => [](QueueInv /\ LocalTypeOK /\ OutcomeInv)
<1>1. QueueInv /\ LocalTypeOK => TypeOK
  BY TypeParts DEF QueueInv
<1>2. QueueInv /\ LocalTypeOK /\ OutcomeInv /\ [Next]_vars
         => (QueueInv /\ LocalTypeOK /\ OutcomeInv)'
  BY <1>1, TypeStep, OutcomeStep
<1>3. QED
  BY <1>2, TypeInit, OutcomeInit, PTL DEF Spec

\* A message marked completed is on the server, with the payload of its row:
\* through lost answers, split batches, crashes between any two transactions,
\* leases that run out and dead letters the operator brings back.
THEOREM CompletedAreAccepted == ASSUME Gated PROVE Spec => []CompletedMeansAccepted
<1>1. OutcomeInv => CompletedMeansAccepted
  BY DEF OutcomeInv
<1>2. QED
  BY <1>1, OutcomeInvariant, PTL

\* What a run leased stays leased and unchanged until it writes the outcome
\* back, so mark_completed and mark_retry never raise: a lease that expired
\* during a slow upload is not reclaimed, because only a run leases.
THEOREM LeasesStayIntact == ASSUME Gated PROVE Spec => []LeasesIntact
<1>1. OutcomeInv => LeasesIntact
  BY DEF OutcomeInv, MediaInv, MessageInv, LeasesIntact
<1>2. QED
  BY <1>1, OutcomeInvariant, PTL

\* However deep a rejected batch is halved, what is still to be sent is a
\* partition of what was leased and is not settled.
THEOREM SplitsPartition == ASSUME Gated PROVE Spec => []BatchesPartition
<1>1. ASSUME LocalTypeOK, OutcomeInv PROVE BatchesPartition
  <2> SUFFICES ASSUME NEW p \in Procs, pc[p] = "sending"
               PROVE  /\ {m \in Messages : snap[p][m].attempts > 0}
                            = batch[p] \union UNION {rest[p][i] : i \in DOMAIN rest[p]}
                      /\ \A i, j \in DOMAIN rest[p] :
                            /\ rest[p][i] \intersect batch[p] = {}
                            /\ i # j => rest[p][i] \intersect rest[p][j] = {}
    BY DEF BatchesPartition
  <2>1. MessageInv(p)
    BY <1>1 DEF OutcomeInv
  <2>2. \A m \in Messages : snap[p][m].attempts > 0 <=> InRest(p, m) \/ m \in batch[p]
    BY <2>1 DEF MessageInv
  <2>3. batch[p] \subseteq Messages /\ \A i \in DOMAIN rest[p] : rest[p][i] \subseteq Messages
    BY <1>1 DEF LocalTypeOK
  <2>4. \A m : InRest(p, m) <=> m \in UNION {rest[p][i] : i \in DOMAIN rest[p]}
    BY DEF InRest
  <2>5. QED
    BY <2>1, <2>2, <2>3, <2>4 DEF MessageInv, Disjoint
<1>2. QED
  BY <1>1, OutcomeInvariant, PTL

-----------------------------------------------------------------------------
(* Patches, when every scan queues the media again with the message *)

Reconciling ==
    SoleRecoverer /\ Scans \subseteq {"reconcile"} /\ ManualScans \subseteq {"reconcile"}

\* A row that says an element is complete and has no hash of it.
Bare(row, e) == row.payload[e].archive = "complete" /\ ~row.payload[e].asset

Whole(row) == \A e \in Elements : ~Bare(row, e)

ToSend(p, m) == InRest(p, m) \/ (pc[p] = "sending" /\ m \in batch[p])

RowsInv ==
    /\ PatchNotLost
    /\ \A m \in Messages : msgs[m].status = "completed" => Whole(msgs[m])

\* A row that is still inflight when its outcome is written was not replaced: a
\* confirmed file is in the message it was patched into, an accepted message is
\* the valid one that was sent.
PatchInv(p) ==
    /\ \A s, t \in current[p] : s = t
    /\ pc[p] = "confirming" =>
          \A s \in current[p] :
              s[3] = "asset" /\ media[s].status = "inflight" => ~Bare(msgs[s[1]], s[2])
    /\ pc[p] # "incremental"
    /\ pc[p] \notin {"sending", "settling"} => rest[p] = <<>>
    /\ pc[p] # "settling" => \A m \in Messages : verdict[p][m] = "waiting"
    /\ \A m \in Messages : verdict[p][m] # "waiting" => m \in batch[p]
    /\ \A m \in Messages :
          msgs[m].status = "inflight" =>
             /\ ToSend(p, m) => msgs[m].payload = snap[p][m].payload
             /\ verdict[p][m] = "accepted" => Whole(msgs[m])

\* Steps that bring no row in flight, complete none, and change no payload.
RowsQuiet ==
    /\ \A m \in Messages :
          /\ msgs'[m].payload = msgs[m].payload
          /\ msgs[m].status = "absent" => msgs'[m].status = "absent"
          /\ msgs'[m].status \in {"inflight", "completed"} => msgs[m].status = msgs'[m].status
    /\ \A s \in Slots :
          media'[s].status \in {"absent", "inflight", "completed"} =>
             media[s].status = media'[s].status

LEMMA QuietRows ==
    ASSUME RowsInv, RowsQuiet
    PROVE  RowsInv'
<1>1. PatchNotLost'
  <2> SUFFICES ASSUME NEW m \in Messages, NEW e \in Elements, msgs'[m].status # "absent",
                      Bare(msgs'[m], e)
               PROVE  media'[<<m, e, "asset">>].status \notin {"absent", "completed"}
    BY DEF PatchNotLost, Bare
  <2>1. msgs[m].status # "absent" /\ Bare(msgs[m], e)
    BY DEF RowsQuiet, Bare
  <2>2. media[<<m, e, "asset">>].status \notin {"absent", "completed"}
    BY <2>1 DEF RowsInv, PatchNotLost, Bare
  <2>3. <<m, e, "asset">> \in Slots
    BY DEF Slots, Roles
  <2>4. QED
    BY <2>2, <2>3 DEF RowsQuiet
<1>2. ASSUME NEW m \in Messages, msgs'[m].status = "completed" PROVE Whole(msgs'[m])
  BY <1>2 DEF RowsInv, RowsQuiet, Whole, Bare
<1>3. QED
  BY <1>1, <1>2 DEF RowsInv

LEMMA QuietLocals ==
    ASSUME TypeOK, RowsQuiet, NEW p \in Procs, PatchInv(p), pc'[p] = pc[p], current'[p] = current[p],
           snap'[p] = snap[p], batch'[p] = batch[p], rest'[p] = rest[p],
           verdict'[p] = verdict[p]
    PROVE  PatchInv(p)'
<1>1. \A m \in Messages : Whole(msgs'[m]) <=> Whole(msgs[m])
  BY DEF RowsQuiet, Whole, Bare
<1>2. ASSUME NEW s \in current[p], s[3] = "asset", media'[s].status = "inflight",
             pc[p] = "confirming"
      PROVE  ~Bare(msgs'[s[1]], s[2])
  <2>1. s \in Slots /\ s[1] \in Messages
    BY SlotParts DEF TypeOK
  <2>2. QED
    BY <1>2, <2>1 DEF PatchInv, RowsQuiet, Bare
<1>3. \A m \in Messages : ToSend(p, m)' <=> ToSend(p, m)
  BY DEF ToSend, InRest
<1>4. ASSUME NEW m \in Messages, msgs'[m].status = "inflight"
      PROVE  /\ ToSend(p, m)' => msgs'[m].payload = snap'[p][m].payload
             /\ verdict'[p][m] = "accepted" => Whole(msgs'[m])
  BY <1>1, <1>3, <1>4 DEF PatchInv, RowsQuiet
<1>5. QED
  BY <1>2, <1>4 DEF PatchInv

\* A process outside a run is not concerned by what happens to the rows.
LEMMA OutsideRun ==
    ASSUME NEW p \in Procs, PatchInv(p), pc'[p] \in {"down", "idle"}, ~InRun(p),
           current'[p] = current[p], rest'[p] = rest[p], verdict'[p] = verdict[p]
    PROVE  PatchInv(p)'
<1>1. pc[p] \in {"down", "idle"}
  BY DEF InRun
<1>2. rest'[p] = <<>> /\ \A m \in Messages : verdict'[p][m] = "waiting"
  BY <1>1 DEF PatchInv
<1>3. \A m \in Messages : ~ToSend(p, m)'
  BY <1>2 DEF ToSend, InRest
<1>4. QED
  BY <1>2, <1>3 DEF PatchInv

LocalsKept(p) ==
    \A q \in Procs : q # p =>
        /\ pc'[q] = pc[q] /\ current'[q] = current[q] /\ snap'[q] = snap[q]
        /\ batch'[q] = batch[q] /\ rest'[q] = rest[q] /\ verdict'[q] = verdict[q]

ReconcileInv == GateInv /\ RowsInv /\ \A p \in Procs : PatchInv(p)

\* One run at a time: a step of the process inside it need only keep its own part.
LEMMA RunStep ==
    ASSUME ReconcileInv, NEW p \in Procs, InRun(p), LocalsKept(p), PatchInv(p)'
    PROVE  \A q \in Procs : PatchInv(q)'
<1> SUFFICES ASSUME NEW q \in Procs, q # p PROVE PatchInv(q)'
  OBVIOUS
<1>1. ~InRun(q) /\ PatchInv(q)
  BY DEF ReconcileInv, GateInv
<1>2. pc'[q] \in {"down", "idle"}
  BY <1>1 DEF InRun, LocalsKept
<1>3. QED
  BY <1>1, <1>2, OutsideRun DEF LocalsKept

\* Steps that leave the rows alone and nothing in flight.
LEMMA FreshPhase ==
    ASSUME NEW p \in Procs, pc'[p] \notin {"incremental", "confirming", "sending", "settling"},
           \A s, t \in current'[p] : s = t,
           rest'[p] = <<>>, \A m \in Messages : verdict'[p][m] = "waiting"
    PROVE  PatchInv(p)'
<1>1. \A m \in Messages : ~ToSend(p, m)'
  BY DEF ToSend, InRest
<1>2. QED
  BY <1>1 DEF PatchInv

LEMMA ForgetPatch ==
    ASSUME TypeOK, ReconcileInv, NEW p \in Procs, NEW label \in {"down", "finishing"},
           Goto(p, label), Forget(p), UNCHANGED tables
    PROVE  RowsInv' /\ \A q \in Procs : PatchInv(q)'
<1>1. RowsQuiet
  BY DEF RowsQuiet, tables
<1>2. PatchInv(p)'
  <2>1. /\ pc'[p] = label /\ current'[p] = {} /\ rest'[p] = <<>>
        /\ verdict'[p] = [m \in Messages |-> "waiting"]
    BY DEF Goto, Forget, TypeOK
  <2>2. QED
    BY <2>1, FreshPhase
<1>3. ASSUME NEW q \in Procs, q # p PROVE PatchInv(q)'
  <2>1. PatchInv(q)
    BY DEF ReconcileInv
  <2>2. /\ pc'[q] = pc[q] /\ current'[q] = current[q] /\ snap'[q] = snap[q]
        /\ batch'[q] = batch[q] /\ rest'[q] = rest[q] /\ verdict'[q] = verdict[q]
    BY <1>3 DEF Goto, Forget, TypeOK
  <2>3. QED
    BY <1>1, <2>1, <2>2, QuietLocals
<1>4. QED
  BY <1>1, <1>2, <1>3, QuietRows DEF ReconcileInv

LEMMA RunKeepsPatches ==
    ASSUME Reconciling, TypeOK, ReconcileInv, NEW p \in Procs,
           \/ Start(p) \/ Crash(p) \/ StartRun(p) \/ SourceUnavailable(p) \/ FinishRun(p)
           \/ \E s \in Slots : MediaLeaseLost(p, s)
           \/ PatchRaises(p) \/ ConfirmRaises(p)
           \/ \E m \in Messages : SettleRaises(p, m)
    PROVE  RowsInv' /\ \A q \in Procs : PatchInv(q)'
<1>1. CASE Start(p) \/ StartRun(p) \/ SourceUnavailable(p) \/ FinishRun(p)
  <2>1. UNCHANGED <<msgs, media, current, snap, batch, rest, verdict>>
    BY <1>1 DEF Start, StartRun, SourceUnavailable, FinishRun, tables, mediaLocals, messageLocals
  <2>2. /\ pc[p] \in {"down", "idle", "incremental", "reconcile", "finishing"}
        /\ pc'[p] \in {"idle", "reconcile", "finishing"}
    BY <1>1 DEF Start, StartRun, SourceUnavailable, FinishRun, Goto, TypeOK, Reconciling
  <2>3. \A q \in Procs : q # p => pc'[q] = pc[q]
    BY <1>1 DEF Start, StartRun, SourceUnavailable, FinishRun, Goto, TypeOK
  <2>4. RowsQuiet
    BY <2>1 DEF RowsQuiet
  <2>5. PatchInv(p)'
    <3>1. PatchInv(p)
      BY DEF ReconcileInv
    <3>2. QED
      BY <2>1, <2>2, <3>1, FreshPhase DEF PatchInv
  <2>6. ASSUME NEW q \in Procs, q # p PROVE PatchInv(q)'
    BY <2>1, <2>3, <2>4, <2>6, QuietLocals DEF ReconcileInv
  <2>7. QED
    BY <2>4, <2>5, <2>6, QuietRows DEF ReconcileInv
<1>2. CASE Crash(p)
  BY <1>2, ForgetPatch DEF Crash
<1>3. CASE \/ \E s \in Slots : MediaLeaseLost(p, s)
           \/ PatchRaises(p) \/ ConfirmRaises(p)
           \/ \E m \in Messages : SettleRaises(p, m)
  <2>1. Raise(p)
    BY <1>3 DEF MediaLeaseLost, PatchRaises, ConfirmRaises, SettleRaises
  <2>2. QED
    BY <2>1, ForgetPatch DEF Raise
<1>4. QED
  BY <1>1, <1>2, <1>3

\* A reconcile scan takes every message of its page out of flight, and every
\* picture of it that is on disk is queued again.
LEMMA ForcedPage ==
    ASSUME QueueTypeOK, NEW page \in SUBSET Messages, NEW views, EnqueuePage(page, views, TRUE)
    PROVE  /\ \A m \in page : msgs'[m].status = "pending"
           /\ \A m \in Messages \ page : msgs'[m] = msgs[m]
           /\ \A m \in page, e \in Elements :
                 Bare(msgs'[m], e) => media'[<<m, e, "asset">>].status = "pending"
           /\ \A s \in Slots :
                 /\ s[1] \notin page => media'[s] = media[s]
                 /\ media'[s].status # "pending" => media'[s] = media[s]
<1>1. ASSUME NEW m \in page
      PROVE  /\ msgs'[m].status = "pending"
             /\ msgs'[m].payload = [e \in Elements |-> PartOf(views[m][e])]
  <2> DEFINE payload == [e \in Elements |-> PartOf(views[m][e])]
  <2>1. msgs'[m] = UpsertedMessage(msgs[m], payload, TRUE)
    BY DEF EnqueuePage, ScannedMessages
  <2>2. msgs[m] \in MessageRows
    BY DEF QueueTypeOK
  <2> HIDE DEF payload
  <2>3. QED
    <3>1. UpsertedMessage(msgs[m], payload, TRUE).status = "pending"
          /\ UpsertedMessage(msgs[m], payload, TRUE).payload = payload
      BY <2>2 DEF UpsertedMessage, AbsentMessage, MessageRows
    <3>2. QED
      BY <2>1, <3>1 DEF payload
<1>2. \A m \in Messages \ page : msgs'[m] = msgs[m]
  BY DEF EnqueuePage, ScannedMessages
<1>3. ASSUME NEW m \in page, NEW e \in Elements, Bare(msgs'[m], e)
      PROVE  media'[<<m, e, "asset">>].status = "pending"
  <2>1. PartOf(views[m][e]).archive = "complete"
    BY <1>1, <1>3 DEF Bare
  <2>2. views[m][e] = "full"
    BY <2>1 DEF PartOf, NewPart
  <2>3. <<m, e, "asset">> \in Slots
    BY DEF Slots, Roles
  <2>4. media'[<<m, e, "asset">>] = UpsertedMedia(media[<<m, e, "asset">>], TRUE)
    BY <2>2, <2>3 DEF EnqueuePage, ScannedMedia, Queues
  <2>5. media[<<m, e, "asset">>] \in MediaRows
    BY <2>3 DEF QueueTypeOK
  <2>6. QED
    BY <2>4, <2>5 DEF UpsertedMedia, AbsentMedia, MediaRows
<1>4. ASSUME NEW s \in Slots
      PROVE  /\ s[1] \notin page => media'[s] = media[s]
             /\ media'[s].status # "pending" => media'[s] = media[s]
  <2>1. media[s] \in MediaRows
    BY DEF QueueTypeOK
  <2>2. \/ media'[s] = media[s]
        \/ s[1] \in page /\ \E force \in BOOLEAN : media'[s] = UpsertedMedia(media[s], force)
    BY DEF EnqueuePage, ScannedMedia
  <2>3. \A force \in BOOLEAN :
           UpsertedMedia(media[s], force) # media[s] =>
              UpsertedMedia(media[s], force).status = "pending"
    BY <2>1 DEF UpsertedMedia, AbsentMedia, MediaRows
  <2>4. QED
    BY <2>2, <2>3
<1>5. QED
  BY <1>1, <1>2, <1>3, <1>4

LEMMA ScanKeepsPatches ==
    ASSUME TypeOK, ReconcileInv, NEW page \in SUBSET Messages, NEW views,
           EnqueuePage(page, views, TRUE), UNCHANGED <<pc, current, snap, batch, rest, verdict>>
    PROVE  RowsInv' /\ \A p \in Procs : PatchInv(p)'
<1>0. /\ \A m \in page : msgs'[m].status = "pending"
      /\ \A m \in Messages \ page : msgs'[m] = msgs[m]
      /\ \A m \in page, e \in Elements :
            Bare(msgs'[m], e) => media'[<<m, e, "asset">>].status = "pending"
      /\ \A s \in Slots :
            /\ s[1] \notin page => media'[s] = media[s]
            /\ media'[s].status \in {"absent", "inflight", "completed"} =>
                  media'[s] = media[s]
  BY ForcedPage, TypeParts
<1>1. PatchNotLost'
  <2> SUFFICES ASSUME NEW m \in Messages, NEW e \in Elements, msgs'[m].status # "absent",
                      Bare(msgs'[m], e)
               PROVE  media'[<<m, e, "asset">>].status \notin {"absent", "completed"}
    BY DEF PatchNotLost, Bare
  <2>1. CASE m \in page
    BY <1>0, <2>1
  <2>2. CASE m \notin page
    <3>1. <<m, e, "asset">> \in Slots
      BY DEF Slots, Roles
    <3>2. msgs'[m] = msgs[m] /\ media'[<<m, e, "asset">>] = media[<<m, e, "asset">>]
      BY <1>0, <2>2, <3>1
    <3>3. QED
      BY <3>2 DEF ReconcileInv, RowsInv, PatchNotLost, Bare
  <2>3. QED
    BY <2>1, <2>2
<1>2. ASSUME NEW m \in Messages, msgs'[m].status \in {"inflight", "completed"}
      PROVE  msgs'[m] = msgs[m]
  BY <1>0, <1>2
<1>3. RowsInv'
  BY <1>1, <1>2 DEF ReconcileInv, RowsInv
<1>4. ASSUME NEW p \in Procs PROVE PatchInv(p)'
  <2>0. PatchInv(p)
    BY DEF ReconcileInv
  <2>1. ASSUME NEW s \in current[p], s[3] = "asset", media'[s].status = "inflight",
               pc[p] = "confirming"
        PROVE  ~Bare(msgs'[s[1]], s[2])
    <3>1. s \in Slots /\ s = <<s[1], s[2], s[3]>> /\ s[1] \in Messages /\ s[2] \in Elements
      BY DEF TypeOK, Slots
    <3>2. media[s].status = "inflight"
      BY <1>0, <2>1, <3>1
    <3>3. CASE s[1] \in page
      <4>1. media'[<<s[1], s[2], "asset">>].status = "inflight"
        BY <2>1, <3>1
      <4>2. QED
        BY <1>0, <3>1, <3>3, <4>1
    <3>4. CASE s[1] \notin page
      BY <1>0, <2>0, <2>1, <3>1, <3>2, <3>4 DEF PatchInv
    <3>5. QED
      BY <3>3, <3>4
  <2>2. \A m \in Messages : ToSend(p, m)' <=> ToSend(p, m)
    BY DEF ToSend, InRest
  <2>3. ASSUME NEW m \in Messages, msgs'[m].status = "inflight"
        PROVE  /\ ToSend(p, m)' => msgs'[m].payload = snap'[p][m].payload
               /\ verdict'[p][m] = "accepted" => Whole(msgs'[m])
    <3>1. msgs'[m] = msgs[m]
      BY <1>2, <2>3
    <3>2. QED
      BY <2>0, <2>2, <2>3, <3>1 DEF PatchInv
  <2>4. QED
    BY <2>0, <2>1, <2>3 DEF PatchInv
<1>5. QED
  BY <1>3, <1>4

\* Nothing becomes absent or completed, but for a message sent whole.
SettledKept ==
    /\ \A m \in Messages :
          /\ msgs'[m].payload = msgs[m].payload
          /\ msgs[m].status = "absent" => msgs'[m].status = "absent"
          /\ msgs'[m].status = "completed" => msgs[m].status = "completed" \/ Whole(msgs[m])
    /\ \A s \in Slots :
          media'[s].status \in {"absent", "completed"} => media[s].status = media'[s].status

LEMMA SettledRows ==
    ASSUME RowsInv, SettledKept
    PROVE  RowsInv'
<1>1. PatchNotLost'
  <2> SUFFICES ASSUME NEW m \in Messages, NEW e \in Elements, msgs'[m].status # "absent",
                      Bare(msgs'[m], e)
               PROVE  media'[<<m, e, "asset">>].status \notin {"absent", "completed"}
    BY DEF PatchNotLost, Bare
  <2>1. msgs[m].status # "absent" /\ Bare(msgs[m], e)
    BY DEF SettledKept, Bare
  <2>2. media[<<m, e, "asset">>].status \notin {"absent", "completed"}
    BY <2>1 DEF RowsInv, PatchNotLost, Bare
  <2>3. <<m, e, "asset">> \in Slots
    BY DEF Slots, Roles
  <2>4. QED
    BY <2>2, <2>3 DEF SettledKept
<1>2. ASSUME NEW m \in Messages, msgs'[m].status = "completed" PROVE Whole(msgs'[m])
  <2>1. Whole(msgs[m])
    BY <1>2 DEF RowsInv, SettledKept
  <2>2. QED
    BY <2>1 DEF SettledKept, Whole, Bare
<1>3. QED
  BY <1>1, <1>2 DEF RowsInv

LEMMA LeaseMediaKeepsPatches ==
    ASSUME TypeOK, ReconcileInv, NEW p \in Procs, LeaseMedia(p)
    PROVE  RowsInv' /\ \A q \in Procs : PatchInv(q)'
<1>1. PICK picked \in SUBSET Slots : LeaseMediaRows(picked)
  BY DEF LeaseMedia
<1>2. SettledKept
  <2>1. ASSUME NEW s \in Slots, media'[s].status \in {"absent", "completed"}
        PROVE  media[s].status = media'[s].status
    <3>1. /\ media[s] \in MediaRows
          /\ media'[s] = Leased(Reclaimed(media[s])) \/ media'[s] = Reclaimed(media[s])
      BY <1>1 DEF LeaseMediaRows, TypeOK
    <3>2. QED
      BY <2>1, <3>1 DEF Leased, Reclaimed, MediaRows
  <2>2. msgs' = msgs
    BY <1>1 DEF LeaseMediaRows
  <2>3. QED
    BY <2>1, <2>2 DEF SettledKept
<1>3. /\ pc[p] \in {"incremental", "reconcile"} /\ pc' = [pc EXCEPT ![p] = "media"]
      /\ UNCHANGED <<current, snap, batch, rest, verdict>>
  BY DEF LeaseMedia, Goto, messageLocals
<1>4. PatchInv(p)'
  <2>1. PatchInv(p) /\ pc'[p] = "media"
    BY <1>3 DEF ReconcileInv, TypeOK
  <2>2. /\ \A s, t \in current'[p] : s = t
        /\ rest'[p] = <<>> /\ \A m \in Messages : verdict'[p][m] = "waiting"
    BY <1>3, <2>1 DEF PatchInv
  <2>3. QED
    BY <2>1, <2>2, FreshPhase
<1>5. QED
  BY <1>2, <1>3, <1>4, SettledRows, RunStep DEF ReconcileInv, InRun, LocalsKept, TypeOK

LEMMA MediaKeepsPatches ==
    ASSUME TypeOK, ReconcileInv, NEW p \in Procs, NEW s \in Slots,
           UploadMedia(p, s) \/ MediaFaulted(p, s)
    PROVE  RowsInv' /\ \A q \in Procs : PatchInv(q)'
<1> USE DEF mediaLocals, messageLocals
<1>1. CASE UploadMedia(p, s)
  <2>1. /\ pc[p] = "media" /\ pc' = [pc EXCEPT ![p] = "patching"]
        /\ current' = [current EXCEPT ![p] = {s}]
        /\ UNCHANGED <<msgs, media, snap, batch, rest, verdict>>
    BY <1>1 DEF UploadMedia, Goto, tables
  <2>2. RowsInv'
    BY <2>1, SettledRows DEF ReconcileInv, SettledKept
  <2>3. PatchInv(p)'
    <3>1. PatchInv(p) /\ pc'[p] = "patching" /\ current'[p] = {s}
      BY <2>1 DEF ReconcileInv, TypeOK
    <3>2. rest'[p] = <<>> /\ \A m \in Messages : verdict'[p][m] = "waiting"
      BY <2>1, <3>1 DEF PatchInv
    <3>3. QED
      BY <3>1, <3>2, FreshPhase
  <2>4. QED
    BY <2>1, <2>2, <2>3, RunStep DEF InRun, LocalsKept, TypeOK
<1>2. CASE MediaFaulted(p, s)
  <2>1. PICK fault \in {"unavailable", "refused"} :
           DeferMedia(s, mediaLease[p][s], IF fault = "unavailable" THEN MaxAttempts ELSE 1)
    BY <1>2 DEF MediaFaulted
  <2>2. RowsQuiet
    <3>1. media[s] \in MediaRows /\ \A t \in Slots \ {s} : media'[t] = media[t]
      BY <2>1 DEF DeferMedia, TypeOK
    <3>2. media'[s].status \in {"dead_letter", "retry"}
      BY <2>1, <3>1 DEF DeferMedia, Deferred, MediaRows, TypeOK
    <3>3. QED
      BY <2>1, <3>1, <3>2 DEF DeferMedia, RowsQuiet
  <2>3. UNCHANGED <<pc, current, snap, batch, rest, verdict>>
    BY <1>2 DEF MediaFaulted
  <2>4. QED
    BY <2>2, <2>3, QuietRows, QuietLocals DEF ReconcileInv
<1>3. QED
  BY <1>1, <1>2

\* What the patch does to the reference it is about, and to every other.
LEMMA PatchedRow ==
    ASSUME TypeOK, NEW s \in Slots, PatchMessage(s)
    PROVE  LET m == s[1] IN
           /\ \A n \in Messages \ {m} : msgs'[n] = msgs[n]
           /\ msgs[m].status # "absent"
           /\ msgs'[m].status = "completed" => msgs'[m] = msgs[m]
           /\ \A e \in Elements : Bare(msgs'[m], e) => Bare(msgs[m], e)
           /\ s[3] = "asset" /\ msgs[m].status # "completed" => ~Bare(msgs'[m], s[2])
<1>1. s[1] \in Messages /\ s[2] \in Elements /\ s[3] \in Roles /\ msgs[s[1]] \in MessageRows
  BY SlotParts DEF TypeOK
<1>2. /\ msgs'[s[1]] = PatchedMessage(msgs[s[1]], s) /\ msgs[s[1]].status # "absent"
      /\ \A n \in Messages \ {s[1]} : msgs'[n] = msgs[n]
  BY <1>1 DEF PatchMessage, TypeOK
<1>3. CASE msgs[s[1]].status = "completed"
  BY <1>2, <1>3 DEF PatchedMessage
<1>4. CASE msgs[s[1]].status # "completed"
  <2>1. /\ msgs'[s[1]].payload = PatchedPayload(msgs[s[1]].payload, s)
        /\ msgs'[s[1]].status # "completed"
    BY <1>1, <1>2, <1>4 DEF PatchedMessage, Requeued, MessageRows
  <2>2. msgs[s[1]].payload \in [Elements -> Parts]
    BY <1>1 DEF MessageRows, Payloads
  <2>3. msgs'[s[1]].payload[s[2]] = PatchedPart(msgs[s[1]].payload[s[2]], s[3])
    BY <1>1, <2>1, <2>2 DEF PatchedPayload
  <2>4. \A e \in Elements \ {s[2]} : msgs'[s[1]].payload[e] = msgs[s[1]].payload[e]
    BY <1>1, <2>1, <2>2 DEF PatchedPayload
  <2>5. msgs[s[1]].payload[s[2]] \in Parts
    BY <1>1, <2>2
  <2>6. /\ s[3] = "asset" => ~Bare(msgs'[s[1]], s[2])
        /\ Bare(msgs'[s[1]], s[2]) => Bare(msgs[s[1]], s[2])
    BY <1>1, <2>3, <2>5 DEF Bare, PatchedPart, Parts, Roles
  <2>7. \A e \in Elements : Bare(msgs'[s[1]], e) => Bare(msgs[s[1]], e)
    BY <2>4, <2>6 DEF Bare
  <2>8. QED
    BY <1>2, <2>1, <2>6, <2>7
<1>5. QED
  BY <1>3, <1>4

LEMMA PatchKeepsPatches ==
    ASSUME TypeOK, ReconcileInv, NEW p \in Procs, PatchMedia(p)
    PROVE  RowsInv' /\ \A q \in Procs : PatchInv(q)'
<1> USE DEF mediaLocals, messageLocals
<1>1. PICK s \in current[p] : PatchMessage(s)
  BY DEF PatchMedia
<1>2. s \in Slots /\ s[1] \in Messages /\ PatchInv(p)
  BY SlotParts DEF TypeOK, ReconcileInv
<1>3. /\ pc[p] = "patching" /\ pc' = [pc EXCEPT ![p] = "confirming"]
      /\ UNCHANGED <<media, current, snap, batch, rest, verdict>>
  BY <1>1 DEF PatchMedia, PatchMessage, Goto
<1>4. /\ \A n \in Messages \ {s[1]} : msgs'[n] = msgs[n]
      /\ msgs[s[1]].status # "absent"
      /\ msgs'[s[1]].status = "completed" => msgs'[s[1]] = msgs[s[1]]
      /\ \A e \in Elements : Bare(msgs'[s[1]], e) => Bare(msgs[s[1]], e)
      /\ s[3] = "asset" /\ msgs[s[1]].status # "completed" => ~Bare(msgs'[s[1]], s[2])
  BY <1>1, <1>2, PatchedRow
<1>5. PatchNotLost'
  <2> SUFFICES ASSUME NEW m \in Messages, NEW e \in Elements, msgs'[m].status # "absent",
                      Bare(msgs'[m], e)
               PROVE  media'[<<m, e, "asset">>].status \notin {"absent", "completed"}
    BY DEF PatchNotLost, Bare
  <2>1. msgs[m].status # "absent" /\ Bare(msgs[m], e)
    BY <1>4
  <2>2. QED
    BY <1>3, <2>1 DEF ReconcileInv, RowsInv, PatchNotLost, Bare
<1>6. ASSUME NEW m \in Messages, msgs'[m].status = "completed" PROVE Whole(msgs'[m])
  <2>1. msgs'[m] = msgs[m]
    BY <1>4, <1>6
  <2>2. QED
    BY <1>6, <2>1 DEF ReconcileInv, RowsInv
<1>7. PatchInv(p)'
  <2>1. pc'[p] = "confirming" /\ rest'[p] = <<>> /\ \A m \in Messages : verdict'[p][m] = "waiting"
    BY <1>2, <1>3 DEF PatchInv, TypeOK
  <2>2. \A t \in current'[p] : t = s
    BY <1>1, <1>2, <1>3 DEF PatchInv
  <2>3. s[3] = "asset" => ~Bare(msgs'[s[1]], s[2])
    <3>1. CASE msgs[s[1]].status = "completed"
      <4>1. s[2] \in Elements /\ Whole(msgs[s[1]])
        BY <1>2, <3>1, SlotParts DEF ReconcileInv, RowsInv
      <4>2. QED
        BY <1>4, <4>1 DEF Whole
    <3>2. QED
      BY <1>4, <3>1
  <2>4. \A m \in Messages : ~ToSend(p, m)'
    BY <2>1 DEF ToSend, InRest
  <2>5. QED
    BY <2>1, <2>2, <2>3, <2>4 DEF PatchInv
<1>8. QED
  BY <1>3, <1>5, <1>6, <1>7, RunStep DEF RowsInv, InRun, LocalsKept, TypeOK

LEMMA ConfirmKeepsPatches ==
    ASSUME TypeOK, ReconcileInv, NEW p \in Procs, ConfirmMedia(p)
    PROVE  RowsInv' /\ \A q \in Procs : PatchInv(q)'
<1>1. PICK s \in current[p] : CompleteMedia(s)
  BY DEF ConfirmMedia
<1>2. s \in Slots /\ PatchInv(p)
  BY DEF TypeOK, ReconcileInv
<1>3. /\ pc[p] = "confirming" /\ pc' = [pc EXCEPT ![p] = "media"]
      /\ current' = [current EXCEPT ![p] = {}]
      /\ UNCHANGED <<msgs, snap, batch, rest, verdict>>
  BY <1>1 DEF ConfirmMedia, CompleteMedia, Goto, messageLocals
<1>4. /\ media[s].status = "inflight"
      /\ \A t \in Slots \ {s} : media'[t] = media[t]
  BY <1>1 DEF CompleteMedia, TypeOK
<1>5. PatchNotLost'
  <2> SUFFICES ASSUME NEW m \in Messages, NEW e \in Elements, msgs[m].status # "absent",
                      Bare(msgs[m], e)
               PROVE  media'[<<m, e, "asset">>].status \notin {"absent", "completed"}
    BY <1>3 DEF PatchNotLost, Bare
  <2>1. <<m, e, "asset">> \in Slots
    BY DEF Slots, Roles
  <2>2. <<m, e, "asset">> # s
    BY <1>2, <1>3, <1>4 DEF PatchInv
  <2>3. QED
    BY <1>4, <2>1, <2>2 DEF ReconcileInv, RowsInv, PatchNotLost, Bare
<1>6. RowsInv'
  BY <1>3, <1>5 DEF ReconcileInv, RowsInv, Whole, Bare
<1>7. PatchInv(p)'
  BY <1>2, <1>3, FreshPhase DEF PatchInv, TypeOK
<1>8. QED
  BY <1>3, <1>6, <1>7, RunStep DEF InRun, LocalsKept, TypeOK

LEMMA LeaseMessagesKeepsPatches ==
    ASSUME TypeOK, ReconcileInv, NEW p \in Procs, LeaseMessages(p)
    PROVE  RowsInv' /\ \A q \in Procs : PatchInv(q)'
<1> USE DEF mediaLocals
<1>1. PICK picked \in SUBSET Messages :
         /\ LeaseMessageRows(picked)
         /\ snap' = [snap EXCEPT ![p] =
               [m \in Messages |->
                   IF m \in picked
                   THEN [attempts |-> msgs'[m].attempts, payload |-> msgs'[m].payload]
                   ELSE NotLeased]]
         /\ batch' = [batch EXCEPT ![p] = picked]
         /\ Goto(p, IF picked = {} THEN "finishing" ELSE "sending")
  BY DEF LeaseMessages
<1>2. pc[p] = "media" /\ UNCHANGED <<media, current, rest, verdict>> /\ PatchInv(p)
  BY <1>1 DEF LeaseMessages, LeaseMessageRows, ReconcileInv
<1>3. SettledKept
  <2>1. ASSUME NEW m \in Messages
        PROVE  /\ msgs'[m].payload = msgs[m].payload
               /\ msgs'[m].status \in {"absent", "completed"} <=>
                     msgs[m].status \in {"absent", "completed"}
               /\ msgs'[m].status = "completed" <=> msgs[m].status = "completed"
    <3>1. /\ msgs[m] \in MessageRows
          /\ \/ msgs'[m] = Reclaimed(msgs[m])
             \/ msgs'[m] = Leased(Reclaimed(msgs[m])) /\ Leasable(Reclaimed(msgs[m]))
      BY <1>1 DEF LeaseMessageRows, Picks, TypeOK
    <3>2. QED
      BY <3>1 DEF Leased, Reclaimed, Leasable, MessageRows
  <2>2. QED
    BY <1>2, <2>1 DEF SettledKept
<1>4. PatchInv(p)'
  <2>1. /\ pc'[p] \in {"finishing", "sending"} /\ batch'[p] = picked
        /\ rest'[p] = <<>> /\ \A m \in Messages : verdict'[p][m] = "waiting"
    BY <1>1, <1>2 DEF Goto, PatchInv, TypeOK
  <2>2. \A m \in picked : msgs'[m].payload = snap'[p][m].payload
    <3> TAKE m \in picked
    <3>1. snap'[p][m] = [attempts |-> msgs'[m].attempts, payload |-> msgs'[m].payload]
      BY <1>1 DEF TypeOK
    <3>2. QED
      BY <3>1
  <2>3. \A m \in Messages : ToSend(p, m)' => m \in picked
    BY <2>1 DEF ToSend, InRest
  <2>4. \A s, t \in current'[p] : s = t
    BY <1>2 DEF PatchInv
  <2>5. QED
    BY <2>1, <2>2, <2>3, <2>4 DEF PatchInv
<1>5. LocalsKept(p)
  BY <1>1, <1>2 DEF LocalsKept, Goto, TypeOK
<1>6. QED
  BY <1>2, <1>3, <1>4, <1>5, SettledRows, RunStep DEF ReconcileInv, InRun

\* An accepted message is one the server would not have rejected: whole.
LEMMA ValidIsWhole ==
    ASSUME NEW row, ValidPayload(row.payload)
    PROVE  Whole(row)
BY DEF ValidPayload, ValidPart, Whole, Bare

LEMMA JudgedKeepsPatches ==
    ASSUME TypeOK, ReconcileInv, NEW p \in Procs, pc[p] = "sending",
           NEW accepted, accepted # {} => BatchValid(p),
           NEW other \in {"deferred", "rejected"},
           Judge(p, accepted, other), Goto(p, "settling"),
           UNCHANGED <<tables, mediaLocals, snap, batch, rest>>
    PROVE  RowsInv' /\ \A q \in Procs : PatchInv(q)'
<1> USE DEF mediaLocals, tables
<1>1. /\ pc'[p] = "settling" /\ PatchInv(p)
      /\ UNCHANGED <<msgs, media, current, snap, batch, rest>>
  BY DEF Goto, ReconcileInv, TypeOK
<1>2. \A m \in Messages :
         verdict'[p][m] = IF m \in batch[p]
                          THEN IF m \in accepted THEN "accepted" ELSE other
                          ELSE "waiting"
  BY DEF Judge, TypeOK
<1>3. RowsInv'
  BY <1>1, SettledRows DEF ReconcileInv, SettledKept
<1>4. PatchInv(p)'
  <2>1. \A m \in Messages : ToSend(p, m)' => ToSend(p, m)
    BY <1>1 DEF ToSend, InRest
  <2>2. ASSUME NEW m \in Messages, msgs[m].status = "inflight", verdict'[p][m] = "accepted"
        PROVE  Whole(msgs[m])
    <3>1. m \in batch[p] /\ m \in accepted
      BY <1>2, <2>2
    <3>2. ToSend(p, m) /\ ValidPayload(snap[p][m].payload)
      BY <3>1 DEF ToSend, BatchValid
    <3>3. msgs[m].payload = snap[p][m].payload
      BY <1>1, <2>2, <3>2 DEF PatchInv
    <3>4. QED
      BY <3>2, <3>3, ValidIsWhole
  <2>3. ASSUME NEW m \in Messages, msgs'[m].status = "inflight"
        PROVE  /\ ToSend(p, m)' => msgs'[m].payload = snap'[p][m].payload
               /\ verdict'[p][m] = "accepted" => Whole(msgs'[m])
    BY <1>1, <2>1, <2>2, <2>3 DEF PatchInv
  <2>4. \A m \in Messages : verdict'[p][m] # "waiting" => m \in batch'[p]
    BY <1>1, <1>2
  <2>5. \A s, t \in current'[p] : s = t
    BY <1>1 DEF PatchInv
  <2>6. QED
    BY <1>1, <2>3, <2>4, <2>5 DEF PatchInv
<1>5. LocalsKept(p)
  BY <1>1 DEF LocalsKept, Goto, Judge, TypeOK
<1>6. QED
  BY <1>3, <1>4, <1>5, RunStep DEF InRun

LEMMA AnswerKeepsPatches ==
    ASSUME TypeOK, ReconcileInv, NEW p \in Procs,
           BatchAccepted(p) \/ BatchFaulted(p) \/ BatchRejected(p)
    PROVE  RowsInv' /\ \A q \in Procs : PatchInv(q)'
<1>1. CASE BatchAccepted(p)
  <2>1. PICK accepted \in SUBSET batch[p] : Judge(p, accepted, "deferred")
    BY <1>1 DEF BatchAccepted
  <2>2. QED
    BY <1>1, <2>1, JudgedKeepsPatches DEF BatchAccepted
<1>2. CASE BatchFaulted(p)
  <2>1. PICK other \in {"deferred", "rejected"} : Judge(p, {}, other)
    BY <1>2 DEF BatchFaulted
  <2>2. QED
    BY <1>2, <2>1, JudgedKeepsPatches DEF BatchFaulted
<1>3. CASE BatchRejected(p)
  BY <1>3, JudgedKeepsPatches DEF BatchRejected
<1>4. QED
  BY <1>1, <1>2, <1>3

\* Steps that only move messages between the batch at hand and those to come.
LEMMA Rebatched ==
    ASSUME TypeOK, ReconcileInv, NEW p \in Procs, InRun(p), LocalsKept(p),
           UNCHANGED <<msgs, media, current, snap, verdict>>,
           \/ pc'[p] \in {"sending", "settling"}
           \/ pc'[p] = "finishing" /\ rest'[p] = <<>>,
           \A m \in Messages : verdict[p][m] = "waiting",
           \A m \in Messages : ToSend(p, m)' => ToSend(p, m)
    PROVE  RowsInv' /\ \A q \in Procs : PatchInv(q)'
<1>1. RowsInv'
  BY SettledRows DEF ReconcileInv, SettledKept
<1>2. PatchInv(p)'
  <2>1. PatchInv(p)
    BY DEF ReconcileInv
  <2>2. \A m \in Messages :
           msgs'[m].status = "inflight" /\ ToSend(p, m)' => msgs'[m].payload = snap'[p][m].payload
    BY <2>1 DEF PatchInv
  <2>3. QED
    BY <2>1, <2>2 DEF PatchInv
<1>3. QED
  BY <1>1, <1>2, RunStep

\* Splitting a batch, and going on to the next, brings no message that was not to be
\* sent anyway.
LEMMA SplitSendsNoMore ==
    ASSUME TypeOK, NEW p \in Procs, BatchSplit(p)
    PROVE  \A m \in Messages : ToSend(p, m)' => ToSend(p, m)
<1>1. PICK first \in SUBSET batch[p] :
         /\ batch' = [batch EXCEPT ![p] = first]
         /\ rest' = [rest EXCEPT ![p] = <<batch[p] \ first>> \o @]
  BY DEF BatchSplit
<1>2. pc[p] = "sending" /\ pc' = pc
  BY DEF BatchSplit
<1>3. /\ batch'[p] = first /\ rest'[p] = <<batch[p] \ first>> \o rest[p]
      /\ rest[p] \in Seq(SUBSET Messages)
  BY <1>1 DEF TypeOK
<1>4. \A i \in DOMAIN rest'[p] :
         \/ rest'[p][i] = batch[p] \ first
         \/ i - 1 \in DOMAIN rest[p] /\ rest'[p][i] = rest[p][i - 1]
  BY <1>3
<1> SUFFICES ASSUME NEW m \in Messages, InRest(p, m)' \/ m \in first
             PROVE  ToSend(p, m)
  BY <1>2, <1>3 DEF ToSend
<1>5. CASE m \in first
  BY <1>2, <1>5 DEF ToSend
<1>6. CASE InRest(p, m)'
  BY <1>2, <1>4, <1>6 DEF ToSend, InRest
<1>7. QED
  BY <1>5, <1>6

LEMMA NextSendsNoMore ==
    ASSUME TypeOK, NEW p \in Procs, NextBatch(p)
    PROVE  \A m \in Messages : ToSend(p, m)' => ToSend(p, m)
<1>1. CASE rest[p] = <<>>
  <2>1. pc'[p] = "finishing" /\ rest'[p] = <<>>
    BY <1>1 DEF NextBatch, Goto, TypeOK
  <2>2. QED
    BY <2>1 DEF ToSend, InRest
<1>2. CASE rest[p] # <<>>
  <2>1. /\ pc'[p] = "sending" /\ batch'[p] = Head(rest[p]) /\ rest'[p] = Tail(rest[p])
        /\ rest[p] \in Seq(SUBSET Messages)
    BY <1>2 DEF NextBatch, Goto, TypeOK
  <2>2. /\ 1 \in DOMAIN rest[p] /\ batch'[p] = rest[p][1]
        /\ \A i \in DOMAIN rest'[p] : i + 1 \in DOMAIN rest[p] /\ rest'[p][i] = rest[p][i + 1]
    BY <1>2, <2>1
  <2>3. QED
    BY <2>2 DEF ToSend, InRest
<1>3. QED
  BY <1>1, <1>2

LEMMA SplitKeepsPatches ==
    ASSUME TypeOK, ReconcileInv, NEW p \in Procs, BatchSplit(p)
    PROVE  RowsInv' /\ \A q \in Procs : PatchInv(q)'
<1>1. pc[p] = "sending" /\ UNCHANGED <<msgs, media, pc, current, snap, verdict>>
  BY DEF BatchSplit, mediaLocals, tables
<1>2. LocalsKept(p)
  BY <1>1 DEF BatchSplit, LocalsKept, TypeOK
<1>3. \A m \in Messages : verdict[p][m] = "waiting"
  BY <1>1 DEF ReconcileInv, PatchInv
<1>4. InRun(p) /\ pc'[p] \in {"sending", "settling"}
  BY <1>1 DEF InRun
<1>5. QED
  BY <1>1, <1>2, <1>3, <1>4, SplitSendsNoMore, Rebatched

LEMMA NextBatchKeepsPatches ==
    ASSUME TypeOK, ReconcileInv, NEW p \in Procs, NextBatch(p)
    PROVE  RowsInv' /\ \A q \in Procs : PatchInv(q)'
<1>1. /\ pc[p] = "settling" /\ \A m \in batch[p] : verdict[p][m] = "waiting"
      /\ UNCHANGED <<msgs, media, current, snap, verdict>>
  BY DEF NextBatch, mediaLocals, tables
<1>2. \A m \in Messages : verdict[p][m] = "waiting"
  BY <1>1 DEF ReconcileInv, PatchInv
<1>3. LocalsKept(p) /\ InRun(p)
  BY <1>1 DEF NextBatch, Goto, LocalsKept, InRun, TypeOK
<1>4. \/ pc'[p] = "sending"
      \/ pc'[p] = "finishing" /\ rest'[p] = <<>>
  BY DEF NextBatch, Goto, TypeOK
<1>5. QED
  BY <1>1, <1>2, <1>3, <1>4, NextSendsNoMore, Rebatched

LEMMA SettleKeepsPatches ==
    ASSUME TypeOK, ReconcileInv, NEW p \in Procs, NEW m \in Messages, SettleMessage(p, m)
    PROVE  RowsInv' /\ \A q \in Procs : PatchInv(q)'
<1> USE DEF mediaLocals
<1>1. /\ pc[p] = "settling" /\ msgs[m].status = "inflight" /\ msgs[m] \in MessageRows
      /\ UNCHANGED <<media, pc, current, batch, rest>> /\ PatchInv(p)
  BY DEF SettleMessage, CompleteMessage, DeferMessage, ReconcileInv, TypeOK
<1>2. /\ snap' = [snap EXCEPT ![p][m] = NotLeased]
      /\ verdict' = [verdict EXCEPT ![p][m] = "waiting"]
  BY DEF SettleMessage
<1>3. /\ verdict'[p][m] = "waiting"
      /\ \A n \in Messages \ {m} : snap'[p][n] = snap[p][n] /\ verdict'[p][n] = verdict[p][n]
  <2>1. /\ snap'[p] = [snap[p] EXCEPT ![m] = NotLeased]
        /\ verdict'[p] = [verdict[p] EXCEPT ![m] = "waiting"]
    BY <1>2 DEF TypeOK
  <2>2. QED
    BY <2>1 DEF TypeOK
<1>4. /\ \A n \in Messages \ {m} : msgs'[n] = msgs[n]
      /\ \/ verdict[p][m] = "accepted" /\ msgs'[m] = Completed(msgs[m])
         \/ \E attempts, max : msgs'[m] = Deferred(msgs[m], attempts, max)
  BY DEF SettleMessage, CompleteMessage, DeferMessage, TypeOK
<1>5. /\ msgs'[m].payload = msgs[m].payload
      /\ msgs'[m].status \in {"completed", "dead_letter", "retry"}
      /\ msgs'[m].status = "completed" => verdict[p][m] = "accepted"
  BY <1>1, <1>4 DEF Completed, Deferred, MessageRows
<1>6. SettledKept
  BY <1>1, <1>4, <1>5 DEF SettledKept, PatchInv
<1>7. PatchInv(p)'
  <2>1. \A n \in Messages : ToSend(p, n)' <=> ToSend(p, n)
    BY <1>1 DEF ToSend, InRest
  <2>2. ASSUME NEW n \in Messages, msgs'[n].status = "inflight"
        PROVE  /\ ToSend(p, n)' => msgs'[n].payload = snap'[p][n].payload
               /\ verdict'[p][n] = "accepted" => Whole(msgs'[n])
    <3>1. n # m /\ msgs'[n] = msgs[n]
      BY <1>4, <1>5, <2>2
    <3>2. QED
      BY <1>1, <1>3, <2>1, <2>2, <3>1 DEF PatchInv
  <2>3. \A n \in Messages : verdict'[p][n] # "waiting" => n \in batch'[p]
    BY <1>1, <1>3 DEF PatchInv
  <2>4. QED
    BY <1>1, <2>2, <2>3 DEF PatchInv
<1>8. LocalsKept(p) /\ InRun(p)
  BY <1>1, <1>2 DEF LocalsKept, InRun, TypeOK
<1>9. QED
  BY <1>6, <1>7, <1>8, SettledRows, RunStep DEF ReconcileInv

LEMMA QuietStep ==
    ASSUME TypeOK, ReconcileInv, OperatorRequeues \/ Tick \/ UNCHANGED vars
    PROVE  RowsInv' /\ \A p \in Procs : PatchInv(p)'
<1>1. UNCHANGED <<pc, current, snap, batch, rest, verdict>>
  BY DEF OperatorRequeues, Tick, Others, vars, mediaLocals, messageLocals
<1>2. RowsQuiet
  <2> USE DEF RowsQuiet
  <2>1. ASSUME NEW n \in Messages, RequeueMessage(n) PROVE RowsQuiet
    <3>1. msgs[n] \in MessageRows
      BY DEF TypeOK
    <3>2. QED
      BY <2>1, <3>1 DEF RequeueMessage, Requeued, MessageRows, TypeOK
  <2>2. ASSUME NEW n \in Messages, MessageLeaseExpires(n) \/ MessageBackoffElapses(n)
        PROVE  RowsQuiet
    <3>1. msgs[n] \in MessageRows
      BY DEF TypeOK
    <3>2. /\ \A m \in Messages \ {n} : msgs'[m] = msgs[m]
          /\ \/ msgs'[n] = [msgs[n] EXCEPT !.lease = "expired"]
             \/ msgs'[n] = [msgs[n] EXCEPT !.due = TRUE]
          /\ media' = media
      BY <2>2 DEF MessageLeaseExpires, MessageBackoffElapses, TypeOK
    <3>3. msgs'[n].status = msgs[n].status /\ msgs'[n].payload = msgs[n].payload
      BY <3>1, <3>2 DEF MessageRows
    <3>4. QED
      BY <3>2, <3>3
  <2>3. ASSUME NEW s \in Slots, RequeueMedia(s) \/ MediaLeaseExpires(s) \/ MediaBackoffElapses(s)
        PROVE  RowsQuiet
    <3>1. media[s] \in MediaRows
      BY DEF TypeOK
    <3>2. /\ \A t \in Slots \ {s} : media'[t] = media[t]
          /\ \/ media'[s] = Requeued(media[s])
             \/ media'[s] = [media[s] EXCEPT !.lease = "expired"]
             \/ media'[s] = [media[s] EXCEPT !.due = TRUE]
          /\ msgs' = msgs
      BY <2>3 DEF RequeueMedia, MediaLeaseExpires, MediaBackoffElapses, TypeOK
    <3>3. media'[s].status \in {"pending", media[s].status}
      BY <3>1, <3>2 DEF Requeued, MediaRows
    <3>4. QED
      BY <3>2, <3>3
  <2>4. CASE UNCHANGED vars
    BY <2>4 DEF vars, tables
  <2>5. QED
    BY <2>1, <2>2, <2>3, <2>4 DEF OperatorRequeues, Tick, TimePasses
<1>3. QED
  BY <1>1, <1>2, QuietRows, QuietLocals DEF ReconcileInv

LEMMA PatchStep ==
    ASSUME Reconciling, TypeOK, ReconcileInv, [Next]_vars
    PROVE  RowsInv' /\ \A p \in Procs : PatchInv(p)'
<1> DEFINE Kept == RowsInv' /\ \A p \in Procs : PatchInv(p)'
<1>1. ASSUME NEW p \in Procs, ScanPage(p) PROVE Kept
  <2>1. pc[p] = "reconcile"
    BY <1>1 DEF ScanPage, ReconcileInv, PatchInv
  <2>2. PICK page \in SUBSET Messages : \E views : EnqueuePage(page, views, TRUE)
    BY <1>1, <2>1 DEF ScanPage
  <2>3. UNCHANGED <<pc, current, snap, batch, rest, verdict>>
    BY <1>1 DEF ScanPage, mediaLocals, messageLocals
  <2>4. QED
    BY <2>2, <2>3, ScanKeepsPatches
<1>2. ASSUME NEW kind \in ManualScans, ManualScan(kind) PROVE Kept
  <2>1. kind = "reconcile"
    BY DEF Reconciling
  <2>2. PICK page \in SUBSET Messages : \E views : EnqueuePage(page, views, TRUE)
    BY <1>2, <2>1 DEF ManualScan
  <2>3. UNCHANGED <<pc, current, snap, batch, rest, verdict>>
    BY <1>2 DEF ManualScan, mediaLocals, messageLocals
  <2>4. QED
    BY <2>2, <2>3, ScanKeepsPatches
<1>3. ASSUME NEW p \in Procs,
             \/ Start(p) \/ Crash(p) \/ StartRun(p) \/ SourceUnavailable(p) \/ FinishRun(p)
             \/ \E s \in Slots : MediaLeaseLost(p, s)
             \/ PatchRaises(p) \/ ConfirmRaises(p)
             \/ \E m \in Messages : SettleRaises(p, m)
      PROVE  Kept
  BY <1>3, RunKeepsPatches
<1>4. ASSUME NEW p \in Procs,
             \/ LeaseMedia(p) \/ PatchMedia(p) \/ ConfirmMedia(p)
             \/ \E s \in Slots : UploadMedia(p, s) \/ MediaFaulted(p, s)
      PROVE  Kept
  BY <1>4, LeaseMediaKeepsPatches, MediaKeepsPatches, PatchKeepsPatches, ConfirmKeepsPatches
<1>5. ASSUME NEW p \in Procs,
             \/ LeaseMessages(p)
             \/ BatchAccepted(p) \/ BatchFaulted(p) \/ BatchSplit(p) \/ BatchRejected(p)
             \/ \E m \in Messages : SettleMessage(p, m)
             \/ NextBatch(p)
      PROVE  Kept
  BY <1>5, LeaseMessagesKeepsPatches, AnswerKeepsPatches, SplitKeepsPatches,
     SettleKeepsPatches, NextBatchKeepsPatches
<1>6. ASSUME OperatorRequeues \/ Tick \/ UNCHANGED vars PROVE Kept
  BY <1>6, QuietStep
<1>7. ASSUME NEW p \in Procs, Upload(p) PROVE Kept
  BY <1>3, <1>4, <1>5, <1>7 DEF Upload
<1>8. QED
  BY <1>1, <1>2, <1>3, <1>4, <1>6, <1>7 DEF Next

LEMMA PatchInit == ASSUME Reconciling PROVE Init => ReconcileInv
<1> SUFFICES ASSUME Init PROVE ReconcileInv
  OBVIOUS
<1>1. GateInv
  BY DEF Init, GateInv, InRun
<1>2. RowsInv
  BY DEF Init, QueueInit, AbsentMessage, RowsInv, PatchNotLost
<1>3. ASSUME NEW p \in Procs PROVE PatchInv(p)
  BY DEF Init, QueueInit, AbsentMessage, PatchInv
<1>4. QED
  BY <1>1, <1>2, <1>3 DEF ReconcileInv

\* A file the server confirmed is never forgotten by the message it is part of:
\* when every scan queues the media again with the message, a reference that says
\* "complete" and has no hash always has a media row that can bring it, or one the
\* operator is shown.  Scans that are forced may run at any time, from any process
\* and in the middle of an upload; under an unforced one the property is violated.
THEOREM PatchesAreKept == ASSUME Reconciling PROVE Spec => []PatchNotLost
<1>1. QueueInv /\ LocalTypeOK => TypeOK
  BY TypeParts DEF QueueInv
<1>2. QueueInv /\ LocalTypeOK /\ ReconcileInv /\ [Next]_vars
         => (QueueInv /\ LocalTypeOK /\ ReconcileInv)'
  <2> SUFFICES ASSUME QueueInv, LocalTypeOK, ReconcileInv, [Next]_vars
               PROVE  (QueueInv /\ LocalTypeOK /\ ReconcileInv)'
    OBVIOUS
  <2>1. GateInv'
    BY GateStep DEF Reconciling, ReconcileInv
  <2>2. RowsInv' /\ \A p \in Procs : PatchInv(p)'
    BY <1>1, PatchStep
  <2>3. QED
    BY <2>1, <2>2, TypeStep DEF ReconcileInv
<1>3. Init => ReconcileInv
  BY PatchInit
<1>4. ReconcileInv => PatchNotLost
  BY DEF ReconcileInv, RowsInv
<1>5. QED
  BY <1>2, <1>3, <1>4, TypeInit, PTL DEF Spec

-----------------------------------------------------------------------------
(* What is given up, while the server is merely unavailable *)

\* The conditions of DeadLetterOnlyWhenExhausted: the server refuses nothing, no
\* view is a thumbnail (a late one patches a combination the server rejects), and
\* the operator does not requeue a row in the middle of an upload.
OnlyUnavailable ==
    /\ Reconciling
    /\ "refused" \notin Faults
    /\ ~Requeues
    /\ \A e \in Elements : "thumbnail" \notin SourceViews[e]

\* All that the server rejects in such a part is a missing hash.
Fit(part) ==
    \/ part.archive = "none"
    \/ part.source = "downloaded" /\ part.archive \in {"complete", "failed"}
    \/ part.source = "not_downloaded" /\ part.archive = "metadata_only" /\ ~part.asset

FitInv ==
    /\ \A m \in Messages, e \in Elements : Fit(msgs[m].payload[e])
    /\ \A s \in Slots : s[3] = "thumbnail" => media[s].status = "absent"

\* A message whose verdict is still to be asked for or to be written back.
InHand(p, m) == ToSend(p, m) \/ verdict[p][m] # "waiting"

GivenUp(m) == \E s \in SlotsOf(m) : media[s].status = "dead_letter"

UploadPhase == {"media", "patching", "confirming"}

\* A row that is still inflight when its outcome is written has the attempts the
\* leased copy has, and a message that is sent without a hash, or was rejected,
\* had a media row given up before it was leased.
AttemptsInv(p) ==
    /\ pc[p] \notin UploadPhase => \A s \in Slots : mediaLease[p][s] = 0
    /\ \A s \in Slots : mediaLease[p][s] > 0 \/ s \in current[p] => s[3] # "thumbnail"
    /\ \A s \in Slots :
          mediaLease[p][s] > 0 /\ media[s].status = "inflight" =>
             media[s].attempts = mediaLease[p][s]
    /\ \A m \in Messages :
          msgs[m].status = "inflight" =>
             /\ InHand(p, m) => msgs[m].attempts = snap[p][m].attempts
             /\ ToSend(p, m) /\ ~Whole(msgs[m]) => GivenUp(m)
             /\ verdict[p][m] = "rejected" => GivenUp(m)

GiveUpInv == FitInv /\ \A p \in Procs : AttemptsInv(p)

\* The property as a relation of two states.
Exhausted ==
    /\ \A m \in Messages :
          msgs'[m].status = "dead_letter" /\ msgs[m].status # "dead_letter"
             => \/ msgs[m].attempts = MaxAttempts
                \/ \E s \in SlotsOf(m) : media[s].status = "dead_letter"
    /\ \A s \in Slots :
          media'[s].status = "dead_letter" /\ media[s].status # "dead_letter"
             => media[s].attempts = MaxAttempts

\* Steps that bring no row in flight and give none up.
NoneLeased ==
    /\ \A m \in Messages :
          msgs'[m].status = "inflight" =>
             /\ msgs[m].status = "inflight" /\ msgs'[m].attempts = msgs[m].attempts
             /\ msgs'[m].payload = msgs[m].payload
             /\ GivenUp(m) => GivenUp(m)'
    /\ \A s \in Slots :
          media'[s].status = "inflight" =>
             media[s].status = "inflight" /\ media'[s].attempts = media[s].attempts

\* What a process holds of the rows can only get less.
NoneTaken(p) ==
    /\ pc'[p] \notin UploadPhase => \A s \in Slots : mediaLease'[p][s] = 0
    /\ \A s \in Slots : mediaLease'[p][s] > 0 => mediaLease'[p][s] = mediaLease[p][s]
    /\ \A s \in current'[p] : s \in current[p] \/ mediaLease[p][s] > 0
    /\ \A m \in Messages :
          /\ InHand(p, m)' => InHand(p, m) /\ snap'[p][m] = snap[p][m]
          /\ ToSend(p, m)' => ToSend(p, m)
          /\ verdict'[p][m] = "rejected" => verdict[p][m] = "rejected"

LEMMA AttemptsKept ==
    ASSUME TypeOK, NEW p \in Procs, AttemptsInv(p), NoneLeased, NoneTaken(p), TypeOK'
    PROVE  AttemptsInv(p)'
<1>1. ASSUME NEW s \in Slots, mediaLease'[p][s] > 0 \/ s \in current'[p]
      PROVE  s[3] # "thumbnail"
  <2>1. mediaLease[p][s] > 0 \/ s \in current[p]
    BY <1>1 DEF NoneTaken
  <2>2. QED
    BY <2>1 DEF AttemptsInv
<1>2. ASSUME NEW s \in Slots, mediaLease'[p][s] > 0, media'[s].status = "inflight"
      PROVE  media'[s].attempts = mediaLease'[p][s]
  <2>1. /\ mediaLease'[p][s] = mediaLease[p][s] /\ media[s].status = "inflight"
        /\ media'[s].attempts = media[s].attempts
    BY <1>2 DEF NoneTaken, NoneLeased
  <2>2. QED
    BY <1>2, <2>1 DEF AttemptsInv
<1>3. ASSUME NEW m \in Messages, msgs'[m].status = "inflight"
      PROVE  /\ InHand(p, m)' => msgs'[m].attempts = snap'[p][m].attempts
             /\ ToSend(p, m)' /\ ~Whole(msgs'[m]) => GivenUp(m)'
             /\ verdict'[p][m] = "rejected" => GivenUp(m)'
  <2>1. /\ msgs[m].status = "inflight" /\ msgs'[m].attempts = msgs[m].attempts
        /\ msgs'[m].payload = msgs[m].payload
        /\ GivenUp(m) => GivenUp(m)'
    BY <1>3 DEF NoneLeased
  <2>2. Whole(msgs'[m]) <=> Whole(msgs[m])
    BY <2>1 DEF Whole, Bare
  <2>3. InHand(p, m)' => msgs'[m].attempts = snap'[p][m].attempts
    BY <2>1 DEF NoneTaken, AttemptsInv
  <2>4. ToSend(p, m)' /\ ~Whole(msgs'[m]) => GivenUp(m)
    BY <2>1, <2>2 DEF NoneTaken, AttemptsInv
  <2>5. verdict'[p][m] = "rejected" => GivenUp(m)
    BY <2>1 DEF NoneTaken, AttemptsInv
  <2>6. QED
    BY <2>1, <2>3, <2>4, <2>5
<1>4. QED
  BY <1>1, <1>2, <1>3 DEF AttemptsInv, NoneTaken

\* A process outside a run holds nothing.
LEMMA OutsideAttempts ==
    ASSUME NEW p \in Procs, PatchInv(p), AttemptsInv(p), ~InRun(p), pc'[p] = pc[p],
           mediaLease'[p] = mediaLease[p], current'[p] = current[p], snap'[p] = snap[p],
           rest'[p] = rest[p], verdict'[p] = verdict[p]
    PROVE  AttemptsInv(p)'
<1>1. pc[p] \in {"down", "idle"}
  BY DEF InRun
<1>2. /\ \A s \in Slots : mediaLease'[p][s] = 0
      /\ \A s \in Slots : s \in current'[p] => s[3] # "thumbnail"
  BY <1>1 DEF AttemptsInv, UploadPhase
<1>3. rest'[p] = <<>> /\ \A m \in Messages : verdict'[p][m] = "waiting"
  BY <1>1 DEF PatchInv
<1>4. \A m \in Messages : ~ToSend(p, m)' /\ ~InHand(p, m)'
  BY <1>1, <1>3 DEF ToSend, InRest, InHand
<1>5. QED
  BY <1>2, <1>3, <1>4 DEF AttemptsInv

LocalsUntouched(p) ==
    \A q \in Procs : q # p =>
        /\ pc'[q] = pc[q] /\ mediaLease'[q] = mediaLease[q] /\ current'[q] = current[q]
        /\ snap'[q] = snap[q] /\ rest'[q] = rest[q] /\ verdict'[q] = verdict[q]

LEMMA RunAttempts ==
    ASSUME ReconcileInv, GiveUpInv, NEW p \in Procs, InRun(p), LocalsUntouched(p), AttemptsInv(p)'
    PROVE  \A q \in Procs : AttemptsInv(q)'
<1> SUFFICES ASSUME NEW q \in Procs, q # p PROVE AttemptsInv(q)'
  OBVIOUS
<1>1. ~InRun(q) /\ PatchInv(q) /\ AttemptsInv(q)
  BY DEF ReconcileInv, GateInv, GiveUpInv
<1>2. QED
  BY <1>1, OutsideAttempts DEF LocalsUntouched

RowsUntouched == UNCHANGED tables

LEMMA UntouchedRows ==
    ASSUME RowsUntouched, GiveUpInv
    PROVE  NoneLeased /\ FitInv' /\ Exhausted
BY DEF RowsUntouched, tables, NoneLeased, GivenUp, GiveUpInv, FitInv, Exhausted

LEMMA HeldIsKept ==
    ASSUME NEW p \in Procs, AttemptsInv(p),
           UNCHANGED <<pc, mediaLease, current, snap, batch, rest, verdict>>
    PROVE  NoneTaken(p)
BY DEF NoneTaken, AttemptsInv, InHand, ToSend, InRest

\* What a process that forgets everything holds.
LEMMA NothingHeld ==
    ASSUME NEW p \in Procs, pc'[p] # "sending", current'[p] = {}, rest'[p] = <<>>,
           \A s \in Slots : mediaLease'[p][s] = 0,
           \A m \in Messages : verdict'[p][m] = "waiting"
    PROVE  NoneTaken(p)
<1>1. \A m \in Messages : ~ToSend(p, m)' /\ ~InHand(p, m)'
  BY DEF ToSend, InRest, InHand
<1>2. QED
  BY <1>1 DEF NoneTaken

LEMMA ForgetAttempts ==
    ASSUME TypeOK, TypeOK', GiveUpInv, NEW p \in Procs, NEW label \in {"down", "finishing"},
           Goto(p, label), Forget(p), UNCHANGED tables
    PROVE  GiveUpInv' /\ Exhausted
<1>1. NoneLeased /\ FitInv' /\ Exhausted
  BY UntouchedRows DEF RowsUntouched
<1>2. ASSUME NEW q \in Procs PROVE NoneTaken(q)
  <2>1. CASE q = p
    <3>1. /\ pc'[p] = label /\ current'[p] = {} /\ rest'[p] = <<>>
          /\ mediaLease'[p] = [s \in Slots |-> 0]
          /\ verdict'[p] = [m \in Messages |-> "waiting"]
      BY DEF Goto, Forget, TypeOK
    <3>2. QED
      BY <2>1, <3>1, NothingHeld
  <2>2. CASE q # p
    <3>1. /\ pc'[q] = pc[q] /\ mediaLease'[q] = mediaLease[q] /\ current'[q] = current[q]
          /\ snap'[q] = snap[q] /\ batch'[q] = batch[q] /\ rest'[q] = rest[q]
          /\ verdict'[q] = verdict[q]
      BY <2>2 DEF Goto, Forget, TypeOK
    <3>2. AttemptsInv(q)
      BY DEF GiveUpInv
    <3>3. QED
      BY <3>1, <3>2 DEF NoneTaken, AttemptsInv, InHand, ToSend, InRest
  <2>3. QED
    BY <2>1, <2>2
<1>3. QED
  BY <1>1, <1>2, AttemptsKept DEF GiveUpInv

LEMMA RunGivesNothingUp ==
    ASSUME OnlyUnavailable, TypeOK, TypeOK', ReconcileInv, GiveUpInv, NEW p \in Procs,
           \/ Start(p) \/ Crash(p) \/ StartRun(p) \/ SourceUnavailable(p) \/ FinishRun(p)
           \/ \E s \in Slots : MediaLeaseLost(p, s)
           \/ PatchRaises(p) \/ ConfirmRaises(p)
           \/ \E m \in Messages : SettleRaises(p, m)
    PROVE  GiveUpInv' /\ Exhausted
<1>1. CASE Start(p) \/ StartRun(p) \/ SourceUnavailable(p) \/ FinishRun(p)
  <2>1. UNCHANGED <<msgs, media, mediaLease, current, snap, batch, rest, verdict>>
    BY <1>1 DEF Start, StartRun, SourceUnavailable, FinishRun, tables, mediaLocals, messageLocals
  <2>2. /\ pc[p] \in {"down", "idle", "incremental", "reconcile", "finishing"}
        /\ pc'[p] \in {"idle", "reconcile", "finishing"}
    BY <1>1 DEF Start, StartRun, SourceUnavailable, FinishRun, Goto, TypeOK, OnlyUnavailable,
                Reconciling
  <2>3. \A q \in Procs : q # p => pc'[q] = pc[q]
    BY <1>1 DEF Start, StartRun, SourceUnavailable, FinishRun, Goto, TypeOK
  <2>4. NoneLeased /\ FitInv' /\ Exhausted
    BY <2>1, UntouchedRows DEF RowsUntouched, tables
  <2>5. ASSUME NEW q \in Procs PROVE NoneTaken(q)
    <3>1. AttemptsInv(q) /\ PatchInv(q)
      BY DEF GiveUpInv, ReconcileInv
    <3>2. \A m \in Messages :
             /\ ToSend(q, m)' => ToSend(q, m)
             /\ InHand(q, m)' => InHand(q, m)
      BY <2>1, <2>2, <2>3 DEF ToSend, InRest, InHand
    <3>3. pc'[q] \notin UploadPhase => \A s \in Slots : mediaLease'[q][s] = 0
      BY <2>1, <2>2, <2>3, <3>1 DEF AttemptsInv, UploadPhase
    <3>4. QED
      BY <2>1, <3>2, <3>3 DEF NoneTaken
  <2>6. QED
    BY <2>4, <2>5, AttemptsKept DEF GiveUpInv
<1>2. CASE Crash(p)
  BY <1>2, ForgetAttempts DEF Crash
<1>3. CASE \/ \E s \in Slots : MediaLeaseLost(p, s)
           \/ PatchRaises(p) \/ ConfirmRaises(p)
           \/ \E m \in Messages : SettleRaises(p, m)
  <2>1. Raise(p)
    BY <1>3 DEF MediaLeaseLost, PatchRaises, ConfirmRaises, SettleRaises
  <2>2. QED
    BY <2>1, ForgetAttempts DEF Raise
<1>4. QED
  BY <1>1, <1>2, <1>3

LEMMA ParsedFits == \A view : view # "thumbnail" => Fit(PartOf(view))
BY DEF Fit, PartOf, NewPart

LEMMA PatchedFits ==
    ASSUME NEW part \in Parts, Fit(part), NEW role \in Roles, role # "thumbnail"
    PROVE  Fit(PatchedPart(part, role))
BY DEF Fit, PatchedPart, Parts, Roles

LEMMA FitIsValid ==
    ASSUME NEW m \in Messages, \A e \in Elements : Fit(msgs[m].payload[e]), Whole(msgs[m])
    PROVE  ValidPayload(msgs[m].payload)
BY DEF Fit, Whole, Bare, ValidPayload, ValidPart, ValidCombinations

LEMMA ScanGivesNothingUp ==
    ASSUME TypeOK, TypeOK', GiveUpInv, NEW page \in SUBSET Messages, NEW views,
           \A m \in page, e \in Elements : views[m][e] # "thumbnail",
           EnqueuePage(page, views, TRUE),
           UNCHANGED <<pc, mediaLease, current, snap, batch, rest, verdict>>
    PROVE  GiveUpInv' /\ Exhausted
<1>1. /\ \A m \in page : msgs'[m].status = "pending"
      /\ \A m \in Messages \ page : msgs'[m] = msgs[m]
      /\ \A s \in Slots :
            /\ s[1] \notin page => media'[s] = media[s]
            /\ media'[s].status # "pending" => media'[s] = media[s]
  BY ForcedPage, TypeParts
<1>2. FitInv'
  <2>1. ASSUME NEW m \in Messages, NEW e \in Elements PROVE Fit(msgs'[m].payload[e])
    <3>1. CASE m \in page
      <4> DEFINE payload == [x \in Elements |-> PartOf(views[m][x])]
      <4>1. msgs'[m] = UpsertedMessage(msgs[m], payload, TRUE) /\ msgs[m] \in MessageRows
        BY <3>1 DEF EnqueuePage, ScannedMessages, TypeOK
      <4>2. payload[e] = PartOf(views[m][e])
        OBVIOUS
      <4> HIDE DEF payload
      <4>3. msgs'[m].payload = payload
        BY <4>1 DEF UpsertedMessage, AbsentMessage, MessageRows
      <4>4. QED
        BY <3>1, <4>2, <4>3, ParsedFits
    <3>2. CASE m \notin page
      BY <1>1, <3>2 DEF GiveUpInv, FitInv
    <3>3. QED
      BY <3>1, <3>2
  <2>2. ASSUME NEW s \in Slots, s[3] = "thumbnail" PROVE media'[s].status = "absent"
    <3>1. media'[s] = media[s]
      <4>1. s[1] \in page => ~Queues(views[s[1]][s[2]], s[3])
        BY <2>2, SlotParts DEF Queues
      <4>2. QED
        BY <4>1 DEF EnqueuePage, ScannedMedia
    <3>2. QED
      BY <2>2, <3>1 DEF GiveUpInv, FitInv
  <2>3. QED
    BY <2>1, <2>2 DEF FitInv
<1>3. NoneLeased
  <2>1. ASSUME NEW m \in Messages, msgs'[m].status = "inflight", GivenUp(m)
        PROVE  GivenUp(m)'
    <3>1. PICK s \in SlotsOf(m) : media[s].status = "dead_letter"
      BY <2>1 DEF GivenUp
    <3>2. s \in Slots /\ s[1] = m
      BY DEF SlotsOf, Slots
    <3>3. media'[s] = media[s]
      BY <1>1, <2>1, <3>2
    <3>4. QED
      BY <3>1, <3>3 DEF GivenUp
  <2>2. QED
    BY <1>1, <2>1 DEF NoneLeased
<1>4. Exhausted
  BY <1>1 DEF Exhausted
<1>5. QED
  BY <1>2, <1>3, <1>4, AttemptsKept, HeldIsKept DEF GiveUpInv

LEMMA LeaseMediaAttempts ==
    ASSUME TypeOK, TypeOK', ReconcileInv, GiveUpInv, NEW p \in Procs, LeaseMedia(p)
    PROVE  GiveUpInv' /\ Exhausted
<1>1. PICK picked \in SUBSET Slots :
         /\ LeaseMediaRows(picked)
         /\ mediaLease' = [mediaLease EXCEPT ![p] =
               [s \in Slots |-> IF s \in picked THEN media'[s].attempts ELSE 0]]
  BY DEF LeaseMedia
<1>2. /\ pc[p] \in {"incremental", "reconcile"} /\ pc' = [pc EXCEPT ![p] = "media"]
      /\ UNCHANGED <<msgs, current, snap, batch, rest, verdict>>
  BY <1>1 DEF LeaseMedia, LeaseMediaRows, Goto, messageLocals
<1>3. ASSUME NEW s \in Slots
      PROVE  /\ media[s].status = "absent" => media'[s].status = "absent" /\ s \notin picked
             /\ media[s].status = "dead_letter" <=> media'[s].status = "dead_letter"
  <2>1. /\ media[s] \in MediaRows
        /\ \/ s \notin picked /\ media'[s] = Reclaimed(media[s])
           \/ media'[s] = Leased(Reclaimed(media[s])) /\ Leasable(Reclaimed(media[s]))
    BY <1>1 DEF LeaseMediaRows, Picks, TypeOK
  <2>2. QED
    BY <2>1 DEF Leased, Reclaimed, Leasable, MediaRows
<1>4. FitInv' /\ Exhausted
  BY <1>2, <1>3 DEF GiveUpInv, FitInv, Exhausted
<1>5. AttemptsInv(p)'
  <2>1. /\ pc'[p] = "media"
        /\ \A s \in Slots : mediaLease'[p][s] = IF s \in picked THEN media'[s].attempts ELSE 0
    BY <1>1, <1>2 DEF TypeOK
  <2>2. \A m \in Messages : verdict'[p][m] = "waiting"
    BY <1>2 DEF ReconcileInv, PatchInv
  <2>3. \A m \in Messages : ~ToSend(p, m)' /\ ~InHand(p, m)'
    BY <1>2, <2>1, <2>2 DEF ToSend, InRest, InHand, ReconcileInv, PatchInv
  <2>4. ASSUME NEW s \in Slots, mediaLease'[p][s] > 0 \/ s \in current'[p]
        PROVE  s[3] # "thumbnail"
    <3>1. s \in picked \/ s \in current[p]
      BY <1>2, <2>1, <2>4
    <3>2. QED
      BY <1>3, <3>1 DEF GiveUpInv, FitInv, AttemptsInv
  <2>5. QED
    BY <2>1, <2>2, <2>3, <2>4 DEF AttemptsInv, UploadPhase
<1>6. LocalsUntouched(p) /\ InRun(p)
  BY <1>1, <1>2 DEF LocalsUntouched, InRun, TypeOK
<1>7. QED
  BY <1>4, <1>5, <1>6, RunAttempts DEF GiveUpInv

\* Steps of a process that uploads media: the rows of messages stay as they are.
LEMMA UploadAttempts ==
    ASSUME OnlyUnavailable, TypeOK, TypeOK', ReconcileInv, GiveUpInv, NEW p \in Procs, NEW s \in Slots,
           UploadMedia(p, s) \/ MediaFaulted(p, s)
    PROVE  GiveUpInv' /\ Exhausted
<1> USE DEF mediaLocals, messageLocals
<1>0. AttemptsInv(p) /\ PatchInv(p) /\ pc[p] = "media"
  BY DEF GiveUpInv, ReconcileInv, UploadMedia, MediaFaulted
<1>1. CASE UploadMedia(p, s)
  <2>1. /\ pc' = [pc EXCEPT ![p] = "patching"] /\ mediaLease[p][s] > 0
        /\ current' = [current EXCEPT ![p] = {s}]
        /\ UNCHANGED <<msgs, media, mediaLease, snap, batch, rest, verdict>>
    BY <1>1 DEF UploadMedia, Goto, tables
  <2>2. NoneLeased /\ FitInv' /\ Exhausted
    BY <2>1, UntouchedRows DEF RowsUntouched, tables
  <2>3. pc'[p] = "patching" /\ current'[p] = {s}
    BY <2>1 DEF TypeOK
  <2>4. NoneTaken(p)
    BY <1>0, <2>1, <2>3 DEF NoneTaken, AttemptsInv, InHand, ToSend, InRest, UploadPhase
  <2>5. AttemptsInv(p)'
    BY <1>0, <2>2, <2>4, AttemptsKept
  <2>6. LocalsUntouched(p) /\ InRun(p)
    BY <1>0, <2>1 DEF LocalsUntouched, InRun, TypeOK
  <2>7. QED
    BY <2>2, <2>5, <2>6, RunAttempts DEF GiveUpInv
<1>2. CASE MediaFaulted(p, s)
  <2>1. DeferMedia(s, mediaLease[p][s], MaxAttempts)
    <3>1. PICK fault \in Faults \intersect {"unavailable", "refused"} :
             DeferMedia(s, mediaLease[p][s], IF fault = "unavailable" THEN MaxAttempts ELSE 1)
      BY <1>2 DEF MediaFaulted
    <3>2. fault = "unavailable"
      BY <3>1 DEF OnlyUnavailable
    <3>3. QED
      BY <3>1, <3>2
  <2>2. /\ mediaLease[p][s] > 0 /\ mediaLease' = [mediaLease EXCEPT ![p][s] = 0]
        /\ UNCHANGED <<msgs, pc, current, snap, batch, rest, verdict>>
    BY <1>2, <2>1 DEF MediaFaulted, DeferMedia
  <2>3. /\ media[s] \in MediaRows /\ media[s].status = "inflight"
        /\ \A t \in Slots \ {s} : media'[t] = media[t]
        /\ media'[s] = Deferred(media[s], mediaLease[p][s], MaxAttempts)
    BY <2>1 DEF DeferMedia, TypeOK
  <2>4. /\ media'[s].status \in {"dead_letter", "retry"}
        /\ media'[s].status = "dead_letter" => mediaLease[p][s] >= MaxAttempts
    BY <2>3 DEF Deferred, MediaRows
  <2>5. mediaLease[p][s] = media[s].attempts /\ media[s].attempts \in 0..MaxAttempts
        /\ s[3] # "thumbnail"
    BY <1>0, <2>2, <2>3 DEF AttemptsInv, MediaRows
  <2>6. Exhausted
    <3>1. mediaLease[p][s] >= MaxAttempts => media[s].attempts = MaxAttempts
      BY <2>5, MaxAttemptsAssumption
    <3>2. QED
      BY <2>2, <2>3, <2>4, <3>1 DEF Exhausted
  <2>7. FitInv'
    BY <2>2, <2>3, <2>5 DEF GiveUpInv, FitInv
  <2>8. NoneLeased
    <3>1. ASSUME NEW m \in Messages, GivenUp(m) PROVE GivenUp(m)'
      <4>1. PICK t \in SlotsOf(m) : media[t].status = "dead_letter"
        BY <3>1 DEF GivenUp
      <4>2. t \in Slots /\ t # s
        BY <2>3, <4>1 DEF SlotsOf, Slots
      <4>3. QED
        BY <2>3, <4>1, <4>2 DEF GivenUp
    <3>2. QED
      BY <2>2, <2>3, <2>4, <3>1 DEF NoneLeased
  <2>9. NoneTaken(p)
    <3>1. \A t \in Slots : mediaLease'[p][t] = IF t = s THEN 0 ELSE mediaLease[p][t]
      BY <2>2 DEF TypeOK
    <3>2. QED
      BY <1>0, <2>2, <3>1 DEF NoneTaken, AttemptsInv, InHand, ToSend, InRest, UploadPhase
  <2>10. AttemptsInv(p)'
    BY <1>0, <2>8, <2>9, AttemptsKept
  <2>11. LocalsUntouched(p) /\ InRun(p)
    BY <1>0, <2>2 DEF LocalsUntouched, InRun, TypeOK
  <2>12. QED
    BY <2>6, <2>7, <2>10, <2>11, RunAttempts DEF GiveUpInv
<1>3. QED
  BY <1>1, <1>2

LEMMA PatchAttempts ==
    ASSUME TypeOK, TypeOK', ReconcileInv, GiveUpInv, NEW p \in Procs, PatchMedia(p)
    PROVE  GiveUpInv' /\ Exhausted
<1> USE DEF mediaLocals, messageLocals
<1>1. PICK s \in current[p] : PatchMessage(s)
  BY DEF PatchMedia
<1>2. /\ s \in Slots /\ s[1] \in Messages /\ s[2] \in Elements /\ s[3] \in Roles
      /\ msgs[s[1]] \in MessageRows /\ AttemptsInv(p) /\ PatchInv(p)
  BY SlotParts DEF TypeOK, ReconcileInv, GiveUpInv
<1>3. /\ pc[p] = "patching" /\ pc' = [pc EXCEPT ![p] = "confirming"]
      /\ UNCHANGED <<media, mediaLease, current, snap, batch, rest, verdict>>
  BY <1>1 DEF PatchMedia, PatchMessage, Goto
<1>4. /\ \A n \in Messages \ {s[1]} : msgs'[n] = msgs[n]
      /\ msgs'[s[1]] = PatchedMessage(msgs[s[1]], s)
  BY <1>1, <1>2 DEF PatchMessage, TypeOK
<1>5. s[3] # "thumbnail"
  BY <1>1, <1>2 DEF AttemptsInv
<1>6. /\ msgs'[s[1]].status = "dead_letter" => msgs[s[1]].status = "dead_letter"
      /\ msgs'[s[1]].payload \in {msgs[s[1]].payload, PatchedPayload(msgs[s[1]].payload, s)}
  BY <1>2, <1>4 DEF PatchedMessage, Requeued, MessageRows
<1>7. FitInv'
  <2>1. ASSUME NEW m \in Messages, NEW e \in Elements PROVE Fit(msgs'[m].payload[e])
    <3>1. Fit(msgs[m].payload[e])
      BY DEF GiveUpInv, FitInv
    <3>2. CASE m = s[1] /\ msgs'[m].payload = PatchedPayload(msgs[m].payload, s) /\ e = s[2]
      <4>1. msgs[m].payload \in [Elements -> Parts]
        BY <1>2, <3>2 DEF MessageRows, Payloads
      <4>2. msgs'[m].payload[e] = PatchedPart(msgs[m].payload[e], s[3])
        BY <3>2, <4>1 DEF PatchedPayload
      <4>3. QED
        BY <1>2, <1>5, <3>1, <4>1, <4>2, PatchedFits
    <3>3. CASE m = s[1] /\ msgs'[m].payload = PatchedPayload(msgs[m].payload, s) /\ e # s[2]
      <4>1. msgs[m].payload \in [Elements -> Parts]
        BY <1>2, <3>3 DEF MessageRows, Payloads
      <4>2. msgs'[m].payload[e] = msgs[m].payload[e]
        BY <3>3, <4>1 DEF PatchedPayload
      <4>3. QED
        BY <3>1, <4>2
    <3>4. CASE msgs'[m].payload = msgs[m].payload
      BY <3>1, <3>4
    <3>5. QED
      BY <1>4, <1>6, <3>2, <3>3, <3>4
  <2>2. QED
    BY <1>3, <2>1 DEF GiveUpInv, FitInv
<1>8. Exhausted
  BY <1>3, <1>4, <1>6 DEF Exhausted
<1>9. AttemptsInv(p)'
  <2>1. /\ pc'[p] = "confirming" /\ rest'[p] = <<>>
        /\ \A m \in Messages : verdict'[p][m] = "waiting"
    BY <1>2, <1>3 DEF PatchInv, TypeOK
  <2>2. \A m \in Messages : ~ToSend(p, m)' /\ ~InHand(p, m)'
    BY <2>1 DEF ToSend, InRest, InHand
  <2>3. QED
    BY <1>2, <1>3, <2>1, <2>2 DEF AttemptsInv, UploadPhase
<1>10. LocalsUntouched(p) /\ InRun(p)
  BY <1>3 DEF LocalsUntouched, InRun, TypeOK
<1>11. QED
  BY <1>7, <1>8, <1>9, <1>10, RunAttempts DEF GiveUpInv

LEMMA ConfirmAttempts ==
    ASSUME TypeOK, TypeOK', ReconcileInv, GiveUpInv, NEW p \in Procs, ConfirmMedia(p)
    PROVE  GiveUpInv' /\ Exhausted
<1>1. PICK s \in current[p] :
         CompleteMedia(s) /\ mediaLease' = [mediaLease EXCEPT ![p][s] = 0]
  BY DEF ConfirmMedia
<1>2. s \in Slots /\ AttemptsInv(p) /\ PatchInv(p) /\ s[3] # "thumbnail"
  BY DEF TypeOK, ReconcileInv, GiveUpInv, AttemptsInv
<1>3. /\ pc[p] = "confirming" /\ pc' = [pc EXCEPT ![p] = "media"]
      /\ current' = [current EXCEPT ![p] = {}]
      /\ UNCHANGED <<msgs, snap, batch, rest, verdict>>
  BY <1>1 DEF ConfirmMedia, CompleteMedia, Goto, messageLocals
<1>4. /\ media[s].status = "inflight" /\ media[s] \in MediaRows
      /\ \A t \in Slots \ {s} : media'[t] = media[t]
      /\ media'[s] = Completed(media[s])
  BY <1>1, <1>2 DEF CompleteMedia, TypeOK
<1>5. media'[s].status = "completed"
  BY <1>4 DEF Completed, MediaRows
<1>6. FitInv' /\ Exhausted
  BY <1>2, <1>3, <1>4, <1>5 DEF GiveUpInv, FitInv, Exhausted
<1>7. NoneLeased
  <2>1. ASSUME NEW m \in Messages, GivenUp(m) PROVE GivenUp(m)'
    <3>1. PICK t \in SlotsOf(m) : media[t].status = "dead_letter"
      BY <2>1 DEF GivenUp
    <3>2. t \in Slots /\ t # s
      BY <1>4, <3>1 DEF SlotsOf, Slots
    <3>3. QED
      BY <1>4, <3>1, <3>2 DEF GivenUp
  <2>2. QED
    BY <1>3, <1>4, <1>5, <2>1 DEF NoneLeased
<1>8. NoneTaken(p)
  <2>1. /\ \A t \in Slots : mediaLease'[p][t] = IF t = s THEN 0 ELSE mediaLease[p][t]
        /\ pc'[p] = "media" /\ current'[p] = {}
    BY <1>1, <1>3 DEF TypeOK
  <2>2. QED
    BY <1>2, <1>3, <2>1 DEF NoneTaken, AttemptsInv, InHand, ToSend, InRest, UploadPhase
<1>9. AttemptsInv(p)'
  BY <1>2, <1>7, <1>8, AttemptsKept
<1>10. LocalsUntouched(p) /\ InRun(p)
  BY <1>1, <1>3 DEF LocalsUntouched, InRun, TypeOK
<1>11. QED
  BY <1>6, <1>9, <1>10, RunAttempts DEF GiveUpInv

LEMMA LeaseMessagesAttempts ==
    ASSUME TypeOK, TypeOK', ReconcileInv, GiveUpInv, NEW p \in Procs, LeaseMessages(p)
    PROVE  GiveUpInv' /\ Exhausted
<1> USE DEF mediaLocals
<1>1. PICK picked \in SUBSET Messages :
         /\ LeaseMessageRows(picked)
         /\ snap' = [snap EXCEPT ![p] =
               [m \in Messages |->
                   IF m \in picked
                   THEN [attempts |-> msgs'[m].attempts, payload |-> msgs'[m].payload]
                   ELSE NotLeased]]
         /\ batch' = [batch EXCEPT ![p] = picked]
         /\ Goto(p, IF picked = {} THEN "finishing" ELSE "sending")
  BY DEF LeaseMessages
<1>2. /\ pc[p] = "media" /\ UNCHANGED <<media, mediaLease, current, rest, verdict>>
      /\ \A s \in Slots : mediaLease[p][s] = 0
      /\ PatchInv(p) /\ AttemptsInv(p)
  BY <1>1 DEF LeaseMessages, LeaseMessageRows, ReconcileInv, GiveUpInv
<1>3. ASSUME NEW m \in Messages
      PROVE  /\ msgs'[m].payload = msgs[m].payload
             /\ msgs'[m].status = "dead_letter" => msgs[m].status = "dead_letter"
             /\ m \in picked => msgs[m].status # "absent" /\ MediaSettled(m)
  <2>1. /\ msgs[m] \in MessageRows
        /\ \/ m \notin picked /\ msgs'[m] = Reclaimed(msgs[m])
           \/ /\ m \in picked /\ msgs'[m] = Leased(Reclaimed(msgs[m]))
              /\ Leasable(Reclaimed(msgs[m])) /\ MediaSettled(m)
    BY <1>1 DEF LeaseMessageRows, Picks, TypeOK
  <2>2. QED
    BY <2>1 DEF Leased, Reclaimed, Leasable, MessageRows
<1>4. FitInv' /\ Exhausted
  BY <1>2, <1>3 DEF GiveUpInv, FitInv, Exhausted
<1>5. AttemptsInv(p)'
  <2>1. /\ pc'[p] = IF picked = {} THEN "finishing" ELSE "sending"
        /\ batch'[p] = picked
        /\ rest'[p] = <<>> /\ \A m \in Messages : verdict'[p][m] = "waiting"
    BY <1>1, <1>2 DEF Goto, PatchInv, TypeOK
  <2>2. ASSUME NEW m \in picked PROVE snap'[p][m].attempts = msgs'[m].attempts
    <3>1. snap'[p][m] = [attempts |-> msgs'[m].attempts, payload |-> msgs'[m].payload]
      BY <1>1 DEF TypeOK
    <3>2. QED
      BY <3>1
  <2>3. \A m \in Messages : ToSend(p, m)' \/ InHand(p, m)' => m \in picked
    BY <2>1 DEF ToSend, InRest, InHand
  <2>4. ASSUME NEW m \in picked, ~Whole(msgs'[m])
        PROVE  GivenUp(m)'
    <3>1. PICK e \in Elements : Bare(msgs[m], e)
      BY <1>3, <2>4 DEF Whole, Bare
    <3>2. <<m, e, "asset">> \in SlotsOf(m)
      BY DEF SlotsOf, Roles
    <3>3. media[<<m, e, "asset">>].status \notin {"absent", "completed"}
      BY <1>3, <3>1 DEF ReconcileInv, RowsInv, PatchNotLost, Bare
    <3>4. media[<<m, e, "asset">>].status = "dead_letter"
      BY <1>3, <3>2, <3>3 DEF MediaSettled
    <3>5. QED
      BY <1>2, <3>2, <3>4 DEF GivenUp
  <2>5. pc'[p] \notin UploadPhase
    BY <2>1 DEF UploadPhase
  <2>6. \A s \in Slots : s \in current'[p] => s[3] # "thumbnail"
    BY <1>2 DEF AttemptsInv
  <2>7. QED
    BY <1>2, <2>1, <2>2, <2>3, <2>4, <2>5, <2>6 DEF AttemptsInv
<1>6. LocalsUntouched(p) /\ InRun(p)
  BY <1>1, <1>2 DEF LocalsUntouched, InRun, Goto, TypeOK
<1>7. QED
  BY <1>4, <1>5, <1>6, RunAttempts DEF GiveUpInv

\* A rejected message lacks a hash, and lacked it when it was leased.
LEMMA JudgedAttempts ==
    ASSUME TypeOK, TypeOK', ReconcileInv, GiveUpInv, NEW p \in Procs, pc[p] = "sending",
           NEW accepted, NEW other \in {"deferred", "rejected"},
           other = "rejected" => \A m \in batch[p] : ~ValidPayload(snap[p][m].payload),
           Judge(p, accepted, other), Goto(p, "settling"),
           UNCHANGED <<tables, mediaLocals, snap, batch, rest>>
    PROVE  GiveUpInv' /\ Exhausted
<1> USE DEF mediaLocals, tables
<1>1. /\ pc'[p] = "settling" /\ PatchInv(p) /\ AttemptsInv(p)
      /\ UNCHANGED <<msgs, media, mediaLease, current, snap, batch, rest>>
  BY DEF Goto, ReconcileInv, GiveUpInv, TypeOK
<1>2. \A m \in Messages :
         verdict'[p][m] = IF m \in batch[p]
                          THEN IF m \in accepted THEN "accepted" ELSE other
                          ELSE "waiting"
  BY DEF Judge, TypeOK
<1>3. FitInv' /\ Exhausted
  BY UntouchedRows DEF RowsUntouched
<1>4. AttemptsInv(p)'
  <2>1. \A m \in Messages :
           /\ ToSend(p, m)' => ToSend(p, m)
           /\ InHand(p, m)' => InHand(p, m)
    BY <1>1, <1>2 DEF ToSend, InRest, InHand
  <2>2. ASSUME NEW m \in Messages, msgs[m].status = "inflight", verdict'[p][m] = "rejected"
        PROVE  GivenUp(m)
    <3>1. m \in batch[p] /\ other = "rejected"
      BY <1>2, <2>2
    <3>2. ToSend(p, m) /\ ~ValidPayload(snap[p][m].payload)
      BY <3>1 DEF ToSend
    <3>3. ~ValidPayload(msgs[m].payload)
      BY <1>1, <2>2, <3>2 DEF PatchInv
    <3>4. ~Whole(msgs[m])
      BY <3>3, FitIsValid DEF GiveUpInv, FitInv
    <3>5. QED
      BY <1>1, <2>2, <3>2, <3>4 DEF AttemptsInv
  <2>3. \A m \in Messages : GivenUp(m)' <=> GivenUp(m)
    BY <1>1 DEF GivenUp
  <2>4. \A m \in Messages : Whole(msgs'[m]) <=> Whole(msgs[m])
    BY <1>1
  <2>5. pc[p] \notin UploadPhase
    BY DEF UploadPhase
  <2>6. QED
    BY <1>1, <2>1, <2>2, <2>3, <2>4, <2>5 DEF AttemptsInv
<1>5. LocalsUntouched(p) /\ InRun(p)
  BY <1>1 DEF LocalsUntouched, InRun, Goto, Judge, TypeOK
<1>6. QED
  BY <1>3, <1>4, <1>5, RunAttempts DEF GiveUpInv

LEMMA AnswerAttempts ==
    ASSUME OnlyUnavailable, TypeOK, TypeOK', ReconcileInv, GiveUpInv, NEW p \in Procs,
           BatchAccepted(p) \/ BatchFaulted(p) \/ BatchRejected(p)
    PROVE  GiveUpInv' /\ Exhausted
<1>1. CASE BatchAccepted(p)
  <2>1. PICK accepted \in SUBSET batch[p] : Judge(p, accepted, "deferred")
    BY <1>1 DEF BatchAccepted
  <2>2. QED
    BY <1>1, <2>1, JudgedAttempts DEF BatchAccepted
<1>2. CASE BatchFaulted(p)
  <2>1. PICK fault \in Faults \intersect {"unavailable", "refused"} :
           Judge(p, {}, IF fault = "unavailable" THEN "deferred" ELSE "rejected")
    BY <1>2 DEF BatchFaulted
  <2>2. fault = "unavailable"
    BY <2>1 DEF OnlyUnavailable
  <2>3. QED
    BY <1>2, <2>1, <2>2, JudgedAttempts DEF BatchFaulted
<1>3. CASE BatchRejected(p)
  <2>1. PICK m \in batch[p] : ~ValidPayload(snap[p][m].payload)
    BY <1>3 DEF BatchRejected, BatchValid
  <2>2. \A n \in batch[p] : n = m
    <3>1. IsFiniteSet(batch[p])
      BY MessagesAssumption, FS_Subset DEF TypeOK
    <3>2. PICK x : batch[p] = {x}
      BY <1>3, <3>1, FS_Singleton DEF BatchRejected
    <3>3. QED
      BY <2>1, <3>2
  <2>3. QED
    BY <1>3, <2>1, <2>2, JudgedAttempts DEF BatchRejected
<1>4. QED
  BY <1>1, <1>2, <1>3

\* Steps that only move messages between the batch at hand and those to come.
LEMMA RebatchedAttempts ==
    ASSUME TypeOK, TypeOK', ReconcileInv, GiveUpInv, NEW p \in Procs, InRun(p), LocalsUntouched(p),
           UNCHANGED <<msgs, media, mediaLease, current, snap, verdict>>,
           pc[p] \notin UploadPhase,
           \A m \in Messages : ToSend(p, m)' => ToSend(p, m)
    PROVE  GiveUpInv' /\ Exhausted
<1>1. NoneLeased /\ FitInv' /\ Exhausted
  BY UntouchedRows DEF RowsUntouched, tables
<1>2. AttemptsInv(p)
  BY DEF GiveUpInv
<1>3. NoneTaken(p)
  BY <1>2 DEF NoneTaken, AttemptsInv, InHand
<1>4. QED
  BY <1>1, <1>2, <1>3, AttemptsKept, RunAttempts DEF GiveUpInv

LEMMA RestAttempts ==
    ASSUME TypeOK, TypeOK', ReconcileInv, GiveUpInv, NEW p \in Procs, BatchSplit(p) \/ NextBatch(p)
    PROVE  GiveUpInv' /\ Exhausted
<1>1. /\ pc[p] \in {"sending", "settling"}
      /\ UNCHANGED <<msgs, media, mediaLease, current, snap, verdict>>
  BY DEF BatchSplit, NextBatch, mediaLocals, tables
<1>2. LocalsUntouched(p)
  <2>1. \A q \in Procs : q # p => pc'[q] = pc[q] /\ rest'[q] = rest[q]
    <3>1. CASE BatchSplit(p)
      BY <3>1 DEF BatchSplit, TypeOK
    <3>2. CASE NextBatch(p)
      BY <3>2 DEF NextBatch, Goto, TypeOK
    <3>3. QED
      BY <3>1, <3>2
  <2>2. QED
    BY <1>1, <2>1 DEF LocalsUntouched
<1>3. pc[p] \notin UploadPhase /\ InRun(p)
  BY <1>1 DEF UploadPhase, InRun
<1>4. \A m \in Messages : ToSend(p, m)' => ToSend(p, m)
  BY SplitSendsNoMore, NextSendsNoMore
<1>5. QED
  BY <1>1, <1>2, <1>3, <1>4, RebatchedAttempts

LEMMA SettleAttempts ==
    ASSUME TypeOK, TypeOK', ReconcileInv, GiveUpInv, NEW p \in Procs, NEW m \in Messages,
           SettleMessage(p, m)
    PROVE  GiveUpInv' /\ Exhausted
<1> USE DEF mediaLocals
<1>1. /\ pc[p] = "settling" /\ msgs[m].status = "inflight" /\ msgs[m] \in MessageRows
      /\ UNCHANGED <<media, pc, mediaLease, current, batch, rest>>
      /\ PatchInv(p) /\ AttemptsInv(p)
  BY DEF SettleMessage, CompleteMessage, DeferMessage, ReconcileInv, GiveUpInv, TypeOK
<1>2. /\ snap' = [snap EXCEPT ![p][m] = NotLeased]
      /\ verdict' = [verdict EXCEPT ![p][m] = "waiting"]
  BY DEF SettleMessage
<1>3. /\ verdict'[p][m] = "waiting"
      /\ \A n \in Messages \ {m} : snap'[p][n] = snap[p][n] /\ verdict'[p][n] = verdict[p][n]
  <2>1. /\ snap'[p] = [snap[p] EXCEPT ![m] = NotLeased]
        /\ verdict'[p] = [verdict[p] EXCEPT ![m] = "waiting"]
    BY <1>2 DEF TypeOK
  <2>2. QED
    BY <2>1 DEF TypeOK
<1>4. /\ \A n \in Messages \ {m} : msgs'[n] = msgs[n]
      /\ \/ verdict[p][m] = "accepted" /\ msgs'[m] = Completed(msgs[m])
         \/ /\ verdict[p][m] = "deferred"
            /\ msgs'[m] = Deferred(msgs[m], snap[p][m].attempts, MaxAttempts)
         \/ /\ verdict[p][m] = "rejected"
            /\ msgs'[m] = Deferred(msgs[m], snap[p][m].attempts, 1)
  BY DEF SettleMessage, CompleteMessage, DeferMessage, TypeOK
<1>5. /\ msgs'[m].payload = msgs[m].payload
      /\ msgs'[m].status \in {"completed", "dead_letter", "retry"}
      /\ msgs'[m].status = "dead_letter" =>
            \/ verdict[p][m] = "deferred" /\ snap[p][m].attempts >= MaxAttempts
            \/ verdict[p][m] = "rejected"
  BY <1>1, <1>4 DEF Completed, Deferred, MessageRows
<1>6. Exhausted
  <2>1. CASE verdict[p][m] = "rejected"
    <3>1. GivenUp(m)
      BY <1>1, <2>1 DEF AttemptsInv
    <3>2. QED
      BY <1>1, <1>4, <3>1 DEF Exhausted, GivenUp
  <2>2. CASE verdict[p][m] = "deferred" /\ snap[p][m].attempts >= MaxAttempts
    <3>1. msgs[m].attempts = snap[p][m].attempts /\ msgs[m].attempts \in 0..MaxAttempts
      BY <1>1, <2>2 DEF AttemptsInv, InHand, MessageRows
    <3>2. msgs[m].attempts = MaxAttempts
      BY <2>2, <3>1, MaxAttemptsAssumption
    <3>3. QED
      BY <1>1, <1>4, <3>2 DEF Exhausted
  <2>3. CASE msgs'[m].status # "dead_letter"
    BY <1>1, <1>4, <2>3 DEF Exhausted
  <2>4. QED
    BY <1>5, <2>1, <2>2, <2>3
<1>7. FitInv'
  <2>1. \A n \in Messages : msgs'[n].payload = msgs[n].payload
    BY <1>4, <1>5
  <2>2. QED
    BY <1>1, <2>1 DEF GiveUpInv, FitInv
<1>8. NoneLeased
  <2>1. \A n \in Messages : GivenUp(n) => GivenUp(n)'
    BY <1>1 DEF GivenUp
  <2>2. QED
    BY <1>1, <1>4, <1>5, <2>1 DEF NoneLeased
<1>9. AttemptsInv(p)'
  <2>1. \A n \in Messages : ToSend(p, n)' <=> ToSend(p, n)
    BY <1>1 DEF ToSend, InRest
  <2>2. ASSUME NEW n \in Messages, msgs'[n].status = "inflight"
        PROVE  /\ InHand(p, n)' => msgs'[n].attempts = snap'[p][n].attempts
               /\ ToSend(p, n)' /\ ~Whole(msgs'[n]) => GivenUp(n)'
               /\ verdict'[p][n] = "rejected" => GivenUp(n)'
    <3>1. n # m /\ msgs'[n] = msgs[n] /\ msgs[n].status = "inflight"
      BY <1>4, <1>5, <2>2
    <3>2. GivenUp(n)' <=> GivenUp(n)
      BY <1>1 DEF GivenUp
    <3>3. /\ snap'[p][n] = snap[p][n] /\ verdict'[p][n] = verdict[p][n]
          /\ InHand(p, n)' <=> InHand(p, n)
      BY <1>3, <2>1, <3>1 DEF InHand
    <3>4. QED
      BY <1>1, <2>1, <3>1, <3>2, <3>3 DEF AttemptsInv
  <2>3. QED
    BY <1>1, <2>2 DEF AttemptsInv
<1>10. LocalsUntouched(p) /\ InRun(p)
  BY <1>1, <1>2 DEF LocalsUntouched, InRun, TypeOK
<1>11. QED
  BY <1>6, <1>7, <1>9, <1>10, RunAttempts DEF GiveUpInv

LEMMA QuietAttempts ==
    ASSUME TypeOK, TypeOK', GiveUpInv, Tick \/ UNCHANGED vars
    PROVE  GiveUpInv' /\ Exhausted
<1>1. UNCHANGED <<pc, mediaLease, current, snap, batch, rest, verdict>>
  BY DEF Tick, Others, vars, mediaLocals, messageLocals
<1> DEFINE Calm ==
        /\ \A m \in Messages :
              /\ msgs'[m].status = msgs[m].status /\ msgs'[m].attempts = msgs[m].attempts
              /\ msgs'[m].payload = msgs[m].payload
        /\ \A s \in Slots :
              media'[s].status = media[s].status /\ media'[s].attempts = media[s].attempts
<1>2. Calm
  <2>1. ASSUME NEW n \in Messages, MessageLeaseExpires(n) \/ MessageBackoffElapses(n)
        PROVE  Calm
    <3>1. msgs[n] \in MessageRows
      BY DEF TypeOK
    <3>2. /\ \A m \in Messages \ {n} : msgs'[m] = msgs[m]
          /\ \/ msgs'[n] = [msgs[n] EXCEPT !.lease = "expired"]
             \/ msgs'[n] = [msgs[n] EXCEPT !.due = TRUE]
          /\ media' = media
      BY <2>1 DEF MessageLeaseExpires, MessageBackoffElapses, TypeOK
    <3>3. /\ msgs'[n].status = msgs[n].status /\ msgs'[n].payload = msgs[n].payload
          /\ msgs'[n].attempts = msgs[n].attempts
      BY <3>1, <3>2 DEF MessageRows
    <3>4. QED
      BY <3>2, <3>3
  <2>2. ASSUME NEW s \in Slots, MediaLeaseExpires(s) \/ MediaBackoffElapses(s)
        PROVE  Calm
    <3>1. media[s] \in MediaRows
      BY DEF TypeOK
    <3>2. /\ \A t \in Slots \ {s} : media'[t] = media[t]
          /\ \/ media'[s] = [media[s] EXCEPT !.lease = "expired"]
             \/ media'[s] = [media[s] EXCEPT !.due = TRUE]
          /\ msgs' = msgs
      BY <2>2 DEF MediaLeaseExpires, MediaBackoffElapses, TypeOK
    <3>3. media'[s].status = media[s].status /\ media'[s].attempts = media[s].attempts
      BY <3>1, <3>2 DEF MediaRows
    <3>4. QED
      BY <3>2, <3>3
  <2>3. CASE UNCHANGED vars
    BY <2>3 DEF vars, tables
  <2>4. QED
    BY <2>1, <2>2, <2>3 DEF Tick, TimePasses
<1>3. \A m \in Messages : GivenUp(m) => GivenUp(m)'
  <2>1. \A m \in Messages : SlotsOf(m) \subseteq Slots
    BY DEF SlotsOf, Slots
  <2>2. QED
    BY <1>2, <2>1 DEF GivenUp
<1>4. NoneLeased /\ FitInv' /\ Exhausted
  BY <1>2, <1>3 DEF NoneLeased, GiveUpInv, FitInv, Exhausted
<1>5. QED
  BY <1>1, <1>4, AttemptsKept, HeldIsKept DEF GiveUpInv

LEMMA GiveUpStep ==
    ASSUME OnlyUnavailable, TypeOK, TypeOK', ReconcileInv, GiveUpInv, [Next]_vars
    PROVE  GiveUpInv' /\ Exhausted
<1> DEFINE Kept == GiveUpInv' /\ Exhausted
<1> HIDE DEF Kept
<1>1. ASSUME NEW p \in Procs, ScanPage(p) PROVE Kept
  <2>1. pc[p] = "reconcile"
    BY <1>1 DEF ScanPage, ReconcileInv, PatchInv
  <2>2. PICK page \in SUBSET Messages : \E views :
           /\ \A m \in page, e \in Elements : views[m][e] \in SourceViews[e]
           /\ EnqueuePage(page, views, TRUE)
    BY <1>1, <2>1 DEF ScanPage
  <2>3. UNCHANGED <<pc, mediaLease, current, snap, batch, rest, verdict>>
    BY <1>1 DEF ScanPage, mediaLocals, messageLocals
  <2>4. PICK views :
           /\ \A m \in page, e \in Elements : views[m][e] # "thumbnail"
           /\ EnqueuePage(page, views, TRUE)
    BY <2>2 DEF OnlyUnavailable
  <2>5. QED
    BY <2>3, <2>4, ScanGivesNothingUp DEF Kept
<1>2. ASSUME NEW kind \in ManualScans, ManualScan(kind) PROVE Kept
  <2>1. kind = "reconcile"
    BY DEF OnlyUnavailable, Reconciling
  <2>2. PICK page \in SUBSET Messages : \E views :
           /\ \A m \in page, e \in Elements : views[m][e] \in SourceViews[e]
           /\ EnqueuePage(page, views, TRUE)
    BY <1>2, <2>1 DEF ManualScan
  <2>3. UNCHANGED <<pc, mediaLease, current, snap, batch, rest, verdict>>
    BY <1>2 DEF ManualScan, mediaLocals, messageLocals
  <2>4. PICK views :
           /\ \A m \in page, e \in Elements : views[m][e] # "thumbnail"
           /\ EnqueuePage(page, views, TRUE)
    BY <2>2 DEF OnlyUnavailable
  <2>5. QED
    BY <2>3, <2>4, ScanGivesNothingUp DEF Kept
<1>3. ASSUME NEW p \in Procs,
             \/ Start(p) \/ Crash(p) \/ StartRun(p) \/ SourceUnavailable(p) \/ FinishRun(p)
             \/ \E s \in Slots : MediaLeaseLost(p, s)
             \/ PatchRaises(p) \/ ConfirmRaises(p)
             \/ \E m \in Messages : SettleRaises(p, m)
      PROVE  Kept
  BY <1>3, RunGivesNothingUp DEF Kept
<1>4. ASSUME NEW p \in Procs,
             \/ LeaseMedia(p) \/ PatchMedia(p) \/ ConfirmMedia(p)
             \/ \E s \in Slots : UploadMedia(p, s) \/ MediaFaulted(p, s)
      PROVE  Kept
  BY <1>4, LeaseMediaAttempts, UploadAttempts, PatchAttempts, ConfirmAttempts DEF Kept
<1>5. ASSUME NEW p \in Procs,
             \/ LeaseMessages(p)
             \/ BatchAccepted(p) \/ BatchFaulted(p) \/ BatchSplit(p) \/ BatchRejected(p)
             \/ \E m \in Messages : SettleMessage(p, m)
             \/ NextBatch(p)
      PROVE  Kept
  BY <1>5, LeaseMessagesAttempts, AnswerAttempts, RestAttempts, SettleAttempts DEF Kept
<1>6. ASSUME Tick \/ UNCHANGED vars PROVE Kept
  BY <1>6, QuietAttempts DEF Kept
<1>7. ~OperatorRequeues
  BY DEF OnlyUnavailable, OperatorRequeues
<1>8. ASSUME NEW p \in Procs, Upload(p) PROVE Kept
  BY <1>3, <1>4, <1>5, <1>8 DEF Upload
<1>9. Kept
  BY <1>1, <1>2, <1>3, <1>4, <1>6, <1>7, <1>8 DEF Next
<1>10. QED
  BY <1>9 DEF Kept

LEMMA GiveUpInit == Init => GiveUpInv
<1> SUFFICES ASSUME Init PROVE GiveUpInv
  OBVIOUS
<1>1. FitInv
  BY ParsedFits DEF Init, QueueInit, AbsentMessage, AbsentMedia, BlankPayload, FitInv
<1>2. ASSUME NEW p \in Procs PROVE AttemptsInv(p)
  BY DEF Init, QueueInit, AbsentMessage, AttemptsInv
<1>3. QED
  BY <1>1, <1>2 DEF GiveUpInv

\* Nothing is given up early: while the server is merely unavailable, a media row
\* becomes a dead letter only after MaxAttempts attempts, and so does a message, unless
\* one of its media rows was given up first.  Crashes, forced scans in the middle of
\* an upload and leases that run out change nothing of that, since mark_retry judges the
\* leased copy and that copy still has the attempts of a row that is still inflight.
THEOREM NothingDiesEarly == ASSUME OnlyUnavailable PROVE Spec => DeadLetterOnlyWhenExhausted
<1> DEFINE Inv == QueueInv /\ LocalTypeOK /\ ReconcileInv /\ GiveUpInv
<1>1. QueueInv /\ LocalTypeOK => TypeOK
  BY TypeParts DEF QueueInv
<1>2. Inv /\ [Next]_vars => Inv' /\ Exhausted
  <2> SUFFICES ASSUME QueueInv, LocalTypeOK, ReconcileInv, GiveUpInv, [Next]_vars
               PROVE  Inv' /\ Exhausted
    OBVIOUS
  <2>1. TypeOK /\ QueueInv' /\ LocalTypeOK'
    BY <1>1, TypeStep
  <2>2. TypeOK'
    BY <2>1 DEF QueueInv, QueueTypeOK, LocalTypeOK, TypeOK
  <2>3. GateInv'
    BY GateStep DEF OnlyUnavailable, Reconciling, ReconcileInv
  <2>4. RowsInv' /\ \A p \in Procs : PatchInv(p)'
    BY <2>1, PatchStep DEF OnlyUnavailable
  <2>5. GiveUpInv' /\ Exhausted
    BY <2>1, <2>2, GiveUpStep
  <2>6. QED
    BY <2>1, <2>3, <2>4, <2>5 DEF ReconcileInv
<1>3. Init => Inv
  BY TypeInit, PatchInit, GiveUpInit DEF OnlyUnavailable
<1>4. Inv /\ [Next]_vars => [Exhausted]_vars
  BY <1>2
<1>5. DeadLetterOnlyWhenExhausted <=> [][Exhausted]_vars
  BY DEF DeadLetterOnlyWhenExhausted, Exhausted
<1> HIDE DEF Inv
<1>6. QED
  BY <1>2, <1>3, <1>4, <1>5, PTL DEF Spec

-----------------------------------------------------------------------------
(* The collector implements the outbox *)

LEMMA FateIsOpaque == \A r1, r2 : r1.status = r2.status => Fate(r1) = Fate(r2)
BY DEF Fate

LEMMA FateOfInflight ==
    ASSUME NEW r, r.status \in {"pending", "inflight", "retry"}
    PROVE  Fate(r) = "waiting"
BY DEF Fate

-----------------------------------------------------------------------------
(* One lemma per kind of transaction *)

\* What leaves the fate and the payload of every row alone is not seen.
LEMMA Unseen ==
    ASSUME \A m \in Messages :
               Fate(msgs'[m]) = Fate(msgs[m]) /\ msgs'[m].payload = msgs[m].payload,
           acked' = acked
    PROVE  UNCHANGED Box!outbox
BY DEF Box!outbox

LEMMA ScanIsSeen ==
    ASSUME QueueTypeOK, NEW page \in SUBSET Messages, NEW views, NEW force \in BOOLEAN,
           EnqueuePage(page, views, force), acked' = acked
    PROVE  Box!Scan(page)
<1>1. ASSUME NEW m \in Messages \ page PROVE Box!Keeps(m)
  BY <1>1 DEF EnqueuePage, ScannedMessages, Box!Keeps
<1>2. ASSUME NEW m \in page PROVE Box!Enter(m) \/ Box!Rewrite(m) \/ Box!Keeps(m)
  <2> DEFINE payload == [e \in Elements |-> PartOf(views[m][e])]
  <2>1. msgs[m] \in MessageRows
    BY DEF QueueTypeOK
  <2>2. msgs'[m] = UpsertedMessage(msgs[m], payload, force)
    BY DEF EnqueuePage, ScannedMessages
  <2> HIDE DEF payload
  <2>3. CASE msgs[m].status = "absent" \/ force
    <3>1. msgs'[m].status = "pending"
      BY <2>1, <2>2, <2>3 DEF UpsertedMessage, AbsentMessage, MessageRows
    <3>2. QED
      BY <3>1 DEF Box!Enter, Fate
  <2>4. CASE msgs[m].status # "absent" /\ ~force
    <3>1. msgs'[m].status = msgs[m].status
      BY <2>1, <2>2, <2>4 DEF UpsertedMessage, MessageRows
    <3>2. msgs[m].status = "completed" => msgs'[m].payload = msgs[m].payload
      BY <2>1, <2>2, <2>4 DEF UpsertedMessage, MessageRows
    <3>3. CASE msgs[m].status = "completed"
      BY <3>1, <3>2, <3>3 DEF Box!Keeps, Fate
    <3>4. CASE msgs[m].status # "completed"
      BY <2>4, <3>1, <3>4 DEF Box!Rewrite, Fate
    <3>5. QED
      BY <3>3, <3>4
  <2>5. QED
    BY <2>3, <2>4
<1>3. QED
  BY <1>1, <1>2 DEF Box!Scan

LEMMA LeaseIsUnseen ==
    ASSUME QueueTypeOK, NEW picked \in SUBSET Messages, LeaseMessageRows(picked), acked' = acked
    PROVE  UNCHANGED Box!outbox
<1> SUFFICES ASSUME NEW m \in Messages
             PROVE  Fate(msgs'[m]) = Fate(msgs[m]) /\ msgs'[m].payload = msgs[m].payload
  BY Unseen
<1> DEFINE row == Reclaimed(msgs[m])
<1>1. msgs[m] \in MessageRows
  BY DEF QueueTypeOK
<1>2. row.payload = msgs[m].payload /\ Fate(row) = Fate(msgs[m])
  BY <1>1 DEF Reclaimed, MessageRows, Fate
<1>3. row \in MessageRows
  BY <1>1 DEF Reclaimed, MessageRows, Statuses
<1>4. msgs'[m] = IF m \in picked THEN Leased(row) ELSE row
  BY DEF LeaseMessageRows
<1>5. m \in picked => Leasable(row)
  BY DEF LeaseMessageRows, Picks
<1> HIDE DEF row
<1>6. Leasable(row) => Leased(row).payload = row.payload /\ Fate(Leased(row)) = Fate(row)
  BY <1>3 DEF Leasable, Leased, MessageRows, Fate
<1>7. QED
  BY <1>2, <1>4, <1>5, <1>6

\* A step that changes one row, and what the outbox sees of it.
LEMMA OneRow ==
    ASSUME QueueTypeOK, NEW m \in Messages, NEW row, msgs' = [msgs EXCEPT ![m] = row],
           acked' = acked
    PROVE  /\ msgs'[m] = row /\ \A n \in Messages \ {m} : msgs'[n] = msgs[n]
           /\ \A n \in Messages \ {m} : Box!Keeps(n)
           /\ Fate(row) = Fate(msgs[m]) /\ row.payload = msgs[m].payload
                 => UNCHANGED Box!outbox
<1>1. msgs'[m] = row /\ \A n \in Messages \ {m} : msgs'[n] = msgs[n]
  BY DEF QueueTypeOK
<1>2. \A n \in Messages \ {m} : Box!Keeps(n)
  BY <1>1 DEF Box!Keeps
<1>3. Fate(row) = Fate(msgs[m]) /\ row.payload = msgs[m].payload => UNCHANGED Box!outbox
  BY <1>1, Unseen
<1>4. QED
  BY <1>1, <1>2, <1>3

LEMMA DeferIsSeen ==
    ASSUME QueueTypeOK, NEW m \in Messages, NEW attempts, NEW max,
           DeferMessage(m, attempts, max), acked' = acked
    PROVE  Box!GiveUp(m) \/ UNCHANGED Box!outbox
<1> DEFINE row == Deferred(msgs[m], attempts, max)
<1>1. msgs[m] \in MessageRows /\ msgs[m].status = "inflight"
  BY DEF QueueTypeOK, DeferMessage
<1>2. msgs' = [msgs EXCEPT ![m] = row]
  BY DEF DeferMessage
<1>3. row.payload = msgs[m].payload /\ row.status \in {"retry", "dead_letter"}
  BY <1>1 DEF Deferred, MessageRows
<1> HIDE DEF row
<1>4. CASE row.status = "retry"
  BY <1>1, <1>2, <1>3, <1>4, OneRow DEF Fate
<1>5. CASE row.status = "dead_letter"
  <2>1. Fate(msgs[m]) = "waiting" /\ Fate(row) = "given up"
    BY <1>1, <1>5 DEF Fate
  <2>2. msgs'[m] = row /\ \A n \in Messages \ {m} : msgs'[n] = msgs[n]
    BY <1>2, OneRow
  <2>3. \A n \in Messages : msgs'[n].payload = msgs[n].payload
    BY <1>3, <2>2
  <2>4. QED
    BY <2>1, <2>2, <2>3 DEF Box!GiveUp
<1>6. QED
  BY <1>3, <1>4, <1>5

LEMMA RequeueIsSeen ==
    ASSUME QueueTypeOK, NEW m \in Messages, RequeueMessage(m), acked' = acked
    PROVE  Box!Retry(m)
<1> DEFINE row == Requeued(msgs[m])
<1>1. msgs[m] \in MessageRows /\ msgs[m].status = "dead_letter"
  BY DEF QueueTypeOK, RequeueMessage
<1>2. msgs' = [msgs EXCEPT ![m] = row]
  BY DEF RequeueMessage
<1>3. row.payload = msgs[m].payload /\ row.status = "pending"
  BY <1>1 DEF Requeued, MessageRows
<1> HIDE DEF row
<1>4. Fate(msgs[m]) = "given up" /\ Fate(row) = "waiting"
  BY <1>1, <1>3 DEF Fate
<1>5. msgs'[m] = row /\ \A n \in Messages \ {m} : msgs'[n] = msgs[n]
  BY <1>2, OneRow
<1>6. \A n \in Messages : msgs'[n].payload = msgs[n].payload
  BY <1>3, <1>5
<1>7. QED
  BY <1>4, <1>5, <1>6 DEF Box!Retry

LEMMA PatchIsSeen ==
    ASSUME QueueTypeOK, NEW s \in Slots, PatchMessage(s), acked' = acked
    PROVE  Box!Amend(s[1]) \/ UNCHANGED Box!outbox
<1> DEFINE m == s[1]  row == PatchedMessage(msgs[m], s)
<1>1. m \in Messages
  BY DEF Slots
<1>2. msgs[m] \in MessageRows /\ msgs[m].status # "absent"
  BY <1>1 DEF QueueTypeOK, PatchMessage
<1>3. msgs' = [msgs EXCEPT ![m] = row]
  BY DEF PatchMessage
<1>4. msgs[m].status = "completed" => row = msgs[m]
  BY DEF PatchedMessage
<1>5. msgs[m].status = "dead_letter" => row.status = "pending"
  BY <1>2 DEF PatchedMessage, Requeued, MessageRows
<1>6. msgs[m].status \notin {"completed", "dead_letter"} => row.status = msgs[m].status
  BY <1>2 DEF PatchedMessage, MessageRows
<1> HIDE DEF m, row
<1>7. CASE msgs[m].status = "completed"
  BY <1>1, <1>3, <1>4, <1>7, OneRow
<1>8. CASE msgs[m].status # "completed"
  <2>1. Fate(msgs[m]) \in {"waiting", "given up"} /\ Fate(row) \in {Fate(msgs[m]), "waiting"}
    BY <1>2, <1>5, <1>6, <1>8 DEF Fate
  <2>2. msgs'[m] = row /\ \A n \in Messages \ {m} : Box!Keeps(n)
    BY <1>1, <1>3, OneRow
  <2>3. Box!Amend(m)
    BY <1>1, <2>1, <2>2 DEF Box!Amend
  <2>4. QED
    BY <2>3 DEF m
<1>9. QED
  BY <1>7, <1>8

LEMMA TimeIsUnseen ==
    ASSUME QueueTypeOK, TimePasses, acked' = acked
    PROVE  UNCHANGED Box!outbox
<1>1. ASSUME NEW m \in Messages, MessageLeaseExpires(m) \/ MessageBackoffElapses(m)
      PROVE  UNCHANGED Box!outbox
  <2>1. PICK row : /\ msgs' = [msgs EXCEPT ![m] = row]
                   /\ row.status = msgs[m].status /\ row.payload = msgs[m].payload
    <3>1. msgs[m] \in MessageRows
      BY DEF QueueTypeOK
    <3>2. msgs' = [msgs EXCEPT ![m] = [msgs[m] EXCEPT !.lease = "expired"]]
             \/ msgs' = [msgs EXCEPT ![m] = [msgs[m] EXCEPT !.due = TRUE]]
      BY <1>1 DEF MessageLeaseExpires, MessageBackoffElapses
    <3>3. QED
      BY <3>1, <3>2 DEF MessageRows
  <2>2. Fate(row) = Fate(msgs[m])
    BY <2>1 DEF Fate
  <2>3. QED
    BY <2>1, <2>2, OneRow
<1>2. ASSUME UNCHANGED msgs PROVE UNCHANGED Box!outbox
  BY <1>2, Unseen
<1>3. QED
  BY <1>1, <1>2 DEF TimePasses, MediaLeaseExpires, MediaBackoffElapses

\* Requests: what the server accepts of a batch are rows that wait, as they are.
LEMMA AnswerIsSeen ==
    ASSUME TypeOK, OutcomeInv, NEW p \in Procs, BatchAccepted(p) \/ BatchFaulted(p)
    PROVE  \E accepted \in SUBSET Messages : Box!Receive(accepted)
<1>1. PICK accepted \in SUBSET batch[p] : Accept(p, accepted)
  BY DEF BatchAccepted, BatchFaulted
<1>2. batch[p] \subseteq Messages
  BY DEF TypeOK
<1>3. pc[p] = "sending" /\ UNCHANGED msgs
  BY DEF BatchAccepted, BatchFaulted, tables
<1>4. MessageInv(p)
  BY DEF OutcomeInv
<1>5. ASSUME NEW m \in accepted
      PROVE  Fate(msgs[m]) = "waiting" /\ snap[p][m].payload = msgs[m].payload
  <2>1. snap[p][m].attempts > 0
    BY <1>2, <1>3, <1>4 DEF MessageInv
  <2>2. msgs[m].status = "inflight" /\ msgs[m].payload = snap[p][m].payload
    BY <1>2, <1>4, <2>1 DEF MessageInv
  <2>3. QED
    BY <2>2, FateOfInflight
<1>6. acked' = [m \in Messages |-> IF m \in accepted THEN {msgs[m].payload} ELSE acked[m]]
  BY <1>1, <1>5 DEF Accept
<1>7. accepted \in SUBSET Messages
  BY <1>2
<1>8. Box!Receive(accepted)
  BY <1>3, <1>5, <1>6, <1>7 DEF Box!Receive
<1>9. QED
  BY <1>7, <1>8

\* The outcome of a message that was accepted is written back while the server
\* still holds the payload of its row.
LEMMA SettlingIsSeen ==
    ASSUME TypeOK, OutcomeInv, NEW p \in Procs, NEW m \in Messages, SettleMessage(p, m)
    PROVE  Box!Deliver(m) \/ Box!GiveUp(m) \/ UNCHANGED Box!outbox
<1>1. QueueTypeOK /\ MessageInv(p) /\ acked' = acked
  BY TypeParts DEF OutcomeInv, SettleMessage, server
<1>2. ASSUME NEW attempts, NEW max, DeferMessage(m, attempts, max)
      PROVE  Box!GiveUp(m) \/ UNCHANGED Box!outbox
  BY <1>1, <1>2, DeferIsSeen
<1>3. ASSUME verdict[p][m] = "accepted", CompleteMessage(m) PROVE Box!Deliver(m)
  <2> DEFINE row == Completed(msgs[m])
  <2>1. msgs[m] \in MessageRows /\ msgs[m].status = "inflight"
    BY <1>1, <1>3 DEF QueueTypeOK, CompleteMessage
  <2>2. msgs' = [msgs EXCEPT ![m] = row]
    BY <1>3 DEF CompleteMessage
  <2>3. row.payload = msgs[m].payload /\ row.status = "completed"
    BY <2>1 DEF Completed, MessageRows
  <2> HIDE DEF row
  <2>4. Fate(msgs[m]) = "waiting" /\ Fate(row) = "delivered"
    BY <2>1, <2>3 DEF Fate
  <2>5. msgs'[m] = row /\ \A n \in Messages \ {m} : msgs'[n] = msgs[n]
    BY <1>1, <2>2, OneRow
  <2>6. \A n \in Messages : msgs'[n].payload = msgs[n].payload
    BY <2>3, <2>5
  <2>7. acked[m] = {msgs[m].payload}
    <3>1. pc[p] = "settling" /\ m \in batch[p]
      BY DEF SettleMessage
    <3>2. snap[p][m].attempts > 0 /\ acked[m] = {snap[p][m].payload}
      BY <1>1, <1>3, <3>1 DEF MessageInv
    <3>3. QED
      BY <1>1, <3>2 DEF MessageInv
  <2>8. QED
    BY <1>1, <2>4, <2>5, <2>6, <2>7 DEF Box!Deliver
<1>4. QED
  BY <1>2, <1>3 DEF SettleMessage

-----------------------------------------------------------------------------
(* The refinement *)

LEMMA QuietIsUnseen ==
    ASSUME UNCHANGED <<msgs, acked>>
    PROVE  UNCHANGED Box!outbox
BY Unseen

LEMMA StepIsSeen ==
    ASSUME Gated, TypeOK, OutcomeInv, [Next]_vars
    PROVE  [Box!Next]_(Box!outbox)
<1> DEFINE Seen == Box!Next \/ UNCHANGED Box!outbox
<1>1. QueueTypeOK
  BY TypeParts
<1>2. ASSUME NEW p \in Procs, ScanPage(p) PROVE Box!Next
  <2>1. PICK page \in SUBSET Messages :
           \E views \in [page -> [Elements -> Views]] :
               EnqueuePage(page, views, pc[p] = "reconcile")
    BY <1>2 DEF ScanPage
  <2>2. Box!Scan(page)
    BY <1>1, <1>2, <2>1, ScanIsSeen DEF ScanPage, server
  <2>3. QED
    BY <2>2 DEF Box!Next
<1>3. ASSUME NEW p \in Procs,
             \/ Start(p) \/ Crash(p) \/ StartRun(p) \/ SourceUnavailable(p) \/ FinishRun(p)
             \/ \E s \in Slots : UploadMedia(p, s) \/ MediaLeaseLost(p, s)
             \/ PatchRaises(p) \/ ConfirmRaises(p)
             \/ BatchSplit(p) \/ BatchRejected(p)
             \/ \E m \in Messages : SettleRaises(p, m)
             \/ NextBatch(p)
      PROVE  Seen
  <2>1. UNCHANGED <<msgs, acked>>
    BY <1>3 DEF Start, Crash, StartRun, SourceUnavailable, FinishRun, UploadMedia,
       MediaLeaseLost, PatchRaises, ConfirmRaises, BatchSplit, BatchRejected, SettleRaises,
       NextBatch, Raise, tables, server
  <2>2. QED
    BY <2>1, QuietIsUnseen
<1>4. ASSUME NEW p \in Procs,
             \/ LeaseMedia(p) \/ ConfirmMedia(p) \/ \E s \in Slots : MediaFaulted(p, s)
      PROVE  Seen
  <2>1. UNCHANGED <<msgs, acked>>
    BY <1>4 DEF LeaseMedia, LeaseMediaRows, ConfirmMedia, CompleteMedia, MediaFaulted,
       DeferMedia, server
  <2>2. QED
    BY <2>1, QuietIsUnseen
<1>5. ASSUME NEW p \in Procs, PatchMedia(p) PROVE Seen
  <2>1. PICK s \in Slots : PatchMessage(s)
    BY <1>5 DEF PatchMedia, TypeOK
  <2>2. s[1] \in Messages
    BY DEF Slots
  <2>3. acked' = acked
    BY <1>5 DEF PatchMedia, server
  <2>4. QED
    BY <1>1, <2>1, <2>2, <2>3, PatchIsSeen DEF Box!Next
<1>6. ASSUME NEW p \in Procs, LeaseMessages(p) PROVE Seen
  <2>1. acked' = acked /\ \E picked \in SUBSET Messages : LeaseMessageRows(picked)
    BY <1>6 DEF LeaseMessages, server
  <2>2. QED
    BY <1>1, <2>1, LeaseIsUnseen
<1>7. ASSUME NEW p \in Procs, BatchAccepted(p) \/ BatchFaulted(p) PROVE Seen
  BY <1>7, AnswerIsSeen DEF Box!Next
<1>8. ASSUME NEW p \in Procs, NEW m \in Messages, SettleMessage(p, m) PROVE Seen
  BY <1>8, SettlingIsSeen DEF Box!Next
<1>9. ASSUME OperatorRequeues PROVE Seen
  <2>1. acked' = acked
    BY <1>9 DEF OperatorRequeues, Others, server
  <2>2. CASE \E m \in Messages : RequeueMessage(m)
    BY <1>1, <2>1, <2>2, RequeueIsSeen DEF Box!Next
  <2>3. CASE \E s \in Slots : RequeueMedia(s)
    BY <2>1, <2>3, QuietIsUnseen DEF RequeueMedia
  <2>4. QED
    BY <1>9, <2>2, <2>3 DEF OperatorRequeues
<1>10. ASSUME Tick PROVE Seen
  <2>1. acked' = acked /\ TimePasses
    BY <1>10 DEF Tick, Others, server
  <2>2. QED
    BY <1>1, <2>1, TimeIsUnseen
<1>11. ASSUME UNCHANGED vars PROVE Seen
  <2>1. UNCHANGED <<msgs, acked>>
    BY <1>11 DEF vars, tables, server
  <2>2. QED
    BY <2>1, QuietIsUnseen
<1>12. ~ \E kind \in ManualScans : ManualScan(kind)
  BY DEF Gated
<1> HIDE DEF Seen
<1>13. ASSUME NEW p \in Procs, Upload(p) PROVE Seen
  BY <1>3, <1>4, <1>5, <1>6, <1>7, <1>8, <1>13 DEF Upload
<1>14. Seen
  BY <1>2, <1>3, <1>4, <1>9, <1>10, <1>11, <1>12, <1>13 DEF Next, Seen
<1>15. QED
  BY <1>14 DEF Seen

LEMMA InitIsSeen == Init => Box!Init
BY DEF Init, QueueInit, AbsentMessage, Fate, Box!Init

\* The running collector is an outbox: whatever is leased, retried, split, lost or
\* crashed, each message waits until the server has accepted the content of its row.
THEOREM SyncImplementsOutbox == ASSUME Gated PROVE Spec => ImplementsOutbox
<1>1. QueueInv /\ LocalTypeOK => TypeOK
  BY TypeParts DEF QueueInv
<1>2. TypeOK /\ OutcomeInv /\ [Next]_vars => [Box!Next]_(Box!outbox)
  BY StepIsSeen
<1>3. QED
  BY <1>1, <1>2, InitIsSeen, OutcomeInvariant, PTL DEF Spec, ImplementsOutbox, Box!Spec

\* What an outbox calls delivered is what the server received last: the tables of any
\* collector that implements it, leases and gate or not.
THEOREM OutboxKeepsItsPromise == ImplementsOutbox => []CompletedMeansAccepted
<1>1. Box!DeliveredIsReceived <=> CompletedMeansAccepted
  BY DEF Box!DeliveredIsReceived, CompletedMeansAccepted, Fate
<1>2. Box!Init => Box!DeliveredIsReceived
  BY DEF Box!Init, Box!DeliveredIsReceived
<1>3. Box!DeliveredIsReceived /\ [Box!Next]_(Box!outbox) => Box!DeliveredIsReceived'
  <2> SUFFICES ASSUME Box!DeliveredIsReceived, [Box!Next]_(Box!outbox)
               PROVE  Box!DeliveredIsReceived'
    OBVIOUS
  <2> USE DEF Box!DeliveredIsReceived
  <2>1. ASSUME NEW page \in SUBSET Messages, Box!Scan(page) PROVE Box!DeliveredIsReceived'
    BY <2>1 DEF Box!Scan, Box!Enter, Box!Rewrite, Box!Keeps
  <2>2. ASSUME NEW accepted \in SUBSET Messages, Box!Receive(accepted)
        PROVE  Box!DeliveredIsReceived'
    BY <2>2 DEF Box!Receive
  <2>3. ASSUME NEW m \in Messages, Box!Amend(m) PROVE Box!DeliveredIsReceived'
    BY <2>3 DEF Box!Amend, Box!Keeps
  <2>4. ASSUME NEW m \in Messages, Box!Deliver(m) PROVE Box!DeliveredIsReceived'
    BY <2>4 DEF Box!Deliver
  <2>5. ASSUME NEW m \in Messages, Box!GiveUp(m) \/ Box!Retry(m)
        PROVE  Box!DeliveredIsReceived'
    BY <2>5 DEF Box!GiveUp, Box!Retry
  <2>6. CASE UNCHANGED Box!outbox
    BY <2>6 DEF Box!outbox
  <2>7. QED
    BY <2>1, <2>2, <2>3, <2>4, <2>5, <2>6 DEF Box!Next
<1>4. QED
  BY <1>1, <1>2, <1>3, PTL DEF ImplementsOutbox, Box!Spec
=============================================================================
