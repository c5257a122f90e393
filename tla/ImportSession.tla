--------------------------- MODULE ImportSession ---------------------------
(***************************************************************************)
(* The collector's conversation with the import service: how one lot of    *)
(* leased messages becomes a batch (collector/sync/uploader.py,            *)
(* _create_writable_batch and _upload_message_items), over a connection    *)
(* that loses answers.  A request the collector gave up on may still be    *)
(* executed by the server, once, at any later time, after newer requests   *)
(* for the same messages.                                                  *)
(*                                                                         *)
(* The collector's queue is abstracted to the items still to be delivered  *)
(* and the reference each of them carries now; CollectorSync has the queue *)
(* itself.  Media is uploaded, and confirmed, before an item is leased,    *)
(* which is HashesOnServer there.                                          *)
(***************************************************************************)
EXTENDS ImportService

CONSTANTS
    Fresh,         \* ids _fresh_batch_id may draw
    MaxScans,      \* bound on rescans of an item
    MaxLost,       \* bound on requests the collector gives up on
    MaxFaults      \* bound on answers to new chunks that call an item failed

\* _batch_id is a function of the leased rows, _fresh_batch_id of a nonce.
LotIds == (SUBSET Items) \ {{}}

ASSUME SessionAssumption ==
    /\ LotIds \subseteq BatchIds
    /\ Fresh \subseteq BatchIds
    /\ LotIds \intersect Fresh = {}
    /\ MaxScans \in Nat /\ MaxLost \in Nat /\ MaxFaults \in Nat

\* A payload names a file only together with "complete" (patch_message_media).
ASSUME CollectorAssumption ==
    \A found \in Offers : found.asset # NoHash => found.archive = "complete"

VARIABLES
    pending,       \* items queued and not delivered
    offer,         \* the reference each item carries in the queue
    step,          \* what the collector waits for
    request,       \* the payload of the leased lot
    batch,         \* the batch it is sent in
    failed,        \* the items the answer calls failed
    delivered,     \* the reference each item carried when last marked completed
    late,          \* requests given up on that the server may still execute
    scans, lost, faults

queue == <<pending, offer, scans>>
upload == <<step, request, batch, failed>>
bounds == <<lost, faults>>
vars == <<serverVars, queue, upload, delivered, late, bounds>>

NoRequest == [i \in {} |-> NoReference]
NoBatch == {}

Lot == DOMAIN request

Calls ==
    [op : {"create"}, batch : BatchIds]
        \union [op : {"import"}, batch : BatchIds, request : Requests]
        \union [op : {"complete"}, batch : BatchIds, partial : BOOLEAN]

Init ==
    /\ ServerInit
    /\ pending = {}
    /\ offer = [i \in Items |-> NoReference]
    /\ step = "idle"
    /\ request = NoRequest
    /\ batch = NoBatch
    /\ failed = {}
    /\ delivered = [i \in Items |-> {}]
    /\ late = {}
    /\ scans = 0
    /\ lost = 0
    /\ faults = 0

-----------------------------------------------------------------------------
(* The queue *)

FilesOf(ref) == {ref.asset, ref.thumbnail} \ {NoHash}

\* A scan queues an item, or queues it again with what it finds now; the files
\* it stages are uploaded before the item is leased.
Scan(i) ==
    /\ step = "idle"
    /\ scans < MaxScans
    /\ \E found \in Offers :
          /\ offer' = [offer EXCEPT ![i] = found]
          /\ \A h \in FilesOf(found) : UploadMedia(h)
    /\ pending' = pending \union {i}
    /\ scans' = scans + 1
    /\ UNCHANGED <<serverVars, upload, delivered, late, bounds>>

Lease(some) ==
    /\ step = "idle"
    /\ some # {}
    /\ step' = "creating"
    /\ request' = [i \in some |-> offer[i]]
    /\ batch' = some
    /\ failed' = {}
    /\ UNCHANGED <<serverVars, queue, delivered, late, bounds>>

-----------------------------------------------------------------------------
(* One request after the other *)

\* Mutant: the status of the batch is not looked at.
CreateTrusting ==
    /\ step = "creating"
    /\ CreateBatch(batch)
    /\ step' = "importing"
    /\ UNCHANGED <<queue, request, batch, failed, delivered, late, bounds>>

NeverNamed(b) ==
    /\ batches[b].status = "absent"
    /\ \A call \in late : call.batch # b

\* A terminal batch is replaced by a fresh one, whose status is not looked at.
Create ==
    /\ step = "creating"
    /\ CreateBatch(batch)
    /\ IF batch \in LotIds /\ Terminal(batch)
       THEN /\ batch' \in {b \in Fresh : NeverNamed(b)}
            /\ UNCHANGED step
       ELSE /\ step' = "importing"
            /\ UNCHANGED batch
    /\ UNCHANGED <<queue, request, failed, delivered, late, bounds>>

\* The server answers with the items that failed, from the cache if it has
\* answered this very chunk before.
Import ==
    /\ step = "importing"
    /\ \/ \E clashing \in SUBSET Lot :
             /\ ImportChunk(batch, request, clashing)
             /\ failed' = FailedItems(request, clashing)
             /\ failed' # {} => faults < MaxFaults
             /\ faults' = IF failed' # {} THEN faults + 1 ELSE faults
       \/ /\ \E c \in Answered(batch, request) : failed' = c.failed
          /\ UNCHANGED <<serverVars, faults>>
    /\ step' = "completing"
    /\ UNCHANGED <<queue, request, batch, delivered, late, lost>>

\* Mutant: the items the answer calls failed are completed like the others.
SettledWholesale ==
    /\ pending' = pending \ Lot
    /\ delivered' = [i \in Items |-> IF i \in Lot THEN {request[i]} ELSE delivered[i]]

\* mark_completed for the items that did not fail; the others wait for a retry.
Settled ==
    /\ pending' = pending \ (Lot \ failed)
    /\ delivered' = [i \in Items |->
                        IF i \in Lot \ failed THEN {request[i]} ELSE delivered[i]]

Idle ==
    /\ step' = "idle"
    /\ request' = NoRequest
    /\ batch' = NoBatch
    /\ failed' = {}

Complete ==
    /\ step = "completing"
    /\ FinishBatch(batch, FALSE, failed # {})
    /\ Settled
    /\ Idle
    /\ UNCHANGED <<offer, scans, late, bounds>>

\* The lot goes back to the queue for a retry.
Defer ==
    /\ Idle
    /\ UNCHANGED <<serverVars, queue, delivered>>

\* HTTP 409: the batch ended behind the collector's back.  That its completion
\* is refused in the same way cannot happen, see CompletionAccepted.
ImportRefused ==
    /\ step = "importing"
    /\ Answered(batch, request) = {}
    /\ ~Writable(batch)
    /\ Defer
    /\ UNCHANGED <<late, bounds>>

Call ==
    CASE step = "creating"   -> [op |-> "create", batch |-> batch]
      [] step = "importing"  -> [op |-> "import", batch |-> batch, request |-> request]
      [] step = "completing" -> [op |-> "complete", batch |-> batch, partial |-> failed # {}]

\* The collector gives up on its request: it never arrived, or its answer was
\* lost, or it is still to be executed.
GiveUp ==
    /\ step # "idle"
    /\ lost < MaxLost
    /\ lost' = lost + 1
    /\ late' \in {late, late \union {Call}}
    /\ Defer
    /\ UNCHANGED faults

LateCall(call) ==
    /\ late' = late \ {call}
    /\ \/ /\ call.op = "create"
          /\ CreateBatch(call.batch)
       \/ /\ call.op = "import"
          /\ \/ ImportChunk(call.batch, call.request, {})
             \/ /\ Answered(call.batch, call.request) # {} \/ ~Writable(call.batch)
                /\ UNCHANGED serverVars
       \/ /\ call.op = "complete"
          /\ FinishBatch(call.batch, FALSE, call.partial)
    /\ UNCHANGED <<queue, upload, delivered, bounds>>

\* Files and events arrive independently of the lot at hand.
Elsewhere ==
    /\ \/ \E h \in Assets : StoreAsset(h)
       \/ \E i \in Items, h \in Hashes : ReceiveMessage(i, h)
    /\ UNCHANGED <<queue, upload, delivered, late, bounds>>

Next ==
    \/ \E i \in Items : Scan(i)
    \/ \E some \in SUBSET pending : Lease(some)
    \/ Create \/ Import \/ Complete
    \/ ImportRefused
    \/ GiveUp
    \/ \E call \in late : LateCall(call)
    \/ Elsewhere

Spec == Init /\ [][Next]_vars

\* lease_ready takes every row that is ready, and every request is answered or
\* given up on (the HTTP client has a timeout).  Nothing is assumed of the
\* requests that were given up on: they may be executed or not.
Fairness ==
    /\ WF_vars(Lease(pending))
    /\ WF_vars(Create)
    /\ WF_vars(Import \/ ImportRefused)
    /\ WF_vars(Complete)

FairSpec == Spec /\ Fairness

-----------------------------------------------------------------------------
(* Properties *)

SessionTypeOK ==
    /\ ServerTypeOK
    /\ pending \subseteq Items
    /\ offer \in [Items -> Offers \union {NoReference}]
    /\ step \in {"idle", "creating", "importing", "completing"}
    /\ request \in Requests
    /\ batch \in BatchIds \union {NoBatch}
    /\ failed \subseteq Items
    /\ delivered \in [Items -> SUBSET (Offers \union {NoReference})]
    /\ late \subseteq Calls
    /\ scans \in 0..MaxScans
    /\ lost \in 0..MaxLost
    /\ faults \in 0..MaxFaults

\* What the collector marked completed is in the archive and at least as good as
\* what it sent, however many stale requests the server executed since.
DeliveredIsArchived == \A i \in Items : \A sent \in delivered[i] : Archived(i, sent)

\* The verdict the collector asks for, now or late, is never in conflict with one
\* the batch already has, although other requests may have completed it since and
\* a rescanned item may fail in one chunk of a batch and pass in another.
CompletionAccepted ==
    /\ step = "completing" => ~FinishRefused(batch, FALSE, failed # {})
    /\ \A call \in late :
          call.op = "complete" => ~FinishRefused(call.batch, FALSE, call.partial)

\* Whatever the collector's payloads are, the update of a reference never runs
\* into the table's CHECK constraints, so none of its items is refused for ever.
UpdatesFitContract ==
    \A i \in Items, found \in Offers :
        found # NoReference /\ refs[i] # NoReference => Contract(Updated(refs[i], found))

\* Every queued message whose files are known is delivered in the end: a failed
\* item is judged anew and not answered from the cache for ever, and an ended
\* batch is replaced.  (MaxLost + MaxFaults is less than max_attempts.)
AllDelivered ==
    \A i \in Items : (i \in pending) ~> (i \notin pending \/ ~FilesOf(offer[i]) \subseteq assets)

=============================================================================
