--------------------------- MODULE ImportService ---------------------------
(***************************************************************************)
(* The server's side of an import: batches, the cache of answered chunks,  *)
(* and the media references the items of a chunk create or update          *)
(* (app/services/import_service.py, app/import_contract.py), together with *)
(* the real-time path that writes the same references                      *)
(* (app/services/message_service.py).  Each action is one committed        *)
(* transaction; ServerSpec lets any client send any of them at any time.   *)
(*                                                                         *)
(* An item is one source record, which is one stored message with at most  *)
(* one media reference.  Of the batch's counters only failed_media decides *)
(* anything, and only whether it is zero.                                  *)
(***************************************************************************)
EXTENDS Naturals

CONSTANTS
    Items,         \* source records, hence messages
    Assets,        \* content hashes of files
    NoHash,        \* the null of a hash column
    Offers,        \* references an item may carry
    BatchIds,
    MayRebind      \* is the source a QQNT database (allow_complete_rebind)?

VARIABLES
    batches,       \* import_batches
    chunks,        \* import_batch_chunks: the answered requests
    stored,        \* items with a row in messages
    refs,          \* message_media_references, by item
    assets,        \* media_assets, as committed: hashes of non-empty files
    local          \* the file an item's local_message names, by item

imports == <<batches, chunks>>
archive == <<stored, refs, assets, local>>
serverVars == <<imports, archive>>

-----------------------------------------------------------------------------
(* The contract on media references *)

Hashes == Assets \union {NoHash}

SourceStates == {"downloaded", "not_downloaded", "missing", "unknown"}
ArchiveStates == {"complete", "thumbnail_only", "metadata_only", "failed"}

References == [source    : SourceStates,
               archive   : ArchiveStates,
               asset     : Hashes,
               thumbnail : Hashes]

\* An item without media, and a message without a reference.
NoReference == [source |-> "none", archive |-> "none",
                asset |-> NoHash, thumbnail |-> NoHash]

StateOf(ref) == <<ref.source, ref.archive>>

ValidStates ==
    {<<"downloaded", "complete">>, <<"downloaded", "failed">>,
     <<"not_downloaded", "thumbnail_only">>, <<"not_downloaded", "metadata_only">>,
     <<"missing", "thumbnail_only">>, <<"missing", "metadata_only">>,
     <<"unknown", "failed">>}

Downloaded == {<<"downloaded", "failed">>, <<"downloaded", "complete">>}

\* Mutant: a lost file takes the reference back to what is left of it.
Falling(state) ==
    CASE state = <<"unknown", "failed">> -> ValidStates
      [] OTHER -> Downloaded \union {state, <<"missing", "metadata_only">>}

\* The states a reference in this state may move to.
Transitions(state) ==
    CASE state = <<"unknown", "failed">> -> ValidStates
      [] state[2] = "metadata_only"  -> Downloaded \union {state, <<state[1], "thumbnail_only">>}
      [] state[2] = "thumbnail_only" -> Downloaded \union {state}
      [] OTHER                       -> {state, <<"downloaded", "complete">>}

\* validate_media_reference_assets, and the CHECK constraints of the table.
Contract(ref) ==
    /\ StateOf(ref) \in ValidStates
    /\ ref.archive = "complete" => ref.asset # NoHash
    /\ ref.archive = "thumbnail_only" => ref.thumbnail # NoHash
    /\ ref.source = "not_downloaded" => ref.asset = NoHash

ASSUME ImportAssumption ==
    /\ NoHash \notin Assets
    /\ MayRebind \in BOOLEAN
    /\ \A offer \in Offers : offer = NoReference \/ (offer \in References /\ Contract(offer))

-----------------------------------------------------------------------------
(* One item of a chunk *)

\* A file the real-time path already stored for the message completes a
\* reference that is not complete by itself.
Localized(i, offer) ==
    IF offer # NoReference /\ offer.archive # "complete" /\ local[i] \in assets
    THEN [offer EXCEPT !.source = "downloaded", !.archive = "complete", !.asset = local[i]]
    ELSE offer

\* A complete reference is offered a different file.
Rebinds(row, offer) ==
    /\ row.archive = "complete"
    /\ offer.asset # NoHash
    /\ row.asset # NoHash
    /\ offer.asset # row.asset

Allowed(row, offer) ==
    Rebinds(row, offer) \/ StateOf(offer) \in Transitions(StateOf(row))

\* A null never overwrites; anything else does when the field is null, or the
\* transition is allowed and the row was not complete or is bound anew.
Field(row, offer, current, incoming) ==
    IF /\ incoming # NoHash
       /\ \/ current = NoHash
          \/ Allowed(row, offer) /\ (row.archive # "complete" \/ Rebinds(row, offer))
    THEN incoming ELSE current

\* Mutant: the state moves on although the transition is not allowed.
UpdatedAnyway(row, offer) ==
    IF row = NoReference THEN offer
    ELSE [source    |-> offer.source,
          archive   |-> offer.archive,
          asset     |-> Field(row, offer, row.asset, offer.asset),
          thumbnail |-> Field(row, offer, row.thumbnail, offer.thumbnail)]

Updated(row, offer) ==
    IF row = NoReference THEN offer
    ELSE [source    |-> IF Allowed(row, offer) THEN offer.source ELSE row.source,
          archive   |-> IF Allowed(row, offer) THEN offer.archive ELSE row.archive,
          asset     |-> Field(row, offer, row.asset, offer.asset),
          thumbnail |-> Field(row, offer, row.thumbnail, offer.thumbnail)]

\* The item's savepoint is kept: the files exist, a complete reference is not
\* bound anew by a source that may not, and the row passes its CHECKs.
Importable(i, offer) ==
    offer # NoReference =>
        /\ {offer.asset, offer.thumbnail} \subseteq assets \union {NoHash}
        /\ refs[i] # NoReference /\ Rebinds(refs[i], offer) => MayRebind
        /\ Contract(Updated(refs[i], offer))

-----------------------------------------------------------------------------
(* Transactions *)

Statuses == {"absent", "running", "partial", "completed", "failed"}

Batches == [status   : Statuses,
            ended    : BOOLEAN,     \* completed_at is set
            failures : BOOLEAN]     \* failed_media > 0

\* A chunk is the exact payload: which items, each with its reference.
Requests == UNION {[some -> Offers] : some \in SUBSET Items}

Chunks == [batch : BatchIds, request : Requests, failed : SUBSET Items]

ServerInit ==
    /\ batches = [b \in BatchIds |->
                    [status |-> "absent", ended |-> FALSE, failures |-> FALSE]]
    /\ chunks = {}
    /\ stored = {}
    /\ refs = [i \in Items |-> NoReference]
    /\ assets = {}
    /\ local = [i \in Items |-> NoHash]

Terminal(b) ==
    \/ batches[b].status \in {"completed", "failed"}
    \/ batches[b].status = "partial" /\ batches[b].ended

\* create_batch: an existing batch is returned as it is.
CreateBatch(b) ==
    /\ batches' = IF batches[b].status = "absent"
                  THEN [batches EXCEPT ![b].status = "running"]
                  ELSE batches
    /\ UNCHANGED <<chunks, archive>>

Answered(b, request) == {c \in chunks : c.batch = b /\ c.request = request}

\* Mutant: completed_at is not looked at.
WritableAgain(b) == batches[b].status \in {"running", "partial"}

Writable(b) == batches[b].status \in {"running", "partial"} /\ ~batches[b].ended

\* Items whose savepoint is rolled back.  "clashing" are those that met an
\* IntegrityError twice, from a concurrent writer of the same message.
FailedItems(request, clashing) ==
    {i \in DOMAIN request : i \in clashing \/ ~Importable(i, Localized(i, request[i]))}

\* The references after the items of the request, each in its savepoint.
Imported(request, failed) ==
    [i \in Items |->
        IF i \in DOMAIN request \ failed /\ request[i] # NoReference
        THEN Updated(refs[i], Localized(i, request[i]))
        ELSE refs[i]]

\* An exact chunk is answered from the cache, before the state of the batch is
\* looked at; a new one is imported item by item and cached with its answer.
ImportChunk(b, request, clashing) ==
    /\ Answered(b, request) = {}
    /\ Writable(b)
    /\ LET failed == FailedItems(request, clashing)
           rows == Imported(request, failed)
       IN  /\ chunks' = chunks \union {[batch |-> b, request |-> request, failed |-> failed]}
           /\ batches' = [batches EXCEPT
                ![b].status = IF failed # {} THEN "partial" ELSE @,
                ![b].failures = \/ @
                                \/ failed # {}
                                \/ \E i \in DOMAIN request \ failed :
                                      /\ request[i] # NoReference
                                      /\ rows[i].archive = "failed"]
           /\ stored' = stored \union (DOMAIN request \ failed)
           /\ refs' = rows
    /\ UNCHANGED <<assets, local>>

Verdict(b, failed, partial) ==
    IF failed THEN "failed"
    ELSE IF partial \/ batches[b].failures THEN "partial" ELSE "completed"

\* A terminal batch keeps its status: the same verdict is answered, another one
\* is refused.
FinishRefused(b, failed, partial) ==
    \/ batches[b].status = "absent"
    \/ Terminal(b) /\ batches[b].status # Verdict(b, failed, partial)

FinishBatch(b, failed, partial) ==
    /\ ~FinishRefused(b, failed, partial)
    /\ batches' = IF Terminal(b) THEN batches
                  ELSE [batches EXCEPT ![b].status = Verdict(b, failed, partial),
                                       ![b].ended = TRUE]
    /\ UNCHANGED <<chunks, archive>>

\* upload_external_media writes the file, inserts its row in media_assets and
\* answers with its hash.  Nobody commits the session, so the row is rolled back.
UploadMedia(h) ==
    /\ h \in Assets
    /\ UNCHANGED serverVars

\* A file is committed with the event of another message, by the media backfill
\* or by the offline repair.
StoreAsset(h) ==
    /\ assets' = assets \union {h}
    /\ UNCHANGED <<imports, stored, refs, local>>

\* process_incoming_message stores the event with the file it downloaded, if
\* any.  The event's text replaces the stored one only when it scores higher;
\* a reference that is not complete is completed by the event's file.
ReceiveMessage(i, h) ==
    /\ stored' = stored \union {i}
    /\ assets' = assets \union ({h} \ {NoHash})
    /\ \/ /\ i \in stored => h # NoHash
          /\ local' = [local EXCEPT ![i] = h]
       \/ i \in stored /\ (local[i] = NoHash => h = NoHash) /\ UNCHANGED local
    /\ refs' = IF h # NoHash /\ refs[i] # NoReference /\ refs[i].archive # "complete"
               THEN [refs EXCEPT ![i].source = "downloaded", ![i].archive = "complete",
                                 ![i].asset = h]
               ELSE refs
    /\ UNCHANGED imports

ServerNext ==
    \/ \E b \in BatchIds :
          \/ CreateBatch(b)
          \/ \E request \in Requests, clashing \in SUBSET Items :
                ImportChunk(b, request, clashing)
          \/ \E failed, partial \in BOOLEAN : FinishBatch(b, failed, partial)
    \/ \E h \in Assets : UploadMedia(h) \/ StoreAsset(h)
    \/ \E i \in Items, h \in Hashes : ReceiveMessage(i, h)

ServerSpec == ServerInit /\ [][ServerNext]_serverVars

-----------------------------------------------------------------------------
(* Properties of the server, whoever its clients are *)

\* The types, with the CHECK constraints of message_media_references: none of
\* the two writers of a reference ever runs into them.
ServerTypeOK ==
    /\ batches \in [BatchIds -> Batches]
    /\ chunks \subseteq Chunks
    /\ stored \subseteq Items
    /\ refs \in [Items -> {ref \in References : Contract(ref)} \union {NoReference}]
    /\ assets \subseteq Assets
    /\ local \in [Items -> Hashes]

\* The item's message is stored and its reference is at least as good as the one
\* sent: the file is still there if there was one, the thumbnail too.
Archived(i, sent) ==
    /\ i \in stored
    /\ sent # NoReference => refs[i] # NoReference
    /\ sent.archive = "complete" => refs[i].archive = "complete"
    /\ sent.thumbnail # NoHash => refs[i].thumbnail # NoHash

\* A batch that says "completed" hides no failure: none of its chunks, whoever
\* sent them and whenever they were executed, has a failed item (finish_batch).
CompletedBatchIsClean ==
    \A b \in BatchIds : batches[b].status = "completed" =>
        \A c \in chunks : c.batch = b => c.failed = {}

\* A batch that ended is closed: no chunk enters it any more and its verdict
\* does not change, although late requests may still name it.
EndedIsClosed ==
    [][\A b \in BatchIds : batches[b].ended =>
          /\ batches'[b] = batches[b]
          /\ \A c \in chunks' \ chunks : c.batch # b]_serverVars

\* "downloaded + complete is terminal for automatic imports": whatever arrives,
\* late or not, a complete reference stays complete (ALLOWED_MEDIA_STATE_TRANSITIONS).
CompleteIsTerminal ==
    [][\A i \in Items : refs[i].archive = "complete" => refs'[i].archive = "complete"]_serverVars

=============================================================================
