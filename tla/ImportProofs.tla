---------------------------- MODULE ImportProofs ----------------------------
(***************************************************************************)
(* Theorems about the import service, whoever its clients are, and about   *)
(* the collector's conversation with it, for every number of items, files, *)
(* batches and lost requests.                                              *)
(***************************************************************************)
EXTENDS ImportSession, TLAPS

Kept == {ref \in References : Contract(ref)} \union {NoReference}

-----------------------------------------------------------------------------
(* References *)

LEMMA NoReferenceIsNone ==
    NoReference \notin References
BY DEF NoReference, References, SourceStates, ArchiveStates

\* An update yields a reference.
LEMMA UpdatedIsReference ==
    ASSUME NEW row \in Kept, NEW incoming \in References
    PROVE  Updated(row, incoming) \in References
BY NoReferenceIsNone DEF Kept, Updated, Field, References, Hashes

\* So does the file the real-time path stored.
LEMMA LocalizedIsReference ==
    ASSUME local \in [Items -> Hashes], NEW i \in Items, NEW incoming \in References
    PROVE  Localized(i, incoming) \in References
BY DEF Localized, References, Hashes, SourceStates, ArchiveStates

\* An item whose savepoint is kept leaves a row that passes the CHECKs.
LEMMA ImportedIsKept ==
    ASSUME ImportAssumption, ServerTypeOK, NEW wanted \in Requests,
           NEW clashing \in SUBSET Items
    PROVE  Imported(wanted, FailedItems(wanted, clashing)) \in [Items -> Kept]
<1> DEFINE bad == FailedItems(wanted, clashing)
<1> SUFFICES ASSUME NEW i \in Items
             PROVE  Imported(wanted, bad)[i] \in Kept
    BY DEF Imported
<1>1. refs[i] \in Kept
    BY DEF ServerTypeOK, Kept
<1>2. CASE i \in DOMAIN wanted \ bad /\ wanted[i] # NoReference
    <2>1. wanted[i] \in References
        BY <1>2 DEF Requests, ImportAssumption
    <2>2. Localized(i, wanted[i]) \in References
        BY <2>1, LocalizedIsReference DEF ServerTypeOK
    <2>3. Importable(i, Localized(i, wanted[i]))
        BY <1>2 DEF FailedItems
    <2>4. Contract(Updated(refs[i], Localized(i, wanted[i])))
        BY <2>2, <2>3, NoReferenceIsNone DEF Importable
    <2>5. Updated(refs[i], Localized(i, wanted[i])) \in References
        BY <1>1, <2>2, UpdatedIsReference
    <2> QED
        BY <1>2, <2>4, <2>5 DEF Imported, Kept
<1>3. CASE ~(i \in DOMAIN wanted \ bad /\ wanted[i] # NoReference)
    BY <1>1, <1>3 DEF Imported
<1> QED
    BY <1>2, <1>3

-----------------------------------------------------------------------------
(* Types *)

\* What a chunk does to its batch.
LEMMA ChunkBatches ==
    ASSUME ServerTypeOK, NEW b \in BatchIds, NEW wanted \in Requests,
           NEW clashing \in SUBSET Items, ImportChunk(b, wanted, clashing)
    PROVE  \E status \in Statuses, failures \in BOOLEAN :
              /\ batches' = [batches EXCEPT ![b].status = status, ![b].failures = failures]
              /\ status \in {batches[b].status, "partial"}
              /\ batches[b].failures \/ FailedItems(wanted, clashing) # {} => failures
<1> DEFINE bad == FailedItems(wanted, clashing)
           status == IF bad # {} THEN "partial" ELSE batches[b].status
           failures == \/ batches[b].failures
                       \/ bad # {}
                       \/ \E i \in DOMAIN wanted \ bad :
                             /\ wanted[i] # NoReference
                             /\ Imported(wanted, bad)[i].archive = "failed"
<1>1. batches' = [batches EXCEPT ![b].status = status, ![b].failures = failures]
    BY Zenon DEF ImportChunk
<1>2. status \in Statuses
    BY DEF ServerTypeOK, Batches, Statuses
<1>3. failures \in BOOLEAN
    <2>1. batches[b].failures \in BOOLEAN
        BY DEF ServerTypeOK, Batches
    <2> QED
        BY <2>1, Zenon
<1>4. batches[b].failures \/ bad # {} => failures
    BY Zenon
<1> HIDE DEF failures
<1> QED
    BY <1>1, <1>2, <1>3, <1>4

LEMMA ServerTypeStep ==
    ASSUME ImportAssumption, ServerTypeOK, [ServerNext]_serverVars
    PROVE  ServerTypeOK'
<1>1. ASSUME NEW b \in BatchIds, CreateBatch(b)
      PROVE  ServerTypeOK'
    BY <1>1 DEF CreateBatch, ServerTypeOK, archive, Batches, Statuses
<1>2. ASSUME NEW b \in BatchIds, NEW wanted \in Requests, NEW clashing \in SUBSET Items,
             ImportChunk(b, wanted, clashing)
      PROVE  ServerTypeOK'
    <2> DEFINE bad == FailedItems(wanted, clashing)
    <2>1. bad \subseteq Items /\ DOMAIN wanted \subseteq Items
        BY DEF FailedItems, Requests
    <2>2. refs' \in [Items -> Kept]
        BY <1>2, ImportedIsKept DEF ImportChunk
    <2>3. batches' \in [BatchIds -> Batches]
        <3>1. PICK status \in Statuses, failures \in BOOLEAN :
                batches' = [batches EXCEPT ![b].status = status, ![b].failures = failures]
            BY <1>2, ChunkBatches
        <3> QED
            BY <3>1 DEF ServerTypeOK, Batches
    <2>4. [batch |-> b, request |-> wanted, failed |-> bad] \in Chunks
        BY <2>1 DEF Chunks
    <2>5. chunks' \subseteq Chunks
        BY <1>2, <2>4 DEF ImportChunk, ServerTypeOK
    <2>6. stored' \subseteq Items
        BY <1>2, <2>1 DEF ImportChunk, ServerTypeOK
    <2> QED
        BY <1>2, <2>2, <2>3, <2>5, <2>6 DEF ImportChunk, ServerTypeOK, Kept
<1>3. ASSUME NEW b \in BatchIds, NEW bad \in BOOLEAN, NEW partial \in BOOLEAN,
             FinishBatch(b, bad, partial)
      PROVE  ServerTypeOK'
    <2>1. UNCHANGED <<chunks, stored, refs, assets, local>>
        BY <1>3 DEF FinishBatch, archive
    <2>2. Verdict(b, bad, partial) \in Statuses
        BY DEF Verdict, Statuses
    <2>3. batches' \in [BatchIds -> Batches]
        <3>1. CASE Terminal(b)
            BY <1>3, <3>1 DEF FinishBatch, ServerTypeOK
        <3>2. CASE ~Terminal(b)
            <4>1. batches' = [batches EXCEPT ![b].status = Verdict(b, bad, partial),
                                             ![b].ended = TRUE]
                BY <1>3, <3>2 DEF FinishBatch
            <4> QED
                BY <2>2, <4>1 DEF ServerTypeOK, Batches
        <3> QED
            BY <3>1, <3>2
    <2> QED
        BY <2>1, <2>3 DEF ServerTypeOK
<1>4. ASSUME NEW h \in Assets, StoreAsset(h)
      PROVE  ServerTypeOK'
    BY <1>4 DEF StoreAsset, ServerTypeOK, imports
<1>5. ASSUME NEW i \in Items, NEW h \in Hashes, ReceiveMessage(i, h)
      PROVE  ServerTypeOK'
    <2>1. refs' \in [Items -> Kept]
        <3>1. CASE h # NoHash /\ refs[i] # NoReference /\ refs[i].archive # "complete"
            <4>1. refs[i] \in References
                BY <3>1 DEF ServerTypeOK
            <4> DEFINE row == [refs[i] EXCEPT !.source = "downloaded", !.archive = "complete",
                                              !.asset = h]
            <4>2. row \in References /\ Contract(row)
                BY <3>1, <4>1 DEF References, SourceStates, ArchiveStates, Hashes, Contract,
                                  StateOf, ValidStates
            <4>3. refs' = [refs EXCEPT ![i] = row]
                BY <1>5, <3>1, <4>1 DEF ReceiveMessage, ServerTypeOK, References
            <4> QED
                BY <4>2, <4>3 DEF ServerTypeOK, Kept
        <3>2. CASE ~(h # NoHash /\ refs[i] # NoReference /\ refs[i].archive # "complete")
            BY <1>5, <3>2 DEF ReceiveMessage, ServerTypeOK, Kept
        <3> QED
            BY <3>1, <3>2
    <2>2. local' \in [Items -> Hashes]
        BY <1>5 DEF ReceiveMessage, ServerTypeOK
    <2>3. assets' \subseteq Assets
        BY <1>5 DEF ReceiveMessage, ServerTypeOK, Hashes
    <2> QED
        BY <1>5, <2>1, <2>2, <2>3 DEF ReceiveMessage, ServerTypeOK, imports, Kept
<1>6. CASE UNCHANGED serverVars
    BY <1>6 DEF serverVars, imports, archive, ServerTypeOK
<1> QED
    BY <1>1, <1>2, <1>3, <1>4, <1>5, <1>6 DEF ServerNext, UploadMedia

\* Neither the import nor the real-time path ever writes a row that the CHECK
\* constraints of message_media_references would reject.
THEOREM ServerTypeCorrect == ServerSpec => []ServerTypeOK
<1>1. ServerInit => ServerTypeOK
    BY DEF ServerInit, ServerTypeOK, Batches, Statuses, Hashes, Chunks
<1> QED
    BY <1>1, ServerTypeStep, ImportAssumption, PTL DEF ServerSpec

-----------------------------------------------------------------------------
(* Batches *)

\* Only an ended batch is completed, and only one without failures; what has
\* ended has a verdict; and a chunk with a failed item leaves its trace in the
\* counter that decides the verdict.
BatchInv ==
    /\ \A b \in BatchIds :
          /\ batches[b].ended => batches[b].status \in {"partial", "completed", "failed"}
          /\ batches[b].status = "completed" => batches[b].ended /\ ~batches[b].failures
    /\ \A c \in chunks : c.failed # {} => batches[c.batch].failures

LEMMA BatchStep ==
    ASSUME ImportAssumption, ServerTypeOK, BatchInv, [ServerNext]_serverVars
    PROVE  /\ BatchInv'
           /\ \A b \in BatchIds : batches[b].ended =>
                /\ batches'[b] = batches[b]
                /\ \A c \in chunks' \ chunks : c.batch # b
<1> DEFINE Goal == /\ BatchInv'
                   /\ \A b \in BatchIds : batches[b].ended =>
                        /\ batches'[b] = batches[b]
                        /\ \A c \in chunks' \ chunks : c.batch # b
<1>0. \A c \in chunks : c.batch \in BatchIds
    BY DEF ServerTypeOK, Chunks
<1>1. ASSUME NEW b \in BatchIds, CreateBatch(b)
      PROVE  Goal
    BY <1>0, <1>1 DEF CreateBatch, ServerTypeOK, Batches, BatchInv
<1>2. ASSUME NEW b \in BatchIds, NEW wanted \in Requests, NEW clashing \in SUBSET Items,
             ImportChunk(b, wanted, clashing)
      PROVE  Goal
    <2> DEFINE bad == FailedItems(wanted, clashing)
    <2>1. PICK status \in Statuses, failures \in BOOLEAN :
            /\ batches' = [batches EXCEPT ![b].status = status, ![b].failures = failures]
            /\ status \in {batches[b].status, "partial"}
            /\ batches[b].failures \/ bad # {} => failures
        BY <1>2, ChunkBatches
    <2>2. chunks' = chunks \union {[batch |-> b, request |-> wanted, failed |-> bad]}
        BY <1>2 DEF ImportChunk
    <2>3. ~batches[b].ended /\ batches[b].status \in {"running", "partial"}
        BY <1>2 DEF ImportChunk, Writable
    <2> HIDE DEF bad
    <2> QED
        BY <1>0, <2>1, <2>2, <2>3 DEF ServerTypeOK, Batches, BatchInv
<1>3. ASSUME NEW b \in BatchIds, NEW bad \in BOOLEAN, NEW partial \in BOOLEAN,
             FinishBatch(b, bad, partial)
      PROVE  Goal
    BY <1>0, <1>3 DEF FinishBatch, Terminal, Verdict, ServerTypeOK, Batches, BatchInv, archive
<1>4. CASE UNCHANGED <<batches, chunks>>
    BY <1>4 DEF BatchInv
<1>5. ASSUME NEW h \in Assets, StoreAsset(h)
      PROVE  Goal
    BY <1>4, <1>5 DEF StoreAsset, imports
<1>6. ASSUME NEW i \in Items, NEW h \in Hashes, ReceiveMessage(i, h)
      PROVE  Goal
    BY <1>4, <1>6 DEF ReceiveMessage, imports
<1>7. CASE UNCHANGED serverVars
    BY <1>4, <1>7 DEF serverVars, imports
<1> QED
    BY <1>1, <1>2, <1>3, <1>5, <1>6, <1>7 DEF ServerNext, UploadMedia

LEMMA BatchInvCorrect == ServerSpec => []BatchInv
<1>1. ServerInit => BatchInv
    BY DEF ServerInit, BatchInv
<1>2. ServerTypeOK /\ BatchInv /\ [ServerNext]_serverVars => BatchInv'
    BY BatchStep, ImportAssumption
<1> QED
    BY <1>1, <1>2, ServerTypeCorrect, PTL DEF ServerSpec

\* A completed batch hides no failed item of any of its chunks.
THEOREM CompletedBatchesAreClean == ServerSpec => []CompletedBatchIsClean
<1>1. ServerTypeOK /\ BatchInv => CompletedBatchIsClean
    BY DEF BatchInv, CompletedBatchIsClean
<1> QED
    BY <1>1, ServerTypeCorrect, BatchInvCorrect, PTL

\* An ended batch takes no chunk and keeps its verdict.
THEOREM EndedBatchesAreClosed == ServerSpec => EndedIsClosed
<1>1. ServerTypeOK /\ BatchInv /\ [ServerNext]_serverVars
        => [\A b \in BatchIds : batches[b].ended =>
              /\ batches'[b] = batches[b]
              /\ \A c \in chunks' \ chunks : c.batch # b]_serverVars
    BY BatchStep, ImportAssumption
<1> QED
    BY <1>1, ServerTypeCorrect, BatchInvCorrect, PTL DEF ServerSpec, EndedIsClosed

-----------------------------------------------------------------------------
(* Archived files stay, when files are only named by complete references *)

FileIsComplete(ref) == ref.asset # NoHash => ref.archive = "complete"

AtLeast(row, sent) ==
    /\ sent # NoReference => row # NoReference
    /\ sent.archive = "complete" => row.archive = "complete"
    /\ sent.thumbnail # NoHash => row.thumbnail # NoHash

LEMMA LocalizedImproves ==
    ASSUME ImportAssumption, ServerTypeOK, NEW i \in Items, NEW found \in Offers,
           FileIsComplete(found), found # NoReference
    PROVE  LET incoming == Localized(i, found) IN
           /\ incoming \in References
           /\ Contract(incoming)
           /\ FileIsComplete(incoming)
           /\ AtLeast(incoming, found)
<1>1. found \in References /\ Contract(found)
    BY DEF ImportAssumption
<1>2. CASE found.archive # "complete" /\ local[i] \in assets
    <2> DEFINE incoming == [found EXCEPT !.source = "downloaded", !.archive = "complete",
                                         !.asset = local[i]]
    <2>1. local[i] \in Assets /\ local[i] # NoHash
        BY <1>2 DEF ServerTypeOK, ImportAssumption
    <2>2. incoming \in References /\ Contract(incoming)
        BY <1>1, <2>1 DEF References, SourceStates, ArchiveStates, Hashes, Contract, StateOf,
                          ValidStates
    <2>3. FileIsComplete(incoming) /\ AtLeast(incoming, found)
        BY <1>1, <2>2, NoReferenceIsNone DEF FileIsComplete, AtLeast, References
    <2> QED
        BY <1>2, <2>2, <2>3 DEF Localized
<1>3. CASE ~(found.archive # "complete" /\ local[i] \in assets)
    BY <1>1, <1>3 DEF Localized, AtLeast
<1> QED
    BY <1>2, <1>3

\* A complete reference may follow every other; nothing else may follow it.
LEMMA CompleteTransitions ==
    ASSUME NEW row \in References, Contract(row), NEW incoming \in References, Contract(incoming)
    PROVE  /\ incoming.archive = "complete" => StateOf(incoming) \in Transitions(StateOf(row))
           /\ row.archive = "complete" /\ StateOf(incoming) \in Transitions(StateOf(row))
                => incoming.archive = "complete"
BY DEF Contract, StateOf, ValidStates, Transitions, Downloaded, References

LEMMA UpdateImproves ==
    ASSUME NEW row \in Kept, FileIsComplete(row),
           NEW incoming \in References, Contract(incoming), FileIsComplete(incoming)
    PROVE  /\ Contract(Updated(row, incoming))
           /\ FileIsComplete(Updated(row, incoming))
           /\ AtLeast(Updated(row, incoming), incoming)
           /\ AtLeast(Updated(row, incoming), row)
<1> DEFINE new == Updated(row, incoming)
<1>0. new \in References /\ new # NoReference
    BY UpdatedIsReference, NoReferenceIsNone
<1>1. CASE row = NoReference
    BY <1>0, <1>1, NoReferenceIsNone DEF Updated, AtLeast, NoReference
<1>2. CASE row # NoReference
    <2>1. row \in References /\ Contract(row)
        BY <1>2 DEF Kept
    <2>2. incoming.archive = "complete" => Allowed(row, incoming)
        BY <2>1, CompleteTransitions DEF Allowed
    <2>3. row.archive = "complete" /\ Allowed(row, incoming) => incoming.archive = "complete"
        BY <2>1, CompleteTransitions DEF Allowed, Rebinds, FileIsComplete
    <2>4. /\ new.source = IF Allowed(row, incoming) THEN incoming.source ELSE row.source
          /\ new.archive = IF Allowed(row, incoming) THEN incoming.archive ELSE row.archive
          /\ new.asset = Field(row, incoming, row.asset, incoming.asset)
          /\ new.thumbnail = Field(row, incoming, row.thumbnail, incoming.thumbnail)
        BY <1>2 DEF Updated
    <2>5. new.asset = NoHash <=> row.asset = NoHash /\ incoming.asset = NoHash
        BY <2>2, <2>4 DEF Field, FileIsComplete
    <2>6. /\ row.thumbnail # NoHash => new.thumbnail # NoHash
          /\ incoming.thumbnail # NoHash => new.thumbnail # NoHash
        BY <2>4 DEF Field
    <2>7. AtLeast(new, incoming) /\ AtLeast(new, row)
        BY <1>0, <2>2, <2>3, <2>4, <2>6 DEF AtLeast
    <2>8. FileIsComplete(new)
        BY <2>5, <2>7 DEF FileIsComplete, AtLeast
    <2>9. Contract(new)
        <3>1. StateOf(new) \in ValidStates
            BY <2>1, <2>4 DEF Contract, StateOf
        <3>2. new.archive = "complete" => new.asset # NoHash
            BY <2>1, <2>4, <2>5 DEF Contract
        <3>3. new.archive = "thumbnail_only" => new.thumbnail # NoHash
            BY <2>1, <2>4, <2>6 DEF Contract
        <3>4. new.source = "not_downloaded" => new.asset = NoHash
            BY <2>8, <3>1 DEF FileIsComplete, StateOf, ValidStates
        <3> QED
            BY <3>1, <3>2, <3>3, <3>4 DEF Contract
    <2> QED
        BY <2>7, <2>8, <2>9
<1> QED
    BY <1>1, <1>2

RowsAreComplete == \A i \in Items : FileIsComplete(refs[i])

ChunksAreArchived ==
    \A c \in chunks : \A i \in DOMAIN c.request \ c.failed : Archived(i, c.request[i])

ArchiveInv == RowsAreComplete /\ ChunksAreArchived

LEMMA ArchivedIsAtLeast ==
    ASSUME NEW i \in Items, NEW sent
    PROVE  Archived(i, sent) <=> i \in stored /\ AtLeast(refs[i], sent)
BY DEF Archived, AtLeast

LEMMA ImportImproves ==
    ASSUME ImportAssumption, CollectorAssumption, ServerTypeOK, RowsAreComplete,
           NEW wanted \in Requests, NEW clashing \in SUBSET Items, NEW i \in Items
    PROVE  LET bad == FailedItems(wanted, clashing)
               rows == Imported(wanted, bad)
           IN  /\ FileIsComplete(rows[i])
               /\ AtLeast(rows[i], refs[i])
               /\ i \in DOMAIN wanted \ bad => AtLeast(rows[i], wanted[i])
<1> DEFINE bad == FailedItems(wanted, clashing)
           rows == Imported(wanted, bad)
<1>1. refs[i] \in Kept /\ FileIsComplete(refs[i])
    BY DEF ServerTypeOK, Kept, RowsAreComplete
<1>2. CASE i \in DOMAIN wanted \ bad /\ wanted[i] # NoReference
    <2> DEFINE incoming == Localized(i, wanted[i])
    <2>1. wanted[i] \in Offers
        BY <1>2 DEF Requests
    <2>2. /\ incoming \in References
          /\ Contract(incoming)
          /\ FileIsComplete(incoming)
          /\ AtLeast(incoming, wanted[i])
        BY <1>2, <2>1, LocalizedImproves DEF CollectorAssumption, FileIsComplete
    <2>3. rows[i] = Updated(refs[i], incoming)
        BY <1>2 DEF Imported
    <2> HIDE DEF incoming
    <2>4. FileIsComplete(rows[i]) /\ AtLeast(rows[i], incoming) /\ AtLeast(rows[i], refs[i])
        BY <1>1, <2>2, <2>3, UpdateImproves
    <2> QED
        BY <2>2, <2>4, NoReferenceIsNone DEF AtLeast
<1>3. CASE ~(i \in DOMAIN wanted \ bad /\ wanted[i] # NoReference)
    <2>1. rows[i] = refs[i]
        BY <1>3 DEF Imported
    <2>2. AtLeast(refs[i], refs[i])
        BY DEF AtLeast
    <2>3. AtLeast(refs[i], NoReference)
        BY DEF AtLeast, NoReference
    <2> QED
        BY <1>1, <1>3, <2>1, <2>2, <2>3
<1> QED
    BY <1>2, <1>3

LEMMA ArchiveStep ==
    ASSUME ImportAssumption, CollectorAssumption, ServerTypeOK, ArchiveInv,
           [ServerNext]_serverVars
    PROVE  /\ ArchiveInv'
           /\ stored \subseteq stored'
           /\ \A i \in Items : AtLeast(refs'[i], refs[i])
<1> DEFINE Grows == stored \subseteq stored' /\ \A i \in Items : AtLeast(refs'[i], refs[i])
<1>0. ASSUME Grows
      PROVE  \A i \in Items : \A sent : Archived(i, sent) => Archived(i, sent)'
    BY <1>0 DEF Archived, AtLeast
<1>1. \A c \in chunks : DOMAIN c.request \subseteq Items
    BY DEF ServerTypeOK, Chunks, Requests
<1>2. ASSUME Grows, chunks' = chunks
      PROVE  ChunksAreArchived'
    BY <1>0, <1>1, <1>2 DEF ArchiveInv, ChunksAreArchived
<1>3. \A i \in Items : AtLeast(refs[i], refs[i])
    BY DEF AtLeast
<1>4. CASE stored' = stored /\ refs' = refs /\ chunks' = chunks
    BY <1>2, <1>3, <1>4 DEF ArchiveInv, RowsAreComplete
<1>5. ASSUME NEW b \in BatchIds, NEW wanted \in Requests, NEW clashing \in SUBSET Items,
             ImportChunk(b, wanted, clashing)
      PROVE  ArchiveInv' /\ Grows
    <2> DEFINE bad == FailedItems(wanted, clashing)
    <2>1. /\ refs' = Imported(wanted, bad)
          /\ stored' = stored \union (DOMAIN wanted \ bad)
          /\ chunks' = chunks \union {[batch |-> b, request |-> wanted, failed |-> bad]}
        BY <1>5 DEF ImportChunk
    <2>2. \A i \in Items : FileIsComplete(refs'[i]) /\ AtLeast(refs'[i], refs[i])
        BY <2>1, ImportImproves DEF ArchiveInv
    <2>3. Grows
        BY <2>1, <2>2
    <2>4. \A c \in chunks : \A i \in DOMAIN c.request \ c.failed : Archived(i, c.request[i])'
        BY <1>0, <1>1, <2>3 DEF ArchiveInv, ChunksAreArchived
    <2>5. ASSUME NEW i \in DOMAIN wanted \ bad
          PROVE  Archived(i, wanted[i])'
        <3>1. i \in Items
            BY DEF Requests
        <3>2. AtLeast(refs'[i], wanted[i])
            BY <2>1, <3>1, ImportImproves DEF ArchiveInv
        <3>3. i \in stored'
            BY <2>1
        <3> QED
            BY <3>2, <3>3 DEF Archived, AtLeast
    <2> HIDE DEF bad
    <2>6. ChunksAreArchived'
        BY <2>1, <2>4, <2>5 DEF ChunksAreArchived
    <2> QED
        BY <2>2, <2>3, <2>6 DEF ArchiveInv, RowsAreComplete
<1>6. ASSUME NEW i \in Items, NEW h \in Hashes, ReceiveMessage(i, h)
      PROVE  ArchiveInv' /\ Grows
    <2>1. \A j \in Items : FileIsComplete(refs'[j]) /\ AtLeast(refs'[j], refs[j])
        <3>1. CASE h # NoHash /\ refs[i] # NoReference /\ refs[i].archive # "complete"
            <4> DEFINE row == [refs[i] EXCEPT !.source = "downloaded", !.archive = "complete",
                                              !.asset = h]
            <4>1. refs[i] \in References
                BY <3>1 DEF ServerTypeOK
            <4>2. row \in References
                BY <4>1 DEF References, SourceStates, ArchiveStates
            <4>3. FileIsComplete(row) /\ AtLeast(row, refs[i])
                BY <4>1, <4>2, NoReferenceIsNone DEF FileIsComplete, AtLeast, References
            <4>4. refs' = [refs EXCEPT ![i] = row]
                BY <1>6, <3>1, <4>1 DEF ReceiveMessage, ServerTypeOK, References
            <4> HIDE DEF row
            <4> QED
                BY <1>3, <4>3, <4>4 DEF ServerTypeOK, ArchiveInv, RowsAreComplete
        <3>2. CASE ~(h # NoHash /\ refs[i] # NoReference /\ refs[i].archive # "complete")
            BY <1>3, <1>6, <3>2 DEF ReceiveMessage, ArchiveInv, RowsAreComplete
        <3> QED
            BY <3>1, <3>2
    <2>2. stored \subseteq stored' /\ chunks' = chunks
        BY <1>6 DEF ReceiveMessage, imports
    <2> QED
        BY <1>2, <2>1, <2>2 DEF ArchiveInv, RowsAreComplete
<1>7. CASE UNCHANGED serverVars
    BY <1>4, <1>7 DEF serverVars, imports, archive
<1>8. ASSUME NEW b \in BatchIds, CreateBatch(b)
      PROVE  ArchiveInv' /\ Grows
    BY <1>3, <1>4, <1>8 DEF CreateBatch, archive
<1>9. ASSUME NEW b \in BatchIds, NEW bad \in BOOLEAN, NEW partial \in BOOLEAN,
             FinishBatch(b, bad, partial)
      PROVE  ArchiveInv' /\ Grows
    BY <1>3, <1>4, <1>9 DEF FinishBatch, archive
<1>10. ASSUME NEW h \in Assets, StoreAsset(h)
       PROVE  ArchiveInv' /\ Grows
    BY <1>3, <1>4, <1>10 DEF StoreAsset, imports
<1> QED
    BY <1>3, <1>4, <1>5, <1>6, <1>7, <1>8, <1>9, <1>10 DEF ServerNext, UploadMedia

LEMMA ArchiveInvCorrect == ServerSpec => []ArchiveInv
<1>1. ServerInit => ArchiveInv
    BY DEF ServerInit, ArchiveInv, RowsAreComplete, ChunksAreArchived, FileIsComplete, NoReference
<1>2. ServerTypeOK /\ ArchiveInv /\ [ServerNext]_serverVars => ArchiveInv'
    BY ArchiveStep, ImportAssumption, CollectorAssumption
<1> QED
    BY <1>1, <1>2, ServerTypeCorrect, PTL DEF ServerSpec

\* A complete reference stays complete, whoever imports what and when, as long
\* as every reference that names a file says it is complete: the rebinding of
\* import_service.py skips the transition table only for offers that do not.
THEOREM CompleteStaysComplete == ServerSpec => CompleteIsTerminal
<1>1. ServerTypeOK /\ ArchiveInv /\ [ServerNext]_serverVars
        => [\A i \in Items :
              refs[i].archive = "complete" => refs'[i].archive = "complete"]_serverVars
    BY ArchiveStep, ImportAssumption, CollectorAssumption DEF AtLeast
<1> QED
    BY <1>1, ServerTypeCorrect, ArchiveInvCorrect, PTL DEF ServerSpec, CompleteIsTerminal

-----------------------------------------------------------------------------
(* The collector's conversation *)

\* What is leased or sent is what was queued, in a batch that can exist.
CallInv ==
    /\ \A i \in pending : offer[i] \in Offers
    /\ step # "idle" => batch \in BatchIds

\* What the answer does not call failed, and what was completed, is archived.
AnswerInv ==
    /\ step = "completing" => \A i \in Lot \ failed : Archived(i, request[i])
    /\ DeliveredIsArchived

LEMMA NoRequestIsRequest == NoRequest \in Requests /\ DOMAIN NoRequest = {}
BY DEF NoRequest, Requests

LEMMA ServerTypeStutter == ASSUME ServerTypeOK, UNCHANGED serverVars PROVE ServerTypeOK'
BY DEF serverVars, imports, archive, ServerTypeOK

\* Every step of the conversation is a step of the server or leaves it alone.
LEMMA SessionServerStep ==
    ASSUME SessionAssumption, SessionTypeOK, CallInv, [Next]_vars
    PROVE  [ServerNext]_serverVars
<1> USE DEF SessionTypeOK, CallInv
<1>1. ASSUME NEW i \in Items, Scan(i)
      PROVE  UNCHANGED serverVars
    BY <1>1 DEF Scan
<1>2. ASSUME NEW some \in SUBSET pending, Lease(some)
      PROVE  UNCHANGED serverVars
    BY <1>2 DEF Lease
<1>3. CASE Create
    BY <1>3 DEF Create, ServerNext
<1>4. CASE Import
    <2>1. ASSUME NEW clashing \in SUBSET Lot, ImportChunk(batch, request, clashing)
          PROVE  ServerNext
        <3>1. clashing \in SUBSET Items /\ batch \in BatchIds /\ request \in Requests
            BY <1>4 DEF Import, Lot, Requests
        <3> QED
            BY <2>1, <3>1 DEF ServerNext
    <2> QED
        BY <1>4, <2>1 DEF Import
<1>5. CASE Complete
    <2>1. batch \in BatchIds /\ FinishBatch(batch, FALSE, failed # {})
        BY <1>5 DEF Complete
    <2>2. (failed # {}) \in BOOLEAN
        OBVIOUS
    <2> QED
        BY <2>1, <2>2 DEF ServerNext
<1>6. CASE ImportRefused \/ GiveUp
    BY <1>6 DEF ImportRefused, GiveUp, Defer
<1>7. ASSUME NEW call \in late, LateCall(call)
      PROVE  [ServerNext]_serverVars
    <2>1. call \in Calls
        OBVIOUS
    <2>2. call.batch \in BatchIds
        BY <2>1 DEF Calls
    <2>3. CASE call.op = "create"
        BY <1>7, <2>2, <2>3 DEF LateCall, ServerNext
    <2>4. CASE call.op = "import"
        <3>1. call.request \in Requests
            BY <2>1, <2>4 DEF Calls
        <3> QED
            BY <1>7, <2>2, <2>4, <3>1 DEF LateCall, ServerNext
    <2>5. CASE call.op = "complete"
        <3>1. call.partial \in BOOLEAN
            BY <2>1, <2>5 DEF Calls
        <3> QED
            BY <1>7, <2>2, <2>5, <3>1 DEF LateCall, ServerNext
    <2> QED
        BY <2>1, <2>3, <2>4, <2>5 DEF Calls
<1>8. CASE Elsewhere
    BY <1>8 DEF Elsewhere, ServerNext
<1>9. CASE UNCHANGED vars
    BY <1>9 DEF vars
<1> QED
    BY <1>1, <1>2, <1>3, <1>4, <1>5, <1>6, <1>7, <1>8, <1>9 DEF Next

LEMMA SessionTypeStep ==
    ASSUME ImportAssumption, SessionAssumption, SessionTypeOK, CallInv, [Next]_vars
    PROVE  SessionTypeOK' /\ CallInv'
<1>0. ServerTypeOK'
    <2>1. ServerTypeOK
        BY DEF SessionTypeOK
    <2> QED
        BY <2>1, SessionServerStep, ServerTypeStep
<1> USE <1>0, NoRequestIsRequest DEF SessionTypeOK, CallInv
<1>1. ASSUME NEW i \in Items, Scan(i)
      PROVE  SessionTypeOK' /\ CallInv'
    BY <1>1, SessionAssumption DEF Scan, SessionAssumption, upload, bounds
<1>2. ASSUME NEW some \in SUBSET pending, Lease(some)
      PROVE  SessionTypeOK' /\ CallInv'
    <2>1. request' \in Requests
        BY <1>2 DEF Lease, Requests
    <2>2. batch' \in BatchIds
        BY <1>2 DEF Lease, LotIds, SessionAssumption
    <2> QED
        BY <1>2, <2>1, <2>2 DEF Lease, queue, bounds
<1>3. CASE Create
    BY <1>3 DEF Create, queue, bounds, SessionAssumption
<1>4. CASE Import
    <2>1. failed' \subseteq Items
        <3>1. ASSUME NEW clashing, failed' = FailedItems(request, clashing)
              PROVE  failed' \subseteq Items
            BY <3>1 DEF FailedItems, Requests
        <3>2. ASSUME NEW c \in Answered(batch, request), failed' = c.failed
              PROVE  failed' \subseteq Items
            BY <3>2 DEF Answered, ServerTypeOK, Chunks
        <3> QED
            BY <1>4, <3>1, <3>2 DEF Import
    <2>2. faults' \in 0..MaxFaults
        BY <1>4 DEF Import, SessionAssumption
    <2> QED
        BY <1>4, <2>1, <2>2 DEF Import, queue
<1>5. CASE Complete
    <2>1. pending' \subseteq pending
        BY <1>5 DEF Complete, Settled
    <2>2. delivered' \in [Items -> SUBSET (Offers \union {NoReference})]
        BY <1>5 DEF Complete, Settled, Lot, Requests
    <2> QED
        BY <1>5, <2>1, <2>2 DEF Complete, Idle, bounds
<1>6. CASE ImportRefused
    BY <1>6 DEF ImportRefused, Defer, Idle, queue, bounds
<1>7. CASE GiveUp
    <2>1. Call \in Calls
        BY <1>7 DEF GiveUp, Call, Calls
    <2>2. lost' \in 0..MaxLost
        BY <1>7 DEF GiveUp, SessionAssumption
    <2> QED
        BY <1>7, <2>1, <2>2 DEF GiveUp, Defer, Idle, queue
<1>8. ASSUME NEW call \in late, LateCall(call)
      PROVE  SessionTypeOK' /\ CallInv'
    BY <1>8 DEF LateCall, queue, upload, bounds
<1>9. CASE Elsewhere
    BY <1>9 DEF Elsewhere, queue, upload, bounds
<1>10. CASE UNCHANGED vars
    BY <1>10 DEF vars, queue, upload, bounds
<1> QED
    BY <1>1, <1>2, <1>3, <1>4, <1>5, <1>6, <1>7, <1>8, <1>9, <1>10 DEF Next

LEMMA SessionInvCorrect == Spec => [](SessionTypeOK /\ CallInv)
<1>1. Init => SessionTypeOK /\ CallInv
    <2>1. ServerInit => ServerTypeOK
        BY DEF ServerInit, ServerTypeOK, Batches, Statuses, Hashes, Chunks
    <2> QED
        BY <2>1, NoRequestIsRequest, SessionAssumption
        DEF Init, SessionTypeOK, CallInv, NoBatch, SessionAssumption
<1>2. SessionTypeOK /\ CallInv /\ [Next]_vars => (SessionTypeOK /\ CallInv)'
    BY SessionTypeStep, ImportAssumption, SessionAssumption
<1> QED
    BY <1>1, <1>2, PTL DEF Spec

\* Types of the whole conversation, with the CHECKs of the server's table.
THEOREM SessionTypeCorrect == Spec => []SessionTypeOK
BY SessionInvCorrect, PTL

\* The collector is one of the clients the server is specified for, so what is
\* proved of ServerSpec holds of every session.
THEOREM SessionImplementsServer == Spec => ServerSpec
<1>1. Init => ServerInit
    BY DEF Init
<1>2. SessionTypeOK /\ CallInv /\ [Next]_vars => [ServerNext]_serverVars
    BY SessionServerStep, SessionAssumption
<1> QED
    BY <1>1, <1>2, SessionInvCorrect, PTL DEF Spec, ServerSpec

LEMMA AnswerStep ==
    ASSUME ImportAssumption, SessionAssumption, CollectorAssumption,
           SessionTypeOK, CallInv, ArchiveInv, AnswerInv, [Next]_vars
    PROVE  AnswerInv'
<1>0. ServerTypeOK /\ [ServerNext]_serverVars
    BY SessionServerStep DEF SessionTypeOK
<1>1. \A i \in Items : \A sent : Archived(i, sent) => Archived(i, sent)'
    BY <1>0, ArchiveStep DEF Archived, AtLeast
<1>2. ArchiveInv'
    BY <1>0, ArchiveStep
<1>3. Lot \subseteq Items
    BY DEF SessionTypeOK, Requests, Lot
<1>4. ASSUME delivered' = delivered
      PROVE  DeliveredIsArchived'
    BY <1>1, <1>4 DEF AnswerInv, DeliveredIsArchived
<1>5. CASE delivered' = delivered /\ step' # "completing"
    BY <1>4, <1>5 DEF AnswerInv
<1>6. CASE delivered' = delivered /\ UNCHANGED upload
    BY <1>1, <1>3, <1>4, <1>6 DEF AnswerInv, upload, Lot
<1>7. CASE Import
    <2>1. request' = request /\ delivered' = delivered
        BY <1>7 DEF Import
    <2>2. \A i \in Lot \ failed' : Archived(i, request[i])'
        <3>1. ASSUME NEW clashing \in SUBSET Lot, ImportChunk(batch, request, clashing),
                     failed' = FailedItems(request, clashing)
              PROVE  [batch |-> batch, request |-> request, failed |-> failed'] \in chunks'
            BY <3>1 DEF ImportChunk
        <3>2. ASSUME NEW c \in Answered(batch, request), failed' = c.failed,
                     UNCHANGED serverVars
              PROVE  c \in chunks' /\ c.request = request /\ c.failed = failed'
            BY <3>2 DEF Answered, serverVars, imports
        <3>3. \E c \in chunks' : c.request = request /\ c.failed = failed'
            BY <1>7, <3>1, <3>2 DEF Import
        <3> QED
            BY <1>2, <2>1, <3>3 DEF ArchiveInv, ChunksAreArchived, Lot
    <2> QED
        BY <1>4, <2>1, <2>2 DEF AnswerInv, Lot
<1>8. CASE Complete
    <2>1. \A i \in Lot \ failed : \A sent \in {request[i]} : Archived(i, sent)'
        BY <1>1, <1>3, <1>8 DEF AnswerInv, Complete
    <2>2. \A i \in Items : \A sent \in delivered[i] : Archived(i, sent)'
        BY <1>1 DEF AnswerInv, DeliveredIsArchived
    <2>3. delivered' = [i \in Items |->
                            IF i \in Lot \ failed THEN {request[i]} ELSE delivered[i]]
        BY <1>8 DEF Complete, Settled
    <2>4. DeliveredIsArchived'
        BY <2>1, <2>2, <2>3 DEF DeliveredIsArchived
    <2> QED
        BY <1>8, <2>4 DEF AnswerInv, Complete, Idle
<1>9. ASSUME NEW i \in Items, Scan(i)
      PROVE  AnswerInv'
    BY <1>6, <1>9 DEF Scan
<1>10. ASSUME NEW some \in SUBSET pending, Lease(some)
       PROVE  AnswerInv'
    BY <1>5, <1>10 DEF Lease
<1>11. CASE Create
    BY <1>5, <1>11 DEF Create
<1>12. CASE ImportRefused \/ GiveUp
    BY <1>5, <1>12 DEF ImportRefused, GiveUp, Defer, Idle
<1>13. ASSUME NEW call \in late, LateCall(call)
       PROVE  AnswerInv'
    BY <1>6, <1>13 DEF LateCall
<1>14. CASE Elsewhere
    BY <1>6, <1>14 DEF Elsewhere
<1>15. CASE UNCHANGED vars
    BY <1>6, <1>15 DEF vars
<1> QED
    BY <1>7, <1>8, <1>9, <1>10, <1>11, <1>12, <1>13, <1>14, <1>15 DEF Next

\* What the collector was told is imported stays in the archive, whatever stale
\* requests the server executes afterwards.
THEOREM DeliveredStaysArchived == Spec => []DeliveredIsArchived
<1>1. Init => AnswerInv
    BY DEF Init, AnswerInv, DeliveredIsArchived
<1>2. SessionTypeOK /\ CallInv /\ ArchiveInv /\ AnswerInv /\ [Next]_vars => AnswerInv'
    BY AnswerStep, ImportAssumption, SessionAssumption, CollectorAssumption
<1>3. AnswerInv => DeliveredIsArchived
    BY DEF AnswerInv
<1> QED
    BY <1>1, <1>2, <1>3, SessionInvCorrect, SessionImplementsServer, ArchiveInvCorrect, PTL
    DEF Spec

\* No payload of a collector runs into the CHECK constraints of the table.
THEOREM UpdatesAlwaysFit == Spec => []UpdatesFitContract
<1>1. SessionTypeOK /\ ArchiveInv => UpdatesFitContract
    <2> SUFFICES ASSUME ServerTypeOK, ArchiveInv, NEW i \in Items, NEW found \in Offers,
                        found # NoReference
                 PROVE  Contract(Updated(refs[i], found))
        BY DEF SessionTypeOK, UpdatesFitContract
    <2>1. found \in References /\ Contract(found) /\ FileIsComplete(found)
        BY ImportAssumption, CollectorAssumption
        DEF ImportAssumption, CollectorAssumption, FileIsComplete
    <2>2. refs[i] \in Kept /\ FileIsComplete(refs[i])
        BY DEF ServerTypeOK, Kept, ArchiveInv, RowsAreComplete
    <2> QED
        BY <2>1, <2>2, UpdateImproves
<1> QED
    BY <1>1, SessionInvCorrect, SessionImplementsServer, ArchiveInvCorrect, PTL

\* The verdict of an ended batch is the one its failures call for, and whoever
\* asks for "partial" has been told of a failure.
VerdictInv ==
    /\ \A b \in BatchIds :
          /\ batches[b].status # "failed"
          /\ batches[b].ended =>
                batches[b].status = IF batches[b].failures THEN "partial" ELSE "completed"
    /\ step \in {"importing", "completing"} => batches[batch].status # "absent"
    /\ step = "completing" /\ failed # {} => batches[batch].failures
    /\ \A call \in late : call.op = "complete" =>
          /\ batches[call.batch].status # "absent"
          /\ call.partial => batches[call.batch].failures

VerdictsFit ==
    \A b \in BatchIds :
        /\ batches[b].status # "failed"
        /\ batches[b].ended =>
              batches[b].status = IF batches[b].failures THEN "partial" ELSE "completed"

\* Failures are not forgotten and batches do not vanish.
BatchesGrow ==
    \A b \in BatchIds :
        /\ batches[b].failures => batches'[b].failures
        /\ batches[b].status # "absent" => batches'[b].status # "absent"

LEMMA CreateVerdict ==
    ASSUME ServerTypeOK, BatchInv, VerdictsFit, NEW b \in BatchIds, CreateBatch(b)
    PROVE  VerdictsFit' /\ BatchesGrow /\ batches'[b].status # "absent"
BY DEF CreateBatch, VerdictsFit, BatchesGrow, BatchInv, ServerTypeOK, Batches

LEMMA ImportVerdict ==
    ASSUME ServerTypeOK, VerdictsFit, NEW b \in BatchIds, NEW wanted \in Requests,
           NEW clashing \in SUBSET Items, ImportChunk(b, wanted, clashing)
    PROVE  /\ VerdictsFit' /\ BatchesGrow
           /\ FailedItems(wanted, clashing) # {} => batches'[b].failures
<1>1. PICK status \in Statuses, failures \in BOOLEAN :
        /\ batches' = [batches EXCEPT ![b].status = status, ![b].failures = failures]
        /\ status \in {batches[b].status, "partial"}
        /\ batches[b].failures \/ FailedItems(wanted, clashing) # {} => failures
    BY ChunkBatches
<1>2. ~batches[b].ended /\ batches[b].status # "failed"
    BY DEF ImportChunk, Writable, VerdictsFit
<1> QED
    BY <1>1, <1>2 DEF VerdictsFit, BatchesGrow, ServerTypeOK, Batches

LEMMA FinishVerdict ==
    ASSUME ServerTypeOK, BatchInv, VerdictsFit, NEW b \in BatchIds, NEW partial \in BOOLEAN,
           partial => batches[b].failures, FinishBatch(b, FALSE, partial)
    PROVE  VerdictsFit' /\ BatchesGrow
BY DEF FinishBatch, Verdict, VerdictsFit, BatchesGrow, ServerTypeOK, Batches

\* Who is not told anything new needs nothing new of the batches.
LEMMA VerdictKept ==
    ASSUME SessionTypeOK, CallInv, VerdictInv, VerdictsFit', BatchesGrow, late' \subseteq late,
           UNCHANGED <<step, batch, failed>> \/ step' = "idle"
    PROVE  VerdictInv'
<1>1. \A call \in late : call.batch \in BatchIds
    BY DEF SessionTypeOK, Calls
<1>2. step # "idle" => batch \in BatchIds
    BY DEF CallInv
<1>3. VerdictsFit' => (\A b \in BatchIds :
          /\ batches[b].status # "failed"
          /\ batches[b].ended =>
                batches[b].status = IF batches[b].failures THEN "partial" ELSE "completed")'
    BY DEF VerdictsFit
<1>4. \A call \in late' : call.op = "complete" =>
          /\ batches'[call.batch].status # "absent"
          /\ call.partial => batches'[call.batch].failures
    BY <1>1 DEF VerdictInv, BatchesGrow
<1>5. CASE step' = "idle"
    BY <1>3, <1>4, <1>5 DEF VerdictInv
<1>6. CASE UNCHANGED <<step, batch, failed>>
    BY <1>2, <1>3, <1>4, <1>6 DEF VerdictInv, BatchesGrow
<1> QED
    BY <1>5, <1>6

LEMMA VerdictStep ==
    ASSUME SessionAssumption, SessionTypeOK, CallInv, BatchInv, VerdictInv, [Next]_vars
    PROVE  VerdictInv'
<1>0. ServerTypeOK /\ VerdictsFit /\ request \in Requests
    BY DEF SessionTypeOK, VerdictInv, VerdictsFit
<1>1. ASSUME UNCHANGED batches
      PROVE  VerdictsFit' /\ BatchesGrow
    BY <1>0, <1>1 DEF VerdictsFit, BatchesGrow
<1>2. ASSUME NEW i \in Items, Scan(i)
      PROVE  VerdictInv'
    BY <1>1, <1>2, VerdictKept DEF Scan, serverVars, imports, upload
<1>3. ASSUME NEW some \in SUBSET pending, Lease(some)
      PROVE  VerdictInv'
    <2>1. /\ UNCHANGED <<batches, late>>
          /\ step' = "creating"
        BY <1>3 DEF Lease, serverVars, imports
    <2> QED
        BY <2>1 DEF VerdictInv
<1>4. CASE Create
    <2>1. batch \in BatchIds /\ CreateBatch(batch)
        BY <1>4 DEF Create, CallInv
    <2>2. VerdictsFit' /\ BatchesGrow /\ batches'[batch].status # "absent"
        BY <1>0, <2>1, CreateVerdict
    <2>3. \A call \in late : call.batch \in BatchIds
        BY DEF SessionTypeOK, Calls
    <2>4. /\ UNCHANGED <<failed, late>>
          /\ step' \in {"creating", "importing"}
          /\ step' = "importing" => batch' = batch
        BY <1>4 DEF Create
    <2> QED
        BY <2>2, <2>3, <2>4 DEF VerdictInv, VerdictsFit, BatchesGrow
<1>5. CASE Import
    <2>1. batch \in BatchIds /\ batches[batch].status # "absent"
        BY <1>5 DEF Import, CallInv, VerdictInv
    <2>2. VerdictsFit' /\ BatchesGrow /\ (failed' # {} => batches'[batch].failures)
        <3>1. ASSUME NEW clashing \in SUBSET Lot, ImportChunk(batch, request, clashing),
                     failed' = FailedItems(request, clashing)
              PROVE  VerdictsFit' /\ BatchesGrow /\ (failed' # {} => batches'[batch].failures)
            <4>1. clashing \in SUBSET Items
                BY <1>0 DEF Lot, Requests
            <4> QED
                BY <1>0, <2>1, <3>1, <4>1, ImportVerdict
        <3>2. ASSUME NEW c \in Answered(batch, request), failed' = c.failed,
                     UNCHANGED serverVars
              PROVE  VerdictsFit' /\ BatchesGrow /\ (failed' # {} => batches'[batch].failures)
            BY <1>1, <3>2 DEF Answered, BatchInv, serverVars, imports
        <3> QED
            BY <1>5, <3>1, <3>2 DEF Import
    <2>3. \A call \in late : call.batch \in BatchIds
        BY DEF SessionTypeOK, Calls
    <2>4. UNCHANGED <<batch, late>> /\ step' = "completing"
        BY <1>5 DEF Import
    <2> QED
        BY <2>1, <2>2, <2>3, <2>4 DEF VerdictInv, VerdictsFit, BatchesGrow
<1>6. CASE Complete
    <2>1. batch \in BatchIds /\ FinishBatch(batch, FALSE, failed # {})
        BY <1>6 DEF Complete, CallInv
    <2>2. failed # {} => batches[batch].failures
        BY <1>6 DEF Complete, VerdictInv
    <2>3. (failed # {}) \in BOOLEAN
        OBVIOUS
    <2>4. VerdictsFit' /\ BatchesGrow
        BY <1>0, <2>1, <2>2, <2>3, FinishVerdict
    <2> QED
        BY <1>6, <2>4, VerdictKept DEF Complete, Idle
<1>7. CASE ImportRefused
    BY <1>1, <1>7, VerdictKept DEF ImportRefused, Defer, Idle, serverVars, imports
<1>8. CASE GiveUp
    <2>1. late' \subseteq late \union {Call} /\ step' = "idle" /\ UNCHANGED batches
        BY <1>8 DEF GiveUp, Defer, Idle, serverVars, imports
    <2>2. Call.op = "complete" =>
            /\ batches[Call.batch].status # "absent"
            /\ Call.partial => batches[Call.batch].failures
        BY <1>8 DEF GiveUp, Call, VerdictInv, SessionTypeOK
    <2> QED
        BY <2>1, <2>2 DEF VerdictInv
<1>9. ASSUME NEW call \in late, LateCall(call)
      PROVE  VerdictInv'
    <2>0. call \in Calls /\ call.batch \in BatchIds
        BY DEF SessionTypeOK, Calls
    <2>1. CASE call.op = "create" /\ CreateBatch(call.batch)
        BY <1>0, <1>9, <2>0, <2>1, CreateVerdict, VerdictKept DEF LateCall, upload
    <2>2. CASE call.op = "import" /\ ImportChunk(call.batch, call.request, {})
        <3>1. call.request \in Requests
            BY <2>0, <2>2 DEF Calls
        <3>2. VerdictsFit' /\ BatchesGrow
            BY <1>0, <2>0, <2>2, <3>1, ImportVerdict
        <3> QED
            BY <1>9, <3>2, VerdictKept DEF LateCall, upload
    <2>3. CASE call.op = "complete" /\ FinishBatch(call.batch, FALSE, call.partial)
        <3>1. call.partial \in BOOLEAN /\ (call.partial => batches[call.batch].failures)
            BY <2>0, <2>3 DEF Calls, VerdictInv
        <3>2. VerdictsFit' /\ BatchesGrow
            BY <1>0, <2>0, <2>3, <3>1, FinishVerdict
        <3> QED
            BY <1>9, <3>2, VerdictKept DEF LateCall, upload
    <2>4. CASE UNCHANGED serverVars
        BY <1>1, <1>9, <2>4, VerdictKept DEF LateCall, upload, serverVars, imports
    <2> QED
        BY <1>9, <2>1, <2>2, <2>3, <2>4 DEF LateCall
<1>10. CASE Elsewhere
    <2>1. UNCHANGED batches
        BY <1>10 DEF Elsewhere, StoreAsset, ReceiveMessage, imports
    <2> QED
        BY <1>1, <1>10, <2>1, VerdictKept DEF Elsewhere, upload
<1>11. CASE UNCHANGED vars
    BY <1>1, <1>11, VerdictKept DEF vars, serverVars, imports, upload
<1> QED
    BY <1>2, <1>3, <1>4, <1>5, <1>6, <1>7, <1>8, <1>9, <1>10, <1>11 DEF Next

\* finish_batch never refuses a collector: once the items of a lot are imported,
\* the answer decides what becomes of them, unless the connection fails.
THEOREM CompletionsAreAccepted == Spec => []CompletionAccepted
<1>1. Init => VerdictInv
    BY DEF Init, ServerInit, VerdictInv
<1>2. SessionTypeOK /\ CallInv /\ BatchInv /\ VerdictInv /\ [Next]_vars => VerdictInv'
    BY VerdictStep, SessionAssumption
<1>3. SessionTypeOK /\ CallInv /\ BatchInv /\ VerdictInv => CompletionAccepted
    <2> SUFFICES ASSUME SessionTypeOK, CallInv, BatchInv, VerdictInv
                 PROVE  CompletionAccepted
        OBVIOUS
    <2>1. ASSUME NEW b \in BatchIds, NEW partial, partial => batches[b].failures,
                 batches[b].status # "absent"
          PROVE  ~FinishRefused(b, FALSE, partial)
        BY <2>1 DEF FinishRefused, Terminal, Verdict, BatchInv, VerdictInv
    <2>2. \A call \in late : call.batch \in BatchIds
        BY DEF SessionTypeOK, Calls
    <2> QED
        BY <2>1, <2>2 DEF CompletionAccepted, VerdictInv, CallInv
<1> QED
    BY <1>1, <1>2, <1>3, SessionInvCorrect, SessionImplementsServer, BatchInvCorrect, PTL DEF Spec

=============================================================================
