---------------------------- MODULE BackupPackage ----------------------------
(***************************************************************************)
(* The legacy JSON packages (app/services/backup_service.py and            *)
(* app/backup/legacy.py).  export_package reads the tables one query after *)
(* the other, without a snapshot, while messages and imports are written;  *)
(* the package is carried to another server or brought back to this one,   *)
(* previewed, and merged into what is there; or the command line converts  *)
(* it to an archive that is restored into an empty server.                 *)
(*                                                                         *)
(* A database is a record with one field per table, keyed by the table's   *)
(* key.  A message has at most one part, one media reference and, from     *)
(* each source, one source row.  The content of an asset decides its hash, *)
(* its path and its content_sha256.                                        *)
(***************************************************************************)
EXTENDS Naturals, Sequences, FiniteSets, Functions

CONSTANTS
    Messages, Assets,
    Sources,       \* ids of import sources
    DeviceOf,      \* the account and device a source id stands for
    Keys,          \* signing keys
    Servers,       \* the operator's servers: what they hold, how they judge signatures
    TooBig,        \* assets above max_media_bytes, never embedded
    MaxChanges,    \* bound on the writes of a server
    MaxExports,    \* bound on the exports
    MaxMoves       \* bound on the packages carried to another server

NoAsset == "no asset"
NoProfile == "no profile"
NoKey == "no key"        \* of a server that signs nothing, or on an unsigned package
Plain == "plain"         \* a local_message that shows no archived file
Pending == "pending"     \* a reference whose media is not archived
None == <<>>

EmptyDb ==
    [messages |-> None,  \* message -> what its local_message shows
     views    |-> {},    \* messages the robot has seen
     sources  |-> {},
     batches  |-> {},    \* <<source, number>>
     records  |-> None,  \* source -> the message its row is bound to, and the batch
     refs     |-> None,  \* message -> pending, or the asset
     parts    |-> None,  \* message -> is its part linked to the reference?
     aliases  |-> {},    \* sources that named the room
     avatar   |-> NoProfile, \* of the room's profile, if it has one
     changes  |-> {},    \* former avatars of the room
     assets   |-> None]  \* asset -> "full", or "bare" without content_sha256

\* f, and g where f says nothing.
Over(f, g) == [x \in DOMAIN f \union DOMAIN g |-> IF x \in DOMAIN f THEN f[x] ELSE g[x]]

Put(f, k, v) == [x \in DOMAIN f \union {k} |-> IF x = k THEN v ELSE f[x]]

\* The avatars that the profile and its changes name.
AvatarsOf(d) == (d.changes \union {d.avatar}) \ {NoAsset, NoProfile}

KnownAvatars(d) == AvatarsOf(d) \subseteq DOMAIN d.assets

\* What foreign keys and writers keep of the tables of a server.
Sound(d) ==
    /\ d = [t \in DOMAIN EmptyDb |-> d[t]]
    /\ \A t \in {"messages", "records", "refs", "parts", "assets"} :
          d[t] = [k \in DOMAIN d[t] |-> d[t][k]]
    /\ d.assets \in [DOMAIN d.assets -> {"full", "bare"}]
    /\ \A b \in d.batches : b[1] \in d.sources
    /\ \A s \in DOMAIN d.records : <<s, d.records[s].batch>> \in d.batches
    /\ \A m \in DOMAIN d.messages : d.messages[m] \in {Plain} \union DOMAIN d.assets
    /\ \A m \in DOMAIN d.refs : d.refs[m] \in {Pending} \union DOMAIN d.assets
    /\ d.aliases \subseteq d.sources
    /\ KnownAvatars(d)

\* A server's key, the keys its registry pins the content to, and whether it wants a
\* signature on everything it imports.
Sites == [key : Keys \union {NoKey}, pins : SUBSET Keys, required : BOOLEAN]

ASSUME PackageAssumption ==
    /\ Servers # {} /\ \A v \in Servers : Sound(v.db) /\ v.site \in Sites
    /\ DOMAIN DeviceOf = Sources /\ TooBig \subseteq Assets
    /\ {NoAsset, NoProfile, Plain, Pending} \intersect Assets = {}
    /\ NoKey \notin Keys
    /\ MaxChanges \in Nat /\ MaxExports \in Nat /\ MaxMoves \in Nat

VARIABLES
    db,          \* the committed tables of the server
    disk,        \* the assets whose file is there
    phase,       \* "idle", "exporting", "importing"
    scope,       \* the messages the filters of the export let through
    at,          \* the query it is at
    draft,       \* what it has read
    package,     \* the last package, NoPackage before the first
    site,        \* how the server it is at judges signatures
    abroad,      \* was it carried to another server?
    report,      \* what a preview said, as long as nothing has changed since
    raised,      \* did the last import raise after it had validated the package?
    todo,        \* the files an import has yet to write
    gone,        \* the files that vanished while it ran
    changes, exports, moves

counters == <<changes, exports, moves>>
files == <<todo, gone>>
vars == <<db, disk, phase, scope, at, draft, package, site, abroad, report, raised,
          todo, gone, changes, exports, moves>>

NoPackage == Over([checked |-> {}, embedded |-> {}, signature |-> NoKey], EmptyDb)
NoReport == [given |-> FALSE, valid |-> FALSE, updates |-> FALSE]

ArchivedAs(f, a) == \E m \in DOMAIN f : f[m] = a

-----------------------------------------------------------------------------
(* What the server writes meanwhile *)

Write(d) ==
    /\ phase # "importing" /\ changes < MaxChanges
    /\ db' = d
    /\ changes' = changes + 1
    /\ report' = NoReport /\ raised' = FALSE
    /\ UNCHANGED <<phase, scope, at, draft, package, site, abroad, files, exports, moves>>

With(d, f, k, v) == [d EXCEPT ![f] = Put(@, k, v)]

Stored(d, a) == IF a \in DOMAIN d.assets THEN d ELSE With(d, "assets", a, "full")

\* process_incoming_message: the text with more local files wins, pending
\* references are completed from it, the parts are linked again.
Captured(d, m, text) ==
    LET keeps == m \in DOMAIN d.messages /\ (text = Plain \/ d.messages[m] \in Assets)
        shown == IF keeps THEN d.messages[m] ELSE text
        base == IF text \in Assets THEN Stored(d, text) ELSE d
        upgraded == IF m \in DOMAIN d.refs /\ d.refs[m] = Pending /\ text \in Assets
                    THEN With(base, "refs", m, text) ELSE base
    IN [With(With(upgraded, "messages", m, shown), "parts", m, m \in DOMAIN d.refs)
            EXCEPT !.views = @ \union {m}]

CaptureMessage(m, text) ==
    /\ text \in DOMAIN db.assets => db.assets[text] = "full"
    /\ Write(Captured(db, m, text))
    /\ disk' = IF text \in Assets \ DOMAIN db.assets THEN disk \union {text} ELSE disk

\* upsert_source and the batch it starts; one source id per device.
OpenBatch(s) ==
    /\ \A t \in db.sources : DeviceOf[t] = DeviceOf[s] => t = s
    /\ Write([db EXCEPT !.sources = @ \union {s}, !.batches = @ \union {<<s, 1>>}])
    /\ UNCHANGED disk

\* _upsert_media_reference: QQ's own database may rebind a complete reference.
Upserted(d, m, r) ==
    IF m \in DOMAIN d.refs /\ r = Pending THEN d ELSE With(d, "refs", m, r)

\* _process_item: the message, its source row, its reference, its part.
Imported(d, m, s, r) ==
    LET shown == IF m \in DOMAIN d.messages THEN d.messages[m] ELSE Plain
        ref == IF r = Pending /\ shown \in Assets THEN shown ELSE r
        rows == With(With(d, "messages", m, shown), "records", s, [msg |-> m, batch |-> 1])
    IN [Upserted(With(rows, "parts", m, TRUE), m, ref)
            EXCEPT !.views = @ \union {m}, !.aliases = @ \union {s}]

ImportItem(m, s, r) ==
    /\ <<s, 1>> \in db.batches
    /\ s \in DOMAIN db.records => db.records[s].msg = m
    /\ r # Pending => r \in DOMAIN db.assets
    /\ Write(Imported(db, m, s, r))
    /\ UNCHANGED disk

\* save_media_asset
UploadMedia(a) ==
    /\ a \notin DOMAIN db.assets
    /\ Write(Stored(db, a))
    /\ disk' = disk \union {a}

\* update_profile: the avatar is known by the content_sha256 of its asset.
SetAvatar(a) ==
    /\ a \in DOMAIN db.assets /\ db.avatar # a
    /\ Write([db EXCEPT !.avatar = IF db.assets[a] = "full" THEN a ELSE NoAsset,
                        !.changes = IF db.avatar \in {NoAsset, NoProfile} THEN @
                                    ELSE @ \union {db.avatar}])
    /\ UNCHANGED disk

LoseFile(a) ==
    /\ a \in disk /\ changes < MaxChanges
    /\ disk' = disk \ {a}
    /\ changes' = changes + 1
    /\ gone' = IF phase = "importing" THEN gone \union {a} ELSE gone
    /\ report' = NoReport
    /\ UNCHANGED <<db, phase, scope, at, draft, package, site, abroad, raised, todo,
                   exports, moves>>

ServerWrites ==
    \/ \E m \in Messages, text \in Assets \union {Plain} : CaptureMessage(m, text)
    \/ \E s \in Sources : OpenBatch(s)
    \/ \E m \in Messages, s \in Sources, r \in Assets \union {Pending} : ImportItem(m, s, r)
    \/ \E a \in Assets : UploadMedia(a) \/ SetAvatar(a) \/ LoseFile(a)

-----------------------------------------------------------------------------
(* Export: one query after the other *)

\* Mutant: the sources are read before the rows that name them are.
ReadOrderSourcesFirst ==
    <<"messages", "sources", "views", "records", "batches", "refs", "parts", "aliases",
      "changes", "avatar", "assets">>

ReadOrder ==
    <<"messages", "views", "records", "batches", "refs", "parts", "aliases", "changes",
      "sources", "avatar", "assets">>

StartExport(filter) ==
    /\ phase = "idle" /\ exports < MaxExports
    /\ phase' = "exporting" /\ scope' = filter /\ at' = 1 /\ draft' = NoPackage
    /\ exports' = exports + 1
    /\ package' = NoPackage /\ report' = NoReport /\ raised' = FALSE
    /\ abroad' = FALSE
    /\ UNCHANGED <<db, disk, site, files, changes, moves>>

Found == DOMAIN draft.messages
OfFound(f) == Restrict(f, DOMAIN f \intersect Found)

\* The rows, batches, references and parts of the messages that were found.
MessageRows ==
    [messages |-> Restrict(db.messages, DOMAIN db.messages \intersect scope),
     views    |-> db.views \intersect Found,
     records  |-> Restrict(db.records,
                           {s \in DOMAIN db.records : db.records[s].msg \in Found}),
     batches  |-> {<<s, draft.records[s].batch>> : s \in DOMAIN draft.records},
     refs     |-> OfFound(db.refs),
     parts    |-> [m \in DOMAIN OfFound(db.parts) |-> db.parts[m] /\ m \in DOMAIN draft.refs]]

\* The identities of their rooms and senders, and the sources all these name.
IdentityRows ==
    [aliases |-> IF Found = {} THEN {} ELSE db.aliases,
     changes |-> IF Found = {} THEN {} ELSE db.changes,
     avatar  |-> IF Found = {} THEN NoProfile ELSE db.avatar,
     sources |-> db.sources \intersect (DOMAIN draft.records \union draft.aliases)]

\* By path or by file_hash; a former avatar only by its content_sha256.
WantedAssets ==
    {a \in DOMAIN db.assets :
        \/ ArchivedAs(draft.messages, a) \/ ArchivedAs(draft.refs, a)
        \/ a = draft.avatar
        \/ a \in draft.changes /\ db.assets[a] = "full"}

Selected ==
    Over(Over(MessageRows, IdentityRows), [assets |-> Restrict(db.assets, WantedAssets)])

ReadNext ==
    /\ phase = "exporting" /\ at <= Len(ReadOrder)
    /\ draft' = [draft EXCEPT ![ReadOrder[at]] = Selected[ReadOrder[at]]]
    /\ at' = at + 1
    /\ UNCHANGED <<db, disk, phase, scope, package, site, abroad, report, raised, files,
                   counters>>

\* The files are read in one go; those above the limit are only described.
\* A server with an instance id and a key signs.
FinishExport(signature) ==
    /\ phase = "exporting" /\ at > Len(ReadOrder)
    /\ LET present == DOMAIN draft.assets \intersect disk
       IN package' = [draft EXCEPT !.checked = present, !.embedded = present \ TooBig,
                                   !.signature = signature]
    /\ phase' = "idle" /\ at' = 0 /\ draft' = NoPackage /\ scope' = {}
    /\ UNCHANGED <<db, disk, site, abroad, report, raised, files, counters>>

\* Too many messages, or too many bytes of media.
RefuseExport ==
    /\ phase = "exporting" /\ at \in {2, Len(ReadOrder) + 1}
    /\ phase' = "idle" /\ at' = 0 /\ draft' = NoPackage /\ scope' = {}
    /\ UNCHANGED <<db, disk, package, site, abroad, report, raised, files, counters>>

\* The operator takes the package to another server.
CarryTo(v) ==
    /\ phase = "idle" /\ package # NoPackage /\ moves < MaxMoves
    /\ db' = v.db /\ site' = v.site
    /\ disk' = DOMAIN v.db.assets \ TooBig
    /\ abroad' = TRUE
    /\ moves' = moves + 1
    /\ report' = NoReport /\ raised' = FALSE
    /\ UNCHANGED <<phase, scope, at, draft, package, files, changes, exports>>

-----------------------------------------------------------------------------
(* Validation and preview *)

\* A part belongs to a message, and to its reference if it is linked.
PartsLinked(parts, messages, refs) ==
    \A m \in DOMAIN parts : m \in messages /\ (parts[m] => m \in refs)

\* _validate_core_references, _validate_v2_references, _validate_v3_references
RowsClosed(p) ==
    /\ p.views \subseteq DOMAIN p.messages
    /\ \A b \in p.batches : b[1] \in p.sources
    /\ \A s \in DOMAIN p.records :
          /\ p.records[s].msg \in DOMAIN p.messages
          /\ s \in p.sources /\ <<s, p.records[s].batch>> \in p.batches
    /\ \A m \in DOMAIN p.refs :
          /\ m \in DOMAIN p.messages
          /\ p.refs[m] # Pending => p.refs[m] \in DOMAIN p.assets
    /\ PartsLinked(p.parts, DOMAIN p.messages, DOMAIN p.refs)
    /\ p.aliases \subseteq p.sources

\* An avatar is looked for among the hashes and the content_sha256 of the assets.
AvatarsKnown(p) ==
    \A a \in AvatarsOf(p) : a \in DOMAIN p.assets /\ p.assets[a] = "full"

\* _validate_media_files: a file that is described is here or in the package.
FilesAt(p, present) == p.checked \subseteq p.embedded \union present

\* validate_import_package: a signature is verified where there is a key, with that
\* key or one the registry pins; elsewhere it is missed only if signatures are required.
Authentic(signature, s) ==
    IF signature # NoKey /\ s.key # NoKey
    THEN signature \in {s.key} \union s.pins
    ELSE ~s.required

Valid(p, present, s) ==
    /\ RowsClosed(p) /\ AvatarsKnown(p)
    /\ FilesAt(p, present) /\ Authentic(p.signature, s)

Differs(f, g) == \E k \in DOMAIN f \intersect DOMAIN g : f[k] # g[k]

IdentityConflict(d, p) ==
    \E s \in p.sources, t \in d.sources : s # t /\ DeviceOf[s] = DeviceOf[t]

BoundElsewhere(d, p) ==
    \E s \in DOMAIN p.records \intersect DOMAIN d.records :
        p.records[s].msg # d.records[s].msg

\* Mutant: a source row that is there is counted as unchanged.
UpdatesUnbound(d, p) ==
    \/ Differs(p.messages, d.messages) \/ Differs(p.refs, d.refs)
    \/ Differs(p.parts, d.parts) \/ Differs(p.assets, d.assets)

\* Some section of the diff counts an update.
Updates(d, p) ==
    \/ Differs(p.messages, d.messages) \/ Differs(p.refs, d.refs)
    \/ Differs(p.parts, d.parts) \/ Differs(p.assets, d.assets)
    \/ BoundElsewhere(d, p)

Preview ==
    /\ phase = "idle" /\ package # NoPackage /\ ~report.given
    /\ report' = [given   |-> TRUE,
                  valid   |-> Valid(package, disk, site) /\ ~IdentityConflict(db, package),
                  updates |-> Updates(db, package)]
    /\ UNCHANGED <<db, disk, phase, scope, at, draft, package, site, abroad, raised, files,
                   counters>>

-----------------------------------------------------------------------------
(* Import: one transaction, whose last step before the commit writes files *)

\* A complete reference is never rebound to another asset.
Rebinds(d, p) ==
    \E m \in DOMAIN p.refs \intersect DOMAIN d.refs :
        p.refs[m] # Pending /\ d.refs[m] # Pending /\ p.refs[m] # d.refs[m]

Raises(d, p) == IdentityConflict(d, p) \/ BoundElsewhere(d, p) \/ Rebinds(d, p)

\* Mutant: the package's references replace the server's.
MergedRefsReplaced(d, p) == Over(p.refs, d.refs)

\* _upsert_media_reference: a package that is behind does not undo an archive.
MergedRefs(d, p) ==
    [m \in DOMAIN d.refs \union DOMAIN p.refs |->
        IF m \in DOMAIN p.refs /\ (m \in DOMAIN d.refs => d.refs[m] = Pending)
        THEN p.refs[m] ELSE d.refs[m]]

\* Sources, messages, source rows, references and parts: added or overwritten.
MergedRows(d, p) ==
    [sources  |-> d.sources \union p.sources,
     batches  |-> d.batches \union p.batches,
     messages |-> Over(p.messages, d.messages),
     views    |-> d.views \union p.views,
     assets   |-> Over(p.assets, d.assets),
     records  |-> Over(p.records, d.records),
     refs     |-> MergedRefs(d, p),
     parts    |-> Over(p.parts, d.parts)]

\* Aliases, former avatars and profiles.
MergedIdentities(d, p) ==
    [aliases |-> d.aliases \union p.aliases,
     changes |-> d.changes \union p.changes,
     avatar  |-> IF p.avatar = NoProfile THEN d.avatar ELSE p.avatar]

Merged(d, p) == Over(MergedRows(d, p), MergedIdentities(d, p))

StartImport ==
    /\ phase = "idle" /\ package # NoPackage /\ Valid(package, disk, site)
    /\ IF Raises(db, package)
       THEN raised' = TRUE /\ phase' = "idle" /\ todo' = {}
       ELSE raised' = FALSE /\ phase' = "importing" /\ todo' = package.embedded
    /\ gone' = {}
    /\ UNCHANGED <<db, disk, scope, at, draft, package, site, abroad, report, counters>>

\* _restore_embedded_media_files: one file after the other, which a failure after it
\* does not undo.
RestoreFile(a) ==
    /\ phase = "importing" /\ a \in todo
    /\ disk' = disk \union {a}
    /\ todo' = todo \ {a} /\ gone' = gone \ {a}
    /\ UNCHANGED <<db, phase, scope, at, draft, package, site, abroad, report, raised,
                   counters>>

EndImport ==
    /\ phase' = "idle" /\ report' = NoReport
    /\ todo' = {} /\ gone' = {}
    /\ UNCHANGED <<disk, scope, at, draft, package, site, abroad, raised, counters>>

CommitImport ==
    /\ phase = "importing" /\ todo = {}
    /\ db' = Merged(db, package)
    /\ EndImport

\* A file that cannot be written, a lock, a crash: the transaction is gone.
FailImport ==
    /\ phase = "importing"
    /\ db' = db
    /\ EndImport

-----------------------------------------------------------------------------
(* The conversion to an archive, and its restore into an empty server *)

\* _validate_legacy_integrity asks in its own words; the command line is told whether
\* a signature is required, here as the server is.
LegacyAuthentic(signature, s) ==
    /\ signature = NoKey => ~s.required
    /\ signature # NoKey /\ s.key = NoKey => ~s.required
    /\ signature # NoKey /\ s.key # NoKey => signature = s.key \/ signature \in s.pins

\* Mutant: a converter that forgets the parts.
LegacySectionsWithoutParts ==
    <<"sources", "batches", "messages", "views", "records", "refs", "aliases", "changes",
      "avatar", "assets">>

\* The sections the converter copies.
LegacySections ==
    <<"sources", "batches", "messages", "views", "records", "refs", "parts", "aliases",
      "changes", "avatar", "assets">>

\* Each record of each section, and the media that an asset of it claims by its path.
Archive(p) ==
    [sections |-> [t \in Range(LegacySections) |-> p[t]],
     members  |-> {a \in p.embedded : a \in DOMAIN p.assets}]

\* No archive is written without a key, nor from media that no asset claims.
Converts(p, s) ==
    /\ s.key # NoKey /\ LegacyAuthentic(p.signature, s)
    /\ p.embedded \subseteq Archive(p).members

\* The order in which the restore inserts the sections.
SectionOrder ==
    <<"sources", "batches", "messages", "views", "assets", "records", "refs", "parts",
      "aliases", "changes", "avatar">>

\* The tables after the first k sections.
TablesAt(archive, k) ==
    [t \in DOMAIN EmptyDb |->
        IF \E i \in 1..k : SectionOrder[i] = t THEN archive.sections[t] ELSE EmptyDb[t]]

\* The foreign keys that PostgreSQL checks at each insert.
ForeignKeysHold(d) ==
    /\ \A b \in d.batches : b[1] \in d.sources
    /\ \A s \in DOMAIN d.records :
          /\ d.records[s].msg \in DOMAIN d.messages
          /\ s \in d.sources /\ <<s, d.records[s].batch>> \in d.batches
    /\ \A m \in DOMAIN d.refs :
          m \in DOMAIN d.messages /\ d.refs[m] \in {Pending} \union DOMAIN d.assets
    /\ PartsLinked(d.parts, DOMAIN d.messages, DOMAIN d.refs)
    /\ d.aliases \subseteq d.sources

\* Section by section in one transaction; what was counted must be what was announced.
Restores(archive) ==
    /\ DOMAIN archive.sections = Range(SectionOrder)
    /\ \A k \in 1..Len(SectionOrder) : ForeignKeysHold(TablesAt(archive, k))

Restored(archive) == TablesAt(archive, Len(SectionOrder))

-----------------------------------------------------------------------------
Init ==
    /\ \E v \in Servers : db = v.db /\ site = v.site
    /\ disk = DOMAIN db.assets \ TooBig
    /\ phase = "idle" /\ scope = {} /\ at = 0 /\ draft = NoPackage
    /\ package = NoPackage /\ abroad = FALSE
    /\ report = NoReport /\ raised = FALSE /\ todo = {} /\ gone = {}
    /\ changes = 0 /\ exports = 0 /\ moves = 0

Next ==
    \/ ServerWrites
    \/ \E filter \in SUBSET Messages : StartExport(filter)
    \/ ReadNext \/ RefuseExport
    \/ \E signature \in {NoKey, site.key} : FinishExport(signature)
    \/ \E v \in Servers : CarryTo(v)
    \/ Preview \/ StartImport
    \/ \E a \in Assets : RestoreFile(a)
    \/ CommitImport \/ FailImport

Spec == Init /\ [][Next]_vars

-----------------------------------------------------------------------------
(* Properties *)

\* Whatever was written between its queries, a package is closed: each row it holds
\* refers to rows it holds.  Only a former or present avatar may be unknown, when an
\* import has taken the content_sha256 of its asset away.
ExportIsClosed ==
    package # NoPackage =>
        /\ RowsClosed(package)
        /\ ~abroad /\ ~AvatarsKnown(package) =>
              \E a \in DOMAIN db.assets : db.assets[a] = "bare"

\* An import that raises after validation was announced: a preview of the same
\* package on the same rows called it invalid or counted an update.
PreviewWarns == raised /\ report.given => ~report.valid \/ report.updates

\* An import takes no archived media back: a reference that was complete still is,
\* with the same asset, and every file that the package describes, found there when it
\* was validated or written after, is there unless it vanished meanwhile.
ImportKeepsArchive ==
    [][CommitImport =>
          /\ \A m \in DOMAIN db.refs :
                db.refs[m] # Pending => m \in DOMAIN db'.refs /\ db'.refs[m] = db.refs[m]
          /\ package.checked \subseteq disk \union gone]_vars

\* The two ways into an empty server agree: what a server with a key could import there
\* it can convert, and each section finds in the order of the restore the rows it refers
\* to; the rows and the files come out the same.
ConversionAgrees ==
    package # NoPackage /\ site.key # NoKey /\ Valid(package, {}, site) =>
        /\ Converts(package, site) /\ Restores(Archive(package))
        /\ Restored(Archive(package)) = Merged(EmptyDb, package)
        /\ Archive(package).members = package.embedded
=============================================================================
