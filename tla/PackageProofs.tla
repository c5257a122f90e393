---------------------------- MODULE PackageProofs ----------------------------
(***************************************************************************)
(* What a package promises, for any messages, assets, sources and servers, *)
(* whatever is written between the queries of an export.                   *)
(***************************************************************************)
EXTENDS BackupPackage, TLAPS

Tables == {"messages", "views", "sources", "batches", "records", "refs", "parts",
           "aliases", "avatar", "changes", "assets"}

\* The tables with a key.
Keyed == {"messages", "records", "refs", "parts", "assets"}

LEMMA TablesOfEmptyDb == DOMAIN EmptyDb = Tables
BY DEF EmptyDb, Tables

IsRows(d) == d = [t \in Tables |-> d[t]]

LEMMA SoundRows == ASSUME NEW d, Sound(d) PROVE IsRows(d)
BY TablesOfEmptyDb DEF Sound, IsRows

LEMMA WithField ==
    ASSUME NEW d, IsRows(d), NEW f \in Tables, NEW k, NEW v
    PROVE  /\ IsRows(With(d, f, k, v))
           /\ \A t \in Tables : With(d, f, k, v)[t] = IF t = f THEN Put(d[f], k, v) ELSE d[t]
BY DEF IsRows, With

-----------------------------------------------------------------------------
(* What the server writes *)

\* The rows an export has read stay explained by the tables.
Grows(d, e) ==
    /\ d.sources \subseteq e.sources /\ d.batches \subseteq e.batches
    /\ DOMAIN d.assets \subseteq DOMAIN e.assets
    /\ \A a \in DOMAIN d.assets : e.assets[a] = d.assets[a]

LEMMA StoredGrows ==
    ASSUME NEW d, Sound(d), NEW a
    PROVE  /\ Sound(Stored(d, a)) /\ Grows(d, Stored(d, a))
           /\ a \in DOMAIN Stored(d, a).assets
           /\ \A t \in Tables \ {"assets"} : Stored(d, a)[t] = d[t]
<1>1. CASE a \in DOMAIN d.assets
  BY <1>1 DEF Stored, Grows
<1>2. CASE a \notin DOMAIN d.assets
  <2> DEFINE e == With(d, "assets", a, "full")
  <2>1. Stored(d, a) = e
    BY <1>2 DEF Stored
  <2>2. /\ IsRows(e) /\ \A t \in Tables \ {"assets"} : e[t] = d[t]
        /\ e["assets"] = Put(d["assets"], a, "full")
    BY SoundRows, WithField DEF Tables
  <2>3. /\ DOMAIN e.assets = DOMAIN d.assets \union {a}
        /\ e.assets \in [DOMAIN e.assets -> {"full", "bare"}]
        /\ \A x \in DOMAIN d.assets : e.assets[x] = d.assets[x]
    <3> HIDE DEF e
    <3>1. e.assets = Put(d.assets, a, "full")
      BY <2>2
    <3>2. d.assets \in [DOMAIN d.assets -> {"full", "bare"}]
      BY DEF Sound
    <3>3. QED
      BY <1>2, <3>1, <3>2 DEF Put
  <2>4. Sound(e) /\ Grows(d, e)
    <3> HIDE DEF e
    <3> QED
      BY <2>2, <2>3, TablesOfEmptyDb DEF Sound, Grows, IsRows, Tables, KnownAvatars, AvatarsOf
  <2>5. QED
    BY <2>1, <2>2, <2>3, <2>4
<1>3. QED
  BY <1>1, <1>2

\* What a new row may refer to.
Fits(d, f, k, v) ==
    /\ f = "messages" => v \in {Plain} \union DOMAIN d.assets
    /\ f = "refs" => v \in {Pending} \union DOMAIN d.assets
    /\ f = "records" => <<k, v.batch>> \in d.batches

LEMMA RowGrows ==
    ASSUME NEW d, Sound(d), NEW f \in Keyed \ {"assets"}, NEW k, NEW v, Fits(d, f, k, v)
    PROVE  /\ Sound(With(d, f, k, v)) /\ Grows(d, With(d, f, k, v))
           /\ \A t \in Tables \ {f} : With(d, f, k, v)[t] = d[t]
<1> DEFINE e == With(d, f, k, v)
<1>1. f \in Tables /\ f \notin {"views", "sources", "batches", "aliases", "avatar", "changes", "assets"}
  BY DEF Keyed, Tables
<1>2. /\ IsRows(e) /\ \A t \in Tables : e[t] = IF t = f THEN Put(d[f], k, v) ELSE d[t]
  BY <1>1, SoundRows, WithField
<1> HIDE DEF e
<1>3. \A t \in Keyed : e[t] = [x \in DOMAIN e[t] |-> e[t][x]]
  <2>1. ASSUME NEW t \in Keyed PROVE e[t] = [x \in DOMAIN e[t] |-> e[t][x]]
    <3>1. CASE t = f
      <4>1. e[t] = Put(d[f], k, v)
        BY <1>1, <1>2, <3>1
      <4>2. QED
        BY <4>1 DEF Put
    <3>2. CASE t # f
      <4>1. e[t] = d[t]
        BY <1>2, <3>2 DEF Keyed, Tables
      <4>2. d[t] = [x \in DOMAIN d[t] |-> d[t][x]]
        BY DEF Sound, Keyed
      <4>3. QED
        BY <4>1, <4>2
    <3>3. QED
      BY <3>1, <3>2
  <2>2. QED
    BY <2>1
<1>4. Grows(d, e)
  BY <1>1, <1>2 DEF Grows, Tables
<1>5. /\ e.sources = d.sources /\ e.batches = d.batches /\ e.assets = d.assets
      /\ e.aliases = d.aliases /\ e.avatar = d.avatar /\ e.changes = d.changes
  BY <1>1, <1>2 DEF Tables
<1>6. \A s \in DOMAIN e.records : <<s, e.records[s].batch>> \in e.batches
  <2>1. CASE f = "records"
    <3>1. e.records = Put(d.records, k, v) /\ <<k, v.batch>> \in d.batches
      BY <1>2, <2>1 DEF Fits, Tables
    <3>2. \A s \in DOMAIN d.records : <<s, d.records[s].batch>> \in d.batches
      BY DEF Sound
    <3>3. QED
      BY <1>5, <3>1, <3>2 DEF Put
  <2>2. CASE f # "records"
    BY <1>2, <1>5, <2>2 DEF Sound, Tables
  <2>3. QED
    BY <2>1, <2>2
<1>7. \A m \in DOMAIN e.messages : e.messages[m] \in {Plain} \union DOMAIN e.assets
  <2>1. CASE f = "messages"
    <3>1. e.messages = Put(d.messages, k, v) /\ v \in {Plain} \union DOMAIN d.assets
      BY <1>2, <2>1 DEF Fits, Tables
    <3>2. \A m \in DOMAIN d.messages : d.messages[m] \in {Plain} \union DOMAIN d.assets
      BY DEF Sound
    <3>3. QED
      BY <1>5, <3>1, <3>2 DEF Put
  <2>2. CASE f # "messages"
    BY <1>2, <1>5, <2>2 DEF Sound, Tables
  <2>3. QED
    BY <2>1, <2>2
<1>8. \A m \in DOMAIN e.refs : e.refs[m] \in {Pending} \union DOMAIN e.assets
  <2>1. CASE f = "refs"
    <3>1. e.refs = Put(d.refs, k, v) /\ v \in {Pending} \union DOMAIN d.assets
      BY <1>2, <2>1 DEF Fits, Tables
    <3>2. \A m \in DOMAIN d.refs : d.refs[m] \in {Pending} \union DOMAIN d.assets
      BY DEF Sound
    <3>3. QED
      BY <1>5, <3>1, <3>2 DEF Put
  <2>2. CASE f # "refs"
    BY <1>2, <1>5, <2>2 DEF Sound, Tables
  <2>3. QED
    BY <2>1, <2>2
<1>9. Sound(e)
  BY <1>2, <1>3, <1>5, <1>6, <1>7, <1>8, TablesOfEmptyDb
     DEF Sound, IsRows, Keyed, KnownAvatars, AvatarsOf
<1>10. QED
  BY <1>2, <1>4, <1>9 DEF e

\* Robots that have seen a message, and names of the room.
WithSets(d, v, n) == [d EXCEPT !.views = v, !.aliases = n]

LEMMA SetGrows ==
    ASSUME NEW d, Sound(d), NEW v, NEW n, n \subseteq d.sources
    PROVE  Sound(WithSets(d, v, n)) /\ Grows(d, WithSets(d, v, n))
<1> DEFINE e == WithSets(d, v, n)
<1>1. /\ IsRows(e) /\ e.views = v /\ e.aliases = n
      /\ \A t \in Tables \ {"views", "aliases"} : e[t] = d[t]
  BY SoundRows DEF IsRows, Tables, WithSets
<1> HIDE DEF e
<1>2. Sound(e) /\ Grows(d, e)
  BY <1>1, TablesOfEmptyDb DEF Sound, Grows, IsRows, Tables, KnownAvatars, AvatarsOf
<1>3. QED
  BY <1>2 DEF e

LEMMA GrowsOn ==
    ASSUME NEW d, NEW e, NEW f, Grows(d, e), Grows(e, f)
    PROVE  Grows(d, f)
BY DEF Grows

LEMMA CapturedGrows ==
    ASSUME NEW d, Sound(d), NEW m, NEW text \in Assets \union {Plain}
    PROVE  Sound(Captured(d, m, text)) /\ Grows(d, Captured(d, m, text))
<1> DEFINE keeps == m \in DOMAIN d.messages /\ (text = Plain \/ d.messages[m] \in Assets)
           shown == IF keeps THEN d.messages[m] ELSE text
           base == IF text \in Assets THEN Stored(d, text) ELSE d
           upgraded == IF m \in DOMAIN d.refs /\ d.refs[m] = Pending /\ text \in Assets
                       THEN With(base, "refs", m, text) ELSE base
           captioned == With(upgraded, "messages", m, shown)
           linked == With(captioned, "parts", m, m \in DOMAIN d.refs)
<1>1. /\ Sound(base) /\ Grows(d, base)
      /\ text \in {Plain} \union DOMAIN base.assets
  BY StoredGrows DEF Grows
<1>2. /\ Sound(upgraded) /\ Grows(d, upgraded)
      /\ text \in {Plain} \union DOMAIN upgraded.assets
  <2>1. CASE upgraded = base
    BY <1>1, <2>1
  <2>2. CASE text \in Assets /\ upgraded = With(base, "refs", m, text)
    <3> HIDE DEF base, upgraded
    <3>1. Fits(base, "refs", m, text) /\ "refs" \in Keyed \ {"assets"}
      BY <1>1, <2>2, PackageAssumption DEF Fits, Keyed
    <3>2. Sound(upgraded) /\ Grows(base, upgraded)
      BY <1>1, <2>2, <3>1, RowGrows
    <3>3. QED
      BY <1>1, <3>2, GrowsOn DEF Grows
  <2>3. QED
    BY <2>1, <2>2
<1> HIDE DEF base, upgraded
<1>3. Sound(captioned) /\ Grows(d, captioned)
  <2>1. shown \in {Plain} \union DOMAIN upgraded.assets
    BY <1>2 DEF Sound, Grows
  <2>2. Fits(upgraded, "messages", m, shown) /\ "messages" \in Keyed \ {"assets"}
    BY <2>1 DEF Fits, Keyed
  <2> HIDE DEF shown
  <2>3. Sound(captioned) /\ Grows(upgraded, captioned)
    BY <1>2, <2>2, RowGrows
  <2> HIDE DEF captioned
  <2>4. QED
    BY <1>2, <2>3, GrowsOn
<1> HIDE DEF captioned
<1>4. Sound(linked) /\ Grows(d, linked)
  <2>1. /\ Fits(captioned, "parts", m, m \in DOMAIN d.refs) /\ "parts" \in Keyed \ {"assets"}
    BY DEF Fits, Keyed
  <2>2. Sound(linked) /\ Grows(captioned, linked)
    BY <1>3, <2>1, RowGrows
  <2> HIDE DEF linked
  <2>3. QED
    BY <1>3, <2>2, GrowsOn
<1>5. Captured(d, m, text) = [linked EXCEPT !.views = @ \union {m}]
  BY DEF Captured, linked, captioned, upgraded, base
<1> HIDE DEF linked
<1>6. [linked EXCEPT !.views = @ \union {m}]
         = WithSets(linked, linked.views \union {m}, linked.aliases)
  BY <1>4, SoundRows DEF IsRows, Tables, WithSets
<1>7. linked.aliases \subseteq linked.sources
  BY <1>4 DEF Sound
<1>8. QED
  BY <1>4, <1>5, <1>6, <1>7, SetGrows, GrowsOn

LEMMA ImportedGrows ==
    ASSUME NEW d, Sound(d), NEW m, NEW s, NEW r \in Assets \union {Pending},
           <<s, 1>> \in d.batches, r # Pending => r \in DOMAIN d.assets
    PROVE  Sound(Imported(d, m, s, r)) /\ Grows(d, Imported(d, m, s, r))
<1> DEFINE shown == IF m \in DOMAIN d.messages THEN d.messages[m] ELSE Plain
           ref == IF r = Pending /\ shown \in Assets THEN shown ELSE r
           titled == With(d, "messages", m, shown)
           row == [msg |-> m, batch |-> 1]
           rows == With(titled, "records", s, row)
           linked == With(rows, "parts", m, TRUE)
           done == Upserted(linked, m, ref)
<1>1. shown \in {Plain} \union DOMAIN d.assets
  BY DEF Sound
<1>2. ref \in {Pending} \union DOMAIN d.assets
  <2> HIDE DEF shown
  <2>1. QED
    BY <1>1, PackageAssumption
<1>3. row.batch = 1
  OBVIOUS
<1> HIDE DEF shown, ref, row
<1>4. Sound(titled) /\ Grows(d, titled)
  <2>1. Fits(d, "messages", m, shown) /\ "messages" \in Keyed \ {"assets"}
    BY <1>1 DEF Fits, Keyed
  <2>2. QED
    BY <2>1, RowGrows
<1> HIDE DEF titled
<1>5. Sound(rows) /\ Grows(d, rows)
  <2>1. Fits(titled, "records", s, row) /\ "records" \in Keyed \ {"assets"}
    BY <1>3, <1>4 DEF Fits, Keyed, Grows
  <2>2. Sound(rows) /\ Grows(titled, rows)
    BY <1>4, <2>1, RowGrows
  <2> HIDE DEF rows
  <2>3. QED
    BY <1>4, <2>2, GrowsOn
<1> HIDE DEF rows
<1>6. Sound(linked) /\ Grows(d, linked)
  <2>1. Fits(rows, "parts", m, TRUE) /\ "parts" \in Keyed \ {"assets"}
    BY DEF Fits, Keyed
  <2>2. Sound(linked) /\ Grows(rows, linked)
    BY <1>5, <2>1, RowGrows
  <2> HIDE DEF linked
  <2>3. QED
    BY <1>5, <2>2, GrowsOn
<1> HIDE DEF linked
<1>7. Sound(done) /\ Grows(d, done)
  <2>1. CASE done = linked
    BY <1>6, <2>1
  <2>2. CASE done = With(linked, "refs", m, ref)
    <3>1. Fits(linked, "refs", m, ref) /\ "refs" \in Keyed \ {"assets"}
      BY <1>2, <1>6 DEF Fits, Keyed, Grows
    <3> HIDE DEF done
    <3>2. Sound(done) /\ Grows(linked, done)
      BY <1>6, <2>2, <3>1, RowGrows
    <3>3. QED
      BY <1>6, <3>2, GrowsOn
  <2>3. QED
    BY <2>1, <2>2 DEF Upserted
<1>8. Imported(d, m, s, r) = [done EXCEPT !.views = @ \union {m}, !.aliases = @ \union {s}]
  BY DEF Imported, done, linked, rows, row, titled, ref, shown
<1> HIDE DEF done
<1>9. [done EXCEPT !.views = @ \union {m}, !.aliases = @ \union {s}]
         = WithSets(done, done.views \union {m}, done.aliases \union {s})
  BY <1>7, SoundRows DEF IsRows, Tables, WithSets
<1>10. done.aliases \union {s} \subseteq done.sources
  <2>1. s \in done.sources /\ done.aliases \subseteq done.sources
    BY <1>7 DEF Sound, Grows
  <2>2. QED
    BY <2>1
<1>11. QED
  BY <1>7, <1>8, <1>9, <1>10, SetGrows, GrowsOn

LEMMA BatchGrows ==
    ASSUME NEW d, Sound(d), NEW s, NEW e,
           e = [d EXCEPT !.sources = @ \union {s}, !.batches = @ \union {<<s, 1>>}]
    PROVE  Sound(e) /\ Grows(d, e)
<1>1. /\ IsRows(e) /\ e.sources = d.sources \union {s}
      /\ e.batches = d.batches \union {<<s, 1>>}
      /\ \A t \in Tables \ {"sources", "batches"} : e[t] = d[t]
  BY SoundRows DEF IsRows, Tables
<1>2. \A b \in e.batches : b[1] \in e.sources
  <2>1. \A b \in d.batches : b[1] \in d.sources
    BY DEF Sound
  <2>2. ASSUME NEW b \in e.batches PROVE b[1] \in e.sources
    <3>1. CASE b = <<s, 1>>
      BY <1>1, <3>1
    <3>2. CASE b \in d.batches
      BY <1>1, <2>1, <3>2
    <3>3. QED
      BY <1>1, <2>2, <3>1, <3>2
  <2>3. QED
    BY <2>2
<1>3. QED
  BY <1>1, <1>2, TablesOfEmptyDb DEF Sound, Grows, IsRows, Tables, KnownAvatars, AvatarsOf

LEMMA AvatarGrows ==
    ASSUME NEW d, Sound(d), NEW a \in DOMAIN d.assets, NEW e,
           e = [d EXCEPT !.avatar = IF d.assets[a] = "full" THEN a ELSE NoAsset,
                         !.changes = IF d.avatar \in {NoAsset, NoProfile} THEN @
                                     ELSE @ \union {d.avatar}]
    PROVE  Sound(e) /\ Grows(d, e)
<1>1. /\ IsRows(e) /\ e.avatar \in {a, NoAsset}
      /\ e.changes \subseteq d.changes \union {d.avatar}
      /\ \A t \in Tables \ {"avatar", "changes"} : e[t] = d[t]
  <2>1. IsRows(d)
    BY SoundRows
  <2> DEFINE avatar == IF d.assets[a] = "full" THEN a ELSE NoAsset
             former == IF d.avatar \in {NoAsset, NoProfile} THEN d.changes
                       ELSE d.changes \union {d.avatar}
  <2>2. avatar \in {a, NoAsset} /\ former \subseteq d.changes \union {d.avatar}
    OBVIOUS
  <2>3. e = [d EXCEPT !.avatar = avatar, !.changes = former]
    OBVIOUS
  <2> HIDE DEF avatar, former
  <2>4. QED
    BY <2>1, <2>2, <2>3 DEF IsRows, Tables
<1>2. KnownAvatars(e)
  BY <1>1 DEF Sound, KnownAvatars, AvatarsOf, Tables
<1>3. QED
  BY <1>1, <1>2, TablesOfEmptyDb DEF Sound, Grows, IsRows, Tables

LEMMA WritesGrow ==
    ASSUME Sound(db), ServerWrites
    PROVE  Sound(db') /\ Grows(db, db')
<1>1. ASSUME NEW m \in Messages, NEW text \in Assets \union {Plain}, CaptureMessage(m, text)
      PROVE  Sound(db') /\ Grows(db, db')
  BY <1>1, CapturedGrows DEF CaptureMessage, Write
<1>2. ASSUME NEW s \in Sources, OpenBatch(s) PROVE Sound(db') /\ Grows(db, db')
  BY <1>2, BatchGrows DEF OpenBatch, Write
<1>3. ASSUME NEW m \in Messages, NEW s \in Sources, NEW r \in Assets \union {Pending},
             ImportItem(m, s, r)
      PROVE  Sound(db') /\ Grows(db, db')
  BY <1>3, ImportedGrows DEF ImportItem, Write
<1>4. ASSUME NEW a \in Assets, UploadMedia(a) PROVE Sound(db') /\ Grows(db, db')
  BY <1>4, StoredGrows DEF UploadMedia, Write
<1>5. ASSUME NEW a \in Assets, SetAvatar(a) PROVE Sound(db') /\ Grows(db, db')
  BY <1>5, AvatarGrows DEF SetAvatar, Write
<1>6. ASSUME NEW a \in Assets, LoseFile(a) PROVE Sound(db') /\ Grows(db, db')
  BY <1>6 DEF LoseFile, Grows
<1>7. QED
  BY <1>1, <1>2, <1>3, <1>4, <1>5, <1>6 DEF ServerWrites

-----------------------------------------------------------------------------
(* What an export has read *)

Fields == Tables \union {"checked", "embedded", "signature"}

IsTable(f) == f = [k \in DOMAIN f |-> f[k]]

IsPackage(p) ==
    /\ p = [t \in Fields |-> p[t]]
    /\ \A t \in Keyed : IsTable(p[t])
    /\ p.assets \in [DOMAIN p.assets -> {"full", "bare"}]

Bare(d) == \E a \in DOMAIN d.assets : d.assets[a] = "bare"

ShownArchived(p, assets) ==
    \A m \in DOMAIN p.messages : p.messages[m] \in {Plain} \union assets

\* What is read by the n-th query refers to what was read before, or to rows that the
\* tables still have and that a later query brings.
Explained(d, p, n) ==
    /\ n > 1 => ShownArchived(p, DOMAIN d.assets)
    /\ n > 2 => p.views \subseteq DOMAIN p.messages
    /\ n > 3 => \A s \in DOMAIN p.records : /\ p.records[s].msg \in DOMAIN p.messages
                                          /\ s \in d.sources
    /\ n > 4 => p.batches = {<<s, p.records[s].batch>> : s \in DOMAIN p.records}
    /\ n > 5 => \A m \in DOMAIN p.refs : /\ m \in DOMAIN p.messages
                                       /\ p.refs[m] \in {Pending} \union DOMAIN d.assets
    /\ n > 6 => PartsLinked(p.parts, DOMAIN p.messages, DOMAIN p.refs)
    /\ n > 7 => p.aliases \subseteq d.sources
    /\ n > 8 => p.changes \ {NoAsset, NoProfile} \subseteq DOMAIN d.assets
    /\ n > 9 => p.aliases \union DOMAIN p.records \subseteq p.sources
    /\ n > 10 => p.avatar \in {NoAsset, NoProfile} \union DOMAIN d.assets
    /\ n > 11 => /\ RowsClosed(p) /\ ShownArchived(p, DOMAIN p.assets)
                 /\ AvatarsKnown(p) \/ Bare(d)

LEMMA NothingRead ==
    /\ IsPackage(NoPackage) /\ NoPackage.checked = {} /\ NoPackage.embedded = {}
    /\ \A t \in Keyed : DOMAIN NoPackage[t] = {}
    /\ \A t \in {"views", "sources", "batches", "aliases", "changes"} : NoPackage[t] = {}
    /\ NoPackage.avatar = NoProfile
<1>1. DOMAIN NoPackage = Fields
  BY DEF NoPackage, Over, EmptyDb, Fields, Tables
<1>2. NoPackage = [t \in Fields |-> NoPackage[t]]
  BY <1>1 DEF NoPackage, Over
<1>3. NoPackage.checked = {} /\ NoPackage.embedded = {}
  BY DEF NoPackage, Over
<1>4. \A t \in Keyed : NoPackage[t] = None
  BY DEF NoPackage, Over, EmptyDb, Keyed
<1>5. /\ \A t \in {"views", "sources", "batches", "aliases", "changes"} : NoPackage[t] = {}
      /\ NoPackage.avatar = NoProfile
  BY DEF NoPackage, Over, EmptyDb
<1>6. DOMAIN None = {} /\ IsTable(None)
  BY DEF None, IsTable
<1>7. \A t \in Keyed : IsTable(NoPackage[t])
  BY <1>4, <1>6
<1>8. NoPackage.assets \in [DOMAIN NoPackage.assets -> {"full", "bare"}]
  <2>1. NoPackage.assets = None
    BY <1>4 DEF Keyed
  <2>2. QED
    BY <1>6, <2>1
<1>9. QED
  BY <1>2, <1>3, <1>4, <1>5, <1>6, <1>7, <1>8 DEF IsPackage

LEMMA ExplainedGrows ==
    ASSUME NEW d, NEW e, NEW p, NEW n \in Nat, Grows(d, e), Explained(d, p, n)
    PROVE  Explained(e, p, n)
BY DEF Explained, Grows, ShownArchived, Bare

LEMMA SelectedRows ==
    /\ Selected.messages = Restrict(db.messages, DOMAIN db.messages \intersect scope)
    /\ Selected.views = db.views \intersect Found
    /\ Selected.records = Restrict(db.records,
                             {s \in DOMAIN db.records : db.records[s].msg \in Found})
    /\ Selected.batches = {<<s, draft.records[s].batch>> : s \in DOMAIN draft.records}
    /\ Selected.refs = OfFound(db.refs)
    /\ Selected.parts = [m \in DOMAIN OfFound(db.parts) |->
                            db.parts[m] /\ m \in DOMAIN draft.refs]
    /\ Selected.aliases = IF Found = {} THEN {} ELSE db.aliases
    /\ Selected.changes = IF Found = {} THEN {} ELSE db.changes
    /\ Selected.avatar = IF Found = {} THEN NoProfile ELSE db.avatar
    /\ Selected.sources = db.sources \intersect (DOMAIN draft.records \union draft.aliases)
    /\ Selected.assets = Restrict(db.assets, WantedAssets)
<1> DEFINE first == Over(MessageRows, IdentityRows)
           last == [assets |-> Restrict(db.assets, WantedAssets)]
<1>1. DOMAIN MessageRows = {"messages", "views", "records", "batches", "refs", "parts"}
  BY DEF MessageRows
<1>2. DOMAIN IdentityRows = {"aliases", "changes", "avatar", "sources"}
  BY DEF IdentityRows
<1>3. /\ DOMAIN first = DOMAIN MessageRows \union DOMAIN IdentityRows
      /\ \A t \in DOMAIN MessageRows : first[t] = MessageRows[t]
      /\ \A t \in DOMAIN IdentityRows \ DOMAIN MessageRows : first[t] = IdentityRows[t]
  BY DEF Over
<1> HIDE DEF first
<1>4. /\ \A t \in DOMAIN first : Selected[t] = first[t]
      /\ \A t \in DOMAIN last \ DOMAIN first : Selected[t] = last[t]
  <2> HIDE DEF last
  <2>1. Selected = Over(first, last)
    BY DEF Selected, first, last
  <2>2. QED
    BY <2>1 DEF Over
<1>5. Selected.assets = Restrict(db.assets, WantedAssets)
  BY <1>1, <1>2, <1>3, <1>4
<1>6. \A t \in {"messages", "views", "records", "batches", "refs", "parts"} :
         Selected[t] = MessageRows[t]
  BY <1>1, <1>3, <1>4
<1>7. \A t \in {"aliases", "changes", "avatar", "sources"} : Selected[t] = IdentityRows[t]
  BY <1>1, <1>2, <1>3, <1>4
<1>8. /\ Selected.messages = Restrict(db.messages, DOMAIN db.messages \intersect scope)
      /\ Selected.views = db.views \intersect Found
      /\ Selected.records = Restrict(db.records,
                               {s \in DOMAIN db.records : db.records[s].msg \in Found})
      /\ Selected.batches = {<<s, draft.records[s].batch>> : s \in DOMAIN draft.records}
      /\ Selected.refs = OfFound(db.refs)
      /\ Selected.parts = [m \in DOMAIN OfFound(db.parts) |->
                              db.parts[m] /\ m \in DOMAIN draft.refs]
  BY <1>6 DEF MessageRows
<1>9. /\ Selected.aliases = IF Found = {} THEN {} ELSE db.aliases
      /\ Selected.changes = IF Found = {} THEN {} ELSE db.changes
      /\ Selected.avatar = IF Found = {} THEN NoProfile ELSE db.avatar
      /\ Selected.sources = db.sources \intersect (DOMAIN draft.records \union draft.aliases)
  BY <1>7 DEF IdentityRows
<1>10. QED
  BY <1>5, <1>8, <1>9

LEMMA ReadKinds ==
    /\ Len(ReadOrder) = 11
    /\ ReadOrder[1] = "messages" /\ ReadOrder[2] = "views" /\ ReadOrder[3] = "records"
    /\ ReadOrder[4] = "batches" /\ ReadOrder[5] = "refs" /\ ReadOrder[6] = "parts"
    /\ ReadOrder[7] = "aliases" /\ ReadOrder[8] = "changes" /\ ReadOrder[9] = "sources"
    /\ ReadOrder[10] = "avatar" /\ ReadOrder[11] = "assets"
BY DEF ReadOrder
\* The draft of an export, between two queries.
ReadInv ==
    phase = "exporting" => IsPackage(draft) /\ at \in 1..12 /\ Explained(db, draft, at)

LEMMA ReadOne ==
    ASSUME Sound(db), IsPackage(draft), at \in 1..11, ReadNext
    PROVE  /\ IsPackage(draft') /\ at' = at + 1
           /\ draft'[ReadOrder[at]] = Selected[ReadOrder[at]]
           /\ \A t \in Fields \ {ReadOrder[at]} : draft'[t] = draft[t]
<1>1. ReadOrder[at] \in Tables
  BY ReadKinds DEF Tables
<1>2. /\ draft' = [t \in Fields |-> draft'[t]] /\ at' = at + 1
      /\ draft'[ReadOrder[at]] = Selected[ReadOrder[at]]
      /\ \A t \in Fields \ {ReadOrder[at]} : draft'[t] = draft[t]
  <2> DEFINE f == ReadOrder[at]
             v == Selected[f]
  <2>1. draft' = [draft EXCEPT ![f] = v] /\ at' = at + 1
    BY DEF ReadNext
  <2>2. draft = [t \in Fields |-> draft[t]] /\ f \in Fields
    BY <1>1 DEF IsPackage, Fields
  <2> HIDE DEF f, v
  <2>3. draft' = [t \in Fields |-> IF t = f THEN v ELSE draft[t]]
    BY <2>1, <2>2
  <2>4. QED
    BY <2>1, <2>2, <2>3 DEF f, v
<1>3. \A t \in Keyed : IsTable(Selected[t])
  <2>1. IsTable(Selected.messages)
    BY SelectedRows DEF Restrict, IsTable
  <2>2. IsTable(Selected.records)
    BY SelectedRows DEF Restrict, IsTable
  <2>3. IsTable(Selected.refs)
    BY SelectedRows DEF Restrict, OfFound, IsTable
  <2>4. IsTable(Selected.parts)
    <3> DEFINE linked(m) == db.parts[m] /\ m \in DOMAIN draft.refs
    <3>1. Selected.parts = [m \in DOMAIN OfFound(db.parts) |-> linked(m)]
      BY SelectedRows
    <3> HIDE DEF linked
    <3>2. QED
      BY <3>1 DEF IsTable
  <2>5. IsTable(Selected.assets)
    BY SelectedRows DEF Restrict, IsTable
  <2>6. QED
    BY <2>1, <2>2, <2>3, <2>4, <2>5 DEF Keyed
<1>4. \A t \in Keyed : IsTable(draft'[t])
  <2>1. ASSUME NEW t \in Keyed PROVE IsTable(draft'[t])
    <3>1. CASE t = ReadOrder[at]
      BY <1>2, <1>3, <3>1
    <3>2. CASE t # ReadOrder[at]
      <4>1. draft'[t] = draft[t]
        BY <1>2, <3>2 DEF Fields, Tables, Keyed
      <4>2. IsTable(draft[t])
        BY DEF IsPackage
      <4>3. QED
        BY <4>1, <4>2
    <3>3. QED
      BY <3>1, <3>2
  <2>2. QED
    BY <2>1
<1>5. draft'.assets \in [DOMAIN draft'.assets -> {"full", "bare"}]
  <2>1. CASE at = 11
    <3>1. draft'.assets = Restrict(db.assets, WantedAssets)
      BY <1>2, <2>1, ReadKinds, SelectedRows
    <3>2. db.assets \in [DOMAIN db.assets -> {"full", "bare"}] /\ WantedAssets \subseteq DOMAIN db.assets
      BY DEF Sound, WantedAssets
    <3>3. QED
      BY <3>1, <3>2 DEF Restrict
  <2>2. CASE at # 11
    <3>1. ReadOrder[at] # "assets"
      BY <2>2, ReadKinds
    <3>2. draft'.assets = draft.assets
      BY <1>2, <3>1 DEF Fields, Tables
    <3>3. QED
      BY <3>2 DEF IsPackage
  <2>3. QED
    BY <2>1, <2>2
<1>6. QED
  BY <1>2, <1>4, <1>5 DEF IsPackage

LEMMA ReadExplained ==
    ASSUME Sound(db), IsPackage(draft), at \in 1..11, Explained(db, draft, at), ReadNext
    PROVE  Explained(db, draft', at + 1)
<1> DEFINE e == draft'
           same(f) == \A t \in Fields \ {f} : e[t] = draft[t]
<1>1. e[ReadOrder[at]] = Selected[ReadOrder[at]] /\ same(ReadOrder[at])
  BY ReadOne
<1> SUFFICES Explained(db, e, at + 1)
  OBVIOUS
<1> HIDE DEF e
<1>2. CASE at = 1
  <2>1. e.messages = Restrict(db.messages, DOMAIN db.messages \intersect scope)
    BY <1>1, <1>2, ReadKinds, SelectedRows
  <2>2. QED
    BY <1>2, <2>1 DEF Explained, ShownArchived, Sound, Restrict
<1>3. CASE at = 2
  <2>1. e.views = db.views \intersect Found /\ same("views")
    BY <1>1, <1>3, ReadKinds, SelectedRows
  <2>2. e.messages = draft.messages
    BY <2>1 DEF Fields, Tables
  <2>3. QED
    BY <1>3, <2>1, <2>2 DEF Explained, ShownArchived, Found
<1>4. CASE at = 3
  <2>1. /\ e.records = Restrict(db.records, {s \in DOMAIN db.records : db.records[s].msg \in Found})
        /\ same("records")
    BY <1>1, <1>4, ReadKinds, SelectedRows
  <2>2. e.messages = draft.messages /\ e.views = draft.views
    BY <2>1 DEF Fields, Tables
  <2>3. \A s \in DOMAIN db.records : s \in db.sources
    BY DEF Sound
  <2>4. \A s \in DOMAIN e.records : e.records[s].msg \in DOMAIN e.messages /\ s \in db.sources
    BY <2>1, <2>2, <2>3 DEF Restrict, Found
  <2>5. QED
    BY <1>4, <2>2, <2>4 DEF Explained, ShownArchived
<1>5. CASE at = 4
  <2>1. e.batches = {<<s, draft.records[s].batch>> : s \in DOMAIN draft.records} /\ same("batches")
    BY <1>1, <1>5, ReadKinds, SelectedRows
  <2>2. /\ e.messages = draft.messages /\ e.views = draft.views
        /\ e.records = draft.records
    BY <2>1 DEF Fields, Tables
  <2>3. QED
    BY <1>5, <2>1, <2>2 DEF Explained, ShownArchived
<1>6. CASE at = 5
  <2>1. e.refs = OfFound(db.refs) /\ same("refs")
    BY <1>1, <1>6, ReadKinds, SelectedRows
  <2>2. /\ e.messages = draft.messages /\ e.views = draft.views
        /\ e.records = draft.records /\ e.batches = draft.batches
    BY <2>1 DEF Fields, Tables
  <2>3. \A m \in DOMAIN e.refs :
           /\ m \in DOMAIN e.messages
           /\ e.refs[m] \in {Pending} \union DOMAIN db.assets
    BY <2>1, <2>2 DEF Sound, OfFound, Restrict, Found
  <2>4. QED
    BY <1>6, <2>2, <2>3 DEF Explained, ShownArchived
<1>7. CASE at = 6
  <2>1. /\ e.parts = [m \in DOMAIN OfFound(db.parts) |-> db.parts[m] /\ m \in DOMAIN draft.refs]
        /\ same("parts")
    BY <1>1, <1>7, ReadKinds, SelectedRows
  <2>2. /\ e.messages = draft.messages /\ e.views = draft.views
        /\ e.records = draft.records /\ e.batches = draft.batches /\ e.refs = draft.refs
    BY <2>1 DEF Fields, Tables
  <2>3. PartsLinked(e.parts, DOMAIN e.messages, DOMAIN e.refs)
    BY <2>1, <2>2 DEF OfFound, Restrict, Found, PartsLinked
  <2>4. QED
    BY <1>7, <2>2, <2>3 DEF Explained, ShownArchived
<1>8. CASE at = 7
  <2>1. e.aliases = (IF Found = {} THEN {} ELSE db.aliases) /\ same("aliases")
    BY <1>1, <1>8, ReadKinds, SelectedRows
  <2>2. \A t \in Tables \ {"aliases"} : e[t] = draft[t]
    BY <2>1 DEF Fields
  <2>3. e.aliases \subseteq db.sources
    BY <2>1 DEF Sound
  <2>4. QED
    BY <1>8, <2>2, <2>3 DEF Explained, ShownArchived, Tables
<1>9. CASE at = 8
  <2>1. e.changes = (IF Found = {} THEN {} ELSE db.changes) /\ same("changes")
    BY <1>1, <1>9, ReadKinds, SelectedRows
  <2>2. \A t \in Tables \ {"changes"} : e[t] = draft[t]
    BY <2>1 DEF Fields
  <2>3. e.changes \ {NoAsset, NoProfile} \subseteq DOMAIN db.assets
    BY <2>1 DEF Sound, KnownAvatars, AvatarsOf
  <2>4. QED
    BY <1>9, <2>2, <2>3 DEF Explained, ShownArchived, Tables
<1>10. CASE at = 9
  <2>1. /\ e.sources = db.sources \intersect (DOMAIN draft.records \union draft.aliases)
        /\ same("sources")
    BY <1>1, <1>10, ReadKinds, SelectedRows
  <2>2. \A t \in Tables \ {"sources"} : e[t] = draft[t]
    BY <2>1 DEF Fields
  <2>3. QED
    BY <1>10, <2>1, <2>2 DEF Explained, ShownArchived, Tables
<1>11. CASE at = 10
  <2>1. e.avatar = (IF Found = {} THEN NoProfile ELSE db.avatar) /\ same("avatar")
    BY <1>1, <1>11, ReadKinds, SelectedRows
  <2>2. \A t \in Tables \ {"avatar"} : e[t] = draft[t]
    BY <2>1 DEF Fields
  <2>3. e.avatar \in {NoAsset, NoProfile} \union DOMAIN db.assets
    BY <2>1 DEF Sound, KnownAvatars, AvatarsOf
  <2>4. QED
    BY <1>11, <2>2, <2>3 DEF Explained, ShownArchived, Tables
<1>12. CASE at = 11
  <2>1. e.assets = Restrict(db.assets, WantedAssets) /\ same("assets")
    BY <1>1, <1>12, ReadKinds, SelectedRows
  <2>2. \A t \in Tables \ {"assets"} : e[t] = draft[t]
    BY <2>1 DEF Fields
  <2>3. /\ DOMAIN e.assets = WantedAssets /\ WantedAssets \subseteq DOMAIN db.assets
        /\ \A a \in WantedAssets : e.assets[a] = db.assets[a]
    BY <2>1 DEF Restrict, WantedAssets
  <2>4. /\ \A m \in DOMAIN e.messages : e.messages[m] \in {Plain} \union DOMAIN db.assets
        /\ \A m \in DOMAIN e.messages : e.messages[m] = draft.messages[m]
    BY <1>12, <2>2 DEF Explained, ShownArchived, Tables
  <2>5. ShownArchived(e, DOMAIN e.assets)
    BY <2>2, <2>3, <2>4 DEF ShownArchived, WantedAssets, ArchivedAs, Tables
  <2>6. \A m \in DOMAIN e.refs :
           /\ m \in DOMAIN e.messages
           /\ e.refs[m] # Pending => e.refs[m] \in DOMAIN e.assets
    BY <1>12, <2>2, <2>3 DEF Explained, WantedAssets, ArchivedAs, Tables
  <2>7. \A s \in DOMAIN e.records :
           /\ e.records[s].msg \in DOMAIN e.messages
           /\ s \in e.sources /\ <<s, e.records[s].batch>> \in e.batches
    BY <1>12, <2>2 DEF Explained, Tables
  <2>8. \A b \in e.batches : b[1] \in e.sources
    <3>1. e.batches = {<<s, e.records[s].batch>> : s \in DOMAIN e.records}
      BY <1>12, <2>2 DEF Explained, Tables
    <3>2. QED
      BY <2>7, <3>1
  <2>9. RowsClosed(e)
    <3>1. /\ e.views \subseteq DOMAIN e.messages /\ e.aliases \subseteq e.sources
          /\ PartsLinked(e.parts, DOMAIN e.messages, DOMAIN e.refs)
      BY <1>12, <2>2 DEF Explained, Tables
    <3>2. QED
      BY <2>6, <2>7, <2>8, <3>1 DEF RowsClosed
  <2>10. AvatarsKnown(e) \/ Bare(db)
    <3>1. AvatarsOf(e) \subseteq DOMAIN db.assets
      BY <1>12, <2>2 DEF Explained, AvatarsOf, Tables
    <3>2. SUFFICES ASSUME ~Bare(db) PROVE AvatarsKnown(e)
      OBVIOUS
    <3>3. \A a \in DOMAIN db.assets : db.assets[a] = "full"
      BY <3>2 DEF Bare, Sound
    <3>4. ASSUME NEW a \in AvatarsOf(e) PROVE a \in WantedAssets
      BY <2>2, <3>1, <3>3, <3>4 DEF WantedAssets, AvatarsOf, Tables
    <3>5. QED
      BY <2>3, <3>1, <3>3, <3>4 DEF AvatarsKnown
  <2>11. QED
    BY <1>12, <2>2, <2>5, <2>9, <2>10 DEF Explained, ShownArchived, Tables
<1>13. QED
  <2>1. at = 1 \/ at = 2 \/ at = 3 \/ at = 4 \/ at = 5 \/ at = 6 \/ at = 7 \/ at = 8
        \/ at = 9 \/ at = 10 \/ at = 11
    OBVIOUS
  <2>2. QED
    BY <2>1, <1>2, <1>3, <1>4, <1>5, <1>6, <1>7, <1>8, <1>9, <1>10, <1>11, <1>12
-----------------------------------------------------------------------------
(* The package, its preview and its import *)

Packed(p) ==
    /\ IsPackage(p)
    /\ RowsClosed(p) /\ ShownArchived(p, DOMAIN p.assets)
    /\ p.embedded \subseteq p.checked /\ p.checked \subseteq DOMAIN p.assets

PackageInv == Packed(package) /\ (~abroad => AvatarsKnown(package) \/ Bare(db))

\* What was reported is still so, and what is being imported was validated.
ReportInv ==
    /\ phase \in {"idle", "exporting", "importing"}
    /\ phase = "exporting" => ~raised /\ ~report.given
    /\ phase = "importing" => ~raised /\ AvatarsKnown(package) /\ ~Raises(db, package)
    /\ raised => Raises(db, package)
    /\ report.given => /\ report.valid => ~IdentityConflict(db, package)
                       /\ Updates(db, package) => report.updates

\* While an import runs, each file that the package describes is there, or is still to
\* be written, or has vanished since.
FilesInv == phase = "importing" => package.checked \subseteq disk \union todo \union gone

PackageSafe == Sound(db) /\ ReadInv /\ PackageInv /\ ReportInv /\ FilesInv

LEMMA NothingPacked == Packed(NoPackage) /\ AvatarsKnown(NoPackage)
<1>1. RowsClosed(NoPackage)
  BY NothingRead DEF RowsClosed, PartsLinked, Keyed
<1>2. ShownArchived(NoPackage, DOMAIN NoPackage.assets)
  BY NothingRead DEF ShownArchived, Keyed
<1>3. AvatarsKnown(NoPackage)
  BY NothingRead DEF AvatarsKnown, AvatarsOf
<1>4. QED
  BY <1>1, <1>2, <1>3, NothingRead DEF Packed

LEMMA MergedTables ==
    ASSUME NEW d, NEW p
    PROVE  /\ IsRows(Merged(d, p))
           /\ Merged(d, p).sources = d.sources \union p.sources
           /\ Merged(d, p).batches = d.batches \union p.batches
           /\ Merged(d, p).messages = Over(p.messages, d.messages)
           /\ Merged(d, p).views = d.views \union p.views
           /\ Merged(d, p).assets = Over(p.assets, d.assets)
           /\ Merged(d, p).records = Over(p.records, d.records)
           /\ Merged(d, p).refs = MergedRefs(d, p)
           /\ Merged(d, p).parts = Over(p.parts, d.parts)
           /\ Merged(d, p).aliases = d.aliases \union p.aliases
           /\ Merged(d, p).changes = d.changes \union p.changes
           /\ Merged(d, p).avatar = IF p.avatar = NoProfile THEN d.avatar ELSE p.avatar
<1> DEFINE r == MergedRows(d, p)
           i == MergedIdentities(d, p)
           m == Merged(d, p)
<1>1. DOMAIN r = {"sources", "batches", "messages", "views", "assets", "records", "refs", "parts"}
  BY DEF MergedRows
<1>2. DOMAIN i = {"aliases", "changes", "avatar"}
  BY DEF MergedIdentities
<1>3. m = Over(r, i)
  BY DEF Merged
<1>4. /\ r.sources = d.sources \union p.sources
      /\ r.batches = d.batches \union p.batches
      /\ r.messages = Over(p.messages, d.messages)
      /\ r.views = d.views \union p.views
      /\ r.assets = Over(p.assets, d.assets)
      /\ r.records = Over(p.records, d.records)
      /\ r.refs = MergedRefs(d, p)
      /\ r.parts = Over(p.parts, d.parts)
  BY DEF MergedRows
<1>5. /\ i.aliases = d.aliases \union p.aliases
      /\ i.changes = d.changes \union p.changes
      /\ i.avatar = IF p.avatar = NoProfile THEN d.avatar ELSE p.avatar
  BY DEF MergedIdentities
<1> HIDE DEF r, i, m
<1>6. /\ DOMAIN m = Tables /\ m = [t \in DOMAIN m |-> m[t]]
      /\ \A t \in DOMAIN r : m[t] = r[t]
      /\ \A t \in DOMAIN i : m[t] = i[t]
  BY <1>1, <1>2, <1>3 DEF Over, Tables
<1>7. QED
  BY <1>1, <1>2, <1>4, <1>5, <1>6 DEF m, IsRows

LEMMA MergedSound ==
    ASSUME NEW d, Sound(d), NEW p, Packed(p), AvatarsKnown(p)
    PROVE  Sound(Merged(d, p))
<1> DEFINE e == Merged(d, p)
<1>1. /\ IsRows(e) /\ e.sources = d.sources \union p.sources
      /\ e.batches = d.batches \union p.batches
      /\ e.messages = Over(p.messages, d.messages)
      /\ e.assets = Over(p.assets, d.assets) /\ e.records = Over(p.records, d.records)
      /\ e.refs = MergedRefs(d, p) /\ e.parts = Over(p.parts, d.parts)
      /\ e.aliases = d.aliases \union p.aliases /\ e.changes = d.changes \union p.changes
      /\ e.avatar \in {d.avatar, p.avatar}
  BY MergedTables
<1> HIDE DEF e
<1>2. \A t \in {"messages", "records", "refs", "parts", "assets"} :
         e[t] = [k \in DOMAIN e[t] |-> e[t][k]]
  BY <1>1 DEF Over, MergedRefs
<1>3. /\ DOMAIN e.assets = DOMAIN p.assets \union DOMAIN d.assets
      /\ e.assets \in [DOMAIN e.assets -> {"full", "bare"}]
  BY <1>1 DEF Over, Sound, Packed, IsPackage
<1>4. \A b \in e.batches : b[1] \in e.sources
  <2>1. \A b \in d.batches : b[1] \in d.sources
    BY DEF Sound
  <2>2. \A b \in p.batches : b[1] \in p.sources
    BY DEF Packed, RowsClosed
  <2>3. QED
    BY <1>1, <2>1, <2>2
<1>5. \A s \in DOMAIN e.records : <<s, e.records[s].batch>> \in e.batches
  <2>1. \A s \in DOMAIN d.records : <<s, d.records[s].batch>> \in d.batches
    BY DEF Sound
  <2>2. \A s \in DOMAIN p.records : <<s, p.records[s].batch>> \in p.batches
    BY DEF Packed, RowsClosed
  <2>3. QED
    BY <1>1, <2>1, <2>2 DEF Over
<1>6. \A m \in DOMAIN e.messages : e.messages[m] \in {Plain} \union DOMAIN e.assets
  <2>1. \A m \in DOMAIN d.messages : d.messages[m] \in {Plain} \union DOMAIN d.assets
    BY DEF Sound
  <2>2. \A m \in DOMAIN p.messages : p.messages[m] \in {Plain} \union DOMAIN p.assets
    BY DEF Packed, ShownArchived
  <2>3. QED
    BY <1>1, <1>3, <2>1, <2>2 DEF Over
<1>7. \A m \in DOMAIN e.refs : e.refs[m] \in {Pending} \union DOMAIN e.assets
  <2>1. \A m \in DOMAIN d.refs : d.refs[m] \in {Pending} \union DOMAIN d.assets
    BY DEF Sound
  <2>2. \A m \in DOMAIN p.refs : p.refs[m] \in {Pending} \union DOMAIN p.assets
    BY DEF Packed, RowsClosed
  <2>3. QED
    BY <1>1, <1>3, <2>1, <2>2 DEF MergedRefs
<1>8. e.aliases \subseteq e.sources
  BY <1>1 DEF Sound, Packed, RowsClosed
<1>9. KnownAvatars(e)
  BY <1>1, <1>3 DEF Sound, AvatarsKnown, KnownAvatars, AvatarsOf
<1>10. Sound(e)
  BY <1>1, <1>2, <1>3, <1>4, <1>5, <1>6, <1>7, <1>8, <1>9, TablesOfEmptyDb DEF Sound, IsRows
<1>11. QED
  BY <1>10 DEF e
-----------------------------------------------------------------------------
(* The invariant *)

LEMMA PackageInit == Init => PackageSafe
<1> SUFFICES ASSUME Init PROVE PackageSafe
  OBVIOUS
<1>1. Sound(db) /\ phase = "idle" /\ package = NoPackage /\ ~raised /\ ~report.given
  BY PackageAssumption DEF Init, NoReport
<1>2. PackageInv
  BY <1>1, NothingPacked DEF PackageInv
<1>3. QED
  BY <1>1, <1>2 DEF PackageSafe, ReadInv, ReportInv, FilesInv

LEMMA WritesSafe == PackageSafe /\ ServerWrites => PackageSafe'
<1> SUFFICES ASSUME PackageSafe, ServerWrites PROVE PackageSafe'
  OBVIOUS
<1>1. Sound(db') /\ Grows(db, db')
  BY WritesGrow DEF PackageSafe
<1>2. /\ phase' = phase /\ draft' = draft /\ at' = at /\ package' = package
      /\ abroad' = abroad /\ ~report'.given
      /\ \/ phase # "importing" /\ ~raised'
         \/ raised' = raised /\ db' = db
  <2>1. NoReport.given = FALSE
    BY DEF NoReport
  <2>2. QED
    BY <2>1 DEF ServerWrites, CaptureMessage, OpenBatch, ImportItem, UploadMedia, SetAvatar,
                LoseFile, Write
<1>3. ReadInv'
  <2>1. SUFFICES ASSUME phase = "exporting"
                 PROVE  IsPackage(draft) /\ at \in 1..12 /\ Explained(db', draft, at)
    BY <1>2 DEF ReadInv
  <2>2. IsPackage(draft) /\ at \in 1..12 /\ Explained(db, draft, at)
    BY <2>1 DEF PackageSafe, ReadInv
  <2>3. QED
    BY <1>1, <2>2, ExplainedGrows
<1>4. PackageInv'
  <2>1. Bare(db) => Bare(db')
    BY <1>1 DEF Bare, Grows
  <2>2. QED
    BY <1>2, <2>1 DEF PackageSafe, PackageInv
<1>5. ReportInv'
  BY <1>2 DEF PackageSafe, ReportInv
<1>6. FilesInv'
  BY DEF PackageSafe, FilesInv, ServerWrites, CaptureMessage, OpenBatch, ImportItem,
         UploadMedia, SetAvatar, LoseFile, Write
<1>7. QED
  BY <1>1, <1>3, <1>4, <1>5, <1>6 DEF PackageSafe

LEMMA ExportSafe ==
    PackageSafe /\ ((\E filter \in SUBSET Messages : StartExport(filter))
                    \/ ReadNext \/ RefuseExport
                    \/ (\E signature \in {NoKey, site.key} : FinishExport(signature))) => PackageSafe'
<1> SUFFICES ASSUME PackageSafe,
                    \/ \E filter \in SUBSET Messages : StartExport(filter)
                    \/ ReadNext \/ RefuseExport
                    \/ \E signature \in {NoKey, site.key} : FinishExport(signature)
             PROVE  PackageSafe'
  OBVIOUS
<1>1. CASE \E filter \in SUBSET Messages : StartExport(filter)
  <2>1. /\ db' = db /\ phase' = "exporting" /\ at' = 1 /\ draft' = NoPackage
        /\ package' = NoPackage /\ ~raised' /\ ~report'.given
    BY <1>1 DEF StartExport, NoReport
  <2>2. IsPackage(draft') /\ Explained(db', draft', at')
    BY <2>1, NothingRead DEF Explained
  <2>3. PackageInv'
    BY <2>1, NothingPacked DEF PackageInv
  <2>4. QED
    BY <2>1, <2>2, <2>3 DEF PackageSafe, ReadInv, ReportInv, FilesInv
<1>2. CASE ReadNext
  <2>1. /\ phase = "exporting" /\ at \in 1..11
        /\ IsPackage(draft) /\ Explained(db, draft, at) /\ Sound(db)
    BY <1>2, ReadKinds DEF PackageSafe, ReadInv, ReadNext
  <2>2. IsPackage(draft') /\ at' = at + 1 /\ Explained(db, draft', at + 1)
    BY <1>2, <2>1, ReadOne, ReadExplained
  <2>3. /\ db' = db /\ phase' = phase /\ package' = package /\ abroad' = abroad
        /\ report' = report /\ raised' = raised
    BY <1>2 DEF ReadNext
  <2>4. ReadInv'
    BY <2>1, <2>2, <2>3 DEF ReadInv
  <2>5. QED
    BY <2>1, <2>3, <2>4 DEF PackageSafe, PackageInv, ReportInv, FilesInv
<1>3. ASSUME NEW signature \in {NoKey, site.key}, FinishExport(signature)
      PROVE  PackageSafe'
  <2>1. /\ phase = "exporting" /\ at = 12
        /\ IsPackage(draft) /\ Explained(db, draft, at)
    BY <1>3, ReadKinds DEF PackageSafe, ReadInv, FinishExport
  <2> DEFINE present == DOMAIN draft.assets \intersect disk
             p == [draft EXCEPT !.checked = present, !.embedded = present \ TooBig,
                                !.signature = signature]
  <2>2. /\ db' = db /\ phase' = "idle" /\ package' = p /\ abroad' = abroad
        /\ report' = report /\ raised' = raised
    BY <1>3 DEF FinishExport
  <2>3. /\ p = [t \in Fields |-> p[t]]
        /\ p.checked = present /\ p.embedded = present \ TooBig
        /\ \A t \in Tables : p[t] = draft[t]
    <3>1. draft = [t \in Fields |-> draft[t]]
      BY <2>1 DEF IsPackage
    <3> HIDE DEF present
    <3>2. QED
      BY <3>1 DEF Fields, Tables
  <2> HIDE DEF p
  <2>4. IsPackage(p)
    BY <2>1, <2>3 DEF IsPackage, Tables, Keyed
  <2>5. /\ RowsClosed(p) /\ ShownArchived(p, DOMAIN p.assets)
        /\ AvatarsKnown(p) \/ Bare(db)
    <3>1. /\ RowsClosed(draft) /\ ShownArchived(draft, DOMAIN draft.assets)
          /\ AvatarsKnown(draft) \/ Bare(db)
      BY <2>1 DEF Explained
    <3>2. RowsClosed(p)
      BY <2>3, <3>1 DEF RowsClosed, Tables
    <3>3. ShownArchived(p, DOMAIN p.assets)
      BY <2>3, <3>1 DEF ShownArchived, Tables
    <3>4. AvatarsKnown(draft) => AvatarsKnown(p)
      BY <2>3 DEF AvatarsKnown, AvatarsOf, Tables
    <3>5. QED
      BY <3>1, <3>2, <3>3, <3>4
  <2>6. p.embedded \subseteq p.checked /\ p.checked \subseteq DOMAIN p.assets
    BY <2>3 DEF Tables
  <2>7. PackageInv'
    BY <2>2, <2>4, <2>5, <2>6 DEF PackageInv, Packed
  <2>8. ~raised' /\ ~report'.given
    BY <2>1, <2>2 DEF PackageSafe, ReportInv
  <2>9. QED
    BY <2>2, <2>7, <2>8 DEF PackageSafe, ReadInv, ReportInv, FilesInv
<1>4. CASE RefuseExport
  BY <1>4 DEF RefuseExport, PackageSafe, ReadInv, PackageInv, ReportInv, FilesInv
<1>5. QED
  BY <1>1, <1>2, <1>3, <1>4

LEMMA CarriedSafe ==
    ASSUME PackageSafe, NEW v \in Servers, CarryTo(v)
    PROVE  PackageSafe'
<1>1. /\ Sound(db') /\ phase = "idle" /\ phase' = phase /\ package' = package /\ abroad'
      /\ ~raised' /\ ~report'.given
  BY PackageAssumption DEF CarryTo, NoReport
<1>2. QED
  BY <1>1 DEF PackageSafe, ReadInv, PackageInv, ReportInv, FilesInv

LEMMA ImportSafe ==
    PackageSafe /\ (Preview \/ StartImport \/ (\E a \in Assets : RestoreFile(a))
                    \/ CommitImport \/ FailImport) => PackageSafe'
<1> SUFFICES ASSUME PackageSafe,
                    Preview \/ StartImport \/ (\E a \in Assets : RestoreFile(a))
                    \/ CommitImport \/ FailImport
             PROVE  PackageSafe'
  OBVIOUS
<1>1. CASE Preview
  <2>1. /\ phase = "idle" /\ phase' = phase /\ db' = db /\ package' = package
        /\ abroad' = abroad /\ raised' = raised
        /\ report' = [given   |-> TRUE,
                      valid   |-> Valid(package, disk, site) /\ ~IdentityConflict(db, package),
                      updates |-> Updates(db, package)]
    BY <1>1 DEF Preview
  <2>2. /\ report'.valid => ~IdentityConflict(db, package)
        /\ Updates(db, package) => report'.updates
    BY <2>1
  <2>3. QED
    BY <2>1, <2>2 DEF PackageSafe, ReadInv, PackageInv, ReportInv, FilesInv
<1>2. CASE StartImport
  <2>1. /\ AvatarsKnown(package) /\ db' = db /\ package' = package /\ abroad' = abroad
        /\ report' = report /\ phase' \in {"idle", "importing"}
        /\ raised' => Raises(db, package)
        /\ phase' = "importing" => ~raised' /\ ~Raises(db, package)
    BY <1>2 DEF StartImport, Valid
  <2>2. FilesInv'
    BY <1>2 DEF StartImport, Valid, FilesAt, FilesInv
  <2>3. QED
    BY <2>1, <2>2 DEF PackageSafe, ReadInv, PackageInv, ReportInv
<1>3. CASE \E a \in Assets : RestoreFile(a)
  <2>1. FilesInv'
    BY <1>3 DEF RestoreFile, PackageSafe, FilesInv
  <2>2. QED
    BY <1>3, <2>1 DEF RestoreFile, PackageSafe, ReadInv, PackageInv, ReportInv
<1>4. CASE CommitImport
  <2>1. /\ phase = "importing" /\ phase' = "idle" /\ db' = Merged(db, package)
        /\ package' = package /\ raised' = raised /\ ~report'.given
    BY <1>4 DEF CommitImport, EndImport, NoReport
  <2>2. AvatarsKnown(package) /\ ~raised /\ Packed(package) /\ Sound(db)
    BY <2>1 DEF PackageSafe, ReportInv, PackageInv
  <2>3. Sound(db')
    BY <2>1, <2>2, MergedSound
  <2>4. QED
    BY <2>1, <2>2, <2>3 DEF PackageSafe, ReadInv, PackageInv, ReportInv, FilesInv
<1>5. CASE FailImport
  BY <1>5 DEF FailImport, EndImport, NoReport, PackageSafe, ReadInv, PackageInv, ReportInv,
              FilesInv
<1>6. QED
  BY <1>1, <1>2, <1>3, <1>4, <1>5

\* What the tables of the server hold, what an export has read of them and what became
\* of it explain one another in every reachable state.
THEOREM PackageInvariant == Spec => []PackageSafe
<1>1. PackageSafe /\ UNCHANGED vars => PackageSafe'
  BY DEF vars, PackageSafe, ReadInv, PackageInv, ReportInv, FilesInv
<1>2. PackageSafe /\ [Next]_vars => PackageSafe'
  BY <1>1, WritesSafe, ExportSafe, CarriedSafe, ImportSafe DEF Next
<1>3. QED
  BY PackageInit, <1>2, PTL DEF Spec

\* After a merge, as after every other write, each row refers to rows that are there,
\* and every avatar is the asset of a row.
THEOREM TablesStaySound == Spec => []Sound(db)
<1>1. PackageSafe => Sound(db)
  BY DEF PackageSafe
<1>2. QED
  BY PackageInvariant, <1>1, PTL

\* However the writes fall between the queries of an export, its package is closed.
THEOREM ExportsAreClosed == Spec => []ExportIsClosed
<1>1. PackageSafe => ExportIsClosed
  BY DEF PackageSafe, PackageInv, Packed, Bare, ExportIsClosed
<1>2. QED
  BY PackageInvariant, <1>1, PTL

\* An import that raises after validation was announced by a preview of the same rows.
THEOREM PreviewsWarn == Spec => []PreviewWarns
<1>1. ASSUME PackageSafe, raised, report.given PROVE ~report.valid \/ report.updates
  <2>1. CASE IdentityConflict(db, package)
    BY <1>1, <2>1 DEF PackageSafe, ReportInv
  <2>2. CASE BoundElsewhere(db, package)
    BY <1>1, <2>2 DEF PackageSafe, ReportInv, Updates
  <2>3. CASE Rebinds(db, package)
    <3>1. Updates(db, package)
      BY <2>3 DEF Rebinds, Updates, Differs
    <3>2. QED
      BY <1>1, <3>1 DEF PackageSafe, ReportInv
  <2>4. QED
    BY <1>1, <2>1, <2>2, <2>3 DEF PackageSafe, ReportInv, Raises
<1>2. PackageSafe => PreviewWarns
  BY <1>1 DEF PreviewWarns
<1>3. QED
  BY PackageInvariant, <1>2, PTL

\* An import never rebinds or reopens a complete reference, whatever the package says,
\* and when it commits, every file that the package describes is there, unless it
\* vanished while the import ran.
THEOREM ImportsKeepTheArchive == Spec => ImportKeepsArchive
<1>1. ASSUME PackageSafe, CommitImport
      PROVE  /\ \A m \in DOMAIN db.refs :
                    db.refs[m] # Pending => m \in DOMAIN db'.refs /\ db'.refs[m] = db.refs[m]
             /\ package.checked \subseteq disk \union gone
  <2>1. db'.refs = MergedRefs(db, package)
    BY <1>1, MergedTables DEF CommitImport
  <2>2. package.checked \subseteq disk \union gone
    BY <1>1 DEF PackageSafe, FilesInv, CommitImport
  <2>3. QED
    BY <2>1, <2>2 DEF MergedRefs
<1>2. QED
  BY PackageInvariant, <1>1, PTL DEF Spec, ImportKeepsArchive

-----------------------------------------------------------------------------
(* The conversion *)

\* The place of each table in the order of the restore.
LEMMA SectionPlaces ==
    /\ Len(SectionOrder) = 11
    /\ SectionOrder[1] = "sources" /\ SectionOrder[2] = "batches"
    /\ SectionOrder[3] = "messages" /\ SectionOrder[4] = "views"
    /\ SectionOrder[5] = "assets" /\ SectionOrder[6] = "records"
    /\ SectionOrder[7] = "refs" /\ SectionOrder[8] = "parts"
    /\ SectionOrder[9] = "aliases" /\ SectionOrder[10] = "changes"
    /\ SectionOrder[11] = "avatar"
BY DEF SectionOrder

LEMMA LegacyPlaces ==
    /\ DOMAIN LegacySections = 1..11
    /\ LegacySections[1] = "sources" /\ LegacySections[2] = "batches"
    /\ LegacySections[3] = "messages" /\ LegacySections[4] = "views"
    /\ LegacySections[5] = "records" /\ LegacySections[6] = "refs"
    /\ LegacySections[7] = "parts" /\ LegacySections[8] = "aliases"
    /\ LegacySections[9] = "changes" /\ LegacySections[10] = "avatar"
    /\ LegacySections[11] = "assets"
BY DEF LegacySections

\* What the converter copies is what the restore expects: every table.
LEMMA SameSections ==
    Range(LegacySections) = Tables /\ Range(SectionOrder) = Tables
<1>1. Range(LegacySections) = Tables
  <2>1. ASSUME NEW t \in Tables PROVE \E i \in 1..11 : LegacySections[i] = t
    BY LegacyPlaces DEF Tables
  <2>2. ASSUME NEW i \in 1..11 PROVE LegacySections[i] \in Tables
    <3>1. i \in {1, 2, 3, 4, 5, 6, 7, 8, 9, 10, 11}
      OBVIOUS
    <3>2. QED
      BY <3>1, LegacyPlaces DEF Tables
  <2>3. QED
    BY <2>1, <2>2, LegacyPlaces DEF Range
<1>2. DOMAIN SectionOrder = 1..11
  BY DEF SectionOrder
<1>3. Range(SectionOrder) = Tables
  <2>1. ASSUME NEW t \in Tables PROVE \E i \in 1..11 : SectionOrder[i] = t
    BY SectionPlaces DEF Tables
  <2>2. ASSUME NEW i \in 1..11 PROVE SectionOrder[i] \in Tables
    <3>1. i \in {1, 2, 3, 4, 5, 6, 7, 8, 9, 10, 11}
      OBVIOUS
    <3>2. QED
      BY <3>1, SectionPlaces DEF Tables
  <2>3. QED
    BY <1>2, <2>1, <2>2 DEF Range
<1>4. QED
  BY <1>1, <1>3

\* After k sections a table is empty or holds what the package holds.
LEMMA TablesSoFar ==
    ASSUME NEW p, NEW k \in 1..11
    PROVE  LET d == TablesAt(Archive(p), k) IN
           /\ IsRows(d)
           /\ d.sources = p.sources
           /\ d.batches = IF k >= 2 THEN p.batches ELSE {}
           /\ d.messages = IF k >= 3 THEN p.messages ELSE None
           /\ d.views = IF k >= 4 THEN p.views ELSE {}
           /\ d.assets = IF k >= 5 THEN p.assets ELSE None
           /\ d.records = IF k >= 6 THEN p.records ELSE None
           /\ d.refs = IF k >= 7 THEN p.refs ELSE None
           /\ d.parts = IF k >= 8 THEN p.parts ELSE None
           /\ d.aliases = IF k >= 9 THEN p.aliases ELSE {}
           /\ d.changes = IF k >= 10 THEN p.changes ELSE {}
           /\ d.avatar = IF k >= 11 THEN p.avatar ELSE NoProfile
<1> DEFINE d == TablesAt(Archive(p), k)
           placed(t) == \E i \in 1..k : SectionOrder[i] = t
<1>1. \A t \in Tables : Archive(p).sections[t] = p[t]
  BY SameSections DEF Archive
<1>2. d = [t \in Tables |-> IF placed(t) THEN Archive(p).sections[t] ELSE EmptyDb[t]]
  BY TablesOfEmptyDb DEF TablesAt
<1> HIDE DEF d, placed
<1>3. IsRows(d) /\ \A t \in Tables : d[t] = IF placed(t) THEN p[t] ELSE EmptyDb[t]
  BY <1>1, <1>2 DEF IsRows
<1>4. /\ placed("sources") /\ (placed("batches") <=> k >= 2)
      /\ (placed("messages") <=> k >= 3) /\ (placed("views") <=> k >= 4)
      /\ (placed("assets") <=> k >= 5) /\ (placed("records") <=> k >= 6)
      /\ (placed("refs") <=> k >= 7) /\ (placed("parts") <=> k >= 8)
      /\ (placed("aliases") <=> k >= 9) /\ (placed("changes") <=> k >= 10)
      /\ (placed("avatar") <=> k >= 11)
  <2>1. ASSUME NEW j \in 1..11, NEW i \in 1..11, SectionOrder[i] = SectionOrder[j]
        PROVE  i = j
    <3>1. i \in {1, 2, 3, 4, 5, 6, 7, 8, 9, 10, 11}
      OBVIOUS
    <3>2. QED
      BY <2>1, <3>1, SectionPlaces
  <2>2. ASSUME NEW j \in 1..11 PROVE placed(SectionOrder[j]) <=> k >= j
    <3>1. k >= j => placed(SectionOrder[j])
      BY DEF placed
    <3>2. placed(SectionOrder[j]) => k >= j
      BY <2>1 DEF placed
    <3>3. QED
      BY <3>1, <3>2
  <2>3. /\ placed(SectionOrder[1]) <=> k >= 1
        /\ placed(SectionOrder[2]) <=> k >= 2
        /\ placed(SectionOrder[3]) <=> k >= 3
        /\ placed(SectionOrder[4]) <=> k >= 4
        /\ placed(SectionOrder[5]) <=> k >= 5
        /\ placed(SectionOrder[6]) <=> k >= 6
        /\ placed(SectionOrder[7]) <=> k >= 7
        /\ placed(SectionOrder[8]) <=> k >= 8
        /\ placed(SectionOrder[9]) <=> k >= 9
        /\ placed(SectionOrder[10]) <=> k >= 10
        /\ placed(SectionOrder[11]) <=> k >= 11
    BY <2>2
  <2>4. QED
    BY <2>3, SectionPlaces
<1>5. /\ EmptyDb.batches = {} /\ EmptyDb.views = {} /\ EmptyDb.aliases = {}
      /\ EmptyDb.changes = {} /\ EmptyDb.avatar = NoProfile
      /\ \A t \in Keyed : EmptyDb[t] = None
  BY DEF EmptyDb, Keyed
<1>6. /\ d.sources = p.sources
      /\ d.batches = IF k >= 2 THEN p.batches ELSE {}
      /\ d.messages = IF k >= 3 THEN p.messages ELSE None
      /\ d.views = IF k >= 4 THEN p.views ELSE {}
      /\ d.assets = IF k >= 5 THEN p.assets ELSE None
      /\ d.records = IF k >= 6 THEN p.records ELSE None
      /\ d.refs = IF k >= 7 THEN p.refs ELSE None
      /\ d.parts = IF k >= 8 THEN p.parts ELSE None
      /\ d.aliases = IF k >= 9 THEN p.aliases ELSE {}
      /\ d.changes = IF k >= 10 THEN p.changes ELSE {}
      /\ d.avatar = IF k >= 11 THEN p.avatar ELSE NoProfile
  BY <1>3, <1>4, <1>5 DEF Tables, Keyed
<1>7. QED
  BY <1>3, <1>6 DEF d

\* Each section finds the rows it refers to among the sections before it.
LEMMA OrderOfRestore ==
    ASSUME NEW p, Packed(p), NEW k \in 1..11
    PROVE  ForeignKeysHold(TablesAt(Archive(p), k))
<1> DEFINE d == TablesAt(Archive(p), k)
<1>1. /\ d.sources = p.sources
      /\ d.batches = IF k >= 2 THEN p.batches ELSE {}
      /\ d.messages = IF k >= 3 THEN p.messages ELSE None
      /\ d.assets = IF k >= 5 THEN p.assets ELSE None
      /\ d.records = IF k >= 6 THEN p.records ELSE None
      /\ d.refs = IF k >= 7 THEN p.refs ELSE None
      /\ d.parts = IF k >= 8 THEN p.parts ELSE None
      /\ d.aliases = IF k >= 9 THEN p.aliases ELSE {}
  BY TablesSoFar
<1> HIDE DEF d
<1>2. RowsClosed(p) /\ DOMAIN None = {}
  BY DEF Packed, None
<1>3. \A b \in d.batches : b[1] \in d.sources
  BY <1>1, <1>2 DEF RowsClosed
<1>4. \A s \in DOMAIN d.records :
         /\ d.records[s].msg \in DOMAIN d.messages
         /\ s \in d.sources /\ <<s, d.records[s].batch>> \in d.batches
  <2>1. CASE k >= 6
    <3>1. d.records = p.records /\ d.messages = p.messages /\ d.batches = p.batches
      BY <1>1, <2>1
    <3>2. QED
      BY <1>1, <1>2, <3>1 DEF RowsClosed
  <2>2. CASE ~(k >= 6)
    BY <1>1, <1>2, <2>2
  <2>3. QED
    BY <2>1, <2>2
<1>5. \A m \in DOMAIN d.refs :
         m \in DOMAIN d.messages /\ d.refs[m] \in {Pending} \union DOMAIN d.assets
  <2>1. CASE k >= 7
    <3>1. d.refs = p.refs /\ d.messages = p.messages /\ d.assets = p.assets
      BY <1>1, <2>1
    <3>2. QED
      BY <1>2, <3>1 DEF RowsClosed
  <2>2. CASE ~(k >= 7)
    BY <1>1, <1>2, <2>2
  <2>3. QED
    BY <2>1, <2>2
<1>6. PartsLinked(d.parts, DOMAIN d.messages, DOMAIN d.refs)
  <2>1. CASE k >= 8
    <3>1. d.parts = p.parts /\ d.messages = p.messages /\ d.refs = p.refs
      BY <1>1, <2>1
    <3>2. QED
      BY <1>2, <3>1 DEF RowsClosed
  <2>2. CASE ~(k >= 8)
    BY <1>1, <1>2, <2>2 DEF PartsLinked
  <2>3. QED
    BY <2>1, <2>2
<1>7. d.aliases \subseteq d.sources
  BY <1>1, <1>2 DEF RowsClosed
<1>8. ForeignKeysHold(d)
  BY <1>3, <1>4, <1>5, <1>6, <1>7 DEF ForeignKeysHold
<1>9. QED
  BY <1>8 DEF d

\* The import of a package into an empty server writes its rows as they are.
LEMMA MergedIntoEmpty ==
    ASSUME NEW p, Packed(p)
    PROVE  IsRows(Merged(EmptyDb, p)) /\ \A t \in Tables : Merged(EmptyDb, p)[t] = p[t]
<1> DEFINE m == Merged(EmptyDb, p)
<1>1. /\ EmptyDb.sources = {} /\ EmptyDb.batches = {} /\ EmptyDb.views = {}
      /\ EmptyDb.aliases = {} /\ EmptyDb.changes = {} /\ EmptyDb.avatar = NoProfile
      /\ \A t \in Keyed : EmptyDb[t] = None
  BY DEF EmptyDb, Keyed
<1>2. DOMAIN None = {}
  BY DEF None
<1>3. \A t \in Keyed : p[t] = Over(p[t], None)
  <2>1. \A t \in Keyed : IsTable(p[t])
    BY DEF Packed, IsPackage
  <2>2. ASSUME NEW f, IsTable(f) PROVE f = Over(f, None)
    BY <1>2, <2>2 DEF IsTable, Over
  <2>3. QED
    BY <2>1, <2>2
<1>4. p.refs = MergedRefs(EmptyDb, p)
  <2>1. IsTable(p.refs) /\ DOMAIN EmptyDb.refs = {}
    BY <1>1, <1>2 DEF Packed, IsPackage, Keyed
  <2>2. QED
    BY <2>1 DEF MergedRefs, IsTable
<1>5. /\ m.messages = p.messages /\ m.records = p.records /\ m.refs = p.refs
      /\ m.parts = p.parts /\ m.assets = p.assets
  BY <1>1, <1>3, <1>4, MergedTables DEF Keyed
<1>6. /\ m.sources = p.sources /\ m.batches = p.batches /\ m.views = p.views
      /\ m.aliases = p.aliases /\ m.changes = p.changes
  <2>1. ASSUME NEW rows PROVE {} \union rows = rows
    OBVIOUS
  <2>2. /\ m.sources = EmptyDb.sources \union p.sources
        /\ m.batches = EmptyDb.batches \union p.batches
        /\ m.views = EmptyDb.views \union p.views
        /\ m.aliases = EmptyDb.aliases \union p.aliases
        /\ m.changes = EmptyDb.changes \union p.changes
    BY MergedTables
  <2> HIDE DEF m
  <2>3. QED
    BY <1>1, <2>1, <2>2
<1>7. IsRows(m) /\ m.avatar = p.avatar
  BY <1>1, MergedTables
<1> HIDE DEF m
<1>8. IsRows(m) /\ \A t \in Tables : m[t] = p[t]
  BY <1>5, <1>6, <1>7 DEF Tables
<1>9. QED
  BY <1>8 DEF m

\* What a server with a key could import if it were empty, it can convert; the restore
\* of that archive violates no foreign key at any section, and brings the rows that the
\* import brings.
THEOREM ConversionsAgree == Spec => []ConversionAgrees
<1>1. ASSUME Packed(package), site.key # NoKey, Valid(package, {}, site)
      PROVE  /\ Converts(package, site) /\ Restores(Archive(package))
             /\ Restored(Archive(package)) = Merged(EmptyDb, package)
             /\ Archive(package).members = package.embedded
  <2> DEFINE p == package
  <2>1. Archive(p).members = p.embedded
    BY <1>1 DEF Packed, Archive
  <2>2. Converts(p, site)
    BY <1>1, <2>1 DEF Converts, Valid, Authentic, LegacyAuthentic
  <2>3. Restores(Archive(p))
    <3>1. DOMAIN Archive(p).sections = Range(SectionOrder)
      BY SameSections DEF Archive
    <3>2. QED
      BY <1>1, <3>1, OrderOfRestore, SectionPlaces DEF Restores
  <2>4. Restored(Archive(p)) = Merged(EmptyDb, p)
    <3> DEFINE d == TablesAt(Archive(p), 11)
               m == Merged(EmptyDb, p)
    <3>1. IsRows(d) /\ \A t \in Tables : d[t] = p[t]
      <4>1. /\ IsRows(d) /\ d.sources = p.sources /\ d.batches = p.batches
            /\ d.messages = p.messages /\ d.views = p.views /\ d.assets = p.assets
            /\ d.records = p.records /\ d.refs = p.refs /\ d.parts = p.parts
            /\ d.aliases = p.aliases /\ d.changes = p.changes /\ d.avatar = p.avatar
        BY TablesSoFar
      <4> HIDE DEF d
      <4>2. QED
        BY <4>1 DEF Tables
    <3>2. IsRows(m) /\ \A t \in Tables : m[t] = p[t]
      BY <1>1, MergedIntoEmpty
    <3>3. Restored(Archive(p)) = d
      BY SectionPlaces DEF Restored
    <3> HIDE DEF d, m
    <3>4. d = m
      BY <3>1, <3>2 DEF IsRows
    <3>5. QED
      BY <3>3, <3>4 DEF m
  <2>5. QED
    BY <2>1, <2>2, <2>3, <2>4
<1>2. PackageSafe => ConversionAgrees
  BY <1>1 DEF PackageSafe, PackageInv, ConversionAgrees
<1>3. QED
  BY PackageInvariant, <1>2, PTL
=============================================================================
