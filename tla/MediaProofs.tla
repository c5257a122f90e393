----------------------------- MODULE MediaProofs -----------------------------
(***************************************************************************)
(* What the archive calls local is served: whatever order the sessions     *)
(* read, download, fail, roll back and write in, for any number of         *)
(* messages, contents, passes and faults.                                  *)
(*                                                                         *)
(* A session writes back a text it read earlier, so the invariant speaks   *)
(* of the texts in its hands as well as of those in the table: each local  *)
(* path of one has its file, and a row that is committed or that the       *)
(* session commits with the text.                                          *)
(***************************************************************************)
EXTENDS MediaArchive, FiniteSetTheorems, TLAPS

Where == {"remote", "local", "placeholder"}
Texts(m) == [SlotsOf(m) -> Where]

OnDisk(c) == c \in files \union lost

\* What session s has seen saved: committed, or waiting in its own transaction.
Has(s, c) == row[c] # "none" \/ c \in staged[s]

\* The local paths of a text that session s holds and may yet write.
Backs(s, m, t) ==
    t # NotStored => \A i \in SlotsOf(m) :
        t[i] = "local" => /\ Has(s, Content(m, i)) \/ m \in Legacy
                          /\ OnDisk(Content(m, i))

StorageInv ==
    /\ row \in [Contents -> {"none", "unhashed", "hashed"}]
    /\ staged = [s \in Sessions |-> staged[s]]
    /\ \A c \in Contents : row[c] # "none" => OnDisk(c)
    /\ \A s \in Sessions, c \in Contents : c \in staged[s] => OnDisk(c)

TextInv ==
    /\ text = [m \in Messages |-> text[m]]
    /\ ref = [m \in Messages |-> ref[m]]
    /\ \A m \in Messages :
          /\ text[m] \in {NotStored} \union Texts(m)
          /\ ref[m] \in [SlotsOf(m) -> {"none", "open", "complete"}]
          /\ Stored(m) => \A i \in SlotsOf(m) :
                text[m][i] = "local" => /\ row[Content(m, i)] # "none" \/ m \in Legacy
                                        /\ OnDisk(Content(m, i))
          /\ \A i \in SlotsOf(m) :
                ref[m][i] = "complete" => /\ row[Content(m, i)] # "none" \/ m \in Legacy
                                          /\ OnDisk(Content(m, i))

EventInv ==
    event # NoEvent =>
        /\ event = [m |-> event.m, old |-> event.old, new |-> event.new, todo |-> event.todo]
        /\ event.m \in Messages
        /\ event.new \in Texts(event.m)
        /\ event.todo \subseteq SlotsOf(event.m)
        /\ Backs("event", event.m, event.new)

ForwardInv ==
    \/ forward = NoForward
    \/ /\ forward = [on |-> TRUE, todo |-> forward.todo, attach |-> forward.attach,
                     old |-> forward.old, new |-> forward.new]
       /\ forward.todo \subseteq Contents
       /\ DOMAIN forward.new \subseteq Messages
       /\ \A m \in DOMAIN forward.new :
             forward.new[m] \in Texts(m) /\ Backs("forward", m, forward.new[m])

IsPass(p) ==
    p = [page |-> p.page, at |-> p.at, todo |-> p.todo, finalize |-> p.finalize,
         old |-> p.old, new |-> p.new, count |-> p.count, dirty |-> p.dirty,
         covered |-> p.covered]

\* A page may hold anything here: only what it says of messages is ever written.
PassInv ==
    pass # NoPass =>
        /\ IsPass(pass)
        /\ pass.dirty \subseteq DOMAIN pass.page
        /\ pass.new = [k \in DOMAIN pass.page |-> pass.new[k]]
        /\ \A k \in DOMAIN pass.page :
              pass.page[k] \in Messages =>
                 /\ pass.new[k] \in {NotStored} \union Texts(pass.page[k])
                 /\ Backs("pass", pass.page[k], pass.new[k])

ServedInv == StorageInv /\ TextInv /\ EventInv /\ ForwardInv /\ PassInv

LEMMA ContentType ==
    ASSUME NEW m \in Messages, NEW i \in SlotsOf(m)
    PROVE  Content(m, i) \in Contents
<1>1. Slots[m] \in Seq(Contents)
  BY ArchiveAssumption DEF Messages
<1>2. QED
  BY <1>1 DEF SlotsOf, Content

-----------------------------------------------------------------------------
(* Rows and files only grow *)

Grown ==
    \A c \in Contents : /\ row[c] # "none" => row'[c] # "none"
                        /\ OnDisk(c) => OnDisk(c)'

GrownFor(s) == Grown /\ \A c \in Contents : Has(s, c) => Has(s, c)'

\* Since a forward comes last, no fetched one shifts what is behind it: a slot has one
\* position, in every text, and it is the ordinal of its reference.
LEMMA Positions ==
    ASSUME NEW m \in Messages, NEW t, NEW i \in SlotsOf(m)
    PROVE  Ordinal(m, t, i) = i - 1 /\ RefOrdinal(m, i) = i - 1
<1>1. Len(Slots[m]) \in Nat /\ SlotsOf(m) = 1..Len(Slots[m])
  BY ArchiveAssumption DEF Messages, SlotsOf
<1>2. \A j \in SlotsOf(m) : j < i => ~IsForward(m, j)
  BY <1>1, ArchiveAssumption DEF IsForward, Content
<1>3. /\ {j \in SlotsOf(m) : j < i /\ (t[j] = "remote" => ~IsForward(m, j))} = 1..(i - 1)
      /\ {j \in SlotsOf(m) : j < i /\ ~IsForward(m, j)} = 1..(i - 1)
  BY <1>1, <1>2
<1>4. Cardinality(1..(i - 1)) = i - 1
  <2>1. i \in Int /\ i - 1 \in Int /\ 1 \in Int /\ i >= 1
    BY <1>1
  <2>2. Cardinality(1..(i - 1)) = IF 1 > i - 1 THEN 0 ELSE (i - 1) - 1 + 1
    BY <2>1, FS_Interval
  <2>3. QED
    BY <2>1, <2>2
<1>5. QED
  BY <1>3, <1>4 DEF Ordinal, RefOrdinal

LEMMA OwnPosition ==
    ASSUME NEW m \in Messages, NEW t, NEW i \in SlotsOf(m), NEW j \in SlotsOf(m),
           Ordinal(m, t, j) = RefOrdinal(m, i)
    PROVE  j = i
<1>1. i \in Int /\ j \in Int
  BY ArchiveAssumption DEF Messages, SlotsOf
<1>2. j - 1 = i - 1
  BY Positions
<1>3. QED
  BY <1>1, <1>2

LEMMA TextFrame ==
    ASSUME TextInv, Grown, UNCHANGED <<text, ref>>
    PROVE  TextInv'
BY ContentType DEF TextInv, Grown, Stored

LEMMA EventFrame ==
    ASSUME EventInv, GrownFor("event"), event' = event
    PROVE  EventInv'
BY ContentType DEF EventInv, GrownFor, Grown, Backs

LEMMA ForwardFrame ==
    ASSUME ForwardInv, GrownFor("forward"), forward' = forward
    PROVE  ForwardInv'
BY ContentType DEF ForwardInv, GrownFor, Grown, Backs

LEMMA PassFrame ==
    ASSUME PassInv, GrownFor("pass"), pass' = pass
    PROVE  PassInv'
BY ContentType DEF PassInv, GrownFor, Grown, Backs

LEMMA SaveGrows ==
    ASSUME StorageInv, NEW s \in Sessions, NEW c, Save(s, c), UNCHANGED <<row, lost>>
    PROVE  /\ StorageInv' /\ \A o \in Sessions : GrownFor(o)
           /\ c \in Contents => Has(s, c)' /\ OnDisk(c)'
<1>1. /\ staged'[s] = IF row[c] = "none" THEN staged[s] \union {c} ELSE staged[s]
      /\ \A o \in Sessions \ {s} : staged'[o] = staged[o]
      /\ staged' = [o \in Sessions |-> staged'[o]]
  BY DEF StorageInv, Save
<1>2. files' = IF row[c] = "none" THEN files \union {c} ELSE files
  BY DEF Save
<1>3. \A o \in Sessions : GrownFor(o)
  BY <1>1, <1>2 DEF GrownFor, Grown, Has, OnDisk
<1>4. StorageInv'
  BY <1>1, <1>2 DEF StorageInv, OnDisk
<1>5. QED
  BY <1>1, <1>2, <1>3, <1>4 DEF StorageInv, Has, OnDisk

LEMMA CommitGrows ==
    ASSUME StorageInv, NEW s \in Sessions, Commit(s), UNCHANGED <<files, lost>>
    PROVE  /\ StorageInv' /\ \A o \in Sessions : GrownFor(o)
           /\ \A c \in Contents : Has(s, c) => row'[c] # "none"
<1>1. /\ row' \in [Contents -> {"none", "unhashed", "hashed"}]
      /\ \A c \in Contents : row'[c] = IF c \in staged[s] THEN "hashed" ELSE row[c]
  BY DEF StorageInv, Commit
<1>2. /\ staged'[s] = {} /\ \A o \in Sessions \ {s} : staged'[o] = staged[o]
      /\ staged' = [o \in Sessions |-> staged'[o]]
  BY DEF StorageInv, Commit
<1>3. \A o \in Sessions : GrownFor(o)
  BY <1>1, <1>2 DEF GrownFor, Grown, Has, OnDisk
<1>4. StorageInv'
  BY <1>1, <1>2 DEF StorageInv, OnDisk
<1>5. QED
  BY <1>1, <1>3, <1>4 DEF Has

LEMMA RollbackGrows ==
    ASSUME StorageInv, NEW s \in Sessions, Rollback(s), UNCHANGED <<row, files, lost>>
    PROVE  StorageInv' /\ Grown /\ \A o \in Sessions \ {s} : GrownFor(o)
<1>1. /\ staged'[s] = {} /\ \A o \in Sessions \ {s} : staged'[o] = staged[o]
      /\ staged' = [o \in Sessions |-> staged'[o]]
  BY DEF StorageInv, Rollback
<1>2. QED
  BY <1>1 DEF StorageInv, GrownFor, Grown, Has, OnDisk

LEMMA StillGrows ==
    ASSUME StorageInv, UNCHANGED <<row, files, lost, staged>>
    PROVE  StorageInv' /\ Grown /\ \A o \in Sessions : GrownFor(o)
BY DEF StorageInv, GrownFor, Grown, Has, OnDisk

\* An item that is fetched is saved; one that fails leaves the storage alone.
LEMMA ItemGrows ==
    ASSUME StorageInv, NEW s \in Sessions, NEW c, UNCHANGED <<row, lost>>,
           Fetches(s, c) \/ Fails(c)
    PROVE  /\ StorageInv' /\ Grown /\ \A o \in Sessions : GrownFor(o)
           /\ Fetches(s, c) /\ c \in Contents => Has(s, c)' /\ OnDisk(c)'
<1>1. CASE Fetches(s, c)
  <2>1. Save(s, c) /\ s \in Sessions
    BY <1>1 DEF Fetches
  <2>2. QED
    BY <2>1, SaveGrows DEF GrownFor
<1>2. CASE Fails(c) /\ ~Fetches(s, c)
  <2>1. UNCHANGED <<staged, files>>
    BY <1>2 DEF Fails
  <2>2. QED
    BY <1>2, <2>1, StillGrows
<1>3. QED
  BY <1>1, <1>2

\* One slot of a text in a session's hands is rewritten.
LEMMA Rewritten ==
    ASSUME NEW s, NEW m \in Messages, NEW i \in SlotsOf(m), NEW t \in Texts(m), NEW w \in Where,
           Backs(s, m, t), GrownFor(s),
           w = "local" => Has(s, Content(m, i))' /\ OnDisk(Content(m, i))'
    PROVE  /\ [t EXCEPT ![i] = w] \in Texts(m)
           /\ Backs(s, m, [t EXCEPT ![i] = w])'
<1>1. [t EXCEPT ![i] = w] \in Texts(m)
  BY DEF Texts
<1>2. t # NotStored
  BY DEF Texts, NotStored
<1>3. \A j \in SlotsOf(m) : [t EXCEPT ![i] = w][j] = IF j = i THEN w ELSE t[j]
  BY DEF Texts
<1>4. ASSUME NEW j \in SlotsOf(m), j # i, t[j] = "local"
      PROVE  (Has(s, Content(m, j))' \/ m \in Legacy) /\ OnDisk(Content(m, j))'
  <2>1. Content(m, j) \in Contents
    BY ContentType
  <2>2. (Has(s, Content(m, j)) \/ m \in Legacy) /\ OnDisk(Content(m, j))
    BY <1>2, <1>4 DEF Backs
  <2>3. QED
    BY <2>1, <2>2 DEF GrownFor, Grown
<1>5. QED
  BY <1>1, <1>3, <1>4 DEF Backs

-----------------------------------------------------------------------------
(* The handler of an event *)

LEMMA EventStartServes ==
    ASSUME ServedInv, NEW m \in Messages, EventStart(m)
    PROVE  ServedInv'
<1> USE DEF ServedInv
<1>1. UNCHANGED <<text, ref, row, files, lost, staged, pass, forward>>
  BY DEF EventStart, storage
<1>2. StorageInv' /\ Grown /\ \A o \in Sessions : GrownFor(o)
  BY <1>1, StillGrows
<1>3. EventInv'
  <2>1. event' = [m |-> m, old |-> text[m], new |-> AllRemote(m),
                  todo |-> {i \in SlotsOf(m) : ~IsForward(m, i)}]
    BY DEF EventStart
  <2>2. AllRemote(m) \in Texts(m) /\ \A i \in SlotsOf(m) : AllRemote(m)[i] # "local"
    BY DEF AllRemote, Texts, Where
  <2>3. QED
    BY <2>1, <2>2 DEF EventInv, Backs
<1>4. QED
  BY <1>1, <1>2, <1>3, TextFrame, PassFrame, ForwardFrame DEF Sessions

LEMMA EventItemServes ==
    ASSUME ServedInv, NEW i, EventItem(i)
    PROVE  ServedInv'
<1> USE DEF ServedInv
<1>1. /\ UNCHANGED <<text, ref, row, lost, pass, forward>>
      /\ event # NoEvent /\ i \in event.todo
  BY DEF EventItem
<1>2. PICK m \in Messages : \E t \in Texts(m) :
         event.m = m /\ event.new = t /\ i \in SlotsOf(m) /\ Backs("event", m, t)
  BY <1>1 DEF EventInv
<1>3. PICK t \in Texts(m) :
         event.m = m /\ event.new = t /\ i \in SlotsOf(m) /\ Backs("event", m, t)
  BY <1>2
<1>4. PICK c \in Contents : c = Content(m, i)
  BY <1>3, ContentType
<1>5. PICK w \in Where :
         /\ event' = [m |-> m, old |-> event.old, new |-> [t EXCEPT ![i] = w],
                      todo |-> event.todo \ {i}]
         /\ (Fetches("event", c) /\ w = "local") \/ (Fails(c) /\ w = "remote")
  <2>1. Content(event.m, i) = c
    BY <1>3, <1>4
  <2>2. /\ Fetches("event", Content(event.m, i)) => Fetches("event", c)
        /\ Fails(Content(event.m, i)) => Fails(c)
    BY <2>1 DEF Fetches, Fails, Save, CanSave, Held
  <2>3. event = [m |-> m, old |-> event.old, new |-> t, todo |-> event.todo]
    BY <1>1, <1>3 DEF EventInv
  <2>4. ASSUME event' = [event EXCEPT !.todo = @ \ {i}, !.new = [@ EXCEPT ![i] = "local"]]
        PROVE  event' = [m |-> m, old |-> event.old, new |-> [t EXCEPT ![i] = "local"],
                         todo |-> event.todo \ {i}]
    <3>1. event \in [m : {m}, old : {event.old}, new : {t}, todo : {event.todo}]
      BY <2>3
    <3>2. QED
      BY <2>4, <3>1
  <2>5. ASSUME event' = [event EXCEPT !.todo = @ \ {i}, !.new = [@ EXCEPT ![i] = "remote"]]
        PROVE  event' = [m |-> m, old |-> event.old, new |-> [t EXCEPT ![i] = "remote"],
                         todo |-> event.todo \ {i}]
    <3>1. event \in [m : {m}, old : {event.old}, new : {t}, todo : {event.todo}]
      BY <2>3
    <3>2. QED
      BY <2>5, <3>1
  <2>6. QED
    <3>1. \/ /\ Fetches("event", c)
             /\ event' = [m |-> m, old |-> event.old, new |-> [t EXCEPT ![i] = "local"],
                          todo |-> event.todo \ {i}]
          \/ /\ Fails(c)
             /\ event' = [m |-> m, old |-> event.old, new |-> [t EXCEPT ![i] = "remote"],
                          todo |-> event.todo \ {i}]
      BY <2>2, <2>4, <2>5 DEF EventItem
    <3>2. "local" \in Where /\ "remote" \in Where
      BY DEF Where
    <3>3. QED
      BY <3>1, <3>2, Zenon
<1>6. /\ StorageInv' /\ Grown /\ \A o \in Sessions : GrownFor(o)
      /\ w = "local" => Has("event", c)' /\ OnDisk(c)'
  BY <1>1, <1>5, ItemGrows DEF Sessions
<1>7. EventInv'
  <2>1. [t EXCEPT ![i] = w] \in Texts(m) /\ Backs("event", m, [t EXCEPT ![i] = w])'
    BY <1>3, <1>4, <1>6, Rewritten DEF Sessions
  <2>2. event.todo \ {i} \subseteq SlotsOf(m)
    BY <1>1, <1>3 DEF EventInv
  <2>3. QED
    BY <1>5, <2>1, <2>2 DEF EventInv, Backs
<1>8. QED
  BY <1>1, <1>6, <1>7, TextFrame, PassFrame, ForwardFrame DEF Sessions

LEMMA EventEndServes ==
    ASSUME ServedInv, EventEnd
    PROVE  ServedInv'
<1> USE DEF ServedInv
<1>1. event # NoEvent /\ event' = NoEvent /\ UNCHANGED <<files, lost, pass, forward>>
  BY DEF EventEnd
<1>2. EventInv'
  BY <1>1 DEF EventInv
<1>3. "event" \in Sessions /\ "pass" \in Sessions /\ "forward" \in Sessions
  BY DEF Sessions
<1>4. CASE Rollback("event") /\ UNCHANGED <<text, ref, row>>
  <2>1. StorageInv' /\ Grown /\ GrownFor("pass") /\ GrownFor("forward")
    BY <1>1, <1>3, <1>4, RollbackGrows
  <2>2. QED
    BY <1>1, <1>2, <1>4, <2>1, TextFrame, PassFrame, ForwardFrame
<1>5. CASE /\ \E t \in Kept(event.m, event.old, event.new) :
                 text' = IF t = event.old THEN text ELSE [text EXCEPT ![event.m] = t]
           /\ ref' = [ref EXCEPT ![event.m] = Upgraded(event.m, event.new)]
           /\ Commit("event")
  <2>0. PICK m \in Messages : \E new \in Texts(m) :
           event.m = m /\ event.new = new /\ Backs("event", m, new)
    BY <1>1 DEF EventInv
  <2>1. PICK new \in Texts(m) : event.m = m /\ event.new = new /\ Backs("event", m, new)
    BY <2>0
  <2>2. /\ StorageInv' /\ Grown /\ GrownFor("pass") /\ GrownFor("forward")
        /\ \A c \in Contents : Has("event", c) => row'[c] # "none"
    BY <1>1, <1>3, <1>5, CommitGrows DEF GrownFor
  <2>3. text' = text \/ text' = [text EXCEPT ![m] = new]
    BY <1>5, <2>1 DEF Kept
  <2>4. ref' = [ref EXCEPT ![m] = Upgraded(m, new)]
    BY <1>5, <2>1
  <2>5. ASSUME NEW i \in SlotsOf(m), new[i] = "local"
        PROVE  (row'[Content(m, i)] # "none" \/ m \in Legacy) /\ OnDisk(Content(m, i))'
    <3>1. Content(m, i) \in Contents /\ new # NotStored
      BY ContentType DEF Texts, NotStored
    <3>2. (Has("event", Content(m, i)) \/ m \in Legacy) /\ OnDisk(Content(m, i))
      BY <2>1, <2>5, <3>1 DEF Backs
    <3>3. QED
      BY <2>2, <3>1, <3>2 DEF Grown
  <2>6. TextInv'
    <3>1. ASSUME NEW x \in Messages
          PROVE  /\ text'[x] \in {NotStored} \union Texts(x)
                 /\ Stored(x)' => \A i \in SlotsOf(x) :
                      text'[x][i] = "local" =>
                         (row'[Content(x, i)] # "none" \/ x \in Legacy) /\ OnDisk(Content(x, i))'
      <4>1. CASE text'[x] = text[x]
        BY <2>2, <4>1, ContentType DEF TextInv, Grown, Stored
      <4>2. CASE x = m /\ text'[x] = new
        BY <2>5, <4>2
      <4>3. QED
        BY <2>3, <4>1, <4>2 DEF TextInv
    <3>2. ASSUME NEW x \in Messages
          PROVE  /\ ref'[x] \in [SlotsOf(x) -> {"none", "open", "complete"}]
                 /\ \A i \in SlotsOf(x) :
                      ref'[x][i] = "complete" =>
                         (row'[Content(x, i)] # "none" \/ x \in Legacy) /\ OnDisk(Content(x, i))'
      <4>1. CASE x # m
        <5>1. ref'[x] = ref[x]
          BY <2>4, <4>1 DEF TextInv
        <5>2. QED
          BY <2>2, <5>1, ContentType DEF TextInv, Grown
      <4>2. CASE x = m
        <5>1. ref'[m] = Upgraded(m, new)
          BY <2>4 DEF TextInv
        <5>2. \A i \in SlotsOf(m) :
                 /\ ref'[m][i] \in {ref[m][i], "complete"}
                 /\ ref'[m][i] # ref[m][i] => new[i] = "local"
          BY <5>1, OwnPosition DEF Upgraded
        <5>3. ref'[m] = [i \in SlotsOf(m) |-> ref'[m][i]]
          BY <5>1 DEF Upgraded
        <5>4. ref'[m] \in [SlotsOf(m) -> {"none", "open", "complete"}]
          BY <5>2, <5>3 DEF TextInv
        <5>5. QED
          BY <2>2, <2>5, <4>2, <5>2, <5>4, ContentType DEF TextInv, Grown
      <4>3. QED
        BY <4>1, <4>2
    <3>3. text' = [x \in Messages |-> text'[x]] /\ ref' = [x \in Messages |-> ref'[x]]
      BY <2>3, <2>4 DEF TextInv
    <3>4. QED
      BY <3>1, <3>2, <3>3 DEF TextInv
  <2>7. QED
    BY <1>1, <1>2, <2>2, <2>6, PassFrame, ForwardFrame
<1>6. QED
  BY <1>4, <1>5 DEF EventEnd

LEMMA EventStopsServes ==
    ASSUME ServedInv, EventStops
    PROVE  ServedInv'
<1> USE DEF ServedInv
<1>1. /\ UNCHANGED <<text, ref, row, files, lost, pass, forward>>
      /\ Rollback("event") /\ event' = NoEvent
  BY DEF EventStops
<1>2. StorageInv' /\ Grown /\ GrownFor("pass") /\ GrownFor("forward")
  BY <1>1, RollbackGrows DEF Sessions
<1>3. EventInv'
  BY <1>1 DEF EventInv
<1>4. QED
  BY <1>1, <1>2, <1>3, TextFrame, PassFrame, ForwardFrame

-----------------------------------------------------------------------------
(* Hydrations and readers *)

\* A text of the table is backed in every hand.
LEMMA ReadIsBacked ==
    ASSUME ServedInv, NEW s, NEW m \in Messages
    PROVE  /\ text[m] \in {NotStored} \union Texts(m)
           /\ Stored(m) => text[m] \in Texts(m)
           /\ Backs(s, m, text[m])
BY DEF ServedInv, TextInv, Stored, Backs, Has

LEMMA ForwardStartServes ==
    ASSUME ServedInv,
           \/ \E m \in Messages : HydrateStart(m)
           \/ \E c \in Contents : AttachStart(c)
    PROVE  ServedInv'
<1> USE DEF ServedInv
<1>1. UNCHANGED <<text, ref, row, files, lost, staged, pass, event>>
  BY DEF HydrateStart, AttachStart, storage
<1>2. StorageInv' /\ Grown /\ \A o \in Sessions : GrownFor(o)
  BY <1>1, StillGrows
<1>3. ForwardInv'
  <2>1. ASSUME NEW m \in Messages, HydrateStart(m) PROVE ForwardInv'
    <3>1. /\ forward' = [on |-> TRUE,
                         todo |-> {Content(m, i) : i \in Remote(m, text[m])} \intersect Forwards,
                         attach |-> FALSE, old |-> [x \in {m} |-> text[x]],
                         new |-> [x \in {m} |-> text[x]]]
          /\ Stored(m)
      BY <2>1 DEF HydrateStart
    <3>2. text[m] \in Texts(m) /\ Backs("forward", m, text[m])
      BY <3>1, ReadIsBacked
    <3>3. Backs("forward", m, text[m])'
      BY <1>1, <3>2 DEF Backs, Has, OnDisk
    <3>4. DOMAIN forward'.new = {m} /\ forward'.new[m] = text[m] /\ text'[m] = text[m]
      BY <1>1, <3>1
    <3>5. forward'.todo \subseteq Contents
      BY <3>1, ArchiveAssumption
    <3>6. QED
      BY <1>1, <3>1, <3>2, <3>3, <3>4, <3>5 DEF ForwardInv, Backs
  <2>2. ASSUME NEW c \in Contents, AttachStart(c) PROVE ForwardInv'
    <3>1. forward' = [on |-> TRUE, todo |-> {c}, attach |-> TRUE, old |-> <<>>, new |-> <<>>]
      BY <2>2 DEF AttachStart
    <3>2. DOMAIN forward'.new = {}
      BY <3>1
    <3>3. QED
      BY <3>1, <3>2 DEF ForwardInv
  <2>3. QED
    BY <2>1, <2>2
<1>4. QED
  BY <1>1, <1>2, <1>3, TextFrame, PassFrame, EventFrame DEF Sessions

\* The slots that name a conversation are rewritten once it is saved.
LEMMA LocalizedIsBacked ==
    ASSUME NEW m \in Messages, NEW t \in Texts(m), NEW c, Backs("forward", m, t),
           GrownFor("forward"), Has("forward", c)' /\ OnDisk(c)'
    PROVE  /\ Localized(m, t, c) \in Texts(m)
           /\ Backs("forward", m, Localized(m, t, c))'
<1>1. Localized(m, t, c) \in Texts(m)
  BY DEF Localized, Texts, Where
<1>2. ASSUME NEW i \in SlotsOf(m), Localized(m, t, c)[i] = "local"
      PROVE  /\ Has("forward", Content(m, i))' \/ m \in Legacy
             /\ OnDisk(Content(m, i))'
  <2>1. CASE Content(m, i) = c
    BY <2>1
  <2>2. CASE Content(m, i) # c
    <3>1. t[i] = "local" /\ t # NotStored /\ Content(m, i) \in Contents
      BY <1>2, <2>2, ContentType DEF Localized, Texts, NotStored
    <3>2. QED
      BY <3>1 DEF Backs, GrownFor, Grown
  <2>3. QED
    BY <2>1, <2>2
<1>3. QED
  BY <1>1, <1>2 DEF Backs

LEMMA ForwardItemServes ==
    ASSUME ServedInv, NEW c \in Forwards, ForwardItem(c)
    PROVE  ServedInv'
<1> USE DEF ServedInv
<1>1. /\ UNCHANGED <<text, ref, row, lost, pass, event>>
      /\ c \in forward.todo /\ (Fetches("forward", c) \/ Fails(c))
      /\ c \in Contents
  BY ArchiveAssumption DEF ForwardItem
<1>2. /\ StorageInv' /\ Grown /\ \A o \in Sessions : GrownFor(o)
      /\ Fetches("forward", c) => Has("forward", c)' /\ OnDisk(c)'
  BY <1>1, ItemGrows DEF Sessions
<1>3. /\ forward \in [on : {TRUE}, todo : {forward.todo}, attach : {forward.attach},
                      old : {forward.old}, new : {forward.new}]
      /\ forward.todo \subseteq Contents
      /\ DOMAIN forward.new \subseteq Messages
      /\ \A m \in DOMAIN forward.new :
            forward.new[m] \in Texts(m) /\ Backs("forward", m, forward.new[m])
  <2>1. forward # NoForward
    BY <1>1 DEF NoForward
  <2>2. /\ forward = [on |-> TRUE, todo |-> forward.todo, attach |-> forward.attach,
                      old |-> forward.old, new |-> forward.new]
        /\ forward.todo \subseteq Contents
        /\ DOMAIN forward.new \subseteq Messages
        /\ \A m \in DOMAIN forward.new :
              forward.new[m] \in Texts(m) /\ Backs("forward", m, forward.new[m])
    BY <2>1, Zenon DEF ForwardInv
  <2>3. forward \in [on : {TRUE}, todo : {forward.todo}, attach : {forward.attach},
                     old : {forward.old}, new : {forward.new}]
    <3>1. forward = [on |-> TRUE, todo |-> forward.todo, attach |-> forward.attach,
                     old |-> forward.old, new |-> forward.new]
      BY <2>2
    <3>2. ASSUME NEW r, NEW a, NEW b, NEW d, NEW e,
                 r = [on |-> TRUE, todo |-> a, attach |-> b, old |-> d, new |-> e]
          PROVE  r \in [on : {TRUE}, todo : {a}, attach : {b}, old : {d}, new : {e}]
      BY <3>2
    <3>3. QED
      BY <3>1, <3>2
  <2>4. QED
    BY <2>2, <2>3
<1> DEFINE old == IF forward.attach THEN Naming(c) ELSE forward.old
           new == IF forward.attach THEN Naming(c) ELSE forward.new
<1>4. ForwardInv'
  <2>1. CASE Fails(c) /\ forward' = [forward EXCEPT !.todo = @ \ {c}]
    <3>1. forward' = [on |-> TRUE, todo |-> forward.todo \ {c}, attach |-> forward.attach,
                      old |-> forward.old, new |-> forward.new]
      BY <1>3, <2>1
    <3>2. ASSUME NEW m \in DOMAIN forward.new, NEW t, t = forward.new[m]
          PROVE  Backs("forward", m, t)'
      <4>1. m \in Messages /\ Backs("forward", m, t)
        BY <1>3, <3>2
      <4>2. QED
        BY <1>2, <4>1, ContentType DEF Backs, GrownFor, Grown, Sessions
    <3>3. QED
      BY <1>3, <3>1, <3>2 DEF ForwardInv, Backs
  <2>2. CASE /\ Fetches("forward", c)
             /\ forward' = [forward EXCEPT !.todo = @ \ {c}, !.attach = FALSE, !.old = old,
                            !.new = [m \in DOMAIN new |-> Localized(m, new[m], c)]]
    <3>2. forward' = [on |-> TRUE, todo |-> forward.todo \ {c}, attach |-> FALSE, old |-> old,
                      new |-> [m \in DOMAIN new |-> Localized(m, new[m], c)]]
      <4> HIDE DEF old, new
      <4> QED
        BY <1>3, <2>2
    <3>3. ASSUME NEW m \in DOMAIN new
          PROVE  m \in Messages /\ new[m] \in Texts(m) /\ Backs("forward", m, new[m])
      <4>1. CASE forward.attach
        <5>1. m \in Messages /\ Stored(m) /\ new[m] = text[m]
          BY <3>3, <4>1 DEF Naming
        <5>2. QED
          BY <5>1, ReadIsBacked
      <4>2. CASE ~forward.attach
        BY <1>3, <3>3, <4>2
      <4>3. QED
        BY <4>1, <4>2
    <3>4. ASSUME NEW m \in DOMAIN new, NEW t, t = new[m]
          PROVE  /\ m \in Messages
                 /\ Localized(m, t, c) \in Texts(m)
                 /\ Backs("forward", m, Localized(m, t, c))'
      BY <1>2, <2>2, <3>3, <3>4, LocalizedIsBacked DEF Sessions
    <3>5. /\ DOMAIN forward'.new = DOMAIN new
          /\ \A m \in DOMAIN new : forward'.new[m] = Localized(m, new[m], c)
          /\ forward'.todo \subseteq Contents
      <4> HIDE DEF old, new
      <4> QED
        BY <1>3, <3>2
    <3>6. QED
      <4> HIDE DEF old, new
      <4> QED
        BY <3>2, <3>4, <3>5 DEF ForwardInv, Backs
  <2>3. QED
    BY <2>1, <2>2 DEF ForwardItem
<1>5. QED
  BY <1>1, <1>2, <1>4, TextFrame, PassFrame, EventFrame DEF Sessions

LEMMA ForwardEndServes ==
    ASSUME ServedInv, ForwardEnd
    PROVE  ServedInv'
<1> USE DEF ServedInv
<1>1. /\ forward' = NoForward /\ Commit("forward") /\ forward.on
      /\ UNCHANGED <<ref, files, lost, pass, event>>
      /\ text' = [m \in Messages |->
                     IF m \in DOMAIN forward.new /\ forward.new[m] # forward.old[m]
                     THEN forward.new[m] ELSE text[m]]
  BY DEF ForwardEnd
<1>2. /\ StorageInv' /\ Grown /\ GrownFor("pass") /\ GrownFor("event")
      /\ \A c \in Contents : Has("forward", c) => row'[c] # "none"
  BY <1>1, CommitGrows DEF GrownFor, Sessions
<1>3. TextInv'
  <2>1. ASSUME NEW m \in Messages
        PROVE  /\ text'[m] \in {NotStored} \union Texts(m)
               /\ Stored(m)' => \A i \in SlotsOf(m) :
                    text'[m][i] = "local" =>
                       (row'[Content(m, i)] # "none" \/ m \in Legacy) /\ OnDisk(Content(m, i))'
    <3>1. CASE text'[m] = text[m]
      BY <1>2, <3>1, ContentType DEF TextInv, Grown, Stored
    <3>2. CASE m \in DOMAIN forward.new /\ text'[m] = forward.new[m]
      <4>1. PICK t \in Texts(m) : t = forward.new[m] /\ Backs("forward", m, t)
        BY <1>1, <3>2 DEF ForwardInv, NoForward
      <4>2. ASSUME NEW i \in SlotsOf(m), t[i] = "local"
            PROVE  (row'[Content(m, i)] # "none" \/ m \in Legacy) /\ OnDisk(Content(m, i))'
        <5>1. Content(m, i) \in Contents /\ t # NotStored
          BY ContentType DEF Texts, NotStored
        <5>2. QED
          BY <1>2, <4>1, <4>2, <5>1 DEF Backs, Grown
      <4>3. QED
        BY <3>2, <4>1, <4>2
    <3>3. QED
      BY <1>1, <3>1, <3>2
  <2>2. QED
    BY <1>1, <1>2, <2>1, ContentType DEF TextInv, Grown
<1>4. ForwardInv'
  BY <1>1 DEF ForwardInv
<1>5. QED
  BY <1>1, <1>2, <1>3, <1>4, PassFrame, EventFrame

LEMMA ForwardStopsServes ==
    ASSUME ServedInv, ForwardStops
    PROVE  ServedInv'
<1> USE DEF ServedInv
<1>1. /\ UNCHANGED <<text, ref, row, files, lost, pass, event>>
      /\ Rollback("forward") /\ forward' = NoForward
  BY DEF ForwardStops
<1>2. StorageInv' /\ Grown /\ GrownFor("pass") /\ GrownFor("event")
  BY <1>1, RollbackGrows DEF Sessions
<1>3. ForwardInv'
  BY <1>1 DEF ForwardInv
<1>4. QED
  BY <1>1, <1>2, <1>3, TextFrame, PassFrame, EventFrame

-----------------------------------------------------------------------------
(* The pass *)

PassRecords(p) ==
    [page : {p.page}, at : {p.at}, todo : {p.todo}, finalize : {p.finalize},
     old : {p.old}, new : {p.new}, count : {p.count}, dirty : {p.dirty},
     covered : {p.covered}]

LEMMA PassShape == ASSUME NEW p, IsPass(p) PROVE p \in PassRecords(p)
<1>1. ASSUME NEW a, NEW b, NEW c, NEW d, NEW e, NEW f, NEW g, NEW h, NEW j, NEW r,
             r = [page |-> a, at |-> b, todo |-> c, finalize |-> d, old |-> e, new |-> f,
                  count |-> g, dirty |-> h, covered |-> j]
      PROVE  r \in [page : {a}, at : {b}, todo : {c}, finalize : {d}, old : {e}, new : {f},
                    count : {g}, dirty : {h}, covered : {j}]
  BY <1>1
<1>2. QED
  BY <1>1 DEF IsPass, PassRecords

LEMMA PassRecord ==
    ASSUME NEW a, NEW b, NEW c, NEW d, NEW e, NEW f, NEW g, NEW h, NEW j, NEW r,
           r = [page |-> a, at |-> b, todo |-> c, finalize |-> d, old |-> e, new |-> f,
                count |-> g, dirty |-> h, covered |-> j]
    PROVE  IsPass(r) /\ r.page = a /\ r.at = b /\ r.todo = c /\ r.new = f /\ r.dirty = h
BY DEF IsPass

Counted(p, x, y) == [p EXCEPT !.count = x, !.dirty = y]

LEMMA PassCounts ==
    ASSUME NEW p, IsPass(p), NEW x, NEW y, NEW q, q = Counted(p, x, y)
    PROVE  IsPass(q) /\ q.page = p.page /\ q.new = p.new /\ q.dirty = y
<1>1. p \in PassRecords(p)
  BY PassShape
<1>2. q = [page |-> p.page, at |-> p.at, todo |-> p.todo, finalize |-> p.finalize,
          old |-> p.old, new |-> p.new, count |-> x, dirty |-> y, covered |-> p.covered]
  BY <1>1 DEF PassRecords, Counted
<1>3. QED
  BY <1>2, PassRecord

LEMMA PassCleans ==
    ASSUME NEW p, IsPass(p), NEW y, NEW q, q = [p EXCEPT !.dirty = y]
    PROVE  IsPass(q) /\ q.page = p.page /\ q.new = p.new /\ q.dirty = y
<1>1. p \in PassRecords(p)
  BY PassShape
<1>2. q = [page |-> p.page, at |-> p.at, todo |-> p.todo, finalize |-> p.finalize,
          old |-> p.old, new |-> p.new, count |-> p.count, dirty |-> y, covered |-> p.covered]
  BY <1>1 DEF PassRecords
<1>3. QED
  BY <1>2, PassRecord

LEMMA AtMessageKeeps ==
    ASSUME NEW p, IsPass(p), NEW k, NEW q, q = AtMessage(p, k)
    PROVE  /\ IsPass(q) /\ q.page = p.page /\ q.new = p.new /\ q.dirty = p.dirty
           /\ k \in DOMAIN q.page => q.todo \subseteq SlotsOf(q.page[k])
           /\ k \notin DOMAIN q.page => q.todo = {}
           /\ q.at = k
<1> DEFINE y == IF k \notin DOMAIN p.page THEN {}
                ELSE ToFetch(p.page[k], p.old[k], p.covered[k])
<1>1. /\ q = [p EXCEPT !.at = k, !.todo = y]
      /\ k \in DOMAIN p.page => y \subseteq SlotsOf(p.page[k])
      /\ k \notin DOMAIN p.page => y = {}
  BY DEF AtMessage, ToFetch, Remote
<1> HIDE DEF y
<1>2. p \in PassRecords(p)
  BY PassShape
<1>3. q = [page |-> p.page, at |-> k, todo |-> y, finalize |-> p.finalize,
          old |-> p.old, new |-> p.new, count |-> p.count, dirty |-> p.dirty,
          covered |-> p.covered]
  BY <1>1, <1>2 DEF PassRecords
<1>4. IsPass(q) /\ q.page = p.page /\ q.at = k /\ q.todo = y /\ q.new = p.new /\ q.dirty = p.dirty
  BY <1>3, PassRecord
<1>5. QED
  BY <1>1, <1>4

\* The pass goes on with the same page and the same texts.
LEMMA PassGoesOn ==
    ASSUME PassInv, pass # NoPass, GrownFor("pass"), IsPass(pass'),
           pass'.page = pass.page, pass'.new = pass.new, pass'.dirty \subseteq DOMAIN pass.page
    PROVE  PassInv'
BY ContentType DEF PassInv, GrownFor, Grown, Backs

\* What a transaction of the pass writes is committed with the rows it needs.
LEMMA WrittenServes ==
    ASSUME ServedInv, pass # NoPass, NEW dirty, dirty \subseteq DOMAIN pass.page,
           text' = Written(dirty), Commit("pass"), UNCHANGED <<ref, files, lost, event, forward>>
    PROVE  /\ StorageInv' /\ TextInv' /\ EventInv' /\ ForwardInv'
           /\ GrownFor("pass")
<1> USE DEF ServedInv
<1>1. /\ StorageInv' /\ Grown /\ \A o \in Sessions : GrownFor(o)
      /\ \A c \in Contents : Has("pass", c) => row'[c] # "none"
  BY CommitGrows DEF GrownFor, Sessions
<1>2. ASSUME NEW m \in Messages
      PROVE  /\ text'[m] \in {NotStored} \union Texts(m)
             /\ Stored(m)' => \A i \in SlotsOf(m) :
                  text'[m][i] = "local" =>
                     (row'[Content(m, i)] # "none" \/ m \in Legacy) /\ OnDisk(Content(m, i))'
  <2>1. CASE text'[m] = text[m]
    BY <1>1, <2>1, ContentType DEF TextInv, Grown, Stored
  <2>2. CASE \E k \in dirty : pass.page[k] = m /\ text'[m] = pass.new[k]
    <3>1. PICK t \in {NotStored} \union Texts(m) : text'[m] = t /\ Backs("pass", m, t)
      BY <2>2 DEF PassInv
    <3>2. ASSUME NEW i \in SlotsOf(m), t # NotStored, t[i] = "local"
          PROVE  (row'[Content(m, i)] # "none" \/ m \in Legacy) /\ OnDisk(Content(m, i))'
      BY <1>1, <3>1, <3>2, ContentType DEF Backs, Grown
    <3>3. QED
      BY <3>1, <3>2 DEF Stored
  <2>3. QED
    BY <2>1, <2>2 DEF Written
<1>3. TextInv'
  BY <1>1, <1>2, ContentType DEF TextInv, Grown, Written
<1>4. QED
  BY <1>1, <1>3, EventFrame, ForwardFrame DEF Sessions

LEMMA PassStartServes ==
    ASSUME ServedInv, NEW finalize \in BOOLEAN, PassStart(finalize)
    PROVE  ServedInv'
<1> USE DEF ServedInv
<1>1. UNCHANGED <<text, ref, row, files, lost, staged, event, forward>>
  BY DEF PassStart, storage
<1>2. StorageInv' /\ Grown /\ \A o \in Sessions : GrownFor(o)
  BY <1>1, StillGrows
<1>3. PassInv'
  <2> DEFINE page == Page
             texts == [k \in DOMAIN page |-> text[page[k]]]
             covered == [k \in DOMAIN page |-> Referenced(page[k])]
             start == [page |-> page, at |-> 1, todo |-> {}, finalize |-> finalize,
                       old |-> texts, new |-> texts, count |-> 0, dirty |-> {},
                       covered |-> covered]
  <2>1. pass' = AtMessage(start, 1)
    BY DEF PassStart
  <2>2. IsPass(start) /\ start.page = page /\ start.new = texts /\ start.dirty = {}
    <3> HIDE DEF page, texts, covered
    <3> QED
      BY DEF IsPass
  <2>3. IsPass(pass') /\ pass'.page = page /\ pass'.new = texts /\ pass'.dirty = {}
    <3> HIDE DEF start, page, texts
    <3> QED
      BY <2>1, <2>2, AtMessageKeeps
  <2>4. ASSUME NEW k \in DOMAIN page, page[k] \in Messages, NEW m, m = page[k],
               NEW t, t = texts[k]
        PROVE  t \in {NotStored} \union Texts(m) /\ Backs("pass", m, t)'
    <3>1. t = text[m] /\ m \in Messages
      BY <2>4
    <3>2. t \in {NotStored} \union Texts(m) /\ Backs("pass", m, t)
      BY <3>1, ReadIsBacked
    <3>3. QED
      BY <1>1, <3>2 DEF Backs, Has, OnDisk
  <2>5. pass'.new = [k \in DOMAIN pass'.page |-> pass'.new[k]]
    BY <2>3
  <2>6. QED
    <3> HIDE DEF page, texts
    <3> QED
      BY <2>3, <2>4, <2>5 DEF PassInv, Backs
<1>4. QED
  BY <1>1, <1>2, <1>3, TextFrame, EventFrame, ForwardFrame DEF Sessions


\* A slot of any of the texts, whether or not it has that slot.
LEMMA NothingRewritten ==
    ASSUME NEW i, NEW w PROVE [NotStored EXCEPT ![i] = w] = NotStored
BY DEF NotStored

LEMMA PassItemServes ==
    ASSUME ServedInv, NEW i, PassItem(i)
    PROVE  ServedInv'
<1> USE DEF ServedInv
<1>1. /\ UNCHANGED <<text, ref, row, lost, event, forward>>
      /\ pass # NoPass /\ IsPass(pass)
  BY DEF PassItem, PassInv
<1>2. PICK c : c = Content(PassAt, i)
  OBVIOUS
<1>3. PICK w \in Where :
         /\ pass' = [pass EXCEPT !.todo = @ \ {i}, !.new = [@ EXCEPT ![pass.at][i] = w]]
         /\ (Fetches("pass", c) /\ w = "local") \/ (Fails(c) /\ w # "local")
  <2>1. \/ /\ Fetches("pass", c)
           /\ pass' = [pass EXCEPT !.todo = @ \ {i}, !.new = [@ EXCEPT ![pass.at][i] = "local"]]
        \/ /\ Fails(c)
           /\ \/ pass' = [pass EXCEPT !.todo = @ \ {i},
                                      !.new = [@ EXCEPT ![pass.at][i] = "placeholder"]]
              \/ pass' = [pass EXCEPT !.todo = @ \ {i},
                                      !.new = [@ EXCEPT ![pass.at][i] = "remote"]]
    BY <1>2 DEF PassItem
  <2>2. /\ "local" \in Where /\ "remote" \in Where /\ "placeholder" \in Where
        /\ "remote" # "local" /\ "placeholder" # "local"
    BY DEF Where
  <2>3. QED
    BY <2>1, <2>2, Zenon
<1>4. /\ StorageInv' /\ Grown /\ \A o \in Sessions : GrownFor(o)
      /\ w = "local" /\ c \in Contents => Has("pass", c)' /\ OnDisk(c)'
  BY <1>1, <1>3, ItemGrows DEF Sessions
<1> DEFINE rewritten == [pass.new EXCEPT ![pass.at][i] = w]
<1>5. /\ IsPass(pass') /\ pass'.page = pass.page /\ pass'.dirty = pass.dirty
      /\ pass'.new = rewritten
  <2> HIDE DEF rewritten
  <2>1. pass' = [pass EXCEPT !.todo = @ \ {i}, !.new = rewritten]
    BY <1>3 DEF rewritten
  <2>2. pass \in PassRecords(pass)
    BY <1>1, PassShape
  <2>3. pass' = [page |-> pass.page, at |-> pass.at, todo |-> pass.todo \ {i},
                 finalize |-> pass.finalize, old |-> pass.old, new |-> rewritten,
                 count |-> pass.count, dirty |-> pass.dirty, covered |-> pass.covered]
    BY <2>1, <2>2 DEF PassRecords
  <2>4. QED
    BY <2>3, PassRecord
<1>6. /\ rewritten = [k \in DOMAIN pass.page |-> rewritten[k]]
      /\ \A k \in DOMAIN pass.page :
            rewritten[k] = IF k = pass.at THEN [pass.new[k] EXCEPT ![i] = w] ELSE pass.new[k]
  BY <1>1 DEF PassInv
<1>7. ASSUME NEW k \in DOMAIN pass.page, pass.page[k] \in Messages, NEW m, m = pass.page[k],
             NEW t, t = rewritten[k]
      PROVE  t \in {NotStored} \union Texts(m) /\ Backs("pass", m, t)'
  <2>1. PICK u : /\ u = pass.new[k] /\ u \in {NotStored} \union Texts(m)
                 /\ Backs("pass", m, u)
    BY <1>1, <1>7 DEF PassInv
  <2>2. m \in Messages /\ GrownFor("pass")
    BY <1>4, <1>7 DEF Sessions
  <2>3. Backs("pass", m, u)'
    BY <2>1, <2>2, ContentType DEF Backs, GrownFor, Grown
  <2>4. CASE t = u
    BY <2>1, <2>3, <2>4
  <2>5. CASE t # u
    <3>1. k = pass.at /\ t = [u EXCEPT ![i] = w]
      BY <1>6, <1>7, <2>1, <2>5
    <3>2. u \in Texts(m) /\ i \in SlotsOf(m)
      <4>1. u # NotStored
        BY <2>5, <3>1, NothingRewritten
      <4>2. u \in Texts(m)
        BY <2>1, <4>1
      <4>3. i \notin SlotsOf(m) => t = u
        BY <3>1, <4>2 DEF Texts
      <4>4. QED
        BY <2>5, <4>2, <4>3
    <3>3. c = Content(m, i) /\ c \in Contents
      BY <1>2, <1>7, <2>2, <3>1, <3>2, ContentType DEF PassAt
    <3>4. t \in Texts(m) /\ Backs("pass", m, [u EXCEPT ![i] = w])'
      BY <1>3, <1>4, <2>1, <2>2, <3>1, <3>2, <3>3, Rewritten
    <3>5. QED
      BY <3>1, <3>4
  <2>6. QED
    BY <2>4, <2>5
<1>8. PassInv'
  <2> HIDE DEF rewritten
  <2>1. pass.dirty \subseteq DOMAIN pass.page
    BY <1>1 DEF PassInv
  <2>2. QED
    BY <1>5, <1>6, <1>7, <2>1 DEF PassInv, Backs
<1>9. QED
  BY <1>1, <1>4, <1>8, TextFrame, EventFrame, ForwardFrame DEF Sessions

LEMMA PassNextServes ==
    ASSUME ServedInv, PassNext
    PROVE  ServedInv'
<1> USE DEF ServedInv
<1>1. /\ UNCHANGED <<ref, files, lost, event, forward>>
      /\ pass # NoPass /\ IsPass(pass) /\ pass.at \in DOMAIN pass.page
      /\ pass.dirty \subseteq DOMAIN pass.page
  BY DEF PassNext, PassInv
<1> DEFINE count == pass.count + (IF Remote(PassAt, pass.old[pass.at]) = {} THEN 0 ELSE 1)
           dirty == IF pass.new[pass.at] = pass.old[pass.at] THEN pass.dirty
                    ELSE pass.dirty \union {pass.at}
           cleaned == Counted(pass, 0, {})
           counted == Counted(pass, count, dirty)
<1>2. dirty \subseteq DOMAIN pass.page
  BY <1>1
<1>3. /\ IsPass(cleaned) /\ cleaned.page = pass.page /\ cleaned.new = pass.new
      /\ cleaned.dirty = {}
  BY <1>1, PassCounts
<1>4. /\ IsPass(counted) /\ counted.page = pass.page /\ counted.new = pass.new
      /\ counted.dirty = dirty
  <2> HIDE DEF count, dirty
  <2> QED
    BY <1>1, PassCounts
<1>5. CASE text' = Written(dirty) /\ Commit("pass") /\ pass' = AtMessage(cleaned, pass.at + 1)
  <2> HIDE DEF count, dirty, cleaned, counted
  <2>1. /\ StorageInv' /\ TextInv' /\ EventInv' /\ ForwardInv' /\ GrownFor("pass")
    BY <1>1, <1>2, <1>5, WrittenServes
  <2>2. IsPass(pass') /\ pass'.page = pass.page /\ pass'.new = pass.new /\ pass'.dirty = {}
    BY <1>3, <1>5, AtMessageKeeps
  <2>3. QED
    BY <1>1, <2>1, <2>2, PassGoesOn
<1>6. CASE UNCHANGED <<text, row, staged>> /\ pass' = AtMessage(counted, pass.at + 1)
  <2> HIDE DEF count, dirty, cleaned, counted
  <2>1. StorageInv' /\ Grown /\ \A o \in Sessions : GrownFor(o)
    BY <1>1, <1>6, StillGrows
  <2>2. IsPass(pass') /\ pass'.page = pass.page /\ pass'.new = pass.new /\ pass'.dirty = dirty
    BY <1>4, <1>6, AtMessageKeeps
  <2>3. PassInv'
    BY <1>1, <1>2, <2>1, <2>2, PassGoesOn DEF Sessions
  <2>4. QED
    BY <1>1, <1>6, <2>1, <2>3, TextFrame, EventFrame, ForwardFrame DEF Sessions
<1>7. QED
  BY <1>5, <1>6 DEF PassNext, Counted

LEMMA PassFlushServes ==
    ASSUME ServedInv, PassFlush
    PROVE  ServedInv'
<1> USE DEF ServedInv
<1>1. /\ UNCHANGED <<ref, files, lost, event, forward>>
      /\ pass # NoPass /\ IsPass(pass)
      /\ pass.dirty \subseteq DOMAIN pass.page
      /\ text' = Written(pass.dirty) /\ Commit("pass")
  BY DEF PassFlush, PassInv
<1> DEFINE cleaned == [pass EXCEPT !.dirty = {}]
<1>2. /\ IsPass(cleaned) /\ cleaned.page = pass.page /\ cleaned.new = pass.new
      /\ cleaned.dirty = {}
  BY <1>1, PassCleans
<1>3. pass' = AtMessage(cleaned, pass.at + 1)
  BY DEF PassFlush
<1> HIDE DEF cleaned
<1>4. /\ StorageInv' /\ TextInv' /\ EventInv' /\ ForwardInv' /\ GrownFor("pass")
  BY <1>1, WrittenServes
<1>5. IsPass(pass') /\ pass'.page = pass.page /\ pass'.new = pass.new /\ pass'.dirty = {}
  BY <1>2, <1>3, AtMessageKeeps
<1>6. QED
  BY <1>1, <1>4, <1>5, PassGoesOn

LEMMA PassEndServes ==
    ASSUME ServedInv, PassEnd
    PROVE  ServedInv'
<1> USE DEF ServedInv
<1>1. UNCHANGED <<text, ref, row, files, lost, staged, event, forward>> /\ pass' = NoPass
  BY DEF PassEnd, storage
<1>2. StorageInv' /\ Grown /\ \A o \in Sessions : GrownFor(o)
  BY <1>1, StillGrows
<1>3. PassInv'
  BY <1>1 DEF PassInv
<1>4. QED
  BY <1>1, <1>2, <1>3, TextFrame, EventFrame, ForwardFrame DEF Sessions

LEMMA PassStopsServes ==
    ASSUME ServedInv, PassStops
    PROVE  ServedInv'
<1> USE DEF ServedInv
<1>1. /\ UNCHANGED <<ref, files, lost, event, forward>> /\ pass # NoPass /\ pass' = NoPass
      /\ pass.dirty \subseteq DOMAIN pass.page
  BY DEF PassStops, PassInv
<1>2. PassInv'
  BY <1>1 DEF PassInv
<1>3. CASE Rollback("pass") /\ UNCHANGED <<text, row>>
  <2>1. StorageInv' /\ Grown /\ GrownFor("event") /\ GrownFor("forward")
    BY <1>1, <1>3, RollbackGrows DEF Sessions
  <2>2. QED
    BY <1>1, <1>2, <1>3, <2>1, TextFrame, EventFrame, ForwardFrame
<1>4. CASE text' = Written(pass.dirty) /\ Commit("pass")
  BY <1>1, <1>2, <1>4, WrittenServes
<1>5. QED
  BY <1>3, <1>4 DEF PassStops

-----------------------------------------------------------------------------
(* The rest of the server *)

LEMMA ImportServes ==
    ASSUME ServedInv, NEW m \in Messages, NEW i \in SlotsOf(m),
           NEW archived \in {"open", "complete"}, Import(m, i, archived)
    PROVE  ServedInv'
<1> USE DEF ServedInv
<1>1. /\ UNCHANGED <<lost, staged, pass, event, forward>>
      /\ text' = IF Stored(m) THEN text ELSE [text EXCEPT ![m] = AllRemote(m)]
      /\ ref' = [ref EXCEPT ![m][i] = archived]
  BY DEF Import
<1>2. PICK c \in Contents : c = Content(m, i)
  BY ContentType
<1>3. \/ /\ archived = "complete"
         /\ row' = [row EXCEPT ![c] = "hashed"]
         /\ files' = IF row[c] = "none" THEN files \union {c} ELSE files
      \/ archived = "open" /\ UNCHANGED <<row, files>>
  BY <1>2 DEF Import
<1>4. /\ StorageInv' /\ Grown /\ \A o \in Sessions : GrownFor(o)
      /\ archived = "complete" => row'[c] # "none" /\ OnDisk(c)'
  BY <1>1, <1>3 DEF StorageInv, GrownFor, Grown, Has, OnDisk
<1>5. TextInv'
  <2>1. ASSUME NEW x \in Messages
        PROVE  /\ text'[x] \in {NotStored} \union Texts(x)
               /\ Stored(x)' => \A j \in SlotsOf(x) :
                    text'[x][j] = "local" =>
                       (row'[Content(x, j)] # "none" \/ x \in Legacy) /\ OnDisk(Content(x, j))'
    <3>1. CASE text'[x] = text[x]
      BY <1>4, <3>1, ContentType DEF TextInv, Grown, Stored
    <3>2. CASE x = m /\ text'[x] = AllRemote(m)
      BY <3>2 DEF AllRemote, Texts, Where
    <3>3. QED
      BY <1>1, <3>1, <3>2 DEF TextInv
  <2>2. ASSUME NEW x \in Messages
        PROVE  /\ ref'[x] \in [SlotsOf(x) -> {"none", "open", "complete"}]
               /\ \A j \in SlotsOf(x) :
                    ref'[x][j] = "complete" =>
                       (row'[Content(x, j)] # "none" \/ x \in Legacy) /\ OnDisk(Content(x, j))'
    <3>1. CASE x # m
      <4>1. ref'[x] = ref[x]
        BY <1>1, <3>1 DEF TextInv
      <4>2. QED
        BY <1>4, <4>1, ContentType DEF TextInv, Grown
    <3>2. CASE x = m
      <4>1. ref'[m] = [ref[m] EXCEPT ![i] = archived]
        BY <1>1 DEF TextInv
      <4>2. QED
        BY <1>2, <1>4, <3>2, <4>1, ContentType DEF TextInv, Grown
    <3>3. QED
      BY <3>1, <3>2
  <2>3. text' = [x \in Messages |-> text'[x]] /\ ref' = [x \in Messages |-> ref'[x]]
    BY <1>1 DEF TextInv
  <2>4. QED
    BY <2>1, <2>2, <2>3 DEF TextInv
<1>6. QED
  BY <1>1, <1>4, <1>5, EventFrame, ForwardFrame, PassFrame DEF Sessions

LEMMA UpkeepServes ==
    ASSUME ServedInv, Repair \/ \E c \in Contents : LoseFile(c)
    PROVE  ServedInv'
<1> USE DEF ServedInv
<1>1. UNCHANGED <<text, ref, staged, pass, event, forward>>
  BY DEF Repair, LoseFile
<1>2. StorageInv' /\ Grown /\ \A o \in Sessions : GrownFor(o)
  <2>1. CASE Repair
    <3>1. /\ row' = [c \in Contents |-> IF c \in Unindexed THEN "unhashed" ELSE row[c]]
          /\ UNCHANGED <<files, lost>> /\ Unindexed \subseteq files
      BY <2>1 DEF Repair, Unindexed
    <3>2. QED
      BY <1>1, <3>1 DEF StorageInv, GrownFor, Grown, Has, OnDisk
  <2>2. ASSUME NEW c \in Contents, LoseFile(c)
        PROVE  StorageInv' /\ Grown /\ \A o \in Sessions : GrownFor(o)
    BY <1>1, <2>2 DEF LoseFile, StorageInv, GrownFor, Grown, Has, OnDisk
  <2>3. QED
    BY <2>1, <2>2
<1>3. QED
  BY <1>1, <1>2, TextFrame, EventFrame, ForwardFrame, PassFrame DEF Sessions

LEMMA SeenServes ==
    ASSUME ServedInv, UNCHANGED vars
    PROVE  ServedInv'
<1> USE DEF ServedInv
<1>1. UNCHANGED <<text, ref, row, files, lost, staged, pass, event, forward>>
  BY DEF vars, storage
<1>2. StorageInv' /\ Grown /\ \A o \in Sessions : GrownFor(o)
  BY <1>1, StillGrows
<1>3. QED
  BY <1>1, <1>2, TextFrame, EventFrame, ForwardFrame, PassFrame DEF Sessions

LEMMA InitServes == ASSUME Init PROVE ServedInv
<1> USE DEF Init
<1>1. StorageInv
  BY DEF StorageInv, OnDisk
<1>2. TextInv
  <2>1. ASSUME NEW m \in Messages PROVE text[m] \in {NotStored} \union Texts(m)
    BY DEF Texts, Where, AllRemote
  <2>2. ASSUME NEW m \in Messages, NEW i \in SlotsOf(m), Stored(m), text[m][i] = "local"
        PROVE  m \in Legacy /\ OnDisk(Content(m, i))
    <3>1. m \in Legacy
      BY <2>2 DEF Stored, AllRemote
    <3>2. QED
      BY <3>1 DEF OnDisk
  <2>3. QED
    BY <2>1, <2>2 DEF TextInv
<1>3. QED
  BY <1>1, <1>2 DEF ServedInv, EventInv, ForwardInv, PassInv

LEMMA StepServes == ASSUME ServedInv, [Next]_vars PROVE ServedInv'
<1>1. CASE UNCHANGED vars
  BY <1>1, SeenServes
<1>2. CASE \E finalize \in BOOLEAN : PassStart(finalize)
  BY <1>2, PassStartServes
<1>3. CASE PassStep
  BY <1>3, PassItemServes, PassNextServes, PassFlushServes, PassEndServes, PassStopsServes
     DEF PassStep
<1>4. CASE LiveStep
  BY <1>4, EventItemServes, EventEndServes, EventStopsServes, ForwardItemServes,
     ForwardEndServes, ForwardStopsServes DEF LiveStep
<1>5. CASE \E m \in Messages :
              \/ EventStart(m) \/ HydrateStart(m)
              \/ \E i \in SlotsOf(m), archived \in {"open", "complete"} : Import(m, i, archived)
  BY <1>5, EventStartServes, ForwardStartServes, ImportServes
<1>6. CASE Repair \/ \E c \in Contents : AttachStart(c) \/ LoseFile(c)
  BY <1>6, UpkeepServes, ForwardStartServes
<1>7. QED
  BY <1>1, <1>2, <1>3, <1>4, <1>5, <1>6 DEF Next

\* Whatever the sessions do to each other's texts and transactions, a local path
\* that is in the archive has the row and the file it needs: a session commits the
\* text and the rows of its downloads together, and never drops a row of another's
\* (save_media_asset, _commit_session, the handlers and the passes).
THEOREM LocalStaysServed == Spec => []LocalIsServed
<1>1. ServedInv => LocalIsServed
  BY DEF ServedInv, TextInv, LocalIsServed, OnDisk
<1>2. QED
  BY InitServes, StepServes, <1>1, PTL DEF Spec

\* A clean audit can be believed.  An open URL passes for covered only by the reference
\* of a slot with that URL, whatever has been fetched before it: the positions that the
\* audit counts in the text are the ordinals of the references, as long as a forward
\* comes last.  And where the limit kept the audit from looking, what the sessions wrote
\* has a row (LocalIsServed), and the audit looks at the file of every row
\* (offline_audit_service.py).
THEOREM AuditIsEnough == Spec => []ReadyMeansServed
<1>1. LocalIsServed => ReadyMeansServed
  <2>1. ASSUME LocalIsServed, OfflineReady, NEW m \in Messages, Stored(m), NEW i \in SlotsOf(m)
        PROVE  /\ Audited(m) /\ text[m][i] = "remote" =>
                     \E j \in SlotsOf(m) :
                         Content(m, j) = Content(m, i) /\ ref[m][j] # "none"
               /\ /\ Audited(m) \/ m \notin Legacy
                  /\ text[m][i] = "local" \/ ref[m][i] = "complete"
                  => Content(m, i) \in files
    <3>1. Audited(m) => ~SlotIssue(m, i)
      BY <2>1 DEF OfflineReady
    <3>2. text[m][i] = "local" \/ ref[m][i] = "complete" =>
             row[Content(m, i)] # "none" \/ m \in Legacy
      BY <2>1 DEF LocalIsServed
    <3>3. row[Content(m, i)] # "none" => Content(m, i) \in files
      BY <2>1, ContentType DEF OfflineReady, FileIssue
    <3>4. ASSUME Content(m, i) \in CoveredUrls(m)
          PROVE  \E j \in SlotsOf(m) : Content(m, j) = Content(m, i) /\ ref[m][j] # "none"
      <4>1. PICK k \in Remote(m, text[m]) :
               Content(m, k) = Content(m, i) /\ Ordinal(m, text[m], k) \in Referenced(m)
        BY <3>4 DEF CoveredUrls
      <4>2. PICK j \in SlotsOf(m) :
               ref[m][j] # "none" /\ Ordinal(m, text[m], k) = RefOrdinal(m, j)
        BY <4>1 DEF Referenced
      <4>3. k \in SlotsOf(m)
        BY DEF Remote
      <4>4. k = j
        BY <4>2, <4>3, OwnPosition
      <4>5. QED
        BY <4>1, <4>2, <4>4
    <3>5. Audited(m) /\ text[m][i] = "remote" => Content(m, i) \in CoveredUrls(m)
      BY <3>1 DEF SlotIssue
    <3>6. Audited(m) /\ (text[m][i] = "local" \/ ref[m][i] = "complete") =>
             row[Content(m, i)] # "none"
      BY <3>1 DEF SlotIssue
    <3>7. QED
      BY <3>2, <3>3, <3>4, <3>5, <3>6
  <2>2. QED
    BY <2>1 DEF ReadyMeansServed
<1>2. QED
  BY <1>1, LocalStaysServed, PTL

-----------------------------------------------------------------------------
(* The page of a pass *)

LEMMA PendingHolds == Messages \subseteq Nat /\ Pending \subseteq Messages /\ IsFiniteSet(Pending)
<1>1. Messages \subseteq Nat /\ IsFiniteSet(Messages)
  <2>1. Len(Slots) \in Nat
    BY ArchiveAssumption
  <2>2. IsFiniteSet(1..Len(Slots))
    BY <2>1, FS_Interval
  <2>3. QED
    BY <2>1, <2>2 DEF Messages
<1>2. Pending \subseteq Messages
  BY DEF Pending
<1>3. QED
  BY <1>1, <1>2, FS_Subset

\* How many messages of a set come no later than m.
Turn(set, m) == Cardinality({n \in set : n = m \/ Sooner(n, m)})

LEMMA SoonerIsOrder ==
    ASSUME cursor \in Nat
    PROVE  /\ \A m \in Nat : ~Sooner(m, m)
           /\ \A k, m, n \in Nat : Sooner(k, m) /\ Sooner(m, n) => Sooner(k, n)
           /\ \A m, n \in Nat : m = n \/ Sooner(m, n) \/ Sooner(n, m)
BY DEF Sooner

LEMMA TurnInRange ==
    ASSUME NEW set \in SUBSET Nat, IsFiniteSet(set), NEW m \in set
    PROVE  Turn(set, m) \in 1..Cardinality(set)
<1> DEFINE upTo == {n \in set : n = m \/ Sooner(n, m)}
<1>1. upTo \subseteq set /\ m \in upTo
  OBVIOUS
<1>2. /\ IsFiniteSet(upTo) /\ Cardinality(upTo) <= Cardinality(set)
      /\ Cardinality(upTo) \in Nat /\ Cardinality(set) \in Nat
  BY <1>1, FS_Subset, FS_CardinalityType
<1>3. Cardinality(upTo) # 0
  BY <1>1, <1>2, FS_EmptySet
<1>4. QED
  BY <1>2, <1>3 DEF Turn

LEMMA TurnGrows ==
    ASSUME cursor \in Nat, NEW set \in SUBSET Nat, IsFiniteSet(set), NEW m \in set, NEW n \in set,
           Sooner(m, n)
    PROVE  Turn(set, m) < Turn(set, n)
<1> DEFINE upToM == {k \in set : k = m \/ Sooner(k, m)}
           upToN == {k \in set : k = n \/ Sooner(k, n)}
<1>1. upToM \subseteq upToN /\ n \in upToN /\ n \notin upToM /\ upToN \subseteq set
  BY SoonerIsOrder
<1>2. IsFiniteSet(upToN) /\ IsFiniteSet(upToM)
  BY <1>1, FS_Subset
<1>3. Cardinality(upToM) <= Cardinality(upToN) /\ Cardinality(upToM) # Cardinality(upToN)
  BY <1>1, <1>2, FS_Subset
<1>4. Cardinality(upToM) \in Nat /\ Cardinality(upToN) \in Nat
  BY <1>2, FS_CardinalityType
<1>5. QED
  BY <1>3, <1>4 DEF Turn

\* A page goes on where the cursor is, from the start again at the end, takes no message
\* twice, and passes none over: whatever is pending is on it, or comes after all of a
\* page that is full, so behind the cursor that is saved with its last message
\* (_backfill_historical_media_locked).
THEOREM PagesPassNoneOver ==
    ASSUME cursor \in Nat, NEW page, page = Page
    PROVE  /\ page \in Seq(Pending) /\ (page = <<>> => Pending = {})
           /\ \A i, j \in DOMAIN page : i < j => Sooner(page[i], page[j])
           /\ \A m \in Pending :
                 \/ \E k \in DOMAIN page : page[k] = m
                 \/ Len(page) = Limit /\ \A k \in DOMAIN page : Sooner(page[k], m)
<1> DEFINE set == Pending
           size == Cardinality(set)
           turn == [m \in set |-> Turn(set, m)]
           length == IF size < Limit THEN size ELSE Limit
<1>1. /\ set \in SUBSET Nat /\ IsFiniteSet(set) /\ size \in Nat
      /\ IsFiniteSet(1..size) /\ Cardinality(1..size) = size
  <2>1. set \in SUBSET Nat /\ IsFiniteSet(set) /\ size \in Nat
    BY PendingHolds, FS_CardinalityType
  <2> HIDE DEF size
  <2>2. QED
    BY <2>1, FS_Interval
<1>2. Limit \in Nat \ {0}
  BY ArchiveAssumption
<1>3. /\ length \in Nat /\ length <= size /\ (length = 0 => size = 0)
      /\ length < size => length = Limit
  BY <1>1, <1>2
<1>4. page = [k \in 1..length |-> CHOOSE m \in set : Turn(set, m) = k]
  BY DEF Page, PageOf, Turn
<1> HIDE DEF set, length
<1>5. \A m \in set : Turn(set, m) \in 1..size
  BY <1>1, TurnInRange
<1>6. \A m, n \in set : Turn(set, m) = Turn(set, n) => m = n
  <2>1. SUFFICES ASSUME NEW m \in set, NEW n \in set, m # n
                 PROVE  Turn(set, m) # Turn(set, n)
    OBVIOUS
  <2>2. Turn(set, m) \in 1..size /\ Turn(set, n) \in 1..size
    BY <1>5
  <2>3. Sooner(m, n) \/ Sooner(n, m)
    BY <1>1, <2>1, SoonerIsOrder
  <2>4. Turn(set, m) < Turn(set, n) \/ Turn(set, n) < Turn(set, m)
    BY <1>1, <2>3, TurnGrows
  <2>5. QED
    BY <1>1, <2>2, <2>4
<1>7. \A k \in 1..size : \E m \in set : Turn(set, m) = k
  <2>1. turn \in Injection(set, 1..size)
    BY <1>5, <1>6 DEF Injection, IsInjective
  <2>2. turn \in Surjection(set, 1..size)
    BY <1>1, <2>1, FS_Injection
  <2>3. QED
    BY <2>2 DEF Surjection
<1>8. \A k \in 1..length : page[k] \in set /\ Turn(set, page[k]) = k
  BY <1>1, <1>3, <1>4, <1>7
<1>9. page \in Seq(set) /\ DOMAIN page = 1..length /\ Len(page) = length
  BY <1>3, <1>4, <1>8
<1>10. ASSUME NEW k \in 1..length, NEW m \in set, k < Turn(set, m)
       PROVE  Sooner(page[k], m)
  <2>1. page[k] \in set /\ Turn(set, page[k]) = k
    BY <1>8
  <2>2. page[k] # m /\ ~Sooner(m, page[k])
    <3>1. ASSUME Sooner(m, page[k]) PROVE FALSE
      <4>1. Turn(set, m) < k
        BY <1>1, <2>1, <3>1, TurnGrows
      <4>2. QED
        BY <1>1, <1>3, <1>5, <1>10, <4>1
    <3>2. QED
      BY <1>1, <1>3, <1>10, <2>1, <3>1
  <2>3. QED
    BY <1>1, <2>1, <2>2, SoonerIsOrder
<1>11. \A i, j \in DOMAIN page : i < j => Sooner(page[i], page[j])
  BY <1>8, <1>9, <1>10
<1>12. ASSUME NEW m \in set
       PROVE  \/ \E k \in DOMAIN page : page[k] = m
              \/ Len(page) = Limit /\ \A k \in DOMAIN page : Sooner(page[k], m)
  <2>1. CASE Turn(set, m) <= length
    <3>1. Turn(set, m) \in 1..length
      BY <1>1, <1>3, <1>5, <2>1
    <3>2. page[Turn(set, m)] = m
      BY <1>6, <1>8, <3>1
    <3>3. QED
      BY <1>9, <3>1, <3>2
  <2>2. CASE ~(Turn(set, m) <= length)
    <3>1. length < Turn(set, m) /\ length < size
      BY <1>1, <1>3, <1>5, <2>2
    <3>2. \A k \in 1..length : k < Turn(set, m)
      BY <1>1, <1>3, <1>5, <3>1
    <3>3. QED
      BY <1>3, <1>9, <1>10, <3>1, <3>2
  <2>3. QED
    BY <2>1, <2>2
<1>13. ASSUME page = <<>> PROVE set = {}
  <2>1. size = 0
    BY <1>3, <1>9, <1>13
  <2>2. QED
    BY <1>1, <2>1, FS_EmptySet
<1>14. QED
  BY <1>9, <1>11, <1>12, <1>13 DEF set

-----------------------------------------------------------------------------
(* Types *)

StoreInv ==
    /\ files \subseteq Contents /\ lost \subseteq Contents
    /\ cursor \in {0} \union Messages
    /\ staged \in [Sessions -> SUBSET Contents]

\* The pass is at a message of its page, or has come to the end of it.
PassAtInv ==
    pass # NoPass =>
        /\ pass.page \in Seq(Messages) /\ pass.page # <<>>
        /\ pass.at \in DOMAIN pass.page => pass.todo \subseteq SlotsOf(PassAt)
        /\ pass.at \notin DOMAIN pass.page => pass.todo = {}

LEMMA ItemTyped ==
    ASSUME StoreInv, NEW s \in Sessions, NEW c \in Contents, Fetches(s, c) \/ Fails(c),
           UNCHANGED <<lost, cursor>>
    PROVE  StoreInv'
<1>1. CASE Fetches(s, c)
  BY <1>1 DEF StoreInv, Fetches, Save
<1>2. CASE Fails(c)
  BY <1>2 DEF StoreInv, Fails
<1>3. QED
  BY <1>1, <1>2

LEMMA EndTyped ==
    ASSUME StoreInv, NEW s \in Sessions, Commit(s) \/ Rollback(s), UNCHANGED <<files, lost, cursor>>
    PROVE  StoreInv'
BY DEF StoreInv, Commit, Rollback

LEMMA PassItemTyped ==
    ASSUME ServedInv, StoreInv, PassAtInv, NEW i, PassItem(i)
    PROVE  StoreInv' /\ PassAtInv'
<1>1. pass # NoPass /\ i \in pass.todo /\ UNCHANGED <<lost, cursor>> /\ IsPass(pass)
  BY DEF PassItem, ServedInv, PassInv
<1>2. pass.at \in DOMAIN pass.page /\ i \in SlotsOf(PassAt) /\ PassAt \in Messages
  BY <1>1 DEF PassAtInv, PassAt
<1>3. PICK c \in Contents : c = Content(PassAt, i)
  BY <1>2, ContentType
<1>4. PICK t : /\ pass' = [pass EXCEPT !.todo = @ \ {i}, !.new = [@ EXCEPT ![pass.at][i] = t]]
               /\ Fetches("pass", c) \/ Fails(c)
  BY <1>3 DEF PassItem
<1>5. StoreInv'
  BY <1>1, <1>4, ItemTyped DEF Sessions
<1> DEFINE rewritten == [pass.new EXCEPT ![pass.at][i] = t]
<1>6. pass'.page = pass.page /\ pass'.at = pass.at /\ pass'.todo = pass.todo \ {i}
  <2> HIDE DEF rewritten
  <2>1. pass' = [pass EXCEPT !.todo = @ \ {i}, !.new = rewritten]
    BY <1>4 DEF rewritten
  <2>2. pass \in PassRecords(pass)
    BY <1>1, PassShape
  <2>3. pass' = [page |-> pass.page, at |-> pass.at, todo |-> pass.todo \ {i},
                 finalize |-> pass.finalize, old |-> pass.old, new |-> rewritten,
                 count |-> pass.count, dirty |-> pass.dirty, covered |-> pass.covered]
    BY <2>1, <2>2 DEF PassRecords
  <2>4. QED
    BY <2>3, PassRecord
<1>7. QED
  BY <1>1, <1>2, <1>5, <1>6 DEF PassAtInv, PassAt

LEMMA PassMovesTyped ==
    ASSUME ServedInv, StoreInv, PassAtInv, PassNext \/ PassFlush
    PROVE  StoreInv' /\ PassAtInv'
<1>1. pass # NoPass /\ UNCHANGED <<files, lost, cursor>> /\ IsPass(pass)
  BY DEF PassNext, PassFlush, ServedInv, PassInv
<1>2. StoreInv'
  <2>1. Commit("pass") \/ staged' = staged
    BY DEF PassNext, PassFlush
  <2>2. QED
    BY <1>1, <2>1, EndTyped DEF StoreInv, Sessions
<1>3. PICK q, k : IsPass(q) /\ q.page = pass.page /\ pass' = AtMessage(q, k)
  <2>1. CASE PassFlush
    <3> DEFINE q == [pass EXCEPT !.dirty = {}]
    <3>1. IsPass(q) /\ q.page = pass.page
      BY <1>1, PassCleans
    <3>2. pass' = AtMessage(q, pass.at + 1)
      BY <2>1 DEF PassFlush
    <3> HIDE DEF q
    <3>3. QED
      BY <3>1, <3>2
  <2>2. CASE PassNext
    <3>1. PICK x, y : pass' = AtMessage(Counted(pass, x, y), pass.at + 1)
      BY <2>2, Zenon DEF PassNext, Counted
    <3> DEFINE q == Counted(pass, x, y)
    <3>2. IsPass(q) /\ q.page = pass.page
      BY <1>1, PassCounts
    <3> HIDE DEF q
    <3>3. QED
      BY <3>1, <3>2 DEF q
  <2>3. QED
    BY <2>1, <2>2
<1>4. /\ pass'.page = pass.page /\ pass'.at = k
      /\ k \in DOMAIN pass'.page => pass'.todo \subseteq SlotsOf(pass'.page[k])
      /\ k \notin DOMAIN pass'.page => pass'.todo = {}
  BY <1>3, AtMessageKeeps
<1>5. QED
  BY <1>1, <1>2, <1>4 DEF PassAtInv, PassAt

LEMMA PassStartTyped ==
    ASSUME StoreInv, NEW finalize \in BOOLEAN, PassStart(finalize)
    PROVE  StoreInv' /\ PassAtInv'
<1>1. StoreInv' /\ cursor \in Nat /\ Page # <<>>
  <2>1. Page # <<>> /\ UNCHANGED <<files, lost, cursor, staged>>
    BY DEF PassStart, storage
  <2>2. cursor \in Nat
    BY PendingHolds DEF StoreInv
  <2>3. QED
    BY <2>1, <2>2 DEF StoreInv
<1>2. Page \in Seq(Messages)
  <2>1. Page \in Seq(Pending)
    BY <1>1, PagesPassNoneOver
  <2>2. Pending \subseteq Messages
    BY PendingHolds
  <2>3. QED
    BY <2>1, <2>2
<1>3. PICK q : IsPass(q) /\ q.page = Page /\ pass' = AtMessage(q, 1)
  <2> DEFINE page == Page
             texts == [k \in DOMAIN page |-> text[page[k]]]
             covered == [k \in DOMAIN page |-> Referenced(page[k])]
             start == [page |-> page, at |-> 1, todo |-> {}, finalize |-> finalize,
                       old |-> texts, new |-> texts, count |-> 0, dirty |-> {},
                       covered |-> covered]
  <2>1. pass' = AtMessage(start, 1)
    BY DEF PassStart
  <2>2. IsPass(start) /\ start.page = page
    <3> HIDE DEF page, texts, covered
    <3> QED
      BY DEF IsPass
  <2> HIDE DEF start
  <2>3. QED
    BY <2>1, <2>2
<1>4. /\ pass'.page = Page /\ pass'.at = 1
      /\ 1 \in DOMAIN pass'.page => pass'.todo \subseteq SlotsOf(pass'.page[1])
      /\ 1 \notin DOMAIN pass'.page => pass'.todo = {}
  BY <1>3, AtMessageKeeps
<1>5. QED
  BY <1>1, <1>2, <1>4 DEF PassAtInv, PassAt

LEMMA PassOverTyped ==
    ASSUME StoreInv, PassAtInv, PassEnd \/ PassStops
    PROVE  StoreInv' /\ PassAtInv'
<1>1. pass # NoPass /\ pass' = NoPass
  BY DEF PassEnd, PassStops
<1>2. StoreInv'
  <2>1. CASE PassEnd
    <3>1. Last(pass.page) \in Messages
      BY <1>1 DEF PassAtInv, Last
    <3>2. QED
      BY <2>1, <3>1 DEF PassEnd, SavedCursor, StoreInv, storage
  <2>2. CASE PassStops
    BY <2>2, EndTyped DEF PassStops, Sessions
  <2>3. QED
    BY <2>1, <2>2
<1>3. QED
  BY <1>1, <1>2 DEF PassAtInv

LEMMA LiveTyped ==
    ASSUME ServedInv, StoreInv, LiveStep
    PROVE  StoreInv'
<1>1. ASSUME NEW i, EventItem(i) PROVE StoreInv'
  <2>1. Content(event.m, i) \in Contents
    BY <1>1, ContentType DEF EventItem, ServedInv, EventInv
  <2>2. QED
    BY <1>1, <2>1, ItemTyped DEF EventItem, Sessions
<1>2. CASE EventEnd \/ EventStops
  BY <1>2, EndTyped DEF EventEnd, EventStops, Sessions
<1>3. ASSUME NEW c \in Forwards, ForwardItem(c) PROVE StoreInv'
  <2>1. c \in Contents
    BY ArchiveAssumption
  <2>2. QED
    BY <1>3, <2>1, ItemTyped DEF ForwardItem, Sessions
<1>4. CASE ForwardEnd \/ ForwardStops
  BY <1>4, EndTyped DEF ForwardEnd, ForwardStops, Sessions
<1>5. QED
  BY <1>1, <1>2, <1>3, <1>4 DEF LiveStep

LEMMA TypeStep ==
    ASSUME ServedInv, StoreInv, PassAtInv, [Next]_vars
    PROVE  StoreInv' /\ PassAtInv'
<1>1. CASE \E finalize \in BOOLEAN : PassStart(finalize)
  BY <1>1, PassStartTyped
<1>2. CASE PassStep
  BY <1>2, PassItemTyped, PassMovesTyped, PassOverTyped DEF PassStep
<1>3. CASE LiveStep
  <2>1. pass' = pass
    BY <1>3 DEF LiveStep, EventItem, EventEnd, EventStops, ForwardItem, ForwardEnd, ForwardStops
  <2>2. QED
    BY <1>3, <2>1, LiveTyped DEF PassAtInv, PassAt
<1>4. ASSUME NEW m \in Messages, EventStart(m) \/ HydrateStart(m) PROVE StoreInv' /\ PassAtInv'
  BY <1>4 DEF EventStart, HydrateStart, storage, StoreInv, PassAtInv, PassAt
<1>5. ASSUME NEW m \in Messages, NEW i \in SlotsOf(m), NEW archived \in {"open", "complete"},
             Import(m, i, archived)
      PROVE  StoreInv' /\ PassAtInv'
  BY <1>5, ContentType DEF Import, StoreInv, PassAtInv, PassAt
<1>6. ASSUME NEW c \in Contents, AttachStart(c) \/ LoseFile(c) PROVE StoreInv' /\ PassAtInv'
  BY <1>6 DEF AttachStart, LoseFile, storage, StoreInv, PassAtInv, PassAt
<1>7. CASE Repair \/ UNCHANGED vars
  BY <1>7 DEF Repair, vars, storage, StoreInv, PassAtInv, PassAt
<1>8. QED
  BY <1>1, <1>2, <1>3, <1>4, <1>5, <1>6, <1>7 DEF Next

\* The archive has its types: whatever the sessions write back, a text and the
\* references of a message are those of its slots, and the cursor that a pass leaves
\* behind is that of a message.
THEOREM ArchiveTypeCorrect == Spec => []TypeOK
<1>1. Init => StoreInv /\ PassAtInv
  <2> SUFFICES ASSUME Init PROVE StoreInv /\ PassAtInv
    OBVIOUS
  <2>1. files \subseteq Contents
    BY ContentType, ArchiveAssumption DEF Init
  <2>2. QED
    BY <2>1 DEF Init, StoreInv, PassAtInv, Sessions
<1>2. ServedInv /\ StoreInv /\ PassAtInv /\ [Next]_vars => (ServedInv /\ StoreInv /\ PassAtInv)'
  BY StepServes, TypeStep
<1>3. ServedInv /\ StoreInv => TypeOK
  BY DEF ServedInv, StorageInv, TextInv, StoreInv, TypeOK, Texts, Where
<1>4. QED
  BY InitServes, <1>1, <1>2, <1>3, PTL DEF Spec

=============================================================================
