---------------------------- MODULE MediaArchive ----------------------------
(***************************************************************************)
(* How the server makes its archive readable offline.  Everything that a   *)
(* message points to is downloaded into a file with a media_assets row,    *)
(* and the text of the message then names the file: when the event arrives *)
(* (message_service.py), when a background task or a reader fetches a      *)
(* forwarded conversation (ws.py, api.py), and in passes an operator asks  *)
(* for over whatever is left (media_backfill_service.py).  They run beside *)
(* each other and beside the imports; each reads a text, spends its time   *)
(* on downloads, and writes the whole text back.  Repair and audit         *)
(* (offline_repair_service.py, offline_audit_service.py) look after it.    *)
(*                                                                         *)
(* A message is its place in the order (timestamp, hash) of the archive,   *)
(* a text a function from the slots of the message to where each points.   *)
(***************************************************************************)
EXTENDS Naturals, FiniteSets, Sequences, SequencesExt

CONSTANTS
    Contents,     \* what can be downloaded
    Slots,        \* Slots[m]: what each slot of message m points to
    Forwards,     \* the contents that are forwarded conversations
    Dead,         \* the contents whose URL has expired
    Legacy,       \* messages of an older archive: the file is there, the row is not
    Early,        \* messages stored while nothing was downloaded
    Limit,        \* messages in a pass
    BatchSize,    \* rewritten messages in one of its transactions
    AuditLimit,   \* messages an audit looks at
    MaxArrivals,  \* bound on events, hydrations, attachments and imports together
    MaxFaults     \* bound on what fails: a download, a session, the disk

Messages == 1..Len(Slots)
SlotsOf(m) == 1..Len(Slots[m])

ASSUME ArchiveAssumption ==
    /\ Slots \in Seq(Seq(Contents))
    /\ Forwards \subseteq Contents /\ Dead \subseteq Contents \ Forwards
    /\ Legacy \subseteq Messages /\ Early \subseteq Messages \ Legacy
    \* QQ sends a forwarded conversation as a message of its own.
    /\ \A m \in Messages : \A i \in SlotsOf(m) :
          Slots[m][i] \in Forwards => i = Len(Slots[m])
    /\ {Limit, BatchSize, AuditLimit} \subseteq Nat \ {0}
    /\ {MaxArrivals, MaxFaults} \subseteq Nat

VARIABLES
    text,         \* local_message of each message
    ref,          \* archive_state of the media reference of each slot
    row,          \* the media_assets row of each content
    files,        \* the contents that have a file in the storage directory
    lost,         \* those whose file has disappeared
    cursor,       \* media_backfill.cursor, 0 when there is none
    staged,       \* the rows each session has inserted and not committed
    pass,         \* the backfill pass: the session of one operator request
    event,        \* the session of a OneBot handler
    forward,      \* the session of a hydration, or of a reader of a forward
    arrivals, faults   \* how much of each bound is used

storage == <<row, files, lost, staged>>
used == <<arrivals, faults>>
vars == <<text, ref, cursor, storage, pass, event, forward, used>>

-----------------------------------------------------------------------------
Sessions == {"pass", "event", "forward"}
Content(m, i) == Slots[m][i]
IsForward(m, i) == Content(m, i) \in Forwards

NotStored == <<>>
Stored(m) == text[m] # NotStored
AllRemote(m) == [i \in SlotsOf(m) |-> "remote"]
Remote(m, t) == {i \in SlotsOf(m) : t[i] = "remote"}

\* Mutant: a position in a list that skips what is archived.
OrdinalOfRemote(m, t, i) ==
    Cardinality({j \in SlotsOf(m) : j < i /\ t[j] = "remote" /\ ~IsForward(m, j)})

\* The position of a slot in a text, as the server's patterns count: every medium, and
\* every local path, that of a fetched forward too.
Ordinal(m, t, i) ==
    Cardinality({j \in SlotsOf(m) : j < i /\ (t[j] = "remote" => ~IsForward(m, j))})

\* The ordinal of the reference of a slot, as the collector counts the media.
RefOrdinal(m, i) == Cardinality({j \in SlotsOf(m) : j < i /\ ~IsForward(m, j)})

\* The ordinals of the references of a message.
Referenced(m) == {RefOrdinal(m, i) : i \in {j \in SlotsOf(m) : ref[m][j] # "none"}}

NoPass == [page |-> <<>>]
NoEvent == [m |-> 0]
NoForward == [on |-> FALSE, todo |-> {}]

TypeOK ==
    /\ \A m \in Messages :
          /\ text[m] \in {NotStored} \union [SlotsOf(m) -> {"remote", "local", "placeholder"}]
          /\ ref[m] \in [SlotsOf(m) -> {"none", "open", "complete"}]
    /\ row \in [Contents -> {"none", "unhashed", "hashed"}]
    /\ files \subseteq Contents /\ lost \subseteq Contents
    /\ cursor \in {0} \union Messages
    /\ staged \in [Sessions -> SUBSET Contents]

Init ==
    /\ text = [m \in Messages |-> IF m \in Legacy THEN [i \in SlotsOf(m) |-> "local"]
                                  ELSE IF m \in Early THEN AllRemote(m) ELSE NotStored]
    /\ ref = [m \in Messages |-> [i \in SlotsOf(m) |-> "none"]]
    /\ row = [c \in Contents |-> "none"]
    /\ files = UNION {{Content(m, i) : i \in SlotsOf(m)} : m \in Legacy}
    /\ cursor = 0
    /\ staged = [s \in Sessions |-> {}]
    /\ pass = NoPass /\ event = NoEvent /\ forward = NoForward
    /\ arrivals = 0 /\ faults = 0 /\ lost = {}

-----------------------------------------------------------------------------
(* save_media_asset *)

\* The row of another session's transaction: the insert waits for its outcome.
Held(s, c) == \E o \in Sessions \ {s} : c \in staged[o]

\* A row without content_sha256 is not found by it, and blocks the insert; the
\* read-back then finds nothing and raises.
Raises(c) == row[c] = "unhashed"
CanSave(s, c) == row[c] = "hashed" \/ (row[c] = "none" /\ ~Held(s, c))

\* A row that is there is taken at its word, and no file is written.
Save(s, c) ==
    /\ CanSave(s, c)
    /\ staged' = IF row[c] = "none" THEN [staged EXCEPT ![s] = @ \union {c}] ELSE staged
    /\ files' = IF row[c] = "none" THEN files \union {c} ELSE files

Commit(s) ==
    /\ row' = [c \in Contents |-> IF c \in staged[s] THEN "hashed" ELSE row[c]]
    /\ staged' = [staged EXCEPT ![s] = {}]

\* The rows are rolled back; a file that was written stays.
Rollback(s) == staged' = [staged EXCEPT ![s] = {}]

\* A session ends early because a call raised, or waited for a lock too long.
Stops(s, wants) ==
    \/ (\E c \in wants : Raises(c) \/ Held(s, c)) /\ UNCHANGED faults
    \/ faults < MaxFaults /\ faults' = faults + 1

\* A download, or the call of get_forward_msg, fails: always, or this once.
Fails(c) ==
    /\ IF c \in Dead THEN UNCHANGED faults ELSE faults < MaxFaults /\ faults' = faults + 1
    /\ UNCHANGED <<staged, files>>

Fetches(s, c) == c \notin Dead /\ Save(s, c) /\ UNCHANGED faults

-----------------------------------------------------------------------------
(* process_incoming_message *)

\* The message as the event brings it, and the row the session reads first.
EventStart(m) ==
    /\ event = NoEvent /\ arrivals < MaxArrivals
    /\ arrivals' = arrivals + 1
    /\ event' = [m |-> m, old |-> text[m], new |-> AllRemote(m),
                 todo |-> {i \in SlotsOf(m) : ~IsForward(m, i)}]
    /\ UNCHANGED <<text, ref, cursor, storage, pass, forward, faults>>

EventItem(i) ==
    LET c == Content(event.m, i)
        Gets(t) == event' = [event EXCEPT !.todo = @ \ {i}, !.new = [@ EXCEPT ![i] = t]]
    IN  /\ event # NoEvent /\ i \in event.todo /\ \A j \in event.todo : i <= j
        /\ \/ Fetches("event", c) /\ Gets("local")
           \/ Fails(c) /\ Gets("remote")
        /\ UNCHANGED <<text, ref, cursor, row, lost, pass, forward, arrivals>>

\* _local_message_score: more local paths win, then the longer text does.
Kept(m, old, new) ==
    IF old = NotStored \/ Cardinality(Remote(m, new)) < Cardinality(Remote(m, old)) THEN {new}
    ELSE IF Remote(m, new) = Remote(m, old) THEN {old}
    ELSE IF Cardinality(Remote(m, new)) = Cardinality(Remote(m, old)) THEN {old, new}
    ELSE {old}

\* Mutant: a reference is completed though the event fetched nothing for its slot.
UpgradedAny(m, new) ==
    [i \in SlotsOf(m) |-> IF ref[m][i] = "open" THEN "complete" ELSE ref[m][i]]

\* _upgrade_structured_media_from_local_message: by the path that the event has fetched
\* for its ordinal, whichever text was kept.
Upgraded(m, new) ==
    [i \in SlotsOf(m) |->
        IF ref[m][i] = "open" /\ \E j \in SlotsOf(m) :
               new[j] = "local" /\ Ordinal(m, new, j) = RefOrdinal(m, i)
        THEN "complete" ELSE ref[m][i]]

\* Judged against the text read at the start; the row is locked again, not read
\* again.  A row inserted in between makes the insert fail and drops the event.
EventEnd ==
    LET m == event.m IN
    /\ event # NoEvent /\ event.todo = {}
    /\ event' = NoEvent
    /\ IF event.old = NotStored /\ Stored(m)
       THEN Rollback("event") /\ UNCHANGED <<text, ref, row>>
       ELSE /\ \E t \in Kept(m, event.old, event.new) :
                  text' = IF t = event.old THEN text ELSE [text EXCEPT ![m] = t]
            /\ ref' = [ref EXCEPT ![m] = Upgraded(m, event.new)]
            /\ Commit("event")
    /\ UNCHANGED <<cursor, files, lost, pass, forward, used>>

EventStops ==
    /\ event # NoEvent
    /\ Stops("event", {Content(event.m, i) : i \in event.todo})
    /\ Rollback("event") /\ event' = NoEvent
    /\ UNCHANGED <<text, ref, cursor, row, files, lost, pass, forward, arrivals>>

-----------------------------------------------------------------------------
(* _hydrate_forward_payloads and get_forward_message *)

Localized(m, t, c) == [i \in SlotsOf(m) |-> IF Content(m, i) = c THEN "local" ELSE t[i]]

\* The hydration reads its message before it fetches.
HydrateStart(m) ==
    /\ ~forward.on /\ arrivals < MaxArrivals /\ Stored(m)
    /\ arrivals' = arrivals + 1
    /\ forward' = [on |-> TRUE,
                   todo |-> {Content(m, i) : i \in Remote(m, text[m])} \intersect Forwards,
                   attach |-> FALSE, old |-> [x \in {m} |-> text[x]],
                   new |-> [x \in {m} |-> text[x]]]
    /\ forward'.todo # {}
    /\ UNCHANGED <<text, ref, cursor, storage, pass, event, faults>>

AttachStart(c) ==
    /\ ~forward.on /\ arrivals < MaxArrivals /\ c \in Forwards
    /\ arrivals' = arrivals + 1
    /\ forward' = [on |-> TRUE, todo |-> {c}, attach |-> TRUE, old |-> <<>>, new |-> <<>>]
    /\ UNCHANGED <<text, ref, cursor, storage, pass, event, faults>>

\* The reader's messages are read after the fetch, all that name the conversation.
Naming(c) == [m \in {x \in Messages : Stored(x) /\ c \in Range(Slots[x])} |-> text[m]]

ForwardItem(c) ==
    LET old == IF forward.attach THEN Naming(c) ELSE forward.old
        new == IF forward.attach THEN Naming(c) ELSE forward.new
    IN  /\ c \in forward.todo
        /\ \/ /\ Fetches("forward", c)
              /\ forward' = [forward EXCEPT !.todo = @ \ {c}, !.attach = FALSE, !.old = old,
                             !.new = [m \in DOMAIN new |-> Localized(m, new[m], c)]]
           \/ /\ ~forward.attach /\ Fails(c)
              /\ forward' = [forward EXCEPT !.todo = @ \ {c}]
        /\ UNCHANGED <<text, ref, cursor, row, lost, pass, event, arrivals>>

ForwardEnd ==
    /\ forward.on /\ forward.todo = {}
    /\ text' = [m \in Messages |->
                   IF m \in DOMAIN forward.new /\ forward.new[m] # forward.old[m]
                   THEN forward.new[m] ELSE text[m]]
    /\ Commit("forward")
    /\ forward' = NoForward
    /\ UNCHANGED <<ref, cursor, files, lost, pass, event, used>>

\* So does a conversation its reader cannot fetch.
ForwardStops ==
    /\ forward.on
    /\ Stops("forward", forward.todo)
    /\ Rollback("forward") /\ forward' = NoForward
    /\ UNCHANGED <<text, ref, cursor, row, files, lost, pass, event, arrivals>>

-----------------------------------------------------------------------------
(* backfill_historical_media.  A dry run reads what a pass reads and writes *)
(* nothing.                                                                 *)

\* The query finds every text with a URL or a forward, fetched or not.
Pending == {m \in Messages : Stored(m) /\ (Remote(m, text[m]) # {}
                                           \/ \E i \in SlotsOf(m) : IsForward(m, i))}

\* In the order of the archive, but what lies behind the cursor before what it has
\* passed: the second query starts at the beginning once the first ran out.
Sooner(m, n) == IF (m > cursor) = (n > cursor) THEN m < n ELSE m > cursor

PageOf(set) ==
    [k \in 1..(IF Cardinality(set) < Limit THEN Cardinality(set) ELSE Limit) |->
        CHOOSE m \in set : Cardinality({n \in set : n = m \/ Sooner(n, m)}) = k]

\* Mutant: the end of the archive is the end of the backfill.
PageToTheEnd == PageOf({m \in Pending : m > cursor})

Page == PageOf(Pending)

\* The slots the pass is to fetch; the importer answers for those with a reference.
ToFetch(m, t, covered) ==
    {i \in Remote(m, t) : IsForward(m, i) \/ Ordinal(m, t, i) \notin covered}

AtMessage(p, k) ==
    [p EXCEPT !.at = k,
              !.todo = IF k \notin DOMAIN p.page THEN {}
                       ELSE ToFetch(p.page[k], p.old[k], p.covered[k])]

\* Texts and references are read once, for the whole page.
PassStart(finalize) ==
    /\ pass = NoPass /\ Page # <<>>
    /\ LET page == Page
           texts == [k \in DOMAIN page |-> text[page[k]]]
       IN  pass' = AtMessage([page |-> page, at |-> 1, todo |-> {}, finalize |-> finalize,
                              old |-> texts, new |-> texts, count |-> 0, dirty |-> {},
                              covered |-> [k \in DOMAIN page |-> Referenced(page[k])]], 1)
    /\ UNCHANGED <<text, ref, cursor, storage, event, forward, used>>

PassAt == pass.page[pass.at]

PassItem(i) ==
    LET c == Content(PassAt, i)
        Gets(t) == pass' = [pass EXCEPT !.todo = @ \ {i},
                                    !.new = [@ EXCEPT ![pass.at][i] = t]]
    IN  /\ pass # NoPass /\ i \in pass.todo /\ \A j \in pass.todo : i <= j
        /\ \/ Fetches("pass", c) /\ Gets("local")
           \/ Fails(c) /\ Gets(IF pass.finalize THEN "placeholder" ELSE "remote")
        /\ UNCHANGED <<text, ref, cursor, row, lost, event, forward, arrivals>>

\* The rewritten texts of a transaction, whatever has become of them meanwhile.
Written(dirty) ==
    [m \in Messages |-> IF \E k \in dirty : pass.page[k] = m
                        THEN pass.new[CHOOSE k \in dirty : pass.page[k] = m] ELSE text[m]]

PassNext ==
    LET k == pass.at
        count == pass.count + (IF Remote(PassAt, pass.old[k]) = {} THEN 0 ELSE 1)
        dirty == IF pass.new[k] = pass.old[k] THEN pass.dirty ELSE pass.dirty \union {k}
    IN  /\ pass # NoPass /\ k \in DOMAIN pass.page /\ pass.todo = {}
        /\ IF count >= BatchSize
           THEN /\ text' = Written(dirty) /\ Commit("pass")
                /\ pass' = AtMessage([pass EXCEPT !.count = 0, !.dirty = {}], k + 1)
           ELSE /\ UNCHANGED <<text, row, staged>>
                /\ pass' = AtMessage([pass EXCEPT !.count = count, !.dirty = dirty], k + 1)
        /\ UNCHANGED <<ref, cursor, files, lost, event, forward, used>>

\* The last transaction, then the cursor in one of its own.
PassFlush ==
    /\ pass # NoPass /\ pass.at = Len(pass.page) + 1
    /\ text' = Written(pass.dirty) /\ Commit("pass")
    /\ pass' = AtMessage([pass EXCEPT !.dirty = {}], pass.at + 1)
    /\ UNCHANGED <<ref, cursor, files, lost, event, forward, used>>

SavedCursor == Last(pass.page)

PassEnd ==
    /\ pass # NoPass /\ pass.at = Len(pass.page) + 2
    /\ cursor' = SavedCursor
    /\ pass' = NoPass
    /\ UNCHANGED <<text, ref, storage, event, forward, used>>

\* Nothing catches what a download or a save raises, and the cursor stays; but the
\* audit entry of the failure is committed in the same session, and with it what the
\* pass had not committed yet, unless the database has refused the transaction.
PassStops ==
    /\ pass # NoPass
    /\ Stops("pass", {Content(PassAt, i) : i \in pass.todo})
    /\ \/ Rollback("pass") /\ UNCHANGED <<text, row>>
       \/ text' = Written(pass.dirty) /\ Commit("pass")
    /\ pass' = NoPass
    /\ UNCHANGED <<ref, cursor, files, lost, event, forward, arrivals>>

-----------------------------------------------------------------------------
(* The rest of the server *)

\* An import stores a message, and a reference of it whose file it may bring.
Import(m, i, archived) ==
    /\ arrivals < MaxArrivals /\ ~IsForward(m, i) /\ ref[m][i] # "complete"
    /\ arrivals' = arrivals + 1
    /\ text' = IF Stored(m) THEN text ELSE [text EXCEPT ![m] = AllRemote(m)]
    /\ ref' = [ref EXCEPT ![m][i] = archived]
    /\ LET c == Content(m, i) IN
       IF archived = "complete"
       THEN /\ row[c] = "hashed" \/ (row[c] = "none" /\ ~\E s \in Sessions : c \in staged[s])
            /\ row' = [row EXCEPT ![c] = "hashed"]
            /\ files' = IF row[c] = "none" THEN files \union {c} ELSE files
       ELSE UNCHANGED <<row, files>>
    /\ UNCHANGED <<cursor, lost, staged, pass, event, forward, faults>>

\* repair_local_media_integrity: rows for files that texts name, without a
\* content_sha256; a file that is missing is only counted.
Unindexed == {c \in files : row[c] = "none" /\
                 \E m \in Messages : Stored(m) /\
                    \E i \in SlotsOf(m) : Content(m, i) = c /\ text[m][i] = "local"}

Repair ==
    /\ Unindexed # {} /\ \A s \in Sessions : staged[s] \intersect Unindexed = {}
    /\ row' = [c \in Contents |-> IF c \in Unindexed THEN "unhashed" ELSE row[c]]
    /\ UNCHANGED <<text, ref, cursor, files, lost, staged, pass, event, forward, used>>

LoseFile(c) ==
    /\ c \in files /\ faults < MaxFaults
    /\ files' = files \ {c} /\ lost' = lost \union {c}
    /\ faults' = faults + 1
    /\ UNCHANGED <<text, ref, cursor, row, staged, pass, event, forward, arrivals>>

-----------------------------------------------------------------------------
PassStep ==
    \/ \E i \in UNION {SlotsOf(m) : m \in Messages} : PassItem(i)
    \/ PassNext \/ PassFlush \/ PassEnd \/ PassStops

LiveStep ==
    \/ \E i \in UNION {SlotsOf(m) : m \in Messages} : EventItem(i)
    \/ EventEnd \/ EventStops
    \/ \E c \in Forwards : ForwardItem(c)
    \/ ForwardEnd \/ ForwardStops

Next ==
    \/ \E finalize \in BOOLEAN : PassStart(finalize)
    \/ PassStep \/ LiveStep
    \/ \E m \in Messages :
          \/ EventStart(m) \/ HydrateStart(m)
          \/ \E i \in SlotsOf(m), archived \in {"open", "complete"} : Import(m, i, archived)
    \/ \E c \in Contents : AttachStart(c) \/ LoseFile(c)
    \/ Repair

Spec == Init /\ [][Next]_vars

\* A session that has begun goes on, and the operator keeps asking for passes, as
\* the cursor is there for; nothing else is promised.
FairSpec ==
    /\ Spec
    /\ WF_vars(PassStep) /\ WF_vars(LiveStep)
    /\ WF_vars(\E finalize \in BOOLEAN : PassStart(finalize))
-----------------------------------------------------------------------------
(* audit_offline_readiness *)

\* The URLs that references answer for, by the ordinals of the text.
CoveredUrls(m) ==
    {Content(m, i) : i \in {j \in Remote(m, text[m]) :
                               ~IsForward(m, j) /\ Ordinal(m, text[m], j) \in Referenced(m)}}

\* What the audit reports of a slot: a URL no reference answers for, a conversation
\* that was not fetched, or a path or a complete reference without a row.
SlotIssue(m, i) ==
    \/ text[m][i] = "remote" /\ (IsForward(m, i) \/ Content(m, i) \notin CoveredUrls(m))
    \/ text[m][i] = "local" /\ row[Content(m, i)] = "none"
    \/ ref[m][i] = "complete" /\ row[Content(m, i)] = "none"

FileIssue(c) == row[c] # "none" /\ c \notin files

\* The oldest messages, up to the limit; the rows are all looked at.
Audited(m) == Stored(m) /\ Cardinality({x \in 1..m : Stored(x)}) <= AuditLimit

OfflineReady ==
    /\ \A m \in Messages : Audited(m) => \A i \in SlotsOf(m) : ~SlotIssue(m, i)
    /\ \A c \in Contents : ~FileIssue(c)

-----------------------------------------------------------------------------
(* Properties *)

\* Whatever order the sessions read, fetch, fail and write in: a text that names a
\* local file and a reference that is complete have the row and the file, but for
\* archives that came without rows and files the disk has lost.
LocalIsServed ==
    \A m \in Messages :
        Stored(m) => \A i \in SlotsOf(m) :
            LET c == Content(m, i)
            IN  text[m][i] = "local" \/ ref[m][i] = "complete" =>
                    /\ row[c] # "none" \/ m \in Legacy
                    /\ c \in files \union lost

\* An audit without a finding can be believed.  In the messages it looked at, a URL
\* that is still open has a reference of its own, whatever was fetched before and behind
\* it; and since whatever sessions write has a row, and all rows are looked at, every
\* file is there that a text or a complete reference names, beyond the audited messages
\* too, but for those of an archive that came without rows
\* (offline_audit_service.py:115-331).
ReadyMeansServed ==
    OfflineReady =>
        \A m \in Messages :
            Stored(m) => \A i \in SlotsOf(m) :
                /\ Audited(m) /\ text[m][i] = "remote" =>
                      \E j \in SlotsOf(m) :
                          Content(m, j) = Content(m, i) /\ ref[m][j] # "none"
                /\ /\ Audited(m) \/ m \notin Legacy
                   /\ text[m][i] = "local" \/ ref[m][i] = "complete"
                   => Content(m, i) \in files

Unarchived(m) ==
    {i \in SlotsOf(m) : Stored(m) /\ text[m][i] = "remote" /\ ref[m][i] = "none"
                        /\ Content(m, i) \notin Dead}

\* A dead URL in front, a page that is full, a late event that puts an older text
\* back: none of them keeps a slot behind them from being fetched, as long as no
\* row without content_sha256 stands in the way (media_backfill_service.py:268-283).
EventuallyArchived ==
    <>[](\/ \A m \in Messages : Unarchived(m) = {}
         \/ \E c \in Contents : row[c] = "unhashed")
=============================================================================
