---------------------------- MODULE ConsoleProofs ----------------------------
(***************************************************************************)
(* What the timeline of the console shows, for any accounts, rooms and     *)
(* messages, and whatever answers are on their way.                        *)
(***************************************************************************)
EXTENDS ConsoleTimeline, FiniteSetTheorems, TLAPS

-----------------------------------------------------------------------------
(* A finite set in an order *)

IsOrder(set, pairs) ==
    /\ \A m \in set : <<m, m>> \notin pairs
    /\ \A k, m, n \in set : <<k, m>> \in pairs /\ <<m, n>> \in pairs => <<k, n>> \in pairs
    /\ \A m, n \in set : m # n => <<m, n>> \in pairs \/ <<n, m>> \in pairs

LEMMA PlaceInRange ==
    ASSUME NEW set, IsFiniteSet(set), NEW pairs, IsOrder(set, pairs), NEW m \in set
    PROVE  Place(set, pairs, m) \in 1..Cardinality(set)
<1> DEFINE before == {k \in set : <<k, m>> \in pairs}
<1>1. before \subseteq set \ {m}
  BY DEF IsOrder
<1>2. IsFiniteSet(set \ {m}) /\ Cardinality(set \ {m}) = Cardinality(set) - 1
  BY FS_RemoveElement
<1>3. IsFiniteSet(before) /\ Cardinality(before) <= Cardinality(set \ {m})
  BY <1>1, <1>2, FS_Subset
<1>4. Cardinality(before) \in Nat /\ Cardinality(set) \in Nat
  BY <1>3, FS_CardinalityType
<1>5. QED
  BY <1>2, <1>3, <1>4 DEF Place

LEMMA PlaceGrows ==
    ASSUME NEW set, IsFiniteSet(set), NEW pairs, IsOrder(set, pairs),
           NEW m \in set, NEW n \in set, <<m, n>> \in pairs
    PROVE  Place(set, pairs, m) < Place(set, pairs, n)
<1> DEFINE beforeM == {k \in set : <<k, m>> \in pairs}
           beforeN == {k \in set : <<k, n>> \in pairs}
<1>1. beforeM \subseteq beforeN /\ beforeM # beforeN /\ beforeN \subseteq set
  BY DEF IsOrder
<1>2. IsFiniteSet(beforeN) /\ IsFiniteSet(beforeM)
  BY <1>1, FS_Subset
<1>3. Cardinality(beforeM) <= Cardinality(beforeN) /\ Cardinality(beforeM) # Cardinality(beforeN)
  BY <1>1, <1>2, FS_Subset
<1>4. Cardinality(beforeM) \in Nat /\ Cardinality(beforeN) \in Nat
  BY <1>2, FS_CardinalityType
<1>5. QED
  BY <1>3, <1>4 DEF Place

\* A page in its order holds the messages of the page, each of them once, the last one last.
LEMMA InOrderHolds ==
    ASSUME NEW set, IsFiniteSet(set), NEW pairs, IsOrder(set, pairs)
    PROVE  /\ InOrder(set, pairs) \in Seq(set) /\ ToSet(InOrder(set, pairs)) = set
           /\ \A i, j \in 1..Cardinality(set) :
                 i < j => <<InOrder(set, pairs)[i], InOrder(set, pairs)[j]>> \in pairs
           /\ set # {} =>
                 /\ InOrder(set, pairs)[Cardinality(set)] \in set
                 /\ \A m \in set : <<InOrder(set, pairs)[Cardinality(set)], m>> \notin pairs
<1> DEFINE size == Cardinality(set)
           f == [m \in set |-> Place(set, pairs, m)]
           s == InOrder(set, pairs)
<1>1. size \in Nat /\ IsFiniteSet(1..size) /\ Cardinality(1..size) = size
  BY FS_CardinalityType, FS_Interval
<1>2. \A m \in set : Place(set, pairs, m) \in 1..size
  BY PlaceInRange
<1>3. \A m, n \in set : Place(set, pairs, m) = Place(set, pairs, n) => m = n
  <2>1. SUFFICES ASSUME NEW m \in set, NEW n \in set, m # n
                 PROVE  Place(set, pairs, m) # Place(set, pairs, n)
    OBVIOUS
  <2>2. Place(set, pairs, m) \in 1..size /\ Place(set, pairs, n) \in 1..size
    BY <1>2
  <2>3. Place(set, pairs, m) < Place(set, pairs, n) \/ Place(set, pairs, n) < Place(set, pairs, m)
    BY <2>1, PlaceGrows DEF IsOrder
  <2>4. QED
    BY <2>2, <2>3
<1>4. \A i \in 1..size : \E m \in set : Place(set, pairs, m) = i
  <2>1. f \in Injection(set, 1..size)
    BY <1>2, <1>3 DEF Injection, IsInjective
  <2>2. f \in Surjection(set, 1..size)
    BY <1>1, <2>1, FS_Injection
  <2>3. QED
    BY <2>2 DEF Surjection
<1>5. /\ s = [i \in 1..size |-> CHOOSE m \in set : Place(set, pairs, m) = i]
      /\ DOMAIN s = 1..size
  BY DEF InOrder
<1>6. \A i \in 1..size : s[i] \in set /\ Place(set, pairs, s[i]) = i
  BY <1>4, <1>5
<1> HIDE DEF s
<1>7. s \in Seq(set)
  BY <1>1, <1>5, <1>6
<1>8. \A m \in set : s[Place(set, pairs, m)] = m
  BY <1>2, <1>3, <1>6
<1>9. ToSet(s) = set
  BY <1>2, <1>5, <1>6, <1>8 DEF ToSet
<1>10. ASSUME NEW i \in 1..size, NEW j \in 1..size, i < j PROVE <<s[i], s[j]>> \in pairs
  <2>1. s[i] # s[j] /\ s[i] \in set /\ s[j] \in set
    BY <1>6, <1>10
  <2>2. ASSUME <<s[j], s[i]>> \in pairs PROVE FALSE
    <3>1. Place(set, pairs, s[j]) < Place(set, pairs, s[i])
      BY <2>1, <2>2, PlaceGrows
    <3>2. QED
      BY <1>6, <1>10, <3>1
  <2>3. QED
    BY <2>1, <2>2 DEF IsOrder
<1>11. ASSUME set # {} PROVE s[size] \in set /\ \A m \in set : <<s[size], m>> \notin pairs
  <2>1. size # 0
    BY <1>11, FS_EmptySet
  <2>2. size \in 1..size /\ s[size] \in set /\ Place(set, pairs, s[size]) = size
    BY <1>1, <1>6, <2>1
  <2>3. ASSUME NEW m \in set, <<s[size], m>> \in pairs PROVE FALSE
    <3>1. Place(set, pairs, m) \in 1..size
      BY <1>2
    <3>2. Place(set, pairs, s[size]) < Place(set, pairs, m)
      BY <2>2, <2>3, PlaceGrows
    <3>3. QED
      BY <1>1, <2>2, <3>1, <3>2
  <2>4. QED
    BY <2>2, <2>3
<1>12. QED
  BY <1>7, <1>9, <1>10, <1>11 DEF s

LEMMA NothingShown == ToSet(<<>>) = {}
BY DEF ToSet

LEMMA PagesHold ==
    ASSUME NEW set \in SUBSET Messages, IsFiniteSet(set)
    PROVE  /\ OnServer(set) \in Seq(set) /\ ToSet(OnServer(set)) = set
           /\ Merged(set) \in Seq(set) /\ ToSet(Merged(set)) = set
<1> DEFINE server == {p \in set \X set : ServerBefore(p[1], p[2])}
           client == {p \in set \X set : ClientBefore(p[1], p[2])}
<1>1. \A m \in set : m \in Nat /\ TimeOf[m] \in Nat /\ SequenceOf[m] \in Nat
  BY TimelineAssumption
<1>2. /\ \A m, n \in set : <<m, n>> \in server <=> ServerBefore(m, n)
      /\ \A m, n \in set : <<m, n>> \in client <=> ClientBefore(m, n)
  OBVIOUS
<1> HIDE DEF server, client
<1>3. IsOrder(set, server)
  <2>1. \A m \in set : ~ServerBefore(m, m)
    BY <1>1 DEF ServerBefore
  <2>2. \A k, m, n \in set : ServerBefore(k, m) /\ ServerBefore(m, n) => ServerBefore(k, n)
    BY <1>1 DEF ServerBefore
  <2>3. \A m, n \in set : m # n => ServerBefore(m, n) \/ ServerBefore(n, m)
    BY <1>1 DEF ServerBefore
  <2>4. QED
    BY <1>2, <2>1, <2>2, <2>3 DEF IsOrder
<1>4. IsOrder(set, client)
  <2>1. \A m \in set : ~ClientBefore(m, m)
    BY <1>1 DEF ClientBefore
  <2>2. \A k, m, n \in set : ClientBefore(k, m) /\ ClientBefore(m, n) => ClientBefore(k, n)
    BY <1>1 DEF ClientBefore
  <2>3. \A m, n \in set : m # n => ClientBefore(m, n) \/ ClientBefore(n, m)
    BY <1>1 DEF ClientBefore
  <2>4. QED
    BY <1>2, <2>1, <2>2, <2>3 DEF IsOrder
<1>5. QED
  BY <1>3, <1>4, InOrderHolds DEF OnServer, Merged, server, client
-----------------------------------------------------------------------------
(* The pages of the server *)

LEMMA NewestAreLast ==
    ASSUME NEW set \in SUBSET Messages, IsFiniteSet(set), NEW n \in Nat
    PROVE  /\ \A m \in set \ Newest(set, n), k \in Newest(set, n) : ServerBefore(m, k)
           /\ n > 0 /\ set # {} => Newest(set, n) # {}
<1> DEFINE after(m) == {k \in set : ServerBefore(m, k)}
           page == Newest(set, n)
<1>1. \A m \in set : m \in Nat /\ TimeOf[m] \in Nat /\ SequenceOf[m] \in Nat
  BY TimelineAssumption
<1>2. /\ \A m, k \in set : m # k => ServerBefore(m, k) \/ ServerBefore(k, m)
      /\ \A m \in set : ~ServerBefore(m, m)
      /\ \A k, m, o \in set : ServerBefore(k, m) /\ ServerBefore(m, o) => ServerBefore(k, o)
  BY <1>1 DEF ServerBefore
<1>3. \A m \in set : m \in page <=> Cardinality(after(m)) < n
  BY DEF Newest
<1>4. page \subseteq set
  BY DEF Newest
<1>5. ASSUME NEW m \in set, NEW k \in set, ServerBefore(k, m), k \in page PROVE m \in page
  <2>1. after(m) \subseteq after(k) /\ after(k) \subseteq set
    BY <1>2, <1>5
  <2>2. IsFiniteSet(after(k)) /\ IsFiniteSet(after(m)) /\ Cardinality(after(m)) <= Cardinality(after(k))
    BY <2>1, FS_Subset
  <2>3. Cardinality(after(m)) \in Nat /\ Cardinality(after(k)) \in Nat
    BY <2>2, FS_CardinalityType
  <2>4. QED
    BY <1>3, <1>5, <2>2, <2>3
<1>6. \A m \in set \ page, k \in page : ServerBefore(m, k)
  <2>1. SUFFICES ASSUME NEW m \in set \ page, NEW k \in page PROVE ServerBefore(m, k)
    OBVIOUS
  <2>2. k \in set /\ m \in set /\ m # k /\ ~ServerBefore(k, m)
    BY <1>4, <1>5
  <2>3. QED
    BY <1>2, <2>2
<1>7. ASSUME n > 0, set # {} PROVE page # {}
  <2> DEFINE pairs == {p \in set \X set : ServerBefore(p[1], p[2])}
             last == InOrder(set, pairs)[Cardinality(set)]
  <2>1. IsOrder(set, pairs)
    <3>1. \A m, k \in set : <<m, k>> \in pairs <=> ServerBefore(m, k)
      OBVIOUS
    <3> HIDE DEF pairs
    <3>2. QED
      BY <1>2, <3>1 DEF IsOrder
  <2>2. Cardinality(set) \in Nat /\ Cardinality(set) # 0
    BY <1>7, FS_CardinalityType, FS_EmptySet
  <2> HIDE DEF pairs
  <2>3. last \in set /\ \A k \in set : <<last, k>> \notin pairs
    BY <1>7, <2>1, InOrderHolds
  <2> HIDE DEF last
  <2>4. after(last) = {}
    BY <2>3 DEF pairs
  <2>5. Cardinality(after(last)) = 0
    BY <2>4, FS_EmptySet
  <2>6. QED
    BY <1>3, <1>7, <2>3, <2>5
<1>8. QED
  BY <1>6, <1>7

\* Who asks for the page before a message and then for the one before its first message
\* misses nothing between them, however many messages share a second.
THEOREM PagesMeet ==
    ASSUME NEW set \in SUBSET Messages, IsFiniteSet(set), NEW from \in Messages,
           NEW n \in Nat \ {0}, NEW page, page = OnServer(Newest(Earlier(set, from), n)),
           NEW m \in set, ServerBefore(m, from)
    PROVE  m \in ToSet(page) \/ (page # <<>> /\ ServerBefore(m, Head(page)))
<1> DEFINE past == Earlier(set, from)
           newest == Newest(past, n)
<1>1. past \in SUBSET Messages /\ IsFiniteSet(past) /\ m \in past
  BY FS_Subset DEF Earlier
<1> HIDE DEF past
<1>2. newest \subseteq past
  BY DEF Newest
<1>3. newest \in SUBSET Messages /\ IsFiniteSet(newest)
  BY <1>1, <1>2, FS_Subset
<1>4. newest # {} /\ \A o \in past \ newest, k \in newest : ServerBefore(o, k)
  BY <1>1, NewestAreLast
<1> HIDE DEF newest
<1>5. page = OnServer(newest)
  BY DEF newest, past
<1>6. page \in Seq(newest) /\ ToSet(page) = newest
  BY <1>3, <1>5, PagesHold
<1>7. page # <<>>
  BY <1>4, <1>6, NothingShown
<1>8. Head(page) \in newest
  BY <1>6, <1>7
<1>9. QED
  BY <1>1, <1>4, <1>6, <1>7, <1>8

-----------------------------------------------------------------------------
(* What the state and the requests in flight are *)

Filters == {"all", "media"}

RequestSet ==
    [kind : Kinds, robot : Accounts, room : Rooms \union {Nothing}, filter : Filters,
     from : Messages \union {NoMessage}, limit : Nat, fresh : BOOLEAN, latest : BOOLEAN,
     abortable : BOOLEAN, served : BOOLEAN, answer : SUBSET (Rooms \union Messages)]

\* The messages a request may be answered with.
Asks(q) == {m \in Messages : RoomOf[m] = q.room /\ q.robot \in VisibleTo[m]}

\* An answer is of the kind that was asked for, and of the room and account asked.
Fitting(q) ==
    /\ q.kind \in {"rooms", "poll"} => q.answer \subseteq Rooms
    /\ q.kind \notin {"rooms", "poll"} => q.answer \subseteq Messages /\ IsFiniteSet(q.answer)
    /\ q.kind \in {"load", "latest", "history", "jump"} => q.answer \subseteq Asks(q)

IsRequest(q) == q \in RequestSet /\ Fitting(q)

DataOK ==
    /\ stored \subseteq Messages /\ IsFiniteSet(stored)
    /\ robot \in Accounts /\ sidebarOf \in Accounts
    /\ room \in Rooms \union {Nothing} /\ roomList \subseteq Rooms
    /\ shown \in Seq(Messages) /\ results \subseteq Messages
    /\ filter \in Filters

FlagsOK ==
    /\ searchMode \in BOOLEAN /\ loadingRooms \in BOOLEAN /\ loadingRoom \in BOOLEAN
    /\ loadingHistory \in BOOLEAN /\ refreshing \in BOOLEAN /\ switchFailed \in BOOLEAN
    /\ detour \in BOOLEAN

StateOK == DataOK /\ FlagsOK

\* Of the lists of rooms that are awaited, the one that will be taken is of the account.
RequestsFit(set, account) ==
    \A q \in set : IsRequest(q) /\ (q.kind = "rooms" /\ q.latest => q.robot = account)

\* A page that its token lets in was asked for by the account that is there.
LoadsFit(set, account) ==
    \A q \in set : q.kind \in {"load", "history", "jump"} /\ q.fresh => q.robot = account

ConsoleInv ==
    /\ StateOK
    /\ RequestsFit(requests, robot) /\ (~detour => LoadsFit(requests, robot))
    /\ ShownIsAsked /\ SidebarIsOfAccount

LEMMA NewRequest ==
    ASSUME NEW kind \in Kinds, NEW account \in Accounts, NEW r \in Rooms \union {Nothing},
           NEW f \in Filters, NEW from \in Messages \union {NoMessage}, NEW limit \in Nat,
           NEW q, q = Request(kind, account, r, f, from, limit)
    PROVE  /\ IsRequest(q) /\ q.kind = kind /\ q.robot = account
           /\ IsRequest([q EXCEPT !.abortable = TRUE])
           /\ [q EXCEPT !.abortable = TRUE].kind = kind
           /\ [q EXCEPT !.abortable = TRUE].robot = account
<1> DEFINE p == [q EXCEPT !.abortable = TRUE]
<1>1. /\ q \in RequestSet /\ q.kind = kind /\ q.robot = account /\ q.answer = {}
      /\ p \in RequestSet /\ p.kind = kind /\ p.robot = account /\ p.answer = {}
  BY DEF Request, RequestSet
<1> HIDE DEF p
<1>2. Fitting(q) /\ Fitting(p)
  BY <1>1, FS_EmptySet DEF Fitting
<1>3. QED
  BY <1>1, <1>2 DEF IsRequest, p

LEMMA OldRequests ==
    ASSUME NEW q, IsRequest(q)
    PROVE  /\ IsRequest([q EXCEPT !.latest = FALSE]) /\ IsRequest([q EXCEPT !.fresh = FALSE])
           /\ \A t \in {"kind", "robot", "fresh"} : [q EXCEPT !.latest = FALSE][t] = q[t]
           /\ \A t \in {"kind", "robot", "latest"} : [q EXCEPT !.fresh = FALSE][t] = q[t]
           /\ [q EXCEPT !.latest = FALSE].latest = FALSE
           /\ [q EXCEPT !.fresh = FALSE].fresh = FALSE
<1> DEFINE p == [q EXCEPT !.latest = FALSE]
           o == [q EXCEPT !.fresh = FALSE]
<1>1. q \in RequestSet
  BY DEF IsRequest
<1>2. /\ p \in RequestSet /\ p.latest = FALSE
      /\ p.kind = q.kind /\ p.robot = q.robot /\ p.fresh = q.fresh
      /\ p.room = q.room /\ p.answer = q.answer
  BY <1>1 DEF RequestSet
<1>3. /\ o \in RequestSet /\ o.fresh = FALSE
      /\ o.kind = q.kind /\ o.robot = q.robot /\ o.latest = q.latest
      /\ o.room = q.room /\ o.answer = q.answer
  BY <1>1 DEF RequestSet
<1> HIDE DEF p, o
<1>4. Fitting(p) /\ Fitting(o)
  BY <1>2, <1>3 DEF IsRequest, Fitting, Asks
<1>5. QED
  BY <1>2, <1>3, <1>4 DEF IsRequest, p, o

LEMMA SubsetFits ==
    ASSUME NEW set, NEW account, RequestsFit(set, account), NEW some \in SUBSET set
    PROVE  RequestsFit(some, account) /\ (LoadsFit(set, account) => LoadsFit(some, account))
BY DEF RequestsFit, LoadsFit

LEMMA UnionFits ==
    ASSUME NEW set, NEW other, NEW account,
           RequestsFit(set, account), RequestsFit(other, account), LoadsFit(other, account)
    PROVE  /\ RequestsFit(set \union other, account)
           /\ LoadsFit(set, account) => LoadsFit(set \union other, account)
BY DEF RequestsFit, LoadsFit

LEMMA NewFits ==
    ASSUME NEW kind \in Kinds, NEW account \in Accounts, NEW r \in Rooms \union {Nothing},
           NEW f \in Filters, NEW from \in Messages \union {NoMessage}, NEW limit \in Nat
    PROVE  LET q == Request(kind, account, r, f, from, limit)
           IN  /\ RequestsFit({q}, account) /\ LoadsFit({q}, account)
               /\ kind # "rooms" => /\ RequestsFit({[q EXCEPT !.abortable = TRUE]}, account)
                                    /\ LoadsFit({[q EXCEPT !.abortable = TRUE]}, account)
<1> DEFINE q == Request(kind, account, r, f, from, limit)
           p == [q EXCEPT !.abortable = TRUE]
<1>1. /\ IsRequest(q) /\ q.kind = kind /\ q.robot = account
      /\ IsRequest(p) /\ p.kind = kind /\ p.robot = account
  BY NewRequest
<1> HIDE DEF p, q
<1>2. /\ RequestsFit({q}, account) /\ LoadsFit({q}, account)
      /\ RequestsFit({p}, account) /\ LoadsFit({p}, account)
  BY <1>1 DEF RequestsFit, LoadsFit
<1>3. QED
  BY <1>2 DEF p, q

LEMMA SupersededFits ==
    ASSUME NEW account, RequestsFit(requests, account), NEW kind
    PROVE  /\ RequestsFit(Superseded(kind), account)
           /\ LoadsFit(requests, account) => LoadsFit(Superseded(kind), account)
           /\ kind = "rooms" => \A other : RequestsFit(Superseded(kind), other)
<1>1. ASSUME NEW p \in Superseded(kind)
      PROVE  \E q \in requests : /\ IsRequest(p) /\ p.kind = q.kind /\ p.robot = q.robot
                                 /\ p.fresh = q.fresh /\ (p.latest => q.latest)
                                 /\ p.kind = kind => ~p.latest
  <2>1. PICK q \in requests : p = IF q.kind = kind THEN [q EXCEPT !.latest = FALSE] ELSE q
    BY <1>1 DEF Superseded
  <2>2. IsRequest(q)
    BY DEF RequestsFit
  <2>3. CASE q.kind = kind
    <3> DEFINE o == [q EXCEPT !.latest = FALSE]
    <3>1. /\ IsRequest(o) /\ o.kind = q.kind /\ o.robot = q.robot /\ o.fresh = q.fresh
          /\ o.latest = FALSE
      BY <2>2, OldRequests
    <3>2. p = o
      BY <2>1, <2>3
    <3> HIDE DEF o
    <3>3. QED
      BY <3>1, <3>2
  <2>4. CASE q.kind # kind
    BY <2>1, <2>2, <2>4
  <2>5. QED
    BY <2>3, <2>4
<1>2. QED
  BY <1>1 DEF RequestsFit, LoadsFit

LEMMA StaleFits ==
    ASSUME NEW set, NEW account, RequestsFit(set, account)
    PROVE  RequestsFit(Stale(set), account) /\ LoadsFit(Stale(set), account)
<1>1. ASSUME NEW p \in Stale(set)
      PROVE  \E q \in set : /\ IsRequest(p) /\ p.kind = q.kind /\ p.robot = q.robot
                            /\ p.latest = q.latest /\ ~p.fresh
  <2>1. PICK q \in set : p = [q EXCEPT !.fresh = FALSE]
    BY <1>1 DEF Stale
  <2>2. IsRequest(q)
    BY DEF RequestsFit
  <2> DEFINE o == [q EXCEPT !.fresh = FALSE]
  <2>3. /\ IsRequest(o) /\ o.kind = q.kind /\ o.robot = q.robot /\ o.latest = q.latest
        /\ o.fresh = FALSE
    BY <2>2, OldRequests
  <2>4. p = o
    BY <2>1
  <2> HIDE DEF o
  <2>5. QED
    BY <2>3, <2>4
<1>2. QED
  BY <1>1 DEF RequestsFit, LoadsFit

LEMMA PageSizes == PageSize \in Nat /\ MaxPage \in Nat /\ 0 \in Nat
BY TimelineAssumption

LEMMA RefreshLimits == ASSUME shown \in Seq(Messages) PROVE RefreshLimit \in Nat
<1> DEFINE high == Max({PageSize, Len(shown)})
<1>1. Len(shown) \in Nat
  OBVIOUS
<1>2. high \in Nat
  <2>1. \E x \in {PageSize, Len(shown)} : \A y \in {PageSize, Len(shown)} : x >= y
    BY <1>1, PageSizes
  <2>2. QED
    BY <2>1, <1>1, PageSizes DEF Max
<1> HIDE DEF high
<1>3. \E x \in {MaxPage, high} : \A y \in {MaxPage, high} : x =< y
  BY <1>2, PageSizes
<1>4. Min({MaxPage, high}) \in Nat
  BY <1>2, <1>3, PageSizes DEF Min
<1>5. QED
  BY <1>4 DEF RefreshLimit, high

-----------------------------------------------------------------------------
(* The server's answers *)

LEMMA AnswersFit ==
    ASSUME StateOK, NEW q, IsRequest(q)
    PROVE  LET p == [q EXCEPT !.served = TRUE, !.answer = AnswerTo(q)]
           IN  /\ IsRequest(p)
               /\ \A t \in {"kind", "robot", "fresh", "latest"} : p[t] = q[t]
<1> DEFINE p == [q EXCEPT !.served = TRUE, !.answer = AnswerTo(q)]
           a == AnswerTo(q)
<1>1. q \in RequestSet /\ q.kind \in Kinds
  BY DEF IsRequest, RequestSet
<1>2. stored \subseteq Messages /\ IsFiniteSet(stored)
  BY DEF StateOK, DataOK
<1>3. CASE q.kind \in {"rooms", "poll"}
  <2>1. a = RoomsOf(q.robot)
    BY <1>3 DEF AnswerTo
  <2>2. a \subseteq Rooms
    BY <1>2, <2>1, TimelineAssumption DEF RoomsOf, Scope
  <2> HIDE DEF a
  <2>3. a \in SUBSET (Rooms \union Messages)
    BY <2>2
  <2>4. /\ [q EXCEPT !.served = TRUE, !.answer = a] \in RequestSet
        /\ [q EXCEPT !.served = TRUE, !.answer = a].answer = a
        /\ [q EXCEPT !.served = TRUE, !.answer = a].kind = q.kind
        /\ \A t \in {"kind", "robot", "fresh", "latest"} :
              [q EXCEPT !.served = TRUE, !.answer = a][t] = q[t]
    BY <1>1, <2>3 DEF RequestSet
  <2>5. p = [q EXCEPT !.served = TRUE, !.answer = a]
    BY DEF a
  <2> HIDE DEF p
  <2>6. Fitting(p)
    BY <1>3, <2>2, <2>4, <2>5 DEF Fitting
  <2>7. QED
    BY <2>4, <2>5, <2>6 DEF IsRequest, p
<1>4. CASE q.kind \notin {"rooms", "poll"}
  <2>1. /\ a \subseteq stored
        /\ q.kind \in {"load", "latest", "history", "jump"} => a \subseteq Asks(q)
    <3>1. \A set, n : Newest(set, n) \subseteq set
      BY DEF Newest
    <3>2. Conversation(q) \subseteq stored /\ Conversation(q) \subseteq Asks(q)
      BY <1>2 DEF Conversation, Filtered, Scope, Asks
    <3>3. CASE q.kind \in {"load", "latest"}
      <4>1. a = Newest(Conversation(q), q.limit)
        BY <3>3 DEF AnswerTo
      <4>2. QED
        BY <3>1, <3>2, <3>3, <4>1
    <3>4. CASE q.kind = "history"
      <4>1. a = Newest(Earlier(Conversation(q), q.from), q.limit)
        BY <3>4 DEF AnswerTo
      <4>2. Earlier(Conversation(q), q.from) \subseteq Conversation(q)
        BY DEF Earlier
      <4>3. QED
        BY <3>1, <3>2, <4>1, <4>2
    <3>5. CASE q.kind = "jump"
      <4>1. a = Around(q)
        BY <3>5 DEF AnswerTo
      <4>2. Around(q) \subseteq Conversation(q)
        BY <3>1 DEF Around
      <4>3. QED
        BY <3>2, <4>1, <4>2
    <3>6. CASE q.kind = "search"
      <4>1. a = SearchPage(q)
        BY <3>6 DEF AnswerTo
      <4>2. SearchPage(q) \subseteq stored
        BY <3>1 DEF SearchPage, Filtered, Scope
      <4>3. QED
        BY <3>6, <4>1, <4>2
    <3>7. QED
      BY <1>1, <1>4, <3>3, <3>4, <3>5, <3>6 DEF Kinds
  <2>2. IsFiniteSet(a) /\ a \subseteq Messages
    BY <1>2, <2>1, FS_Subset
  <2> HIDE DEF a
  <2>3. a \in SUBSET (Rooms \union Messages)
    BY <2>2
  <2>4. /\ [q EXCEPT !.served = TRUE, !.answer = a] \in RequestSet
        /\ [q EXCEPT !.served = TRUE, !.answer = a].answer = a
        /\ [q EXCEPT !.served = TRUE, !.answer = a].room = q.room
        /\ \A t \in {"kind", "robot", "fresh", "latest"} :
              [q EXCEPT !.served = TRUE, !.answer = a][t] = q[t]
    BY <1>1, <2>3 DEF RequestSet
  <2>5. p = [q EXCEPT !.served = TRUE, !.answer = a]
    BY DEF a
  <2> HIDE DEF p
  <2>6. Fitting(p)
    <3>1. p.kind = q.kind /\ p.robot = q.robot /\ p.room = q.room /\ p.answer = a
      BY <2>4, <2>5
    <3>2. QED
      BY <1>4, <2>1, <2>2, <3>1 DEF Fitting, Asks
  <2>7. QED
    BY <2>4, <2>5, <2>6 DEF IsRequest, p
<1>5. QED
  BY <1>3, <1>4
-----------------------------------------------------------------------------
(* Every step keeps the invariant *)

LEMMA ConsoleInit == Init => ConsoleInv
<1> SUFFICES ASSUME Init PROVE ConsoleInv
  OBVIOUS
<1>1. StateOK
  <2>1. DataOK
    BY TimelineAssumption DEF Init, DataOK, Filters
  <2>2. FlagsOK
    BY Zenon DEF Init, FlagsOK
  <2>3. QED
    BY <2>1, <2>2 DEF StateOK
<1>2. RequestsFit(requests, robot) /\ LoadsFit(requests, robot)
  <2>1. First \in Accounts /\ "rooms" \in Kinds /\ "all" \in Filters
    BY TimelineAssumption DEF Kinds, Filters
  <2>2. QED
    BY <2>1, NewFits, PageSizes DEF Init
<1>3. QED
  BY <1>1, <1>2, NothingShown DEF Init, ConsoleInv, ShownIsAsked, SidebarIsOfAccount

LEMMA ServeSafe == ASSUME ConsoleInv, NEW q \in requests, Serve(q) PROVE ConsoleInv'
<1> DEFINE p == [q EXCEPT !.served = TRUE, !.answer = AnswerTo(q)]
<1>1. /\ IsRequest(p) /\ p.kind = q.kind /\ p.robot = q.robot /\ p.fresh = q.fresh
      /\ p.latest = q.latest
  BY AnswersFit DEF ConsoleInv, RequestsFit
<1>2. requests' = (requests \ {q}) \union {p}
  BY DEF Serve
<1> HIDE DEF p
<1>3. /\ RequestsFit(requests', robot)
      /\ LoadsFit(requests, robot) => LoadsFit(requests', robot)
  BY <1>1, <1>2 DEF ConsoleInv, RequestsFit, LoadsFit
<1>4. UNCHANGED <<stored, view, sidebar, search, loading, refreshing>>
  BY DEF Serve
<1>5. QED
  BY <1>3, <1>4 DEF ConsoleInv, StateOK, DataOK, FlagsOK, ShownIsAsked, SidebarIsOfAccount, view, sidebar,
                    search, loading

LEMMA ArriveSafe == ASSUME ConsoleInv, NEW m \in Messages, Arrive(m) PROVE ConsoleInv'
<1>1. stored' \subseteq Messages /\ IsFiniteSet(stored')
  BY FS_AddElement DEF Arrive, ConsoleInv, StateOK, DataOK
<1>2. UNCHANGED <<view, sidebar, search, loading, refreshing, requests>>
  BY DEF Arrive
<1>3. QED
  BY <1>1, <1>2 DEF ConsoleInv, StateOK, DataOK, FlagsOK, ShownIsAsked, SidebarIsOfAccount, view, sidebar,
                    search, loading

LEMMA SwitchSafe ==
    ASSUME ConsoleInv, NEW account \in Accounts, NEW link \in Rooms \union {Nothing},
           Switch(account, link)
    PROVE  ConsoleInv'
<1>1. /\ robot' = account /\ room' = Nothing /\ shown' = <<>> /\ searchMode' = FALSE
      /\ results' = {} /\ loadingRooms' = TRUE /\ detour' = TRUE
      /\ UNCHANGED <<stored, filter, roomList, sidebarOf, switchFailed, loadingRoom,
                      loadingHistory, refreshing>>
  BY DEF Switch
<1>2. StateOK'
  <2>1. DataOK'
    BY <1>1 DEF ConsoleInv, StateOK, DataOK
  <2>2. FlagsOK'
    BY Zenon, <1>1 DEF ConsoleInv, StateOK, FlagsOK
  <2>3. QED
    BY <2>1, <2>2 DEF StateOK
<1>3. RequestsFit(requests', account)
  <2>1. RequestsFit(Superseded("rooms"), account)
    BY SupersededFits DEF ConsoleInv
  <2>2. "rooms" \in Kinds /\ "all" \in Filters
    BY DEF Kinds, Filters
  <2>3. /\ RequestsFit({Request("rooms", account, link, "all", NoMessage, 0)}, account)
        /\ LoadsFit({Request("rooms", account, link, "all", NoMessage, 0)}, account)
    BY <2>2, NewFits, PageSizes
  <2>4. QED
    BY <2>1, <2>3, UnionFits DEF Switch
<1>4. ShownIsAsked'
  BY <1>1, NothingShown DEF ShownIsAsked
<1>5. QED
  BY <1>1, <1>2, <1>3, <1>4 DEF ConsoleInv, SidebarIsOfAccount

LEMMA OpenSafe ==
    ASSUME ConsoleInv, NEW r \in Rooms, NEW set \in SUBSET requests, Open(r, set),
           roomList' \subseteq Rooms, sidebarOf' \in Accounts,
           loadingRooms' \in BOOLEAN, switchFailed' \in BOOLEAN,
           sidebarOf' = robot \/ loadingRooms' \/ switchFailed'
    PROVE  ConsoleInv'
<1>1. /\ room' = r /\ shown' = <<>> /\ loadingRoom' = TRUE /\ loadingHistory' = FALSE
      /\ detour' = FALSE
      /\ UNCHANGED <<stored, robot, filter, searchMode, results, refreshing>>
  BY DEF Open, search
<1>2. StateOK'
  <2>1. DataOK'
    BY <1>1 DEF ConsoleInv, StateOK, DataOK
  <2>2. FlagsOK'
    BY Zenon, <1>1 DEF ConsoleInv, StateOK, FlagsOK
  <2>3. QED
    BY <2>1, <2>2 DEF StateOK
<1>3. RequestsFit(requests', robot) /\ LoadsFit(requests', robot)
  <2>1. RequestsFit(Stale(set), robot) /\ LoadsFit(Stale(set), robot)
    BY SubsetFits, StaleFits DEF ConsoleInv
  <2> DEFINE q == [Request("load", robot, r, filter, NoMessage, PageSize) EXCEPT !.abortable = TRUE]
  <2>2. RequestsFit({q}, robot) /\ LoadsFit({q}, robot)
    <3>1. /\ "load" \in Kinds /\ robot \in Accounts /\ filter \in Filters
      BY DEF Kinds, ConsoleInv, StateOK, DataOK
    <3>2. QED
      BY <3>1, NewFits, PageSizes
  <2>3. requests' = Stale(set) \union {q}
    BY DEF Open
  <2> HIDE DEF q
  <2>4. QED
    BY <2>1, <2>2, <2>3, UnionFits
<1>4. ShownIsAsked'
  BY <1>1, NothingShown DEF ShownIsAsked
<1>5. SidebarIsOfAccount'
  BY <1>1 DEF SidebarIsOfAccount
<1>6. QED
  BY <1>1, <1>2, <1>3, <1>4, <1>5 DEF ConsoleInv
\* A step that leaves the timeline and the sidebar alone.
LEMMA QuietSafe ==
    ASSUME ConsoleInv, UNCHANGED <<stored, view, sidebar, detour>>,
           results' \subseteq Messages, searchMode' \in BOOLEAN, loadingRoom' \in BOOLEAN,
           loadingHistory' \in BOOLEAN, refreshing' \in BOOLEAN,
           RequestsFit(requests', robot), LoadsFit(requests, robot) => LoadsFit(requests', robot)
    PROVE  ConsoleInv'
<1>1. /\ UNCHANGED <<stored, robot, room, shown, filter, roomList, sidebarOf>>
      /\ UNCHANGED <<loadingRooms, switchFailed, detour>>
  BY DEF view, sidebar
<1>2. DataOK'
  BY <1>1 DEF ConsoleInv, StateOK, DataOK
<1>3. FlagsOK'
  BY Zenon, <1>1 DEF ConsoleInv, StateOK, FlagsOK
<1>4. ShownIsAsked'
  BY <1>1 DEF ConsoleInv, ShownIsAsked
<1>5. SidebarIsOfAccount'
  BY <1>1 DEF ConsoleInv, SidebarIsOfAccount
<1>6. QED
  BY <1>1, <1>2, <1>3, <1>4, <1>5 DEF ConsoleInv, StateOK

\* A step that changes what is shown, and asks for at most one more page of it.
LEMMA ShowSafe ==
    ASSUME ConsoleInv, UNCHANGED <<stored, robot, room, sidebar, search, refreshing>>,
           shown' \in Seq(Messages), filter' \in Filters, loadingRoom' \in BOOLEAN,
           loadingHistory' \in BOOLEAN, UNCHANGED detour,
           \A m \in ToSet(shown') : RoomOf[m] = room /\ (~detour => robot \in VisibleTo[m]),
           RequestsFit(requests', robot), LoadsFit(requests, robot) => LoadsFit(requests', robot)
    PROVE  ConsoleInv'
<1>1. /\ UNCHANGED <<stored, robot, room, roomList, sidebarOf, results>>
      /\ UNCHANGED <<loadingRooms, switchFailed, detour, searchMode, refreshing>>
  BY DEF sidebar, search
<1>2. DataOK'
  BY <1>1 DEF ConsoleInv, StateOK, DataOK
<1>3. FlagsOK'
  BY Zenon, <1>1 DEF ConsoleInv, StateOK, FlagsOK
<1>4. ShownIsAsked'
  BY <1>1 DEF ShownIsAsked
<1>5. SidebarIsOfAccount'
  BY <1>1 DEF ConsoleInv, SidebarIsOfAccount
<1>6. QED
  BY <1>1, <1>2, <1>3, <1>4, <1>5 DEF ConsoleInv, StateOK

\* What one more request does to those in flight.
LEMMA AskedFits ==
    ASSUME ConsoleInv, NEW set, RequestsFit(set, robot),
           LoadsFit(requests, robot) => LoadsFit(set, robot),
           NEW kind \in Kinds, NEW r \in Rooms \union {Nothing},
           NEW f \in Filters, NEW from \in Messages \union {NoMessage}, NEW limit \in Nat,
           requests' = set \union {Request(kind, robot, r, f, from, limit)}
    PROVE  RequestsFit(requests', robot) /\ (LoadsFit(requests, robot) => LoadsFit(requests', robot))
<1> DEFINE q == Request(kind, robot, r, f, from, limit)
<1>1. robot \in Accounts
  BY DEF ConsoleInv, StateOK, DataOK
<1>2. RequestsFit({q}, robot) /\ LoadsFit({q}, robot)
  BY <1>1, NewFits
<1>3. requests' = set \union {q}
  OBVIOUS
<1> HIDE DEF q
<1>4. QED
  BY <1>2, <1>3, UnionFits

LEMMA UserSafe == ASSUME ConsoleInv, User PROVE ConsoleInv'
<1> USE DEF Click
<1>1. ASSUME NEW a \in Accounts, SwitchAccount(a) PROVE ConsoleInv'
  BY <1>1, SwitchSafe DEF SwitchAccount
<1>2. ASSUME NEW r \in Rooms, Open(r, requests), UNCHANGED sidebar PROVE ConsoleInv'
  <2>1. /\ roomList' \subseteq Rooms /\ sidebarOf' \in Accounts
        /\ UNCHANGED <<sidebarOf, loadingRooms, switchFailed>>
    BY <1>2 DEF sidebar, ConsoleInv, StateOK, DataOK
  <2>2. loadingRooms' \in BOOLEAN /\ switchFailed' \in BOOLEAN
    BY Zenon, <2>1 DEF ConsoleInv, StateOK, FlagsOK
  <2>3. sidebarOf' = robot \/ loadingRooms' \/ switchFailed'
    BY <2>1 DEF ConsoleInv, SidebarIsOfAccount
  <2>4. QED
    BY <1>2, <2>1, <2>2, <2>3, OpenSafe
<1>3. ASSUME NEW a \in Accounts, NEW r \in Rooms, FollowLink(a, r) PROVE ConsoleInv'
  BY <1>2, <1>3, SwitchSafe DEF FollowLink
<1>4. ASSUME NEW r \in Rooms, SelectRoom(r) PROVE ConsoleInv'
  BY <1>2, <1>4 DEF SelectRoom
<1>5. ASSUME NEW m \in Messages, OpenResult(m) PROVE ConsoleInv'
  <2>1. /\ room' = RoomOf[m] /\ shown' = <<m>> /\ roomList' = roomList \union {RoomOf[m]}
        /\ detour' = TRUE /\ requests' = requests
        /\ UNCHANGED <<stored, robot, filter, sidebarOf, loadingRooms, switchFailed, search,
                        loadingRoom, loadingHistory, refreshing>>
    BY <1>5 DEF OpenResult
  <2>2. DataOK'
    BY <2>1, TimelineAssumption DEF ConsoleInv, StateOK, DataOK, search
  <2>3. FlagsOK'
    BY Zenon, <2>1 DEF ConsoleInv, StateOK, FlagsOK, search
  <2>4. ShownIsAsked' /\ detour'
    <3>1. ToSet(shown') = {m}
      BY <2>1 DEF ToSet
    <3>2. QED
      BY <2>1, <3>1 DEF ShownIsAsked
  <2>5. SidebarIsOfAccount'
    BY <2>1 DEF ConsoleInv, SidebarIsOfAccount
  <2>6. QED
    BY <2>1, <2>2, <2>3, <2>4, <2>5 DEF ConsoleInv, StateOK
<1>6. ASSUME NEW m \in Messages, Jump(m) PROVE ConsoleInv'
  <2>1. /\ requests' = requests \union {Request("jump", robot, room, filter, m, PageSize)}
        /\ UNCHANGED <<stored, view, sidebar, search, loading, refreshing>>
    BY <1>6 DEF Jump
  <2>2. "jump" \in Kinds /\ room \in Rooms \union {Nothing} /\ filter \in Filters
    BY DEF Kinds, ConsoleInv, StateOK, DataOK
  <2>3. RequestsFit(requests, robot)
    BY DEF ConsoleInv
  <2>4. RequestsFit(requests', robot) /\ (LoadsFit(requests, robot) => LoadsFit(requests', robot))
    BY <2>1, <2>2, <2>3, AskedFits, PageSizes
  <2>5. QED
    BY <2>1, <2>4, QuietSafe DEF search, loading, ConsoleInv, StateOK, DataOK, FlagsOK
<1>7. ASSUME NEW f \in Filters, Filter(f) PROVE ConsoleInv'
  <2>1. /\ filter' = f /\ shown' = <<>>
        /\ UNCHANGED <<stored, robot, room, sidebar, search, loading, refreshing>>
    BY <1>7 DEF Filter
  <2>2. RequestsFit(requests', robot) /\ (LoadsFit(requests, robot) => LoadsFit(requests', robot))
    <3>1. /\ "search" \in Kinds /\ "load" \in Kinds /\ room \in Rooms \union {Nothing}
      BY DEF Kinds, ConsoleInv, StateOK, DataOK
    <3>2. RequestsFit(requests, robot)
      BY DEF ConsoleInv
    <3>3. \/ requests' = requests \union {Request("search", robot, Nothing, f, NoMessage, PageSize)}
          \/ requests' = requests \union {Request("load", robot, room, f, NoMessage, PageSize)}
          \/ requests' = requests
      BY <1>7 DEF Filter
    <3>4. CASE requests' = requests
      BY <3>2, <3>4
    <3>5. CASE requests' = requests \union {Request("search", robot, Nothing, f, NoMessage, PageSize)}
      BY <3>1, <3>2, <3>5, AskedFits, PageSizes
    <3>6. CASE requests' = requests \union {Request("load", robot, room, f, NoMessage, PageSize)}
      BY <3>1, <3>2, <3>6, AskedFits, PageSizes
    <3>7. QED
      BY <3>3, <3>4, <3>5, <3>6
  <2>3. shown' \in Seq(Messages) /\ ToSet(shown') = {}
    BY <2>1, NothingShown
  <2>4. QED
    BY <2>1, <2>2, <2>3, ShowSafe DEF loading, ConsoleInv, StateOK, FlagsOK
<1>8. CASE Reload
  <2>1. /\ requests' = requests \union {Request("load", robot, room, filter, NoMessage, PageSize)}
        /\ UNCHANGED <<stored, view, sidebar, search, loading, refreshing>>
    BY <1>8 DEF Reload
  <2>2. "load" \in Kinds /\ room \in Rooms \union {Nothing} /\ filter \in Filters
    BY DEF Kinds, ConsoleInv, StateOK, DataOK
  <2>3. RequestsFit(requests, robot)
    BY DEF ConsoleInv
  <2>4. RequestsFit(requests', robot) /\ (LoadsFit(requests, robot) => LoadsFit(requests', robot))
    BY <2>1, <2>2, <2>3, AskedFits, PageSizes
  <2>5. QED
    BY <2>1, <2>4, QuietSafe DEF search, loading, ConsoleInv, StateOK, DataOK, FlagsOK
<1>9. CASE Search
  <2>1. /\ requests' = requests \union {Request("search", robot, Nothing, filter, NoMessage, PageSize)}
        /\ searchMode' = TRUE
        /\ UNCHANGED <<stored, view, sidebar, results, loading, refreshing>>
    BY <1>9 DEF Search
  <2>2. "search" \in Kinds /\ filter \in Filters
    BY DEF Kinds, ConsoleInv, StateOK, DataOK
  <2>3. RequestsFit(requests, robot)
    BY DEF ConsoleInv
  <2>4. RequestsFit(requests', robot) /\ (LoadsFit(requests, robot) => LoadsFit(requests', robot))
    BY <2>1, <2>2, <2>3, AskedFits, PageSizes
  <2>5. QED
    BY <2>1, <2>4, QuietSafe DEF loading, ConsoleInv, StateOK, DataOK, FlagsOK
<1>10. CASE ClearSearch
  <2>1. /\ searchMode' = FALSE /\ results' = {}
        /\ UNCHANGED <<stored, view, sidebar, loading, refreshing, requests>>
    BY <1>10 DEF ClearSearch
  <2>2. RequestsFit(requests', robot)
    BY <2>1 DEF ConsoleInv
  <2>3. QED
    BY <2>1, <2>2, QuietSafe DEF loading, ConsoleInv, StateOK, DataOK, FlagsOK
<1>11. QED
  BY <1>1, <1>3, <1>4, <1>5, <1>6, <1>7, <1>8, <1>9, <1>10 DEF User, Filters

LEMMA ScrollSafe == ASSUME ConsoleInv, ScrollUp PROVE ConsoleInv'
<1>1. /\ shown # <<>> /\ loadingHistory' = TRUE
      /\ requests' = Superseded("history")
                        \union {Request("history", robot, room, filter, Head(shown), PageSize)}
      /\ UNCHANGED <<stored, view, sidebar, search, loadingRoom, detour, refreshing>>
  BY DEF ScrollUp
<1>2. /\ "history" \in Kinds /\ room \in Rooms \union {Nothing} /\ filter \in Filters
      /\ shown \in Seq(Messages)
  BY DEF Kinds, ConsoleInv, StateOK, DataOK
<1>3. Head(shown) \in Messages
  BY <1>1, <1>2
<1>4. /\ RequestsFit(Superseded("history"), robot)
      /\ LoadsFit(requests, robot) => LoadsFit(Superseded("history"), robot)
  BY SupersededFits DEF ConsoleInv
<1>5. RequestsFit(requests', robot) /\ (LoadsFit(requests, robot) => LoadsFit(requests', robot))
  BY <1>1, <1>2, <1>3, <1>4, AskedFits, PageSizes
<1>6. QED
  BY <1>1, <1>5, QuietSafe DEF search, ConsoleInv, StateOK, DataOK, FlagsOK

LEMMA RefreshSafe == ASSUME ConsoleInv, Refresh PROVE ConsoleInv'
<1>1. /\ refreshing' = TRUE
      /\ requests' = requests \union {Request("poll", robot, room, "all", NoMessage, 0)}
      /\ UNCHANGED <<stored, view, sidebar, search, loading>>
  BY DEF Refresh
<1>2. "poll" \in Kinds /\ room \in Rooms \union {Nothing} /\ "all" \in Filters
  BY DEF Kinds, Filters, ConsoleInv, StateOK, DataOK
<1>3. RequestsFit(requests, robot)
  BY DEF ConsoleInv
<1>4. RequestsFit(requests', robot) /\ (LoadsFit(requests, robot) => LoadsFit(requests', robot))
  BY <1>1, <1>2, <1>3, AskedFits, PageSizes
<1>5. QED
  BY <1>1, <1>4, QuietSafe DEF search, loading, ConsoleInv, StateOK, DataOK, FlagsOK
\* An answer that comes is of the room and account it was asked for.
LEMMA AnswerHolds ==
    ASSUME ConsoleInv, NEW q \in requests
    PROVE  /\ q.kind \in Kinds /\ q.robot \in Accounts /\ q.room \in Rooms \union {Nothing}
           /\ q.kind \in {"rooms", "poll"} => q.answer \subseteq Rooms
           /\ q.kind = "search" => q.answer \subseteq Messages
           /\ q.kind \in {"load", "latest", "history", "jump"} =>
                 q.answer \in SUBSET Messages /\ IsFiniteSet(q.answer) /\ q.answer \subseteq Asks(q)
           /\ ~detour /\ q.kind \in {"load", "history", "jump"} /\ q.fresh => q.robot = robot
           /\ q.kind = "rooms" /\ q.latest => q.robot = robot
<1>1. IsRequest(q) /\ (q.kind = "rooms" /\ q.latest => q.robot = robot)
  BY DEF ConsoleInv, RequestsFit
<1>2. ~detour /\ q.kind \in {"load", "history", "jump"} /\ q.fresh => q.robot = robot
  BY DEF ConsoleInv, LoadsFit
<1>3. q.kind \in Kinds /\ q.robot \in Accounts /\ q.room \in Rooms \union {Nothing}
  BY <1>1 DEF IsRequest, RequestSet
<1>4. QED
  BY <1>1, <1>2, <1>3 DEF IsRequest, Fitting

LEMMA OneFewerFits ==
    ASSUME ConsoleInv, NEW q, requests' = requests \ {q}
    PROVE  RequestsFit(requests', robot) /\ (LoadsFit(requests, robot) => LoadsFit(requests', robot))
BY SubsetFits DEF ConsoleInv

\* What is shown is a finite list.
LEMMA ListsHold ==
    ASSUME NEW list \in Seq(Messages)
    PROVE  ToSet(list) \in SUBSET Messages /\ IsFiniteSet(ToSet(list))
<1>1. /\ ToSet(list) \in SUBSET Messages /\ DOMAIN list = 1..Len(list) /\ Len(list) \in Nat
      /\ list \in [1..Len(list) -> ToSet(list)]
  BY DEF ToSet
<1>2. list \in Surjection(1..Len(list), ToSet(list))
  BY <1>1 DEF Surjection, ToSet
<1>3. QED
  BY <1>1, <1>2, FS_Surjection, FS_Interval

LEMMA SidebarSafe ==
    ASSUME ConsoleInv, UNCHANGED <<stored, view, search, loading>>,
           refreshing' \in BOOLEAN, loadingRooms' \in BOOLEAN, switchFailed' \in BOOLEAN,
           roomList' \subseteq Rooms, sidebarOf' \in Accounts,
           sidebarOf' = robot \/ loadingRooms' \/ switchFailed',
           RequestsFit(requests', robot), LoadsFit(requests, robot) => LoadsFit(requests', robot)
    PROVE  ConsoleInv'
<1>1. /\ UNCHANGED <<stored, robot, room, shown, filter, results>>
      /\ UNCHANGED <<searchMode, loadingRoom, loadingHistory, detour>>
  BY DEF view, search, loading
<1>2. DataOK'
  BY <1>1 DEF ConsoleInv, StateOK, DataOK
<1>3. FlagsOK'
  BY Zenon, <1>1 DEF ConsoleInv, StateOK, FlagsOK
<1>4. ShownIsAsked'
  BY <1>1 DEF ConsoleInv, ShownIsAsked
<1>5. SidebarIsOfAccount'
  BY <1>1 DEF SidebarIsOfAccount
<1>6. QED
  BY <1>1, <1>2, <1>3, <1>4, <1>5 DEF ConsoleInv, StateOK

LEMMA RoomsSafe ==
    ASSUME ConsoleInv, NEW q \in requests, NEW failed \in BOOLEAN, ReceiveRooms(q, failed)
    PROVE  ConsoleInv'
<1>1. /\ q.kind = "rooms" /\ q.robot \in Accounts /\ q.answer \subseteq Rooms
      /\ q.latest => q.robot = robot
  BY AnswerHolds DEF ReceiveRooms
<1>2. /\ roomList' \subseteq Rooms /\ sidebarOf' \in Accounts
      /\ loadingRooms' \in BOOLEAN /\ switchFailed' \in BOOLEAN
      /\ sidebarOf' = robot \/ loadingRooms' \/ switchFailed'
  <2>1. CASE TakesRooms(q)
    <3>1. /\ loadingRooms' = FALSE /\ switchFailed' = failed
          /\ roomList' = IF failed THEN roomList ELSE q.answer
          /\ sidebarOf' = IF failed THEN sidebarOf ELSE q.robot
      BY <2>1 DEF ReceiveRooms
    <3>2. roomList \subseteq Rooms /\ sidebarOf \in Accounts /\ q.robot = robot
      BY <1>1, <2>1 DEF TakesRooms, ConsoleInv, StateOK, DataOK
    <3>3. CASE failed = TRUE
      BY <3>1, <3>2, <3>3
    <3>4. CASE failed = FALSE
      BY <1>1, <3>1, <3>2, <3>4
    <3>5. QED
      BY Zenon, <3>3, <3>4
  <2>2. CASE ~TakesRooms(q)
    <3>1. UNCHANGED <<roomList, sidebarOf, loadingRooms, switchFailed>>
      BY <2>2 DEF ReceiveRooms, sidebar
    <3>2. roomList' \subseteq Rooms /\ sidebarOf' \in Accounts
      BY <3>1 DEF ConsoleInv, StateOK, DataOK
    <3>3. loadingRooms' \in BOOLEAN /\ switchFailed' \in BOOLEAN
      BY Zenon, <3>1 DEF ConsoleInv, StateOK, FlagsOK
    <3>4. sidebarOf' = robot \/ loadingRooms' \/ switchFailed'
      BY <3>1 DEF ConsoleInv, SidebarIsOfAccount
    <3>5. QED
      BY <3>2, <3>3, <3>4
  <2>3. QED
    BY <2>1, <2>2
<1>3. CASE q.room \in roomList' \ {room} /\ Open(q.room, requests \ {q})
  BY <1>2, <1>3, OpenSafe
<1>4. CASE requests' = requests \ {q} /\ UNCHANGED <<stored, view, search, loading, refreshing>>
  <2>1. refreshing' \in BOOLEAN
    BY Zenon, <1>4 DEF ConsoleInv, StateOK, FlagsOK
  <2>2. QED
    BY <1>2, <1>4, <2>1, OneFewerFits, SidebarSafe
<1>5. QED
  BY <1>3, <1>4 DEF ReceiveRooms

LEMMA LoadSafe ==
    ASSUME ConsoleInv, NEW q \in requests, NEW failed \in BOOLEAN, ReceiveLoad(q, failed)
    PROVE  ConsoleInv'
<1>1. /\ q.kind = "load" /\ requests' = requests \ {q}
      /\ UNCHANGED <<stored, robot, room, filter, sidebar, search, loadingHistory, detour,
                      refreshing>>
  BY DEF ReceiveLoad
<1>2. /\ q.answer \in SUBSET Messages /\ IsFiniteSet(q.answer) /\ q.answer \subseteq Asks(q)
      /\ ~detour /\ q.fresh => q.robot = robot
  BY <1>1, AnswerHolds
<1>3. \/ shown' = shown
      \/ OfThisRoom(q) /\ shown' = OnServer(q.answer)
  BY DEF ReceiveLoad
<1>4. shown' \in Seq(Messages)
  <2>1. shown \in Seq(Messages)
    BY DEF ConsoleInv, StateOK, DataOK
  <2>2. OnServer(q.answer) \in Seq(Messages)
    BY <1>2, PagesHold
  <2>3. QED
    BY <1>3, <2>1, <2>2
<1>5. \A m \in ToSet(shown') : RoomOf[m] = room /\ (~detour => robot \in VisibleTo[m])
  <2>1. CASE shown' = shown
    BY <2>1 DEF ConsoleInv, ShownIsAsked
  <2>2. CASE OfThisRoom(q) /\ shown' = OnServer(q.answer)
    <3>1. ToSet(shown') = q.answer
      BY <1>2, <2>2, PagesHold
    <3>2. QED
      BY <1>2, <2>2, <3>1 DEF OfThisRoom, Asks
  <2>3. QED
    BY <1>3, <2>1, <2>2
<1>6. loadingRoom' \in BOOLEAN /\ loadingHistory' \in BOOLEAN /\ filter' \in Filters
  <2>1. loadingRoom' = loadingRoom \/ loadingRoom' = FALSE
    BY DEF ReceiveLoad
  <2>2. loadingRoom' \in BOOLEAN /\ loadingHistory' \in BOOLEAN
    BY Zenon, <1>1, <2>1 DEF ConsoleInv, StateOK, FlagsOK
  <2>3. QED
    BY <1>1, <2>2 DEF ConsoleInv, StateOK, DataOK
<1>7. QED
  BY <1>1, <1>4, <1>5, <1>6, OneFewerFits, ShowSafe

LEMMA SearchSafe ==
    ASSUME ConsoleInv, NEW q \in requests, NEW failed \in BOOLEAN, ReceiveSearch(q, failed)
    PROVE  ConsoleInv'
<1>1. /\ q.kind = "search" /\ requests' = requests \ {q}
      /\ results' = results \/ results' = q.answer
      /\ UNCHANGED <<stored, view, sidebar, searchMode, loading, refreshing>>
  BY DEF ReceiveSearch
<1>2. results' \subseteq Messages
  BY <1>1, AnswerHolds DEF ConsoleInv, StateOK, DataOK
<1>3. /\ searchMode' \in BOOLEAN /\ loadingRoom' \in BOOLEAN /\ loadingHistory' \in BOOLEAN
      /\ refreshing' \in BOOLEAN /\ UNCHANGED detour
  BY Zenon, <1>1 DEF loading, ConsoleInv, StateOK, FlagsOK
<1>4. QED
  BY <1>1, <1>2, <1>3, OneFewerFits, QuietSafe

LEMMA JumpSafe ==
    ASSUME ConsoleInv, NEW q \in requests, NEW failed \in BOOLEAN, ReceiveJump(q, failed)
    PROVE  ConsoleInv'
<1>1. /\ q.kind = "jump" /\ requests' = requests \ {q}
      /\ UNCHANGED <<stored, robot, room, filter, sidebar, search, loading, refreshing>>
      /\ shown' = shown \/ (OfThisRoom(q) /\ shown' = Merged(ToSet(shown) \union q.answer))
  BY DEF ReceiveJump
<1>2. /\ q.answer \in SUBSET Messages /\ IsFiniteSet(q.answer) /\ q.answer \subseteq Asks(q)
      /\ ~detour /\ q.fresh => q.robot = robot
  BY <1>1, AnswerHolds
<1>3. shown \in Seq(Messages)
  BY DEF ConsoleInv, StateOK, DataOK
<1>4. ToSet(shown) \union q.answer \in SUBSET Messages /\ IsFiniteSet(ToSet(shown) \union q.answer)
  BY <1>2, <1>3, ListsHold, FS_Union
<1>5. shown' \in Seq(Messages)
  <2> DEFINE both == ToSet(shown) \union q.answer
  <2>1. Merged(both) \in Seq(both) /\ both \in SUBSET Messages
    BY <1>4, PagesHold
  <2> HIDE DEF both
  <2>2. Merged(both) \in Seq(Messages)
    BY <2>1
  <2>3. QED
    BY <1>1, <1>3, <2>2 DEF both
<1>6. \A m \in ToSet(shown') : RoomOf[m] = room /\ (~detour => robot \in VisibleTo[m])
  <2>1. CASE shown' = shown
    BY <2>1 DEF ConsoleInv, ShownIsAsked
  <2>2. CASE OfThisRoom(q) /\ shown' = Merged(ToSet(shown) \union q.answer)
    <3>1. ToSet(shown') = ToSet(shown) \union q.answer
      BY <1>4, <2>2, PagesHold
    <3>2. QED
      BY <1>2, <2>2, <3>1 DEF OfThisRoom, Asks, ConsoleInv, ShownIsAsked
  <2>3. QED
    BY <1>1, <2>1, <2>2
<1>7. loadingRoom' \in BOOLEAN /\ loadingHistory' \in BOOLEAN /\ UNCHANGED detour
  BY Zenon, <1>1 DEF loading, ConsoleInv, StateOK, FlagsOK
<1>8. filter' \in Filters
  BY <1>1 DEF ConsoleInv, StateOK, DataOK
<1>9. QED
  BY <1>1, <1>5, <1>6, <1>7, <1>8, OneFewerFits, ShowSafe

LEMMA HistorySafe ==
    ASSUME ConsoleInv, NEW q \in requests, NEW failed \in BOOLEAN, ReceiveHistory(q, failed)
    PROVE  ConsoleInv'
<1>1. /\ q.kind = "history" /\ requests' = requests \ {q}
      /\ UNCHANGED <<stored, robot, room, filter, sidebar, search, loadingRoom, detour, refreshing>>
  BY DEF ReceiveHistory
<1>2. /\ q.answer \in SUBSET Messages /\ IsFiniteSet(q.answer) /\ q.answer \subseteq Asks(q)
      /\ ~detour /\ q.fresh => q.robot = robot
  BY <1>1, AnswerHolds
<1>3. shown' = shown \/ (OfThisRoom(q) /\ shown' = OnServer(q.answer) \o shown)
  BY DEF ReceiveHistory
<1>4. /\ shown \in Seq(Messages) /\ OnServer(q.answer) \in Seq(Messages)
      /\ ToSet(OnServer(q.answer)) = q.answer
  BY <1>2, PagesHold DEF ConsoleInv, StateOK, DataOK
<1>5. shown' \in Seq(Messages)
  <2>1. ASSUME NEW page \in Seq(Messages) PROVE page \o shown \in Seq(Messages)
    BY <1>4
  <2>2. QED
    BY <1>3, <1>4, <2>1
<1>6. \A m \in ToSet(shown') : RoomOf[m] = room /\ (~detour => robot \in VisibleTo[m])
  <2>1. CASE shown' = shown
    BY <2>1 DEF ConsoleInv, ShownIsAsked
  <2>2. CASE OfThisRoom(q) /\ shown' = OnServer(q.answer) \o shown
    <3> DEFINE page == OnServer(q.answer)
    <3>1. page \in Seq(Messages) /\ ToSet(page) = q.answer
      BY <1>4
    <3> HIDE DEF page
    <3>2. ToSet(page \o shown) \subseteq ToSet(page) \union ToSet(shown)
      BY <1>4, <3>1 DEF ToSet
    <3>3. ToSet(shown') \subseteq q.answer \union ToSet(shown)
      BY <2>2, <3>1, <3>2 DEF page
    <3>4. QED
      BY <1>2, <2>2, <3>3 DEF OfThisRoom, Asks, ConsoleInv, ShownIsAsked
  <2>3. QED
    BY <1>3, <2>1, <2>2
<1>7. loadingRoom' \in BOOLEAN /\ loadingHistory' \in BOOLEAN /\ filter' \in Filters
  <2>1. loadingHistory' = loadingHistory \/ loadingHistory' = FALSE
    BY DEF ReceiveHistory
  <2>2. loadingRoom' \in BOOLEAN /\ loadingHistory' \in BOOLEAN
    BY Zenon, <1>1, <2>1 DEF ConsoleInv, StateOK, FlagsOK
  <2>3. QED
    BY <1>1, <2>2 DEF ConsoleInv, StateOK, DataOK
<1>8. QED
  BY <1>1, <1>5, <1>6, <1>7, OneFewerFits, ShowSafe

LEMMA PollSafe ==
    ASSUME ConsoleInv, NEW q \in requests, NEW failed \in BOOLEAN, ReceivePoll(q, failed)
    PROVE  ConsoleInv'
<1>1. q.kind = "poll" /\ UNCHANGED <<stored, view, search, loading>>
  BY DEF ReceivePoll
<1>2. q.answer \subseteq Rooms /\ q.robot \in Accounts
  BY <1>1, AnswerHolds
<1>3. /\ roomList' \subseteq Rooms /\ sidebarOf' \in Accounts
      /\ sidebarOf' = robot \/ loadingRooms' \/ switchFailed'
  <2>1. CASE UNCHANGED sidebar
    BY <2>1 DEF sidebar, ConsoleInv, StateOK, DataOK, SidebarIsOfAccount
  <2>2. CASE StillWatched(q) /\ roomList' = q.answer /\ sidebarOf' = q.robot
    BY <1>2, <2>2 DEF StillWatched
  <2>3. QED
    BY <2>1, <2>2 DEF ReceivePoll
<1>4. loadingRooms' \in BOOLEAN /\ switchFailed' \in BOOLEAN /\ refreshing' \in BOOLEAN
  <2>1. /\ loadingRooms' = loadingRooms
        /\ switchFailed' = switchFailed \/ switchFailed' = FALSE
        /\ refreshing' = refreshing \/ refreshing' = FALSE
    BY DEF ReceivePoll, sidebar
  <2>2. QED
    BY Zenon, <2>1 DEF ConsoleInv, StateOK, FlagsOK
<1>5. RequestsFit(requests', robot) /\ (LoadsFit(requests, robot) => LoadsFit(requests', robot))
  <2>1. CASE requests' = requests \ {q}
    BY <2>1, OneFewerFits
  <2>2. CASE requests' = (requests \ {q}) \union
                 {Request("latest", robot, room, filter, NoMessage, RefreshLimit)}
    <3>1. /\ "latest" \in Kinds /\ room \in Rooms \union {Nothing} /\ filter \in Filters
          /\ shown \in Seq(Messages)
      BY DEF Kinds, ConsoleInv, StateOK, DataOK
    <3>2. /\ RequestsFit(requests \ {q}, robot)
          /\ LoadsFit(requests, robot) => LoadsFit(requests \ {q}, robot)
      BY SubsetFits DEF ConsoleInv
    <3>3. QED
      BY <2>2, <3>1, <3>2, AskedFits, RefreshLimits
  <2>3. QED
    BY <2>1, <2>2 DEF ReceivePoll
<1>6. QED
  BY <1>1, <1>3, <1>4, <1>5, SidebarSafe

LEMMA LatestSafe ==
    ASSUME ConsoleInv, NEW q \in requests, NEW failed \in BOOLEAN, ReceiveLatest(q, failed)
    PROVE  ConsoleInv'
<1>1. /\ q.kind = "latest" /\ requests' = requests \ {q} /\ refreshing' = FALSE
      /\ UNCHANGED <<stored, robot, room, filter, sidebar, search, loading>>
  BY DEF ReceiveLatest
<1>2. q.answer \in SUBSET Messages /\ IsFiniteSet(q.answer) /\ q.answer \subseteq Asks(q)
  BY <1>1, AnswerHolds
<1>3. /\ shown \in Seq(Messages)
      /\ \A m \in ToSet(shown) : RoomOf[m] = room /\ (~detour => robot \in VisibleTo[m])
  BY DEF ConsoleInv, StateOK, DataOK, ShownIsAsked
<1>4. PICK set : /\ set = q.answer \/ set = ToSet(shown) \union q.answer
                 /\ shown' = shown \/ (robot = q.robot /\ room = q.room /\ shown' = Merged(set))
  BY DEF ReceiveLatest, Refreshed, StillWatched
<1>5. set \in SUBSET Messages /\ IsFiniteSet(set)
  BY <1>2, <1>3, <1>4, ListsHold, FS_Union
<1>6. Merged(set) \in Seq(Messages) /\ ToSet(Merged(set)) = set
  BY <1>5, PagesHold
<1>7. /\ shown' \in Seq(Messages)
      /\ \A m \in ToSet(shown') : RoomOf[m] = room /\ (~detour => robot \in VisibleTo[m])
  <2>1. CASE shown' = shown
    BY <1>3, <2>1
  <2>2. CASE robot = q.robot /\ room = q.room /\ shown' = Merged(set)
    BY <1>2, <1>3, <1>4, <1>6, <2>2 DEF Asks
  <2>3. QED
    BY <1>4, <2>1, <2>2
<1>8. DataOK'
  BY <1>1, <1>7 DEF ConsoleInv, StateOK, DataOK, sidebar, search
<1>9. FlagsOK'
  BY Zenon, <1>1 DEF ConsoleInv, StateOK, FlagsOK, sidebar, search, loading
<1>10. UNCHANGED detour /\ ShownIsAsked'
  BY <1>1, <1>7 DEF loading, ShownIsAsked
<1>11. SidebarIsOfAccount'
  BY <1>1 DEF sidebar, ConsoleInv, SidebarIsOfAccount
<1>12. QED
  BY <1>1, <1>8, <1>9, <1>10, <1>11, OneFewerFits DEF ConsoleInv, StateOK

LEMMA ConsoleStep == ConsoleInv /\ [Next]_vars => ConsoleInv'
<1> SUFFICES ASSUME ConsoleInv, [Next]_vars PROVE ConsoleInv'
  OBVIOUS
<1>1. ASSUME NEW q \in requests, NEW failed \in BOOLEAN, Receive(q, failed) PROVE ConsoleInv'
  BY <1>1, RoomsSafe, LoadSafe, SearchSafe, JumpSafe, HistorySafe, PollSafe, LatestSafe DEF Receive
<1>2. ASSUME NEW kind \in Kinds, Answers(kind) PROVE ConsoleInv'
  BY <1>1, <1>2, ServeSafe DEF Answers, Answered
<1>3. ASSUME NEW q \in requests, Fails(q) PROVE ConsoleInv'
  BY <1>1, <1>3 DEF Fails
<1>4. CASE UNCHANGED vars
  <2>1. UNCHANGED <<stored, view, sidebar, search, loading, refreshing, requests>>
    BY <1>4 DEF vars
  <2>2. QED
    BY <2>1 DEF ConsoleInv, StateOK, DataOK, FlagsOK, ShownIsAsked, SidebarIsOfAccount, view,
                sidebar, search, loading
<1>5. QED
  BY <1>2, <1>3, <1>4, UserSafe, ScrollSafe, RefreshSafe, ArriveSafe DEF Next

\* What is shown, what is awaited and what the sidebar holds agree with the account and
\* the room they were asked for.
THEOREM ConsoleInvariant == Spec => []ConsoleInv
BY ConsoleInit, ConsoleStep, PTL DEF Spec

\* The console's state and the requests in flight have their types.
THEOREM ConsoleTypeCorrect == Spec => []TypeOK
<1>1. ConsoleInv => TypeOK
  <2> SUFFICES ASSUME ConsoleInv PROVE TypeOK
    OBVIOUS
  <2>1. DataOK /\ FlagsOK
    BY DEF ConsoleInv, StateOK
  <2>2. {searchMode, loadingRooms, loadingRoom, loadingHistory, refreshing, switchFailed,
         detour} \subseteq BOOLEAN
    BY Zenon, <2>1 DEF FlagsOK
  <2>3. QED
    BY <2>1, <2>2 DEF TypeOK, DataOK, Filters
<1>2. QED
  BY ConsoleInvariant, <1>1, PTL

\* Only messages of the open room are shown, and in a room opened from the list only
\* those that the account may see, whatever stale answers are still to come.
THEOREM ShownMessagesWereAsked == Spec => []ShownIsAsked
<1>1. ConsoleInv => ShownIsAsked
  BY DEF ConsoleInv
<1>2. QED
  BY ConsoleInvariant, <1>1, PTL

\* The rooms in the sidebar are those of the account above them, but while a switch
\* is under way or after it has failed.
THEOREM SidebarFollowsAccount == Spec => []SidebarIsOfAccount
<1>1. ConsoleInv => SidebarIsOfAccount
  BY DEF ConsoleInv
<1>2. QED
  BY ConsoleInvariant, <1>1, PTL
=============================================================================
