--------------------------- MODULE ConsoleTimeline ---------------------------
(***************************************************************************)
(* The timeline of the web console (app/static/assets/app.js) over the     *)
(* queries of the server (app/services/query_service.py).  The console is  *)
(* one thread: a handler runs until it awaits a request, and whatever the  *)
(* user and the five-second refresh do meanwhile changes the state its     *)
(* answer will meet.  Answers arrive in any order.                         *)
(*                                                                         *)
(* Tokens (roomLoadToken, historyLoadToken, accountLoadToken) are only     *)
(* ever compared with the value a request captured, so a request carries   *)
(* what the comparison will say: fresh for the room's token, latest for    *)
(* its own kind's.                                                         *)
(*                                                                         *)
(* A message is the rank of its msg_hash.  A room is a room_id with its    *)
(* message_type.                                                           *)
(***************************************************************************)
EXTENDS Integers, Sequences, FiniteSets, SequencesExt, FiniteSetsExt

CONSTANTS
    Accounts, Rooms,
    Nothing,       \* no room
    Messages,
    VisibleTo,     \* robot_message_scope: the accounts of each message
    RoomOf, TimeOf, SequenceOf,
    WithMedia,     \* messages the media filter lets pass
    Matching,      \* messages with the keyword
    Early,         \* messages stored when the console is opened
    First,         \* the account it opens with
    PageSize,      \* 50
    MaxPage,       \* 200
    MaxClicks,     \* bound on what the user does, scrolling apart
    MaxInFlight,   \* bound on the requests a click may add to
    MaxFaults      \* bound on the requests that fail

ASSUME TimelineAssumption ==
    /\ Messages \subseteq Nat /\ First \in Accounts /\ Nothing \notin Rooms
    /\ VisibleTo \in [Messages -> SUBSET Accounts] /\ RoomOf \in [Messages -> Rooms]
    /\ TimeOf \in [Messages -> Nat] /\ SequenceOf \in [Messages -> Nat]
    /\ {PageSize, MaxPage, MaxClicks, MaxInFlight, MaxFaults} \subseteq Nat
    /\ PageSize >= 1 /\ MaxPage >= PageSize
    /\ Early \subseteq Messages /\ IsFiniteSet(Early)

VARIABLES
    stored,         \* the messages of the server
    robot, room,    \* currentRobot, currentRoom
    shown,          \* messageList
    filter,         \* mediaStateFilter
    roomList,
    searchMode, results,
    loadingRooms, loadingRoom, loadingHistory,
    refreshing,     \* liveRefreshBusy
    requests,       \* those in flight
    clicks, faults,
    sidebarOf,      \* the account whose rooms roomList holds
    switchFailed,   \* has the last switch failed, and no refresh come since?
    detour          \* has a search result or a switch of account come since
                    \* a room was opened from the list?

view == <<robot, room, shown, filter>>
sidebar == <<roomList, sidebarOf, loadingRooms, switchFailed>>
search == <<searchMode, results>>
loading == <<loadingRoom, loadingHistory, detour>>
bounds == <<clicks, faults>>
vars == <<stored, view, sidebar, search, loading, refreshing, requests, bounds>>

-----------------------------------------------------------------------------
(* The server *)

\* The order of every page: timestamp, coalesce(source_sequence, -1), msg_hash.
ServerBefore(m, n) ==
    \/ TimeOf[m] < TimeOf[n]
    \/ /\ TimeOf[m] = TimeOf[n]
       /\ \/ SequenceOf[m] < SequenceOf[n]
          \/ SequenceOf[m] = SequenceOf[n] /\ m < n

Scope(account) == {m \in stored : account \in VisibleTo[m]}

Filtered(set, f) == IF f = "media" THEN set \intersect WithMedia ELSE set

Conversation(q) == Filtered({m \in Scope(q.robot) : RoomOf[m] = q.room}, q.filter)

Newest(set, n) == {m \in set : Cardinality({k \in set : ServerBefore(m, k)}) < n}

\* Mutant: the cursor is the timestamp alone.
EarlierByTime(set, m) == {k \in set : TimeOf[k] < TimeOf[m]}

Earlier(set, m) == {k \in set : ServerBefore(k, m)}

\* The page that ends at a message, if the account may see it in this room.
Around(q) ==
    IF q.from \in Scope(q.robot) /\ RoomOf[q.from] = q.room
        THEN Newest({m \in Conversation(q) : ~ServerBefore(q.from, m)}, q.limit)
        ELSE {}

RoomsOf(account) == {RoomOf[m] : m \in Scope(account)}

SearchPage(q) == Newest(Filtered(Scope(q.robot) \intersect Matching, q.filter), q.limit)

AnswerTo(q) ==
    CASE q.kind \in {"rooms", "poll"} -> RoomsOf(q.robot)
      [] q.kind \in {"load", "latest"} -> Newest(Conversation(q), q.limit)
      [] q.kind = "history" -> Newest(Earlier(Conversation(q), q.from), q.limit)
      [] q.kind = "jump" -> Around(q)
      [] q.kind = "search" -> SearchPage(q)

Serve(q) ==
    /\ ~q.served
    /\ requests' = (requests \ {q}) \union {[q EXCEPT !.served = TRUE, !.answer = AnswerTo(q)]}
    /\ UNCHANGED <<stored, view, sidebar, search, loading, refreshing, bounds>>

Arrive(m) ==
    /\ m \in Messages \ stored
    /\ stored' = stored \union {m}
    /\ UNCHANGED <<view, sidebar, search, loading, refreshing, requests, bounds>>

-----------------------------------------------------------------------------
(* The console *)

\* What loadMessages and the others put into the address, and what their
\* caller captured before it awaited the answer.
Request(kind, account, r, f, from, limit) ==
    [kind |-> kind, robot |-> account, room |-> r, filter |-> f, from |-> from,
     limit |-> limit, fresh |-> TRUE, latest |-> TRUE, abortable |-> FALSE,
     served |-> FALSE, answer |-> {}]

NoMessage == -1

\* A set of messages in the order that the pairs say.
Place(set, pairs, m) == 1 + Cardinality({k \in set : <<k, m>> \in pairs})
InOrder(set, pairs) ==
    [i \in 1..Cardinality(set) |-> CHOOSE m \in set : Place(set, pairs, m) = i]

OnServer(set) == InOrder(set, {p \in set \X set : ServerBefore(p[1], p[2])})

\* mergeMessages: by msg_hash, and sorted without the sequence number.
ClientBefore(m, n) == TimeOf[m] < TimeOf[n] \/ (TimeOf[m] = TimeOf[n] /\ m < n)
Merged(set) == InOrder(set, {p \in set \X set : ClientBefore(p[1], p[2])})

Superseded(kind) ==
    {IF q.kind = kind THEN [q EXCEPT !.latest = FALSE] ELSE q : q \in requests}

Click ==
    /\ clicks < MaxClicks /\ Cardinality(requests) < MaxInFlight
    /\ clicks' = clicks + 1

\* switchAccount; a link goes on to a room when it has returned.
Switch(account, link) ==
    /\ robot' = account /\ room' = Nothing /\ shown' = <<>>
    /\ searchMode' = FALSE /\ results' = {}
    /\ loadingRooms' = TRUE
    /\ requests' = Superseded("rooms") \union {Request("rooms", account, link, "all", NoMessage, 0)}
    /\ detour' = TRUE
    /\ UNCHANGED <<stored, filter, roomList, sidebarOf, switchFailed, loadingRoom,
                   loadingHistory, refreshing, faults>>

\* selectRoom aborts the load of the room selected before, and bumps the token.
Stale(set) == {[q EXCEPT !.fresh = FALSE] : q \in {q \in set : ~q.abortable}}

Open(r, inFlight) ==
    /\ room' = r /\ shown' = <<>>
    /\ loadingRoom' = TRUE /\ loadingHistory' = FALSE
    /\ requests' = Stale(inFlight) \union
           {[Request("load", robot, r, filter, NoMessage, PageSize) EXCEPT !.abortable = TRUE]}
    /\ detour' = FALSE
    /\ UNCHANGED <<stored, robot, filter, search, refreshing>>

SwitchAccount(account) == Click /\ Switch(account, Nothing)

SelectRoom(r) ==
    /\ Click
    /\ ~loadingRooms /\ r \in roomList /\ r # room
    /\ Open(r, requests)
    /\ UNCHANGED <<sidebar, faults>>

\* restoreRouteState: back, forward, or a link.
FollowLink(account, r) ==
    /\ Click
    /\ \/ robot # account /\ Switch(account, r)
       \/ /\ robot = account /\ r \in roomList /\ r # room
          /\ Open(r, requests)
          /\ UNCHANGED <<sidebar, faults>>

\* Mutant: the token is not compared.
TakesRoomsAlways(q) == TRUE

TakesRooms(q) == q.latest

\* The switch returns as well when it was superseded, and throws when it failed.
ReceiveRooms(q, failed) ==
    /\ q.kind = "rooms"
    /\ IF TakesRooms(q)
           THEN /\ loadingRooms' = FALSE
                /\ switchFailed' = failed
                /\ roomList' = IF failed THEN roomList ELSE q.answer
                /\ sidebarOf' = IF failed THEN sidebarOf ELSE q.robot
           ELSE UNCHANGED sidebar
    /\ IF q.room \in roomList' \ {room} /\ ~(failed /\ TakesRooms(q))
           THEN Open(q.room, requests \ {q})
           ELSE /\ requests' = requests \ {q}
                /\ UNCHANGED <<stored, view, search, loading, refreshing>>

\* reloadCurrentRoom, by its button or after a failure.
Reload ==
    /\ Click
    /\ room # Nothing
    /\ requests' = requests \union {Request("load", robot, room, filter, NoMessage, PageSize)}
    /\ UNCHANGED <<stored, view, sidebar, search, loading, refreshing, faults>>

\* Mutant: only the room is compared.
OfThisRoomAnyLoad(q) == room = q.room

\* The captured token and room are still the current ones.
OfThisRoom(q) == q.fresh /\ room = q.room

ReceiveLoad(q, failed) ==
    /\ q.kind = "load"
    /\ IF OfThisRoom(q)
           THEN /\ shown' = IF failed THEN shown ELSE OnServer(q.answer)
                /\ loadingRoom' = FALSE
           ELSE UNCHANGED <<shown, loadingRoom>>
    /\ requests' = requests \ {q}
    /\ UNCHANGED <<stored, robot, room, filter, sidebar, search, loadingHistory, detour,
                   refreshing>>

\* performSearch, and the search panel.
Search ==
    /\ Click
    /\ searchMode' = TRUE
    /\ requests' = requests \union {Request("search", robot, Nothing, filter, NoMessage, PageSize)}
    /\ UNCHANGED <<stored, view, sidebar, results, loading, refreshing, faults>>

ClearSearch ==
    /\ Click
    /\ searchMode
    /\ searchMode' = FALSE /\ results' = {}
    /\ UNCHANGED <<stored, view, sidebar, loading, refreshing, requests, faults>>

ReceiveSearch(q, failed) ==
    /\ q.kind = "search"
    /\ results' = IF failed THEN results ELSE q.answer
    /\ requests' = requests \ {q}
    /\ UNCHANGED <<stored, view, sidebar, searchMode, loading, refreshing>>

\* selectSearchResult
OpenResult(m) ==
    /\ Click
    /\ searchMode /\ m \in results
    /\ room' = RoomOf[m] /\ shown' = <<m>>
    /\ roomList' = roomList \union {RoomOf[m]}
    /\ detour' = TRUE
    /\ UNCHANGED <<stored, robot, filter, sidebarOf, loadingRooms, switchFailed, search,
                   loadingRoom, loadingHistory, refreshing, requests, faults>>

\* The media filter
Filter(f) ==
    /\ Click
    /\ f # filter
    /\ filter' = f /\ shown' = <<>>
    /\ requests' = requests \union
           IF searchMode THEN {Request("search", robot, Nothing, f, NoMessage, PageSize)}
           ELSE IF room # Nothing THEN {Request("load", robot, room, f, NoMessage, PageSize)}
           ELSE {}
    /\ UNCHANGED <<stored, robot, room, sidebar, search, loading, refreshing, faults>>

\* jumpToReplyMessage
Jump(m) ==
    /\ Click
    /\ room # Nothing /\ shown # <<>> /\ m \notin ToSet(shown) /\ RoomOf[m] = room
    /\ requests' = requests \union {Request("jump", robot, room, filter, m, PageSize)}
    /\ UNCHANGED <<stored, view, sidebar, search, loading, refreshing, faults>>

ReceiveJump(q, failed) ==
    /\ q.kind = "jump"
    /\ shown' = IF ~failed /\ OfThisRoom(q) /\ q.from \in q.answer
                    THEN Merged(ToSet(shown) \union q.answer) ELSE shown
    /\ requests' = requests \ {q}
    /\ UNCHANGED <<stored, robot, room, filter, sidebar, search, loading, refreshing>>

\* handleWindowScroll, at the top of the list
ScrollUp ==
    /\ ~loadingHistory /\ ~loadingRoom /\ shown # <<>>
    /\ loadingHistory' = TRUE
    /\ requests' = Superseded("history")
                       \union {Request("history", robot, room, filter, Head(shown), PageSize)}
    /\ UNCHANGED <<stored, view, sidebar, search, loadingRoom, detour, refreshing, bounds>>

ReceiveHistory(q, failed) ==
    /\ q.kind = "history"
    /\ IF q.latest /\ OfThisRoom(q)
           THEN /\ shown' = IF failed THEN shown ELSE OnServer(q.answer) \o shown
                /\ loadingHistory' = FALSE
           ELSE UNCHANGED <<shown, loadingHistory>>
    /\ requests' = requests \ {q}
    /\ UNCHANGED <<stored, robot, room, filter, sidebar, search, loadingRoom, detour, refreshing>>

-----------------------------------------------------------------------------
(* refreshLiveMessages *)

Refresh ==
    /\ ~refreshing /\ ~loadingRoom
    /\ refreshing' = TRUE
    /\ requests' = requests \union {Request("poll", robot, room, "all", NoMessage, 0)}
    /\ UNCHANGED <<stored, view, sidebar, search, loading, bounds>>

StillWatched(q) == robot = q.robot /\ q.fresh /\ ~loadingRoom

RefreshLimit == Min({MaxPage, Max({PageSize, Len(shown)})})

ReceivePoll(q, failed) ==
    /\ q.kind = "poll"
    /\ IF failed \/ ~StillWatched(q)
           THEN /\ requests' = requests \ {q}
                /\ refreshing' = FALSE
                /\ UNCHANGED sidebar
           ELSE /\ roomList' = q.answer /\ sidebarOf' = q.robot
                /\ switchFailed' = FALSE
                /\ UNCHANGED loadingRooms
                /\ IF room # Nothing /\ room = q.room
                       THEN /\ requests' = (requests \ {q}) \union
                                   {Request("latest", robot, room, filter, NoMessage, RefreshLimit)}
                            /\ UNCHANGED refreshing
                       ELSE /\ requests' = requests \ {q}
                            /\ refreshing' = FALSE
    /\ UNCHANGED <<stored, view, search, loading>>

\* Mutant: what a filter hides stays.
RefreshedMerging(q) == Merged(ToSet(shown) \union q.answer)

\* Under a filter the list is replaced, otherwise added to.
Refreshed(q) == Merged(IF filter = "all" THEN ToSet(shown) \union q.answer ELSE q.answer)

ReceiveLatest(q, failed) ==
    /\ q.kind = "latest"
    /\ shown' = IF failed \/ ~StillWatched(q) \/ room # q.room THEN shown
                ELSE Refreshed(q)
    /\ refreshing' = FALSE
    /\ requests' = requests \ {q}
    /\ UNCHANGED <<stored, robot, room, filter, sidebar, search, loading>>

-----------------------------------------------------------------------------
Receive(q, failed) ==
    \/ ReceiveRooms(q, failed) \/ ReceiveLoad(q, failed) \/ ReceiveSearch(q, failed)
    \/ ReceiveJump(q, failed) \/ ReceiveHistory(q, failed)
    \/ ReceivePoll(q, failed) \/ ReceiveLatest(q, failed)

Answered(q) == q.served /\ Receive(q, FALSE) /\ UNCHANGED bounds

\* requestWithRetry gives up.
Fails(q) ==
    /\ faults < MaxFaults
    /\ faults' = faults + 1
    /\ Receive(q, TRUE)
    /\ UNCHANGED clicks

\* loadAdapters has just opened the first account.
Init ==
    /\ stored = Early
    /\ robot = First /\ room = Nothing /\ shown = <<>> /\ filter = "all"
    /\ roomList = {} /\ sidebarOf = First /\ switchFailed = FALSE
    /\ searchMode = FALSE /\ results = {}
    /\ loadingRooms = TRUE /\ loadingRoom = FALSE /\ loadingHistory = FALSE
    /\ detour = TRUE /\ refreshing = FALSE
    /\ requests = {Request("rooms", First, Nothing, "all", NoMessage, 0)}
    /\ clicks = 0 /\ faults = 0

User ==
    \/ \E a \in Accounts : SwitchAccount(a) \/ \E r \in Rooms : FollowLink(a, r)
    \/ \E r \in Rooms : SelectRoom(r)
    \/ \E m \in Messages : OpenResult(m) \/ Jump(m)
    \/ \E f \in {"all", "media"} : Filter(f)
    \/ Reload \/ Search \/ ClearSearch

Kinds == {"rooms", "load", "search", "jump", "history", "poll", "latest"}

Answers(kind) == \E q \in requests : q.kind = kind /\ (Serve(q) \/ Answered(q))

Next ==
    \/ User \/ ScrollUp \/ Refresh
    \/ \E kind \in Kinds : Answers(kind)
    \/ \E q \in requests : Fails(q)
    \/ \E m \in Messages : Arrive(m)

\* Requests are answered in the end, the timer ticks while the page is
\* visible, and the user who wants the past keeps scrolling.
Fairness ==
    /\ \A kind \in Kinds : WF_vars(Answers(kind))
    /\ WF_vars(Refresh) /\ WF_vars(ScrollUp)

Spec == Init /\ [][Next]_vars
FairSpec == Spec /\ Fairness

-----------------------------------------------------------------------------
(* Properties *)

TypeOK ==
    /\ stored \subseteq Messages
    /\ robot \in Accounts /\ sidebarOf \in Accounts
    /\ room \in Rooms \union {Nothing} /\ roomList \subseteq Rooms
    /\ shown \in Seq(Messages) /\ results \subseteq Messages
    /\ filter \in {"all", "media"}
    /\ {searchMode, loadingRooms, loadingRoom, loadingHistory, refreshing, switchFailed,
        detour} \subseteq BOOLEAN

\* Whichever answers of other rooms and accounts are still on their way, every
\* message shown is one of the open room, and in a room opened from the list one
\* that the open account may see.  (A load of the former account can meet the
\* same room again under a search result: neither bumps the token.)
ShownIsAsked ==
    \A m \in ToSet(shown) : RoomOf[m] = room /\ (~detour => robot \in VisibleTo[m])

\* A sidebar that has stopped loading lists the rooms of the account in its
\* title, unless the switch to it has failed.
SidebarIsOfAccount == sidebarOf = robot \/ loadingRooms \/ switchFailed

\* The skeleton of a room whose load was left for another account or for a search
\* result stays, and live refresh with it.
Stuck == loadingRoom /\ detour

Asked == Request("latest", robot, room, filter, NoMessage, PageSize)

\* Once the user rests, the sidebar and the newest page of the open room are
\* those of the server, and a filter shows nothing else, whatever stale answer
\* came last.
TimelineSettles ==
    <>[](~Stuck => /\ sidebarOf = robot
                   /\ room # Nothing => AnswerTo(Asked) \subseteq ToSet(shown)
                   /\ room # Nothing /\ filter # "all" => ToSet(shown) \subseteq Conversation(Asked))

\* Who keeps scrolling in a room opened from the list comes to its first
\* message, although the server orders messages of one second by their sequence
\* and the refresh sorts them by their hash, as long as no second of the room
\* holds more messages than a page.
HistoryReachesStart ==
    <>[](~detour /\ room # Nothing /\ filter = "all" =>
            \A m \in Conversation(Asked) :
                (\A k \in Conversation(Asked) : ~ServerBefore(k, m)) => m \in ToSet(shown))
=============================================================================
