---------------------------- MODULE OneBotProofs ----------------------------
(***************************************************************************)
(* Theorems about the connections of OneBot adapters, for any number of    *)
(* sockets, robots, frames and background tasks.                           *)
(*                                                                         *)
(* The inductive invariant says whose each connection id is: the id a      *)
(* handler holds or is registering was registered for its socket, is the   *)
(* last one of its socket, and is in the registry unless its robot was     *)
(* registered again later.                                                 *)
(***************************************************************************)
EXTENDS OneBotConnection, SequenceTheorems, TLAPS

Ids == 1..Len(registered)

\* The id is in the registry, or somebody has registered its robot after it.
NewestIn(ids, map, c) ==
    \/ map[ids[c].robot] = c
    \/ \E d \in 1..Len(ids) : d > c /\ ids[d].robot = ids[c].robot

Newest(c) == NewestIn(registered, registry, c)

RegistryInv == \A r \in Robots : registry[r] # 0 => RobotOf(registry[r]) = r

\* The last id of the socket, once its handler has taken or is taking one.
Last(s) == IF phase[s] = "register" THEN joining[s] ELSE conn[s]

HandlerInv(s) ==
    /\ phase[s] = "new" => conn[s] = 0
    /\ phase[s] = "store" => conn[s] # 0
    /\ phase[s] = "register" <=> joining[s] # 0
    /\ robot[s] # NoRobot => conn[s] # 0
    /\ conn[s] # 0 => SocketOf(conn[s]) = s /\ RobotOf(conn[s]) = robot[s]
    /\ joining[s] # 0 => SocketOf(joining[s]) = s /\ Newest(joining[s])
    /\ conn[s] # 0 /\ Active(s) => Newest(conn[s])
    /\ phase[s] # "ended" => \A c \in Ids : SocketOf(c) = s => c <= Last(s)

TaskInv == \A t \in Tasks : task[t] # "none" => taskConn[t] # 0

ConnectionInv ==
    /\ RegistryInv
    /\ \A s \in Sockets : HandlerInv(s)
    /\ TaskInv
    /\ EndedAreUnregistered
    /\ CallsKeepTheirConnection

-----------------------------------------------------------------------------
(* Registrations *)

\* A registration appends one id and leaves the earlier ones alone.
LEMMA Registered ==
    ASSUME TypeOK, NEW s \in Sockets, NEW r \in Robots, ReceiveNewRobot(s, r)
    PROVE  /\ registered' \in Seq([robot : Robots, socket : Sockets])
           /\ Len(registered) \in Nat /\ Len(registered') = Len(registered) + 1
           /\ \A c \in Ids : registered'[c] = registered[c]
           /\ registered'[Len(registered')] = [robot |-> r, socket |-> s]
<1> DEFINE entry == [robot |-> r, socket |-> s]
<1>1. entry \in [robot : Robots, socket : Sockets]
  OBVIOUS
<1>2. registered' = Append(registered, entry)
  BY DEF ReceiveNewRobot
<1>3. registered \in Seq([robot : Robots, socket : Sockets])
  BY DEF TypeOK
<1> HIDE DEF entry
<1>4. QED
  BY <1>1, <1>2, <1>3 DEF Ids, entry

LEMMA IdsAreDomain ==
    ASSUME TypeOK
    PROVE  DOMAIN registered = Ids /\ Len(registered) \in Nat
<1> DEFINE Entries == [robot : Robots, socket : Sockets]
<1>1. registered \in Seq(Entries)
  BY DEF TypeOK
<1> HIDE DEF Entries
<1>2. QED
  BY <1>1 DEF Ids

LEMMA IdTypes ==
    ASSUME TypeOK, NEW c \in Ids
    PROVE  RobotOf(c) \in Robots /\ SocketOf(c) \in Sockets
<1> DEFINE Entries == [robot : Robots, socket : Sockets]
<1>1. registered \in Seq(Entries) /\ c \in 1..Len(registered)
  BY DEF TypeOK, Ids
<1> HIDE DEF Entries
<1>2. registered[c] \in Entries
  BY <1>1, ElementOfSeq
<1>3. QED
  BY <1>2 DEF RobotOf, SocketOf, Entries

\* What a handler holds for an id is 0 or an id.
LEMMA HeldIds ==
    ASSUME TypeOK, NEW s \in Sockets
    PROVE  conn[s] \in Ids \union {0} /\ joining[s] \in Ids \union {0}
<1>1. conn[s] \in 0..Len(registered) /\ joining[s] \in 0..Len(registered)
  BY DEF TypeOK
<1>2. Len(registered) \in Nat
  BY IdsAreDomain
<1>3. QED
  BY <1>1, <1>2 DEF Ids

\* The socket a call is sent on.
LEMMA Sendable ==
    ASSUME TypeOK, NEW r \in Robots, CanSend(r)
    PROVE  registry[r] \in Ids /\ SocketOf(registry[r]) \in Sockets
<1>1. registry[r] \in Ids
  BY DEF TypeOK, CanSend, Ids
<1>2. QED
  BY <1>1, IdTypes

-----------------------------------------------------------------------------
(* Types *)

LEMMA FrameBound == MaxFrames \in Nat
BY ConnectionAssumption

LEMMA HandlerTypes ==
    ASSUME TypeOK, NEW s \in Sockets, phase[s] = "register" => joining[s] # 0,
           \/ Accept(s)
           \/ \E next \in {"receive", "store"} : ReceiveKnownRobot(s, next)
           \/ \E next \in {"receive", "store"} : CloseReplaced(s, next)
           \/ \E starts \in BOOLEAN : Store(s, starts)
           \/ EndReceive(s) \/ Unregister(s)
    PROVE  TypeOK'
<1> USE DEF TypeOK, handler, background
<1>1. CASE Accept(s)
  BY <1>1 DEF Accept
<1>2. CASE \E next \in {"receive", "store"} : ReceiveKnownRobot(s, next)
  <2>1. frames' \in 0..MaxFrames
    BY <1>2, FrameBound DEF ReceiveKnownRobot, ReadsEvent
  <2>2. /\ phase' \in [Sockets -> {"new", "receive", "register", "store", "unregister",
                                   "ended"}]
        /\ open' \in [Sockets -> BOOLEAN]
    BY <1>2 DEF ReceiveKnownRobot
  <2>3. QED
    BY <1>2, <2>1, <2>2 DEF ReceiveKnownRobot
<1>3. CASE \E next \in {"receive", "store"} : CloseReplaced(s, next)
  <2>1. joining[s] \in Ids
    BY <1>3 DEF CloseReplaced, Ids
  <2>2. robot' \in [Sockets -> Robots \union {NoRobot}]
    BY <1>3, <2>1, IdTypes DEF CloseReplaced
  <2>3. open' \in [Sockets -> BOOLEAN] /\ conn' \in [Sockets -> 0..Len(registered)]
    BY <1>3 DEF CloseReplaced
  <2>4. QED
    BY <1>3, <2>2, <2>3 DEF CloseReplaced
<1>4. ASSUME NEW starts \in BOOLEAN, Store(s, starts) PROVE TypeOK'
  <2>1. /\ task' \in [Tasks -> {"none", "start", "call", "waiting"}]
        /\ taskConn' \in [Tasks -> 0..Len(registered)]
    BY <1>4 DEF Store
  <2>2. phase' \in [Sockets -> {"new", "receive", "register", "store", "unregister",
                                "ended"}]
    BY <1>4 DEF Store
  <2>3. UNCHANGED <<open, silent, frames, robot, conn, joining, replaced, registered,
                    registry, sentOn, beat>>
    BY <1>4 DEF Store
  <2>4. QED
    BY <2>1, <2>2, <2>3
<1>5. CASE EndReceive(s)
  BY <1>5 DEF EndReceive
<1>6. CASE Unregister(s)
  <2>1. registry' \in [Robots -> 0..Len(registered)]
    BY <1>6 DEF Unregister, Unregistered
  <2>2. QED
    BY <1>6, <2>1 DEF Unregister
<1>7. QED
  BY <1>1, <1>2, <1>3, <1>4, <1>5, <1>6

LEMMA RegisterTypes ==
    ASSUME TypeOK, NEW s \in Sockets, NEW r \in Robots, ReceiveNewRobot(s, r)
    PROVE  TypeOK'
<1>1. registered' \in Seq([robot : Robots, socket : Sockets])
      /\ Len(registered) \in Nat /\ Len(registered') = Len(registered) + 1
  BY Registered
<1> DEFINE n == Len(registered)
<1>2. n \in Nat /\ Len(registered') = n + 1
  BY <1>1
<1> HIDE DEF n
<1>3. frames' \in 0..MaxFrames
  BY FrameBound DEF TypeOK, ReceiveNewRobot, ReadsEvent
<1>4. /\ registry' \in [Robots -> 0..Len(registered')]
      /\ joining' \in [Sockets -> 0..Len(registered')]
  BY <1>2 DEF TypeOK, ReceiveNewRobot, n
<1>5. /\ conn' \in [Sockets -> 0..Len(registered')]
      /\ replaced' \in [Sockets -> 0..Len(registered')]
      /\ taskConn' \in [Tasks -> 0..Len(registered')]
  BY <1>2 DEF TypeOK, ReceiveNewRobot, background, n
<1>6. phase' \in [Sockets -> {"new", "receive", "register", "store", "unregister", "ended"}]
  BY DEF TypeOK, ReceiveNewRobot
<1>7. QED
  BY <1>1, <1>3, <1>4, <1>5, <1>6 DEF TypeOK, ReceiveNewRobot, background

LEMMA OtherTypes ==
    ASSUME TypeOK, TaskInv,
           \/ \E s \in Sockets : Disconnect(s) \/ FallSilent(s) \/ ReceiveAnswer(s) \/ BeatStep(s)
           \/ \E t \in Tasks : TaskStep(t)
    PROVE  TypeOK'
<1> USE DEF TypeOK, handler, background
<1>1. ASSUME NEW s \in Sockets, Disconnect(s) \/ FallSilent(s) PROVE TypeOK'
  BY <1>1 DEF Disconnect, FallSilent
<1>2. ASSUME NEW s \in Sockets, ReceiveAnswer(s) PROVE TypeOK'
  BY <1>2 DEF ReceiveAnswer
<1>3. ASSUME NEW s \in Sockets, BeatCalls(s) PROVE TypeOK'
  <2>1. SocketOf(registry[robot[s]]) \in Sockets
    BY <1>3, Sendable DEF BeatCalls
  <2>2. sentOn' \in [Calls -> Sockets \union {NoRobot}]
    BY <1>3, <2>1 DEF BeatCalls, Send
  <2>3. QED
    BY <1>3, <2>2 DEF BeatCalls, SetBeat
<1>4. ASSUME NEW s \in Sockets, BeatFails(s) PROVE TypeOK'
  BY <1>4 DEF BeatFails, SetBeat, ClosedByBeat
<1>5. ASSUME NEW t \in Tasks, TaskStart(t) \/ TaskGivesUp(t) PROVE TypeOK'
  <2>1. PICK state \in {"call", "none"} : SetTask(t, state)
    BY <1>5 DEF TaskStart, TaskGivesUp
  <2>2. task' \in [Tasks -> {"none", "start", "call", "waiting"}]
    BY <2>1 DEF SetTask
  <2>3. taskConn' \in [Tasks -> 0..Len(registered)] /\ beat' = beat
    BY <2>1 DEF SetTask
  <2>4. UNCHANGED <<handler, open, silent, registered, registry, sentOn>>
    BY <1>5 DEF TaskStart, TaskGivesUp
  <2>5. QED
    BY <2>2, <2>3, <2>4
<1>6. ASSUME NEW t \in Tasks, taskConn[t] # 0, TaskCalls(t) PROVE TypeOK'
  <2>1. TaskRobot(t) \in Robots
    BY <1>6, IdTypes DEF Ids, TaskRobot
  <2>2. SocketOf(registry[TaskRobot(t)]) \in Sockets
    BY <1>6, <2>1, Sendable DEF TaskCalls
  <2>3. sentOn' \in [Calls -> Sockets \union {NoRobot}]
    BY <1>6, <2>2 DEF TaskCalls, Send
  <2>4. QED
    BY <1>6, <2>3 DEF TaskCalls, SetTask
<1>7. QED
  BY <1>1, <1>2, <1>3, <1>4, <1>5, <1>6 DEF BeatStep, TaskStep, TaskInv, TaskCalls

LEMMA ConnectionTypeStep == TypeOK /\ ConnectionInv /\ [Next]_vars => TypeOK'
<1> SUFFICES ASSUME TypeOK, ConnectionInv, [Next]_vars PROVE TypeOK'
  OBVIOUS
<1>1. CASE UNCHANGED vars
  BY <1>1 DEF TypeOK, vars, handler, background
<1>2. CASE Next
  <2>1. TaskInv /\ \A s \in Sockets : phase[s] = "register" => joining[s] # 0
    BY DEF ConnectionInv, HandlerInv
  <2>2. QED
    BY <1>2, <2>1, HandlerTypes, RegisterTypes, OtherTypes DEF Next, Handler, HandlerStep
<1>3. QED
  BY <1>1, <1>2

-----------------------------------------------------------------------------
(* Steps that do not touch the registrations *)

\* An id that is newest stays so when nothing is registered or unregistered.
LEMMA SameHandlers ==
    ASSUME TypeOK, ConnectionInv,
           UNCHANGED <<robot, conn, joining, registered, registry>>,
           \A s \in Sockets :
               /\ phase'[s] = "new" => phase[s] = "new"
               /\ phase'[s] = "store" => conn[s] # 0
               /\ phase'[s] = "register" <=> phase[s] = "register"
               /\ phase[s] = "ended" => phase'[s] = "ended"
               /\ phase'[s] = "ended" => phase[s] \in {"new", "ended"}
               /\ phase[s] = "new" => phase'[s] \in {"new", "receive", "ended"}
    PROVE  RegistryInv' /\ (\A s \in Sockets : HandlerInv(s)')
<1>1. \A c : RobotOf(c)' = RobotOf(c) /\ SocketOf(c)' = SocketOf(c) /\ Newest(c)' = Newest(c)
  BY DEF RobotOf, SocketOf, Newest
<1>2. RegistryInv'
  BY <1>1 DEF ConnectionInv, RegistryInv
<1>3. ASSUME NEW s \in Sockets PROVE HandlerInv(s)'
  <2>1. HandlerInv(s)
    BY DEF ConnectionInv
  <2>2. Ids' = Ids /\ Last(s)' = Last(s)
    BY DEF Ids, Last
  <2>3. conn[s] # 0 /\ Active(s)' => Active(s)
    BY <2>1 DEF HandlerInv, Active, TypeOK
  <2>4. QED
    BY <1>1, <2>1, <2>2, <2>3 DEF HandlerInv
<1>4. QED
  BY <1>2, <1>3

LEMMA SameEnded ==
    ASSUME TypeOK, ConnectionInv, UNCHANGED <<registered, registry>>,
           \A s \in Sockets : phase'[s] = "ended" => phase[s] \in {"new", "ended"}
    PROVE  EndedAreUnregistered'
<1> SUFFICES ASSUME NEW r \in Robots, registry[r] # 0, phase'[SocketOf(registry[r])] = "ended"
             PROVE  \E c \in DOMAIN registered :
                       c > registry[r] /\ SocketOf(c) = SocketOf(registry[r])
  BY DEF EndedAreUnregistered, SocketOf
<1> DEFINE s == SocketOf(registry[r])
<1>1. registry[r] \in Ids
  BY DEF TypeOK, Ids
<1>2. s \in Sockets
  BY <1>1, IdTypes
<1>3. phase[s] # "new"
  <2>1. HandlerInv(s)
    BY <1>2 DEF ConnectionInv
  <2>2. phase[s] = "new" => registry[r] <= 0
    BY <1>1, <2>1 DEF HandlerInv, Last
  <2>3. QED
    BY <1>1, <2>2 DEF Ids
<1>4. phase[s] = "ended"
  BY <1>2, <1>3
<1>5. QED
  BY <1>4 DEF ConnectionInv, EndedAreUnregistered

-----------------------------------------------------------------------------
(* Calls *)

\* A call that finds its connection is sent on the socket of that connection.
LEMMA BeatIsOwn ==
    ASSUME TypeOK, ConnectionInv, NEW s \in Sockets, BeatCalls(s)
    PROVE  SocketOf(registry[robot[s]]) = s
<1>1. registry[robot[s]] = conn[s] /\ conn[s] # 0
  BY DEF BeatCalls, Finds
<1>2. QED
  BY <1>1 DEF ConnectionInv, HandlerInv

LEMMA CallsStep ==
    ASSUME TypeOK, ConnectionInv,
           \/ \E s \in Sockets :
                 BeatStep(s) \/ ReceiveAnswer(s) \/ EndReceive(s) \/ Unregister(s)
           \/ \E t \in Tasks : TaskStep(t)
           \/ \E s \in Sockets, starts \in BOOLEAN : Store(s, starts)
    PROVE  CallsKeepTheirConnection'
<1> DEFINE Own(t) == task[t] = "waiting" => sentOn[Background(t)] \in {SocketOf(taskConn[t]), NoRobot}
<1>1. /\ \A s \in Sockets : sentOn[Beat(s)] \in {s, NoRobot}
      /\ \A t \in Tasks : Own(t)
  BY DEF ConnectionInv, CallsKeepTheirConnection
<1>2. registered' = registered
  BY DEF BeatStep, BeatCalls, BeatFails, ReceiveAnswer, EndReceive, Unregister, TaskStep,
     TaskStart, TaskCalls, TaskGivesUp, Store
<1>3. \A c : SocketOf(c)' = SocketOf(c)
  BY <1>2 DEF SocketOf
<1>4. ASSUME NEW s \in Sockets, BeatCalls(s) PROVE CallsKeepTheirConnection'
  <2>1. sentOn' = [sentOn EXCEPT ![Beat(s)] = s] /\ UNCHANGED <<task, taskConn>>
    BY <1>4, BeatIsOwn DEF BeatCalls, Send, SetBeat
  <2>2. \A u \in Sockets : sentOn'[Beat(u)] \in {u, NoRobot}
    BY <1>1, <2>1 DEF Beat, TypeOK, Calls
  <2>3. \A t \in Tasks : sentOn'[Background(t)] = sentOn[Background(t)]
    BY <2>1 DEF Beat, Background, TypeOK, Calls
  <2>4. QED
    BY <1>1, <1>3, <2>1, <2>2, <2>3 DEF CallsKeepTheirConnection
<1>5. ASSUME UNCHANGED sentOn,
             \A t \in Tasks : task'[t] = "waiting" => task[t] = "waiting" /\ taskConn'[t] = taskConn[t]
      PROVE  CallsKeepTheirConnection'
  BY <1>1, <1>3, <1>5 DEF CallsKeepTheirConnection
<1>6. ASSUME NEW s \in Sockets, BeatFails(s) PROVE CallsKeepTheirConnection'
  BY <1>5, <1>6 DEF BeatFails, SetBeat
<1>7. ASSUME NEW t \in Tasks, TaskStart(t) \/ TaskGivesUp(t) PROVE CallsKeepTheirConnection'
  <2>1. PICK state \in {"call", "none"} : SetTask(t, state)
    BY <1>7 DEF TaskStart, TaskGivesUp
  <2>2. \A u \in Tasks : task'[u] = "waiting" => task[u] = "waiting" /\ taskConn'[u] = taskConn[u]
    BY <2>1 DEF SetTask, TypeOK
  <2>3. QED
    BY <1>5, <1>7, <2>2 DEF TaskStart, TaskGivesUp
<1>8. ASSUME NEW t \in Tasks, TaskCalls(t) PROVE CallsKeepTheirConnection'
  <2>1. sentOn' = [sentOn EXCEPT ![Background(t)] = SocketOf(taskConn[t])]
    BY <1>8 DEF TaskCalls, Finds, Send
  <2>2. task' = [task EXCEPT ![t] = "waiting"] /\ taskConn' = taskConn
    BY <1>8 DEF TaskCalls, SetTask
  <2>3. \A u \in Sockets : sentOn'[Beat(u)] = sentOn[Beat(u)]
    BY <2>1 DEF Beat, Background, TypeOK, Calls
  <2>4. \A u \in Tasks : u # t => sentOn'[Background(u)] = sentOn[Background(u)]
    BY <2>1 DEF Background, TypeOK, Calls
  <2>5. sentOn'[Background(t)] = SocketOf(taskConn[t])
    BY <2>1 DEF TypeOK, Calls
  <2>6. QED
    BY <1>1, <1>3, <2>2, <2>3, <2>4, <2>5 DEF CallsKeepTheirConnection, TypeOK
<1>9. ASSUME NEW s \in Sockets, ReceiveAnswer(s) PROVE CallsKeepTheirConnection'
  <2>1. \A c \in Calls : sentOn'[c] \in {sentOn[c], NoRobot}
    BY <1>9 DEF ReceiveAnswer, TypeOK
  <2>2. \A t \in Tasks : task'[t] = "waiting" => task[t] = "waiting" /\ taskConn'[t] = taskConn[t]
    BY <1>9 DEF ReceiveAnswer
  <2>3. \A t \in Tasks : Background(t) \in Calls
    BY DEF Calls
  <2>4. \A u \in Sockets : Beat(u) \in Calls
    BY DEF Calls
  <2>5. QED
    BY <1>1, <1>3, <2>1, <2>2, <2>3, <2>4 DEF CallsKeepTheirConnection
<1>10. ASSUME NEW s \in Sockets, EndReceive(s) PROVE CallsKeepTheirConnection'
  <2>1. \A t \in Tasks : task'[t] = "waiting" => task[t] = "waiting" /\ taskConn'[t] = taskConn[t]
    BY <1>10 DEF EndReceive
  <2>2. QED
    BY <1>5, <1>10, <2>1 DEF EndReceive
<1>11. ASSUME NEW s \in Sockets, Unregister(s) PROVE CallsKeepTheirConnection'
  <2>1. \A c \in Calls : sentOn'[c] \in {sentOn[c], NoRobot}
    BY <1>11 DEF Unregister
  <2>2. (\A t \in Tasks : Background(t) \in Calls) /\ (\A u \in Sockets : Beat(u) \in Calls)
    BY DEF Calls
  <2>3. UNCHANGED <<task, taskConn>>
    BY <1>11 DEF Unregister, background
  <2>4. QED
    BY <1>1, <1>3, <2>1, <2>2, <2>3 DEF CallsKeepTheirConnection
<1>12. ASSUME NEW s \in Sockets, NEW starts \in BOOLEAN, Store(s, starts)
       PROVE  CallsKeepTheirConnection'
  <2>1. \A t \in Tasks : task'[t] = "waiting" => task[t] = "waiting" /\ taskConn'[t] = taskConn[t]
    BY <1>12 DEF Store, TypeOK
  <2>2. QED
    BY <1>5, <1>12, <2>1 DEF Store
<1>13. QED
  BY <1>4, <1>6, <1>7, <1>8, <1>9, <1>10, <1>11, <1>12 DEF BeatStep, TaskStep

\* A task that runs was given the id of a connection.
LEMMA TasksStep ==
    ASSUME TypeOK, ConnectionInv,
           \/ \E s \in Sockets :
                 BeatStep(s) \/ ReceiveAnswer(s) \/ EndReceive(s) \/ Unregister(s)
           \/ \E t \in Tasks : TaskStep(t)
           \/ \E s \in Sockets, starts \in BOOLEAN : Store(s, starts)
    PROVE  TaskInv'
<1>1. TaskInv
  BY DEF ConnectionInv
<1>2. ASSUME \A t \in Tasks : task'[t] # "none" => task[t] # "none" /\ taskConn'[t] = taskConn[t]
      PROVE  TaskInv'
  BY <1>1, <1>2 DEF TaskInv
<1>3. ASSUME NEW s \in Sockets, BeatStep(s) \/ Unregister(s) PROVE TaskInv'
  BY <1>2, <1>3 DEF BeatStep, BeatCalls, BeatFails, SetBeat, Unregister, background
<1>4. ASSUME NEW s \in Sockets, ReceiveAnswer(s) PROVE TaskInv'
  BY <1>2, <1>4 DEF ReceiveAnswer
<1>5. ASSUME NEW s \in Sockets, EndReceive(s) PROVE TaskInv'
  BY <1>2, <1>5 DEF EndReceive
<1>6. ASSUME NEW t \in Tasks, TaskStep(t) PROVE TaskInv'
  <2>1. PICK state \in {"call", "none", "waiting"} : task[t] # "none" /\ SetTask(t, state)
    BY <1>6 DEF TaskStep, TaskStart, TaskCalls, TaskGivesUp
  <2>2. QED
    BY <1>2, <2>1 DEF SetTask, TypeOK
<1>7. ASSUME NEW s \in Sockets, NEW starts \in BOOLEAN, Store(s, starts) PROVE TaskInv'
  <2>1. conn[s] # 0
    BY <1>7 DEF Store, ConnectionInv, HandlerInv
  <2>2. QED
    BY <1>1, <1>7, <2>1 DEF Store, TaskInv, TypeOK
<1>8. QED
  BY <1>3, <1>4, <1>5, <1>6, <1>7

-----------------------------------------------------------------------------
(* Registering *)

LEMMA RegisterStep ==
    ASSUME TypeOK, ConnectionInv, NEW s \in Sockets, NEW r \in Robots, ReceiveNewRobot(s, r)
    PROVE  ConnectionInv'
<1>1. PICK n \in Nat : n = Len(registered)
  BY Registered
<1>2. /\ Len(registered') = n + 1
      /\ \A c \in 1..n : registered'[c] = registered[c]
      /\ registered'[n + 1] = [robot |-> r, socket |-> s]
  BY <1>1, Registered DEF Ids
<1>3. /\ registry' = [registry EXCEPT ![r] = n + 1]
      /\ joining' = [joining EXCEPT ![s] = n + 1]
      /\ phase' = [phase EXCEPT ![s] = "register"]
      /\ UNCHANGED <<robot, conn, task, taskConn, sentOn>>
      /\ phase[s] = "receive"
  BY <1>2 DEF ReceiveNewRobot, ReadsEvent, Reads, background
<1>4. \A q \in Robots : registry[q] \in 0..n
  BY <1>1 DEF TypeOK
<1>5. \A t \in Sockets : conn[t] \in 0..n /\ joining[t] \in 0..n
  BY <1>1 DEF TypeOK
<1>6. \A c \in 1..n : registered[c].robot \in Robots /\ registered[c].socket \in Sockets
  BY <1>1, IdTypes DEF Ids, RobotOf, SocketOf
<1>7. \A c \in 1..n : Newest(c) => NewestIn(registered', registry', c)
  <2> SUFFICES ASSUME NEW c \in 1..n, Newest(c) PROVE NewestIn(registered', registry', c)
    OBVIOUS
  <2>1. registered'[c] = registered[c] /\ registered[c].robot \in Robots
    BY <1>2, <1>6
  <2>2. CASE registered[c].robot = r
    BY <1>2, <2>1, <2>2 DEF NewestIn
  <2>3. CASE registered[c].robot # r
    <3>1. registry'[registered[c].robot] = registry[registered[c].robot]
      BY <1>3, <2>1, <2>3 DEF TypeOK
    <3>2. CASE registry[registered[c].robot] = c
      BY <2>1, <3>1, <3>2 DEF NewestIn
    <3>3. CASE \E d \in 1..n : d > c /\ registered[d].robot = registered[c].robot
      BY <1>2, <2>1, <3>3 DEF NewestIn
    <3>4. QED
      BY <1>1, <3>2, <3>3 DEF Newest, NewestIn
  <2>4. QED
    BY <2>2, <2>3
<1>8. NewestIn(registered', registry', n + 1)
  BY <1>2, <1>3 DEF NewestIn, TypeOK
<1>9. RegistryInv'
  <2>1. ASSUME NEW q \in Robots, registry'[q] # 0 PROVE registered'[registry'[q]].robot = q
    <3>1. CASE q = r
      BY <1>2, <1>3, <3>1 DEF TypeOK
    <3>2. CASE q # r
      <4>1. registry'[q] = registry[q] /\ registry[q] \in 1..n
        BY <1>3, <1>4, <2>1, <3>2 DEF TypeOK
      <4>2. QED
        BY <1>2, <4>1 DEF ConnectionInv, RegistryInv, RobotOf
    <3>3. QED
      BY <3>1, <3>2
  <2>2. QED
    BY <2>1 DEF RegistryInv, RobotOf
<1>10. ASSUME NEW t \in Sockets PROVE HandlerInv(t)'
  <2>1. HandlerInv(t) /\ conn[t] \in 0..n /\ joining[t] \in 0..n
    BY <1>5 DEF ConnectionInv
  <2>2. conn'[t] = conn[t] /\ robot'[t] = robot[t]
    BY <1>3
  <2>3. conn[t] # 0 =>
           registered'[conn[t]].socket = t /\ registered'[conn[t]].robot = robot[t]
    BY <1>2, <2>1 DEF HandlerInv, SocketOf, RobotOf
  <2>4. conn[t] # 0 /\ Active(t) => NewestIn(registered', registry', conn[t])
    BY <1>7, <2>1 DEF HandlerInv
  <2>5. CASE t = s
    <3>1. joining'[t] = n + 1 /\ phase'[t] = "register"
      BY <1>3, <2>5 DEF TypeOK
    <3>2. Active(t)
      BY <1>3, <2>5 DEF Active
    <3>3. registered'[n + 1].socket = t
      BY <1>2, <2>5
    <3>4. \A c \in 1..(n + 1) : c <= n + 1
      OBVIOUS
    <3>5. robot[t] # NoRobot => conn[t] # 0
      BY <2>1 DEF HandlerInv
    <3>6. Last(t)' = n + 1 /\ Ids' = 1..(n + 1)
      BY <1>2, <3>1 DEF Last, Ids
    <3>7. QED
      BY <1>8, <2>2, <2>3, <2>4, <3>1, <3>2, <3>3, <3>4, <3>5, <3>6
         DEF HandlerInv, Newest, SocketOf, RobotOf
  <2>6. CASE t # s
    <3>1. phase'[t] = phase[t] /\ joining'[t] = joining[t]
      BY <1>3, <2>6 DEF TypeOK
    <3>2. Last(t)' = Last(t) /\ Active(t)' = Active(t)
      BY <2>2, <3>1 DEF Last, Active
    <3>3. joining[t] # 0 =>
             /\ registered'[joining[t]].socket = t
             /\ NewestIn(registered', registry', joining[t])
      BY <1>2, <1>7, <2>1 DEF HandlerInv, SocketOf
    <3>4. phase[t] # "ended" =>
             \A c \in 1..(n + 1) : registered'[c].socket = t => c <= Last(t)
      BY <1>1, <1>2, <2>1, <2>6 DEF HandlerInv, SocketOf, Ids
    <3>5. Ids' = 1..(n + 1)
      BY <1>2 DEF Ids
    <3>6. QED
      BY <2>1, <2>2, <2>3, <2>4, <3>1, <3>2, <3>3, <3>4, <3>5
         DEF HandlerInv, Newest, SocketOf, RobotOf
  <2>7. QED
    BY <2>5, <2>6
<1>11. TaskInv'
  BY <1>3 DEF ConnectionInv, TaskInv
<1>12. EndedAreUnregistered'
  <2> SUFFICES ASSUME NEW q \in Robots, registry'[q] # 0,
                      phase'[registered'[registry'[q]].socket] = "ended"
               PROVE  \E c \in 1..(n + 1) :
                         /\ c > registry'[q]
                         /\ registered'[c].socket = registered'[registry'[q]].socket
    BY <1>2, Registered DEF EndedAreUnregistered, SocketOf
  <2>1. q # r
    BY <1>2, <1>3 DEF TypeOK
  <2>2. registry'[q] = registry[q] /\ registry[q] \in 1..n
    BY <1>3, <1>4, <2>1 DEF TypeOK
  <2>3. registered'[registry[q]] = registered[registry[q]]
        /\ registered[registry[q]].socket \in Sockets
    BY <1>2, <1>6, <2>2
  <2>4. registry[q] # 0 /\ phase[SocketOf(registry[q])] = "ended"
    BY <1>3, <2>2, <2>3 DEF TypeOK, SocketOf
  <2>5. PICK c \in 1..n : c > registry[q] /\ registered[c].socket = registered[registry[q]].socket
    BY <1>1, <2>4, IdsAreDomain DEF ConnectionInv, EndedAreUnregistered, SocketOf, Ids
  <2>6. QED
    BY <1>2, <2>2, <2>3, <2>5
<1>13. CallsKeepTheirConnection'
  <2>1. \A t \in Tasks : task[t] = "waiting" => registered'[taskConn[t]] = registered[taskConn[t]]
    <3>1. \A t \in Tasks : task[t] = "waiting" => taskConn[t] \in 1..n
      BY <1>1 DEF ConnectionInv, TaskInv, TypeOK
    <3>2. QED
      BY <1>2, <3>1
  <2>2. QED
    BY <1>3, <2>1 DEF ConnectionInv, CallsKeepTheirConnection, SocketOf
<1>14. QED
  BY <1>9, <1>10, <1>11, <1>12, <1>13 DEF ConnectionInv

\* The handler takes the robot and the id it has registered.
LEMMA TakeStep ==
    ASSUME TypeOK, ConnectionInv, NEW s \in Sockets, NEW next \in {"receive", "store"},
           CloseReplaced(s, next)
    PROVE  ConnectionInv'
<1>1. /\ phase[s] = "register" /\ phase' = [phase EXCEPT ![s] = next]
      /\ conn' = [conn EXCEPT ![s] = joining[s]]
      /\ robot' = [robot EXCEPT ![s] = RobotOf(joining[s])]
      /\ joining' = [joining EXCEPT ![s] = 0]
      /\ UNCHANGED <<registered, registry, sentOn, task, taskConn>>
  BY DEF CloseReplaced, background
<1>2. \A c : RobotOf(c)' = RobotOf(c) /\ SocketOf(c)' = SocketOf(c) /\ Newest(c)' = Newest(c)
  BY <1>1 DEF RobotOf, SocketOf, Newest
<1>3. Ids' = Ids
  BY <1>1 DEF Ids
<1>4. RegistryInv' /\ TaskInv' /\ CallsKeepTheirConnection'
  BY <1>1 DEF ConnectionInv, RegistryInv, RobotOf, TaskInv, CallsKeepTheirConnection, SocketOf
<1>5. EndedAreUnregistered'
  BY <1>1, SameEnded DEF TypeOK
<1>6. ASSUME NEW t \in Sockets PROVE HandlerInv(t)'
  <2>1. HandlerInv(t)
    BY DEF ConnectionInv
  <2>2. CASE t = s
    <3>1. /\ phase'[t] = next /\ conn'[t] = joining[t] /\ joining'[t] = 0
          /\ robot'[t] = RobotOf(joining[t])
      BY <1>1, <2>2 DEF TypeOK
    <3>2. joining[t] # 0 /\ SocketOf(joining[t]) = t /\ Newest(joining[t])
      BY <1>1, <2>1, <2>2 DEF HandlerInv
    <3>3. \A c \in Ids : SocketOf(c) = t => c <= joining[t]
      BY <1>1, <2>1, <2>2 DEF HandlerInv, Last
    <3>4. Last(t)' = joining[t]
      BY <3>1 DEF Last
    <3>5. SocketOf(conn[t])' = t /\ RobotOf(conn[t])' = robot'[t] /\ Newest(conn[t])'
      BY <1>1, <3>1, <3>2 DEF SocketOf, RobotOf, Newest
    <3>6. QED
      BY <1>2, <1>3, <3>1, <3>2, <3>3, <3>4, <3>5 DEF HandlerInv
  <2>3. CASE t # s
    <3>1. UNCHANGED <<phase[t], conn[t], robot[t], joining[t]>>
      BY <1>1, <2>3 DEF TypeOK
    <3>2. Last(t)' = Last(t) /\ Active(t)' = Active(t)
      BY <3>1 DEF Last, Active
    <3>3. QED
      BY <1>1, <1>3, <2>1, <3>1, <3>2 DEF HandlerInv, SocketOf, RobotOf, Newest
  <2>4. QED
    BY <2>2, <2>3
<1>7. QED
  BY <1>4, <1>5, <1>6 DEF ConnectionInv

\* The end of a handler removes its own id and nobody else's.
LEMMA UnregisterStep ==
    ASSUME TypeOK, ConnectionInv, NEW s \in Sockets, Unregister(s)
    PROVE  ConnectionInv'
<1>1. /\ phase[s] = "unregister" /\ phase' = [phase EXCEPT ![s] = "ended"]
      /\ robot' = [robot EXCEPT ![s] = NoRobot] /\ conn' = [conn EXCEPT ![s] = 0]
      /\ UNCHANGED <<joining, registered>>
      /\ registry' = Unregistered(s)
  BY DEF Unregister
<1>2. HandlerInv(s) /\ RegistryInv
  BY DEF ConnectionInv
<1>3. ASSUME NEW r \in Robots
      PROVE  \/ registry'[r] = registry[r]
             \/ registry'[r] = 0 /\ registry[r] = conn[s] /\ conn[s] # 0
  BY <1>1, <1>2 DEF Unregistered, HandlerInv, TypeOK
<1>4. CallsKeepTheirConnection' /\ TaskInv'
  BY CallsStep, TasksStep
<1>5. RegistryInv'
  BY <1>1, <1>2, <1>3 DEF RegistryInv, RobotOf
<1>6. ASSUME NEW c \in Ids, Newest(c), SocketOf(c) # s PROVE NewestIn(registered', registry', c)
  <2>1. registered[c].robot \in Robots
    BY IdTypes DEF RobotOf
  <2>2. CASE registry[registered[c].robot] = c
    <3>1. conn[s] # 0 => registry[registered[c].robot] # conn[s]
      BY <1>2, <1>6, <2>2 DEF HandlerInv
    <3>2. registry'[registered[c].robot] = c
      BY <1>3, <2>1, <2>2, <3>1
    <3>3. QED
      BY <1>1, <3>2 DEF NewestIn
  <2>3. CASE \E d \in 1..Len(registered) : d > c /\ registered[d].robot = registered[c].robot
    BY <1>1, <2>3 DEF NewestIn
  <2>4. QED
    BY <1>6, <2>2, <2>3 DEF Newest, NewestIn
<1>7. ASSUME NEW t \in Sockets PROVE HandlerInv(t)'
  <2>1. HandlerInv(t)
    BY DEF ConnectionInv
  <2>2. CASE t = s
    <3>1. phase'[t] = "ended" /\ conn'[t] = 0 /\ robot'[t] = NoRobot /\ joining'[t] = joining[t]
      BY <1>1, <2>2 DEF TypeOK
    <3>2. joining[t] = 0
      BY <1>1, <2>1, <2>2 DEF HandlerInv
    <3>3. QED
      BY <3>1, <3>2 DEF HandlerInv
  <2>3. CASE t # s
    <3>1. UNCHANGED <<phase[t], conn[t], robot[t], joining[t]>>
      BY <1>1, <2>3 DEF TypeOK
    <3>2. Last(t)' = Last(t) /\ Active(t)' = Active(t) /\ Ids' = Ids
      BY <1>1, <3>1 DEF Last, Active, Ids
    <3>3. conn[t] \in Ids \union {0} /\ joining[t] \in Ids \union {0}
      BY HeldIds
    <3>4. conn[t] # 0 /\ Active(t) => NewestIn(registered', registry', conn[t])
      BY <1>6, <2>1, <2>3, <3>3 DEF HandlerInv
    <3>5. joining[t] # 0 => NewestIn(registered', registry', joining[t])
      BY <1>6, <2>1, <2>3, <3>3 DEF HandlerInv
    <3>6. QED
      BY <1>1, <2>1, <3>1, <3>2, <3>4, <3>5 DEF HandlerInv, SocketOf, RobotOf, Newest
  <2>4. QED
    BY <2>2, <2>3
<1>8. EndedAreUnregistered'
  <2> SUFFICES ASSUME NEW r \in Robots, registry'[r] # 0,
                      phase'[SocketOf(registry'[r])] = "ended"
               PROVE  \E c \in Ids : c > registry'[r] /\ SocketOf(c) = SocketOf(registry'[r])
    BY <1>1, IdsAreDomain DEF EndedAreUnregistered, SocketOf
  <2>1. registry'[r] = registry[r] /\ registry[r] \in Ids
    BY <1>3 DEF TypeOK, Ids
  <2>2. CASE SocketOf(registry[r]) # s
    <3>1. phase[SocketOf(registry[r])] = "ended"
      BY <1>1, <2>1, <2>2, IdTypes DEF TypeOK
    <3>2. QED
      BY <2>1, <3>1, IdsAreDomain DEF ConnectionInv, EndedAreUnregistered
  <2>3. CASE SocketOf(registry[r]) = s
    <3>1. registry[r] <= conn[s]
      BY <1>1, <1>2, <2>1, <2>3 DEF HandlerInv, Last
    <3>2. conn[s] \in Ids /\ SocketOf(conn[s]) = s /\ RobotOf(conn[s]) = robot[s]
      <4>1. conn[s] \in Ids \union {0} /\ registry[r] \in Nat /\ registry[r] # 0
        BY <2>1, HeldIds, IdsAreDomain DEF Ids
      <4>2. conn[s] # 0
        BY <3>1, <4>1
      <4>3. QED
        BY <1>2, <4>1, <4>2 DEF HandlerInv
    <3>3. registry[r] # conn[s]
      <4>1. registry[r] = conn[s] => robot[s] = r
        BY <1>2, <2>1, <3>2 DEF RegistryInv
      <4>2. robot[s] = r /\ registry[r] = conn[s] => registry'[r] = 0
        BY <1>1, ConnectionAssumption DEF Unregistered, TypeOK
      <4>3. QED
        BY <4>1, <4>2
    <3>4. conn[s] > registry[r]
      BY <2>1, <3>1, <3>2, <3>3 DEF Ids
    <3>5. QED
      BY <2>1, <2>3, <3>2, <3>4
  <2>4. QED
    BY <2>2, <2>3
<1>9. QED
  BY <1>4, <1>5, <1>7, <1>8 DEF ConnectionInv

-----------------------------------------------------------------------------
(* The invariant *)

LEMMA ConnectionInit == Init => TypeOK /\ ConnectionInv
<1> SUFFICES ASSUME Init PROVE TypeOK /\ ConnectionInv
  OBVIOUS
<1>1. registered = <<>> /\ Len(registered) = 0
  BY DEF Init
<1>2. TypeOK
  <2>1. registered \in Seq([robot : Robots, socket : Sockets])
    BY <1>1
  <2>2. frames \in 0..MaxFrames
    BY FrameBound DEF Init
  <2>3. QED
    BY <1>1, <2>1, <2>2 DEF Init, TypeOK
<1>3. RegistryInv /\ TaskInv /\ EndedAreUnregistered /\ CallsKeepTheirConnection
  <2>1. (\A s \in Sockets : Beat(s) \in Calls) /\ (\A t \in Tasks : Background(t) \in Calls)
    BY DEF Calls
  <2>2. QED
    BY <2>1 DEF Init, RegistryInv, TaskInv, EndedAreUnregistered, CallsKeepTheirConnection
<1>4. \A s \in Sockets : HandlerInv(s)
  BY <1>1 DEF Init, HandlerInv, Ids
<1>5. QED
  BY <1>2, <1>3, <1>4 DEF ConnectionInv

\* The steps that register and unregister nobody.
LEMMA QuietStep ==
    ASSUME TypeOK, ConnectionInv,
           UNCHANGED <<robot, conn, joining, registered, registry>>,
           \A s \in Sockets :
               /\ phase'[s] = "new" => phase[s] = "new"
               /\ phase'[s] = "store" => conn[s] # 0
               /\ phase'[s] = "register" <=> phase[s] = "register"
               /\ phase[s] = "ended" => phase'[s] = "ended"
               /\ phase'[s] = "ended" => phase[s] \in {"new", "ended"}
               /\ phase[s] = "new" => phase'[s] \in {"new", "receive", "ended"},
           TaskInv', CallsKeepTheirConnection'
    PROVE  ConnectionInv'
BY SameHandlers, SameEnded DEF ConnectionInv

\* The handlers stay where they are.
LEMMA StillStep ==
    ASSUME TypeOK, ConnectionInv, UNCHANGED <<phase, robot, conn, joining, registered, registry>>,
           TaskInv', CallsKeepTheirConnection'
    PROVE  ConnectionInv'
<1>1. \A s \in Sockets : phase[s] = "store" => conn[s] # 0
  BY DEF ConnectionInv, HandlerInv
<1>2. QED
  BY <1>1, QuietStep

\* The tasks and the calls stay where they are.
LEMMA SameCalls ==
    ASSUME ConnectionInv, UNCHANGED <<registered, sentOn, task, taskConn>>
    PROVE  TaskInv' /\ CallsKeepTheirConnection'
BY DEF ConnectionInv, TaskInv, CallsKeepTheirConnection, SocketOf

LEMMA HandlerQuiet ==
    ASSUME TypeOK, ConnectionInv, NEW s \in Sockets,
           \/ Accept(s)
           \/ \E next \in {"receive", "store"} : ReceiveKnownRobot(s, next)
           \/ \E starts \in BOOLEAN : Store(s, starts)
           \/ EndReceive(s)
    PROVE  ConnectionInv'
<1>1. \A t \in Sockets : phase[t] = "store" => conn[t] # 0
  BY DEF ConnectionInv, HandlerInv
<1>2. CASE Accept(s)
  <2>1. PICK to \in {"receive", "ended"} : phase' = [phase EXCEPT ![s] = to]
    BY <1>2 DEF Accept
  <2>2. phase[s] = "new" /\ UNCHANGED <<robot, conn, joining, registered, registry>>
    BY <1>2 DEF Accept
  <2>3. TaskInv' /\ CallsKeepTheirConnection'
    BY <1>2, SameCalls DEF Accept, background
  <2>4. QED
    BY <1>1, <2>1, <2>2, <2>3, QuietStep DEF TypeOK
<1>3. ASSUME NEW next \in {"receive", "store"}, ReceiveKnownRobot(s, next) PROVE ConnectionInv'
  <2>1. /\ phase[s] = "receive"
        /\ phase' = [phase EXCEPT ![s] = next] \/ phase' = phase
        /\ UNCHANGED <<robot, conn, joining, registered, registry>>
    BY <1>3 DEF ReceiveKnownRobot, ReadsEvent, Reads
  <2>2. conn[s] # 0
    BY <1>3 DEF ReceiveKnownRobot, ConnectionInv, HandlerInv
  <2>3. TaskInv' /\ CallsKeepTheirConnection'
    BY <1>3, SameCalls DEF ReceiveKnownRobot, background
  <2>4. QED
    BY <1>1, <2>1, <2>2, <2>3, QuietStep DEF TypeOK
<1>4. ASSUME NEW starts \in BOOLEAN, Store(s, starts) PROVE ConnectionInv'
  <2>1. /\ phase[s] = "store" /\ phase' = [phase EXCEPT ![s] = "receive"]
        /\ UNCHANGED <<robot, conn, joining, registered, registry>>
    BY <1>4 DEF Store
  <2>2. TaskInv' /\ CallsKeepTheirConnection'
    BY <1>4, CallsStep, TasksStep
  <2>3. QED
    BY <1>1, <2>1, <2>2, QuietStep DEF TypeOK
<1>5. CASE EndReceive(s)
  <2>1. /\ phase[s] = "receive" /\ phase' = [phase EXCEPT ![s] = "unregister"]
        /\ UNCHANGED <<robot, conn, joining, registered, registry>>
    BY <1>5 DEF EndReceive
  <2>2. TaskInv' /\ CallsKeepTheirConnection'
    BY <1>5, CallsStep, TasksStep
  <2>3. QED
    BY <1>1, <2>1, <2>2, QuietStep DEF TypeOK
<1>6. QED
  BY <1>2, <1>3, <1>4, <1>5

LEMMA ConnectionStep == TypeOK /\ ConnectionInv /\ [Next]_vars => ConnectionInv'
<1> SUFFICES ASSUME TypeOK, ConnectionInv, [Next]_vars PROVE ConnectionInv'
  OBVIOUS
<1>1. CASE UNCHANGED vars
  <2>1. TaskInv' /\ CallsKeepTheirConnection'
    BY <1>1, SameCalls DEF vars, background
  <2>2. QED
    BY <1>1, <2>1, StillStep DEF vars, handler
<1>2. ASSUME NEW s \in Sockets, Disconnect(s) \/ FallSilent(s) PROVE ConnectionInv'
  <2>1. TaskInv' /\ CallsKeepTheirConnection'
    BY <1>2, SameCalls DEF Disconnect, FallSilent, background
  <2>2. QED
    BY <1>2, <2>1, StillStep DEF Disconnect, FallSilent, handler
<1>3. ASSUME NEW s \in Sockets, BeatStep(s) \/ ReceiveAnswer(s) PROVE ConnectionInv'
  <2>1. TaskInv' /\ CallsKeepTheirConnection'
    BY <1>3, CallsStep, TasksStep
  <2>2. UNCHANGED <<handler, registered, registry>>
    BY <1>3 DEF BeatStep, BeatCalls, BeatFails, ReceiveAnswer
  <2>3. QED
    BY <2>1, <2>2, StillStep DEF handler
<1>4. ASSUME NEW t \in Tasks, TaskStep(t) PROVE ConnectionInv'
  <2>1. TaskInv' /\ CallsKeepTheirConnection'
    BY <1>4, CallsStep, TasksStep
  <2>2. UNCHANGED <<handler, registered, registry>>
    BY <1>4 DEF TaskStep, TaskStart, TaskCalls, TaskGivesUp
  <2>3. QED
    BY <2>1, <2>2, StillStep DEF handler
<1>5. CASE Next
  BY <1>2, <1>3, <1>4, <1>5, HandlerQuiet, RegisterStep, TakeStep, UnregisterStep
     DEF Next, Handler, HandlerStep
<1>6. QED
  BY <1>1, <1>5

LEMMA ConnectionInvariant == Spec => [](TypeOK /\ ConnectionInv)
<1>1. Init => TypeOK /\ ConnectionInv
  BY ConnectionInit
<1>2. TypeOK /\ ConnectionInv /\ [Next]_vars => (TypeOK /\ ConnectionInv)'
  BY ConnectionTypeStep, ConnectionStep
<1>3. QED
  BY <1>1, <1>2, PTL DEF Spec

-----------------------------------------------------------------------------
(* Theorems *)

\* The variables keep their types: what the handlers, the heartbeats and the tasks
\* hold for a connection id is 0 or a registration that took place.
THEOREM ConnectionTypeCorrect == Spec => []TypeOK
BY ConnectionInvariant, PTL

\* However connections are opened, replaced and closed, the connection of a running
\* handler is the registered one unless its robot was registered after it: neither
\* unregister_connection nor a late close takes a robot from its newest connection.
THEOREM NewestStaysRegistered == Spec => []NewestIsRegistered
<1>1. TypeOK /\ ConnectionInv => NewestIsRegistered
  <2> SUFFICES ASSUME TypeOK, ConnectionInv, NEW s \in Sockets, Active(s), robot[s] # NoRobot
               PROVE  \/ registry[robot[s]] = conn[s]
                      \/ \E c \in DOMAIN registered : c > conn[s] /\ RobotOf(c) = robot[s]
    BY DEF NewestIsRegistered
  <2>1. RobotOf(conn[s]) = robot[s] /\ Newest(conn[s])
    BY DEF ConnectionInv, HandlerInv
  <2>2. QED
    BY <2>1, IdsAreDomain DEF Newest, NewestIn, RobotOf, Ids
<1>2. QED
  BY <1>1, ConnectionInvariant, PTL

\* A handler that has ended leaves its robot registered only when its socket had
\* gone on to register another one.
THEOREM EndedAreGone == Spec => []EndedAreUnregistered
<1>1. ConnectionInv => EndedAreUnregistered
  BY DEF ConnectionInv
<1>2. QED
  BY <1>1, ConnectionInvariant, PTL

\* A heartbeat or a background task asks over the connection it was started for,
\* however often the robot connects anew while it runs.
THEOREM CallsStayOnTheirConnection == Spec => []CallsKeepTheirConnection
<1>1. ConnectionInv => CallsKeepTheirConnection
  BY DEF ConnectionInv
<1>2. QED
  BY <1>1, ConnectionInvariant, PTL
=============================================================================
