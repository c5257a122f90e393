-------------------------- MODULE OneBotConnection --------------------------
(***************************************************************************)
(* The reverse WebSocket of OneBot adapters (app/ws.py) and the calls the  *)
(* server makes over it (app/services/onebot_rpc_service.py).  A handler   *)
(* per socket reads frames one after another, and reads nothing while it   *)
(* stores a message; beside it run a heartbeat and the background tasks of *)
(* its messages.  A robot has one registered connection, known by an id;   *)
(* whoever registers it anew replaces the old one.                         *)
(***************************************************************************)
EXTENDS Naturals, Sequences, FiniteSets

CONSTANTS
    MaxSockets,  \* bound on the connections adapters open, one after another
    Robots,      \* the accounts (self_id) that may speak on them
    NoRobot,     \* none yet
    MaxFrames,   \* bound on the event frames read from all of them
    MaxTasks,    \* bound on the background tasks at a time
    MaxSilent    \* bound on the peers that hang

ASSUME ConnectionAssumption ==
    NoRobot \notin Robots /\ {MaxSockets, MaxFrames, MaxTasks, MaxSilent} \subseteq Nat

VARIABLES
    phase,       \* what the handler of each socket is doing
    open,        \* is the socket open at both ends?
    silent,      \* has its peer stopped answering?
    frames,      \* event frames read so far
    robot,       \* current_robot_id of the handler
    conn,        \* its connection_id: a position in registered, or 0
    joining,     \* the connection id it is registering, or 0
    replaced,    \* the connection this has replaced and must close, or 0
    registered,  \* every registration so far, in order
    registry,    \* _connections: the connection id of each robot, or 0
    sentOn,      \* the socket each call was sent on and not answered yet
    beat,        \* the heartbeat of each socket
    task,        \* the background tasks of stored messages
    taskConn     \* the connection id that task was given

handler == <<phase, frames, robot, conn, joining, replaced>>
background == <<beat, task, taskConn>>
vars == <<handler, open, silent, registered, registry, sentOn, background>>

-----------------------------------------------------------------------------
Sockets == 1..MaxSockets
Tasks == 1..MaxTasks

\* A call is named for who makes it: the heartbeat of a socket, or a task.
Beat(s) == <<"beat", s>>
Background(t) == <<"task", t>>
Calls == {Beat(s) : s \in Sockets} \union {Background(t) : t \in Tasks}

Active(s) == phase[s] \in {"receive", "register", "store", "unregister"}
SocketOf(c) == registered[c].socket
RobotOf(c) == registered[c].robot

TypeOK ==
    /\ phase \in [Sockets -> {"new", "receive", "register", "store", "unregister",
                              "ended"}]
    /\ open \in [Sockets -> BOOLEAN] /\ silent \in [Sockets -> BOOLEAN]
    /\ frames \in 0..MaxFrames
    /\ robot \in [Sockets -> Robots \union {NoRobot}]
    /\ registered \in Seq([robot : Robots, socket : Sockets])
    /\ conn \in [Sockets -> 0..Len(registered)]
    /\ joining \in [Sockets -> 0..Len(registered)]
    /\ replaced \in [Sockets -> 0..Len(registered)]
    /\ registry \in [Robots -> 0..Len(registered)]
    /\ sentOn \in [Calls -> Sockets \union {NoRobot}]
    /\ beat \in [Sockets -> {"asleep", "waiting", "done"}]
    /\ task \in [Tasks -> {"none", "start", "call", "waiting"}]
    /\ taskConn \in [Tasks -> 0..Len(registered)]

Init ==
    /\ phase = [s \in Sockets |-> "new"]
    /\ open = [s \in Sockets |-> FALSE] /\ silent = [s \in Sockets |-> FALSE]
    /\ frames = 0
    /\ robot = [s \in Sockets |-> NoRobot]
    /\ conn = [s \in Sockets |-> 0]
    /\ joining = [s \in Sockets |-> 0] /\ replaced = [s \in Sockets |-> 0]
    /\ registered = <<>> /\ registry = [r \in Robots |-> 0]
    /\ sentOn = [c \in Calls |-> NoRobot]
    /\ beat = [s \in Sockets |-> "asleep"]
    /\ task = [t \in Tasks |-> "none"] /\ taskConn = [t \in Tasks |-> 0]

-----------------------------------------------------------------------------
(* The peer, and the network *)

Disconnect(s) ==
    /\ open[s]
    /\ open' = [open EXCEPT ![s] = FALSE]
    /\ UNCHANGED <<handler, silent, registered, registry, sentOn, background>>

\* The peer hangs: nothing more comes from it, and the connection stays open.
FallSilent(s) ==
    /\ open[s] /\ ~silent[s]
    /\ Cardinality({t \in Sockets : silent[t]}) < MaxSilent
    /\ silent' = [silent EXCEPT ![s] = TRUE]
    /\ UNCHANGED <<handler, open, registered, registry, sentOn, background>>

-----------------------------------------------------------------------------
(* The handler *)

\* A request without the token is closed with 1008 and never accepted.
Accept(s) ==
    /\ phase[s] = "new" /\ \A t \in 1..(s - 1) : phase[t] # "new"
    /\ \/ /\ phase' = [phase EXCEPT ![s] = "receive"]
          /\ open' = [open EXCEPT ![s] = TRUE]
       \/ /\ phase' = [phase EXCEPT ![s] = "ended"]
          /\ UNCHANGED open
    /\ UNCHANGED <<silent, frames, robot, conn, joining, replaced, registered, registry,
                   sentOn, background>>

Reads(s) == phase[s] = "receive" /\ open[s] /\ ~silent[s]
ReadsEvent(s) == Reads(s) /\ frames < MaxFrames

\* register_connection, up to the release of the lock: an event of a robot that
\* is new to this socket.  An earlier robot of the socket stays registered.
ReceiveNewRobot(s, r) ==
    /\ ReadsEvent(s) /\ robot[s] # r
    /\ frames' = frames + 1
    /\ registered' = Append(registered, [robot |-> r, socket |-> s])
    /\ registry' = [registry EXCEPT ![r] = Len(registered')]
    /\ joining' = [joining EXCEPT ![s] = Len(registered')]
    /\ replaced' = [replaced EXCEPT ![s] = registry[r]]
    /\ phase' = [phase EXCEPT ![s] = "register"]
    /\ UNCHANGED <<open, silent, robot, conn, sentOn, background>>

\* ...then the socket it replaced is closed with 4000, be it the handler's own, and
\* only then the handler takes the new robot and id and the event goes on.
CloseReplaced(s, next) ==
    /\ phase[s] = "register"
    /\ open' = [t \in Sockets |->
                   open[t] /\ ~(replaced[s] # 0 /\ t = SocketOf(replaced[s]))]
    /\ robot' = [robot EXCEPT ![s] = RobotOf(joining[s])]
    /\ conn' = [conn EXCEPT ![s] = joining[s]]
    /\ joining' = [joining EXCEPT ![s] = 0]
    /\ replaced' = [replaced EXCEPT ![s] = 0]
    /\ phase' = [phase EXCEPT ![s] = next]
    /\ UNCHANGED <<silent, frames, registered, registry, sentOn, background>>

IsCurrent(r, c) == registry[r] = c

\* An event of the known robot: a stale connection closes itself with 4000, a
\* message is stored, anything else is dropped.
ReceiveKnownRobot(s, next) ==
    /\ ReadsEvent(s) /\ robot[s] # NoRobot
    /\ frames' = frames + 1
    /\ IF IsCurrent(robot[s], conn[s])
       THEN phase' = [phase EXCEPT ![s] = next] /\ UNCHANGED open
       ELSE open' = [open EXCEPT ![s] = FALSE] /\ UNCHANGED phase
    /\ UNCHANGED <<silent, robot, conn, joining, replaced, registered, registry, sentOn, background>>

\* process_incoming_message: stored, skipped by the policy, or failed and rolled
\* back.  A stored group or forward message starts a background task.
Store(s, starts) ==
    /\ phase[s] = "store"
    /\ phase' = [phase EXCEPT ![s] = "receive"]
    /\ IF starts
       THEN \E t \in Tasks :
               /\ task[t] = "none"
               /\ task' = [task EXCEPT ![t] = "start"]
               /\ taskConn' = [taskConn EXCEPT ![t] = conn[s]]
       ELSE UNCHANGED <<task, taskConn>>
    /\ UNCHANGED <<open, silent, frames, robot, conn, joining, replaced, registered, registry,
                   sentOn, beat>>

TasksOf(s) == {t \in Tasks : task[t] # "none" /\ SocketOf(taskConn[t]) = s}

\* receive_json raises once either end has closed the socket; the heartbeat and
\* the tasks are cancelled, and with them the calls they wait for.
EndReceive(s) ==
    /\ phase[s] = "receive" /\ ~open[s]
    /\ phase' = [phase EXCEPT ![s] = "unregister"]
    /\ beat' = [beat EXCEPT ![s] = "done"]
    /\ task' = [t \in Tasks |-> IF t \in TasksOf(s) THEN "none" ELSE task[t]]
    /\ taskConn' = [t \in Tasks |-> IF t \in TasksOf(s) THEN 0 ELSE taskConn[t]]
    /\ UNCHANGED <<open, silent, frames, robot, conn, joining, replaced, registered, registry,
                   sentOn>>

\* Mutant: the robot is unregistered whoever has it now.
UnregisteredAny(s) == IF robot[s] = NoRobot THEN registry ELSE [registry EXCEPT ![robot[s]] = 0]

\* Mutant: the entry is left behind.
UnregisteredNever(s) == registry

\* unregister_connection: only when the id still matches.
Unregistered(s) ==
    IF robot[s] # NoRobot /\ registry[robot[s]] = conn[s]
    THEN [registry EXCEPT ![robot[s]] = 0] ELSE registry

Unregister(s) ==
    /\ phase[s] = "unregister"
    /\ phase' = [phase EXCEPT ![s] = "ended"]
    /\ silent' = [silent EXCEPT ![s] = FALSE]
    /\ registry' = Unregistered(s)
    /\ robot' = [robot EXCEPT ![s] = NoRobot] /\ conn' = [conn EXCEPT ![s] = 0]
    /\ sentOn' = [c \in Calls |-> IF sentOn[c] = s THEN NoRobot ELSE sentOn[c]]
    /\ UNCHANGED <<open, frames, joining, replaced, registered, background>>

-----------------------------------------------------------------------------
(* call_action *)

\* Mutant: the id of the connection is not compared.
FindsAny(r, c) == registry[r] # 0

\* The registered connection, which must be the one asked for.
Finds(r, c) == registry[r] # 0 /\ registry[r] = c

\* The frame is sent over the registered socket; a closed one raises.
CanSend(r) == registry[r] # 0 /\ open[SocketOf(registry[r])]

Send(call, r) == sentOn' = [sentOn EXCEPT ![call] = SocketOf(registry[r])]

-----------------------------------------------------------------------------
(* The heartbeat *)

SetBeat(s, state) ==
    /\ beat' = [beat EXCEPT ![s] = state]
    /\ UNCHANGED <<task, taskConn>>

BeatCalls(s) ==
    /\ Active(s) /\ beat[s] = "asleep" /\ robot[s] # NoRobot
    /\ Finds(robot[s], conn[s]) /\ CanSend(robot[s])
    /\ Send(Beat(s), robot[s])
    /\ SetBeat(s, "waiting")
    /\ UNCHANGED <<handler, open, silent, registered, registry>>

\* Mutant: a heartbeat that fails leaves the socket open.
LeftOpen(s) == open

\* close(4001), after a timeout and after any other failure.
ClosedByBeat(s) == [open EXCEPT ![s] = FALSE]

\* The answer has not come in time, or has come and nobody has read it.
BeatFails(s) ==
    /\ \/ beat[s] = "waiting"
       \/ /\ Active(s) /\ beat[s] = "asleep" /\ robot[s] # NoRobot
          /\ ~(Finds(robot[s], conn[s]) /\ CanSend(robot[s]))
    /\ open' = ClosedByBeat(s)
    /\ SetBeat(s, "done")
    /\ UNCHANGED <<handler, silent, registered, registry, sentOn>>

-----------------------------------------------------------------------------
(* _hydrate_group_profile, _hydrate_forward_payloads *)

SetTask(t, state) ==
    /\ task' = [task EXCEPT ![t] = state]
    /\ taskConn' = IF state = "none" THEN [taskConn EXCEPT ![t] = 0] ELSE taskConn
    /\ UNCHANGED beat

TaskRobot(t) == RobotOf(taskConn[t])

TaskStart(t) ==
    /\ task[t] = "start"
    /\ SetTask(t, IF IsCurrent(TaskRobot(t), taskConn[t]) THEN "call" ELSE "none")
    /\ UNCHANGED <<handler, open, silent, registered, registry, sentOn>>

TaskCalls(t) ==
    /\ task[t] = "call"
    /\ Finds(TaskRobot(t), taskConn[t]) /\ CanSend(TaskRobot(t))
    /\ Send(Background(t), TaskRobot(t))
    /\ SetTask(t, "waiting")
    /\ UNCHANGED <<handler, open, silent, registered, registry>>

\* The row is complete already, the policy refuses, the connection is gone, or the
\* call has timed out.
TaskGivesUp(t) ==
    /\ task[t] \in {"call", "waiting"}
    /\ SetTask(t, "none")
    /\ UNCHANGED <<handler, open, silent, registered, registry, sentOn>>

-----------------------------------------------------------------------------
(* resolve_response *)

\* The handler reads an answer: whoever still waits for it goes on.  A late one
\* matches no call, and is no message either.
ReceiveAnswer(s) ==
    /\ Reads(s)
    /\ \E c \in Calls :
          /\ sentOn[c] = s
          /\ sentOn' = [sentOn EXCEPT ![c] = NoRobot]
          /\ beat' = [b \in Sockets |-> IF c = Beat(b) /\ beat[b] = "waiting"
                                        THEN "asleep" ELSE beat[b]]
          /\ task' = [t \in Tasks |-> IF c = Background(t) /\ task[t] = "waiting"
                                      THEN "none" ELSE task[t]]
          /\ taskConn' = [t \in Tasks |-> IF task'[t] = "none" THEN 0 ELSE taskConn[t]]
    /\ UNCHANGED <<handler, open, silent, registered, registry>>

-----------------------------------------------------------------------------
Handler(s) ==
    \/ Accept(s) \/ ReceiveAnswer(s)
    \/ \E r \in Robots : ReceiveNewRobot(s, r)
    \/ \E next \in {"receive", "store"} : ReceiveKnownRobot(s, next)

\* What a handler does by itself.
HandlerStep(s) ==
    \/ \E next \in {"receive", "store"} : CloseReplaced(s, next)
    \/ \E starts \in BOOLEAN : Store(s, starts)
    \/ EndReceive(s) \/ Unregister(s)

BeatStep(s) == BeatCalls(s) \/ BeatFails(s)

TaskStep(t) == TaskStart(t) \/ TaskCalls(t) \/ TaskGivesUp(t)

Next ==
    \/ \E s \in Sockets :
          Disconnect(s) \/ FallSilent(s) \/ Handler(s) \/ HandlerStep(s) \/ BeatStep(s)
    \/ \E t \in Tasks : TaskStep(t)

Spec == Init /\ [][Next]_vars

\* The event loop runs every handler, heartbeat and task that is not waiting, and
\* wait_for ends every wait; a peer owes nothing.
FairSpec ==
    /\ Spec
    /\ \A s \in Sockets : WF_vars(HandlerStep(s)) /\ WF_vars(BeatStep(s))
    /\ \A t \in Tasks : WF_vars(TaskStep(t))

-----------------------------------------------------------------------------
(* Properties *)

\* A handler that is running is the registered connection of its robot, unless
\* somebody has registered the robot after it: the end of a connection that was
\* replaced never unregisters its successor (onebot_rpc_service.py:59-79).
NewestIsRegistered ==
    \A s \in Sockets :
        Active(s) /\ robot[s] # NoRobot =>
            \/ registry[robot[s]] = conn[s]
            \/ \E c \in DOMAIN registered : c > conn[s] /\ RobotOf(c) = robot[s]

\* A robot is registered to a handler that has ended only when the socket had gone
\* on to speak for another robot (ws.py:297-299, 385-386); otherwise calls for the
\* robot are refused as soon as its connection is gone.
EndedAreUnregistered ==
    \A r \in Robots :
        registry[r] # 0 /\ phase[SocketOf(registry[r])] = "ended" =>
            \E c \in DOMAIN registered :
                c > registry[r] /\ SocketOf(c) = SocketOf(registry[r])

\* What a background task or a heartbeat asks is asked over the connection it was
\* started for, never over the one that has replaced it in the meantime.
CallsKeepTheirConnection ==
    /\ \A s \in Sockets : sentOn[Beat(s)] \in {s, NoRobot}
    /\ \A t \in Tasks :
          task[t] = "waiting" =>
              sentOn[Background(t)] \in {SocketOf(taskConn[t]), NoRobot}

\* A handler whose peer hangs, or whose robot was registered by somebody else, ends
\* (ws.py:70-110, 305-311); no answer of the peer is needed for it.
LostConnectionsEnd ==
    \A s \in Sockets :
        Active(s) /\ robot[s] # NoRobot /\ (silent[s] \/ registry[robot[s]] # conn[s])
            ~> phase[s] = "ended"
=============================================================================
