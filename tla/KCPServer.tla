----------------------------- MODULE KCPServer -----------------------------
(***************************************************************************)
(* The KCP server of net_uv: KCPServer, the sessions it makes, and the     *)
(* sockets that its listening socket accepts.                              *)
(*                                                                         *)
(* The two threads are those of TCPServer.  What differs is below them: a  *)
(* socket is accepted by a SYN and becomes a session only with the ACK, a  *)
(* session ends by a handshake of its own, every datagram comes through    *)
(* the listening socket, and that one closes only when it has no accepted  *)
(* socket left.  The sides of the connection and the datagrams between     *)
(* them are KCPSocket's: here the peers send whatever they like.           *)
(*                                                                         *)
(* Abstracted: addresses and data; a conv is told by its place in the      *)
(* order in which m_convSeed gave them out.                                *)
(***************************************************************************)
EXTENDS Naturals, Sequences, FiniteSets, KCPSession

CONSTANTS
  Api,        \* the calls this application makes
  MaxCalls,   \* bound: calls of a behaviour, startServer included
  MaxConvs,   \* bound: sockets accepted
  Talkers     \* the sessions whose peers send; bound: one RECV_DATA of each
              \* queued at a time

ASSUME BoundsAssumption == MaxCalls \in Nat /\ MaxConvs \in Nat

VARIABLES
  app,           \* the application: "up", "joining" in ~KCPServer, "gone"
  calls,         \* API calls made so far
  start,         \* m_start
  stage,         \* m_serverStage
  timer,         \* m_idle: "new", "ticking", "stopped" (m_start still set)
  loop,          \* uv_run: "none", "running", "stopped" by uv_stop, "ended"
  exiting,       \* a loop thread has left uv_run and not told so yet
  opQue, opDispatch,    \* m_operationQue, m_operationDispatchQue
  msgQue, msgDispatch,  \* m_msgQue, m_msgDispatchQue
  inIdle,        \* the loop thread is inside onIdleRun
  server,        \* m_server: "none", or the state of the listening socket
  convSeed,      \* m_convSeed, from 0
  allSession,    \* the keys of m_allSession
  so,            \* so[v]: the accepted socket with conv v, and its session
  contract       \* what the application was told (history)

appVars  == <<app, calls, start, contract>>
loopVars == <<stage, timer, loop, server, exiting>>
connVars == <<convSeed, allSession, so>>
vars == <<appVars, loopVars, connVars, opQue, opDispatch, msgQue, msgDispatch, inIdle>>

Convs == 0 .. MaxConvs - 1

Stages == {"RUN", "WAIT_CLOSE_SERVER_SOCKET", "WAIT_SESSION_CLOSE", "CLEAR", "STOP"}

\* "none": not accepted yet; "removed": no longer in the manager's list.
AcceptedStates == {"none", "SYN_RECV", "ESTABLISHED", "CLOSE_WAIT", "CLOSED", "removed"}

\* hasConv: m_conv is not 0.
Accepted == [state : AcceptedStates, online : BOOLEAN, isInvalid : BOOLEAN,
             hasConv : BOOLEAN]

SessionOps == {"SEND_DATA", "SEND_CLOSE", "DIS_SESSION", "SEND_DIS_SESSION_MSG"}
Op  == [op : SessionOps, id : Convs] \cup [op : {"STOP_SERVER"}]

SessionMsgs == {"NEW_CONNECT", "RECV_DATA", "DIS_CONNECT"}
Msg == [msg : SessionMsgs, id : Convs] \cup [msg : {"EXIT_LOOP"}]

Contract == [view : [Convs -> {"new", "up", "down"}], closed : BOOLEAN]

TypeOK ==
  /\ app \in {"up", "joining", "gone"}
  /\ calls \in 0 .. MaxCalls
  /\ start \in BOOLEAN /\ inIdle \in BOOLEAN /\ exiting \in BOOLEAN
  /\ stage \in Stages
  /\ timer \in {"new", "ticking", "stopped"}
  /\ loop \in {"none", "running", "stopped", "ended"}
  /\ opQue \in Seq(Op) /\ opDispatch \in Seq(Op)
  /\ msgQue \in Seq(Msg) /\ msgDispatch \in Seq(Msg)
  /\ server \in {"none", "LISTEN", "STOP_LISTEN", "closing", "CLOSED"}
  /\ convSeed \in 0 .. MaxConvs
  /\ allSession \subseteq Convs
  /\ so \in [Convs -> Accepted]
  /\ contract \in Contract

Init ==
  /\ app = "up" /\ calls = 0
  /\ start = FALSE
  /\ stage = "STOP"
  /\ timer = "new"
  /\ loop = "none" /\ exiting = FALSE
  /\ opQue = <<>> /\ opDispatch = <<>>
  /\ msgQue = <<>> /\ msgDispatch = <<>>
  /\ inIdle = FALSE
  /\ server = "none"
  /\ convSeed = 0
  /\ allSession = {}
  /\ so = [v \in Convs |-> [state |-> "none", online |-> FALSE, isInvalid |-> FALSE,
                            hasConv |-> FALSE]]
  /\ contract = [view |-> [v \in Convs |-> "new"], closed |-> FALSE]

\* The messages and the operations still to be worked off, in their order.
MsgsAhead == msgDispatch \o msgQue
OpsAhead  == opDispatch \o opQue

PushOp(o)  == opQue' = Append(opQue, o)
PushMsg(m) == msgQue' = Append(msgQue, m)
SessionMsg(m, v) == [msg |-> m, id |-> v]

-----------------------------------------------------------------------------
\* The application's calls.

Calls(call) == /\ app = "up"
               /\ call \in Api
               /\ calls < MaxCalls
               /\ calls' = calls + 1

\* startServer succeeds: the socket listens and the loop thread starts.  Once
\* only: of a second start see TCPServer, which shares Runnable's timer.
Start ==
  /\ Calls("startServer") /\ loop = "none"
  /\ stage = "STOP" /\ ~start
  /\ start' = TRUE
  /\ stage' = "RUN"
  /\ server' = "LISTEN"
  /\ loop' = "running"
  /\ timer' = "ticking"
  /\ UNCHANGED <<app, contract, exiting, connVars, opQue, opDispatch, msgQue,
                 msgDispatch, inIdle>>

\* stopServer: nothing when the server is not started.
StopServer ==
  IF start THEN start' = FALSE /\ PushOp([op |-> "STOP_SERVER"])
           ELSE UNCHANGED <<start, opQue>>

Stop == /\ Calls("stopServer") /\ start
        /\ StopServer
        /\ UNCHANGED <<app, contract, loopVars, connVars, opDispatch, msgQue,
                       msgDispatch, inIdle>>

\* send, sendAndClose and disconnect of a session the application was told of.
\* Only the sends look at m_start.
Request(call, op, v) ==
  /\ Calls(call)
  /\ contract.view[v] # "new"
  /\ op = "DIS_SESSION" \/ start
  /\ PushOp([op |-> op, id |-> v])
  /\ UNCHANGED <<app, start, contract, loopVars, connVars, opDispatch, msgQue,
                 msgDispatch, inIdle>>

Send(v)         == Request("send", "SEND_DATA", v)
SendAndClose(v) == Request("sendAndClose", "SEND_CLOSE", v)
Disconnect(v)   == Request("disconnect", "DIS_SESSION", v)

\* ~KCPServer: stopServer, then join: the application polls no more.  Not from
\* inside a callback, nor before the server was started.
Destroy == /\ Calls("destroy") /\ loop # "none" /\ msgDispatch = <<>>
           /\ StopServer
           /\ app' = "joining"
           /\ UNCHANGED <<contract, loopVars, connVars, opDispatch, msgQue,
                          msgDispatch, inIdle>>

\* join returns; clearData frees what is left in the queues.
JoinReturns ==
  /\ app = "joining" /\ loop = "ended" /\ ~exiting
  /\ app' = "gone"
  /\ opQue' = <<>> /\ msgQue' = <<>>
  /\ UNCHANGED <<calls, start, contract, loopVars, connVars, opDispatch,
                 msgDispatch, inIdle>>

-----------------------------------------------------------------------------
\* updateFrame.

GetThreadMsg ==
  /\ app = "up"
  /\ msgDispatch = <<>> /\ msgQue # <<>>
  /\ msgDispatch' = msgQue
  /\ msgQue' = <<>>
  /\ UNCHANGED <<appVars, loopVars, connVars, opQue, opDispatch, inIdle>>

\* What a callback tells the application.
Told(m) ==
  CASE m.msg = "EXIT_LOOP"   -> [contract EXCEPT !.closed = TRUE]
    [] m.msg = "NEW_CONNECT" -> [contract EXCEPT !.view[m.id] = "up"]
    [] m.msg = "RECV_DATA"   -> contract
    [] m.msg = "DIS_CONNECT" -> [contract EXCEPT !.view[m.id] = "down"]

\* One turn of the switch: the callback; after DIS_CONNECT the operation that
\* lets the loop thread free the session.
DispatchMsg ==
  /\ app = "up"
  /\ msgDispatch # <<>>
  /\ LET m == Head(msgDispatch) IN
       /\ contract' = Told(m)
       /\ IF m.msg = "DIS_CONNECT"
            THEN PushOp([op |-> "SEND_DIS_SESSION_MSG", id |-> m.id])
            ELSE UNCHANGED opQue
  /\ msgDispatch' = Tail(msgDispatch)
  /\ UNCHANGED <<app, calls, start, loopVars, connVars, opDispatch, msgQue, inIdle>>

-----------------------------------------------------------------------------
\* onIdleRun, first half: executeOperation.

\* The timer fires and the lock is free: the operations are taken over.
OnIdle ==
  /\ loop = "running" /\ timer = "ticking" /\ ~inIdle
  /\ opQue # <<>>
  /\ inIdle' = TRUE
  /\ opDispatch' = opQue
  /\ opQue' = <<>>
  /\ UNCHANGED <<appVars, loopVars, connVars, msgQue, msgDispatch>>

\* The front of the dispatch queue is an operation o; it is popped.
Executes(o) ==
  /\ opDispatch # <<>>
  /\ Head(opDispatch).op = o
  /\ opDispatch' = Tail(opDispatch)
  /\ UNCHANGED <<appVars, timer, loop, exiting, msgQue, msgDispatch, inIdle, convSeed>>

Target == Head(opDispatch).id

\* The accepted sockets in m_allSocket, and those with their ikcp.
Manager == {v \in Convs : so[v].state \notin {"none", "removed"}}
HasKcp(v) == so[v].state \in {"ESTABLISHED", "CLOSE_WAIT"}

Change(v, s) == so' = [so EXCEPT ![v] = s]

ExecSend ==
  /\ Executes("SEND_DATA")
  /\ IF Target \in allSession
       THEN \E s \in AfterSend(so[Target], HasKcp(Target), "CLOSE_WAIT") : Change(Target, s)
       ELSE UNCHANGED so
  /\ UNCHANGED <<stage, server, allSession, opQue>>

\* executeSendAndClose: ikcp takes the data, and the disconnect is queued at
\* once; or the session disconnects now.
ExecSendAndClose ==
  /\ Executes("SEND_CLOSE")
  /\ \/ /\ Target \in allSession /\ so[Target].online /\ HasKcp(Target)
        /\ PushOp([op |-> "DIS_SESSION", id |-> Target])
        /\ UNCHANGED so
     \/ /\ IF Target \in allSession
             THEN Change(Target, ExecuteDisconnect(so[Target], "CLOSE_WAIT"))
             ELSE UNCHANGED so
        /\ UNCHANGED opQue
  /\ UNCHANGED <<stage, server, allSession>>

ExecDisconnect ==
  /\ Executes("DIS_SESSION")
  /\ IF Target \in allSession
       THEN Change(Target, ExecuteDisconnect(so[Target], "CLOSE_WAIT"))
       ELSE UNCHANGED so
  /\ UNCHANGED <<stage, server, allSession, opQue>>

\* The session is freed: the application has been told that it is gone.
ExecDelete ==
  /\ Executes("SEND_DIS_SESSION_MSG")
  /\ allSession' = allSession \ {Target}
  /\ UNCHANGED <<stage, server, so, opQue>>

\* The sessions that are not closed yet are disconnected.
DisconnectValid ==
  [v \in Convs |-> IF v \in allSession /\ ~so[v].isInvalid
                     THEN ExecuteDisconnect(so[v], "CLOSE_WAIT") ELSE so[v]]

\* Mutant: sockets whose handshake is not completed are forgotten.
DisconnectConnected(s) == SocketDisconnect(s, "CLOSE_WAIT")

\* disconnectAll: what is connected says FIN, what is not yet is given up.
DisconnectAccepted(s) ==
  IF s.hasConv /\ s.state = "SYN_RECV" THEN [s EXCEPT !.state = "CLOSED"]
                          ELSE SocketDisconnect(s, "CLOSE_WAIT")

\* STOP_SERVER: the sessions, then the listening socket and its sockets.  (It
\* comes once: the socket listens.)
ExecStopServer ==
  /\ Executes("STOP_SERVER")
  /\ server' = "STOP_LISTEN"
  /\ so' = [v \in Convs |-> DisconnectAccepted(DisconnectValid[v])]
  /\ stage' = "WAIT_CLOSE_SERVER_SOCKET"
  /\ UNCHANGED <<allSession, opQue>>

ExecuteOperation == \/ ExecSend \/ ExecSendAndClose \/ ExecDisconnect
                    \/ ExecDelete \/ ExecStopServer

-----------------------------------------------------------------------------
\* onIdleRun, second half: the stage.  It follows the operations, or the timer
\* fires with nothing queued (or the lock taken) and it is all there is.

AllSessionsGone == allSession = {}

ClearSessions ==
  /\ stage = "CLEAR"
  /\ so' = DisconnectValid
  /\ stage' = "WAIT_SESSION_CLOSE"
  /\ UNCHANGED <<timer, loop, server>>

\* m_server is freed, the timer and the loop are stopped.
StopLoop ==
  /\ stage = "WAIT_SESSION_CLOSE"
  /\ AllSessionsGone
  /\ server' = "none"
  /\ timer' = "stopped"
  /\ loop' = "stopped"
  /\ UNCHANGED <<stage, so>>

NothingToDo ==
  /\ inIdle
  /\ stage # "CLEAR"
  /\ stage = "WAIT_SESSION_CLOSE" => ~AllSessionsGone
  /\ UNCHANGED <<stage, timer, loop, server, so>>

OnIdleStage ==
  /\ loop = "running" /\ timer = "ticking" /\ opDispatch = <<>>
  /\ ClearSessions \/ StopLoop \/ NothingToDo
  /\ inIdle' = FALSE
  /\ UNCHANGED <<appVars, exiting, convSeed, allSession, opQue, opDispatch,
                 msgQue, msgDispatch>>

\* run: uv_run has returned, and the stage is set ...
RunReturns ==
  /\ loop = "stopped"
  /\ loop' = "ended" /\ exiting' = TRUE
  /\ server' = "none"
  /\ stage' = "STOP"
  /\ UNCHANGED <<appVars, timer, connVars, opQue, opDispatch, msgQue, msgDispatch, inIdle>>

\* ... and then the application is told.
RunEnds ==
  /\ exiting
  /\ exiting' = FALSE
  /\ PushMsg([msg |-> "EXIT_LOOP"])
  /\ UNCHANGED <<appVars, stage, timer, loop, server, connVars, opQue, opDispatch,
                 msgDispatch, inIdle>>

-----------------------------------------------------------------------------
\* The callbacks of the sockets: datagrams, which all come through the
\* listening socket, and timers.

Callback == /\ loop = "running" /\ ~inIdle
            /\ UNCHANGED <<appVars, timer, loop, exiting, opQue, opDispatch,
                           msgDispatch, inIdle>>

\* onUdpRead of the listening socket: in STOP_LISTEN it reads nothing.
Reads == Callback /\ server = "LISTEN" /\ UNCHANGED <<stage, server>>

\* A SYN from an address that has no socket: accept, svr_connect.
OnSyn ==
  /\ Reads
  /\ convSeed < MaxConvs
  /\ so' = [so EXCEPT ![convSeed] = [@ EXCEPT !.state = "SYN_RECV", !.hasConv = TRUE]]
  /\ convSeed' = convSeed + 1
  /\ UNCHANGED <<allSession, msgQue>>

\* createSession, onNewConnect
NewSession == [state |-> "ESTABLISHED", online |-> TRUE, isInvalid |-> FALSE,
               hasConv |-> TRUE]

\* The ACK that names the conv: the session is made and announced.
OnAck(v) ==
  /\ Reads
  /\ so[v].state = "SYN_RECV"
  /\ Change(v, NewSession)
  /\ allSession' = allSession \cup {v}
  /\ PushMsg(SessionMsg("NEW_CONNECT", v))
  /\ UNCHANGED convSeed

\* Data from ikcp.  The model bounds what is queued unread.
OnRecv(v) ==
  /\ Reads
  /\ so[v].state = "ESTABLISHED"
  /\ v \in Talkers /\ \A i \in DOMAIN MsgsAhead : MsgsAhead[i] # SessionMsg("RECV_DATA", v)
  /\ IF so[v].online THEN PushMsg(SessionMsg("RECV_DATA", v)) ELSE UNCHANGED msgQue
  /\ UNCHANGED connVars

\* The socket disconnects on its own: the peer's FIN, or a minute's silence.
\* Its session is online until the close is over.
PeerLeaves(v) ==
  /\ Callback
  /\ so[v].state = "ESTABLISHED"
  /\ Change(v, SocketDisconnect(so[v], "CLOSE_WAIT"))
  /\ UNCHANGED <<stage, server, convSeed, allSession, msgQue>>

\* Mutant: m_closeCall is made in every state.
RemoveTellsAlways(v) ==
  /\ so' = [so EXCEPT ![v] = [SocketClosed(@) EXCEPT !.state = "removed", !.isInvalid = TRUE,
                                                    !.hasConv = FALSE]]
  /\ PushMsg(SessionMsg("DIS_CONNECT", v))

\* shutdownSocket of an accepted socket: m_closeCall in CLOSE_WAIT only, which
\* is on_socket_close and onSessionClose; then the manager forgets it.
Remove(v) ==
  IF so[v].state = "CLOSE_WAIT"
    THEN /\ so' = [so EXCEPT ![v] = [SocketClosed(@) EXCEPT !.state = "removed",
                                                          !.isInvalid = TRUE,
                                                          !.hasConv = FALSE]]
         /\ PushMsg(SessionMsg("DIS_CONNECT", v))
    ELSE /\ so' = [so EXCEPT ![v] = [@ EXCEPT !.state = "removed", !.hasConv = FALSE]]
         /\ UNCHANGED msgQue

\* An ACK with another conv (acceptFailed) or, in CLOSE_WAIT, the peer's FIN.
OnLastDatagram(v) ==
  /\ Reads
  /\ so[v].state \in {"SYN_RECV", "CLOSE_WAIT"}
  /\ Remove(v)
  /\ UNCHANGED <<convSeed, allSession>>

\* Mutant: a CLOSED socket is not swept up.
AcceptedTimeoutNotClosed(v) ==
  /\ Callback
  /\ so[v].state \in {"SYN_RECV", "CLOSE_WAIT"}
  /\ Remove(v)
  /\ UNCHANGED <<stage, server, convSeed, allSession>>

\* checkLogic: SYN_RECV for five seconds, CLOSE_WAIT for one, CLOSED.
AcceptedTimeout(v) ==
  /\ Callback
  /\ so[v].state \in {"SYN_RECV", "CLOSE_WAIT", "CLOSED"}
  /\ Remove(v)
  /\ UNCHANGED <<stage, server, convSeed, allSession>>

\* checkLogic of the listening socket in STOP_LISTEN: closed when it has no
\* socket left, else disconnectAll again.
StopListenTick ==
  /\ Callback
  /\ server = "STOP_LISTEN"
  /\ IF Manager = {}
       THEN server' = "closing" /\ UNCHANGED so
       ELSE so' = [v \in Convs |-> DisconnectAccepted(so[v])] /\ UNCHANGED server
  /\ UNCHANGED <<stage, convSeed, allSession, msgQue>>

\* onCloseSocketFinished, onServerSocketClose
OnServerSocketClose ==
  /\ Callback
  /\ server = "closing"
  /\ server' = "CLOSED"
  /\ stage' = "CLEAR"
  /\ UNCHANGED <<connVars, msgQue>>

-----------------------------------------------------------------------------
Application ==
  \/ Start \/ Stop \/ Destroy \/ JoinReturns
  \/ \E v \in Convs : Send(v) \/ SendAndClose(v) \/ Disconnect(v)
  \/ GetThreadMsg \/ DispatchMsg

LoopThread ==
  \/ OnIdle \/ ExecuteOperation \/ OnIdleStage
  \/ RunReturns \/ RunEnds
  \/ OnSyn \/ StopListenTick \/ OnServerSocketClose
  \/ \E v \in Convs : OnAck(v) \/ OnRecv(v) \/ PeerLeaves(v) \/ OnLastDatagram(v)
                       \/ AcceptedTimeout(v)

Next == Application \/ LoopThread

\* The application goes on polling; the timers of the loop and of the sockets
\* fire and libuv calls back the close.  No datagram need ever arrive.
Fairness ==
  /\ WF_vars(GetThreadMsg) /\ WF_vars(DispatchMsg) /\ WF_vars(JoinReturns)
  /\ WF_vars(OnIdle) /\ WF_vars(ExecuteOperation) /\ WF_vars(OnIdleStage)
  /\ WF_vars(RunReturns) /\ WF_vars(RunEnds)
  /\ WF_vars(StopListenTick) /\ WF_vars(OnServerSocketClose)
  /\ \A v \in Convs : WF_vars(AcceptedTimeout(v))

SafeSpec == Init /\ [][Next]_vars
Spec     == SafeSpec /\ Fairness

-----------------------------------------------------------------------------
\* Safety.

QueuedMsgs == {msgDispatch[i] : i \in DOMAIN msgDispatch} \cup {msgQue[i] : i \in DOMAIN msgQue}

Departures(v) ==
  Cardinality({i \in DOMAIN MsgsAhead : MsgsAhead[i] = SessionMsg("DIS_CONNECT", v)})
  + Cardinality({i \in DOMAIN OpsAhead :
                   OpsAhead[i] = [op |-> "SEND_DIS_SESSION_MSG", id |-> v]})

\* The Session* of a message is good when it is dispatched: every message that
\* is queued is of a session in m_allSession; a session that its socket has
\* left is on its way to the application and back, exactly once, with no
\* message of it behind the disconnect; and only such a session is freed, so
\* that no socket of the manager calls back into one that is gone.
DepartsOnce ==
  \A v \in Convs :
    /\ \A m \in QueuedMsgs : m.msg # "EXIT_LOOP" => m.id \in allSession
    /\ Departures(v) <= 1
    /\ app # "gone" => ((v \in allSession /\ so[v].state = "removed") <=> Departures(v) = 1)
    /\ \A i, j \in DOMAIN MsgsAhead :
         i < j /\ MsgsAhead[i] = SessionMsg("DIS_CONNECT", v) =>
           MsgsAhead[j].msg = "EXIT_LOOP" \/ MsgsAhead[j].id # v

\* m_isOnline, isInvalid and the state of the socket agree: what is connected
\* is online and known to the server, what is online can still be disconnected.
\* And the shutdown has a fixed order: the listening socket closes after the
\* last accepted one, so that CLEAR finds every session closed.
ShutdownOrder ==
  /\ \A v \in Convs :
       /\ so[v].state = "ESTABLISHED" => v \in allSession /\ so[v].online
       /\ so[v].online => so[v].state \in {"ESTABLISHED", "CLOSE_WAIT"}
       /\ v \in allSession => (so[v].isInvalid <=> so[v].state = "removed")
  /\ stage = "WAIT_CLOSE_SERVER_SOCKET" =>
       \A v \in Convs : so[v].state \notin {"SYN_RECV", "ESTABLISHED"}
  /\ stage \in {"CLEAR", "WAIT_SESSION_CLOSE"} => Manager = {}

\* The callbacks of the application come in the order of ServerContract: each
\* one is the contract's, and nothing else changes what it speaks of.  Only
\* are sessions announced in the order of their ACKs.
Promise == INSTANCE ServerContract WITH
  Sessions <- Convs, InOrder <- FALSE,
  view <- contract.view, closed <- contract.closed

Promised(m) ==
  CASE m.msg = "EXIT_LOOP"   -> Promise!OnClose
    [] m.msg = "NEW_CONNECT" -> Promise!OnNewConnect(m.id)
    [] m.msg = "RECV_DATA"   -> Promise!OnRecv(m.id)
    [] m.msg = "DIS_CONNECT" -> Promise!OnDisconnect(m.id)

ImplementsContract ==
  Promise!Spec /\ [][DispatchMsg => Promised(Head(msgDispatch))]_vars

-----------------------------------------------------------------------------
\* Liveness.

\* A server that is asked to stop calls its close callback, or its destructor
\* returns: unless the application waits in the destructor for a session whose
\* disconnect only its own updateFrame can confirm.
StopEnds ==
  (loop # "none" /\ ~start) ~>
    \/ contract.closed
    \/ app = "gone"
    \/ app = "joining" /\ \E v \in allSession :
                            SessionMsg("DIS_CONNECT", v) \in QueuedMsgs
=============================================================================
