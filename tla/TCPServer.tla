----------------------------- MODULE TCPServer -----------------------------
(***************************************************************************)
(* The TCP server of net_uv: TCPServer with the sessions it accepts.       *)
(*                                                                         *)
(* The APPLICATION's thread starts and stops the server, sends,            *)
(* disconnects and polls updateFrame.  The LOOP thread runs onIdleRun      *)
(* every millisecond (executeOperation, then a switch on the stage) and    *)
(* the callbacks of the listening socket and of the sessions.  The queues  *)
(* between the two are those of ThreadQueue; a push is one step here.      *)
(*                                                                         *)
(* A server object may be started again once it has stopped: startServer   *)
(* checks only the stage and m_start.  The model follows it: see Start.    *)
(*                                                                         *)
(* Abstracted: addresses and data, and the 2^32 at which m_sessionID wraps.*)
(***************************************************************************)
EXTENDS Naturals, Sequences, FiniteSets, TCPSession

CONSTANTS
  Api,        \* the calls this application makes
  MaxCalls,   \* bound: calls of a behaviour, startServer included
  MaxConns,   \* bound: connections accepted
  Talkers     \* the sessions whose peers send; bound: one RECV_DATA of each
              \* queued at a time

ASSUME BoundsAssumption == MaxCalls \in Nat /\ MaxConns \in Nat

VARIABLES
  app,           \* the application: "up", "joining" in ~TCPServer, "gone"
  calls,         \* API calls made so far
  start,         \* m_start
  stage,         \* m_serverStage
  timer,         \* m_idle: "new", "ticking", "stopped" (m_start still set)
  loop,          \* uv_run: "none", "running", "stopped" by uv_stop, "ended"
  exiting,       \* a loop thread has left uv_run and not told so yet
  opQue, opDispatch,    \* m_operationQue, m_operationDispatchQue
  msgQue, msgDispatch,  \* m_msgQue, m_msgDispatchQue
  inIdle,        \* the loop thread is inside onIdleRun
  server,        \* m_server: "none", "listening", "closing", "closed"
  sessionID,     \* m_sessionID
  allSession,    \* the keys of m_allSession
  sess,          \* sess[id]: serverSessionData with its session and socket
  contract       \* what the application was told (history)

appVars  == <<app, calls, start, contract>>
loopVars == <<stage, timer, loop, server, exiting>>
connVars == <<sessionID, allSession, sess>>
vars == <<appVars, loopVars, connVars, opQue, opDispatch, msgQue, msgDispatch, inIdle>>

Sessions == 0 .. MaxConns - 1

Stages == {"RUN", "WAIT_CLOSE_SERVER_SOCKET", "CLEAR", "WAIT_SESSION_CLOSE", "STOP"}

Session == [online : BOOLEAN, isInvalid : BOOLEAN, handle : Handles,
            closers : Nat]

SessionOps == {"SEND_DATA", "SEND_CLOSE", "DIS_SESSION", "SEND_DIS_SESSION_MSG"}
Op  == [op : SessionOps, id : Sessions] \cup [op : {"STOP_SERVER"}]

SessionMsgs == {"NEW_CONNECT", "RECV_DATA", "DIS_CONNECT"}
Msg == [msg : SessionMsgs, id : Sessions] \cup [msg : {"EXIT_LOOP"}]

Contract == [view : [Sessions -> {"new", "up", "down"}], closed : BOOLEAN]

TypeOK ==
  /\ app \in {"up", "joining", "gone"}
  /\ calls \in 0 .. MaxCalls
  /\ start \in BOOLEAN /\ inIdle \in BOOLEAN /\ exiting \in BOOLEAN
  /\ stage \in Stages
  /\ timer \in {"new", "ticking", "stopped"}
  /\ loop \in {"none", "running", "stopped", "ended"}
  /\ opQue \in Seq(Op) /\ opDispatch \in Seq(Op)
  /\ msgQue \in Seq(Msg) /\ msgDispatch \in Seq(Msg)
  /\ server \in {"none", "listening", "closing", "closed"}
  /\ sessionID \in 0 .. MaxConns
  /\ allSession \subseteq Sessions
  /\ sess \in [Sessions -> Session]
  /\ contract \in Contract

\* Mutant: setIsOnline is forgotten.
NewSessionOffline ==
  [online |-> FALSE, isInvalid |-> FALSE, handle |-> "open", closers |-> 0]

\* onNewConnect: the state of a session that was just accepted.
NewSession == [online |-> TRUE, isInvalid |-> FALSE, handle |-> "open", closers |-> 0]

Init ==
  /\ app = "up" /\ calls = 0
  /\ start = FALSE
  /\ stage = "STOP"
  /\ timer = "new"
  /\ loop = "none" /\ exiting = FALSE
  /\ opQue = <<>> /\ opDispatch = <<>>
  /\ msgQue = <<>> /\ msgDispatch = <<>>
  /\ inIdle = FALSE
  /\ server = "none"
  /\ sessionID = 0
  /\ allSession = {}
  /\ sess = [id \in Sessions |-> NewSession]
  /\ contract = [view |-> [id \in Sessions |-> "new"], closed |-> FALSE]

\* The messages and the operations still to be worked off, in their order.
MsgsAhead == msgDispatch \o msgQue
OpsAhead  == opDispatch \o opQue

PushOp(o)  == opQue' = Append(opQue, o)
PushMsg(m) == msgQue' = Append(msgQue, m)
SessionMsg(m, id) == [msg |-> m, id |-> id]

-----------------------------------------------------------------------------
\* The application's calls.

Calls(call) == /\ app = "up"
               /\ call \in Api
               /\ calls < MaxCalls
               /\ calls' = calls + 1

\* startServer succeeds: the socket listens and the loop thread starts, which
\* starts the idle timer -- unless the timer was started before: UVTimer::stop
\* leaves UVTimer::m_start set, and start then does nothing.  (A start that
\* fails to bind or listen is not modelled: its startFailureLogic closes the
\* uv_loop_t, and nothing the application does with the server then is defined.)
Start ==
  /\ Calls(IF loop = "none" THEN "startServer" ELSE "restart")
  /\ stage = "STOP" /\ ~start
  /\ start' = TRUE
  /\ stage' = "RUN"
  /\ server' = "listening"
  /\ loop' = "running"
  /\ timer' = IF timer = "new" THEN "ticking" ELSE timer
  /\ UNCHANGED <<app, contract, exiting, connVars, opQue, opDispatch, msgQue,
                 msgDispatch, inIdle>>

\* stopServer: nothing when the server is not started.
StopServer ==
  IF start THEN start' = FALSE /\ PushOp([op |-> "STOP_SERVER"])
           ELSE UNCHANGED <<start, opQue>>

Stop == /\ Calls("stopServer") /\ start
        /\ StopServer
        /\ UNCHANGED <<app, contract, loopVars, connVars, opDispatch, msgQue,
                       msgDispatch, inIdle>>

\* send, sendAndClose and disconnect of a session the application was told of.
\* Only the sends look at m_start.
Request(call, op, id) ==
  /\ Calls(call)
  /\ contract.view[id] # "new"
  /\ op = "DIS_SESSION" \/ start
  /\ PushOp([op |-> op, id |-> id])
  /\ UNCHANGED <<app, start, contract, loopVars, connVars, opDispatch, msgQue,
                 msgDispatch, inIdle>>

Send(id)         == Request("send", "SEND_DATA", id)
SendAndClose(id) == Request("sendAndClose", "SEND_CLOSE", id)
Disconnect(id)   == Request("disconnect", "DIS_SESSION", id)

\* ~TCPServer: stopServer, then join: the application polls no more.  Not from
\* inside a callback, nor before the server was started.
Destroy == /\ Calls("destroy") /\ loop # "none" /\ msgDispatch = <<>>
           /\ StopServer
           /\ app' = "joining"
           /\ UNCHANGED <<contract, loopVars, connVars, opDispatch, msgQue,
                          msgDispatch, inIdle>>

\* join returns; clearData frees what is left in the queues.
JoinReturns ==
  /\ app = "joining" /\ loop = "ended" /\ ~exiting
  /\ app' = "gone"
  /\ opQue' = <<>> /\ msgQue' = <<>>
  /\ UNCHANGED <<calls, start, contract, loopVars, connVars, opDispatch,
                 msgDispatch, inIdle>>

-----------------------------------------------------------------------------
\* updateFrame.

GetThreadMsg ==
  /\ app = "up"
  /\ msgDispatch = <<>> /\ msgQue # <<>>
  /\ msgDispatch' = msgQue
  /\ msgQue' = <<>>
  /\ UNCHANGED <<appVars, loopVars, connVars, opQue, opDispatch, inIdle>>

\* What a callback tells the application.
Told(m) ==
  CASE m.msg = "EXIT_LOOP"   -> [contract EXCEPT !.closed = TRUE]
    [] m.msg = "NEW_CONNECT" -> [contract EXCEPT !.view[m.id] = "up"]
    [] m.msg = "RECV_DATA"   -> contract
    [] m.msg = "DIS_CONNECT" -> [contract EXCEPT !.view[m.id] = "down"]

\* One turn of the switch: the callback; after DIS_CONNECT the operation that
\* lets the loop thread free the session.  (The close callback waits for the
\* end of the batch: EXIT_LOOP is the last message of a run.)
DispatchMsg ==
  /\ app = "up"
  /\ msgDispatch # <<>>
  /\ LET m == Head(msgDispatch) IN
       /\ contract' = Told(m)
       /\ IF m.msg = "DIS_CONNECT"
            THEN PushOp([op |-> "SEND_DIS_SESSION_MSG", id |-> m.id])
            ELSE UNCHANGED opQue
  /\ msgDispatch' = Tail(msgDispatch)
  /\ UNCHANGED <<app, calls, start, loopVars, connVars, opDispatch, msgQue, inIdle>>

-----------------------------------------------------------------------------
\* onIdleRun, first half: executeOperation.

\* The timer fires and the lock is free: the operations are taken over.
OnIdle ==
  /\ loop = "running" /\ timer = "ticking" /\ ~inIdle
  /\ opQue # <<>>
  /\ inIdle' = TRUE
  /\ opDispatch' = opQue
  /\ opQue' = <<>>
  /\ UNCHANGED <<appVars, loopVars, connVars, msgQue, msgDispatch>>

\* The front of the dispatch queue is an operation o; it is popped.
Executes(o) ==
  /\ opDispatch # <<>>
  /\ Head(opDispatch).op = o
  /\ opDispatch' = Tail(opDispatch)
  /\ UNCHANGED <<appVars, timer, loop, exiting, opQue, msgQue, msgDispatch,
                 inIdle, sessionID>>

Target == Head(opDispatch).id

ExecSend ==
  /\ Executes("SEND_DATA")
  /\ IF Target \in allSession
       THEN \E t \in AfterSend(sess[Target]) : sess' = [sess EXCEPT ![Target] = t]
       ELSE UNCHANGED sess
  /\ UNCHANGED <<stage, server, allSession>>

ExecSendAndClose ==
  /\ Executes("SEND_CLOSE")
  /\ IF Target \in allSession
       THEN \E t \in AfterSendAndClose(sess[Target]) : sess' = [sess EXCEPT ![Target] = t]
       ELSE UNCHANGED sess
  /\ UNCHANGED <<stage, server, allSession>>

ExecDisconnect ==
  /\ Executes("DIS_SESSION")
  /\ IF Target \in allSession
       THEN sess' = [sess EXCEPT ![Target] = ExecuteDisconnect(@)]
       ELSE UNCHANGED sess
  /\ UNCHANGED <<stage, server, allSession>>

\* Mutant: sessions that are invalid are skipped, as the shutdown does.
ExecDeleteIfValid ==
  /\ Executes("SEND_DIS_SESSION_MSG")
  /\ allSession' = IF sess[Target].isInvalid THEN allSession ELSE allSession \ {Target}
  /\ UNCHANGED <<stage, server, sess>>

\* The session is freed: the application has been told that it is gone.
ExecDelete ==
  /\ Executes("SEND_DIS_SESSION_MSG")
  /\ allSession' = allSession \ {Target}
  /\ UNCHANGED <<stage, server, sess>>

\* Mutant: the test of isInvalid is the wrong way round.
DisconnectInvalid ==
  sess' = [id \in Sessions |->
             IF id \in allSession /\ sess[id].isInvalid
               THEN ExecuteDisconnect(sess[id]) ELSE sess[id]]

\* The sessions that are not closed yet are disconnected.
DisconnectValid ==
  sess' = [id \in Sessions |->
             IF id \in allSession /\ ~sess[id].isInvalid
               THEN ExecuteDisconnect(sess[id]) ELSE sess[id]]

\* STOP_SERVER: every session and the listening socket.
ExecStopServer ==
  /\ Executes("STOP_SERVER")
  /\ DisconnectValid
  /\ server' = IF server = "listening" THEN "closing" ELSE server
  /\ stage' = "WAIT_CLOSE_SERVER_SOCKET"
  /\ UNCHANGED allSession

ExecuteOperation == \/ ExecSend \/ ExecSendAndClose \/ ExecDisconnect
                    \/ ExecDelete \/ ExecStopServer

-----------------------------------------------------------------------------
\* onIdleRun, second half: the stage.  It follows the operations, or the timer
\* fires with nothing queued (or the lock taken) and it is all there is.

\* Mutant: the server does not wait for its sessions.
NothingAwaited == TRUE

AllSessionsGone == allSession = {}

ClearSessions ==
  /\ stage = "CLEAR"
  /\ DisconnectValid
  /\ stage' = "WAIT_SESSION_CLOSE"
  /\ UNCHANGED <<timer, loop>>

StopLoop ==
  /\ stage = "WAIT_SESSION_CLOSE"
  /\ AllSessionsGone
  /\ timer' = "stopped"
  /\ loop' = "stopped"
  /\ UNCHANGED <<stage, sess>>

NothingToDo ==
  /\ inIdle
  /\ stage # "CLEAR"
  /\ stage = "WAIT_SESSION_CLOSE" => ~AllSessionsGone
  /\ UNCHANGED <<stage, timer, loop, sess>>

OnIdleStage ==
  /\ loop = "running" /\ timer = "ticking" /\ opDispatch = <<>>
  /\ ClearSessions \/ StopLoop \/ NothingToDo
  /\ inIdle' = FALSE
  /\ UNCHANGED <<appVars, server, exiting, sessionID, allSession, opQue,
                 opDispatch, msgQue, msgDispatch>>

\* run: uv_run has returned; m_server is freed and the stage is set ...
RunReturns ==
  /\ loop = "stopped"
  /\ loop' = "ended" /\ exiting' = TRUE
  /\ server' = "none"
  /\ stage' = "STOP"
  /\ UNCHANGED <<appVars, timer, connVars, opQue, opDispatch, msgQue, msgDispatch, inIdle>>

\* ... and then the application is told.
RunEnds ==
  /\ exiting
  /\ exiting' = FALSE
  /\ PushMsg([msg |-> "EXIT_LOOP"])
  /\ UNCHANGED <<appVars, stage, timer, loop, server, connVars, opQue, opDispatch,
                 msgDispatch, inIdle>>

-----------------------------------------------------------------------------
\* The callbacks of libuv, between two runs of the timer.

Callback == /\ loop = "running" /\ ~inIdle
            /\ UNCHANGED <<appVars, timer, loop, exiting, opDispatch, msgDispatch, inIdle>>

\* onNewConnect: accept, a session, and the message.
OnNewConnect ==
  /\ Callback
  /\ server = "listening" /\ sessionID < MaxConns
  /\ allSession' = allSession \cup {sessionID}
  /\ sess' = [sess EXCEPT ![sessionID] = NewSession]
  /\ PushMsg(SessionMsg("NEW_CONNECT", sessionID))
  /\ sessionID' = sessionID + 1
  /\ UNCHANGED <<stage, server, opQue>>

\* onServerSocketClose
OnServerSocketClose ==
  /\ Callback
  /\ server = "closing"
  /\ server' = "closed"
  /\ stage' = "CLEAR"
  /\ UNCHANGED <<connVars, opQue, msgQue>>

SocketCallback(id) ==
  Callback /\ id \in allSession /\ UNCHANGED <<stage, server, sessionID, allSession>>

\* uv_on_after_read with data; the model bounds what is queued unread.
OnRead(id) ==
  /\ SocketCallback(id)
  /\ sess[id].handle = "open"
  /\ id \in Talkers /\ \A i \in DOMAIN MsgsAhead : MsgsAhead[i] # SessionMsg("RECV_DATA", id)
  /\ IF sess[id].online THEN PushMsg(SessionMsg("RECV_DATA", id)) ELSE UNCHANGED msgQue
  /\ UNCHANGED <<sess, opQue>>

\* Mutant: the disconnect is reported when the read ends, and again on close.
OnReadEndTells(id) ==
  /\ SocketCallback(id)
  /\ sess[id].handle = "open"
  /\ sess' = [sess EXCEPT ![id] = ShutdownSocket(@)]
  /\ PushMsg(SessionMsg("DIS_CONNECT", id))
  /\ UNCHANGED opQue

\* uv_on_after_read, nread <= 0: the socket closes, the session stays online.
OnReadEnd(id) ==
  /\ SocketCallback(id)
  /\ sess[id].handle = "open"
  /\ sess' = [sess EXCEPT ![id] = ShutdownSocket(@)]
  /\ UNCHANGED <<msgQue, opQue>>

\* The DIS_SESSION operations pushed by n completed writes of sendAndClose.
CloserOps(id, n) == [i \in 1 .. n |-> [op |-> "DIS_SESSION", id |-> id]]

\* Mutant: every write calls back, also those of send.
OnAnyWriteDone(id) ==
  /\ SocketCallback(id)
  /\ sess[id].handle = "open"
  /\ sess' = [sess EXCEPT ![id].closers = @ - 1]
  /\ opQue' = opQue \o CloserOps(id, 1)
  /\ UNCHANGED msgQue

\* uv_on_after_write of a sendAndClose.
OnWriteDone(id) ==
  /\ SocketCallback(id)
  /\ sess[id].handle = "open" /\ sess[id].closers > 0
  /\ sess' = [sess EXCEPT ![id].closers = @ - 1]
  /\ opQue' = opQue \o CloserOps(id, 1)
  /\ UNCHANGED msgQue

\* uv_on_close_socket, on_socket_close, onSessionClose.  libuv cancels the
\* writes that are left, and calls them back, just before.
OnClose(id) ==
  /\ SocketCallback(id)
  /\ sess[id].handle = "closing"
  /\ opQue' = opQue \o CloserOps(id, sess[id].closers)
  /\ sess' = [sess EXCEPT ![id] = [SocketClosed(@) EXCEPT !.isInvalid = TRUE]]
  /\ PushMsg(SessionMsg("DIS_CONNECT", id))

-----------------------------------------------------------------------------
Application ==
  \/ Start \/ Stop \/ Destroy \/ JoinReturns
  \/ \E id \in Sessions : Send(id) \/ SendAndClose(id) \/ Disconnect(id)
  \/ GetThreadMsg \/ DispatchMsg

LoopThread ==
  \/ OnIdle \/ ExecuteOperation \/ OnIdleStage
  \/ RunReturns \/ RunEnds
  \/ OnNewConnect \/ OnServerSocketClose
  \/ \E id \in Sessions : OnRead(id) \/ OnReadEnd(id) \/ OnWriteDone(id) \/ OnClose(id)

Next == Application \/ LoopThread

\* The application goes on polling; the loop thread's timer fires and libuv
\* calls back every close.  Nothing makes a peer connect, send, read or close.
Fairness ==
  /\ WF_vars(GetThreadMsg) /\ WF_vars(DispatchMsg) /\ WF_vars(JoinReturns)
  /\ WF_vars(OnIdle) /\ WF_vars(ExecuteOperation) /\ WF_vars(OnIdleStage)
  /\ WF_vars(RunReturns) /\ WF_vars(RunEnds)
  /\ WF_vars(OnServerSocketClose) /\ \A id \in Sessions : WF_vars(OnClose(id))

SafeSpec == Init /\ [][Next]_vars
Spec     == SafeSpec /\ Fairness

-----------------------------------------------------------------------------
\* Safety.

QueuedMsgs == {msgDispatch[i] : i \in DOMAIN msgDispatch} \cup {msgQue[i] : i \in DOMAIN msgQue}

\* The messages and the operations by which the end of id travels.
Departures(id) ==
  Cardinality({i \in DOMAIN MsgsAhead : MsgsAhead[i] = SessionMsg("DIS_CONNECT", id)})
  + Cardinality({i \in DOMAIN OpsAhead :
                   OpsAhead[i] = [op |-> "SEND_DIS_SESSION_MSG", id |-> id]})

\* A message carries a bare Session*: every one that is queued is of a session
\* in m_allSession.  A session whose DIS_CONNECT is queued, or whose deletion
\* is: exactly one of the two, once, with its socket closed, and with nothing
\* of the session behind it.  So no callback of the socket finds the session
\* freed and the application gets no call after the last one.
DepartsOnce ==
  \A id \in Sessions :
    /\ \A m \in QueuedMsgs : m.msg # "EXIT_LOOP" => m.id \in allSession
    /\ Departures(id) <= 1
    /\ app # "gone" => ((id \in allSession /\ sess[id].isInvalid) <=> Departures(id) = 1)
    /\ \A i, j \in DOMAIN MsgsAhead :
         i < j /\ MsgsAhead[i] = SessionMsg("DIS_CONNECT", id) =>
           MsgsAhead[j].msg = "EXIT_LOOP" \/ MsgsAhead[j].id # id

\* m_isOnline, isInvalid and m_tcp of a session agree.
SessionAgrees ==
  \A id \in allSession :
    /\ sess[id].isInvalid <=> sess[id].handle = "none"
    /\ sess[id].handle = "open" => sess[id].online
    /\ sess[id].online => sess[id].handle \in {"open", "closing"}
    /\ sess[id].closers > 0 => sess[id].handle # "none"

\* The stage, the listening socket and the sessions: once CLEAR was passed no
\* session is usable, and none is made behind the back of the shutdown.
ShutdownCovers ==
  stage \in {"WAIT_CLOSE_SERVER_SOCKET", "CLEAR", "WAIT_SESSION_CLOSE"} =>
    /\ server # "listening"
    /\ \A id \in allSession : sess[id].handle \in {"closing", "none"}

\* The callbacks of the application come in the order of ServerContract:
\* each one is the contract's, and nothing else changes what it speaks of.
Promise == INSTANCE ServerContract WITH
  InOrder <- TRUE,
  view <- contract.view, closed <- contract.closed

Promised(m) ==
  CASE m.msg = "EXIT_LOOP"   -> Promise!OnClose
    [] m.msg = "NEW_CONNECT" -> Promise!OnNewConnect(m.id)
    [] m.msg = "RECV_DATA"   -> Promise!OnRecv(m.id)
    [] m.msg = "DIS_CONNECT" -> Promise!OnDisconnect(m.id)

ImplementsContract ==
  Promise!Spec /\ [][DispatchMsg => Promised(Head(msgDispatch))]_vars

-----------------------------------------------------------------------------
\* Liveness.

\* A server that is asked to stop calls its close callback, or its destructor
\* returns: unless the application waits in the destructor for a session whose
\* disconnect only its own updateFrame can confirm.
StopEnds ==
  (loop # "none" /\ ~start) ~>
    \/ contract.closed
    \/ app = "gone"
    \/ app = "joining" /\ \E id \in allSession :
                            SessionMsg("DIS_CONNECT", id) \in QueuedMsgs

\* TCPServer.cpp: "TCP_SVR_OP_STOP_SERVER, // stop svr": the operation is
\* executed and stops the server, in every run of it.
StopOpStops == (\E i \in DOMAIN OpsAhead : OpsAhead[i].op = "STOP_SERVER") ~> stage = "STOP"
=============================================================================
