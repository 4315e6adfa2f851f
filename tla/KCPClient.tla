----------------------------- MODULE KCPClient -----------------------------
(***************************************************************************)
(* The KCP client of net_uv: KCPClient, its sessions and their sockets.    *)
(*                                                                         *)
(* Threads and queues are those of TCPClient.  What differs is the socket: *)
(* it connects and disconnects by a handshake of its own, whose timeouts   *)
(* are its own timer's, and it keeps m_kcpState beside m_udp.  The other   *)
(* end and the datagrams are KCPSocket's: here the peer sends what it      *)
(* likes, a SYN_ACK without a conv included, and a session stays online    *)
(* until its socket is closed or a disconnect is executed.                 *)
(*                                                                         *)
(* Abstracted: addresses; of the data, only whether ikcp still has to put  *)
(* it on the wire.                                                         *)
(***************************************************************************)
EXTENDS Naturals, Sequences, FiniteSets, KCPSession

CONSTANTS
  SessionIds,   \* uint32_t ids chosen by the application
  Api,          \* the calls this application makes
  MaxCalls      \* bound: API calls of a behaviour

ASSUME SessionIdsAssumption == SessionIds \subseteq Nat /\ IsFiniteSet(SessionIds)
ASSUME BoundsAssumption     == MaxCalls \in Nat

VARIABLES
  app,           \* the application: "up", "joining" in ~KCPClient, "gone"
  calls,         \* API calls made so far
  isStop,        \* m_isStop
  opQue, opDispatch,    \* m_operationQue, m_operationDispatchQue
  msgQue, msgDispatch,  \* m_msgQue, m_msgDispatchQue
  stage,         \* m_clientStage
  loop,          \* uv_run: "running", "stopped" by uv_stop, "ended"
  known,         \* the keys of m_allSessionMap
  sess,          \* sess[id]: clientSessionData with its session and socket
  contract       \* what the application has seen and asked (history)

appVars    == <<app, calls, isStop, contract>>
sharedVars == <<opQue, opDispatch, msgQue, msgDispatch>>
vars == <<appVars, sharedVars, stage, loop, known, sess>>

ConnectStates == {"CONNECT", "CONNECTING", "DISCONNECTING", "DISCONNECT"}

\* udp: m_udp, "closing" between net_closeHandle and libuv's callback.
\* unsent: m_kcp holds data that no ikcp_update has put on the wire yet.
\* hasConv: m_conv is not 0.
Session == [connectState : ConnectStates, removeTag : BOOLEAN, online : BOOLEAN,
            state : {"CLOSED", "SYN_SENT", "ESTABLISHED", "FIN_WAIT"},
            udp : {"none", "open", "closing"}, unsent : BOOLEAN, hasConv : BOOLEAN]

Stages  == {"START", "CLEAR_SESSION", "WAIT_EXIT", "STOP"}

SessionOps == {"CONNECT", "SENDDATA", "SEND_AND_CLOSE", "DISCONNECT",
               "REMOVE_SESSION", "DELETE_SESSION"}
Op == [op : SessionOps, id : SessionIds] \cup [op : {"CLIENT_CLOSE"}]

SessionMsgs == {"CONNECT", "CONNECT_FAIL", "CONNECT_TIMOUT", "RECV_DATA",
                "DIS_CONNECT", "REMOVE_SESSION"}
Msg == [msg : SessionMsgs, id : SessionIds] \cup [msg : {"EXIT_LOOP"}]

Contract == [view : [SessionIds -> {"absent", "down", "up"}],
             asked : SUBSET SessionIds, closed : BOOLEAN]

TypeOK ==
  /\ app \in {"up", "joining", "gone"}
  /\ calls \in 0 .. MaxCalls
  /\ isStop \in BOOLEAN
  /\ opQue \in Seq(Op) /\ opDispatch \in Seq(Op)
  /\ msgQue \in Seq(Msg) /\ msgDispatch \in Seq(Msg)
  /\ stage \in Stages
  /\ loop \in {"running", "stopped", "ended"}
  /\ known \subseteq SessionIds
  /\ sess \in [SessionIds -> Session]
  /\ contract \in Contract

\* createSession and clientSessionData: the state of a new session.
NewSession == [connectState |-> "CONNECTING", removeTag |-> FALSE, online |-> FALSE,
               state |-> "CLOSED", udp |-> "none", unsent |-> FALSE, hasConv |-> FALSE]

Init ==
  /\ app = "up" /\ calls = 0
  /\ isStop = FALSE
  /\ opQue = <<>> /\ opDispatch = <<>>
  /\ msgQue = <<>> /\ msgDispatch = <<>>
  /\ stage = "START"
  /\ loop = "running"
  /\ known = {}
  /\ sess = [id \in SessionIds |-> NewSession]
  /\ contract = [view |-> [id \in SessionIds |-> "absent"], asked |-> {},
                 closed |-> FALSE]

PushOp(o)    == opQue' = Append(opQue, o)
PushMsgs(ms) == msgQue' = msgQue \o ms
SessionOp(o, id)  == [op |-> o, id |-> id]
SessionMsg(m, id) == [msg |-> m, id |-> id]

-----------------------------------------------------------------------------
\* The application's calls.

Calls(call) == /\ app = "up"
               /\ call \in Api
               /\ calls < MaxCalls
               /\ calls' = calls + 1

\* connect, disconnect, send, sendAndClose: dropped once closeClient was called.
Request(call, op, id) ==
  /\ Calls(call)
  /\ ~isStop
  /\ PushOp(SessionOp(op, id))
  /\ UNCHANGED <<app, isStop, contract, opDispatch, msgQue, msgDispatch, stage,
                 loop, known, sess>>

Connect(id)      == Request("connect", "CONNECT", id)
Disconnect(id)   == Request("disconnect", "DISCONNECT", id)
Send(id)         == Request("send", "SENDDATA", id)
SendAndClose(id) == Request("sendAndClose", "SEND_AND_CLOSE", id)

\* removeSession does not look at m_isStop.
RemoveSession(id) ==
  /\ Calls("removeSession")
  /\ PushOp(SessionOp("REMOVE_SESSION", id))
  /\ contract' = [contract EXCEPT !.asked = @ \cup {id}]
  /\ UNCHANGED <<app, isStop, opDispatch, msgQue, msgDispatch, stage, loop,
                 known, sess>>

\* closeClient: the flag first, then the operation; nothing the second time.
StopAndPush ==
  /\ isStop' = TRUE
  /\ IF isStop THEN UNCHANGED opQue ELSE PushOp([op |-> "CLIENT_CLOSE"])
  /\ contract' = [contract EXCEPT !.asked = SessionIds]
  /\ UNCHANGED <<opDispatch, msgQue, msgDispatch, stage, loop, known, sess>>

CloseClient == Calls("closeClient") /\ ~isStop /\ StopAndPush /\ UNCHANGED app

\* ~KCPClient: closeClient, then join: the application polls no more until the
\* loop thread has ended.  Not from inside a callback.
Destroy == /\ Calls("destroy")
           /\ msgDispatch = <<>>
           /\ StopAndPush
           /\ app' = "joining"

\* join returns; clearData frees what is left.
JoinReturns ==
  /\ app = "joining"
  /\ loop = "ended"
  /\ app' = "gone"
  /\ opQue' = <<>> /\ msgQue' = <<>>
  /\ known' = {}
  /\ UNCHANGED <<calls, isStop, contract, opDispatch, msgDispatch, stage, loop, sess>>

-----------------------------------------------------------------------------
\* updateFrame.

GetThreadMsg ==
  /\ app = "up"
  /\ msgDispatch = <<>> /\ msgQue # <<>>
  /\ msgDispatch' = msgQue
  /\ msgQue' = <<>>
  /\ UNCHANGED <<appVars, opQue, opDispatch, stage, loop, known, sess>>

\* What a callback tells the application.
Told(m) ==
  IF m.msg = "EXIT_LOOP"
    THEN [contract EXCEPT !.closed = TRUE]
    ELSE [contract EXCEPT
            !.view[m.id] = CASE m.msg = "CONNECT"        -> "up"
                             [] m.msg = "RECV_DATA"      -> @
                             [] m.msg = "REMOVE_SESSION" -> "absent"
                             [] OTHER                    -> "down"]

\* One turn of the switch: the callback; after REMOVE_SESSION the operation
\* that lets the loop thread free the session.
DispatchMsg ==
  /\ app = "up"
  /\ msgDispatch # <<>>
  /\ LET m == Head(msgDispatch) IN
       /\ contract' = Told(m)
       /\ IF m.msg = "REMOVE_SESSION"
            THEN PushOp(SessionOp("DELETE_SESSION", m.id))
            ELSE UNCHANGED opQue
  /\ msgDispatch' = Tail(msgDispatch)
  /\ UNCHANGED <<app, calls, isStop, opDispatch, msgQue, stage, loop, known, sess>>

-----------------------------------------------------------------------------
\* executeOperation.

Closing == {id \in known : sess[id].udp = "closing"}

\* The whole operation queue becomes the dispatch queue.  Not while a handle is
\* closing: the timer of the client runs before those of its sockets, which it
\* started (uv_timer_start numbers them), and libuv on unix calls back a close
\* at the end of the turn in which it began.
DrainOperations ==
  /\ loop = "running"
  /\ opDispatch = <<>> /\ opQue # <<>>
  /\ Closing = {}
  /\ opDispatch' = opQue
  /\ opQue' = <<>>
  /\ UNCHANGED <<appVars, msgQue, msgDispatch, stage, loop, known, sess>>

\* The front of the dispatch queue is an operation o; it is popped.
Executes(o) ==
  /\ opDispatch # <<>>
  /\ Head(opDispatch).op = o
  /\ opDispatch' = Tail(opDispatch)
  /\ UNCHANGED <<appVars, msgDispatch, loop>>

Target == Head(opDispatch).id

ChangeSession(id, s) == sess' = [sess EXCEPT ![id] = s]

\* m_kcp: made by the handshake, released by shutdownSocket.
HasKcp(s) == s.state \in {"ESTABLISHED", "FIN_WAIT"} /\ s.udp = "open"

Sendable == Target \in known /\ ~sess[Target].removeTag

ExecSend ==
  /\ Executes("SENDDATA")
  /\ LET s == sess[Target] IN
       IF Sendable
         THEN \/ /\ s.online /\ HasKcp(s)
                 /\ ChangeSession(Target, [s EXCEPT !.unsent = TRUE])
              \/ ChangeSession(Target, ExecuteDisconnect(s, "FIN_WAIT"))
         ELSE UNCHANGED sess
  /\ UNCHANGED <<opQue, msgQue, stage, known>>

\* executeSendAndClose: ikcp takes the data, and the disconnect is queued at
\* once (unless the client closes); or the session disconnects now.
ExecSendAndClose ==
  /\ Executes("SEND_AND_CLOSE")
  /\ LET s == sess[Target] IN
       \/ /\ Sendable /\ s.online /\ HasKcp(s)
          /\ ChangeSession(Target, [s EXCEPT !.unsent = TRUE])
          /\ IF isStop THEN UNCHANGED opQue ELSE PushOp(SessionOp("DISCONNECT", Target))
       \/ /\ IF Sendable THEN ChangeSession(Target, ExecuteDisconnect(s, "FIN_WAIT"))
                         ELSE UNCHANGED sess
          /\ UNCHANGED opQue
  /\ UNCHANGED <<msgQue, stage, known>>

\* DISCONNECT: only a connected session; a connecting one stays as it is.
ExecDisconnect ==
  /\ Executes("DISCONNECT")
  /\ LET s == sess[Target] IN
       IF Target \in known /\ s.connectState = "CONNECT"
         THEN ChangeSession(Target,
                ExecuteDisconnect([s EXCEPT !.connectState = "DISCONNECTING"], "FIN_WAIT"))
         ELSE UNCHANGED sess
  /\ UNCHANGED <<opQue, msgQue, stage, known>>

\* KCPSocket::connect once the address is resolved.
Connecting(s) ==
  [s EXCEPT !.connectState = "CONNECTING", !.state = "SYN_SENT", !.udp = "open"]

\* createNewConnect for a new id; an address that does not resolve is reported
\* at once.
CreateSession ==
  /\ Target \notin known
  /\ known' = known \cup {Target}
  /\ \/ ChangeSession(Target, Connecting(NewSession)) /\ UNCHANGED msgQue
     \/ /\ ChangeSession(Target, [NewSession EXCEPT !.connectState = "DISCONNECT"])
        /\ PushMsgs(<<SessionMsg("CONNECT_FAIL", Target)>>)

\* createNewConnect for an id it knows: only a disconnected session that is
\* not being removed, and whose socket is CLOSED, connects again.
Reconnect ==
  /\ Target \in known
  /\ LET s == sess[Target] IN
       IF s.removeTag \/ s.connectState # "DISCONNECT"
         THEN UNCHANGED <<sess, msgQue>>
         ELSE \/ /\ s.state = "CLOSED"
                 /\ ChangeSession(Target, Connecting(s))
                 /\ UNCHANGED msgQue
              \/ /\ ChangeSession(Target, ExecuteDisconnect(s, "FIN_WAIT"))
                 /\ PushMsgs(<<SessionMsg("CONNECT_FAIL", Target)>>)
  /\ UNCHANGED known

ExecConnect == /\ Executes("CONNECT")
               /\ CreateSession \/ Reconnect
               /\ UNCHANGED <<opQue, stage>>

ExecClientClose ==
  /\ Executes("CLIENT_CLOSE")
  /\ stage' = "CLEAR_SESSION"
  /\ UNCHANGED <<opQue, msgQue, known, sess>>

\* REMOVE_SESSION: tag the session; one that is disconnected already is handed
\* to the application for removal now, any other when its close is reported.
\* A handshake goes on.
ExecRemoveSession ==
  /\ Executes("REMOVE_SESSION")
  /\ LET s == sess[Target] IN
       IF Target \notin known THEN UNCHANGED <<sess, msgQue>>
       ELSE IF s.connectState # "DISCONNECT"
         THEN /\ ChangeSession(Target,
                   ExecuteDisconnect([s EXCEPT !.removeTag = TRUE], "FIN_WAIT"))
              /\ UNCHANGED msgQue
         ELSE /\ ChangeSession(Target, [s EXCEPT !.removeTag = TRUE])
              /\ IF s.removeTag THEN UNCHANGED msgQue
                 ELSE PushMsgs(<<SessionMsg("REMOVE_SESSION", Target)>>)
  /\ UNCHANGED <<opQue, stage, known>>

\* DELETE_SESSION: free a tagged session and its socket.
ExecDeleteSession ==
  /\ Executes("DELETE_SESSION")
  /\ IF Target \in known /\ sess[Target].removeTag
       THEN known' = known \ {Target} /\ ChangeSession(Target, NewSession)
       ELSE UNCHANGED <<known, sess>>
  /\ UNCHANGED <<opQue, msgQue, stage>>

ExecuteOperation ==
  \/ ExecSend \/ ExecSendAndClose \/ ExecDisconnect \/ ExecConnect
  \/ ExecClientClose \/ ExecRemoveSession \/ ExecDeleteSession

-----------------------------------------------------------------------------
\* onTimerUpdateRun.

\* The elements of ids in the order of std::map (one sequence).
Ascending(ids) ==
  {q \in [1 .. Cardinality(ids) -> ids] :
     /\ \A i, j \in DOMAIN q : i < j => q[i] < q[j]
     /\ {q[i] : i \in DOMAIN q} = ids}

\* Mutants: the tag is not looked at; the disconnected sessions are forgotten.
AwaitsRemovalAgain(id) == id \in known /\ sess[id].connectState = "DISCONNECT"
AwaitsRemovalNever(id) == id \notin known

\* A session that is disconnected and whose removal has not begun.
AwaitsRemoval(id) ==
  id \in known /\ sess[id].connectState = "DISCONNECT" /\ ~sess[id].removeTag

AllSessionsGone == known = {}

\* CLEAR_SESSION: disconnect what is connected, hand over for removal what is
\* disconnected, and go on once every session is gone.
ClearSessions ==
  /\ stage = "CLEAR_SESSION"
  /\ \E gone \in Ascending({id \in SessionIds : AwaitsRemoval(id)}) :
       PushMsgs([i \in DOMAIN gone |-> SessionMsg("REMOVE_SESSION", gone[i])])
  /\ sess' = [id \in SessionIds |->
                IF id \in known /\ sess[id].connectState = "CONNECT"
                  THEN ExecuteDisconnect([sess[id] EXCEPT !.removeTag = TRUE], "FIN_WAIT")
                ELSE IF AwaitsRemoval(id) THEN [sess[id] EXCEPT !.removeTag = TRUE]
                ELSE sess[id]]
  /\ stage' = IF AllSessionsGone THEN "WAIT_EXIT" ELSE stage
  /\ UNCHANGED loop

\* WAIT_EXIT: the timers and the loop are stopped.
StopLoop ==
  /\ stage = "WAIT_EXIT"
  /\ loop' = "stopped"
  /\ UNCHANGED <<msgQue, sess, stage>>

OnTimerUpdateRun ==
  /\ loop = "running" /\ opDispatch = <<>>
  /\ ClearSessions \/ StopLoop
  /\ UNCHANGED <<appVars, opQue, opDispatch, msgDispatch, known>>

\* run: uv_run has returned.
RunEnds ==
  /\ loop = "stopped"
  /\ loop' = "ended"
  /\ stage' = "STOP"
  /\ PushMsgs(<<[msg |-> "EXIT_LOOP"]>>)
  /\ UNCHANGED <<appVars, opQue, opDispatch, msgDispatch, known, sess>>

-----------------------------------------------------------------------------
\* The timer, the datagrams and the close callback of the socket of id.

SocketCallback(id) ==
  /\ loop # "ended" /\ opDispatch = <<>>
  /\ id \in known
  /\ UNCHANGED <<appVars, opQue, opDispatch, msgDispatch, stage, loop, known>>

\* idleLogic: ikcp_update flushes, in ESTABLISHED only.
Flush(id) ==
  /\ SocketCallback(id)
  /\ sess[id].state = "ESTABLISHED" /\ sess[id].unsent
  /\ ChangeSession(id, [sess[id] EXCEPT !.unsent = FALSE])
  /\ UNCHANGED msgQue

\* onSocketConnect: nobody wants the connection any more.
Unwanted(id) == stage # "START" \/ sess[id].removeTag

\* onUdpRead of a right SYN_ACK, connectResult(1), onSocketConnect: a connection
\* nobody wants is closed without a word to the application.  Only the value of
\* the SYN_ACK is checked: its conv may be 0, or no number, which is read as 0.
OnSynAck(id) ==
  /\ SocketCallback(id)
  /\ sess[id].state = "SYN_SENT" /\ sess[id].udp = "open"
  /\ \E conv \in BOOLEAN :
       LET s == [sess[id] EXCEPT !.state = "ESTABLISHED", !.connectState = "CONNECT",
                                 !.online = TRUE, !.hasConv = conv] IN
       IF Unwanted(id)
         THEN ChangeSession(id, ExecuteDisconnect(s, "FIN_WAIT")) /\ UNCHANGED msgQue
         ELSE ChangeSession(id, s) /\ PushMsgs(<<SessionMsg("CONNECT", id)>>)

\* connectResult(0) after a SYN_ACK with another value, or connectResult(2)
\* after three seconds: onSocketConnect tells it, also of a tagged session, and
\* the socket closes.
OnConnectFailed(id) ==
  /\ SocketCallback(id)
  /\ sess[id].state = "SYN_SENT" /\ sess[id].udp = "open"
  /\ ChangeSession(id, [sess[id] EXCEPT !.online = FALSE, !.connectState = "DISCONNECT",
                                        !.state = "CLOSED", !.udp = "closing",
                                        !.hasConv = FALSE])
  /\ \E m \in {"CONNECT_FAIL", "CONNECT_TIMOUT"} : PushMsgs(<<SessionMsg(m, id)>>)

\* Data from ikcp; the model bounds what is queued unread.
OnRecv(id) ==
  /\ SocketCallback(id)
  /\ sess[id].state = "ESTABLISHED"
  /\ \A i \in DOMAIN msgQue : msgQue[i].msg # "RECV_DATA"
  /\ IF sess[id].online THEN PushMsgs(<<SessionMsg("RECV_DATA", id)>>)
                        ELSE UNCHANGED msgQue
  /\ UNCHANGED sess

\* The socket disconnects on its own: the peer's FIN, or a minute's silence.
PeerLeaves(id) ==
  /\ SocketCallback(id)
  /\ sess[id].state = "ESTABLISHED"
  /\ ChangeSession(id, SocketDisconnect(sess[id], "FIN_WAIT"))
  /\ UNCHANGED msgQue

\* shutdownSocket in FIN_WAIT: the peer's FIN, or a second has passed.
Shutdown(id) ==
  /\ SocketCallback(id)
  /\ sess[id].state = "FIN_WAIT" /\ sess[id].udp = "open"
  /\ ChangeSession(id, [sess[id] EXCEPT !.udp = "closing", !.unsent = FALSE, !.hasConv = FALSE])
  /\ UNCHANGED msgQue

\* onSessionClose: the close is reported, and then the removal it completes.
CloseMsgs(id) ==
  <<SessionMsg("DIS_CONNECT", id)>>
  \o IF sess[id].removeTag THEN <<SessionMsg("REMOVE_SESSION", id)>> ELSE <<>>

\* Mutant: m_closeCall is made in every state.
OnCloseTellsAlways(id) ==
  /\ SocketCallback(id)
  /\ sess[id].udp = "closing"
  /\ ChangeSession(id, [SocketClosed(sess[id]) EXCEPT
                          !.connectState = "DISCONNECT", !.state = "CLOSED", !.udp = "none"])
  /\ PushMsgs(CloseMsgs(id))

\* onCloseSocketFinished: m_closeCall, which is on_socket_close and
\* onSessionClose, in FIN_WAIT only.
OnClose(id) ==
  /\ SocketCallback(id)
  /\ sess[id].udp = "closing"
  /\ LET s == [sess[id] EXCEPT !.state = "CLOSED", !.udp = "none"] IN
       IF sess[id].state = "FIN_WAIT"
         THEN /\ ChangeSession(id, [SocketClosed(s) EXCEPT !.connectState = "DISCONNECT"])
              /\ PushMsgs(CloseMsgs(id))
         ELSE ChangeSession(id, s) /\ UNCHANGED msgQue

-----------------------------------------------------------------------------
Application ==
  \/ \E id \in SessionIds :
       \/ Connect(id) \/ Disconnect(id) \/ Send(id) \/ SendAndClose(id)
       \/ RemoveSession(id)
  \/ CloseClient \/ Destroy \/ JoinReturns
  \/ GetThreadMsg \/ DispatchMsg

LoopThread ==
  \/ DrainOperations \/ ExecuteOperation
  \/ OnTimerUpdateRun \/ RunEnds
  \/ \E id \in SessionIds :
       \/ Flush(id) \/ OnSynAck(id) \/ OnConnectFailed(id) \/ OnRecv(id)
       \/ PeerLeaves(id) \/ Shutdown(id) \/ OnClose(id)

Next == Application \/ LoopThread

\* The application goes on polling; the timers of the loop and of the sockets
\* fire, those that end a handshake included, and libuv calls back the close.
\* No datagram need ever arrive.
Fairness ==
  /\ WF_vars(GetThreadMsg) /\ WF_vars(DispatchMsg) /\ WF_vars(JoinReturns)
  /\ WF_vars(DrainOperations) /\ WF_vars(ExecuteOperation)
  /\ WF_vars(OnTimerUpdateRun) /\ WF_vars(RunEnds)
  /\ \A id \in SessionIds :
       WF_vars(OnConnectFailed(id)) /\ WF_vars(Shutdown(id)) /\ WF_vars(OnClose(id))

SafeSpec == Init /\ [][Next]_vars
Spec     == SafeSpec /\ Fairness

-----------------------------------------------------------------------------
\* Safety.

MsgsAhead == msgDispatch \o msgQue
OpsAhead  == opDispatch \o opQue

\* The four records of one connection agree: connectState of the client,
\* m_isOnline of the session, m_kcpState and m_udp of the socket are written by
\* different callbacks, and each decision above reads one of them alone.  A
\* socket without a conv does not follow its session: the disconnect takes the
\* session offline and leaves the socket ESTABLISHED.
SocketAgrees(s) ==
  /\ s.connectState = "CONNECTING" <=> s.state = "SYN_SENT"
  /\ s.connectState = "DISCONNECT" <=> s.state = "CLOSED"
  /\ s.state = "ESTABLISHED" /\ s.hasConv => s.online /\ s.connectState = "CONNECT"
  /\ s.hasConv => s.udp = "open" /\ s.state \in {"ESTABLISHED", "FIN_WAIT"}
  /\ s.online => s.connectState = "CONNECT" /\ s.state \in {"ESTABLISHED", "FIN_WAIT"}
  /\ s.state \in {"SYN_SENT", "ESTABLISHED"} => s.udp = "open"
  /\ s.state = "CLOSED" => s.udp # "open"

\* The messages and the operations by which id is on its way out.
Removals(id) ==
  Cardinality({i \in DOMAIN MsgsAhead : MsgsAhead[i] = SessionMsg("REMOVE_SESSION", id)})
  + Cardinality({i \in DOMAIN OpsAhead : OpsAhead[i] = SessionOp("DELETE_SESSION", id)})

\* Three places start a removal (the operation, the close callback, the timer):
\* they never start it twice; its message is the last of the session, so that
\* every Session* still to be dispatched is good; and when the session is freed
\* its socket has no handle, as ~KCPSocket asserts.
RemovalOnce ==
  /\ \A id \in known : SocketAgrees(sess[id])
  /\ \A i \in DOMAIN MsgsAhead :
       MsgsAhead[i].msg # "EXIT_LOOP" => MsgsAhead[i].id \in known
  /\ \A id \in SessionIds :
       /\ Removals(id) <= 1
       /\ Removals(id) = 1 /\ app # "gone" =>
            id \in known /\ sess[id].removeTag /\ sess[id].state = "CLOSED"
       /\ \A i, j \in DOMAIN MsgsAhead :
            i < j /\ MsgsAhead[i] = SessionMsg("REMOVE_SESSION", id) =>
              MsgsAhead[j].msg = "EXIT_LOOP" \/ MsgsAhead[j].id # id
  /\ opDispatch # <<>> /\ Head(opDispatch).op = "DELETE_SESSION" =>
       sess[Target].udp = "none"

\* The callbacks of the application come in the order of SessionContract, as
\* those of TCPClient do.
Promise == INSTANCE SessionContract WITH
  view <- contract.view, asked <- contract.asked, closed <- contract.closed

Promised(m) ==
  CASE m.msg = "EXIT_LOOP"      -> Promise!OnClose
    [] m.msg = "CONNECT"        -> Promise!OnConnect(m.id)
    [] m.msg = "RECV_DATA"      -> Promise!OnRecv(m.id)
    [] m.msg = "DIS_CONNECT"    -> Promise!OnDisconnect(m.id)
    [] m.msg = "REMOVE_SESSION" -> Promise!OnRemove(m.id)
    [] m.msg \in {"CONNECT_FAIL", "CONNECT_TIMOUT"} -> Promise!OnConnectFail(m.id)

ImplementsContract ==
  Promise!Spec /\ [][DispatchMsg => Promised(Head(msgDispatch))]_vars

\* What the header says of KCP_CLI_OP_SEND_AND_CLOSE, "send & close": with no
\* disconnect but its own, a session leaves ESTABLISHED by an operation only
\* when the data has left.
SendsBeforeClose ==
  [][\A id \in SessionIds :
       ExecDisconnect /\ sess[id].state = "ESTABLISHED" /\ sess'[id].state = "FIN_WAIT" =>
         ~sess[id].unsent]_vars

-----------------------------------------------------------------------------
\* Liveness.

\* A session tagged for removal, disconnected, and on its way to nowhere.
Orphan(id) == /\ id \in known
              /\ sess[id].removeTag /\ sess[id].connectState = "DISCONNECT"
              /\ Removals(id) = 0

\* A connection without a conv: its socket's disconnect does nothing, whoever
\* calls it: the session, the peer's FIN or a minute's silence.
NeverCloses(id) == sess[id].state = "ESTABLISHED" /\ ~sess[id].hasConv

\* closeClient ends with the close callback, ~KCPClient returns: unless an
\* orphan or a connection without a conv keeps the session map from emptying, or
\* the application waits in the destructor for a session whose removal only its
\* own updateFrame can confirm.
ShutdownEnds ==
  isStop ~> \/ contract.closed
            \/ app = "gone"
            \/ \E id \in known : Orphan(id) \/ NeverCloses(id)
            \/ app = "joining" /\ \E id \in known :
                 \E i \in DOMAIN MsgsAhead : MsgsAhead[i] = SessionMsg("REMOVE_SESSION", id)
=============================================================================
