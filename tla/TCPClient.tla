----------------------------- MODULE TCPClient -----------------------------
(***************************************************************************)
(* The TCP client of net_uv: TCPClient, its TCPSession and TCPSocket       *)
(* objects and the libuv callbacks that drive them.                        *)
(*                                                                         *)
(* Two threads.  The APPLICATION's thread calls connect, send, disconnect, *)
(* removeSession, closeClient (each pushes an operation) and polls         *)
(* updateFrame, which makes the callbacks.  The LOOP thread runs           *)
(* executeOperation every millisecond, onTimerUpdateRun every 100, and the *)
(* callbacks of the sockets.  They share opQue and msgQue, each with a     *)
(* private dispatch queue, as in ThreadQueue; a push is one step here.     *)
(*                                                                         *)
(* Abstracted: addresses and data; the writes of send(), whose completion  *)
(* changes nothing; setSocketKeepAlive, the twin of setSocketNoDelay.      *)
(***************************************************************************)
EXTENDS Naturals, Integers, Sequences, FiniteSets, TCPSession

CONSTANTS
  SessionIds,   \* uint32_t ids chosen by the application
  Api,          \* the calls this application makes
  MaxCalls,     \* bound: API calls of a behaviour
  MaxRecv       \* bound: RECV_DATA messages queued at a time

ASSUME SessionIdsAssumption == SessionIds \subseteq Nat /\ IsFiniteSet(SessionIds)
ASSUME BoundsAssumption     == MaxCalls \in Nat /\ MaxRecv \in Nat

VARIABLES
  app,           \* the application: "up", "joining" in ~TCPClient, "gone"
  calls,         \* API calls made so far
  isStop,        \* m_isStop
  enableNoDelay, \* m_enableNoDelay
  opQue,         \* m_operationQue
  opDispatch,    \* m_operationDispatchQue
  msgQue,        \* m_msgQue
  msgDispatch,   \* m_msgDispatchQue
  stage,         \* m_clientStage
  loop,          \* uv_run: "running", "stopped" by uv_stop, "ended"
  known,         \* the keys of m_allSessionMap
  sess,          \* sess[id]: clientSessionData with its session and socket
  inst,          \* inst[id]: session objects made for id: the latest is live
  conns,         \* conns[id]: connections made for id (history)
  contract       \* what the application has seen and asked (history)

sharedVars  == <<opQue, opDispatch, msgQue, msgDispatch>>
appVars     == <<app, calls, isStop, enableNoDelay, contract>>
sessionVars == <<known, sess, inst, conns>>
vars == <<appVars, sharedVars, stage, loop, sessionVars>>

States  == {"CONNECT", "CONNECTING", "DISCONNECTING", "DISCONNECT"}

Session == [connectState : States, removeTag : BOOLEAN, online : BOOLEAN,
            handle : Handles, noDelay : BOOLEAN, closers : Nat]

Stages  == {"START", "CLEAR_SESSION", "WAIT_EXIT", "STOP"}

SessionOps == {"CONNECT", "SENDDATA", "SEND_CLOSE", "DISCONNECT",
               "REMOVE_SESSION", "DELETE_SESSION"}
ClientOps  == {"SET_NO_DELAY", "CLIENT_CLOSE"}

\* conn = 0: the application's; else the connection whose sendAndClose asked.
Op  == [op : SessionOps, id : SessionIds, conn : Nat] \cup [op : ClientOps]

SessionMsgs == {"CONNECT", "CONNECT_FAIL", "CONNECT_TIMOUT", "RECV_DATA",
                "DIS_CONNECT", "REMOVE_SESSION"}
Msg == [msg : SessionMsgs, id : SessionIds, inst : Nat] \cup [msg : {"EXIT_LOOP"}]

Contract == [view : [SessionIds -> {"absent", "down", "up"}],
             asked : SUBSET SessionIds, closed : BOOLEAN]

TypeOK ==
  /\ app \in {"up", "joining", "gone"}
  /\ calls \in 0 .. MaxCalls
  /\ isStop \in BOOLEAN
  /\ enableNoDelay \in BOOLEAN
  /\ opQue \in Seq(Op) /\ opDispatch \in Seq(Op)
  /\ msgQue \in Seq(Msg) /\ msgDispatch \in Seq(Msg)
  /\ stage \in Stages
  /\ loop \in {"running", "stopped", "ended"}
  /\ known \subseteq SessionIds
  /\ sess \in [SessionIds -> Session]
  /\ inst \in [SessionIds -> Nat]
  /\ conns \in [SessionIds -> Nat]
  /\ contract \in Contract

\* createSession, init and clientSessionData: the state of a new session.
NewSession == [connectState |-> "CONNECTING", removeTag |-> FALSE,
               online |-> FALSE, handle |-> "none", noDelay |-> FALSE,
               closers |-> 0]

Init ==
  /\ app = "up"
  /\ calls = 0
  /\ isStop = FALSE
  /\ enableNoDelay = TRUE
  /\ opQue = <<>> /\ opDispatch = <<>>
  /\ msgQue = <<>> /\ msgDispatch = <<>>
  /\ stage = "START"
  /\ loop = "running"
  /\ known = {}
  /\ sess = [id \in SessionIds |-> NewSession]
  /\ inst = [id \in SessionIds |-> 0]
  /\ conns = [id \in SessionIds |-> 0]
  /\ contract = [view |-> [id \in SessionIds |-> "absent"], asked |-> {},
                 closed |-> FALSE]

-----------------------------------------------------------------------------
\* The two queues.

PushOp(o)     == opQue' = Append(opQue, o)
PushMsgs(ms)  == msgQue' = msgQue \o ms
SessionOp(o, id)  == [op |-> o, id |-> id, conn |-> 0]
SessionMsg(m, id) == [msg |-> m, id |-> id, inst |-> inst[id]]

-----------------------------------------------------------------------------
\* The application's calls.

Calls(call) == /\ app = "up"
               /\ call \in Api
               /\ calls < MaxCalls
               /\ calls' = calls + 1

\* connect, disconnect, send, sendAndClose: dropped once closeClient was called.
Request(call, op, id) ==
  /\ Calls(call)
  /\ ~isStop
  /\ PushOp(SessionOp(op, id))
  /\ UNCHANGED <<app, isStop, enableNoDelay, contract, opDispatch, msgQue,
                 msgDispatch, stage, loop, sessionVars>>

Connect(id)      == Request("connect", "CONNECT", id)
Disconnect(id)   == Request("disconnect", "DISCONNECT", id)
Send(id)         == Request("send", "SENDDATA", id)
SendAndClose(id) == Request("sendAndClose", "SEND_CLOSE", id)

\* removeSession does not look at m_isStop.
RemoveSession(id) ==
  /\ Calls("removeSession")
  /\ PushOp(SessionOp("REMOVE_SESSION", id))
  /\ contract' = [contract EXCEPT !.asked = @ \cup {id}]
  /\ UNCHANGED <<app, isStop, enableNoDelay, opDispatch, msgQue, msgDispatch,
                 stage, loop, sessionVars>>

\* setSocketNoDelay: the flag, with no lock, and then the operation, in one step;
\* a connect that reads the flag between the two reads the application's value.
SetSocketNoDelay ==
  /\ Calls("setSocketNoDelay")
  /\ ~isStop
  /\ enableNoDelay' = ~enableNoDelay
  /\ PushOp([op |-> "SET_NO_DELAY"])
  /\ UNCHANGED <<app, isStop, contract, opDispatch, msgQue, msgDispatch, stage,
                 loop, sessionVars>>

\* closeClient: the flag first, then the operation; nothing the second time.
StopAndPush ==
  /\ isStop' = TRUE
  /\ IF isStop THEN UNCHANGED opQue ELSE PushOp([op |-> "CLIENT_CLOSE"])
  /\ contract' = [contract EXCEPT !.asked = SessionIds]
  /\ UNCHANGED <<enableNoDelay, opDispatch, msgQue, msgDispatch, stage, loop,
                 sessionVars>>

CloseClient == Calls("closeClient") /\ ~isStop /\ StopAndPush /\ UNCHANGED app

\* ~TCPClient: closeClient, then join: the application is blocked, and polls
\* no more, until the loop thread has ended.  Not from inside a callback.
Destroy == /\ Calls("destroy")
           /\ msgDispatch = <<>>
           /\ StopAndPush
           /\ app' = "joining"

\* join returns; clearData frees what is left.
JoinReturns ==
  /\ app = "joining"
  /\ loop = "ended"
  /\ app' = "gone"
  /\ opQue' = <<>>
  /\ msgQue' = <<>>
  /\ known' = {}
  /\ UNCHANGED <<calls, isStop, enableNoDelay, contract, opDispatch,
                 msgDispatch, stage, loop, sess, inst, conns>>

-----------------------------------------------------------------------------
\* updateFrame.

\* getThreadMsg: the whole message queue becomes the dispatch queue.
GetThreadMsg ==
  /\ app = "up"
  /\ msgDispatch = <<>> /\ msgQue # <<>>
  /\ msgDispatch' = msgQue
  /\ msgQue' = <<>>
  /\ UNCHANGED <<appVars, opQue, opDispatch, stage, loop, sessionVars>>

\* What a callback tells the application.
Told(m) ==
  IF m.msg = "EXIT_LOOP"
    THEN [contract EXCEPT !.closed = TRUE]
    ELSE [contract EXCEPT
            !.view[m.id] = CASE m.msg = "CONNECT"        -> "up"
                             [] m.msg = "RECV_DATA"      -> @
                             [] m.msg = "REMOVE_SESSION" -> "absent"
                             [] OTHER                    -> "down"]

\* One turn of the switch: the callback; after REMOVE_SESSION the operation
\* that lets the loop thread free the session.  The calls the application
\* makes from a callback are calls before this step.
DispatchMsg ==
  /\ app = "up"
  /\ msgDispatch # <<>>
  /\ LET m == Head(msgDispatch) IN
       /\ contract' = Told(m)
       /\ IF m.msg = "REMOVE_SESSION"
            THEN PushOp(SessionOp("DELETE_SESSION", m.id))
            ELSE UNCHANGED opQue
  /\ msgDispatch' = Tail(msgDispatch)
  /\ UNCHANGED <<app, calls, isStop, enableNoDelay, opDispatch, msgQue, stage,
                 loop, sessionVars>>

-----------------------------------------------------------------------------
\* TCPSocket as the client uses it, on the loop thread.

\* TCPSocket::connect accepted by libuv: a new handle unless there is one.
Connecting(s) ==
  [s EXCEPT !.handle = "connecting", !.connectState = "CONNECTING",
            !.noDelay = IF HasTcp(s) THEN @ ELSE FALSE]

\* Mutant: the options are left as libuv makes them.
ApplyNothing(s) == s

\* onSocketConnect sets the options of a new connection.
ApplyOptions(s) == [s EXCEPT !.noDelay = enableNoDelay]

-----------------------------------------------------------------------------
\* executeOperation.

\* Mutant: one operation is taken over per tick.
DrainFirst ==
  /\ loop = "running"
  /\ opDispatch = <<>> /\ opQue # <<>>
  /\ opDispatch' = <<Head(opQue)>>
  /\ opQue' = Tail(opQue)
  /\ UNCHANGED <<appVars, msgQue, msgDispatch, stage, loop, sessionVars>>

\* The whole operation queue becomes the dispatch queue.
DrainOperations ==
  /\ loop = "running"
  /\ opDispatch = <<>> /\ opQue # <<>>
  /\ opDispatch' = opQue
  /\ opQue' = <<>>
  /\ UNCHANGED <<appVars, msgQue, msgDispatch, stage, loop, sessionVars>>

\* The front of the dispatch queue is an operation o; it is popped.
Executes(o) ==
  /\ opDispatch # <<>>
  /\ Head(opDispatch).op = o
  /\ opDispatch' = Tail(opDispatch)
  /\ UNCHANGED <<appVars, opQue, msgDispatch, loop>>

Target == Head(opDispatch).id

ChangeSession(id, s) == sess' = [sess EXCEPT ![id] = s]

ExecSend ==
  /\ Executes("SENDDATA")
  /\ LET s == sess[Target] IN
       IF Target \in known /\ ~s.removeTag
         THEN \E t \in AfterSend(s) : ChangeSession(Target, t)
         ELSE UNCHANGED sess
  /\ UNCHANGED <<msgQue, stage, known, inst, conns>>

ExecSendAndClose ==
  /\ Executes("SEND_CLOSE")
  /\ LET s == sess[Target] IN
       IF Target \in known /\ ~s.removeTag
         THEN \E t \in AfterSendAndClose(s) : ChangeSession(Target, t)
         ELSE UNCHANGED sess
  /\ UNCHANGED <<msgQue, stage, known, inst, conns>>

\* DISCONNECT: only a connected session; a connecting one stays as it is.
ExecDisconnect ==
  /\ Executes("DISCONNECT")
  /\ LET s == sess[Target] IN
       IF Target \in known /\ s.connectState = "CONNECT"
         THEN ChangeSession(Target,
                ExecuteDisconnect([s EXCEPT !.connectState = "DISCONNECTING"]))
         ELSE UNCHANGED sess
  /\ UNCHANGED <<msgQue, stage, known, inst, conns>>

\* createNewConnect for a new id: session and socket are made and the connect
\* is started; an address or connect error is reported at once.
CreateSession ==
  /\ Target \notin known
  /\ known' = known \cup {Target}
  /\ inst' = [inst EXCEPT ![Target] = @ + 1]
  /\ \/ ChangeSession(Target, Connecting(NewSession)) /\ UNCHANGED msgQue
     \/ /\ ChangeSession(Target, [NewSession EXCEPT !.connectState = "DISCONNECT"])
        /\ PushMsgs(<<[msg |-> "CONNECT_FAIL", id |-> Target, inst |-> inst'[Target]]>>)

\* createNewConnect for an id it knows: only a disconnected session that is
\* not being removed connects again; any other request is dropped.
Reconnect ==
  /\ Target \in known
  /\ LET s == sess[Target] IN
       IF s.removeTag \/ s.connectState # "DISCONNECT"
         THEN UNCHANGED <<sess, msgQue>>
         ELSE \/ ChangeSession(Target, Connecting(s)) /\ UNCHANGED msgQue
              \/ /\ ChangeSession(Target, ExecuteDisconnect(s))
                 /\ PushMsgs(<<SessionMsg("CONNECT_FAIL", Target)>>)
  /\ UNCHANGED <<known, inst>>

ExecConnect == /\ Executes("CONNECT")
               /\ CreateSession \/ Reconnect
               /\ UNCHANGED <<stage, conns>>

\* SET_NO_DELAY: the value the flag has NOW, on every socket.
ExecSetNoDelay ==
  /\ Executes("SET_NO_DELAY")
  /\ sess' = [id \in SessionIds |->
                IF id \in known /\ ~sess[id].removeTag /\ HasTcp(sess[id])
                  THEN [sess[id] EXCEPT !.noDelay = enableNoDelay]
                  ELSE sess[id]]
  /\ UNCHANGED <<msgQue, stage, known, inst, conns>>

ExecClientClose ==
  /\ Executes("CLIENT_CLOSE")
  /\ stage' = "CLEAR_SESSION"
  /\ UNCHANGED <<msgQue, sessionVars>>

\* REMOVE_SESSION: tag the session; one that is disconnected already is handed
\* to the application for removal now, any other when its close is reported.
ExecRemoveSession ==
  /\ Executes("REMOVE_SESSION")
  /\ LET s == sess[Target] IN
       IF Target \notin known THEN UNCHANGED <<sess, msgQue>>
       ELSE IF s.connectState # "DISCONNECT"
         THEN /\ ChangeSession(Target, ExecuteDisconnect([s EXCEPT !.removeTag = TRUE]))
              /\ UNCHANGED msgQue
         ELSE /\ ChangeSession(Target, [s EXCEPT !.removeTag = TRUE])
              /\ IF s.removeTag THEN UNCHANGED msgQue
                 ELSE PushMsgs(<<SessionMsg("REMOVE_SESSION", Target)>>)
  /\ UNCHANGED <<stage, known, inst, conns>>

\* DELETE_SESSION: free a tagged session (~TCPSocket closes a handle that is
\* left over, and hears nothing of it).
ExecDeleteSession ==
  /\ Executes("DELETE_SESSION")
  /\ IF Target \in known /\ sess[Target].removeTag
       THEN known' = known \ {Target} /\ ChangeSession(Target, NewSession)
       ELSE UNCHANGED <<known, sess>>
  /\ UNCHANGED <<msgQue, stage, inst, conns>>

ExecuteOperation ==
  \/ ExecSend \/ ExecSendAndClose \/ ExecDisconnect \/ ExecConnect
  \/ ExecSetNoDelay \/ ExecClientClose \/ ExecRemoveSession \/ ExecDeleteSession

-----------------------------------------------------------------------------
\* onTimerUpdateRun.

\* The elements of ids in the order of std::map (one sequence).
Ascending(ids) ==
  {q \in [1 .. Cardinality(ids) -> ids] :
     /\ \A i, j \in DOMAIN q : i < j => q[i] < q[j]
     /\ {q[i] : i \in DOMAIN q} = ids}

\* Mutants: the tag is not looked at; the disconnected sessions are forgotten.
AwaitsRemovalAgain(id) == id \in known /\ sess[id].connectState = "DISCONNECT"
AwaitsRemovalNever(id) == id \notin known

\* A session that is disconnected and whose removal has not begun.
AwaitsRemoval(id) ==
  id \in known /\ sess[id].connectState = "DISCONNECT" /\ ~sess[id].removeTag

\* Mutant: the timer waits for the connections, not for the removals.
NothingConnected == \A id \in known : sess[id].connectState = "DISCONNECT"

AllSessionsGone == known = {}

\* CLEAR_SESSION: disconnect what is connected, hand over for removal what is
\* disconnected, and go on once every session is gone.
ClearSessions ==
  /\ stage = "CLEAR_SESSION"
  /\ \E gone \in Ascending({id \in SessionIds : AwaitsRemoval(id)}) :
       PushMsgs([i \in DOMAIN gone |-> SessionMsg("REMOVE_SESSION", gone[i])])
  /\ sess' = [id \in SessionIds |->
                IF id \in known /\ sess[id].connectState = "CONNECT"
                  THEN ExecuteDisconnect([sess[id] EXCEPT !.removeTag = TRUE])
                ELSE IF AwaitsRemoval(id) THEN [sess[id] EXCEPT !.removeTag = TRUE]
                ELSE sess[id]]
  /\ stage' = IF AllSessionsGone THEN "WAIT_EXIT" ELSE stage
  /\ UNCHANGED loop

\* WAIT_EXIT: the timers and the loop are stopped.
StopLoop ==
  /\ stage = "WAIT_EXIT"
  /\ loop' = "stopped"
  /\ UNCHANGED <<msgQue, sess, stage>>

\* A timer or socket callback runs between two batches of operations.
OnTimerUpdateRun ==
  /\ loop = "running" /\ opDispatch = <<>>
  /\ ClearSessions \/ StopLoop
  /\ UNCHANGED <<appVars, opQue, opDispatch, msgDispatch, known, inst, conns>>

\* run: uv_run has returned.
RunEnds ==
  /\ loop = "stopped"
  /\ loop' = "ended"
  /\ stage' = "STOP"
  /\ PushMsgs(<<[msg |-> "EXIT_LOOP"]>>)
  /\ UNCHANGED <<appVars, opQue, opDispatch, msgDispatch, sessionVars>>

-----------------------------------------------------------------------------
\* The libuv callbacks of the session id.

SocketCallback(id) ==
  /\ loop # "ended" /\ opDispatch = <<>>
  /\ id \in known
  /\ UNCHANGED <<appVars, opDispatch, msgDispatch, stage, loop, known, inst>>

\* errno.h: ETIMEDOUT is positive; libuv reports UV_ETIMEDOUT, its negative.
ETIMEDOUT    == 110
UV_ETIMEDOUT == -110
UV_ECONNREFUSED == -111

\* uv_on_after_connect: the status handed to onSocketConnect.
ConnectStatus(status, readStarted) ==
  IF status = 0 THEN IF readStarted THEN 1 ELSE 0
  ELSE IF status = ETIMEDOUT THEN 2 ELSE 0

ConnectMsg(status) == CASE status = 0 -> "CONNECT_FAIL"
                        [] status = 1 -> "CONNECT"
                        [] status = 2 -> "CONNECT_TIMOUT"

\* onSocketConnect: a connection nobody wants any more (the client is closing
\* or the session is tagged) is closed without a word to the application.
OnSocketConnect(id, status, readStarted) ==
  /\ SocketCallback(id)
  /\ sess[id].handle = "connecting"
  /\ LET answer   == ConnectStatus(status, readStarted)
         suc      == answer = 1
         unwanted == suc /\ (stage # "START" \/ sess[id].removeTag)
         s == [sess[id] EXCEPT !.online = suc,
                               !.connectState = IF suc THEN "CONNECT" ELSE "DISCONNECT",
                               !.handle = IF suc THEN "open" ELSE "failed"]
     IN /\ ChangeSession(id, IF unwanted THEN ExecuteDisconnect(s)
                             ELSE IF suc THEN ApplyOptions(s) ELSE s)
        /\ IF unwanted THEN UNCHANGED msgQue
           ELSE PushMsgs(<<SessionMsg(ConnectMsg(answer), id)>>)
        /\ conns' = IF suc THEN [conns EXCEPT ![id] = @ + 1] ELSE conns
  /\ UNCHANGED opQue

\* uv_on_after_read with data; the model bounds what is queued unread.
OnRead(id) ==
  /\ SocketCallback(id)
  /\ sess[id].handle = "open"
  /\ Cardinality({i \in DOMAIN msgQue : msgQue[i].msg = "RECV_DATA"}) < MaxRecv
  /\ IF sess[id].online THEN PushMsgs(<<SessionMsg("RECV_DATA", id)>>)
                        ELSE UNCHANGED msgQue
  /\ UNCHANGED <<sess, opQue, conns>>

\* uv_on_after_read, nread <= 0: the peer closed, or the read failed.  The
\* session stays online and CONNECT until its close is reported.
OnReadEnd(id) ==
  /\ SocketCallback(id)
  /\ sess[id].handle = "open"
  /\ ChangeSession(id, ShutdownSocket(sess[id]))
  /\ UNCHANGED <<msgQue, opQue, conns>>

\* The DISCONNECT operations that n completed writes of sendAndClose push:
\* TCPClient::disconnect drops them once the client is closing.
CloserOps(id, n) ==
  [i \in 1 .. IF isStop THEN 0 ELSE n |->
     [op |-> "DISCONNECT", id |-> id, conn |-> conns[id]]]

\* Mutant: every write calls back, also those of send.
OnAnyWriteDone(id) ==
  /\ SocketCallback(id)
  /\ sess[id].handle = "open"
  /\ ChangeSession(id, [sess[id] EXCEPT !.closers = @ - 1])
  /\ opQue' = opQue \o CloserOps(id, 1)
  /\ UNCHANGED <<msgQue, conns>>

\* uv_on_after_write of a sendAndClose.
OnWriteDone(id) ==
  /\ SocketCallback(id)
  /\ sess[id].handle = "open" /\ sess[id].closers > 0
  /\ ChangeSession(id, [sess[id] EXCEPT !.closers = @ - 1])
  /\ opQue' = opQue \o CloserOps(id, 1)
  /\ UNCHANGED <<msgQue, conns>>

\* Mutants of CloseMsgs: the removal is announced first; it is never announced.
CloseMsgsSwapped(id) ==
  (IF sess[id].removeTag THEN <<SessionMsg("REMOVE_SESSION", id)>> ELSE <<>>)
  \o <<SessionMsg("DIS_CONNECT", id)>>
CloseMsgsOnly(id) == <<SessionMsg("DIS_CONNECT", id)>>

\* onSessionClose: the close is reported, and then the removal it completes.
CloseMsgs(id) ==
  <<SessionMsg("DIS_CONNECT", id)>>
  \o IF sess[id].removeTag THEN <<SessionMsg("REMOVE_SESSION", id)>> ELSE <<>>

\* uv_on_close_socket, on_socket_close, onSessionClose.  libuv cancels the
\* writes that are left, and calls them back, just before.
OnClose(id) ==
  /\ SocketCallback(id)
  /\ sess[id].handle = "closing"
  /\ opQue' = opQue \o CloserOps(id, sess[id].closers)
  /\ ChangeSession(id, [SocketClosed(sess[id]) EXCEPT
                          !.connectState = "DISCONNECT", !.noDelay = FALSE])
  /\ PushMsgs(CloseMsgs(id))
  /\ UNCHANGED conns

-----------------------------------------------------------------------------
ConnectAnswered(id) ==
  \E status \in {0, UV_ETIMEDOUT, UV_ECONNREFUSED}, readStarted \in BOOLEAN :
    OnSocketConnect(id, status, readStarted)

Application ==
  \/ \E id \in SessionIds :
       \/ Connect(id) \/ Disconnect(id) \/ Send(id) \/ SendAndClose(id)
       \/ RemoveSession(id)
  \/ SetSocketNoDelay \/ CloseClient \/ Destroy \/ JoinReturns
  \/ GetThreadMsg \/ DispatchMsg

LoopThread ==
  \/ DrainOperations \/ ExecuteOperation
  \/ OnTimerUpdateRun \/ RunEnds
  \/ \E id \in SessionIds :
       \/ ConnectAnswered(id) \/ OnRead(id) \/ OnReadEnd(id)
       \/ OnWriteDone(id) \/ OnClose(id)

Next == Application \/ LoopThread

\* The application goes on polling; the loop thread works off its queue and
\* its timers fire; libuv calls back every close, and the operating system
\* answers every connect in the end.  Nothing makes the peer send, close or
\* read, so the other socket callbacks have no fairness.
Fairness ==
  /\ WF_vars(GetThreadMsg) /\ WF_vars(DispatchMsg) /\ WF_vars(JoinReturns)
  /\ WF_vars(DrainOperations) /\ WF_vars(ExecuteOperation)
  /\ WF_vars(OnTimerUpdateRun) /\ WF_vars(RunEnds)
  /\ \A id \in SessionIds : WF_vars(OnClose(id)) /\ WF_vars(ConnectAnswered(id))

SafeSpec == Init /\ [][Next]_vars
Spec     == SafeSpec /\ Fairness

-----------------------------------------------------------------------------
\* Safety.

QueuedMsgs == {msgDispatch[i] : i \in DOMAIN msgDispatch} \cup {msgQue[i] : i \in DOMAIN msgQue}
QueuedOps  == {opDispatch[i] : i \in DOMAIN opDispatch} \cup {opQue[i] : i \in DOMAIN opQue}

\* The three records of one connection agree in every state the two threads
\* can reach: connectState of the client, m_isOnline of the session and m_tcp
\* of the socket are written by different callbacks, and createNewConnect,
\* REMOVE_SESSION and the timer each decide on one of them alone.
SocketAgrees(s) ==
  /\ s.connectState = "CONNECTING" <=> s.handle = "connecting"
  /\ s.connectState = "DISCONNECT" <=> s.handle \in {"none", "failed"}
  /\ s.handle = "open" => s.online /\ s.connectState = "CONNECT"
  /\ s.online => s.connectState = "CONNECT" /\ s.handle \in {"open", "closing"}
  /\ s.closers > 0 => s.handle \in {"open", "closing"}

SocketState == \A id \in known : SocketAgrees(sess[id])

\* The places of the two queue pairs where the removal of id is under way.
RemovalsInMsgs(id) ==
  {<<"dispatch", i>> : i \in {i \in DOMAIN msgDispatch :
      msgDispatch[i].msg = "REMOVE_SESSION" /\ msgDispatch[i].id = id}} \cup
  {<<"que", i>> : i \in {i \in DOMAIN msgQue :
      msgQue[i].msg = "REMOVE_SESSION" /\ msgQue[i].id = id}}
RemovalsInOps(id) ==
  {<<"dispatch", i>> : i \in {i \in DOMAIN opDispatch :
      opDispatch[i].op = "DELETE_SESSION" /\ opDispatch[i].id = id}} \cup
  {<<"que", i>> : i \in {i \in DOMAIN opQue :
      opQue[i].op = "DELETE_SESSION" /\ opQue[i].id = id}}
Removals(id) == Cardinality(RemovalsInMsgs(id)) + Cardinality(RemovalsInOps(id))

\* A message carries a bare Session*: every one that is still to be dispatched
\* points to the live session object, never to one that executeOperation has
\* freed or to its successor under the same id.  Three places start a removal
\* (the operation, the close callback, the timer): they never start it twice,
\* and while it travels over the application's thread the session has no libuv
\* callback pending that would find it freed.
RemovalOnce ==
  /\ \A m \in QueuedMsgs :
       m.msg # "EXIT_LOOP" => m.id \in known /\ m.inst = inst[m.id]
  /\ \A id \in SessionIds :
       /\ Removals(id) <= 1
       /\ Removals(id) = 1 /\ app # "gone" =>
            /\ id \in known
            /\ sess[id].removeTag
            /\ sess[id].handle \in {"none", "failed"} /\ sess[id].closers = 0

\* enableNoDelay is written by the application and read by the loop thread
\* when a connect completes and when SET_NO_DELAY is executed: once no such
\* operation is queued every usable socket has the current value.
NoDelayConverges ==
  (\A o \in QueuedOps : o.op # "SET_NO_DELAY") =>
    \A id \in known : sess[id].handle = "open" /\ ~sess[id].removeTag =>
                        sess[id].noDelay = enableNoDelay

-----------------------------------------------------------------------------
\* Action properties.

\* The DISCONNECT that a completed sendAndClose queues closes the connection
\* it was made on, never a later one of the same session id.
CloserHitsOwn ==
  [][ExecDisconnect /\ sess' # sess =>
       Head(opDispatch).conn \in {0, conns[Head(opDispatch).id]}]_vars

\* A session that is tagged for removal, disconnected, and on its way to
\* nowhere: nothing will ever delete it.
Orphan(id) == /\ id \in known
              /\ sess[id].removeTag /\ sess[id].connectState = "DISCONNECT"
              /\ Removals(id) = 0

\* There is one way to lose a session: removeSession while it connects, and
\* then the connect fails (onSocketConnect pushes no REMOVE_SESSION, and the
\* tag keeps everyone else from pushing it).
OrphanCause ==
  [][\A id \in SessionIds : ~Orphan(id) /\ Orphan(id)' =>
       sess[id].connectState = "CONNECTING" /\ sess[id].removeTag]_vars

\* The callbacks of the application come in the order of SessionContract: each
\* one is the contract's, and nothing else changes what it speaks of.
Promise == INSTANCE SessionContract WITH
  view <- contract.view, asked <- contract.asked, closed <- contract.closed

Promised(m) ==
  CASE m.msg = "EXIT_LOOP"      -> Promise!OnClose
    [] m.msg = "CONNECT"        -> Promise!OnConnect(m.id)
    [] m.msg = "RECV_DATA"      -> Promise!OnRecv(m.id)
    [] m.msg = "DIS_CONNECT"    -> Promise!OnDisconnect(m.id)
    [] m.msg = "REMOVE_SESSION" -> Promise!OnRemove(m.id)
    [] m.msg \in {"CONNECT_FAIL", "CONNECT_TIMOUT"} -> Promise!OnConnectFail(m.id)

ImplementsContract ==
  Promise!Spec /\ [][DispatchMsg => Promised(Head(msgDispatch))]_vars

-----------------------------------------------------------------------------
\* Liveness.

\* closeClient ends with the close callback, ~TCPClient returns: unless an
\* orphan keeps the session map from emptying, or the application waits in the
\* destructor for a session whose removal only its own updateFrame can confirm.
ShutdownEnds ==
  isStop ~> \/ contract.closed
            \/ app = "gone"
            \/ \E id \in known : Orphan(id)
            \/ app = "joining" /\ \E id \in known : RemovalsInMsgs(id) # {}
=============================================================================
