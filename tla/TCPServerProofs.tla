-------------------------- MODULE TCPServerProofs --------------------------
(***************************************************************************)
(* The TCP server, for any number of connections and calls and any length  *)
(* of its queues: the types of its variables; SessionAgrees and            *)
(* ShutdownCovers, that a stop reaches every session; and DepartsOnce,     *)
(* that a session is freed once, behind its last message.                  *)
(***************************************************************************)
EXTENDS TCPServer, QueueLemmas

-----------------------------------------------------------------------------
(* What the functions of TCPSession make of a session is a session.        *)
LEMMA SessionTypes ==
  ASSUME NEW s \in Session
  PROVE  /\ ExecuteDisconnect(s) \in Session
         /\ ShutdownSocket(s) \in Session
         /\ [SocketClosed(s) EXCEPT !.isInvalid = TRUE] \in Session
         /\ AfterSend(s) \subseteq Session
         /\ AfterSendAndClose(s) \subseteq Session
<1> USE DEF Session, Handles, HasTcp, ShutdownSocket
<1>1. ShutdownSocket(s) \in Session
  OBVIOUS
<1>2. ExecuteDisconnect(s) \in Session
  BY DEF ExecuteDisconnect
<1>3. [SocketClosed(s) EXCEPT !.isInvalid = TRUE] \in Session
  BY DEF SocketClosed
<1>4. AfterSend(s) \subseteq Session
  BY <1>2 DEF AfterSend
<1>5. AfterSendAndClose(s) \subseteq Session
  <2>1. [s EXCEPT !.closers = @ + 1] \in Session
    OBVIOUS
  <2>2. QED
    BY <1>2, <2>1 DEF AfterSendAndClose
<1>6. QED
  BY <1>1, <1>2, <1>3, <1>4, <1>5

LEMMA NewSessionType == NewSession \in Session
BY DEF NewSession, Session, Handles

LEMMA SessionMsgType ==
  ASSUME NEW m \in SessionMsgs, NEW id \in Sessions
  PROVE  SessionMsg(m, id) \in Msg
BY DEF SessionMsg, Msg

LEMMA TargetType ==
  ASSUME TypeOK, NEW o \in SessionOps, Executes(o)
  PROVE  Target \in Sessions
<1>1. Head(opDispatch) \in Op
  BY HeadTailProperties DEF TypeOK, Executes
<1>2. QED
  BY <1>1 DEF Executes, Target, Op, SessionOps

LEMMA CloserOpsType ==
  ASSUME NEW id \in Sessions, NEW n \in Nat
  PROVE  CloserOps(id, n) \in Seq(Op)
<1>1. [op |-> "DIS_SESSION", id |-> id] \in Op
  BY DEF Op, SessionOps
<1>2. QED
  BY <1>1 DEF CloserOps

LEMMA PushOpType ==
  ASSUME TypeOK, NEW o \in Op, PushOp(o)
  PROVE  opQue' \in Seq(Op)
<1>1. opQue \in Seq(Op)
  BY DEF TypeOK
<1>2. QED
  BY <1>1, AppendProperties DEF PushOp

LEMMA PushMsgType ==
  ASSUME TypeOK, NEW m \in Msg, PushMsg(m)
  PROVE  msgQue' \in Seq(Msg)
<1>1. msgQue \in Seq(Msg)
  BY DEF TypeOK
<1>2. QED
  BY <1>1, AppendProperties DEF PushMsg

(* Every variable keeps its type.                                          *)

LEMMA TypeInit == Init => TypeOK
<1> SUFFICES ASSUME Init PROVE TypeOK
  OBVIOUS
<1> USE DEF Init
<1>1. contract \in Contract
  BY DEF Contract
<1>2. sess \in [Sessions -> Session]
  BY NewSessionType
<1>3. calls \in 0 .. MaxCalls /\ sessionID \in 0 .. MaxConns
  BY BoundsAssumption
<1>4. QED
  BY <1>1, <1>2, <1>3, EmptySeq DEF TypeOK, Stages

LEMMA TypeApplication ==
  ASSUME TypeOK, Application
  PROVE  TypeOK'
<1> USE DEF TypeOK, appVars, loopVars, connVars
<1>1. ASSUME NEW call, Calls(call) PROVE calls' \in 0 .. MaxCalls
  BY <1>1, BoundsAssumption DEF Calls
<1>2. ASSUME NEW id \in Sessions, NEW call, NEW op \in SessionOps, Request(call, op, id)
      PROVE  TypeOK'
  <2>1. [op |-> op, id |-> id] \in Op
    BY DEF Op
  <2>2. opQue' \in Seq(Op)
    BY <1>2, <2>1, PushOpType DEF Request
  <2>3. QED
    BY <1>1, <1>2, <2>2 DEF Request, Calls
<1>3. ASSUME NEW id \in Sessions, Send(id) \/ SendAndClose(id) \/ Disconnect(id)
      PROVE  TypeOK'
  BY <1>2, <1>3 DEF Send, SendAndClose, Disconnect, SessionOps
<1>4. CASE Start
  BY <1>1, <1>4 DEF Start, Calls, Stages
<1>5. ASSUME StopServer PROVE start' \in BOOLEAN /\ opQue' \in Seq(Op)
  <2>1. [op |-> "STOP_SERVER"] \in Op
    BY DEF Op
  <2>2. QED
    BY <1>5, <2>1, PushOpType DEF StopServer
<1>6. CASE Stop
  BY <1>1, <1>5, <1>6 DEF Stop, Calls
<1>7. CASE Destroy
  BY <1>1, <1>5, <1>7 DEF Destroy
<1>8. CASE JoinReturns
  BY <1>8, EmptySeq DEF JoinReturns
<1>9. CASE GetThreadMsg
  BY <1>9, EmptySeq DEF GetThreadMsg
<1>10. CASE DispatchMsg
  <2> DEFINE m == Head(msgDispatch)
  <2>1. m \in Msg /\ msgDispatch' \in Seq(Msg)
    BY <1>10, HeadTailProperties DEF DispatchMsg
  <2>2. m.msg # "EXIT_LOOP" => m.msg \in SessionMsgs /\ m.id \in Sessions
    BY <2>1 DEF Msg
  <2>3. contract' \in Contract
    <3>1. contract' = Told(m)
      BY <1>10 DEF DispatchMsg
    <3> HIDE DEF m
    <3>2. QED
      BY <2>2, <3>1 DEF Told, Contract, SessionMsgs
  <2>4. opQue' \in Seq(Op)
    <3>1. m.msg = "DIS_CONNECT" => [op |-> "SEND_DIS_SESSION_MSG", id |-> m.id] \in Op
      BY <2>2 DEF Op, SessionOps
    <3>2. QED
      BY <1>10, <3>1, PushOpType DEF DispatchMsg
  <2>5. QED
    BY <1>10, <2>1, <2>3, <2>4 DEF DispatchMsg
<1>11. QED
  BY <1>3, <1>4, <1>6, <1>7, <1>8, <1>9, <1>10 DEF Application

LEMMA TypeExecuteOperation ==
  ASSUME TypeOK, ExecuteOperation
  PROVE  TypeOK'
<1> USE DEF appVars, SessionOps
<1>s. sess \in [Sessions -> Session]
  BY DEF TypeOK
<1>e. ASSUME NEW o, Executes(o), sess' \in [Sessions -> Session], stage' \in Stages,
             allSession' \subseteq Sessions,
             server' \in {"none", "listening", "closing", "closed"}
      PROVE  TypeOK'
  BY <1>e, HeadTailProperties DEF Executes, TypeOK
<1>d. ASSUME DisconnectValid PROVE sess' \in [Sessions -> Session]
  BY <1>d, <1>s, SessionTypes DEF DisconnectValid
<1>1. CASE ExecSend
  <2>1. Target \in Sessions
    BY <1>1, TargetType DEF ExecSend
  <2>2. sess' \in [Sessions -> Session]
    BY <1>1, <1>s, <2>1, SessionTypes DEF ExecSend
  <2>3. QED
    BY <1>1, <1>e, <2>2 DEF ExecSend, TypeOK
<1>2. CASE ExecSendAndClose
  <2>1. Target \in Sessions
    BY <1>2, TargetType DEF ExecSendAndClose
  <2>2. sess' \in [Sessions -> Session]
    BY <1>2, <1>s, <2>1, SessionTypes DEF ExecSendAndClose
  <2>3. QED
    BY <1>2, <1>e, <2>2 DEF ExecSendAndClose, TypeOK
<1>3. CASE ExecDisconnect
  <2>1. Target \in Sessions
    BY <1>3, TargetType DEF ExecDisconnect
  <2>2. sess' \in [Sessions -> Session]
    BY <1>3, <1>s, <2>1, SessionTypes DEF ExecDisconnect
  <2>3. QED
    BY <1>3, <1>e, <2>2 DEF ExecDisconnect, TypeOK
<1>4. CASE ExecDelete
  BY <1>4, <1>e DEF ExecDelete, TypeOK
<1>5. CASE ExecStopServer
  BY <1>5, <1>e, <1>d DEF ExecStopServer, TypeOK, Stages
<1>6. QED
  BY <1>1, <1>2, <1>3, <1>4, <1>5 DEF ExecuteOperation

LEMMA TypeLoop ==
  ASSUME TypeOK, OnIdle \/ OnIdleStage \/ RunReturns \/ RunEnds
  PROVE  TypeOK'
<1> USE DEF TypeOK, appVars, loopVars, connVars, Stages
<1>1. CASE OnIdle
  BY <1>1, EmptySeq DEF OnIdle
<1>2. CASE OnIdleStage
  <2>1. sess' \in [Sessions -> Session]
    BY <1>2, SessionTypes DEF OnIdleStage, ClearSessions, StopLoop, NothingToDo, DisconnectValid
  <2>2. stage' \in Stages /\ timer' \in {"new", "ticking", "stopped"}
        /\ loop' \in {"none", "running", "stopped", "ended"}
    BY <1>2 DEF OnIdleStage, ClearSessions, StopLoop, NothingToDo
  <2>3. QED
    BY <1>2, <2>1, <2>2 DEF OnIdleStage
<1>3. CASE RunReturns
  BY <1>3 DEF RunReturns
<1>4. CASE RunEnds
  <2>1. [msg |-> "EXIT_LOOP"] \in Msg
    BY DEF Msg
  <2>e. PushMsg([msg |-> "EXIT_LOOP"])
    BY <1>4 DEF RunEnds
  <2>2. msgQue' \in Seq(Msg)
    BY <2>1, <2>e, PushMsgType
  <2>3. UNCHANGED <<appVars, stage, timer, loop, server, connVars, opQue, opDispatch,
                    msgDispatch, inIdle>>
    BY <1>4 DEF RunEnds
  <2>4. exiting' \in BOOLEAN
    BY <1>4 DEF RunEnds
  <2>5. QED
    BY <2>2, <2>3, <2>4
<1>5. QED
  BY <1>1, <1>2, <1>3, <1>4

LEMMA TypeCallbacks ==
  ASSUME TypeOK,
         \/ OnNewConnect \/ OnServerSocketClose
         \/ \E id \in Sessions : OnRead(id) \/ OnReadEnd(id) \/ OnWriteDone(id) \/ OnClose(id)
  PROVE  TypeOK'
<1> USE DEF Callback, appVars, connVars
<1>m. ASSUME NEW k \in SessionMsgs, NEW id \in Sessions, PushMsg(SessionMsg(k, id))
      PROVE  msgQue' \in Seq(Msg)
  BY <1>m, SessionMsgType, PushMsgType
<1>s. sess \in [Sessions -> Session]
  BY DEF TypeOK
<1>o. ASSUME NEW id \in Sessions, NEW n \in Nat, opQue' = opQue \o CloserOps(id, n)
      PROVE  opQue' \in Seq(Op)
  BY <1>o, CloserOpsType, ConcatProperties DEF TypeOK
<1>1. CASE OnNewConnect
  <2>1. sessionID \in Sessions /\ sessionID' \in 0 .. MaxConns
    BY <1>1, BoundsAssumption DEF OnNewConnect, TypeOK, Sessions
  <2>2. sess' \in [Sessions -> Session] /\ msgQue' \in Seq(Msg)
    BY <1>1, <1>s, <1>m, <2>1, NewSessionType DEF OnNewConnect, SessionMsgs
  <2>3. QED
    BY <1>1, <2>1, <2>2 DEF OnNewConnect, TypeOK
<1>2. CASE OnServerSocketClose
  BY <1>2 DEF OnServerSocketClose, TypeOK, Stages
<1>3. ASSUME NEW id \in Sessions, OnRead(id) PROVE TypeOK'
  <2>1. msgQue' \in Seq(Msg)
    BY <1>3, <1>m DEF OnRead, SessionMsgs, TypeOK
  <2>2. QED
    BY <1>3, <2>1 DEF OnRead, SocketCallback, TypeOK
<1>4. ASSUME NEW id \in Sessions, OnReadEnd(id) PROVE TypeOK'
  <2>1. sess' \in [Sessions -> Session]
    BY <1>4, <1>s, SessionTypes DEF OnReadEnd
  <2>2. QED
    BY <1>4, <2>1 DEF OnReadEnd, SocketCallback, TypeOK
<1>5. ASSUME NEW id \in Sessions, OnWriteDone(id) PROVE TypeOK'
  <2>1. sess[id].closers - 1 \in Nat
    BY <1>5, <1>s DEF OnWriteDone, Session
  <2>2. sess' \in [Sessions -> Session]
    BY <1>5, <1>s, <2>1 DEF OnWriteDone, Session
  <2>3. opQue' \in Seq(Op)
    BY <1>5, <1>o DEF OnWriteDone
  <2>4. QED
    BY <1>5, <2>2, <2>3 DEF OnWriteDone, SocketCallback, TypeOK
<1>6. ASSUME NEW id \in Sessions, OnClose(id) PROVE TypeOK'
  <2>1. sess[id].closers \in Nat
    BY <1>s DEF Session
  <2>2. sess' \in [Sessions -> Session]
    BY <1>6, <1>s, SessionTypes DEF OnClose
  <2>3. opQue' \in Seq(Op) /\ msgQue' \in Seq(Msg)
    BY <1>6, <1>o, <1>m, <2>1 DEF OnClose, SessionMsgs
  <2>4. QED
    BY <1>6, <2>2, <2>3 DEF OnClose, SocketCallback, TypeOK
<1>7. QED
  BY <1>1, <1>2, <1>3, <1>4, <1>5, <1>6

LEMMA TypeStep == TypeOK /\ [Next]_vars => TypeOK'
<1> SUFFICES ASSUME TypeOK, [Next]_vars PROVE TypeOK'
  OBVIOUS
<1>1. CASE UNCHANGED vars
  BY <1>1 DEF vars, appVars, loopVars, connVars, TypeOK
<1>2. QED
  BY <1>1, TypeApplication, TypeExecuteOperation, TypeLoop, TypeCallbacks
  DEF Next, LoopThread

(* Every variable of the server stays in its domain: in particular every   *)
(* operation and message names a session the server has made room for.     *)
THEOREM TypeCorrect == SafeSpec => []TypeOK
BY TypeInit, TypeStep, PTL DEF SafeSpec
-----------------------------------------------------------------------------
(* SessionAgrees and ShutdownCovers.  Together they are inductive, once it *)
(* is known that an accepted session never has a handle that connects, and *)
(* that the listening socket closes in the one stage that waits for it.    *)

Agrees(s) ==
  /\ s.handle \in {"open", "closing", "none"}
  /\ s.isInvalid <=> s.handle = "none"
  /\ s.handle = "open" => s.online
  /\ s.online => s.handle \in {"open", "closing"}
  /\ s.closers > 0 => s.handle # "none"

Closed(s) == s.handle \in {"closing", "none"}

ShutdownInv ==
  /\ \A id \in allSession : Agrees(sess[id])
  /\ ShutdownCovers
  /\ server = "closing" => stage = "WAIT_CLOSE_SERVER_SOCKET"

(* What the functions of TCPSession make of a session that agrees agrees,  *)
(* and none of them opens a handle again.                                  *)
LEMMA AgreesKept ==
  ASSUME NEW s \in Session, Agrees(s)
  PROVE  /\ Agrees(ExecuteDisconnect(s))
         /\ \A r \in AfterSend(s) : Agrees(r) /\ (Closed(s) => Closed(r))
         /\ \A r \in AfterSendAndClose(s) : Agrees(r) /\ (Closed(s) => Closed(r))
         /\ s.handle = "open" => Agrees(ShutdownSocket(s))
         /\ Closed(ShutdownSocket(s)) /\ Closed(ExecuteDisconnect(s))
<1> USE DEF Session, Handles, HasTcp, ShutdownSocket, Agrees, Closed
<1>1. Closed(ShutdownSocket(s)) /\ (s.handle = "open" => Agrees(ShutdownSocket(s)))
  OBVIOUS
<1>2. Agrees(ExecuteDisconnect(s)) /\ Closed(ExecuteDisconnect(s))
  BY DEF ExecuteDisconnect
<1>3. \A r \in AfterSend(s) : Agrees(r) /\ (Closed(s) => Closed(r))
  BY <1>2 DEF AfterSend
<1>4. CanWrite(s) => /\ Agrees([s EXCEPT !.closers = @ + 1])
                     /\ Closed(s) => Closed([s EXCEPT !.closers = @ + 1])
  BY DEF CanWrite
<1>5. \A r \in AfterSendAndClose(s) : Agrees(r) /\ (Closed(s) => Closed(r))
  BY <1>2, <1>4 DEF AfterSendAndClose
<1>6. QED
  BY <1>1, <1>2, <1>3, <1>5

LEMMA AgreesNew == Agrees(NewSession)
BY DEF Agrees, NewSession

LEMMA AgreesClosed ==
  ASSUME NEW s \in Session
  PROVE  LET r == [SocketClosed(s) EXCEPT !.isInvalid = TRUE] IN Agrees(r) /\ Closed(r)
BY DEF Agrees, Closed, SocketClosed, Session

(* ShutdownInv is kept by a step that leaves the server's stage and socket *)
(* alone and, of the sessions, closes some and opens none.                 *)
LEMMA ShutdownKept ==
  ASSUME ShutdownInv, UNCHANGED <<stage, server>>, allSession' \subseteq allSession,
         \A id \in allSession' :
           Agrees(sess'[id]) /\ (Closed(sess[id]) => Closed(sess'[id]))
  PROVE  ShutdownInv'
BY DEF ShutdownInv, ShutdownCovers, Closed

LEMMA ShutdownInit == Init => ShutdownInv
BY DEF Init, ShutdownInv, ShutdownCovers

LEMMA ShutdownStep ==
  ASSUME TypeOK, ShutdownInv, [Next]_vars
  PROVE  ShutdownInv'
<1>s. sess \in [Sessions -> Session] /\ allSession \subseteq Sessions
  BY DEF TypeOK
<1>a. \A id \in allSession : sess[id] \in Session /\ Agrees(sess[id])
  BY <1>s DEF ShutdownInv
<1>d. ASSUME DisconnectValid
      PROVE  \A id \in allSession : Agrees(sess'[id]) /\ Closed(sess'[id])
  <2>1. ASSUME NEW id \in allSession PROVE Agrees(sess'[id]) /\ Closed(sess'[id])
    <3>1. CASE sess[id].isInvalid
      BY <1>a, <1>d, <1>s, <3>1 DEF DisconnectValid, Agrees, Closed
    <3>2. CASE ~sess[id].isInvalid
      BY <1>a, <1>d, <1>s, <3>2, AgreesKept DEF DisconnectValid
    <3>3. QED
      BY <3>1, <3>2
  <2>2. QED
    BY <2>1
<1>t. ASSUME NEW id \in allSession, NEW r, sess' = [sess EXCEPT ![id] = r],
             Agrees(r), Closed(sess[id]) => Closed(r), UNCHANGED <<stage, server, allSession>>
      PROVE  ShutdownInv'
  BY <1>a, <1>s, <1>t, ShutdownKept
<1>u. ASSUME UNCHANGED <<stage, server, allSession, sess>> PROVE ShutdownInv'
  BY <1>a, <1>u, ShutdownKept
<1>1. CASE Application
  <2>1. CASE Start
    BY <1>a, <2>1 DEF Start, connVars, ShutdownInv, ShutdownCovers
  <2>2. CASE ~Start
    BY <1>1, <1>u, <2>2 DEF Application, Stop, Destroy, JoinReturns, Send, SendAndClose,
       Disconnect, Request, GetThreadMsg, DispatchMsg, loopVars, connVars
  <2>3. QED
    BY <2>1, <2>2
<1>2. CASE ExecSend
  <2>1. CASE Target \in allSession
    BY <1>2, <1>a, <1>t, <2>1, AgreesKept DEF ExecSend
  <2>2. CASE Target \notin allSession
    BY <1>2, <1>u, <2>2 DEF ExecSend
  <2>3. QED
    BY <2>1, <2>2
<1>3. CASE ExecSendAndClose
  <2>1. CASE Target \in allSession
    BY <1>3, <1>a, <1>t, <2>1, AgreesKept DEF ExecSendAndClose
  <2>2. CASE Target \notin allSession
    BY <1>3, <1>u, <2>2 DEF ExecSendAndClose
  <2>3. QED
    BY <2>1, <2>2
<1>4. CASE ExecDisconnect
  <2>1. CASE Target \in allSession
    BY <1>4, <1>a, <1>s, <1>t, <2>1, AgreesKept DEF ExecDisconnect
  <2>2. CASE Target \notin allSession
    BY <1>4, <1>u, <2>2 DEF ExecDisconnect
  <2>3. QED
    BY <2>1, <2>2
<1>5. CASE ExecDelete
  BY <1>5, <1>a, ShutdownKept DEF ExecDelete
<1>6. CASE ExecStopServer
  BY <1>6, <1>d DEF ExecStopServer, ShutdownInv, ShutdownCovers, Closed
<1>7. CASE OnIdle \/ RunEnds
  BY <1>7, <1>u DEF OnIdle, RunEnds, loopVars, connVars
<1>8. CASE OnIdleStage
  <2>1. CASE ClearSessions
    BY <1>8, <1>d, <2>1 DEF OnIdleStage, ClearSessions, ShutdownInv, ShutdownCovers, Closed
  <2>2. CASE StopLoop \/ NothingToDo
    BY <1>8, <1>u, <2>2 DEF OnIdleStage, StopLoop, NothingToDo
  <2>3. QED
    BY <1>8, <2>1, <2>2 DEF OnIdleStage
<1>9. CASE RunReturns
  BY <1>9 DEF RunReturns, connVars, ShutdownInv, ShutdownCovers
<1>10. CASE OnNewConnect
  <2>1. sessionID \in Sessions
    BY <1>10, BoundsAssumption DEF OnNewConnect, TypeOK, Sessions
  <2>2. \A id \in allSession' : Agrees(sess'[id])
    BY <1>10, <1>a, <1>s, <2>1, AgreesNew DEF OnNewConnect
  <2>3. QED
    BY <1>10, <2>2 DEF OnNewConnect, ShutdownInv, ShutdownCovers
<1>11. CASE OnServerSocketClose
  BY <1>11 DEF OnServerSocketClose, connVars, ShutdownInv, ShutdownCovers
<1>12. ASSUME NEW id \in Sessions, OnRead(id) PROVE ShutdownInv'
  BY <1>12, <1>u DEF OnRead, SocketCallback
<1>13. ASSUME NEW id \in Sessions, OnReadEnd(id) PROVE ShutdownInv'
  BY <1>13, <1>a, <1>t, AgreesKept DEF OnReadEnd, SocketCallback
<1>14. ASSUME NEW id \in Sessions, OnWriteDone(id) PROVE ShutdownInv'
  <2>1. /\ sess[id].handle = "open" /\ id \in allSession
        /\ sess' = [sess EXCEPT ![id] = [sess[id] EXCEPT !.closers = @ - 1]]
        /\ UNCHANGED <<stage, server, allSession>>
    BY <1>14, <1>s DEF OnWriteDone, SocketCallback
  <2>2. Agrees([sess[id] EXCEPT !.closers = @ - 1]) /\ ~Closed(sess[id])
    BY <1>a, <2>1 DEF Agrees, Closed, Session
  <2>3. QED
    BY <1>t, <2>1, <2>2
<1>15. ASSUME NEW id \in Sessions, OnClose(id) PROVE ShutdownInv'
  BY <1>15, <1>a, <1>t, AgreesClosed DEF OnClose, SocketCallback
<1>16. CASE UNCHANGED vars
  BY <1>16, <1>u DEF vars, loopVars, connVars
<1>17. QED
  BY <1>1, <1>2, <1>3, <1>4, <1>5, <1>6, <1>7, <1>8, <1>9, <1>10, <1>11, <1>12, <1>13,
     <1>14, <1>15, <1>16
  DEF Next, LoopThread, ExecuteOperation

LEMMA ShutdownInvariant == SafeSpec => []ShutdownInv
<1>1. TypeOK /\ ShutdownInv /\ [Next]_vars => ShutdownInv'
  BY ShutdownStep
<1>2. QED
  BY <1>1, ShutdownInit, TypeCorrect, PTL DEF SafeSpec

(* isInvalid, m_isOnline and m_tcp of every session in m_allSession agree, *)
(* whatever the order of the callbacks that write them.                    *)
THEOREM SessionAgreesCorrect == SafeSpec => []SessionAgrees
<1>1. ShutdownInv => SessionAgrees
  BY DEF ShutdownInv, Agrees, SessionAgrees
<1>2. QED
  BY <1>1, ShutdownInvariant, PTL

(* Once STOP_SERVER was executed no session is left open, and none is made.*)
THEOREM ShutdownCoversCorrect == SafeSpec => []ShutdownCovers
<1>1. ShutdownInv => ShutdownCovers
  BY DEF ShutdownInv
<1>2. QED
  BY <1>1, ShutdownInvariant, PTL
-----------------------------------------------------------------------------
(* DepartsOnce.  The end of a session is in one place at a time: nowhere,  *)
(* then as DIS_CONNECT in the queue of messages, behind every other one of *)
(* the session, then as an operation, and then the session is freed.       *)

Gone(id)   == SessionMsg("DIS_CONNECT", id)
Del(id)    == [op |-> "SEND_DIS_SESSION_MSG", id |-> id]
MsgsOf(id) == [msg : SessionMsgs, id : {id}]
KnownMsgs  == {m \in Msg : m.msg # "EXIT_LOOP" => m.id \in allSession}

Silent(id)   == \A i \in DOMAIN MsgsAhead : MsgsAhead[i] \notin MsgsOf(id)
Leaving(id)  == Has(MsgsAhead, Gone(id)) \/ Has(OpsAhead, Del(id))
Departed(id) == id \in allSession /\ sess[id].isInvalid

DepartInv ==
  /\ Within(MsgsAhead, KnownMsgs)
  /\ \A id \in Sessions :
       /\ Single(MsgsAhead, Gone(id)) /\ Last(MsgsAhead, Gone(id), MsgsOf(id))
       /\ Single(OpsAhead, Del(id))
       /\ Has(OpsAhead, Del(id)) => Silent(id)
       /\ app # "gone" => (Departed(id) <=> Leaving(id))

(* Where the queues are empty: the dispatch queues outside of the loops    *)
(* that empty them, and all of them when the server object is gone.        *)
QueueShape ==
  /\ \A id \in allSession : id < sessionID
  /\ opDispatch # <<>> => loop = "running" /\ inIdle
  /\ app # "up" => msgDispatch = <<>>
  /\ app = "gone" => /\ loop = "ended" /\ ~exiting
                     /\ opQue = <<>> /\ msgQue = <<>>

LEMMA QueueShapeInit == Init => QueueShape
BY DEF Init, QueueShape

LEMMA QueueShapeStep ==
  ASSUME TypeOK, QueueShape, [Next]_vars
  PROVE  QueueShape'
<1> USE DEF QueueShape
<1>1. CASE Start \/ Stop \/ Destroy \/ JoinReturns
  BY <1>1 DEF Start, Calls, Stop, Destroy, JoinReturns, loopVars, connVars
<1>2. ASSUME NEW id \in Sessions, Send(id) \/ SendAndClose(id) \/ Disconnect(id)
      PROVE  QueueShape'
  BY <1>2 DEF Send, SendAndClose, Disconnect, Request, Calls, loopVars, connVars
<1>3. CASE GetThreadMsg \/ DispatchMsg
  BY <1>3 DEF GetThreadMsg, DispatchMsg, appVars, loopVars, connVars
<1>4. ASSUME NEW o, Executes(o), allSession' \subseteq allSession PROVE QueueShape'
  BY <1>4 DEF Executes, appVars
<1>5. CASE ExecuteOperation
  BY <1>4, <1>5 DEF ExecuteOperation, ExecSend, ExecSendAndClose, ExecDisconnect, ExecDelete,
     ExecStopServer
<1>6. CASE OnIdle \/ RunReturns \/ RunEnds
  BY <1>6 DEF OnIdle, RunReturns, RunEnds, appVars, loopVars, connVars
<1>7. CASE OnIdleStage
  BY <1>7 DEF OnIdleStage, appVars
<1>8. CASE OnNewConnect
  <2>1. \A id \in allSession : id \in Nat
    BY BoundsAssumption DEF TypeOK, Sessions
  <2>2. sessionID \in Nat
    BY BoundsAssumption DEF TypeOK
  <2>3. \A id \in allSession' : id < sessionID'
    BY <1>8, <2>1, <2>2 DEF OnNewConnect
  <2>4. QED
    BY <1>8, <2>3 DEF OnNewConnect, Callback, appVars
<1>9. CASE OnServerSocketClose
  BY <1>9 DEF OnServerSocketClose, Callback, appVars, connVars
<1>10. ASSUME NEW id \in Sessions, OnRead(id) \/ OnReadEnd(id) \/ OnWriteDone(id) \/ OnClose(id)
       PROVE  QueueShape'
  BY <1>10 DEF OnRead, OnReadEnd, OnWriteDone, OnClose, SocketCallback, Callback, appVars
<1>11. CASE UNCHANGED vars
  BY <1>11 DEF vars, appVars, loopVars, connVars
<1>12. QED
  BY <1>1, <1>2, <1>3, <1>5, <1>6, <1>7, <1>8, <1>9, <1>10, <1>11
  DEF Next, Application, LoopThread

-----------------------------------------------------------------------------
(* What a push and a pop do to what is still to be worked off.             *)

LEMMA AheadType ==
  ASSUME TypeOK
  PROVE  MsgsAhead \in Seq(Msg) /\ OpsAhead \in Seq(Op)
BY ConcatProperties DEF TypeOK, MsgsAhead, OpsAhead

LEMMA OpsPushed ==
  ASSUME TypeOK, NEW o \in Op, PushOp(o), opDispatch' = opDispatch
  PROVE  OpsAhead' = Append(OpsAhead, o)
<1>1. opQue \in Seq(Op) /\ opDispatch \in Seq(Op)
  BY DEF TypeOK
<1>2. QED
  BY <1>1, PushBehind DEF OpsAhead, PushOp

LEMMA OpsPopped ==
  ASSUME TypeOK, NEW o, Executes(o)
  PROVE  /\ OpsAhead # <<>> /\ Head(OpsAhead) = Head(opDispatch)
         /\ OpsAhead' = Tail(OpsAhead)
<1>1. opQue \in Seq(Op) /\ opDispatch \in Seq(Op) /\ opDispatch # <<>>
  BY DEF TypeOK, Executes
<1>2. opDispatch' = Tail(opDispatch) /\ opQue' = opQue
  BY DEF Executes
<1>3. QED
  BY <1>1, <1>2, PopInFront DEF OpsAhead

LEMMA MsgsPushed ==
  ASSUME TypeOK, NEW m \in Msg, PushMsg(m), msgDispatch' = msgDispatch
  PROVE  MsgsAhead' = Append(MsgsAhead, m)
<1>1. msgQue \in Seq(Msg) /\ msgDispatch \in Seq(Msg)
  BY DEF TypeOK
<1>2. QED
  BY <1>1, PushBehind DEF MsgsAhead, PushMsg

LEMMA MsgsPopped ==
  ASSUME TypeOK, msgDispatch # <<>>, msgDispatch' = Tail(msgDispatch), msgQue' = msgQue
  PROVE  /\ MsgsAhead # <<>> /\ Head(MsgsAhead) = Head(msgDispatch)
         /\ MsgsAhead' = Tail(MsgsAhead)
<1>1. msgQue \in Seq(Msg) /\ msgDispatch \in Seq(Msg)
  BY DEF TypeOK
<1>2. QED
  BY <1>1, PopInFront DEF MsgsAhead

(* The operations may change, as long as no deletion comes or goes.        *)
SameDels ==
  \A id \in Sessions : /\ Has(OpsAhead', Del(id)) <=> Has(OpsAhead, Del(id))
                       /\ Single(OpsAhead, Del(id)) => Single(OpsAhead', Del(id))

SameSessions ==
  /\ allSession' = allSession
  /\ \A id \in allSession : sess'[id].isInvalid = sess[id].isInvalid

(* Steps that leave the messages and the deletions as they are.            *)
LEMMA DepartKept ==
  ASSUME DepartInv, SameDels, SameSessions, app' # "gone" => app # "gone",
         MsgsAhead' = MsgsAhead
  PROVE  DepartInv'
BY DEF DepartInv, SameDels, SameSessions, Departed, Leaving, Silent, KnownMsgs

LEMMA PushKeepsDels ==
  ASSUME TypeOK, NEW o \in Op, o.op # "SEND_DIS_SESSION_MSG", OpsAhead' = Append(OpsAhead, o)
  PROVE  SameDels
<1>1. \A id \in Sessions : o # Del(id)
  BY DEF Del
<1>2. QED
  BY <1>1, AheadType, HasAppend, SingleAppend DEF SameDels

LEMMA PopKeepsDels ==
  ASSUME TypeOK, NEW o, o # "SEND_DIS_SESSION_MSG", Executes(o)
  PROVE  SameDels
<1>1. \A id \in Sessions : Head(OpsAhead) # Del(id)
  BY OpsPopped DEF Executes, Del
<1>2. OpsAhead \in Seq(Op) /\ OpsAhead # <<>> /\ OpsAhead' = Tail(OpsAhead)
  BY AheadType, OpsPopped
<1>3. QED
  BY <1>1, <1>2, HasTail, SingleTail DEF SameDels

LEMMA OpsBehind ==
  ASSUME TypeOK, NEW c \in Seq(Op)
  PROVE  opDispatch \o (opQue \o c) = OpsAhead \o c
<1>1. opDispatch \in Seq(Op) /\ opQue \in Seq(Op)
  BY DEF TypeOK
<1>2. opDispatch \o (opQue \o c) = (opDispatch \o opQue) \o c
  BY <1>1, BatchBehind
<1>3. QED
  BY <1>2 DEF OpsAhead

LEMMA ClosersKeepDels ==
  ASSUME TypeOK, NEW id \in Sessions, NEW n \in Nat, opQue' = opQue \o CloserOps(id, n),
         opDispatch' = opDispatch
  PROVE  SameDels
<1>1. OpsAhead' = OpsAhead \o CloserOps(id, n)
  <2>1. CloserOps(id, n) \in Seq(Op)
    BY CloserOpsType
  <2>2. OpsAhead' = opDispatch \o (opQue \o CloserOps(id, n))
    BY DEF OpsAhead
  <2>3. QED
    BY <2>1, <2>2, OpsBehind
<1>2. \A k \in Sessions : ~Has(CloserOps(id, n), Del(k))
  BY DEF Has, CloserOps, Del
<1>3. QED
  BY <1>1, <1>2, AheadType, CloserOpsType, ConcatNone DEF SameDels

LEMMA SameOps == ASSUME OpsAhead' = OpsAhead PROVE SameDels
BY DEF SameDels
-----------------------------------------------------------------------------
(* A message of a session is pushed only while the session is not leaving. *)
LEMMA DepartPushed ==
  ASSUME TypeOK, DepartInv, SameDels, NEW m \in Msg, MsgsAhead' = Append(MsgsAhead, m),
         NEW id \in Sessions, m \in MsgsOf(id) => ~Leaving(id)
  PROVE  /\ Has(MsgsAhead', Gone(id)) <=> Has(MsgsAhead, Gone(id)) \/ m = Gone(id)
         /\ Single(MsgsAhead', Gone(id)) /\ Last(MsgsAhead', Gone(id), MsgsOf(id))
         /\ Has(OpsAhead', Del(id)) => Silent(id)'
         /\ Leaving(id)' <=> Leaving(id) \/ m = Gone(id)
<1> DEFINE M == MsgsAhead
<1>1. M \in Seq(Msg) /\ M' = Append(M, m)
  BY AheadType
<1>2. /\ Single(M, Gone(id)) /\ Last(M, Gone(id), MsgsOf(id))
      /\ Has(OpsAhead, Del(id)) => Silent(id)
  BY DEF DepartInv
<1>3. Gone(id) \in MsgsOf(id)
  BY DEF Gone, MsgsOf, SessionMsg, SessionMsgs
<1>4. m = Gone(id) => ~Has(M, Gone(id))
  BY <1>3 DEF Leaving
<1>5. Has(M', Gone(id)) <=> Has(M, Gone(id)) \/ m = Gone(id)
  BY <1>1, HasAppend
<1>6. Single(M', Gone(id))
  BY <1>1, <1>2, <1>4, SingleAppend
<1>7. Last(M', Gone(id), MsgsOf(id))
  BY <1>1, <1>2, LastAppend DEF Leaving
<1>8. ASSUME Has(OpsAhead, Del(id)) PROVE Silent(id)'
  <2>1. m \notin MsgsOf(id) /\ Silent(id)
    BY <1>2, <1>8 DEF Leaving
  <2>2. \A i \in DOMAIN M' : i \in DOMAIN M \/ i = Len(M) + 1
    BY <1>1, AtAppend
  <2>3. \A i \in DOMAIN M' : M'[i] \notin MsgsOf(id)
    BY <1>1, <2>1, <2>2, AtAppend DEF Silent
  <2>4. QED
    BY <2>3 DEF Silent
<1>9. QED
  BY <1>5, <1>6, <1>7, <1>8 DEF SameDels, Leaving

(* Every session is as it was, but for the one that is new, or closed now. *)
LEMMA DepartPush ==
  ASSUME TypeOK, DepartInv, SameDels, app' # "gone" => app # "gone",
         NEW m \in Msg, MsgsAhead' = Append(MsgsAhead, m), m \in KnownMsgs',
         allSession \subseteq allSession',
         \A id \in Sessions : m \in MsgsOf(id) => ~Leaving(id),
         \A id \in Sessions : app # "gone" =>
           (Departed(id)' <=> Departed(id) \/ m = Gone(id))
  PROVE  DepartInv'
<1>1. Within(MsgsAhead', KnownMsgs')
  <2>1. Within(MsgsAhead, KnownMsgs')
    BY DEF DepartInv, Within, KnownMsgs
  <2>2. QED
    BY <2>1, AheadType, WithinAppend
<1>2. ASSUME NEW id \in Sessions
      PROVE  /\ Single(MsgsAhead', Gone(id)) /\ Last(MsgsAhead', Gone(id), MsgsOf(id))
             /\ Has(OpsAhead', Del(id)) => Silent(id)'
             /\ Leaving(id)' <=> Leaving(id) \/ m = Gone(id)
  BY DepartPushed
<1>3. \A id \in Sessions : Single(OpsAhead', Del(id))
  BY DEF DepartInv, SameDels
<1>4. \A id \in Sessions : app' # "gone" => (Departed(id)' <=> Leaving(id)')
  BY <1>2 DEF DepartInv
<1>5. QED
  BY <1>1, <1>2, <1>3, <1>4 DEF DepartInv

(* A message is taken: of the messages nothing but the end of its session  *)
(* is missed.                                                              *)
LEMMA DepartPopped ==
  ASSUME TypeOK, DepartInv, msgDispatch # <<>>, msgDispatch' = Tail(msgDispatch),
         msgQue' = msgQue, NEW id \in Sessions
  PROVE  LET m == Head(msgDispatch) IN
         /\ Has(MsgsAhead, Gone(id)) <=> m = Gone(id) \/ Has(MsgsAhead', Gone(id))
         /\ Single(MsgsAhead', Gone(id)) /\ Last(MsgsAhead', Gone(id), MsgsOf(id))
         /\ Silent(id) => Silent(id)'
         /\ m = Gone(id) => ~Has(MsgsAhead', Gone(id)) /\ Silent(id)' /\ ~Has(OpsAhead, Del(id))
<1> DEFINE M == MsgsAhead
           m == Head(msgDispatch)
<1>1. M \in Seq(Msg) /\ M # <<>> /\ Head(M) = m /\ M' = Tail(M)
  BY AheadType, MsgsPopped
<1>2. /\ Single(M, Gone(id)) /\ Last(M, Gone(id), MsgsOf(id))
      /\ Has(OpsAhead, Del(id)) => Silent(id)
  BY DEF DepartInv
<1>3. Has(M, Gone(id)) <=> m = Gone(id) \/ Has(M', Gone(id))
  BY <1>1, HasTail
<1>4. Single(M', Gone(id)) /\ (m = Gone(id) => ~Has(M', Gone(id)))
  BY <1>1, <1>2, SingleTail
<1>5. /\ Last(M', Gone(id), MsgsOf(id))
      /\ m = Gone(id) => \A i \in DOMAIN M' : M'[i] \notin MsgsOf(id)
  BY <1>1, <1>2, LastTail
<1>6. Silent(id) => Silent(id)'
  BY <1>1, AtTail DEF Silent
<1>7. m = Gone(id) => ~Has(OpsAhead, Del(id))
  <2>1. Gone(id) \in MsgsOf(id)
    BY DEF Gone, MsgsOf, SessionMsg, SessionMsgs
  <2>2. m = Gone(id) => ~Silent(id)
    BY <1>1, <2>1, AtTail DEF Silent
  <2>3. QED
    BY <1>2, <2>2
<1>8. QED
  BY <1>3, <1>4, <1>5, <1>6, <1>7 DEF Silent

LEMMA DepartDispatchMsg ==
  ASSUME TypeOK, QueueShape, DepartInv, DispatchMsg
  PROVE  DepartInv'
<1> DEFINE m == Head(msgDispatch)
<1>1. /\ msgDispatch # <<>> /\ msgDispatch' = Tail(msgDispatch) /\ UNCHANGED <<msgQue, app>>
      /\ UNCHANGED <<allSession, sess, opDispatch>> /\ app = "up"
  BY DEF DispatchMsg, connVars
<1>2. m \in Msg /\ msgDispatch \in Seq(Msg)
  BY <1>1, HeadTailProperties DEF TypeOK
<1>3. Within(MsgsAhead', KnownMsgs')
  <2>1. Within(Tail(MsgsAhead), KnownMsgs)
    BY <1>1, AheadType, MsgsPopped, WithinTail DEF DepartInv
  <2>2. KnownMsgs' = KnownMsgs
    BY <1>1 DEF KnownMsgs
  <2>3. QED
    BY <1>1, <2>1, <2>2, MsgsPopped
<1>4. CASE m.msg = "DIS_CONNECT"
  <2>1. PICK d \in Sessions : m = Gone(d)
    BY <1>2, <1>4 DEF Msg, Gone, SessionMsg
  <2>2. Del(d) \in Op
    BY <2>1 DEF Del, Op, SessionOps
  <2>3. PushOp(Del(d))
    BY <1>4, <2>1 DEF DispatchMsg, Del, Gone, SessionMsg
  <2>4. OpsAhead' = Append(OpsAhead, Del(d))
    BY <1>1, <2>2, <2>3, OpsPushed
  <2>5. ~Has(OpsAhead, Del(d)) /\ Silent(d)' /\ ~Has(MsgsAhead', Gone(d)) /\ Has(MsgsAhead, Gone(d))
    BY <1>1, <2>1, DepartPopped
  <2>6. ASSUME NEW id \in Sessions
        PROVE  /\ Has(OpsAhead', Del(id)) <=> Has(OpsAhead, Del(id)) \/ id = d
               /\ Single(OpsAhead', Del(id))
    <3>1. Del(d) = Del(id) <=> id = d
      BY DEF Del
    <3>2. OpsAhead \in Seq(Op) /\ Single(OpsAhead, Del(id))
      BY AheadType DEF DepartInv
    <3>3. QED
      BY <2>2, <2>4, <2>5, <3>1, <3>2, HasAppend, SingleAppend
  <2>7. ASSUME NEW id \in Sessions, id # d
        PROVE  /\ Has(MsgsAhead', Gone(id)) <=> Has(MsgsAhead, Gone(id))
               /\ Silent(id) => Silent(id)'
    <3>1. m # Gone(id)
      BY <2>1, <2>7 DEF Gone, SessionMsg
    <3>2. QED
      BY <1>1, <3>1, DepartPopped
  <2>8. ASSUME NEW id \in Sessions
        PROVE  /\ Has(OpsAhead', Del(id)) => Silent(id)'
               /\ Departed(id)' <=> Leaving(id)'
    <3>1. /\ Has(OpsAhead, Del(id)) => Silent(id)
          /\ Departed(id) <=> Leaving(id)
      BY <1>1 DEF DepartInv
    <3>2. Departed(id)' <=> Departed(id)
      BY <1>1 DEF Departed
    <3>3. CASE id = d
      <4>1. Leaving(id) /\ Leaving(id)' /\ Silent(id)'
        BY <2>5, <2>6, <3>3 DEF Leaving
      <4>2. QED
        BY <3>1, <3>2, <4>1
    <3>4. CASE id # d
      BY <2>6, <2>7, <3>1, <3>2, <3>4 DEF Leaving
    <3>5. QED
      BY <3>3, <3>4
  <2>9. \A id \in Sessions : Single(MsgsAhead', Gone(id)) /\ Last(MsgsAhead', Gone(id), MsgsOf(id))
    BY <1>1, DepartPopped
  <2>10. QED
    BY <1>3, <2>6, <2>8, <2>9 DEF DepartInv
<1>5. CASE m.msg # "DIS_CONNECT"
  <2>1. OpsAhead' = OpsAhead
    BY <1>1, <1>5 DEF DispatchMsg, OpsAhead
  <2>2. ASSUME NEW id \in Sessions
        PROVE  /\ Single(MsgsAhead', Gone(id)) /\ Last(MsgsAhead', Gone(id), MsgsOf(id))
               /\ Silent(id) => Silent(id)'
               /\ Has(MsgsAhead', Gone(id)) <=> Has(MsgsAhead, Gone(id))
    <3>1. m # Gone(id)
      BY <1>5 DEF Gone, SessionMsg
    <3>2. QED
      BY <1>1, <3>1, DepartPopped
  <2>3. \A id \in Sessions : Departed(id)' <=> Departed(id)
    BY <1>1 DEF Departed
  <2>4. \A id \in Sessions : Leaving(id)' <=> Leaving(id)
    BY <2>1, <2>2 DEF Leaving
  <2>5. QED
    BY <1>1, <1>3, <2>1, <2>2, <2>3, <2>4 DEF DepartInv
<1>6. QED
  BY <1>4, <1>5
(* The session is freed: no message speaks of it any more.                 *)
LEMMA DepartDelete ==
  ASSUME TypeOK, QueueShape, DepartInv, ExecDelete
  PROVE  DepartInv'
<1> DEFINE d == Target
<1>1. /\ Head(opDispatch).op = "SEND_DIS_SESSION_MSG" /\ Executes("SEND_DIS_SESSION_MSG")
      /\ UNCHANGED <<app, sess, msgQue, msgDispatch>> /\ allSession' = allSession \ {d}
  BY DEF ExecDelete, Executes, appVars
<1>2. d \in Sessions
  BY <1>1, TargetType DEF SessionOps
<1>3. Head(opDispatch) = Del(d)
  <2>1. Head(opDispatch) \in Op
    BY <1>1, HeadTailProperties DEF TypeOK, Executes
  <2>2. QED
    BY <1>1, <2>1 DEF Op, Del, Target
<1> HIDE DEF d
<1>4. /\ OpsAhead \in Seq(Op) /\ OpsAhead # <<>>
      /\ Head(OpsAhead) = Del(d) /\ OpsAhead' = Tail(OpsAhead)
  BY <1>1, <1>3, AheadType, OpsPopped
<1>5. MsgsAhead' = MsgsAhead
  BY <1>1 DEF MsgsAhead
<1>6. ASSUME NEW id \in Sessions
      PROVE  /\ Single(OpsAhead', Del(id))
             /\ Has(OpsAhead', Del(id)) <=> Has(OpsAhead, Del(id)) /\ id # d
  <2>1. Single(OpsAhead, Del(id))
    BY DEF DepartInv
  <2>2. Del(d) = Del(id) <=> id = d
    BY DEF Del
  <2>3. QED
    BY <1>4, <2>1, <2>2, HasTail, SingleTail
<1>7. Has(OpsAhead, Del(d))
  BY <1>4, HasTail
<1>8. Silent(d)
  BY <1>2, <1>7 DEF DepartInv
<1>9. ~Has(MsgsAhead, Gone(d))
  BY <1>8 DEF Has, Silent, Gone, MsgsOf, SessionMsg, SessionMsgs
<1>10. Within(MsgsAhead', KnownMsgs')
  <2>1. ASSUME NEW i \in DOMAIN MsgsAhead PROVE MsgsAhead[i] \in KnownMsgs'
    <3>1. MsgsAhead[i] \in KnownMsgs /\ MsgsAhead[i] \notin MsgsOf(d)
      BY <1>8 DEF DepartInv, Within, Silent
    <3>2. MsgsAhead[i].msg # "EXIT_LOOP" => MsgsAhead[i].id # d
      BY <3>1 DEF KnownMsgs, Msg, MsgsOf
    <3>3. QED
      BY <1>1, <3>1, <3>2 DEF KnownMsgs
  <2>2. QED
    BY <1>5, <2>1 DEF Within
<1>11. ASSUME NEW id \in Sessions, app # "gone"
       PROVE  Departed(id)' <=> Leaving(id)'
  <2>1. Departed(id) <=> Leaving(id)
    BY <1>11 DEF DepartInv
  <2>2. Departed(id)' <=> Departed(id) /\ id # d
    BY <1>1 DEF Departed
  <2>3. Leaving(id)' <=> Has(MsgsAhead, Gone(id)) \/ (Has(OpsAhead, Del(id)) /\ id # d)
    BY <1>5, <1>6 DEF Leaving
  <2>4. QED
    BY <1>9, <2>1, <2>2, <2>3 DEF Leaving
<1>12. \A id \in Sessions :
         /\ Single(MsgsAhead', Gone(id)) /\ Last(MsgsAhead', Gone(id), MsgsOf(id))
         /\ Has(OpsAhead', Del(id)) => Silent(id)'
  BY <1>5, <1>6 DEF DepartInv, Silent
<1>13. QED
  BY <1>1, <1>6, <1>10, <1>11, <1>12 DEF DepartInv

LEMMA DepartJoinReturns ==
  ASSUME TypeOK, QueueShape, DepartInv, JoinReturns
  PROVE  DepartInv'
<1>1. /\ app' = "gone" /\ msgQue' = <<>> /\ opQue' = <<>>
      /\ msgDispatch' = <<>> /\ opDispatch' = <<>>
  BY DEF JoinReturns, QueueShape
<1>2. MsgsAhead' = <<>> /\ OpsAhead' = <<>>
  BY <1>1, NothingAhead, EmptySeq DEF MsgsAhead, OpsAhead
<1>3. DOMAIN MsgsAhead' = {} /\ DOMAIN OpsAhead' = {}
  BY <1>2, EmptySeq
<1>4. QED
  BY <1>1, <1>3 DEF DepartInv, Within, Single, Last, Has

LEMMA DepartApplication ==
  ASSUME TypeOK, QueueShape, DepartInv, Application
  PROVE  DepartInv'
<1>k. ASSUME SameDels, UNCHANGED <<allSession, sess, msgQue, msgDispatch>>, app # "gone"
      PROVE  DepartInv'
  BY <1>k, DepartKept DEF SameSessions, MsgsAhead
<1>p. ASSUME NEW o \in Op, PushOp(o), o.op # "SEND_DIS_SESSION_MSG", opDispatch' = opDispatch
      PROVE  SameDels
  BY <1>p, OpsPushed, PushKeepsDels
<1>u. ASSUME UNCHANGED <<opQue, opDispatch>> PROVE SameDels
  BY <1>u, SameOps DEF OpsAhead
<1>s. ASSUME StopServer, opDispatch' = opDispatch PROVE SameDels
  <2>1. CASE start
    <3>1. [op |-> "STOP_SERVER"] \in Op
      BY DEF Op
    <3>2. PushOp([op |-> "STOP_SERVER"])
      BY <1>s, <2>1 DEF StopServer
    <3>3. QED
      BY <1>p, <1>s, <3>1, <3>2
  <2>2. CASE ~start
    BY <1>s, <1>u, <2>2 DEF StopServer
  <2>3. QED
    BY <2>1, <2>2
<1>1. CASE Start
  BY <1>1, <1>k, <1>u DEF Start, Calls, connVars
<1>2. CASE Stop
  BY <1>2, <1>k, <1>s DEF Stop, Calls, connVars
<1>3. CASE Destroy
  BY <1>3, <1>k, <1>s DEF Destroy, Calls, connVars
<1>4. ASSUME NEW id \in Sessions, Send(id) \/ SendAndClose(id) \/ Disconnect(id)
      PROVE  DepartInv'
  <2>1. ASSUME NEW call, NEW op \in SessionOps, op # "SEND_DIS_SESSION_MSG",
               Request(call, op, id)
        PROVE  DepartInv'
    <3>1. [op |-> op, id |-> id] \in Op
      BY DEF Op
    <3>2. PushOp([op |-> op, id |-> id]) /\ opDispatch' = opDispatch
      BY <2>1 DEF Request
    <3>3. SameDels
      BY <1>p, <2>1, <3>1, <3>2
    <3>4. QED
      BY <1>k, <2>1, <3>3 DEF Request, Calls, connVars
  <2>2. QED
    BY <1>4, <2>1 DEF Send, SendAndClose, Disconnect, SessionOps
<1>5. CASE JoinReturns
  BY <1>5, DepartJoinReturns
<1>6. CASE GetThreadMsg
  <2>1. MsgsAhead' = MsgsAhead
    BY <1>6, NothingAhead, EmptySeq DEF GetThreadMsg, MsgsAhead, TypeOK
  <2>2. SameDels /\ SameSessions
    BY <1>6, <1>u DEF GetThreadMsg, connVars, SameSessions
  <2>3. QED
    BY <1>6, <2>1, <2>2, DepartKept DEF GetThreadMsg, appVars
<1>7. CASE DispatchMsg
  BY <1>7, DepartDispatchMsg
<1>8. QED
  BY <1>1, <1>2, <1>3, <1>4, <1>5, <1>6, <1>7 DEF Application

(* No function of TCPSession but the close callback touches isInvalid.     *)
LEMMA SameInvalid ==
  ASSUME NEW s \in Session
  PROVE  /\ ShutdownSocket(s).isInvalid = s.isInvalid
         /\ ExecuteDisconnect(s).isInvalid = s.isInvalid
         /\ \A r \in AfterSend(s) : r.isInvalid = s.isInvalid
         /\ \A r \in AfterSendAndClose(s) : r.isInvalid = s.isInvalid
BY DEF ExecuteDisconnect, ShutdownSocket, AfterSend, AfterSendAndClose, Session

LEMMA DepartLoop ==
  ASSUME TypeOK, QueueShape, DepartInv,
         OnIdle \/ ExecuteOperation \/ OnIdleStage \/ RunReturns \/ RunEnds
  PROVE  DepartInv'
<1>s. sess \in [Sessions -> Session] /\ allSession \subseteq Sessions
  BY DEF TypeOK
<1>k. ASSUME SameDels, SameSessions, UNCHANGED <<app, msgQue, msgDispatch>> PROVE DepartInv'
  BY <1>k, DepartKept DEF MsgsAhead
<1>d. ASSUME DisconnectValid, allSession' = allSession PROVE SameSessions
  BY <1>d, <1>s, SameInvalid DEF DisconnectValid, SameSessions
<1>e. ASSUME NEW o, Executes(o), o # "SEND_DIS_SESSION_MSG", SameSessions PROVE DepartInv'
  BY <1>e, <1>k, PopKeepsDels DEF Executes, appVars
<1>t. ASSUME NEW r, sess' = [sess EXCEPT ![Target] = r], allSession' = allSession,
             r.isInvalid = sess[Target].isInvalid
      PROVE  SameSessions
  BY <1>s, <1>t DEF SameSessions
<1>1. CASE ExecSend
  <2>1. Target \in Sessions
    BY <1>1, TargetType DEF ExecSend, SessionOps
  <2>2. SameSessions
    BY <1>1, <1>s, <1>t, <2>1, SameInvalid DEF ExecSend, SameSessions
  <2>3. QED
    BY <1>1, <1>e, <2>2 DEF ExecSend
<1>2. CASE ExecSendAndClose
  <2>1. Target \in Sessions
    BY <1>2, TargetType DEF ExecSendAndClose, SessionOps
  <2>2. SameSessions
    BY <1>2, <1>s, <1>t, <2>1, SameInvalid DEF ExecSendAndClose, SameSessions
  <2>3. QED
    BY <1>2, <1>e, <2>2 DEF ExecSendAndClose
<1>3. CASE ExecDisconnect
  <2>1. Target \in Sessions
    BY <1>3, TargetType DEF ExecDisconnect, SessionOps
  <2>2. SameSessions
    BY <1>3, <1>s, <1>t, <2>1, SameInvalid DEF ExecDisconnect, SameSessions
  <2>3. QED
    BY <1>3, <1>e, <2>2 DEF ExecDisconnect
<1>4. CASE ExecDelete
  BY <1>4, DepartDelete
<1>5. CASE ExecStopServer
  BY <1>5, <1>d, <1>e DEF ExecStopServer
<1>6. CASE OnIdle
  <2>1. opDispatch = <<>> /\ opDispatch' = opQue /\ opQue' = <<>> /\ opQue \in Seq(Op)
    BY <1>6 DEF OnIdle, QueueShape, TypeOK
  <2>2. OpsAhead' = OpsAhead
    BY <2>1, NothingAhead DEF OpsAhead
  <2>3. QED
    BY <1>6, <1>k, <2>2, SameOps DEF OnIdle, appVars, connVars, SameSessions
<1>7. CASE OnIdleStage
  <2>1. allSession' = allSession /\ UNCHANGED <<app, msgQue, msgDispatch, opQue, opDispatch>>
    BY <1>7 DEF OnIdleStage, appVars
  <2>2. SameSessions
    BY <1>7, <1>d, <2>1 DEF OnIdleStage, ClearSessions, StopLoop, NothingToDo, SameSessions
  <2>3. SameDels
    BY <2>1, SameOps DEF OpsAhead
  <2>4. QED
    BY <1>k, <2>1, <2>2, <2>3
<1>8. CASE RunReturns
  <2>1. SameDels
    BY <1>8, SameOps DEF RunReturns, OpsAhead
  <2>2. QED
    BY <1>8, <1>k, <2>1 DEF RunReturns, appVars, connVars, SameSessions
<1>9. CASE RunEnds
  <2> DEFINE m == [msg |-> "EXIT_LOOP"]
  <2>1. m \in Msg /\ PushMsg(m)
    BY <1>9 DEF RunEnds, Msg
  <2>2. UNCHANGED <<app, allSession, sess, opQue, opDispatch, msgDispatch>>
    BY <1>9 DEF RunEnds, appVars, connVars
  <2>3. SameDels
    BY <2>2, SameOps DEF OpsAhead
  <2>4. MsgsAhead' = Append(MsgsAhead, m)
    BY <2>1, <2>2, MsgsPushed
  <2>5. m \in KnownMsgs'
    BY <2>1 DEF KnownMsgs
  <2>6. \A id \in Sessions : m \notin MsgsOf(id) /\ m # Gone(id)
    BY DEF MsgsOf, SessionMsgs, Gone, SessionMsg
  <2>7. \A id \in Sessions : Departed(id)' <=> Departed(id)
    BY <2>2 DEF Departed
  <2> HIDE DEF m
  <2>8. QED
    BY <2>1, <2>2, <2>3, <2>4, <2>5, <2>6, <2>7, DepartPush
<1>10. QED
  BY <1>1, <1>2, <1>3, <1>4, <1>5, <1>6, <1>7, <1>8, <1>9 DEF ExecuteOperation
LEMMA DepartCallbacks ==
  ASSUME TypeOK, QueueShape, ShutdownInv, DepartInv,
         \/ OnNewConnect \/ OnServerSocketClose
         \/ \E id \in Sessions : OnRead(id) \/ OnReadEnd(id) \/ OnWriteDone(id) \/ OnClose(id)
  PROVE  DepartInv'
<1>s. sess \in [Sessions -> Session] /\ allSession \subseteq Sessions
  BY DEF TypeOK
<1>g. ASSUME Callback PROVE app # "gone" /\ app' = app /\ UNCHANGED <<opDispatch, msgDispatch>>
  BY <1>g DEF Callback, QueueShape, appVars
<1>k. ASSUME Callback, SameDels, SameSessions, msgQue' = msgQue PROVE DepartInv'
  BY <1>k, <1>g, DepartKept DEF MsgsAhead
<1>u. ASSUME Callback, opQue' = opQue PROVE SameDels
  BY <1>g, <1>u, SameOps DEF OpsAhead
<1>o. ASSUME Callback, NEW id \in Sessions, NEW n \in Nat, opQue' = opQue \o CloserOps(id, n)
      PROVE  SameDels
  BY <1>g, <1>o, ClosersKeepDels
<1>v. ASSUME NEW id \in allSession, ~sess[id].isInvalid, app # "gone" PROVE ~Leaving(id)
  BY <1>s, <1>v DEF DepartInv, Departed
<1>w. ASSUME NEW k \in SessionMsgs, NEW id \in Sessions, NEW x \in Sessions
      PROVE  /\ SessionMsg(k, id) \in MsgsOf(x) <=> x = id
             /\ SessionMsg(k, id) = Gone(x) <=> x = id /\ k = "DIS_CONNECT"
  BY <1>w DEF SessionMsg, MsgsOf, Gone
<1>1. CASE OnNewConnect
  <2> DEFINE m == SessionMsg("NEW_CONNECT", sessionID)
  <2>1. /\ Callback /\ sessionID \in Sessions /\ sessionID \notin allSession
        /\ allSession' = allSession \cup {sessionID}
        /\ sess' = [sess EXCEPT ![sessionID] = NewSession] /\ opQue' = opQue /\ PushMsg(m)
    BY <1>1, BoundsAssumption DEF OnNewConnect, TypeOK, Sessions, QueueShape
  <2>2. SameDels /\ m \in Msg
    BY <1>u, <2>1, SessionMsgType DEF SessionMsgs
  <2>3. MsgsAhead' = Append(MsgsAhead, m)
    BY <1>g, <2>1, <2>2, MsgsPushed
  <2>4. m \in KnownMsgs'
    BY <2>1, <2>2 DEF KnownMsgs, SessionMsg
  <2>5. ~Leaving(sessionID)
    BY <1>g, <2>1 DEF DepartInv, Departed
  <2>6. ASSUME NEW id \in Sessions
        PROVE  /\ m \in MsgsOf(id) => ~Leaving(id)
               /\ Departed(id)' <=> Departed(id) \/ m = Gone(id)
    <3>1. m # Gone(id) /\ (m \in MsgsOf(id) => id = sessionID)
      BY <1>w, <2>1 DEF SessionMsgs
    <3>2. Departed(id)' <=> Departed(id)
      BY <1>s, <2>1 DEF Departed, NewSession
    <3>3. QED
      BY <2>5, <3>1, <3>2
  <2> HIDE DEF m
  <2>7. QED
    BY <1>g, <2>1, <2>2, <2>3, <2>4, <2>6, DepartPush
<1>2. CASE OnServerSocketClose
  BY <1>2, <1>k, <1>u DEF OnServerSocketClose, connVars, SameSessions
<1>3. ASSUME NEW id \in Sessions, OnRead(id) PROVE DepartInv'
  <2>1. /\ Callback /\ id \in allSession /\ UNCHANGED <<allSession, sess, opQue>>
        /\ ~sess[id].isInvalid
    BY <1>3 DEF OnRead, SocketCallback, ShutdownInv, Agrees
  <2>2. SameDels /\ SameSessions
    BY <1>u, <2>1 DEF SameSessions
  <2>3. CASE sess[id].online
    <3> DEFINE m == SessionMsg("RECV_DATA", id)
    <3>1. m \in Msg /\ PushMsg(m)
      BY <1>3, <2>3, SessionMsgType DEF OnRead, SessionMsgs
    <3>2. MsgsAhead' = Append(MsgsAhead, m)
      BY <1>g, <2>1, <3>1, MsgsPushed
    <3>3. m \in KnownMsgs'
      BY <2>1, <3>1 DEF KnownMsgs, SessionMsg
    <3>4. ASSUME NEW x \in Sessions
          PROVE  /\ m \in MsgsOf(x) => ~Leaving(x)
                 /\ Departed(x)' <=> Departed(x) \/ m = Gone(x)
      <4>1. m # Gone(x) /\ (m \in MsgsOf(x) => x = id)
        BY <1>w DEF SessionMsgs
      <4>2. Departed(x)' <=> Departed(x)
        BY <2>1 DEF Departed
      <4>3. QED
        BY <1>g, <1>v, <2>1, <4>1, <4>2
    <3> HIDE DEF m
    <3>5. QED
      BY <1>g, <2>1, <2>2, <3>1, <3>2, <3>3, <3>4, DepartPush
  <2>4. CASE ~sess[id].online
    BY <1>3, <1>k, <2>1, <2>2, <2>4 DEF OnRead
  <2>5. QED
    BY <2>3, <2>4
<1>4. ASSUME NEW id \in Sessions, OnReadEnd(id) PROVE DepartInv'
  <2>1. SameSessions
    BY <1>4, <1>s, SameInvalid DEF OnReadEnd, SocketCallback, SameSessions
  <2>2. QED
    BY <1>4, <1>k, <1>u, <2>1 DEF OnReadEnd, SocketCallback
<1>5. ASSUME NEW id \in Sessions, OnWriteDone(id) PROVE DepartInv'
  <2>1. SameSessions
    BY <1>5, <1>s DEF OnWriteDone, SocketCallback, SameSessions, Session
  <2>2. SameDels
    BY <1>5, <1>o DEF OnWriteDone, SocketCallback
  <2>3. QED
    BY <1>5, <1>k, <2>1, <2>2 DEF OnWriteDone, SocketCallback
<1>6. ASSUME NEW id \in Sessions, OnClose(id) PROVE DepartInv'
  <2> DEFINE m == SessionMsg("DIS_CONNECT", id)
             s == [SocketClosed(sess[id]) EXCEPT !.isInvalid = TRUE]
  <2>1. /\ Callback /\ id \in allSession /\ allSession' = allSession
        /\ ~sess[id].isInvalid
    BY <1>6 DEF OnClose, SocketCallback, ShutdownInv, Agrees
  <2>2. sess' = [sess EXCEPT ![id] = s] /\ s.isInvalid = TRUE
    <3>1. sess[id] \in Session
      BY <1>s
    <3>2. s.isInvalid = TRUE
      BY <3>1 DEF SocketClosed, Session
    <3>3. sess' = [sess EXCEPT ![id] = s]
      BY <1>6 DEF OnClose
    <3>4. QED
      BY <3>2, <3>3
  <2>3. SameDels
    <3>1. sess[id].closers \in Nat
      BY <1>s DEF Session
    <3>2. QED
      BY <1>6, <1>o, <2>1, <3>1 DEF OnClose
  <2>4. m \in Msg /\ PushMsg(m)
    BY <1>6, SessionMsgType DEF OnClose, SessionMsgs
  <2>5. MsgsAhead' = Append(MsgsAhead, m)
    BY <1>g, <2>1, <2>4, MsgsPushed
  <2>6. m \in KnownMsgs'
    BY <2>1, <2>4 DEF KnownMsgs, SessionMsg
  <2> HIDE DEF s
  <2>7. ASSUME NEW x \in Sessions
        PROVE  /\ m \in MsgsOf(x) => ~Leaving(x)
               /\ Departed(x)' <=> Departed(x) \/ m = Gone(x)
    <3>1. (m = Gone(x) <=> x = id) /\ (m \in MsgsOf(x) => x = id)
      BY <1>w DEF SessionMsgs
    <3>2. Departed(x)' <=> Departed(x) \/ x = id
      BY <1>s, <2>1, <2>2 DEF Departed
    <3>3. QED
      BY <1>g, <1>v, <2>1, <3>1, <3>2
  <2> HIDE DEF m
  <2>8. QED
    BY <1>g, <2>1, <2>3, <2>4, <2>5, <2>6, <2>7, DepartPush
<1>7. QED
  BY <1>1, <1>2, <1>3, <1>4, <1>5, <1>6

LEMMA DepartInit == Init => DepartInv
<1> SUFFICES ASSUME Init PROVE DepartInv
  OBVIOUS
<1>1. MsgsAhead = <<>> /\ OpsAhead = <<>>
  BY NothingAhead, EmptySeq DEF Init, MsgsAhead, OpsAhead
<1>2. DOMAIN MsgsAhead = {} /\ DOMAIN OpsAhead = {}
  BY <1>1, EmptySeq
<1>3. \A id \in Sessions : ~Departed(id)
  BY DEF Init, Departed
<1>4. QED
  BY <1>2, <1>3 DEF DepartInv, Within, Single, Last, Has, Leaving

LEMMA DepartStep ==
  ASSUME TypeOK, QueueShape, ShutdownInv, DepartInv, [Next]_vars
  PROVE  DepartInv'
<1>1. CASE UNCHANGED vars
  <2>1. /\ MsgsAhead' = MsgsAhead /\ OpsAhead' = OpsAhead
        /\ UNCHANGED <<app, allSession, sess>>
    BY <1>1 DEF vars, appVars, connVars, MsgsAhead, OpsAhead
  <2>2. QED
    BY <2>1, SameOps, DepartKept DEF SameSessions
<1>2. QED
  BY <1>1, DepartApplication, DepartLoop, DepartCallbacks DEF Next, LoopThread

(* Every session is freed once: its DIS_CONNECT, and the operation that    *)
(* frees it, are never queued twice nor together, no message is queued of  *)
(* a session that was freed and none behind its DIS_CONNECT.               *)
THEOREM DepartsOnceCorrect == SafeSpec => []DepartsOnce
<1>1. ASSUME TypeOK, DepartInv PROVE DepartsOnce
  <2>1. MsgsAhead \in Seq(Msg) /\ OpsAhead \in Seq(Op)
    BY <1>1, AheadType
  <2>2. ASSUME NEW id \in Sessions PROVE Departures(id) = IF Leaving(id) THEN 1 ELSE 0
    <3>1. Single(MsgsAhead, Gone(id)) /\ Single(OpsAhead, Del(id))
      BY <1>1 DEF DepartInv
    <3>2. ~(Has(MsgsAhead, Gone(id)) /\ Has(OpsAhead, Del(id)))
      <4>1. Gone(id) \in MsgsOf(id)
        BY DEF Gone, SessionMsg, MsgsOf, SessionMsgs
      <4>2. QED
        BY <1>1, <4>1 DEF DepartInv, Silent, Has
    <3>3. /\ Cardinality({i \in DOMAIN MsgsAhead : MsgsAhead[i] = Gone(id)})
               = IF Has(MsgsAhead, Gone(id)) THEN 1 ELSE 0
          /\ Cardinality({i \in DOMAIN OpsAhead : OpsAhead[i] = Del(id)})
               = IF Has(OpsAhead, Del(id)) THEN 1 ELSE 0
      BY <2>1, <3>1, CountSingle
    <3>4. QED
      BY <3>2, <3>3 DEF Departures, Leaving, Gone, Del
  <2>3. ASSUME NEW m \in QueuedMsgs, m.msg # "EXIT_LOOP" PROVE m.id \in allSession
    <3>1. PICK i \in DOMAIN MsgsAhead : MsgsAhead[i] = m
      <4>0. msgDispatch \in Seq(Msg) /\ msgQue \in Seq(Msg)
        BY <1>1 DEF TypeOK
      <4>1. CASE \E i \in DOMAIN msgDispatch : msgDispatch[i] = m
        BY <4>0, <4>1, AtConcat DEF MsgsAhead
      <4>2. ASSUME NEW i \in DOMAIN msgQue, msgQue[i] = m
            PROVE  \E j \in DOMAIN MsgsAhead : MsgsAhead[j] = m
        <5>1. /\ Len(msgDispatch) + i \in DOMAIN MsgsAhead
              /\ MsgsAhead[Len(msgDispatch) + i] = m
          BY <4>0, <4>2, AtConcat DEF MsgsAhead
        <5>2. QED
          BY <5>1
      <4>3. QED
        BY <4>1, <4>2 DEF QueuedMsgs
    <3>2. QED
      BY <1>1, <2>3, <3>1 DEF DepartInv, Within, KnownMsgs
  <2>4. ASSUME NEW id \in Sessions, NEW i \in DOMAIN MsgsAhead, NEW j \in DOMAIN MsgsAhead,
               i < j, MsgsAhead[i] = SessionMsg("DIS_CONNECT", id)
        PROVE  MsgsAhead[j].msg = "EXIT_LOOP" \/ MsgsAhead[j].id # id
    <3>1. MsgsAhead[j] \notin MsgsOf(id)
      BY <1>1, <2>4 DEF DepartInv, Last, Gone
    <3>2. MsgsAhead[j] \in Msg
      BY <2>1, LenProperties
    <3>3. QED
      BY <3>1, <3>2 DEF Msg, MsgsOf
  <2>5. \A id \in Sessions : app # "gone" => (Departed(id) <=> Leaving(id))
    BY <1>1 DEF DepartInv
  <2>6. QED
    BY <2>2, <2>3, <2>4, <2>5 DEF DepartsOnce, Departed
<1>2. TypeOK /\ QueueShape /\ ShutdownInv /\ DepartInv /\ [Next]_vars
        => QueueShape' /\ DepartInv'
  BY QueueShapeStep, DepartStep
<1>3. SafeSpec => [](QueueShape /\ DepartInv)
  BY <1>2, QueueShapeInit, DepartInit, TypeCorrect, ShutdownInvariant, PTL DEF SafeSpec
<1>4. QED
  BY <1>1, <1>3, TypeCorrect, PTL
-----------------------------------------------------------------------------
(* ImplementsContract.  A session is announced before anything else is     *)
(* told of it, and before the sessions that were made after it; the        *)
(* application has heard of its end as soon as that is no longer in the    *)
(* queue of messages; the close callback is the only message when there is *)
(* one.  All this of a server that is started once.                        *)

Announce(id) == SessionMsg("NEW_CONNECT", id)
Exit         == [msg |-> "EXIT_LOOP"]
Younger(id)  == {Announce(x) : x \in {y \in Sessions : y > id}}
Behind(id)   == MsgsOf(id) \cup Younger(id)

ViewInv ==
  \A id \in Sessions :
    /\ Leads(MsgsAhead, Announce(id), Behind(id))
    /\ contract.view[id] # "new" => ~Has(MsgsAhead, Announce(id)) /\ id < sessionID
    /\ contract.view[id] = "new" /\ id < sessionID /\ app # "gone" => Has(MsgsAhead, Announce(id))
    /\ contract.view[id] = "up" => id \in allSession
    /\ contract.view[id] = "down" =>
         Silent(id) /\ (id \in allSession => sess[id].isInvalid)
    /\ Departed(id) /\ contract.view[id] # "down" => Has(MsgsAhead, Gone(id))

ExitInv ==
  /\ loop \in {"stopped", "ended"} => allSession = {}
  /\ exiting => loop = "ended"
  /\ loop # "ended" \/ exiting => ~contract.closed /\ ~Has(MsgsAhead, Exit)
  /\ contract.closed => ~Has(MsgsAhead, Exit)
  /\ Single(MsgsAhead, Exit)

(* Nothing is told, and no session ends.                                   *)
LEMMA ViewKept ==
  ASSUME ViewInv, UNCHANGED <<contract, sessionID>>, MsgsAhead' = MsgsAhead, SameSessions,
         app' # "gone" => app # "gone"
  PROVE  ViewInv'
BY DEF ViewInv, Silent, SameSessions, Departed

LEMMA Messages ==
  ASSUME NEW k \in SessionMsgs, NEW v \in Sessions, NEW id \in Sessions
  PROVE  /\ SessionMsg(k, v) = Announce(id) <=> id = v /\ k = "NEW_CONNECT"
         /\ SessionMsg(k, v) = Gone(id) <=> id = v /\ k = "DIS_CONNECT"
         /\ SessionMsg(k, v) \in MsgsOf(id) <=> id = v
         /\ SessionMsg(k, v) \in Younger(id) <=> v > id /\ k = "NEW_CONNECT"
<1>1. SessionMsg(k, v) \in Younger(id) <=> v > id /\ k = "NEW_CONNECT"
  BY DEF Younger, Announce, SessionMsg
<1>2. QED
  BY <1>1 DEF SessionMsg, Announce, Gone, MsgsOf

LEMMA ExitIsNone ==
  ASSUME NEW id \in Sessions
  PROVE  Exit \notin Behind(id) /\ Exit # Announce(id) /\ Exit # Gone(id) /\ Exit \notin MsgsOf(id)
BY DEF Exit, Behind, Younger, MsgsOf, Announce, Gone, SessionMsg, SessionMsgs

(* A message is queued of a session of which the application has not heard *)
(* the end; NEW_CONNECT is of the latest, and DIS_CONNECT the end of one.  *)
LEMMA ViewPushed ==
  ASSUME TypeOK, QueueShape, DepartInv, ViewInv, UNCHANGED <<contract, app>>, app # "gone",
         NEW k \in SessionMsgs, NEW v \in Sessions, MsgsAhead' = Append(MsgsAhead, SessionMsg(k, v)),
         contract.view[v] # "down",
         k = "NEW_CONNECT" => /\ v = sessionID /\ sessionID' = sessionID + 1
                              /\ allSession' = allSession \cup {v},
         k # "NEW_CONNECT" => UNCHANGED <<sessionID, allSession>>,
         \A id \in Sessions : id # v => sess'[id] = sess[id],
         Departed(v)' => Departed(v) \/ k = "DIS_CONNECT"
  PROVE  ViewInv'
<1> DEFINE m == SessionMsg(k, v)
           M == MsgsAhead
<1>1. m \in Msg /\ M \in Seq(Msg) /\ M' = Append(M, m)
  BY AheadType, SessionMsgType
<1>2. \A id \in Sessions : /\ m = Announce(id) <=> id = v /\ k = "NEW_CONNECT"
                           /\ m = Gone(id) <=> id = v /\ k = "DIS_CONNECT"
                           /\ m \in MsgsOf(id) <=> id = v
  BY Messages
<1>n. sessionID \in Nat /\ \A id \in Sessions : id \in Nat
  BY BoundsAssumption DEF TypeOK, Sessions
<1>3. \A i \in DOMAIN M' : (i \in DOMAIN M /\ M'[i] = M[i]) \/ M'[i] = m
  BY <1>1, AtAppend
<1>b. ASSUME k = "NEW_CONNECT", NEW i \in DOMAIN M PROVE M[i] \notin Behind(v)
  <2>1. M[i] \in KnownMsgs
    BY DEF DepartInv, Within
  <2>2. M[i].msg # "EXIT_LOOP" => M[i].id < v
    BY <1>b, <2>1 DEF KnownMsgs, QueueShape
  <2>3. QED
    BY <1>n, <2>2 DEF Behind, Younger, MsgsOf, Announce, SessionMsg, SessionMsgs
<1> HIDE DEF m
<1>4. ASSUME NEW id \in Sessions
      PROVE  /\ Leads(M', Announce(id), Behind(id))
             /\ Has(M', Announce(id)) <=> Has(M, Announce(id)) \/ (id = v /\ k = "NEW_CONNECT")
             /\ Has(M', Gone(id)) <=> Has(M, Gone(id)) \/ (id = v /\ k = "DIS_CONNECT")
  <2>1. Leads(M, Announce(id), Behind(id))
    BY DEF ViewInv
  <2>2. m = Announce(id) => \A i \in DOMAIN M : M[i] \notin Behind(id)
    BY <1>2, <1>b
  <2>3. Leads(M', Announce(id), Behind(id))
    BY <1>1, <2>1, <2>2, LeadsAppend
  <2>4. QED
    BY <1>1, <1>2, <2>3, HasAppend
<1>5. ASSUME NEW id \in Sessions, contract.view[id] = "down" PROVE Silent(id)'
  <2>1. m \notin MsgsOf(id) /\ Silent(id)
    BY <1>2, <1>5 DEF ViewInv
  <2>2. QED
    BY <1>3, <2>1 DEF Silent
<1>6. ASSUME NEW id \in Sessions, id # v
      PROVE  /\ sess'[id] = sess[id] /\ (Departed(id)' <=> Departed(id))
             /\ id \in allSession' <=> id \in allSession
             /\ id < sessionID' <=> id < sessionID
  BY <1>6, <1>n DEF Departed
<1>7. ASSUME NEW id \in Sessions
      PROVE  /\ contract.view[id] # "new" => ~Has(M', Announce(id)) /\ id < sessionID'
             /\ contract.view[id] = "new" /\ id < sessionID' => Has(M', Announce(id))
             /\ contract.view[id] = "up" => id \in allSession'
             /\ contract.view[id] = "down" =>
                  Silent(id)' /\ (id \in allSession' => sess'[id].isInvalid)
             /\ Departed(id)' /\ contract.view[id] # "down" => Has(M', Gone(id))
  <2>1. /\ contract.view[id] # "new" => ~Has(M, Announce(id)) /\ id < sessionID
        /\ contract.view[id] = "new" /\ id < sessionID => Has(M, Announce(id))
        /\ contract.view[id] = "up" => id \in allSession
        /\ contract.view[id] = "down" =>
             Silent(id) /\ (id \in allSession => sess[id].isInvalid)
        /\ Departed(id) /\ contract.view[id] # "down" => Has(M, Gone(id))
    BY DEF ViewInv
  <2>2. CASE id = v /\ k = "NEW_CONNECT"
    <3>1. contract.view[id] = "new" /\ ~Departed(v)
      BY <1>n, <2>1, <2>2 DEF Departed, QueueShape
    <3>2. QED
      BY <1>4, <2>1, <2>2, <3>1
  <2>3. CASE id = v /\ k # "NEW_CONNECT"
    BY <1>4, <2>1, <2>3
  <2>4. CASE id # v
    BY <1>4, <1>5, <1>6, <2>1, <2>4
  <2>5. QED
    BY <2>2, <2>3, <2>4
<1>8. QED
  BY <1>4, <1>7 DEF ViewInv

(* What the application is told next is what the contract allows.          *)
LEMMA ViewDispatch ==
  ASSUME TypeOK, QueueShape, ShutdownInv, DepartInv, ViewInv, ExitInv, DispatchMsg
  PROVE  ViewInv' /\ Promised(Head(msgDispatch))
<1> DEFINE m == Head(msgDispatch)
<1>1. /\ msgDispatch # <<>> /\ msgDispatch' = Tail(msgDispatch)
      /\ UNCHANGED <<msgQue, allSession, sess, sessionID, app>> /\ app = "up" /\ contract' = Told(m)
  BY DEF DispatchMsg, connVars
<1>2. m \in Msg
  BY <1>1, HeadTailProperties DEF TypeOK
<1>3. /\ MsgsAhead \in Seq(Msg) /\ MsgsAhead # <<>>
      /\ Head(MsgsAhead) = m /\ MsgsAhead' = Tail(MsgsAhead)
  BY <1>1, AheadType, MsgsPopped
<1>4. m \in KnownMsgs
  BY <1>3, WithinTail DEF DepartInv
<1>v. /\ contract.view \in [Sessions -> {"new", "up", "down"}]
      /\ contract = [view |-> contract.view, closed |-> contract.closed]
  BY DEF TypeOK, Contract
<1>5. ASSUME NEW id \in Sessions
      PROVE  /\ Leads(MsgsAhead', Announce(id), Behind(id))
             /\ m \in Behind(id) => ~Has(MsgsAhead', Announce(id))
             /\ m \in MsgsOf(id) => ~Silent(id)
             /\ m # Announce(id) => (Has(MsgsAhead', Announce(id)) <=> Has(MsgsAhead, Announce(id)))
             /\ m = Announce(id) => Has(MsgsAhead, Announce(id))
             /\ m # Gone(id) => (Has(MsgsAhead', Gone(id)) <=> Has(MsgsAhead, Gone(id)))
             /\ Silent(id) \/ m = Gone(id) => Silent(id)'
             /\ m = Gone(id) => Departed(id)
             /\ Departed(id)' <=> Departed(id)
  <2>1. Leads(MsgsAhead, Announce(id), Behind(id))
    BY DEF ViewInv
  <2>2. Leads(MsgsAhead', Announce(id), Behind(id)) /\ (m \in Behind(id) => ~Has(MsgsAhead', Announce(id)))
    BY <1>3, <2>1, LeadsTail
  <2>3. m \in MsgsOf(id) => ~Silent(id)
    BY <1>3, AtTail DEF Silent
  <2>4. Has(MsgsAhead, Announce(id)) <=> m = Announce(id) \/ Has(MsgsAhead', Announce(id))
    BY <1>3, HasTail
  <2>5. /\ Has(MsgsAhead, Gone(id)) <=> m = Gone(id) \/ Has(MsgsAhead', Gone(id))
        /\ Silent(id) \/ m = Gone(id) => Silent(id)'
    BY <1>1, DepartPopped
  <2>6. m = Gone(id) => Departed(id)
    BY <1>1, <2>5 DEF DepartInv, Leaving
  <2>7. Departed(id)' <=> Departed(id)
    BY <1>1 DEF Departed
  <2>8. QED
    BY <2>2, <2>3, <2>4, <2>5, <2>6, <2>7
<1>6. ASSUME NEW id \in Sessions, m \in MsgsOf(id), m # Announce(id)
      PROVE  contract.view[id] = "up"
  <2>1. id \in allSession
    BY <1>4, <1>6 DEF KnownMsgs, MsgsOf, SessionMsgs
  <2>2. contract.view[id] # "down"
    BY <1>5, <1>6 DEF ViewInv
  <2>3. contract.view[id] # "new"
    BY <1>1, <1>5, <1>6, <2>1 DEF ViewInv, Behind, QueueShape
  <2>4. QED
    BY <1>v, <2>2, <2>3
<1> HIDE DEF m
<1>7. CASE m = Exit
  <2>1. Has(MsgsAhead, Exit)
    BY <1>3, <1>7, HasTail
  <2>2. allSession = {} /\ ~contract.closed
    BY <2>1 DEF ExitInv
  <2>3. contract' = [contract EXCEPT !.closed = TRUE]
    BY <1>1, <1>7 DEF Told, Exit
  <2>4. contract'.view = contract.view /\ contract'.closed = TRUE
    BY <1>v, <2>3
  <2>5. \A id \in Sessions : contract.view[id] # "up"
    BY <2>2 DEF ViewInv
  <2>6. Promise!OnClose
    BY <2>2, <2>4, <2>5 DEF Promise!OnClose
  <2>7. \A id \in Sessions : m \notin MsgsOf(id) /\ m # Announce(id) /\ m # Gone(id)
    BY <1>7, ExitIsNone
  <2>8. ViewInv'
    BY <1>1, <1>5, <2>4, <2>7 DEF ViewInv
  <2>9. Promised(m)
    BY <1>7, <2>6 DEF Promised, Exit
  <2>10. QED
    BY <2>8, <2>9 DEF m
<1>8. ASSUME NEW v \in Sessions, NEW k \in SessionMsgs, m = SessionMsg(k, v)
      PROVE  ViewInv' /\ Promised(m)
  <2>1. \A id \in Sessions : /\ m \in MsgsOf(id) <=> id = v
                             /\ m = Announce(id) <=> id = v /\ k = "NEW_CONNECT"
                             /\ m = Gone(id) <=> id = v /\ k = "DIS_CONNECT"
                             /\ m \in Younger(id) <=> v > id /\ k = "NEW_CONNECT"
    BY <1>8, Messages
  <2>2. ~contract.closed
    <3>1. v \in allSession
      BY <1>4, <1>8 DEF KnownMsgs, SessionMsg, SessionMsgs
    <3>2. QED
      BY <3>1 DEF ExitInv
  <2>3. m.msg = k /\ m.id = v
    BY <1>8 DEF SessionMsg
  <2>4. CASE k = "NEW_CONNECT"
    <3>1. contract.view[v] = "new" /\ v \in allSession
      BY <1>1, <1>4, <1>5, <2>1, <2>3, <2>4 DEF ViewInv, KnownMsgs
    <3>2. contract' = [contract EXCEPT !.view[v] = "up"]
      BY <1>1, <2>3, <2>4 DEF Told
    <3>3. contract'.view = [contract.view EXCEPT ![v] = "up"] /\ contract'.closed = contract.closed
      BY <1>v, <3>2
    <3>n. ASSUME NEW x \in Sessions, x < v PROVE contract.view[x] # "new"
      <4>1. x \in Nat /\ v \in Nat /\ sessionID \in Nat /\ v < sessionID
        BY <3>1, BoundsAssumption DEF TypeOK, Sessions, QueueShape
      <4>2. m \in Behind(x) /\ m # Announce(x)
        BY <2>1, <2>4, <3>n, <4>1 DEF Behind
      <4>3. ~Has(MsgsAhead, Announce(x)) /\ x < sessionID
        BY <1>5, <3>n, <4>1, <4>2
      <4>4. QED
        BY <1>1, <4>3 DEF ViewInv
    <3>4. Promise!OnNewConnect(v)
      BY <2>2, <3>1, <3>3, <3>n DEF Promise!OnNewConnect, Promise!Callback
    <3>5. Promised(m)
      BY <2>3, <2>4, <3>4 DEF Promised
    <3>6. contract'.view[v] = "up" /\ \A id \in Sessions : id # v => contract'.view[id] = contract.view[id]
      BY <1>v, <3>3
    <3>7. v < sessionID
      BY <3>1 DEF QueueShape
    <3>8. ViewInv'
      BY <1>1, <1>5, <2>1, <2>4, <3>1, <3>6, <3>7 DEF ViewInv, Behind
    <3>9. QED
      BY <3>5, <3>8
  <2>5. CASE k = "RECV_DATA"
    <3>1. contract.view[v] = "up" /\ contract' = contract
      BY <1>1, <1>6, <2>1, <2>3, <2>5 DEF Told
    <3>2. contract.view = [contract.view EXCEPT ![v] = "up"]
      BY <1>v, <3>1
    <3>3. Promise!OnRecv(v)
      BY <2>2, <3>1, <3>2 DEF Promise!OnRecv, Promise!Callback
    <3>4. Promised(m)
      BY <2>3, <2>5, <3>3 DEF Promised
    <3>5. ViewInv'
      BY <1>1, <1>5, <2>1, <2>5, <3>1 DEF ViewInv
    <3>6. QED
      BY <3>4, <3>5
  <2>6. CASE k = "DIS_CONNECT"
    <3>1. contract.view[v] = "up" /\ contract' = [contract EXCEPT !.view[v] = "down"]
      BY <1>1, <1>6, <2>1, <2>3, <2>6 DEF Told
    <3>2. contract'.view = [contract.view EXCEPT ![v] = "down"] /\ contract'.closed = contract.closed
      BY <1>v, <3>1
    <3>3. Promise!OnDisconnect(v)
      BY <2>2, <3>1, <3>2 DEF Promise!OnDisconnect, Promise!Callback
    <3>4. Promised(m)
      BY <2>3, <2>6, <3>3 DEF Promised
    <3>5. contract'.view[v] = "down" /\ \A id \in Sessions : id # v => contract'.view[id] = contract.view[id]
      BY <1>v, <3>2
    <3>6. ViewInv'
      BY <1>1, <1>5, <2>1, <2>6, <3>1, <3>5 DEF ViewInv, Departed
    <3>7. QED
      BY <3>4, <3>6
  <2>7. QED
    BY <2>4, <2>5, <2>6 DEF SessionMsgs
<1>9. m = Exit \/ \E v \in Sessions, k \in SessionMsgs : m = SessionMsg(k, v)
  BY <1>2 DEF Msg, Exit, SessionMsg
<1>10. QED
  BY <1>7, <1>8, <1>9 DEF m

(* The session is freed: the application has been told of its end.         *)
LEMMA ViewDelete ==
  ASSUME TypeOK, QueueShape, ShutdownInv, DepartInv, ViewInv, ExecDelete
  PROVE  ViewInv'
<1> DEFINE d == Target
<1>1. /\ Executes("SEND_DIS_SESSION_MSG") /\ opQue' = opQue /\ app # "gone"
      /\ Head(opDispatch).op = "SEND_DIS_SESSION_MSG"
      /\ UNCHANGED <<contract, app, sessionID, sess, msgQue, msgDispatch>>
      /\ allSession' = allSession \ {d}
  BY DEF ExecDelete, Executes, QueueShape, appVars
<1>2. d \in Sessions
  BY <1>1, TargetType DEF SessionOps
<1>3. Head(opDispatch) = Del(d)
  <2>1. Head(opDispatch) \in Op
    BY <1>1, HeadTailProperties DEF TypeOK, Executes
  <2>2. QED
    BY <1>1, <2>1 DEF Op, Del, Target
<1> HIDE DEF d
<1>4. Has(OpsAhead, Del(d))
  BY <1>1, <1>3, AheadType, OpsPopped, HasTail
<1>5. Silent(d) /\ Departed(d)
  BY <1>1, <1>2, <1>4 DEF DepartInv, Leaving
<1>6. ~Has(MsgsAhead, Gone(d))
  BY <1>5 DEF Has, Silent, Gone, MsgsOf, SessionMsg, SessionMsgs
<1>7. contract.view[d] = "down"
  BY <1>2, <1>5, <1>6 DEF ViewInv
<1>8. MsgsAhead' = MsgsAhead
  BY <1>1 DEF MsgsAhead
<1>9. \A id \in Sessions : Departed(id)' => Departed(id)
  BY <1>1 DEF Departed
<1>10. QED
  BY <1>1, <1>7, <1>8, <1>9 DEF ViewInv, Silent

LEMMA ViewStep ==
  ASSUME TypeOK, QueueShape, ShutdownInv, DepartInv, ViewInv, ExitInv, [Next]_vars
  PROVE  ViewInv'
<1>s. sess \in [Sessions -> Session] /\ allSession \subseteq Sessions
  BY DEF TypeOK
<1>k. ASSUME SameSessions, UNCHANGED <<contract, sessionID, app, msgQue, msgDispatch>>
      PROVE  ViewInv'
  BY <1>k, ViewKept DEF MsgsAhead
<1>u. ASSUME UNCHANGED <<contract, sessionID, app, allSession, sess, msgQue, msgDispatch>>
      PROVE  ViewInv'
  BY <1>u, <1>k DEF SameSessions
<1>d. ASSUME DisconnectValid, allSession' = allSession PROVE SameSessions
  BY <1>d, <1>s, SameInvalid DEF DisconnectValid, SameSessions
<1>p. ASSUME NEW k \in SessionMsgs, NEW v \in Sessions, PushMsg(SessionMsg(k, v)),
             msgDispatch' = msgDispatch
      PROVE  MsgsAhead' = Append(MsgsAhead, SessionMsg(k, v))
  BY <1>p, MsgsPushed, SessionMsgType
<1>1. CASE Start \/ Stop \/ OnIdle \/ RunReturns \/ UNCHANGED vars
  BY <1>1, <1>u DEF Start, Calls, Stop, OnIdle, RunReturns, vars, appVars, connVars
<1>x. ASSUME ViewInv, UNCHANGED <<contract, connVars, msgQue, msgDispatch>>, app # "gone"
      PROVE  ViewInv'
  BY <1>x, ViewKept DEF connVars, MsgsAhead, SameSessions
<1>2. CASE Destroy
  BY <1>2, <1>x DEF Destroy, Calls
<1>3. ASSUME NEW v \in Sessions, Send(v) \/ SendAndClose(v) \/ Disconnect(v) PROVE ViewInv'
  BY <1>3, <1>u DEF Send, SendAndClose, Disconnect, Request, Calls, connVars
<1>4. CASE JoinReturns
  <2>1. /\ MsgsAhead' = <<>> /\ allSession = {} /\ UNCHANGED <<contract, sess, sessionID, allSession>>
        /\ app' = "gone"
    <3>1. msgDispatch' = <<>> /\ msgQue' = <<>>
      BY <1>4 DEF JoinReturns, QueueShape
    <3>2. QED
      BY <1>4, <3>1, NothingAhead, EmptySeq DEF JoinReturns, MsgsAhead, ExitInv, connVars
  <2>2. DOMAIN MsgsAhead' = {}
    BY <2>1, EmptySeq
  <2>3. QED
    BY <2>1, <2>2 DEF ViewInv, Leads, Has, Silent, Departed
<1>5. CASE GetThreadMsg
  <2>1. MsgsAhead' = MsgsAhead
    BY <1>5, NothingAhead, EmptySeq DEF GetThreadMsg, MsgsAhead, TypeOK
  <2>2. UNCHANGED <<contract, app, sessionID, allSession, sess>>
    BY <1>5 DEF GetThreadMsg, appVars, connVars
  <2>3. QED
    BY <2>1, <2>2, ViewKept DEF SameSessions
<1>6. CASE DispatchMsg
  BY <1>6, ViewDispatch
<1>e. ASSUME NEW o, Executes(o)
      PROVE  UNCHANGED <<contract, sessionID, app, msgQue, msgDispatch>>
  BY <1>e DEF Executes, appVars
<1>t. ASSUME NEW r, sess' = [sess EXCEPT ![Target] = r], allSession' = allSession,
             r.isInvalid = sess[Target].isInvalid
      PROVE  SameSessions
  BY <1>s, <1>t DEF SameSessions
<1>7. CASE ExecSend \/ ExecSendAndClose \/ ExecDisconnect
  <2>1. Target \in Sessions
    BY <1>7, TargetType DEF ExecSend, ExecSendAndClose, ExecDisconnect, SessionOps
  <2>2. SameSessions
    <3>1. CASE ExecSend
      BY <1>s, <1>t, <2>1, <3>1, SameInvalid DEF ExecSend, SameSessions
    <3>2. CASE ExecSendAndClose
      BY <1>s, <1>t, <2>1, <3>2, SameInvalid DEF ExecSendAndClose, SameSessions
    <3>3. CASE ExecDisconnect
      BY <1>s, <1>t, <2>1, <3>3, SameInvalid DEF ExecDisconnect, SameSessions
    <3>4. QED
      BY <1>7, <3>1, <3>2, <3>3
  <2>3. QED
    BY <1>7, <1>e, <1>k, <2>2 DEF ExecSend, ExecSendAndClose, ExecDisconnect
<1>8. CASE ExecDelete
  BY <1>8, ViewDelete
<1>9. CASE ExecStopServer
  BY <1>9, <1>d, <1>e, <1>k DEF ExecStopServer
<1>10. CASE OnIdleStage
  <2>1. UNCHANGED <<contract, app, sessionID, allSession, msgQue, msgDispatch>>
    BY <1>10 DEF OnIdleStage, appVars
  <2>2. SameSessions
    BY <1>10, <1>d, <2>1 DEF OnIdleStage, ClearSessions, StopLoop, NothingToDo, SameSessions
  <2>3. QED
    BY <1>k, <2>1, <2>2
<1>11. CASE RunEnds
  <2>1. /\ Exit \in Msg /\ PushMsg(Exit)
        /\ UNCHANGED <<contract, app, sessionID, allSession, sess, msgDispatch>>
    BY <1>11 DEF RunEnds, Exit, Msg, appVars, connVars
  <2>2. MsgsAhead' = Append(MsgsAhead, Exit) /\ MsgsAhead \in Seq(Msg)
    BY <2>1, AheadType, MsgsPushed
  <2>3. ASSUME NEW id \in Sessions
        PROVE  /\ Leads(MsgsAhead', Announce(id), Behind(id))
               /\ Has(MsgsAhead', Announce(id)) <=> Has(MsgsAhead, Announce(id))
               /\ Has(MsgsAhead', Gone(id)) <=> Has(MsgsAhead, Gone(id))
               /\ Silent(id) => Silent(id)'
    <3>1. Leads(MsgsAhead, Announce(id), Behind(id))
      BY DEF ViewInv
    <3>2. Leads(MsgsAhead', Announce(id), Behind(id))
      BY <2>1, <2>2, <3>1, ExitIsNone, LeadsAppend
    <3>3. Silent(id) => Silent(id)'
      BY <2>1, <2>2, ExitIsNone, AtAppend DEF Silent
    <3>4. QED
      BY <2>1, <2>2, <3>2, <3>3, ExitIsNone, HasAppend
  <2>4. \A id \in Sessions : Departed(id)' <=> Departed(id)
    BY <2>1 DEF Departed
  <2>5. QED
    BY <2>1, <2>3, <2>4 DEF ViewInv
<1>c. ASSUME Callback PROVE app # "gone" /\ UNCHANGED <<contract, app, msgDispatch>>
  BY <1>c DEF Callback, QueueShape, appVars
<1>12. CASE OnNewConnect
  <2>1. /\ Callback /\ sessionID \in Sessions /\ sessionID' = sessionID + 1
        /\ allSession' = allSession \cup {sessionID}
        /\ sess' = [sess EXCEPT ![sessionID] = NewSession]
        /\ PushMsg(SessionMsg("NEW_CONNECT", sessionID))
    BY <1>12, BoundsAssumption DEF OnNewConnect, TypeOK, Sessions
  <2>2. contract.view[sessionID] # "down"
    BY <2>1, BoundsAssumption DEF ViewInv, Sessions
  <2>3. \A id \in Sessions : id # sessionID => sess'[id] = sess[id]
    BY <1>s, <2>1
  <2>4. ASSUME NEW v \in Sessions, v = sessionID PROVE ~Departed(v)'
    BY <1>s, <2>1, <2>4 DEF Departed, NewSession
  <2>5. QED
    BY <1>c, <1>p, <2>1, <2>2, <2>3, <2>4, ViewPushed DEF SessionMsgs
<1>13. CASE OnServerSocketClose
  BY <1>13, <1>c, <1>u DEF OnServerSocketClose, connVars
<1>14. ASSUME NEW id \in Sessions, OnRead(id) PROVE ViewInv'
  <2>1. /\ Callback /\ id \in allSession /\ UNCHANGED <<allSession, sess, sessionID>>
        /\ ~sess[id].isInvalid
    BY <1>14 DEF OnRead, SocketCallback, ShutdownInv, Agrees
  <2>2. CASE sess[id].online
    <3>1. contract.view[id] # "down" /\ PushMsg(SessionMsg("RECV_DATA", id))
      BY <1>14, <2>1, <2>2 DEF ViewInv, OnRead
    <3>2. Departed(id)' => Departed(id)
      BY <2>1 DEF Departed
    <3>3. QED
      BY <1>c, <1>p, <2>1, <3>1, <3>2, ViewPushed DEF SessionMsgs
  <2>3. CASE ~sess[id].online
    BY <1>14, <1>c, <1>u, <2>1, <2>3 DEF OnRead
  <2>4. QED
    BY <2>2, <2>3
<1>15. ASSUME NEW id \in Sessions, OnReadEnd(id) PROVE ViewInv'
  <2>1. SameSessions
    BY <1>15, <1>s, SameInvalid DEF OnReadEnd, SocketCallback, SameSessions
  <2>2. QED
    BY <1>15, <1>c, <1>k, <2>1 DEF OnReadEnd, SocketCallback
<1>16. ASSUME NEW id \in Sessions, OnWriteDone(id) PROVE ViewInv'
  <2>1. SameSessions
    BY <1>16, <1>s DEF OnWriteDone, SocketCallback, SameSessions, Session
  <2>2. QED
    BY <1>16, <1>c, <1>k, <2>1 DEF OnWriteDone, SocketCallback
<1>17. ASSUME NEW id \in Sessions, OnClose(id) PROVE ViewInv'
  <2>1. /\ Callback /\ id \in allSession /\ UNCHANGED <<allSession, sessionID>>
        /\ ~sess[id].isInvalid /\ PushMsg(SessionMsg("DIS_CONNECT", id))
    BY <1>17 DEF OnClose, SocketCallback, ShutdownInv, Agrees
  <2>2. \A x \in Sessions : x # id => sess'[x] = sess[x]
    BY <1>17, <1>s DEF OnClose
  <2>3. contract.view[id] # "down"
    BY <2>1 DEF ViewInv
  <2>4. QED
    BY <1>c, <1>p, <2>1, <2>2, <2>3, ViewPushed DEF SessionMsgs
<1>18. QED
  BY <1>1, <1>2, <1>3, <1>4, <1>5, <1>6, <1>7, <1>8, <1>9, <1>10, <1>11, <1>12, <1>13,
     <1>14, <1>15, <1>16, <1>17
  DEF Next, Application, LoopThread, ExecuteOperation

(* The messages change by at most one, which is not EXIT_LOOP.             *)
LEMMA ExitKept ==
  ASSUME TypeOK, ExitInv, loop' = loop, exiting' = exiting, contract'.closed = contract.closed,
         loop \in {"stopped", "ended"} => allSession' = {},
         \/ MsgsAhead' = MsgsAhead
         \/ \E m \in Msg : m # Exit /\ MsgsAhead' = Append(MsgsAhead, m)
         \/ MsgsAhead # <<>> /\ MsgsAhead' = Tail(MsgsAhead)
  PROVE  ExitInv'
<1>1. (Has(MsgsAhead', Exit) => Has(MsgsAhead, Exit)) /\ Single(MsgsAhead', Exit)
  <2>1. Single(MsgsAhead, Exit)
    BY DEF ExitInv
  <2>2. CASE MsgsAhead' = MsgsAhead
    BY <2>1, <2>2
  <2>3. CASE \E m \in Msg : m # Exit /\ MsgsAhead' = Append(MsgsAhead, m)
    BY <2>1, <2>3, AheadType, HasAppend, SingleAppend
  <2>4. CASE MsgsAhead # <<>> /\ MsgsAhead' = Tail(MsgsAhead)
    BY <2>1, <2>4, AheadType, HasTail, SingleTail
  <2>5. QED
    BY <2>2, <2>3, <2>4
<1>2. QED
  BY <1>1 DEF ExitInv

LEMMA ExitStep ==
  ASSUME TypeOK, QueueShape, ExitInv, [Next]_vars, "restart" \notin Api
  PROVE  ExitInv'
<1>k. ASSUME UNCHANGED <<loop, exiting, contract>>, MsgsAhead' = MsgsAhead,
             allSession' \subseteq allSession
      PROVE  ExitInv'
  <2>1. loop \in {"stopped", "ended"} => allSession' = {}
    BY <1>k DEF ExitInv
  <2>2. QED
    BY <1>k, <2>1, ExitKept
<1>u. ASSUME UNCHANGED <<loop, exiting, contract, msgQue, msgDispatch>>,
             allSession' \subseteq allSession
      PROVE  ExitInv'
  BY <1>k, <1>u DEF MsgsAhead
<1>1. CASE Start
  <2>1. /\ loop = "none" /\ loop' = "running" /\ MsgsAhead' = MsgsAhead
        /\ UNCHANGED <<exiting, contract>>
    BY <1>1 DEF Start, Calls, MsgsAhead
  <2>2. QED
    BY <2>1 DEF ExitInv
<1>2. CASE Stop \/ Destroy \/ OnIdle \/ UNCHANGED vars
  BY <1>2, <1>u DEF Stop, Destroy, Calls, OnIdle, vars, appVars, loopVars, connVars
<1>3. ASSUME NEW v \in Sessions, Send(v) \/ SendAndClose(v) \/ Disconnect(v) PROVE ExitInv'
  BY <1>3, <1>u DEF Send, SendAndClose, Disconnect, Request, connVars, loopVars
<1>4. CASE JoinReturns
  <2>1. msgDispatch' = <<>> /\ msgQue' = <<>> /\ UNCHANGED <<loop, exiting, contract, allSession>>
    BY <1>4 DEF JoinReturns, QueueShape, loopVars, connVars
  <2>2. DOMAIN MsgsAhead' = {}
    BY <2>1, NothingAhead, EmptySeq DEF MsgsAhead
  <2>3. QED
    BY <2>1, <2>2 DEF ExitInv, Has, Single
<1>5. CASE GetThreadMsg
  <2>1. MsgsAhead' = MsgsAhead
    BY <1>5, NothingAhead, EmptySeq DEF GetThreadMsg, MsgsAhead, TypeOK
  <2>2. QED
    BY <1>5, <1>k, <2>1 DEF GetThreadMsg, appVars, loopVars, connVars
<1>6. CASE DispatchMsg
  <2> DEFINE m == Head(msgDispatch)
  <2>1. /\ MsgsAhead \in Seq(Msg) /\ MsgsAhead # <<>>
        /\ Head(MsgsAhead) = m /\ MsgsAhead' = Tail(MsgsAhead)
        /\ UNCHANGED <<loop, exiting, allSession>> /\ contract' = Told(m) /\ m \in Msg
    BY <1>6, AheadType, MsgsPopped, HeadTailProperties DEF DispatchMsg, loopVars, connVars, TypeOK
  <2> HIDE DEF m
  <2>2. CASE m = Exit
    <3>1. Has(MsgsAhead, Exit) /\ ~Has(MsgsAhead', Exit) /\ Single(MsgsAhead', Exit)
      BY <2>1, <2>2, HasTail, SingleTail DEF ExitInv
    <3>2. QED
      BY <2>1, <3>1 DEF ExitInv
  <2>3. CASE m # Exit
    <3>0. \E v \in Sessions, k \in SessionMsgs : m = SessionMsg(k, v)
      BY <2>1, <2>3 DEF Msg, Exit, SessionMsg
    <3>1. m.msg \in SessionMsgs
      BY <3>0 DEF SessionMsg
    <3>2. contract'.closed = contract.closed
      BY <2>1, <3>1 DEF Told, SessionMsgs, TypeOK, Contract
    <3>3. QED
      BY <2>1, <3>2, ExitKept DEF ExitInv
  <2>4. QED
    BY <2>2, <2>3
<1>7. CASE ExecuteOperation
  BY <1>7, <1>u DEF ExecuteOperation, ExecSend, ExecSendAndClose, ExecDisconnect, ExecDelete,
     ExecStopServer, Executes, appVars
<1>8. CASE OnIdleStage
  <2>1. /\ UNCHANGED <<exiting, contract, allSession, msgQue, msgDispatch>>
        /\ loop = "running"
    BY <1>8 DEF OnIdleStage, appVars
  <2>2. CASE loop' = loop
    BY <1>u, <2>1, <2>2
  <2>3. CASE loop' = "stopped" /\ allSession = {}
    BY <2>1, <2>3 DEF ExitInv, MsgsAhead
  <2>4. QED
    BY <1>8, <2>2, <2>3 DEF OnIdleStage, ClearSessions, StopLoop, NothingToDo, AllSessionsGone
<1>9. CASE RunReturns
  <2>1. /\ loop = "stopped" /\ loop' = "ended" /\ exiting' = TRUE
        /\ UNCHANGED <<contract, allSession, msgQue, msgDispatch>>
    BY <1>9 DEF RunReturns, appVars, connVars
  <2>2. QED
    BY <2>1 DEF ExitInv, MsgsAhead
<1>10. CASE RunEnds
  <2>1. /\ Exit \in Msg /\ PushMsg(Exit) /\ exiting /\ exiting' = FALSE
        /\ UNCHANGED <<loop, contract, allSession, msgDispatch>>
    BY <1>10 DEF RunEnds, Exit, Msg, appVars, connVars
  <2>2. MsgsAhead' = Append(MsgsAhead, Exit) /\ MsgsAhead \in Seq(Msg)
    BY <2>1, AheadType, MsgsPushed
  <2>3. loop = "ended" /\ ~contract.closed /\ ~Has(MsgsAhead, Exit) /\ Single(MsgsAhead, Exit)
    BY <2>1 DEF ExitInv
  <2>4. Single(MsgsAhead', Exit)
    BY <2>1, <2>2, <2>3, SingleAppend
  <2>5. QED
    BY <2>1, <2>3, <2>4 DEF ExitInv
<1>c. ASSUME Callback PROVE loop = "running" /\ UNCHANGED <<loop, exiting, contract, msgDispatch>>
  BY <1>c DEF Callback, appVars
<1>p. ASSUME Callback, NEW k \in SessionMsgs, NEW v \in Sessions, PushMsg(SessionMsg(k, v))
      PROVE  ExitInv'
  <2>1. SessionMsg(k, v) \in Msg /\ SessionMsg(k, v) # Exit
    BY <1>p, SessionMsgType DEF SessionMsg, SessionMsgs, Exit
  <2>2. MsgsAhead' = Append(MsgsAhead, SessionMsg(k, v))
    BY <1>c, <1>p, <2>1, MsgsPushed
  <2>3. QED
    BY <1>c, <1>p, <2>1, <2>2, ExitKept
<1>11. CASE OnNewConnect
  <2>1. sessionID \in Sessions
    BY <1>11, BoundsAssumption DEF OnNewConnect, TypeOK, Sessions
  <2>2. QED
    BY <1>11, <1>p, <2>1 DEF OnNewConnect, SessionMsgs
<1>12. CASE OnServerSocketClose
  BY <1>12, <1>c, <1>u DEF OnServerSocketClose, connVars
<1>13. ASSUME NEW id \in Sessions, OnRead(id) PROVE ExitInv'
  BY <1>13, <1>c, <1>p, <1>u DEF OnRead, SocketCallback, SessionMsgs
<1>14. ASSUME NEW id \in Sessions, OnReadEnd(id) \/ OnWriteDone(id) PROVE ExitInv'
  BY <1>14, <1>c, <1>u DEF OnReadEnd, OnWriteDone, SocketCallback
<1>15. ASSUME NEW id \in Sessions, OnClose(id) PROVE ExitInv'
  BY <1>15, <1>p DEF OnClose, SocketCallback, SessionMsgs
<1>16. QED
  BY <1>1, <1>2, <1>3, <1>4, <1>5, <1>6, <1>7, <1>8, <1>9, <1>10, <1>11, <1>12, <1>13,
     <1>14, <1>15
  DEF Next, Application, LoopThread

LEMMA ContractInit == Init => ViewInv /\ ExitInv /\ Promise!Init
<1> SUFFICES ASSUME Init PROVE ViewInv /\ ExitInv /\ Promise!Init
  OBVIOUS
<1>1. DOMAIN MsgsAhead = {}
  BY NothingAhead, EmptySeq DEF Init, MsgsAhead
<1>2. contract.view = [v \in Sessions |-> "new"] /\ contract.closed = FALSE
  BY DEF Init
<1>3. allSession = {} /\ loop = "none" /\ exiting = FALSE
  BY DEF Init
<1>n. \A id \in Sessions : ~(id < sessionID)
  BY BoundsAssumption DEF Init, Sessions
<1>4. ViewInv
  BY <1>1, <1>2, <1>3, <1>n DEF ViewInv, Leads, Has, Departed
<1>5. ExitInv
  BY <1>1, <1>2, <1>3 DEF ExitInv, Has, Single
<1>6. QED
  BY <1>2, <1>4, <1>5 DEF Promise!Init

(* A step that is no callback leaves the contract alone.                   *)
LEMMA OthersTellNothing ==
  ASSUME [Next]_vars, ~DispatchMsg
  PROVE  contract' = contract
BY DEF Next, Application, LoopThread, ExecuteOperation, Start, Stop, Destroy, JoinReturns, Send,
   SendAndClose, Disconnect, Request, GetThreadMsg, OnIdle, ExecSend, ExecSendAndClose,
   ExecDisconnect, ExecDelete, ExecStopServer, Executes, OnIdleStage, RunReturns, RunEnds,
   OnNewConnect, OnServerSocketClose, OnRead, OnReadEnd, OnWriteDone, OnClose, SocketCallback,
   Callback, vars, appVars

(* The callbacks of the application are those of ServerContract, in its    *)
(* order: every one that is made is a step of it, and nothing else is.  Of *)
(* a server that is not started again: one that is accepts connections     *)
(* after its close callback.                                               *)
THEOREM ContractCorrect == "restart" \notin Api => (SafeSpec => ImplementsContract)
<1> SUFFICES ASSUME "restart" \notin Api PROVE SafeSpec => ImplementsContract
  OBVIOUS
<1> DEFINE Inv == TypeOK /\ QueueShape /\ ShutdownInv /\ DepartInv /\ ViewInv /\ ExitInv
<1>1. Init => Inv /\ Promise!Init
  BY TypeInit, QueueShapeInit, ShutdownInit, DepartInit, ContractInit
<1>2. Inv /\ [Next]_vars => Inv'
  BY TypeStep, QueueShapeStep, ShutdownStep, DepartStep, ViewStep, ExitStep
<1>3. Inv /\ [Next]_vars => [DispatchMsg => Promised(Head(msgDispatch))]_vars
  BY ViewDispatch
<1>4. Inv /\ [Next]_vars => [Promise!Next]_(Promise!vars)
  <2>1. ASSUME Inv, DispatchMsg PROVE Promise!Next
    <3> DEFINE m == Head(msgDispatch)
    <3>1. Promised(m)
      BY <2>1, ViewDispatch
    <3>2. m \in Msg
      BY <2>1, HeadTailProperties DEF DispatchMsg, TypeOK
    <3> HIDE DEF m
    <3>3. QED
      BY <3>1, <3>2 DEF Promised, Promise!Next, Msg, SessionMsgs
  <2>2. ASSUME [Next]_vars, ~DispatchMsg PROVE UNCHANGED Promise!vars
    BY <2>2, OthersTellNothing DEF Promise!vars
  <2>3. QED
    BY <2>1, <2>2
<1> HIDE DEF Inv
<1>5. QED
  BY <1>1, <1>2, <1>3, <1>4, PTL DEF SafeSpec, ImplementsContract, Promise!Spec
=============================================================================
