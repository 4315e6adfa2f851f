-------------------------- MODULE TCPClientProofs --------------------------
(***************************************************************************)
(* The TCP client, for any set of session ids, any number of calls and any *)
(* length of its queues: the types of its variables; SocketState, in which *)
(* the client, the session and the socket agree on a connection;           *)
(* RemovalOnce, on what the queued messages and operations point to;       *)
(* ImplementsContract: the client is a SessionContract; and, of sessions   *)
(* that live through more than one connection, NoDelayConverges,           *)
(* OrphanCause and CloserHitsOwn.                                          *)
(***************************************************************************)
EXTENDS TCPClient, QueueLemmas

-----------------------------------------------------------------------------
(* What the functions of TCPSession make of a session is a session.        *)

LEMMA SessionTypes ==
  ASSUME NEW s \in Session
  PROVE  /\ ExecuteDisconnect(s) \in Session
         /\ ShutdownSocket(s) \in Session
         /\ SocketClosed(s) \in Session
         /\ AfterSend(s) \subseteq Session
         /\ AfterSendAndClose(s) \subseteq Session
         /\ Connecting(s) \in Session
<1> USE DEF Session, Handles, States, HasTcp, ShutdownSocket
<1>1. ShutdownSocket(s) \in Session
  OBVIOUS
<1>2. ExecuteDisconnect(s) \in Session
  BY DEF ExecuteDisconnect
<1>3. SocketClosed(s) \in Session
  BY DEF SocketClosed
<1>4. AfterSend(s) \subseteq Session
  BY <1>2 DEF AfterSend
<1>5. AfterSendAndClose(s) \subseteq Session
  <2>1. [s EXCEPT !.closers = @ + 1] \in Session
    OBVIOUS
  <2>2. QED
    BY <1>2, <2>1 DEF AfterSendAndClose
<1>6. Connecting(s) \in Session
  BY DEF Connecting
<1>7. QED
  BY <1>1, <1>2, <1>3, <1>4, <1>5, <1>6

LEMMA NewSessionType == NewSession \in Session
BY DEF NewSession, Session, Handles, States

(* An operation of a session, pushed or taken from a queue.                *)
LEMMA SessionOpType ==
  ASSUME NEW o \in SessionOps, NEW id \in SessionIds
  PROVE  SessionOp(o, id) \in Op
BY DEF SessionOp, Op

LEMMA SessionMsgType ==
  ASSUME TypeOK, NEW m \in SessionMsgs, NEW id \in SessionIds
  PROVE  SessionMsg(m, id) \in Msg
BY DEF SessionMsg, Msg, TypeOK

(* The operation about to be executed is one of Op; if it is one of a      *)
(* session, that session has an id the application chose.                  *)
LEMMA TargetType ==
  ASSUME TypeOK, NEW o \in SessionOps, Executes(o)
  PROVE  Target \in SessionIds
<1>1. Head(opDispatch) \in Op
  BY HeadTailProperties DEF TypeOK, Executes
<1>2. QED
  BY <1>1 DEF Executes, Target, Op, SessionOps, ClientOps

LEMMA PushOpType ==
  ASSUME TypeOK, NEW o \in Op, PushOp(o)
  PROVE  opQue' \in Seq(Op)
<1>1. opQue \in Seq(Op)
  BY DEF TypeOK
<1>2. QED
  BY <1>1, AppendProperties DEF PushOp

LEMMA OneMsg == ASSUME NEW m \in Msg PROVE <<m>> \in Seq(Msg)
OBVIOUS

LEMMA CloserOpsType ==
  ASSUME TypeOK, NEW id \in SessionIds, NEW n \in Nat
  PROVE  CloserOps(id, n) \in Seq(Op)
<1> DEFINE k == IF isStop THEN 0 ELSE n
           o == [op |-> "DISCONNECT", id |-> id, conn |-> conns[id]]
<1>1. k \in Nat /\ o \in Op
  BY DEF TypeOK, Op, SessionOps
<1> HIDE DEF k, o
<1>2. [i \in 1 .. k |-> o] \in Seq(Op)
  BY <1>1
<1>3. QED
  BY <1>2 DEF CloserOps, k, o
-----------------------------------------------------------------------------
(* The timer's messages: one for every session that awaits removal.        *)
LEMMA RemovalMsgsType ==
  ASSUME TypeOK,
         NEW gone \in Ascending({id \in SessionIds : AwaitsRemoval(id)})
  PROVE  [i \in DOMAIN gone |-> SessionMsg("REMOVE_SESSION", gone[i])] \in Seq(Msg)
<1> DEFINE ids == {id \in SessionIds : AwaitsRemoval(id)}
           n   == Cardinality(ids)
<1>1. n \in Nat
  BY SessionIdsAssumption, FS_Subset, FS_CardinalityType
<1>2. gone \in [1 .. n -> ids]
  BY DEF Ascending
<1>3. \A i \in 1 .. n : SessionMsg("REMOVE_SESSION", gone[i]) \in Msg
  BY <1>2, SessionMsgType DEF SessionMsgs
<1>4. DOMAIN gone = 1 .. n
  BY <1>2
<1> HIDE DEF n
<1>5. [i \in 1 .. n |-> SessionMsg("REMOVE_SESSION", gone[i])] \in Seq(Msg)
  BY <1>1, <1>3
<1>6. QED
  BY <1>4, <1>5

(* The history of the application's view keeps its type.                   *)
LEMMA ContractType ==
  ASSUME NEW c \in Contract
  PROVE  /\ \A a \in SUBSET SessionIds : [c EXCEPT !.asked = a] \in Contract
         /\ [c EXCEPT !.closed = TRUE] \in Contract
BY DEF Contract

(* Every variable keeps its type.                                          *)

LEMMA TypeInit == Init => TypeOK
<1> SUFFICES ASSUME Init PROVE TypeOK
  OBVIOUS
<1> USE DEF Init
<1>1. contract \in Contract
  BY DEF Contract
<1>2. sess \in [SessionIds -> Session]
  BY NewSessionType
<1>3. calls \in 0 .. MaxCalls
  BY BoundsAssumption
<1>4. QED
  BY <1>1, <1>2, <1>3, EmptySeq DEF TypeOK, Stages

LEMMA TypeApplication ==
  ASSUME TypeOK, Application
  PROVE  TypeOK'
<1> USE DEF TypeOK, appVars, sessionVars, Calls, SessionOps
<1>1. ASSUME NEW id \in SessionIds, NEW call, NEW op \in SessionOps, Request(call, op, id)
      PROVE  TypeOK'
  BY <1>1, BoundsAssumption, SessionOpType, PushOpType DEF Request
<1>2. ASSUME NEW id \in SessionIds,
             Connect(id) \/ Disconnect(id) \/ Send(id) \/ SendAndClose(id)
      PROVE  TypeOK'
  BY <1>1, <1>2 DEF Connect, Disconnect, Send, SendAndClose
<1>3. ASSUME NEW id \in SessionIds, RemoveSession(id) PROVE TypeOK'
  <2>1. contract' \in Contract
    <3>1. contract.asked \cup {id} \in SUBSET SessionIds
      BY DEF Contract
    <3>2. QED
      BY <1>3, <3>1, ContractType DEF RemoveSession
  <2>2. PICK o \in Op : o = SessionOp("REMOVE_SESSION", id)
    BY SessionOpType
  <2>3. PushOp(o)
    BY <1>3, <2>2 DEF RemoveSession
  <2>4. opQue' \in Seq(Op)
    BY <2>3, PushOpType
  <2>5. calls' \in 0 .. MaxCalls
    BY <1>3, BoundsAssumption DEF RemoveSession
  <2>6. QED
    BY <1>3, <2>1, <2>4, <2>5 DEF RemoveSession
<1>4. CASE SetSocketNoDelay
  <2>1. [op |-> "SET_NO_DELAY"] \in Op
    BY DEF Op, ClientOps
  <2>2. QED
    BY <1>4, <2>1, BoundsAssumption, PushOpType DEF SetSocketNoDelay
<1>5. ASSUME StopAndPush
      PROVE  contract' \in Contract /\ opQue' \in Seq(Op)
  <2>1. contract' \in Contract
    BY <1>5, ContractType DEF StopAndPush
  <2>2. [op |-> "CLIENT_CLOSE"] \in Op
    BY DEF Op, ClientOps
  <2>3. CASE isStop
    BY <1>5, <2>1, <2>3 DEF StopAndPush
  <2>4. CASE ~isStop
    BY <1>5, <2>1, <2>2, <2>4, PushOpType DEF StopAndPush
  <2>5. QED
    BY <2>3, <2>4
<1>6. CASE CloseClient \/ Destroy
  <2>1. StopAndPush /\ calls' \in 0 .. MaxCalls /\ app' \in {"up", "joining", "gone"}
    BY <1>6, BoundsAssumption DEF CloseClient, Destroy
  <2>2. contract' \in Contract /\ opQue' \in Seq(Op)
    BY <1>5, <2>1
  <2>3. QED
    BY <2>1, <2>2 DEF StopAndPush
<1>7. CASE JoinReturns
  BY <1>7, EmptySeq DEF JoinReturns
<1>8. CASE GetThreadMsg
  BY <1>8, EmptySeq DEF GetThreadMsg
<1>9. CASE DispatchMsg
  <2> DEFINE m == Head(msgDispatch)
  <2>1. m \in Msg /\ msgDispatch' \in Seq(Msg)
    BY <1>9, HeadTailProperties DEF DispatchMsg
  <2>2. Told(m) \in Contract
    <3>1. CASE m.msg = "EXIT_LOOP"
      BY <3>1, ContractType DEF Told
    <3>2. CASE m.msg # "EXIT_LOOP"
      <4>1. m.msg \in SessionMsgs /\ m.id \in SessionIds
        BY <2>1, <3>2 DEF Msg
      <4>2. contract.view[m.id] \in {"absent", "down", "up"}
        BY <4>1 DEF Contract
      <4> DEFINE w == CASE m.msg = "CONNECT"        -> "up"
                        [] m.msg = "RECV_DATA"      -> contract.view[m.id]
                        [] m.msg = "REMOVE_SESSION" -> "absent"
                        [] OTHER                    -> "down"
      <4>3. w \in {"absent", "down", "up"}
        BY <4>2
      <4>4. Told(m) = [contract EXCEPT !.view[m.id] = w]
        BY <3>2 DEF Told
      <4> HIDE DEF w, m
      <4>5. [contract.view EXCEPT ![m.id] = w] \in [SessionIds -> {"absent", "down", "up"}]
        BY <4>1, <4>3 DEF Contract
      <4>6. QED
        BY <4>4, <4>5 DEF Contract
    <3>3. QED
      BY <3>1, <3>2
  <2>3. opQue' \in Seq(Op)
    <3>1. CASE m.msg = "REMOVE_SESSION"
      <4>1. m.id \in SessionIds
        BY <2>1, <3>1 DEF Msg, SessionMsgs
      <4>2. QED
        BY <1>9, <3>1, <4>1, SessionOpType, PushOpType DEF DispatchMsg
    <3>2. CASE m.msg # "REMOVE_SESSION"
      BY <1>9, <3>2 DEF DispatchMsg
    <3>3. QED
      BY <3>1, <3>2
  <2>4. QED
    BY <1>9, <2>1, <2>2, <2>3 DEF DispatchMsg
<1>10. QED
  BY <1>2, <1>3, <1>4, <1>6, <1>7, <1>8, <1>9 DEF Application

(* What is left of the operations after one of them is taken out.          *)
LEMMA ExecutesType ==
  ASSUME TypeOK, NEW o, Executes(o)
  PROVE  /\ opDispatch' \in Seq(Op)
         /\ UNCHANGED <<appVars, opQue, msgDispatch, loop>>
BY HeadTailProperties DEF TypeOK, Executes

LEMMA TypeExecuteOperation ==
  ASSUME TypeOK, ExecuteOperation
  PROVE  TypeOK'
<1> USE DEF sessionVars, appVars, SessionOps
<1>s. sess \in [SessionIds -> Session]
  BY DEF TypeOK
<1>c. ASSUME NEW id \in SessionIds, NEW s \in Session, ChangeSession(id, s)
      PROVE  sess' \in [SessionIds -> Session]
  BY <1>s, <1>c DEF ChangeSession
<1>m. ASSUME NEW m \in Msg, PushMsgs(<<m>>)
      PROVE  msgQue' \in Seq(Msg)
  BY <1>m, OneMsg, ConcatProperties DEF PushMsgs, TypeOK
<1>1. CASE ExecSend
  <2>1. Target \in SessionIds
    BY <1>1, TargetType DEF ExecSend
  <2>2. sess' \in [SessionIds -> Session]
    BY <1>1, <1>s, <1>c, <2>1, SessionTypes DEF ExecSend
  <2>3. QED
    BY <1>1, <2>2, ExecutesType DEF ExecSend, TypeOK
<1>2. CASE ExecSendAndClose
  <2>1. Target \in SessionIds
    BY <1>2, TargetType DEF ExecSendAndClose
  <2>2. sess' \in [SessionIds -> Session]
    BY <1>2, <1>s, <1>c, <2>1, SessionTypes DEF ExecSendAndClose
  <2>3. QED
    BY <1>2, <2>2, ExecutesType DEF ExecSendAndClose, TypeOK
<1>3. CASE ExecDisconnect
  <2>1. Target \in SessionIds
    BY <1>3, TargetType DEF ExecDisconnect
  <2>2. [sess[Target] EXCEPT !.connectState = "DISCONNECTING"] \in Session
    BY <1>s, <2>1 DEF Session, States
  <2>3. sess' \in [SessionIds -> Session]
    BY <1>3, <1>s, <1>c, <2>1, <2>2, SessionTypes DEF ExecDisconnect
  <2>4. QED
    BY <1>3, <2>3, ExecutesType DEF ExecDisconnect, TypeOK
<1>4. CASE ExecConnect
  <2>1. Target \in SessionIds
    BY <1>4, TargetType DEF ExecConnect
  <2>2. CASE CreateSession
    <3>1. known' \subseteq SessionIds /\ inst' \in [SessionIds -> Nat]
      BY <2>1, <2>2 DEF CreateSession, TypeOK
    <3>2. [NewSession EXCEPT !.connectState = "DISCONNECT"] \in Session
      BY DEF NewSession, Session, States, Handles
    <3>3. sess' \in [SessionIds -> Session]
      BY <1>c, <2>1, <2>2, <3>2, NewSessionType, SessionTypes DEF CreateSession
    <3>4. [msg |-> "CONNECT_FAIL", id |-> Target, inst |-> inst'[Target]] \in Msg
      BY <2>1, <3>1 DEF Msg, SessionMsgs
    <3>5. msgQue' \in Seq(Msg)
      BY <1>m, <2>2, <3>4 DEF CreateSession, TypeOK
    <3>6. QED
      BY <1>4, <3>1, <3>3, <3>5, ExecutesType DEF ExecConnect, TypeOK
  <2>3. CASE Reconnect
    <3>1. known' = known /\ inst' = inst
      BY <2>3 DEF Reconnect
    <3>2. sess' \in [SessionIds -> Session]
      BY <1>s, <1>c, <2>1, <2>3, SessionTypes DEF Reconnect
    <3>3. SessionMsg("CONNECT_FAIL", Target) \in Msg
      BY <2>1, SessionMsgType DEF SessionMsgs
    <3>4. msgQue' \in Seq(Msg)
      BY <1>m, <2>3, <3>3 DEF Reconnect, TypeOK
    <3>5. QED
      BY <1>4, <3>1, <3>2, <3>4, ExecutesType DEF ExecConnect, TypeOK
  <2>4. QED
    BY <1>4, <2>2, <2>3 DEF ExecConnect
<1>5. CASE ExecSetNoDelay
  <2>1. \A id \in SessionIds : [sess[id] EXCEPT !.noDelay = enableNoDelay] \in Session
    BY <1>s DEF Session, TypeOK
  <2>2. sess' \in [SessionIds -> Session]
    BY <1>5, <1>s, <2>1 DEF ExecSetNoDelay
  <2>3. QED
    BY <1>5, <2>2, ExecutesType DEF ExecSetNoDelay, TypeOK
<1>6. CASE ExecClientClose
  BY <1>6, ExecutesType DEF ExecClientClose, TypeOK, Stages
<1>7. CASE ExecRemoveSession
  <2>1. Target \in SessionIds
    BY <1>7, TargetType DEF ExecRemoveSession
  <2>2. [sess[Target] EXCEPT !.removeTag = TRUE] \in Session
    BY <1>s, <2>1 DEF Session
  <2>3. sess' \in [SessionIds -> Session]
    BY <1>7, <1>s, <1>c, <2>1, <2>2, SessionTypes DEF ExecRemoveSession
  <2>4. SessionMsg("REMOVE_SESSION", Target) \in Msg
    BY <2>1, SessionMsgType DEF SessionMsgs
  <2>5. msgQue' \in Seq(Msg)
    BY <1>7, <1>m, <2>4 DEF ExecRemoveSession, TypeOK
  <2>6. QED
    BY <1>7, <2>3, <2>5, ExecutesType DEF ExecRemoveSession, TypeOK
<1>8. CASE ExecDeleteSession
  <2>1. Target \in SessionIds
    BY <1>8, TargetType DEF ExecDeleteSession
  <2>2. sess' \in [SessionIds -> Session] /\ known' \subseteq SessionIds
    BY <1>8, <1>s, <1>c, <2>1, NewSessionType DEF ExecDeleteSession, TypeOK
  <2>3. QED
    BY <1>8, <2>2, ExecutesType DEF ExecDeleteSession, TypeOK
<1>9. QED
  BY <1>1, <1>2, <1>3, <1>4, <1>5, <1>6, <1>7, <1>8 DEF ExecuteOperation

LEMMA TypeTimer ==
  ASSUME TypeOK, DrainOperations \/ OnTimerUpdateRun \/ RunEnds
  PROVE  TypeOK'
<1> USE DEF appVars, sessionVars
<1>1. CASE DrainOperations
  BY <1>1, EmptySeq DEF DrainOperations, TypeOK
<1>2. CASE OnTimerUpdateRun /\ ClearSessions
  <2>1. \A id \in SessionIds : [sess[id] EXCEPT !.removeTag = TRUE] \in Session
    BY DEF TypeOK, Session
  <2>2. \A id \in SessionIds :
          ExecuteDisconnect([sess[id] EXCEPT !.removeTag = TRUE]) \in Session
    BY <2>1, SessionTypes
  <2>3. sess' \in [SessionIds -> Session]
    BY <1>2, <2>1, <2>2 DEF ClearSessions, TypeOK
  <2>4. msgQue' \in Seq(Msg)
    <3>1. PICK gone \in Ascending({id \in SessionIds : AwaitsRemoval(id)}) :
            PushMsgs([i \in DOMAIN gone |-> SessionMsg("REMOVE_SESSION", gone[i])])
      BY <1>2 DEF ClearSessions
    <3>2. msgQue \in Seq(Msg)
      BY DEF TypeOK
    <3>3. QED
      BY <3>1, <3>2, RemovalMsgsType, ConcatProperties DEF PushMsgs
  <2>5. stage' \in Stages
    BY <1>2 DEF ClearSessions, Stages, TypeOK
  <2>6. QED
    BY <1>2, <2>3, <2>4, <2>5 DEF OnTimerUpdateRun, ClearSessions, TypeOK
<1>3. CASE OnTimerUpdateRun /\ StopLoop
  BY <1>3 DEF OnTimerUpdateRun, StopLoop, TypeOK
<1>4. CASE RunEnds
  <2>1. [msg |-> "EXIT_LOOP"] \in Msg
    BY DEF Msg
  <2>2. msgQue' \in Seq(Msg)
    BY <1>4, <2>1, OneMsg, ConcatProperties DEF RunEnds, PushMsgs, TypeOK
  <2>3. QED
    BY <1>4, <2>2 DEF RunEnds, TypeOK, Stages
<1>5. QED
  BY <1>1, <1>2, <1>3, <1>4 DEF OnTimerUpdateRun

LEMMA TypeCallbacks ==
  ASSUME TypeOK, NEW id \in SessionIds,
         \/ ConnectAnswered(id) \/ OnRead(id) \/ OnReadEnd(id)
         \/ OnWriteDone(id) \/ OnClose(id)
  PROVE  TypeOK'
<1> USE DEF appVars, SocketCallback
<1>s. sess[id] \in Session /\ sess \in [SessionIds -> Session]
  BY DEF TypeOK
<1>c. ASSUME NEW s \in Session, ChangeSession(id, s)
      PROVE  sess' \in [SessionIds -> Session]
  BY <1>s, <1>c DEF ChangeSession
<1>m. ASSUME NEW m \in Msg, PushMsgs(<<m>>)
      PROVE  msgQue' \in Seq(Msg)
  BY <1>m, OneMsg, ConcatProperties DEF PushMsgs, TypeOK
<1>o. ASSUME NEW n \in Nat, opQue' = opQue \o CloserOps(id, n)
      PROVE  opQue' \in Seq(Op)
  BY <1>o, CloserOpsType, ConcatProperties DEF TypeOK
<1>1. ASSUME NEW status \in {0, UV_ETIMEDOUT, UV_ECONNREFUSED},
             NEW readStarted \in BOOLEAN,
             OnSocketConnect(id, status, readStarted)
      PROVE  TypeOK'
  <2> DEFINE answer   == ConnectStatus(status, readStarted)
             suc      == answer = 1
             unwanted == suc /\ (stage # "START" \/ sess[id].removeTag)
             s == [sess[id] EXCEPT !.online = suc,
                                   !.connectState = IF suc THEN "CONNECT" ELSE "DISCONNECT",
                                   !.handle = IF suc THEN "open" ELSE "failed"]
  <2>1. answer \in {0, 1, 2}
    BY DEF ConnectStatus
  <2>2. s \in Session
    BY <1>s DEF Session, States, Handles
  <2>3. ApplyOptions(s) \in Session
    BY <2>2 DEF ApplyOptions, Session, TypeOK
  <2>4. /\ ChangeSession(id, IF unwanted THEN ExecuteDisconnect(s)
                             ELSE IF suc THEN ApplyOptions(s) ELSE s)
        /\ IF unwanted THEN UNCHANGED msgQue
           ELSE PushMsgs(<<SessionMsg(ConnectMsg(answer), id)>>)
        /\ conns' = IF suc THEN [conns EXCEPT ![id] = @ + 1] ELSE conns
    BY <1>1 DEF OnSocketConnect
  <2>5. SessionMsg(ConnectMsg(answer), id) \in Msg
    BY <2>1, SessionMsgType DEF ConnectMsg, SessionMsgs
  <2>6. conns' \in [SessionIds -> Nat]
    BY <2>4 DEF TypeOK
  <2> HIDE DEF s, unwanted, suc, answer
  <2>7. sess' \in [SessionIds -> Session]
    BY <1>c, <2>2, <2>3, <2>4, SessionTypes
  <2>8. msgQue' \in Seq(Msg)
    BY <1>m, <2>4, <2>5 DEF TypeOK
  <2>9. QED
    BY <1>1, <2>6, <2>7, <2>8 DEF OnSocketConnect, TypeOK
<1>2. CASE OnRead(id)
  <2>1. SessionMsg("RECV_DATA", id) \in Msg
    BY SessionMsgType DEF SessionMsgs
  <2>2. msgQue' \in Seq(Msg)
    BY <1>2, <1>m, <2>1 DEF OnRead, TypeOK
  <2>3. QED
    BY <1>2, <2>2 DEF OnRead, TypeOK
<1>3. CASE OnReadEnd(id)
  BY <1>3, <1>s, <1>c, SessionTypes DEF OnReadEnd, TypeOK
<1>4. CASE OnWriteDone(id)
  <2>1. [sess[id] EXCEPT !.closers = @ - 1] \in Session
    BY <1>4, <1>s DEF OnWriteDone, Session
  <2>2. sess' \in [SessionIds -> Session] /\ opQue' \in Seq(Op)
    BY <1>4, <1>c, <1>o, <2>1 DEF OnWriteDone
  <2>3. QED
    BY <1>4, <2>2 DEF OnWriteDone, TypeOK
<1>5. CASE OnClose(id)
  <2>1. opQue' \in Seq(Op)
    BY <1>5, <1>s, <1>o DEF OnClose, Session
  <2> DEFINE t == SocketClosed(sess[id])
  <2>2. t \in Session
    BY <1>s, SessionTypes
  <2>3. [t EXCEPT !.connectState = "DISCONNECT", !.noDelay = FALSE] \in Session
    BY <2>2 DEF Session, States
  <2>4. sess' \in [SessionIds -> Session]
    BY <1>5, <1>c, <2>3 DEF OnClose
  <2>5. SessionMsg("DIS_CONNECT", id) \in Msg /\ SessionMsg("REMOVE_SESSION", id) \in Msg
    BY SessionMsgType DEF SessionMsgs
  <2>6. CloseMsgs(id) \in Seq(Msg)
    <3>1. <<SessionMsg("DIS_CONNECT", id)>> \in Seq(Msg)
      BY <2>5, OneMsg
    <3>2. (IF sess[id].removeTag THEN <<SessionMsg("REMOVE_SESSION", id)>> ELSE <<>>)
            \in Seq(Msg)
      BY <2>5, OneMsg, EmptySeq
    <3>3. QED
      BY <3>1, <3>2, ConcatProperties DEF CloseMsgs
  <2>7. msgQue' \in Seq(Msg)
    BY <1>5, <2>6, ConcatProperties DEF OnClose, PushMsgs, TypeOK
  <2>8. QED
    BY <1>5, <2>1, <2>4, <2>7 DEF OnClose, TypeOK
<1>6. QED
  BY <1>1, <1>2, <1>3, <1>4, <1>5 DEF ConnectAnswered

(* TypeOK holds in every reachable state: in particular no operation and   *)
(* no message that any step of either thread queues is malformed, and no   *)
(* completed write is counted below zero.                                  *)
THEOREM TypeCorrect == SafeSpec => []TypeOK
<1>1. TypeOK /\ [Next]_vars => TypeOK'
  <2> SUFFICES ASSUME TypeOK, [Next]_vars PROVE TypeOK'
    OBVIOUS
  <2>1. CASE Application
    BY <2>1, TypeApplication
  <2>2. CASE LoopThread
    BY <2>2, TypeExecuteOperation, TypeTimer, TypeCallbacks DEF LoopThread
  <2>3. CASE UNCHANGED vars
    BY <2>3 DEF vars, appVars, sharedVars, sessionVars, TypeOK
  <2>4. QED
    BY <2>1, <2>2, <2>3 DEF Next
<1>2. QED
  BY <1>1, TypeInit, PTL DEF SafeSpec

-----------------------------------------------------------------------------
(* What each step does to one session keeps the three records in agreement.*)

LEMMA AgreeOperators ==
  ASSUME NEW s \in Session, SocketAgrees(s)
  PROVE  /\ SocketAgrees(ExecuteDisconnect(s))
         /\ SocketAgrees([s EXCEPT !.removeTag = TRUE])
         /\ SocketAgrees([s EXCEPT !.noDelay = enableNoDelay])
         /\ \A t \in AfterSend(s) \cup AfterSendAndClose(s) : SocketAgrees(t)
         /\ s.connectState = "DISCONNECT" => SocketAgrees(Connecting(s))
         /\ s.connectState = "CONNECT" =>
              SocketAgrees(ExecuteDisconnect([s EXCEPT !.connectState = "DISCONNECTING"]))
         /\ s.handle = "open" => SocketAgrees(ShutdownSocket(s))
         /\ s.handle = "open" /\ s.closers > 0 => SocketAgrees([s EXCEPT !.closers = @ - 1])
         /\ SocketAgrees([SocketClosed(s) EXCEPT !.connectState = "DISCONNECT",
                                                 !.noDelay = FALSE])
<1> USE DEF Session, Handles, States, SocketAgrees, HasTcp, ShutdownSocket
<1>1. SocketAgrees(ExecuteDisconnect(s))
  BY DEF ExecuteDisconnect
<1>2. /\ SocketAgrees([s EXCEPT !.removeTag = TRUE])
      /\ SocketAgrees([s EXCEPT !.noDelay = enableNoDelay])
  OBVIOUS
<1>3. CanWrite(s) => SocketAgrees([s EXCEPT !.closers = @ + 1])
  BY DEF CanWrite
<1>4. \A t \in AfterSend(s) \cup AfterSendAndClose(s) : SocketAgrees(t)
  <2> HIDE DEF SocketAgrees
  <2>1. QED
    BY <1>1, <1>3 DEF AfterSend, AfterSendAndClose
<1>5. s.connectState = "DISCONNECT" => SocketAgrees(Connecting(s))
  BY DEF Connecting
<1>6. s.connectState = "CONNECT" =>
        SocketAgrees(ExecuteDisconnect([s EXCEPT !.connectState = "DISCONNECTING"]))
  BY DEF ExecuteDisconnect
<1>7. s.handle = "open" => SocketAgrees(ShutdownSocket(s))
  OBVIOUS
<1>8. s.handle = "open" /\ s.closers > 0 => SocketAgrees([s EXCEPT !.closers = @ - 1])
  OBVIOUS
<1>9. SocketAgrees([SocketClosed(s) EXCEPT !.connectState = "DISCONNECT", !.noDelay = FALSE])
  BY DEF SocketClosed
<1>10. QED
  BY <1>1, <1>2, <1>4, <1>5, <1>6, <1>7, <1>8, <1>9

LEMMA AgreeNew ==
  /\ SocketAgrees(Connecting(NewSession))
  /\ SocketAgrees([NewSession EXCEPT !.connectState = "DISCONNECT"])
BY DEF NewSession, Connecting, HasTcp, SocketAgrees

LEMMA AgreeExecuteOperation ==
  ASSUME TypeOK, SocketState, ExecuteOperation
  PROVE  SocketState'
<1>s. \A id \in known : sess[id] \in Session /\ SocketAgrees(sess[id])
  BY DEF TypeOK, SocketState
<1>c. ASSUME NEW id \in SessionIds, NEW s, ChangeSession(id, s), SocketAgrees(s),
             known' \subseteq known \cup {id}
      PROVE  SocketState'
  BY <1>c DEF ChangeSession, SocketState, TypeOK
<1>u. ASSUME UNCHANGED sess, known' \subseteq known
      PROVE  SocketState'
  BY <1>u DEF SocketState
<1>1. CASE ExecSend
  <2>1. Target \in SessionIds
    BY <1>1, TargetType DEF ExecSend, SessionOps
  <2>2. QED
    BY <1>1, <1>s, <1>c, <1>u, <2>1, AgreeOperators DEF ExecSend
<1>2. CASE ExecSendAndClose
  <2>1. Target \in SessionIds
    BY <1>2, TargetType DEF ExecSendAndClose, SessionOps
  <2>2. QED
    BY <1>2, <1>s, <1>c, <1>u, <2>1, AgreeOperators DEF ExecSendAndClose
<1>3. CASE ExecDisconnect
  <2>1. Target \in SessionIds
    BY <1>3, TargetType DEF ExecDisconnect, SessionOps
  <2>2. QED
    BY <1>3, <1>s, <1>c, <1>u, <2>1, AgreeOperators DEF ExecDisconnect
<1>4. CASE ExecConnect
  <2>1. Target \in SessionIds
    BY <1>4, TargetType DEF ExecConnect, SessionOps
  <2>2. CASE CreateSession
    BY <1>c, <2>1, <2>2, AgreeNew DEF CreateSession
  <2>3. CASE Reconnect
    BY <1>s, <1>c, <1>u, <2>1, <2>3, AgreeOperators DEF Reconnect
  <2>4. QED
    BY <1>4, <2>2, <2>3 DEF ExecConnect
<1>5. CASE ExecSetNoDelay
  <2>1. \A id \in known : SocketAgrees([sess[id] EXCEPT !.noDelay = enableNoDelay])
    BY <1>s, AgreeOperators
  <2>2. known' = known
    BY <1>5 DEF ExecSetNoDelay
  <2>3. \A id \in known : sess'[id] \in {sess[id], [sess[id] EXCEPT !.noDelay = enableNoDelay]}
    BY <1>5 DEF ExecSetNoDelay, TypeOK
  <2>4. QED
    BY <1>s, <2>1, <2>2, <2>3 DEF SocketState
<1>6. CASE ExecClientClose
  BY <1>6, <1>u DEF ExecClientClose, sessionVars
<1>7. CASE ExecRemoveSession
  <2>1. Target \in SessionIds
    BY <1>7, TargetType DEF ExecRemoveSession, SessionOps
  <2>2. Target \in known =>
          /\ [sess[Target] EXCEPT !.removeTag = TRUE] \in Session
          /\ SocketAgrees([sess[Target] EXCEPT !.removeTag = TRUE])
    BY <1>s, AgreeOperators DEF Session
  <2>3. Target \in known =>
          SocketAgrees(ExecuteDisconnect([sess[Target] EXCEPT !.removeTag = TRUE]))
    BY <2>2, AgreeOperators
  <2>4. QED
    BY <1>7, <1>c, <1>u, <2>1, <2>2, <2>3 DEF ExecRemoveSession
<1>8. CASE ExecDeleteSession
  <2>1. Target \in SessionIds
    BY <1>8, TargetType DEF ExecDeleteSession, SessionOps
  <2>2. CASE UNCHANGED <<known, sess>>
    BY <1>u, <2>2
  <2>3. CASE known' = known \ {Target} /\ ChangeSession(Target, NewSession)
    BY <2>1, <2>3 DEF ChangeSession, SocketState, TypeOK
  <2>4. QED
    BY <1>8, <2>2, <2>3 DEF ExecDeleteSession
<1>9. QED
  BY <1>1, <1>2, <1>3, <1>4, <1>5, <1>6, <1>7, <1>8 DEF ExecuteOperation

LEMMA AgreeCallbacks ==
  ASSUME TypeOK, SocketState, NEW id \in SessionIds,
         \/ ConnectAnswered(id) \/ OnRead(id) \/ OnReadEnd(id)
         \/ OnWriteDone(id) \/ OnClose(id)
  PROVE  SocketState'
<1>s. id \in known /\ sess[id] \in Session /\ SocketAgrees(sess[id]) /\ known' = known
  BY DEF TypeOK, SocketState, ConnectAnswered, OnSocketConnect, OnRead, OnReadEnd,
         OnWriteDone, OnClose, SocketCallback
<1>c. ASSUME NEW s, ChangeSession(id, s), SocketAgrees(s)
      PROVE  SocketState'
  BY <1>c, <1>s DEF ChangeSession, SocketState, TypeOK
<1>1. ASSUME NEW status, NEW readStarted, OnSocketConnect(id, status, readStarted)
      PROVE  SocketState'
  <2> DEFINE suc == ConnectStatus(status, readStarted) = 1
             unwanted == suc /\ (stage # "START" \/ sess[id].removeTag)
             s == [sess[id] EXCEPT !.online = suc,
                                   !.connectState = IF suc THEN "CONNECT" ELSE "DISCONNECT",
                                   !.handle = IF suc THEN "open" ELSE "failed"]
  <2>1. sess[id].handle = "connecting"
    BY <1>1 DEF OnSocketConnect
  <2>2. s \in Session
    BY <1>s DEF Session, States, Handles
  <2>3. SocketAgrees(s)
    BY <1>s, <2>1 DEF SocketAgrees, Session, States, Handles
  <2>4. SocketAgrees(ExecuteDisconnect(s)) /\ SocketAgrees(ApplyOptions(s))
    BY <2>2, <2>3, AgreeOperators DEF ApplyOptions
  <2>5. ChangeSession(id, IF unwanted THEN ExecuteDisconnect(s)
                          ELSE IF suc THEN ApplyOptions(s) ELSE s)
    BY <1>1 DEF OnSocketConnect
  <2> HIDE DEF s, suc, unwanted
  <2>6. QED
    BY <1>c, <2>3, <2>4, <2>5
<1>2. CASE OnRead(id)
  BY <1>2, <1>s DEF OnRead, SocketState
<1>3. CASE OnReadEnd(id)
  BY <1>3, <1>s, <1>c, AgreeOperators DEF OnReadEnd
<1>4. CASE OnWriteDone(id)
  BY <1>4, <1>s, <1>c, AgreeOperators DEF OnWriteDone
<1>5. CASE OnClose(id)
  BY <1>5, <1>s, <1>c, AgreeOperators DEF OnClose
<1>6. QED
  BY <1>1, <1>2, <1>3, <1>4, <1>5 DEF ConnectAnswered

LEMMA AgreeTimer ==
  ASSUME TypeOK, SocketState, DrainOperations \/ OnTimerUpdateRun \/ RunEnds
  PROVE  SocketState'
<1>1. known' = known
  BY DEF DrainOperations, OnTimerUpdateRun, RunEnds, sessionVars
<1>2. CASE UNCHANGED sess
  BY <1>1, <1>2 DEF SocketState
<1>3. CASE ClearSessions
  <2>1. \A id \in known :
          /\ sess[id] \in Session /\ SocketAgrees(sess[id])
          /\ [sess[id] EXCEPT !.removeTag = TRUE] \in Session
          /\ SocketAgrees([sess[id] EXCEPT !.removeTag = TRUE])
    BY AgreeOperators DEF TypeOK, SocketState, Session
  <2>2. \A id \in known :
          SocketAgrees(ExecuteDisconnect([sess[id] EXCEPT !.removeTag = TRUE]))
    BY <2>1, AgreeOperators
  <2>3. \A id \in known :
          sess'[id] \in {sess[id], [sess[id] EXCEPT !.removeTag = TRUE],
                         ExecuteDisconnect([sess[id] EXCEPT !.removeTag = TRUE])}
    BY <1>3 DEF ClearSessions, TypeOK
  <2>4. QED
    BY <1>1, <2>1, <2>2, <2>3 DEF SocketState
<1>4. QED
  BY <1>2, <1>3 DEF DrainOperations, OnTimerUpdateRun, StopLoop, RunEnds, sessionVars

(* SocketState: connectState, m_isOnline and m_tcp agree in every session  *)
(* of the map, whatever the order of operations, timers and callbacks.     *)
(* What createNewConnect, REMOVE_SESSION and the timer decide on one of    *)
(* the three is therefore decided on all of them.                          *)
THEOREM SocketStateCorrect == SafeSpec => []SocketState
<1>1. Init => SocketState
  BY DEF Init, SocketState
<1>2. TypeOK /\ SocketState /\ [Next]_vars => SocketState'
  <2> SUFFICES ASSUME TypeOK, SocketState, [Next]_vars PROVE SocketState'
    OBVIOUS
  <2>1. CASE Application
    <3>1. sess' = sess /\ known' \subseteq known
      BY <2>1 DEF Application, Connect, Disconnect, Send, SendAndClose, Request,
                  RemoveSession, SetSocketNoDelay, CloseClient, Destroy, StopAndPush,
                  JoinReturns, GetThreadMsg, DispatchMsg, sessionVars
    <3>2. QED
      BY <3>1 DEF SocketState
  <2>2. CASE LoopThread
    BY <2>2, AgreeExecuteOperation, AgreeTimer, AgreeCallbacks DEF LoopThread
  <2>3. CASE UNCHANGED vars
    BY <2>3 DEF vars, sessionVars, SocketState
  <2>4. QED
    BY <2>1, <2>2, <2>3 DEF Next
<1>3. QED
  BY <1>1, <1>2, TypeCorrect, PTL DEF SafeSpec
-----------------------------------------------------------------------------
(* RemovalOnce.  The two queues of a pair, one behind the other, are one   *)
(* queue.  The removal of a session is announced behind all its messages,  *)
(* then confirmed; meanwhile the session is tagged and disconnected, and a *)
(* session that is neither announced nor confirmed may still send.         *)

MsgsAhead    == msgDispatch \o msgQue
OpsAhead     == opDispatch \o opQue
Removal(id)  == SessionMsg("REMOVE_SESSION", id)
Deletion(id) == SessionOp("DELETE_SESSION", id)
MsgsOf(id)   == {m \in Msg : m.msg # "EXIT_LOOP" /\ m.id = id}
LiveMsgs     == {m \in Msg : m.msg # "EXIT_LOOP" => m.id \in known /\ m.inst = inst[m.id]}

PlainOps     == {o \in Op : o.op = "DELETE_SESSION" => o.conn = 0}

Silent(id)   == \A i \in DOMAIN MsgsAhead : MsgsAhead[i] \notin MsgsOf(id)
Removing(id) == Has(MsgsAhead, Removal(id)) \/ Has(OpsAhead, Deletion(id))
Removed(s)   == s.removeTag /\ s.connectState = "DISCONNECT"

QueueShape ==
  /\ app # "up" => msgDispatch = <<>>
  /\ loop # "running" => opDispatch = <<>>
  /\ app = "gone" => loop = "ended" /\ MsgsAhead = <<>> /\ OpsAhead = <<>> /\ known = {}

RemovalInv ==
  /\ Within(MsgsAhead, LiveMsgs) /\ Within(OpsAhead, PlainOps)
  /\ \A id \in SessionIds :
       /\ Single(MsgsAhead, Removal(id)) /\ Last(MsgsAhead, Removal(id), MsgsOf(id))
       /\ Single(OpsAhead, Deletion(id))
       /\ Has(OpsAhead, Deletion(id)) => Silent(id)
       /\ Removing(id) => id \in known /\ Removed(sess[id])

(* The operations that are queued change, but no deletion is among them.   *)
SameDels ==
  /\ Within(OpsAhead, PlainOps) => Within(OpsAhead', PlainOps)
  /\ \A id \in SessionIds :
       /\ Has(OpsAhead', Deletion(id)) <=> Has(OpsAhead, Deletion(id))
       /\ Single(OpsAhead, Deletion(id)) => Single(OpsAhead', Deletion(id))

LEMMA AheadType == TypeOK => MsgsAhead \in Seq(Msg) /\ OpsAhead \in Seq(Op)
BY ConcatProperties DEF MsgsAhead, OpsAhead, TypeOK

(* A message, or an operation, that is taken is the first of those ahead.  *)
LEMMA MsgTaken ==
  ASSUME TypeOK, msgDispatch # <<>>
  PROVE  /\ MsgsAhead \in Seq(Msg) /\ MsgsAhead # <<>>
         /\ Head(MsgsAhead) = Head(msgDispatch) /\ Head(MsgsAhead) \in Msg
         /\ Tail(MsgsAhead) = Tail(msgDispatch) \o msgQue
<1>1. msgDispatch \in Seq(Msg) /\ msgQue \in Seq(Msg)
  BY DEF TypeOK
<1>2. /\ MsgsAhead # <<>> /\ Head(MsgsAhead) = Head(msgDispatch)
      /\ Tail(MsgsAhead) = Tail(msgDispatch) \o msgQue
  BY <1>1, PopInFront DEF MsgsAhead
<1>3. MsgsAhead \in Seq(Msg)
  BY AheadType
<1>4. QED
  BY <1>2, <1>3, HeadTailProperties

LEMMA OpTaken ==
  ASSUME TypeOK, opDispatch # <<>>
  PROVE  /\ OpsAhead \in Seq(Op) /\ OpsAhead # <<>>
         /\ Head(OpsAhead) = Head(opDispatch) /\ Head(OpsAhead) \in Op
         /\ Tail(OpsAhead) = Tail(opDispatch) \o opQue
<1>1. opDispatch \in Seq(Op) /\ opQue \in Seq(Op)
  BY DEF TypeOK
<1>2. /\ OpsAhead # <<>> /\ Head(OpsAhead) = Head(opDispatch)
      /\ Tail(OpsAhead) = Tail(opDispatch) \o opQue
  BY <1>1, PopInFront DEF OpsAhead
<1>3. OpsAhead \in Seq(Op)
  BY AheadType
<1>4. QED
  BY <1>2, <1>3, HeadTailProperties

LEMMA BatchPushed ==
  ASSUME TypeOK, NEW ms \in Seq(Msg), PushMsgs(ms), msgDispatch' = msgDispatch
  PROVE  MsgsAhead' = MsgsAhead \o ms
<1>1. msgDispatch \in Seq(Msg) /\ msgQue \in Seq(Msg)
  BY DEF TypeOK
<1>2. msgDispatch \o (msgQue \o ms) = (msgDispatch \o msgQue) \o ms
  BY <1>1, BatchBehind
<1>3. QED
  BY <1>2 DEF MsgsAhead, PushMsgs

LEMMA RemovalMsg ==
  ASSUME TypeOK, NEW id \in SessionIds, NEW m \in SessionMsgs, NEW x \in SessionIds
  PROVE  /\ SessionMsg(m, x) \in Msg
         /\ SessionMsg(m, x) = Removal(id) <=> m = "REMOVE_SESSION" /\ x = id
         /\ SessionMsg(m, x) \in MsgsOf(id) <=> x = id
         /\ Removal(id) \in MsgsOf(id)
BY SessionMsgType DEF SessionMsg, Removal, MsgsOf, Msg, SessionMsgs

(* A step of the loop thread queues the messages ms of sessions that are   *)
(* not being removed, and leaves those that are as they are.               *)
LEMMA RemovalPushed ==
  ASSUME TypeOK, TypeOK', RemovalInv, SameDels,
         NEW ms \in Seq(Msg), MsgsAhead' = MsgsAhead \o ms, Within(ms, LiveMsgs'),
         \A id \in known : id \in known' /\ inst'[id] = inst[id],
         \A id \in SessionIds :
           /\ Single(ms, Removal(id)') /\ Last(ms, Removal(id)', MsgsOf(id))
           /\ Removing(id) => /\ sess'[id].removeTag = sess[id].removeTag
                              /\ sess'[id].connectState = sess[id].connectState
                              /\ \A i \in DOMAIN ms : ms[i] \notin MsgsOf(id)
           /\ Has(ms, Removal(id)') => id \in known' /\ Removed(sess'[id])
  PROVE  RemovalInv'
<1> DEFINE M == MsgsAhead
<1>1. M \in Seq(Msg)
  BY AheadType
<1>2. Within(M, LiveMsgs) /\ Within(M, LiveMsgs')
  BY DEF RemovalInv, Within, LiveMsgs
<1>3. Within(M', LiveMsgs')
  BY <1>1, <1>2, ConcatWithin
<1>4. ASSUME NEW id \in SessionIds, id \notin known
      PROVE  ~Has(M, Removal(id)') /\ Silent(id)
  BY <1>2, <1>4 DEF Within, LiveMsgs, MsgsOf, Silent, Has, Removal, SessionMsg
<1>5. ASSUME NEW id \in SessionIds, id \in known PROVE Removal(id)' = Removal(id)
  BY <1>5 DEF Removal, SessionMsg
<1>6. ASSUME NEW id \in SessionIds
      PROVE  /\ Single(M, Removal(id)') /\ Last(M, Removal(id)', MsgsOf(id))
             /\ Has(M, Removal(id)') => Removing(id)
  <2>1. CASE id \in known
    BY <1>5, <2>1 DEF RemovalInv, Removing
  <2>2. CASE id \notin known
    BY <1>4, <2>2 DEF Has, Single, Last
  <2>3. QED
    BY <2>1, <2>2
<1>7. ASSUME NEW id \in SessionIds
      PROVE  Removal(id)' \in MsgsOf(id)
  BY SessionMsgType DEF MsgsOf, Removal, SessionMsg, Msg, SessionMsgs, TypeOK
<1>8. ASSUME NEW id \in SessionIds
      PROVE  /\ Single(M', Removal(id)') /\ Last(M', Removal(id)', MsgsOf(id))
             /\ Has(M', Removal(id)') <=> Has(M, Removal(id)') \/ Has(ms, Removal(id)')
  <2>1. Has(M, Removal(id)') => ~Has(ms, Removal(id)')
    BY <1>6, <1>7 DEF Has
  <2>2. Has(M, Removal(id)') => \A i \in DOMAIN ms : ms[i] \notin MsgsOf(id)
    BY <1>6
  <2>3. QED
    BY <1>1, <1>6, <2>1, <2>2, ConcatHas, ConcatSingle, ConcatLast
<1>9. ASSUME NEW id \in SessionIds
      PROVE  /\ Single(OpsAhead', Deletion(id))
             /\ Has(OpsAhead', Deletion(id)) => Has(OpsAhead, Deletion(id))
  BY DEF SameDels, RemovalInv
<1>10. ASSUME NEW id \in SessionIds, Has(OpsAhead', Deletion(id)) PROVE Silent(id)'
  <2>1. Silent(id) /\ Removing(id)
    BY <1>9, <1>10 DEF RemovalInv, Removing
  <2>2. \A i \in DOMAIN ms : ms[i] \notin MsgsOf(id)
    BY <2>1
  <2>3. QED
    BY <1>1, <2>1, <2>2, ConcatParts DEF Silent, MsgsOf
<1>11. ASSUME NEW id \in SessionIds, Removing(id)' PROVE id \in known' /\ Removed(sess'[id])
  <2>1. CASE Removing(id)
    BY <2>1 DEF RemovalInv, Removed
  <2>2. CASE Has(ms, Removal(id)')
    BY <2>2
  <2>3. QED
    BY <1>6, <1>8, <1>9, <1>11, <2>1, <2>2 DEF Removing, Deletion
<1>12. Within(OpsAhead', PlainOps)
  BY DEF SameDels, RemovalInv
<1>13. QED
  BY <1>3, <1>8, <1>9, <1>10, <1>11, <1>12 DEF RemovalInv, Deletion, MsgsOf, PlainOps

(* A step that queues no message.                                          *)
LEMMA RemovalKept ==
  ASSUME TypeOK, TypeOK', RemovalInv, SameDels, MsgsAhead' = MsgsAhead,
         \A id \in known : id \in known' /\ inst'[id] = inst[id],
         \A id \in SessionIds : Removing(id) =>
           /\ sess'[id].removeTag = sess[id].removeTag
           /\ sess'[id].connectState = sess[id].connectState
  PROVE  RemovalInv'
<1>1. <<>> \in Seq(Msg) /\ MsgsAhead' = MsgsAhead \o <<>> /\ DOMAIN <<>> = {}
  BY AheadType, NothingAhead, EmptySeq
<1>2. /\ Within(<<>>, LiveMsgs')
      /\ \A id \in SessionIds : /\ Single(<<>>, Removal(id)') /\ ~Has(<<>>, Removal(id)')
                                /\ Last(<<>>, Removal(id)', MsgsOf(id))
  BY <1>1 DEF Within, Single, Last, Has
<1>3. QED
  BY <1>1, <1>2, RemovalPushed

(* A step that queues one message, of a session that is not being removed. *)
LEMMA RemovalOne ==
  ASSUME TypeOK, TypeOK', RemovalInv, SameDels,
         NEW v \in SessionIds, ~Removing(v), v \in known',
         NEW k \in SessionMsgs, NEW m, m = [msg |-> k, id |-> v, inst |-> inst'[v]], PushMsgs(<<m>>),
         msgDispatch' = msgDispatch,
         k = "REMOVE_SESSION" => Removed(sess'[v]),
         \A id \in known : id \in known' /\ inst'[id] = inst[id],
         \A id \in SessionIds : id # v => sess'[id] = sess[id]
  PROVE  RemovalInv'
<1> DEFINE ms == <<m>>
<1>1. m \in Msg /\ ms \in Seq(Msg) /\ DOMAIN ms = {1} /\ ms[1] = m
  BY SessionMsgType DEF SessionMsg, Msg, TypeOK
<1>2. MsgsAhead' = MsgsAhead \o ms
  BY <1>1, BatchPushed
<1>3. Within(ms, LiveMsgs')
  BY <1>1 DEF Within, LiveMsgs, SessionMsg
<1>4. ASSUME NEW id \in SessionIds
      PROVE  m \in MsgsOf(id) <=> id = v
  BY <1>1 DEF MsgsOf, SessionMsg, SessionMsgs
<1>5. ASSUME NEW id \in SessionIds
      PROVE  m = Removal(id)' => id = v /\ k = "REMOVE_SESSION"
  BY DEF Removal, SessionMsg
<1> HIDE DEF ms
<1>6. ASSUME NEW id \in SessionIds
      PROVE  /\ Single(ms, Removal(id)') /\ Last(ms, Removal(id)', MsgsOf(id))
             /\ Has(ms, Removal(id)') => m = Removal(id)'
  BY <1>1 DEF Single, Last, Has
<1>7. ASSUME NEW id \in SessionIds, Removing(id)
      PROVE  /\ sess'[id] = sess[id]
             /\ \A i \in DOMAIN ms : ms[i] \notin MsgsOf(id)
  BY <1>1, <1>4, <1>7
<1>8. ASSUME NEW id \in SessionIds, Has(ms, Removal(id)')
      PROVE  id \in known' /\ Removed(sess'[id])
  BY <1>5, <1>6, <1>8
<1>9. QED
  BY <1>1, <1>2, <1>3, <1>6, <1>7, <1>8, RemovalPushed

(* Pops and pushes of operations that delete no session.                   *)
LEMMA SameOps ==
  ASSUME OpsAhead' = OpsAhead
  PROVE  SameDels
BY DEF SameDels

LEMMA OpPushed ==
  ASSUME TypeOK, NEW o \in Op, PushOp(o), opDispatch' = opDispatch
  PROVE  OpsAhead' = Append(OpsAhead, o) /\ OpsAhead \in Seq(Op)
<1>1. opDispatch \in Seq(Op) /\ opQue \in Seq(Op)
  BY DEF TypeOK
<1>2. opDispatch \o Append(opQue, o) = Append(opDispatch \o opQue, o)
  BY <1>1, PushBehind
<1>3. QED
  BY <1>2, AheadType DEF OpsAhead, PushOp

LEMMA PushKeepsDels ==
  ASSUME TypeOK, NEW o \in Op, o.op # "DELETE_SESSION", PushOp(o), opDispatch' = opDispatch
  PROVE  SameDels
<1>1. OpsAhead' = Append(OpsAhead, o) /\ OpsAhead \in Seq(Op)
  BY OpPushed
<1>2. o \in PlainOps /\ \A id \in SessionIds : o # Deletion(id)
  BY DEF Deletion, SessionOp, PlainOps
<1>3. Within(OpsAhead, PlainOps) => Within(OpsAhead', PlainOps)
  BY <1>1, <1>2, WithinAppend
<1>4. QED
  BY <1>1, <1>2, <1>3, HasAppend, SingleAppend DEF SameDels

LEMMA PopKeepsDels ==
  ASSUME TypeOK, NEW o, o # "DELETE_SESSION", Executes(o)
  PROVE  SameDels
<1>1. opDispatch # <<>> /\ Head(opDispatch).op # "DELETE_SESSION"
  BY DEF Executes
<1>2. OpsAhead # <<>> /\ OpsAhead' = Tail(OpsAhead) /\ Head(OpsAhead) = Head(opDispatch)
  BY <1>1, OpTaken DEF OpsAhead, Executes
<1>3. \A id \in SessionIds : Head(OpsAhead) # Deletion(id)
  BY <1>1, <1>2 DEF Deletion, SessionOp
<1>4. Within(OpsAhead, PlainOps) => Within(OpsAhead', PlainOps)
  BY <1>2, AheadType, WithinTail
<1>5. QED
  BY <1>2, <1>3, <1>4, AheadType, HasTail, SingleTail DEF SameDels

LEMMA ClosersKeepDels ==
  ASSUME TypeOK, NEW id \in SessionIds, NEW n \in Nat, opQue' = opQue \o CloserOps(id, n),
         opDispatch' = opDispatch
  PROVE  SameDels
<1> DEFINE ops == CloserOps(id, n)
<1>1. ops \in Seq(Op)
  BY CloserOpsType
<1>0. \A i \in DOMAIN ops : ops[i] \in Op /\ ops[i].op = "DISCONNECT"
  BY <1>1, LenProperties DEF CloserOps
<1>2. ASSUME NEW x \in SessionIds PROVE ~Has(ops, Deletion(x))
  BY <1>0 DEF Has, Deletion, SessionOp
<1>w. Within(ops, PlainOps)
  BY <1>0 DEF Within, PlainOps
<1> HIDE DEF ops
<1>3. OpsAhead' = OpsAhead \o ops
  <2>1. opDispatch \in Seq(Op) /\ opQue \in Seq(Op)
    BY DEF TypeOK
  <2>2. opDispatch \o (opQue \o ops) = (opDispatch \o opQue) \o ops
    BY <1>1, <2>1, BatchBehind
  <2>3. QED
    BY <2>2 DEF OpsAhead, ops
<1>4. QED
  BY <1>1, <1>2, <1>3, <1>w, AheadType, ConcatNone, ConcatWithin DEF SameDels

(* No step but the confirmation of a removal, its execution and the end of *)
(* the application touches a deletion.                                     *)
LEMMA DelsKept ==
  ASSUME TypeOK,
         \/ Application /\ ~DispatchMsg /\ ~JoinReturns
         \/ LoopThread /\ ~ExecDeleteSession
         \/ UNCHANGED vars
  PROVE  SameDels
<1> USE DEF SessionOps
<1>u. ASSUME UNCHANGED <<opQue, opDispatch>> PROVE SameDels
  BY <1>u, SameOps DEF OpsAhead
<1>1. ASSUME NEW id \in SessionIds, NEW call, NEW op \in SessionOps, op # "DELETE_SESSION",
             Request(call, op, id)
      PROVE  SameDels
  <2>1. SessionOp(op, id) \in Op /\ SessionOp(op, id).op # "DELETE_SESSION"
    BY <1>1, SessionOpType DEF SessionOp
  <2>2. QED
    BY <1>1, <2>1, PushKeepsDels DEF Request
<1>2. ASSUME NEW id \in SessionIds,
             Connect(id) \/ Disconnect(id) \/ Send(id) \/ SendAndClose(id)
      PROVE  SameDels
  BY <1>1, <1>2 DEF Connect, Disconnect, Send, SendAndClose
<1>3. ASSUME NEW id \in SessionIds, RemoveSession(id) PROVE SameDels
  <2>1. /\ SessionOp("REMOVE_SESSION", id) \in Op
        /\ SessionOp("REMOVE_SESSION", id).op # "DELETE_SESSION"
    BY SessionOpType DEF SessionOp
  <2>2. QED
    BY <1>3, <2>1, PushKeepsDels DEF RemoveSession
<1>4. CASE SetSocketNoDelay
  <2>1. [op |-> "SET_NO_DELAY"] \in Op
    BY DEF Op, ClientOps
  <2>2. QED
    BY <1>4, <2>1, PushKeepsDels DEF SetSocketNoDelay
<1>5. CASE CloseClient \/ Destroy
  <2>1. StopAndPush
    BY <1>5 DEF CloseClient, Destroy
  <2>2. [op |-> "CLIENT_CLOSE"] \in Op
    BY DEF Op, ClientOps
  <2>3. QED
    BY <1>u, <2>1, <2>2, PushKeepsDels DEF StopAndPush
<1>6. CASE GetThreadMsg
  BY <1>6, <1>u DEF GetThreadMsg
<1>7. CASE DrainOperations
  <2>1. OpsAhead' = OpsAhead
    BY <1>7, NothingAhead DEF DrainOperations, OpsAhead, TypeOK
  <2>2. QED
    BY <2>1, SameOps
<1>8. CASE ExecuteOperation /\ ~ExecDeleteSession
  <2>1. \E o \in (SessionOps \cup ClientOps) \ {"DELETE_SESSION"} : Executes(o)
    BY <1>8 DEF ExecuteOperation, ExecSend, ExecSendAndClose, ExecDisconnect, ExecConnect,
       ExecSetNoDelay, ExecClientClose, ExecRemoveSession, ClientOps
  <2>2. QED
    BY <2>1, PopKeepsDels
<1>9. CASE OnTimerUpdateRun \/ RunEnds
  BY <1>9, <1>u DEF OnTimerUpdateRun, RunEnds
<1>10. ASSUME NEW id \in SessionIds, ConnectAnswered(id) \/ OnRead(id) \/ OnReadEnd(id)
       PROVE  SameDels
  BY <1>10, <1>u DEF ConnectAnswered, OnSocketConnect, OnRead, OnReadEnd, SocketCallback
<1>11. ASSUME NEW id \in SessionIds, OnWriteDone(id) \/ OnClose(id) PROVE SameDels
  BY <1>11, ClosersKeepDels DEF OnWriteDone, OnClose, SocketCallback, TypeOK, Session
<1>12. CASE UNCHANGED vars
  BY <1>12, <1>u DEF vars, sharedVars
<1>13. QED
  BY <1>2, <1>3, <1>4, <1>5, <1>6, <1>7, <1>8, <1>9, <1>10, <1>11, <1>12
  DEF Application, LoopThread

LEMMA QueueShapeStep ==
  ASSUME TypeOK, QueueShape, [Next]_vars
  PROVE  QueueShape'
<1> USE DEF QueueShape
<1>1. ASSUME UNCHANGED <<app, msgDispatch, opDispatch, loop>>, app # "gone" PROVE QueueShape'
  BY <1>1
<1>2. ASSUME NEW id \in SessionIds, Connect(id) \/ Disconnect(id) \/ Send(id) \/ SendAndClose(id)
      PROVE  QueueShape'
  BY <1>1, <1>2 DEF Connect, Disconnect, Send, SendAndClose, Request, Calls
<1>3. ASSUME NEW id \in SessionIds, RemoveSession(id) PROVE QueueShape'
  BY <1>1, <1>3 DEF RemoveSession, Calls
<1>4. CASE SetSocketNoDelay
  BY <1>1, <1>4 DEF SetSocketNoDelay, Calls
<1>5. CASE CloseClient \/ Destroy
  BY <1>5 DEF CloseClient, Destroy, StopAndPush, Calls
<1>6. CASE JoinReturns
  <2>1. msgDispatch' = <<>> /\ opDispatch' = <<>> /\ msgQue' = <<>> /\ opQue' = <<>>
    BY <1>6 DEF JoinReturns
  <2>2. MsgsAhead' = <<>> /\ OpsAhead' = <<>>
    BY <2>1, NothingAhead, EmptySeq DEF MsgsAhead, OpsAhead
  <2>3. QED
    BY <1>6, <2>1, <2>2 DEF JoinReturns
<1>7. CASE GetThreadMsg
  BY <1>7 DEF GetThreadMsg, appVars
<1>8. CASE DispatchMsg
  BY <1>8 DEF DispatchMsg
<1>9. CASE DrainOperations
  BY <1>9 DEF DrainOperations, appVars
<1>10. CASE ExecuteOperation
  <2>1. opDispatch # <<>> /\ UNCHANGED <<app, msgDispatch, loop>>
    BY <1>10 DEF ExecuteOperation, ExecSend, ExecSendAndClose, ExecDisconnect, ExecConnect,
       ExecSetNoDelay, ExecClientClose, ExecRemoveSession, ExecDeleteSession, Executes, appVars
  <2>2. QED
    BY <2>1
<1>11. CASE OnTimerUpdateRun
  BY <1>11 DEF OnTimerUpdateRun, ClearSessions, StopLoop, appVars
<1>12. CASE RunEnds
  BY <1>12 DEF RunEnds, appVars
<1>13. ASSUME NEW id \in SessionIds,
              \/ ConnectAnswered(id) \/ OnRead(id) \/ OnReadEnd(id)
              \/ OnWriteDone(id) \/ OnClose(id)
       PROVE  QueueShape'
  <2>1. UNCHANGED <<app, msgDispatch, opDispatch, loop>> /\ loop # "ended"
    BY <1>13 DEF ConnectAnswered, OnSocketConnect, OnRead, OnReadEnd, OnWriteDone, OnClose,
       SocketCallback, appVars
  <2>2. app # "gone"
    BY <2>1
  <2>3. QED
    BY <1>1, <2>1, <2>2
<1>14. CASE UNCHANGED vars
  BY <1>14 DEF vars, appVars, sharedVars, sessionVars, MsgsAhead, OpsAhead
<1>15. QED
  BY <1>2, <1>3, <1>4, <1>5, <1>6, <1>7, <1>8, <1>9, <1>10, <1>11, <1>12, <1>13, <1>14
  DEF Next, Application, LoopThread

LEMMA RemovalApplication ==
  ASSUME TypeOK, TypeOK', QueueShape, RemovalInv, Application, ~JoinReturns
  PROVE  RemovalInv'
<1> USE DEF sessionVars
<1>1. CASE ~DispatchMsg
  <2>1. UNCHANGED <<known, inst, sess>>
    BY <1>1 DEF Application, Connect, Disconnect, Send, SendAndClose, Request, RemoveSession,
       SetSocketNoDelay, CloseClient, Destroy, StopAndPush, GetThreadMsg
  <2>2. CASE GetThreadMsg
    <3>1. msgDispatch = <<>> /\ msgDispatch' = msgQue /\ msgQue' = <<>> /\ msgQue \in Seq(Msg)
      BY <2>2 DEF GetThreadMsg, TypeOK
    <3>2. MsgsAhead' = MsgsAhead
      BY <3>1, NothingAhead DEF MsgsAhead
    <3>3. QED
      BY <1>1, <2>1, <3>2, DelsKept, RemovalKept
  <2>3. CASE ~GetThreadMsg
    <3>1. MsgsAhead' = MsgsAhead
      BY <1>1, <2>3 DEF Application, Connect, Disconnect, Send, SendAndClose, Request,
         RemoveSession, SetSocketNoDelay, CloseClient, Destroy, StopAndPush, MsgsAhead
    <3>2. QED
      BY <1>1, <2>1, <3>1, DelsKept, RemovalKept
  <2>4. QED
    BY <2>2, <2>3
<1>2. CASE DispatchMsg
  <2> DEFINE m == Head(msgDispatch)
  <2>1. /\ msgDispatch # <<>> /\ msgDispatch' = Tail(msgDispatch)
        /\ UNCHANGED <<msgQue, known, inst, sess, opDispatch>>
    BY <1>2 DEF DispatchMsg
  <2>2. /\ MsgsAhead \in Seq(Msg) /\ MsgsAhead # <<>>
        /\ Head(MsgsAhead) = m /\ MsgsAhead' = Tail(MsgsAhead)
    BY <2>1, MsgTaken DEF MsgsAhead
  <2>3. m \in LiveMsgs /\ Within(MsgsAhead', LiveMsgs')
    BY <2>1, <2>2, WithinTail DEF RemovalInv, LiveMsgs
  <2>4. ASSUME NEW id \in SessionIds
        PROVE  /\ Removal(id)' = Removal(id)
               /\ Single(MsgsAhead', Removal(id)) /\ Last(MsgsAhead', Removal(id), MsgsOf(id))
               /\ m = Removal(id) => Silent(id)' /\ ~Has(MsgsAhead', Removal(id))
               /\ Has(MsgsAhead, Removal(id)) <=> m = Removal(id) \/ Has(MsgsAhead', Removal(id))
               /\ Silent(id) => Silent(id)' /\ m # Removal(id)
    <3>1. Single(MsgsAhead, Removal(id)) /\ Last(MsgsAhead, Removal(id), MsgsOf(id))
      BY DEF RemovalInv
    <3>2. Silent(id) => Silent(id)' /\ m # Removal(id)
      <4>1. Silent(id) => Within(MsgsAhead, Msg \ MsgsOf(id))
        BY <2>2, LenProperties DEF Silent, Within
      <4>2. Silent(id) => m \notin MsgsOf(id) /\ Within(MsgsAhead', Msg \ MsgsOf(id))
        BY <2>2, <4>1, WithinTail
      <4>3. Removal(id) \in MsgsOf(id)
        BY RemovalMsg DEF SessionMsgs
      <4>4. QED
        BY <4>2, <4>3 DEF Silent, Within, MsgsOf
    <3>3. m = Removal(id) => Silent(id)'
      BY <2>2, <3>1, LastTail DEF Silent, MsgsOf
    <3>4. Removal(id)' = Removal(id)
      BY <2>1 DEF Removal, SessionMsg
    <3>5. QED
      BY <2>2, <3>1, <3>2, <3>3, <3>4, HasTail, SingleTail, LastTail
  <2>5. CASE m.msg = "REMOVE_SESSION"
    <3> DEFINE v == m.id
               d == Deletion(v)
    <3>1. v \in SessionIds /\ m = Removal(v)
      BY <2>3, <2>5 DEF LiveMsgs, Msg, Removal, SessionMsg
    <3>2. d \in Op /\ PushOp(d)
      BY <1>2, <2>5, <3>1, SessionOpType DEF DispatchMsg, Deletion, SessionOps
    <3>3. OpsAhead' = Append(OpsAhead, d) /\ OpsAhead \in Seq(Op)
      BY <2>1, <3>2, OpPushed
    <3>4. \A id \in SessionIds : /\ d = Deletion(id) <=> id = v
                                 /\ m = Removal(id) <=> id = v
      BY <3>1 DEF Deletion, SessionOp, Removal, SessionMsg
    <3> HIDE DEF d, v, m
    <3>5. ~Has(OpsAhead, d)
      <4>1. ~Silent(v)
        BY <2>4, <3>1
      <4>2. QED
        BY <3>1, <4>1 DEF RemovalInv, d
    <3>6. ASSUME NEW id \in SessionIds
          PROVE  /\ Single(OpsAhead', Deletion(id))
                 /\ Has(OpsAhead', Deletion(id)) <=> Has(OpsAhead, Deletion(id)) \/ id = v
      BY <3>2, <3>3, <3>4, <3>5, HasAppend, SingleAppend DEF RemovalInv
    <3>7. ASSUME NEW id \in SessionIds
          PROVE  /\ Has(OpsAhead', Deletion(id)) => Silent(id)'
                 /\ Removing(id)' => Removing(id)
      BY <2>4, <3>1, <3>4, <3>6 DEF RemovalInv, Removing, Deletion
    <3>8. Within(OpsAhead', PlainOps)
      <4>1. d \in PlainOps
        BY <3>2 DEF PlainOps, d, Deletion, SessionOp
      <4>2. QED
        BY <3>2, <3>3, <4>1, WithinAppend DEF RemovalInv
    <3>9. QED
      BY <2>1, <2>3, <2>4, <3>6, <3>7, <3>8 DEF RemovalInv, Removed, Deletion, MsgsOf, PlainOps
  <2>6. CASE m.msg # "REMOVE_SESSION"
    <3>1. OpsAhead' = OpsAhead
      BY <1>2, <2>1, <2>6 DEF DispatchMsg, OpsAhead
    <3>2. \A id \in SessionIds : m # Removal(id)
      BY <2>6 DEF Removal, SessionMsg
    <3> HIDE DEF m
    <3>3. ASSUME NEW id \in SessionIds
          PROVE  /\ Has(OpsAhead', Deletion(id)) => Silent(id)'
                 /\ Removing(id)' => Removing(id)
      BY <2>4, <3>1, <3>2 DEF RemovalInv, Removing, Deletion
    <3>4. QED
      BY <2>1, <2>3, <2>4, <3>1, <3>3 DEF RemovalInv, Removed, Deletion, MsgsOf, PlainOps
  <2>7. QED
    BY <2>5, <2>6
<1>3. QED
  BY <1>1, <1>2

(* An operation changes the session it is for, and no other.               *)
LEMMA RemovalExecute ==
  ASSUME TypeOK, TypeOK', SocketState, QueueShape, RemovalInv, ExecuteOperation
  PROVE  RemovalInv'
<1> USE DEF SessionOps
<1>s. sess \in [SessionIds -> Session]
  BY DEF TypeOK
<1>e. ASSUME NEW o, Executes(o)
      PROVE  UNCHANGED <<app, msgDispatch, opQue>>
  BY <1>e DEF Executes, appVars
<1>u. ASSUME UNCHANGED <<msgDispatch, msgQue, known, inst>>, SameDels,
             NEW v \in SessionIds,
             \A id \in SessionIds : id # v => sess'[id] = sess[id],
             Removing(v) => /\ sess'[v].removeTag = sess[v].removeTag
                            /\ sess'[v].connectState = sess[v].connectState
      PROVE  RemovalInv'
  BY <1>u, RemovalKept DEF MsgsAhead
<1>c. ASSUME NEW v \in SessionIds, NEW s, ChangeSession(v, s)
      PROVE  sess'[v] = s /\ \A id \in SessionIds : id # v => sess'[id] = sess[id]
  BY <1>s, <1>c DEF ChangeSession
<1>f. ASSUME NEW s \in Session
      PROVE  /\ ExecuteDisconnect(s).removeTag = s.removeTag
             /\ ExecuteDisconnect(s).connectState = s.connectState
             /\ \A t \in AfterSend(s) \cup AfterSendAndClose(s) :
                  t.removeTag = s.removeTag /\ t.connectState = s.connectState
  BY DEF ExecuteDisconnect, ShutdownSocket, AfterSend, AfterSendAndClose, Session
<1>r. ASSUME NEW v \in SessionIds, Removing(v) PROVE v \in known /\ Removed(sess[v])
  BY <1>r DEF RemovalInv
<1>1. CASE ExecSend
  <2>1. Target \in SessionIds /\ SameDels
    BY <1>1, TargetType, PopKeepsDels DEF ExecSend
  <2>2. \A id \in SessionIds : id # Target => sess'[id] = sess[id]
    BY <1>1, <1>c, <2>1 DEF ExecSend
  <2>3. /\ sess'[Target].removeTag = sess[Target].removeTag
        /\ sess'[Target].connectState = sess[Target].connectState
    BY <1>1, <1>s, <1>c, <1>f, <2>1 DEF ExecSend
  <2>4. QED
    BY <1>1, <1>e, <1>u, <2>1, <2>2, <2>3 DEF ExecSend
<1>2. CASE ExecSendAndClose
  <2>1. Target \in SessionIds /\ SameDels
    BY <1>2, TargetType, PopKeepsDels DEF ExecSendAndClose
  <2>2. \A id \in SessionIds : id # Target => sess'[id] = sess[id]
    BY <1>2, <1>c, <2>1 DEF ExecSendAndClose
  <2>3. /\ sess'[Target].removeTag = sess[Target].removeTag
        /\ sess'[Target].connectState = sess[Target].connectState
    BY <1>2, <1>s, <1>c, <1>f, <2>1 DEF ExecSendAndClose
  <2>4. QED
    BY <1>2, <1>e, <1>u, <2>1, <2>2, <2>3 DEF ExecSendAndClose
<1>3. CASE ExecDisconnect
  <2>1. Target \in SessionIds /\ SameDels
    BY <1>3, TargetType, PopKeepsDels DEF ExecDisconnect
  <2>2. \A id \in SessionIds : id # Target => sess'[id] = sess[id]
    BY <1>3, <1>c, <2>1 DEF ExecDisconnect
  <2>3. sess[Target].connectState # "CONNECT" => sess' = sess
    BY <1>3 DEF ExecDisconnect
  <2>4. Removing(Target) => sess' = sess
    BY <1>r, <2>1, <2>3 DEF Removed
  <2>5. QED
    BY <1>3, <1>e, <1>u, <2>1, <2>2, <2>4 DEF ExecDisconnect
<1>4. CASE ExecConnect
  <2>1. Target \in SessionIds /\ SameDels
    BY <1>4, TargetType, PopKeepsDels DEF ExecConnect
  <2>2. CASE CreateSession
    <3>1. ~Removing(Target) /\ Target \in known'
      BY <1>r, <2>1, <2>2 DEF CreateSession
    <3>2. \A id \in known : id \in known' /\ inst'[id] = inst[id]
      BY <2>1, <2>2 DEF CreateSession, TypeOK
    <3>3. \A id \in SessionIds : id # Target => sess'[id] = sess[id]
      BY <1>c, <2>1, <2>2 DEF CreateSession
    <3>4. CASE UNCHANGED msgQue
      <4>1. MsgsAhead' = MsgsAhead
        BY <1>4, <1>e, <3>4 DEF ExecConnect, MsgsAhead
      <4>2. QED
        BY <2>1, <3>1, <3>2, <3>3, <4>1, RemovalKept
    <3>5. ASSUME NEW m, m = [msg |-> "CONNECT_FAIL", id |-> Target, inst |-> inst'[Target]],
                 PushMsgs(<<m>>)
          PROVE  RemovalInv'
      <4>1. msgDispatch' = msgDispatch
        BY <1>4, <1>e DEF ExecConnect
      <4>2. QED
        BY <2>1, <3>1, <3>2, <3>3, <3>5, <4>1, RemovalOne DEF SessionMsgs
    <3>6. QED
      BY <2>2, <3>4, <3>5 DEF CreateSession
  <2>3. CASE Reconnect
    <3>1. UNCHANGED <<known, inst>>
      BY <2>3 DEF Reconnect
    <3>2. CASE UNCHANGED <<sess, msgQue>>
      BY <1>4, <1>e, <1>u, <2>1, <3>1, <3>2 DEF ExecConnect
    <3>3. CASE ~(UNCHANGED <<sess, msgQue>>)
      <4>1. ~Removing(Target) /\ Target \in known
        BY <1>r, <2>1, <2>3, <3>3 DEF Reconnect, Removed
      <4>2. \A id \in SessionIds : id # Target => sess'[id] = sess[id]
        BY <1>c, <2>1, <2>3 DEF Reconnect
      <4>3. CASE UNCHANGED msgQue
        BY <1>4, <1>e, <1>u, <2>1, <3>1, <4>1, <4>2, <4>3 DEF ExecConnect
      <4>4. ASSUME PushMsgs(<<SessionMsg("CONNECT_FAIL", Target)>>)
            PROVE  RemovalInv'
        <5> DEFINE m == SessionMsg("CONNECT_FAIL", Target)
        <5>1. m = [msg |-> "CONNECT_FAIL", id |-> Target, inst |-> inst'[Target]]
          BY <3>1 DEF SessionMsg
        <5>2. msgDispatch' = msgDispatch
          BY <1>4, <1>e DEF ExecConnect
        <5> HIDE DEF m
        <5>3. QED
          BY <2>1, <3>1, <4>1, <4>2, <4>4, <5>1, <5>2, RemovalOne DEF SessionMsgs, m
      <4>5. QED
        BY <2>3, <3>3, <4>3, <4>4 DEF Reconnect
    <3>4. QED
      BY <3>2, <3>3
  <2>4. QED
    BY <1>4, <2>2, <2>3 DEF ExecConnect
<1>5. CASE ExecSetNoDelay
  <2>1. SameDels
    BY <1>5, PopKeepsDels DEF ExecSetNoDelay
  <2>2. \A id \in SessionIds : /\ sess'[id].removeTag = sess[id].removeTag
                               /\ sess'[id].connectState = sess[id].connectState
    BY <1>5, <1>s DEF ExecSetNoDelay, Session
  <2>3. UNCHANGED <<msgDispatch, msgQue, known, inst>>
    BY <1>5, <1>e DEF ExecSetNoDelay
  <2>4. QED
    BY <2>1, <2>2, <2>3, RemovalKept DEF MsgsAhead
<1>6. CASE ExecClientClose
  <2>1. SameDels /\ UNCHANGED <<msgDispatch, msgQue, known, inst, sess>>
    BY <1>6, <1>e, PopKeepsDels DEF ExecClientClose, sessionVars
  <2>2. QED
    BY <2>1, RemovalKept DEF MsgsAhead
<1>7. CASE ExecRemoveSession
  <2> DEFINE s == sess[Target]
  <2>1. Target \in SessionIds /\ SameDels /\ UNCHANGED <<msgDispatch, known, inst>>
    BY <1>7, <1>e, TargetType, PopKeepsDels DEF ExecRemoveSession
  <2>2. CASE Target \notin known
    BY <1>7, <1>u, <2>1, <2>2 DEF ExecRemoveSession
  <2>3. CASE Target \in known /\ s.connectState # "DISCONNECT"
    <3>1. ~Removing(Target)
      BY <1>r, <2>1, <2>3 DEF Removed
    <3>2. msgQue' = msgQue /\ ChangeSession(Target, ExecuteDisconnect([s EXCEPT !.removeTag = TRUE]))
      BY <1>7, <2>3 DEF ExecRemoveSession
    <3>3. QED
      BY <1>u, <1>c, <2>1, <3>1, <3>2
  <2>4. CASE Target \in known /\ s.connectState = "DISCONNECT"
    <3>1. /\ ChangeSession(Target, [s EXCEPT !.removeTag = TRUE])
          /\ IF s.removeTag THEN UNCHANGED msgQue
             ELSE PushMsgs(<<SessionMsg("REMOVE_SESSION", Target)>>)
      BY <1>7, <2>4 DEF ExecRemoveSession
    <3>2. Removed(sess'[Target]) /\ \A id \in SessionIds : id # Target => sess'[id] = sess[id]
      BY <1>s, <1>c, <2>1, <2>4, <3>1 DEF Removed, Session
    <3>3. CASE s.removeTag
      BY <1>r, <1>u, <2>1, <3>1, <3>2, <3>3 DEF Removed
    <3>4. CASE ~s.removeTag
      <4> DEFINE m == SessionMsg("REMOVE_SESSION", Target)
      <4>1. ~Removing(Target)
        BY <1>r, <2>1, <3>4 DEF Removed
      <4>2. m = [msg |-> "REMOVE_SESSION", id |-> Target, inst |-> inst'[Target]]
        BY <2>1 DEF SessionMsg
      <4>3. PushMsgs(<<m>>) /\ Target \in known'
        BY <2>1, <2>4, <3>1, <3>4
      <4> HIDE DEF m
      <4>4. QED
        BY <2>1, <3>2, <4>1, <4>2, <4>3, RemovalOne DEF SessionMsgs
    <3>5. QED
      BY <3>3, <3>4
  <2>5. QED
    BY <2>2, <2>3, <2>4
<1>8. CASE ExecDeleteSession
  <2>v. PICK v \in SessionIds : v = Target
    BY <1>8, TargetType DEF ExecDeleteSession
  <2> DEFINE d == Deletion(v)
  <2>1. UNCHANGED <<msgDispatch, msgQue, inst>>
    BY <1>8, <1>e DEF ExecDeleteSession
  <2>2. /\ opDispatch # <<>> /\ opDispatch' = Tail(opDispatch) /\ opQue' = opQue
        /\ Head(opDispatch).op = "DELETE_SESSION"
    BY <1>8, <1>e DEF ExecDeleteSession, Executes
  <2>3. /\ OpsAhead \in Seq(Op) /\ OpsAhead # <<>>
        /\ Head(OpsAhead) = Head(opDispatch) /\ OpsAhead' = Tail(OpsAhead)
    BY <2>2, OpTaken DEF OpsAhead
  <2>4. MsgsAhead' = MsgsAhead /\ \A id \in SessionIds : Removal(id)' = Removal(id)
    BY <2>1 DEF MsgsAhead, Removal, SessionMsg
  <2>5. ASSUME NEW id \in SessionIds
        PROVE  /\ Single(OpsAhead', Deletion(id))
               /\ Has(OpsAhead', Deletion(id)) => Has(OpsAhead, Deletion(id))
               /\ Has(OpsAhead', Deletion(id)) => Head(OpsAhead) # Deletion(id)
    BY <2>3, HasTail, SingleTail DEF RemovalInv
  <2>6. ASSUME NEW id \in SessionIds, Removing(id)' PROVE Removing(id)
    BY <2>4, <2>5, <2>6 DEF Removing, Deletion
  <2>w. Within(OpsAhead', PlainOps)
    BY <2>3, WithinTail DEF RemovalInv
  <2>7. CASE UNCHANGED <<known, sess>>
    <3>1. Within(MsgsAhead', LiveMsgs')
      BY <2>1, <2>4, <2>7 DEF RemovalInv, LiveMsgs
    <3>2. QED
      BY <2>4, <2>5, <2>6, <2>7, <2>w, <3>1 DEF RemovalInv, Removed, Silent, MsgsOf, Deletion, PlainOps
  <2>8. CASE known' = known \ {v} /\ ChangeSession(v, NewSession)
    <3>0. \A id \in SessionIds : id # v => sess'[id] = sess[id]
      BY <1>c, <2>1, <2>8
    <3>1. Head(OpsAhead) \in Op /\ Has(OpsAhead, Head(OpsAhead))
      BY <2>3, HasTail, HeadTailProperties
    <3>2. CASE Head(OpsAhead) = d
      <4>1. Silent(v) /\ ~Has(OpsAhead', d)
        BY <2>1, <2>5, <3>1, <3>2 DEF RemovalInv
      <4>2. ~Removing(v)'
        <5>1. Removal(v) \in MsgsOf(v)
          BY RemovalMsg DEF SessionMsgs
        <5>2. ~Has(MsgsAhead', Removal(v)')
          BY <2>4, <4>1, <5>1 DEF Silent, Has
        <5>3. QED
          BY <4>1, <5>2 DEF Removing, Deletion
      <4>3. Within(MsgsAhead', LiveMsgs')
        <5>1. Within(MsgsAhead, LiveMsgs)
          BY DEF RemovalInv
        <5>2. \A i \in DOMAIN MsgsAhead : MsgsAhead[i] \notin MsgsOf(v)
          BY <4>1 DEF Silent
        <5>3. QED
          BY <2>1, <2>4, <2>8, <5>1, <5>2 DEF Within, LiveMsgs, MsgsOf
      <4>4. \A id \in SessionIds : Removing(id)' => id \in known' /\ Removed(sess'[id])
        BY <2>6, <2>8, <3>0, <4>2 DEF RemovalInv
      <4>5. QED
        BY <2>4, <2>5, <2>w, <4>3, <4>4 DEF RemovalInv, Silent, MsgsOf, Deletion, PlainOps
    <3>3. Head(OpsAhead) = d
      <4>1. Head(OpsAhead).conn = 0
        BY <2>2, <2>3, WithinTail DEF RemovalInv, PlainOps
      <4>2. QED
        BY <2>2, <2>3, <2>v, <3>1, <4>1 DEF Deletion, SessionOp, Target, Op, ClientOps
    <3>4. QED
      BY <3>2, <3>3
  <2>9. QED
    BY <1>8, <2>v, <2>7, <2>8 DEF ExecDeleteSession
<1>9. QED
  BY <1>1, <1>2, <1>3, <1>4, <1>5, <1>6, <1>7, <1>8 DEF ExecuteOperation

(* The batch of the timer announces each session that awaits it once.      *)
LEMMA TimerBatch ==
  ASSUME TypeOK, NEW gone \in Ascending({id \in SessionIds : AwaitsRemoval(id)}),
         NEW ms, ms = [i \in DOMAIN gone |-> SessionMsg("REMOVE_SESSION", gone[i])]
  PROVE  /\ ms \in Seq(Msg) /\ Len(ms) \in Nat /\ DOMAIN ms = 1 .. Len(ms)
         /\ DOMAIN gone = DOMAIN ms
         /\ \A i \in DOMAIN ms : /\ gone[i] \in SessionIds /\ AwaitsRemoval(gone[i])
                                 /\ ms[i] = Removal(gone[i])
         /\ \A i, j \in DOMAIN ms : gone[i] = gone[j] => i = j
         /\ \A id \in SessionIds : AwaitsRemoval(id) => \E i \in DOMAIN ms : gone[i] = id
<1> DEFINE ids == {id \in SessionIds : AwaitsRemoval(id)}
           n   == Cardinality(ids)
<1>1. n \in Nat
  BY SessionIdsAssumption, FS_Subset, FS_CardinalityType
<1>2. /\ gone \in [1 .. n -> ids]
      /\ \A i, j \in DOMAIN gone : i < j => gone[i] < gone[j]
      /\ {gone[i] : i \in DOMAIN gone} = ids
  BY DEF Ascending
<1>3. ms \in Seq(Msg) /\ DOMAIN ms = 1 .. n
  BY <1>2, RemovalMsgsType
<1>4. Len(ms) = n
  BY <1>1, <1>3, LenProperties
<1> HIDE DEF n
<1>5. ASSUME NEW i \in 1 .. n, NEW j \in 1 .. n, gone[i] = gone[j] PROVE i = j
  <2>1. gone[i] \in Nat /\ gone[j] \in Nat
    BY <1>2, SessionIdsAssumption
  <2>2. ~(i < j) /\ ~(j < i)
    BY <1>2, <1>5, <2>1
  <2>3. QED
    BY <1>1, <2>2
<1>6. \A i \in 1 .. n : ms[i] = Removal(gone[i])
  BY <1>2, <1>3 DEF Removal
<1>7. \A i \in 1 .. n : gone[i] \in ids
  BY <1>2
<1>8. QED
  BY <1>1, <1>2, <1>3, <1>4, <1>5, <1>6, <1>7

LEMMA RemovalTimer ==
  ASSUME TypeOK, TypeOK', RemovalInv, DrainOperations \/ OnTimerUpdateRun \/ RunEnds
  PROVE  RemovalInv'
<1> USE DEF appVars, sessionVars
<1>1. CASE DrainOperations
  <2>1. OpsAhead' = OpsAhead
    BY <1>1, NothingAhead DEF DrainOperations, OpsAhead, TypeOK
  <2>2. UNCHANGED <<msgDispatch, msgQue, known, inst, sess>>
    BY <1>1 DEF DrainOperations
  <2>3. QED
    BY <2>1, <2>2, SameOps, RemovalKept DEF MsgsAhead
<1>2. CASE OnTimerUpdateRun /\ ClearSessions
  <2>1. PICK gone \in Ascending({id \in SessionIds : AwaitsRemoval(id)}) :
          PushMsgs([i \in DOMAIN gone |-> SessionMsg("REMOVE_SESSION", gone[i])])
    BY <1>2 DEF ClearSessions
  <2>2. PICK ms : ms = [i \in DOMAIN gone |-> SessionMsg("REMOVE_SESSION", gone[i])]
    OBVIOUS
  <2>3. /\ ms \in Seq(Msg) /\ DOMAIN gone = DOMAIN ms
        /\ \A i \in DOMAIN ms : /\ gone[i] \in SessionIds /\ AwaitsRemoval(gone[i])
                                /\ ms[i] = Removal(gone[i])
        /\ \A i, j \in DOMAIN ms : gone[i] = gone[j] => i = j
    BY <2>2, TimerBatch
  <2>4. UNCHANGED <<msgDispatch, opQue, opDispatch, known, inst>>
    BY <1>2 DEF OnTimerUpdateRun
  <2>5. MsgsAhead' = MsgsAhead \o ms
    BY <2>1, <2>2, <2>3, <2>4, BatchPushed
  <2>6. \A id \in SessionIds : Removal(id)' = Removal(id)
    BY <2>4 DEF Removal, SessionMsg
  <2>7. ASSUME NEW i \in DOMAIN ms, NEW id \in SessionIds
        PROVE  ms[i] \in MsgsOf(id) <=> gone[i] = id
    BY <2>3, RemovalMsg DEF Removal, SessionMsgs
  <2>8. Within(ms, LiveMsgs')
    <3>1. ASSUME NEW i \in DOMAIN ms PROVE ms[i] \in LiveMsgs
      BY <2>3, RemovalMsg DEF LiveMsgs, AwaitsRemoval, Removal, SessionMsg, SessionMsgs
    <3>2. QED
      BY <2>4, <3>1 DEF Within, LiveMsgs
  <2>9. ASSUME NEW id \in SessionIds
        PROVE  /\ Has(ms, Removal(id)) => AwaitsRemoval(id)
               /\ Single(ms, Removal(id)) /\ Last(ms, Removal(id), MsgsOf(id))
    <3>1. \A i \in DOMAIN ms : ms[i] = Removal(id) => gone[i] = id
      BY <2>7, RemovalMsg DEF SessionMsgs
    <3>2. \A i, j \in DOMAIN ms : i < j => i # j
      BY <2>3, LenProperties
    <3>3. QED
      BY <2>3, <2>7, <3>1, <3>2 DEF Has, Single, Last
  <2>10. ASSUME NEW id \in SessionIds, Removing(id)
         PROVE  /\ sess'[id].removeTag = sess[id].removeTag
                /\ sess'[id].connectState = sess[id].connectState
                /\ \A i \in DOMAIN ms : ms[i] \notin MsgsOf(id)
    <3>1. Removed(sess[id]) /\ ~AwaitsRemoval(id)
      BY <2>10 DEF RemovalInv, Removed, AwaitsRemoval
    <3>2. sess'[id] = sess[id]
      BY <1>2, <3>1 DEF ClearSessions, Removed
    <3>3. QED
      BY <2>3, <2>7, <3>1, <3>2
  <2>11. ASSUME NEW id \in SessionIds, AwaitsRemoval(id)
         PROVE  id \in known' /\ Removed(sess'[id])
    BY <1>2, <2>4, <2>11 DEF ClearSessions, AwaitsRemoval, Removed, TypeOK, Session
  <2>12. SameDels
    BY <2>4, SameOps DEF OpsAhead
  <2>13. QED
    BY <2>3, <2>4, <2>5, <2>6, <2>8, <2>9, <2>10, <2>11, <2>12, RemovalPushed
<1>3. CASE OnTimerUpdateRun /\ StopLoop
  BY <1>3, SameOps, RemovalKept DEF OnTimerUpdateRun, StopLoop, MsgsAhead, OpsAhead
<1>4. CASE RunEnds
  <2> DEFINE m  == [msg |-> "EXIT_LOOP"]
             ms == <<m>>
  <2>1. m \in Msg /\ ms \in Seq(Msg) /\ DOMAIN ms = {1} /\ ms[1] = m
    BY DEF Msg
  <2>2. PushMsgs(ms) /\ UNCHANGED <<msgDispatch, opQue, opDispatch, known, inst, sess>>
    BY <1>4 DEF RunEnds
  <2>3. \A id \in SessionIds : m \notin MsgsOf(id) /\ m # Removal(id)'
    BY DEF MsgsOf, Removal, SessionMsg
  <2>4. m \in LiveMsgs'
    BY <2>1 DEF LiveMsgs
  <2> HIDE DEF m, ms
  <2>5. MsgsAhead' = MsgsAhead \o ms /\ SameDels
    BY <2>1, <2>2, BatchPushed, SameOps DEF OpsAhead
  <2>6. Within(ms, LiveMsgs')
    BY <2>1, <2>4 DEF Within
  <2>7. \A id \in SessionIds : /\ ~Has(ms, Removal(id)') /\ Single(ms, Removal(id)')
                               /\ Last(ms, Removal(id)', MsgsOf(id))
                               /\ \A i \in DOMAIN ms : ms[i] \notin MsgsOf(id)
    BY <2>1, <2>3 DEF Has, Single, Last
  <2>8. QED
    BY <2>1, <2>2, <2>5, <2>6, <2>7, RemovalPushed
<1>5. QED
  BY <1>1, <1>2, <1>3, <1>4 DEF OnTimerUpdateRun

LEMMA TwoMsgs ==
  ASSUME NEW S, NEW a \in S, NEW b \in S
  PROVE  <<a>> \o <<b>> = <<a, b>>
<1> DEFINE p == <<a>>
           q == <<b>>
           ab == <<a, b>>
<1>1. /\ p \in Seq(S) /\ Len(p) = 1 /\ p[1] = a
      /\ q \in Seq(S) /\ Len(q) = 1 /\ q[1] = b
      /\ ab \in Seq(S) /\ Len(ab) = 2 /\ ab[1] = a /\ ab[2] = b
  OBVIOUS
<1> HIDE DEF p, q, ab
<1>2. p \o q \in Seq(S) /\ Len(p \o q) = 2
  BY <1>1, ConcatProperties
<1>3. (p \o q)[1] = a /\ (p \o q)[2] = b
  <2>1. 1 \in 1 .. Len(p) + Len(q) /\ 2 \in 1 .. Len(p) + Len(q) /\ 2 - Len(p) = 1
    BY <1>1
  <2>2. /\ (p \o q)[1] = IF 1 <= Len(p) THEN p[1] ELSE q[1 - Len(p)]
        /\ (p \o q)[2] = IF 2 <= Len(p) THEN p[2] ELSE q[2 - Len(p)]
    BY <1>1, <2>1, ConcatProperties
  <2>3. QED
    BY <1>1, <2>1, <2>2
<1>4. p \o q = ab
  BY <1>1, <1>2, <1>3, SeqEqual
<1>5. QED
  BY <1>4 DEF p, q, ab

(* A callback is of a session with a handle, so not of one being removed.  *)
LEMMA RemovalCallbacks ==
  ASSUME TypeOK, TypeOK', SocketState, RemovalInv, NEW id \in SessionIds,
         \/ ConnectAnswered(id) \/ OnRead(id) \/ OnReadEnd(id)
         \/ OnWriteDone(id) \/ OnClose(id)
  PROVE  RemovalInv'
<1>1. /\ id \in known /\ sess[id].handle \in {"connecting", "open", "closing"}
      /\ UNCHANGED <<opDispatch, msgDispatch, known, inst>>
  BY DEF ConnectAnswered, OnSocketConnect, OnRead, OnReadEnd, OnWriteDone, OnClose, SocketCallback
<1>d. SameDels
  <2>1. opDispatch = <<>>
    BY DEF ConnectAnswered, OnSocketConnect, OnRead, OnReadEnd, OnWriteDone, OnClose, SocketCallback
  <2>2. QED
    BY <2>1, DelsKept DEF LoopThread, ExecDeleteSession, Executes
<1>2. ~Removing(id)
  BY <1>1 DEF RemovalInv, SocketState, SocketAgrees, Removed
<1>s. sess[id] \in Session /\ sess \in [SessionIds -> Session]
  BY DEF TypeOK
<1>c. ASSUME NEW s, ChangeSession(id, s)
      PROVE  sess'[id] = s /\ \A x \in SessionIds : x # id => sess'[x] = sess[x]
  BY <1>s, <1>c DEF ChangeSession
<1>u. ASSUME msgQue' = msgQue, \A x \in SessionIds : x # id => sess'[x] = sess[x]
      PROVE  RemovalInv'
  <2>1. MsgsAhead' = MsgsAhead
    BY <1>1, <1>u DEF MsgsAhead
  <2>2. QED
    BY <1>1, <1>2, <1>d, <1>u, <2>1, RemovalKept
<1>m. ASSUME NEW k \in SessionMsgs, PushMsgs(<<SessionMsg(k, id)>>),
             k = "REMOVE_SESSION" => Removed(sess'[id]),
             \A x \in SessionIds : x # id => sess'[x] = sess[x]
      PROVE  RemovalInv'
  <2> DEFINE m == SessionMsg(k, id)
  <2>1. m = [msg |-> k, id |-> id, inst |-> inst'[id]]
    BY <1>1 DEF SessionMsg
  <2>2. PushMsgs(<<m>>)
    BY <1>m
  <2> HIDE DEF m
  <2>3. QED
    BY <1>1, <1>2, <1>d, <1>m, <2>1, <2>2, RemovalOne
<1>3. ASSUME NEW status \in {0, UV_ETIMEDOUT, UV_ECONNREFUSED}, NEW readStarted \in BOOLEAN,
             OnSocketConnect(id, status, readStarted)
      PROVE  RemovalInv'
  <2> DEFINE answer == ConnectStatus(status, readStarted)
  <2>1. ConnectMsg(answer) \in SessionMsgs /\ ConnectMsg(answer) # "REMOVE_SESSION"
    BY DEF ConnectStatus, ConnectMsg, SessionMsgs
  <2>2. \A x \in SessionIds : x # id => sess'[x] = sess[x]
    BY <1>3, <1>c DEF OnSocketConnect
  <2>3. UNCHANGED msgQue \/ PushMsgs(<<SessionMsg(ConnectMsg(answer), id)>>)
    BY <1>3 DEF OnSocketConnect
  <2> HIDE DEF answer
  <2>4. QED
    BY <1>u, <1>m, <2>1, <2>2, <2>3
<1>4. CASE OnRead(id)
  BY <1>4, <1>u, <1>m DEF OnRead, SessionMsgs
<1>5. CASE OnReadEnd(id)
  BY <1>5, <1>u, <1>c DEF OnReadEnd
<1>6. CASE OnWriteDone(id)
  BY <1>6, <1>u, <1>c DEF OnWriteDone
<1>7. CASE OnClose(id)
  <2> DEFINE t == [SocketClosed(sess[id]) EXCEPT !.connectState = "DISCONNECT", !.noDelay = FALSE]
  <2>1. t.removeTag = sess[id].removeTag /\ t.connectState = "DISCONNECT"
    BY <1>s DEF SocketClosed, Session
  <2>2. ChangeSession(id, t) /\ PushMsgs(CloseMsgs(id))
    BY <1>7 DEF OnClose
  <2> HIDE DEF t
  <2>3. /\ sess'[id].removeTag = sess[id].removeTag /\ sess'[id].connectState = "DISCONNECT"
        /\ \A x \in SessionIds : x # id => sess'[x] = sess[x]
    BY <1>c, <2>1, <2>2
  <2> DEFINE d == SessionMsg("DIS_CONNECT", id)
             r == SessionMsg("REMOVE_SESSION", id)
  <2>4. CASE ~sess[id].removeTag
    <3>1. d \in Msg
      BY SessionMsgType DEF SessionMsgs
    <3>2. CloseMsgs(id) = <<d>>
      BY <2>4, <3>1, NothingAhead DEF CloseMsgs
    <3>3. QED
      BY <1>m, <2>2, <2>3, <3>2 DEF SessionMsgs
  <2>5. CASE sess[id].removeTag
    <3> DEFINE ms == <<d, r>>
    <3>1. d \in Msg /\ r \in Msg
      BY SessionMsgType DEF SessionMsgs
    <3>2. ms \in Seq(Msg) /\ DOMAIN ms = {1, 2} /\ ms[1] = d /\ ms[2] = r
      BY <3>1
    <3>3. CloseMsgs(id) = ms
      BY <2>5, <3>1, TwoMsgs DEF CloseMsgs
    <3>4. ASSUME NEW x \in SessionIds
          PROVE  /\ d \in MsgsOf(x) <=> x = id
                 /\ r \in MsgsOf(x) <=> x = id
                 /\ d # Removal(x)'
                 /\ r = Removal(x)' <=> x = id
      BY <1>1, <3>1 DEF MsgsOf, SessionMsg, SessionMsgs, Removal
    <3>5. d \in LiveMsgs' /\ r \in LiveMsgs'
      BY <1>1, <3>1 DEF LiveMsgs, SessionMsg
    <3> HIDE DEF d, r, ms
    <3>6. MsgsAhead' = MsgsAhead \o ms
      BY <1>1, <2>2, <3>2, <3>3, BatchPushed
    <3>7. Within(ms, LiveMsgs')
      BY <3>2, <3>5 DEF Within
    <3>8. ASSUME NEW x \in SessionIds
          PROVE  /\ Single(ms, Removal(x)') /\ Last(ms, Removal(x)', MsgsOf(x))
                 /\ Has(ms, Removal(x)') => x = id
                 /\ x # id => \A i \in DOMAIN ms : ms[i] \notin MsgsOf(x)
      BY <3>2, <3>4 DEF Single, Last, Has
    <3>9. id \in known' /\ Removed(sess'[id])
      BY <1>1, <2>3, <2>5 DEF Removed
    <3>10. ASSUME NEW x \in SessionIds, Removing(x) PROVE x # id /\ sess'[x] = sess[x]
      BY <1>2, <2>3, <3>10
    <3>11. QED
      BY <1>1, <1>d, <3>2, <3>6, <3>7, <3>8, <3>9, <3>10, RemovalPushed
  <2>6. QED
    BY <2>4, <2>5
<1>8. QED
  BY <1>3, <1>4, <1>5, <1>6, <1>7 DEF ConnectAnswered

LEMMA RemovalInit == Init => QueueShape /\ RemovalInv
<1> SUFFICES ASSUME Init PROVE QueueShape /\ RemovalInv
  OBVIOUS
<1>1. MsgsAhead = <<>> /\ OpsAhead = <<>> /\ DOMAIN <<>> = {}
  BY NothingAhead, EmptySeq DEF Init, MsgsAhead, OpsAhead
<1>2. RemovalInv
  BY <1>1 DEF RemovalInv, Within, Single, Last, Has, Removing
<1>3. QED
  BY <1>1, <1>2 DEF Init, QueueShape

LEMMA RemovalStep ==
  ASSUME TypeOK, TypeOK', SocketState, QueueShape, QueueShape', RemovalInv, [Next]_vars
  PROVE  RemovalInv'
<1>1. CASE JoinReturns
  <2>1. app' = "gone"
    BY <1>1 DEF JoinReturns
  <2>2. MsgsAhead' = <<>> /\ OpsAhead' = <<>> /\ DOMAIN <<>> = {}
    BY <2>1, EmptySeq DEF QueueShape
  <2>3. QED
    BY <2>2 DEF RemovalInv, Within, Single, Last, Has, Removing
<1>2. CASE Application /\ ~JoinReturns
  BY <1>2, RemovalApplication
<1>3. CASE LoopThread
  BY <1>3, RemovalExecute, RemovalTimer, RemovalCallbacks DEF LoopThread
<1>4. CASE UNCHANGED vars
  BY <1>4, SameOps, RemovalKept DEF vars, appVars, sharedVars, sessionVars, MsgsAhead, OpsAhead
<1>5. QED
  BY <1>1, <1>2, <1>3, <1>4 DEF Next

(* What is once at most in a pair of queues has one place, or none.        *)
LEMMA PlacesCount ==
  ASSUME NEW S, NEW p \in Seq(S), NEW q \in Seq(S), NEW x, Single(p \o q, x),
         NEW P, P = {<<"dispatch", i>> : i \in {i \in DOMAIN p : p[i] = x}} \cup
                    {<<"que", i>> : i \in {i \in DOMAIN q : q[i] = x}}
  PROVE  Cardinality(P) = IF Has(p \o q, x) THEN 1 ELSE 0
<1>1. CASE ~Has(p \o q, x)
  <2>1. ~Has(p, x) /\ ~Has(q, x)
    BY <1>1, ConcatHas
  <2>2. P = {}
    BY <2>1 DEF Has
  <2>3. QED
    BY <1>1, <2>2, FS_EmptySet
<1>2. CASE Has(p \o q, x)
  <2> DEFINE n == Len(p)
  <2>0. /\ n \in Nat /\ DOMAIN p \subseteq Nat /\ DOMAIN q \subseteq Nat
        /\ \A i \in DOMAIN p : i \in DOMAIN (p \o q) /\ (p \o q)[i] = p[i] /\ i <= n
        /\ \A i \in DOMAIN q : i + n \in DOMAIN (p \o q) /\ (p \o q)[i + n] = q[i] /\ i > 0
    <3>1. /\ n \in Nat /\ DOMAIN p \subseteq Nat /\ DOMAIN q \subseteq Nat
          /\ \A i \in DOMAIN p : i \in DOMAIN (p \o q) /\ (p \o q)[i] = p[i] /\ i <= n
      BY ConcatParts
    <3>2. \A i \in DOMAIN q : i + n \in DOMAIN (p \o q) /\ (p \o q)[i + n] = q[i]
      BY ConcatParts
    <3>3. \A i \in DOMAIN q : i > 0
      BY LenProperties
    <3>4. QED
      BY <3>1, <3>2, <3>3
  <2> HIDE DEF n
  <2>1. ASSUME NEW i \in DOMAIN p, NEW j \in DOMAIN p, p[i] = x, p[j] = x PROVE i = j
    BY <2>0, <2>1 DEF Single
  <2>2. ASSUME NEW i \in DOMAIN q, NEW j \in DOMAIN q, q[i] = x, q[j] = x PROVE i = j
    <3>1. i + n = j + n
      BY <2>0, <2>2 DEF Single
    <3>2. QED
      BY <2>0, <3>1
  <2>3. ASSUME NEW i \in DOMAIN p, NEW j \in DOMAIN q, p[i] = x, q[j] = x PROVE FALSE
    <3>1. i = j + n
      BY <2>0, <2>3 DEF Single
    <3>2. QED
      BY <2>0, <3>1
  <2>4. \E e : P = {e}
    <3>1. CASE Has(p, x)
      <4>1. PICK i \in DOMAIN p : p[i] = x
        BY <3>1 DEF Has
      <4>2. P = {<<"dispatch", i>>}
        BY <2>1, <2>3, <4>1
      <4>3. QED
        BY <4>2
    <3>2. CASE Has(q, x)
      <4>1. PICK j \in DOMAIN q : q[j] = x
        BY <3>2 DEF Has
      <4>2. P = {<<"que", j>>}
        BY <2>2, <2>3, <4>1
      <4>3. QED
        BY <4>2
    <3>3. QED
      BY <1>2, <3>1, <3>2, ConcatHas
  <2>5. QED
    BY <1>2, <2>4, FS_Singleton
<1>3. QED
  BY <1>1, <1>2

LEMMA RemovalsCount ==
  ASSUME TypeOK, RemovalInv, NEW id \in SessionIds
  PROVE  /\ Cardinality(RemovalsInMsgs(id)) = IF Has(MsgsAhead, Removal(id)) THEN 1 ELSE 0
         /\ Cardinality(RemovalsInOps(id)) = IF Has(OpsAhead, Deletion(id)) THEN 1 ELSE 0
<1> DEFINE r == Removal(id)
           d == Deletion(id)
<1>1. /\ msgDispatch \in Seq(Msg) /\ msgQue \in Seq(Msg)
      /\ opDispatch \in Seq(Op) /\ opQue \in Seq(Op)
  BY DEF TypeOK
<1>2. ASSUME NEW q \in {msgDispatch, msgQue}, NEW i \in DOMAIN q
      PROVE  q[i].msg = "REMOVE_SESSION" /\ q[i].id = id <=> q[i] = r
  <2>1. Has(q, q[i])
    BY DEF Has
  <2>2. Has(MsgsAhead, q[i])
    BY <1>1, <2>1, ConcatHas DEF MsgsAhead
  <2>3. q[i] \in LiveMsgs
    BY <2>2 DEF Has, RemovalInv, Within
  <2>4. QED
    BY <2>3 DEF LiveMsgs, Msg, Removal, SessionMsg
<1>3. ASSUME NEW q \in {opDispatch, opQue}, NEW i \in DOMAIN q
      PROVE  q[i].op = "DELETE_SESSION" /\ q[i].id = id <=> q[i] = d
  <2>1. Has(q, q[i])
    BY DEF Has
  <2>2. Has(OpsAhead, q[i])
    BY <1>1, <2>1, ConcatHas DEF OpsAhead
  <2>3. q[i] \in PlainOps
    BY <2>2 DEF Has, RemovalInv, Within
  <2>4. QED
    BY <2>3 DEF PlainOps, Op, ClientOps, Deletion, SessionOp
<1> HIDE DEF r, d
<1>4. RemovalsInMsgs(id) =
        {<<"dispatch", i>> : i \in {i \in DOMAIN msgDispatch : msgDispatch[i] = r}} \cup
        {<<"que", i>> : i \in {i \in DOMAIN msgQue : msgQue[i] = r}}
  BY <1>2 DEF RemovalsInMsgs
<1>5. RemovalsInOps(id) =
        {<<"dispatch", i>> : i \in {i \in DOMAIN opDispatch : opDispatch[i] = d}} \cup
        {<<"que", i>> : i \in {i \in DOMAIN opQue : opQue[i] = d}}
  BY <1>3 DEF RemovalsInOps
<1>6. Single(msgDispatch \o msgQue, r) /\ Single(opDispatch \o opQue, d)
  BY DEF RemovalInv, MsgsAhead, OpsAhead, r, d
<1>7. Cardinality(RemovalsInMsgs(id)) = IF Has(msgDispatch \o msgQue, r) THEN 1 ELSE 0
  BY <1>1, <1>4, <1>6, PlacesCount
<1>8. Cardinality(RemovalsInOps(id)) = IF Has(opDispatch \o opQue, d) THEN 1 ELSE 0
  BY <1>1, <1>5, <1>6, PlacesCount
<1>9. QED
  BY <1>7, <1>8 DEF MsgsAhead, OpsAhead, r, d

(* RemovalOnce: every message points to a session that lives, and is not   *)
(* the successor of the one it was queued for; the removal of a session is *)
(* in one place of the four queues at most; and until the session is freed *)
(* libuv has nothing of it left to call back.  Whatever the order of calls *)
(* and callbacks, and however long the queues.                             *)
THEOREM RemovalOnceCorrect == SafeSpec => []RemovalOnce
<1>1. TypeOK /\ SocketState /\ QueueShape /\ RemovalInv => RemovalOnce
  <2> SUFFICES ASSUME TypeOK, SocketState, QueueShape, RemovalInv PROVE RemovalOnce
    OBVIOUS
  <2>1. ASSUME NEW m \in QueuedMsgs, m.msg # "EXIT_LOOP"
        PROVE  m.id \in known /\ m.inst = inst[m.id]
    <3>1. Has(msgDispatch, m) \/ Has(msgQue, m)
      BY <2>1 DEF QueuedMsgs, Has
    <3>2. Has(MsgsAhead, m)
      BY <3>1, ConcatHas DEF MsgsAhead, TypeOK
    <3>3. m \in LiveMsgs
      BY <3>2 DEF Has, RemovalInv, Within
    <3>4. QED
      BY <2>1, <3>3 DEF LiveMsgs
  <2>2. ASSUME NEW id \in SessionIds
        PROVE  /\ Removals(id) \in {0, 1}
               /\ Removals(id) = 1 => Removing(id)
    <3>1. Has(OpsAhead, Deletion(id)) => ~Has(MsgsAhead, Removal(id))
      BY RemovalMsg DEF RemovalInv, Silent, Has, SessionMsgs
    <3>2. QED
      BY <3>1, RemovalsCount DEF Removals, Removing
  <2>3. ASSUME NEW id \in SessionIds, Removing(id)
        PROVE  /\ id \in known /\ sess[id].removeTag
               /\ sess[id].handle \in {"none", "failed"} /\ sess[id].closers = 0
    <3>1. id \in known /\ Removed(sess[id])
      BY <2>3 DEF RemovalInv
    <3>2. SocketAgrees(sess[id]) /\ sess[id].closers \in Nat
      BY <3>1 DEF SocketState, TypeOK, Session
    <3>3. QED
      BY <3>1, <3>2 DEF SocketAgrees, Removed
  <2>4. QED
    BY <2>1, <2>2, <2>3 DEF RemovalOnce
<1>2. TypeOK /\ TypeOK' /\ SocketState /\ QueueShape /\ RemovalInv /\ [Next]_vars
        => QueueShape' /\ RemovalInv'
  BY QueueShapeStep, RemovalStep
<1>3. SafeSpec => [](QueueShape /\ RemovalInv)
  BY <1>2, RemovalInit, TypeCorrect, SocketStateCorrect, PTL DEF SafeSpec
<1>4. QED
  BY <1>1, <1>3, TypeCorrect, SocketStateCorrect, PTL
-----------------------------------------------------------------------------
(* ImplementsContract.  A trace of a queue of messages says what the       *)
(* application will have heard after each of them.  The last view of it    *)
(* agrees with the states of the sessions, so that the callback that the   *)
(* next message of a session makes will be one that the contract allows.   *)

Exit       == [msg |-> "EXIT_LOOP"]
ViewStates == {"absent", "down", "up"}
Views      == [SessionIds -> ViewStates]

\* What a message of kind k makes of the view x of its session, and when the
\* contract allows it, asks saying that the application has given that up.
Becomes(x, k) == CASE k = "CONNECT"        -> "up"
                   [] k = "RECV_DATA"      -> x
                   [] k = "REMOVE_SESSION" -> "absent"
                   [] OTHER                -> "down"

Allowed(x, k, asks) ==
  /\ k \in {"CONNECT", "CONNECT_FAIL", "CONNECT_TIMOUT"} => x # "up"
  /\ k = "RECV_DATA" => x = "up"
  /\ k = "DIS_CONNECT" => x = "up" \/ asks
  /\ k = "REMOVE_SESSION" => x = "down" /\ asks

After(v, m) ==
  IF m.msg = "EXIT_LOOP" THEN v ELSE [v EXCEPT ![m.id] = Becomes(v[m.id], m.msg)]

Legal(v, m, asked) ==
  IF m.msg = "EXIT_LOOP" THEN asked = SessionIds /\ \A id \in SessionIds : v[id] = "absent"
                         ELSE Allowed(v[m.id], m.msg, m.id \in asked)

Trace(w, q, asked) ==
  /\ w \in [0 .. Len(q) -> Views]
  /\ \A i \in 1 .. Len(q) : Legal(w[i - 1], q[i], asked) /\ w[i] = After(w[i - 1], q[i])

\* The view of id, when all is told, against the state of the session.
Agreement(id, x) ==
  IF id \notin known \/ Removing(id) THEN x = "absent"
  ELSE /\ sess[id].connectState = "CONNECTING" => x # "up"
       /\ sess[id].connectState = "DISCONNECT" => x = "down"
       /\ sess[id].connectState \in {"CONNECT", "DISCONNECTING"} => x = "up" \/ id \in contract.asked
       /\ sess[id].online => x = "up"

AllAgree(v) == \A id \in SessionIds : Agreement(id, v[id])

ViewInv ==
  app # "gone" =>
    \E w : /\ Trace(w, MsgsAhead, contract.asked)
           /\ w[0] = contract.view
           /\ AllAgree(w[Len(MsgsAhead)])

-----------------------------------------------------------------------------
(* Traces: of a longer request, of two queues behind each other, of none,  *)
(* one and the rest.                                                       *)

LEMMA TraceAsked ==
  ASSUME NEW q \in Seq(Msg), NEW w, NEW a \in SUBSET SessionIds, NEW b \in SUBSET SessionIds,
         a \subseteq b, Trace(w, q, a)
  PROVE  Trace(w, q, b)
<1>1. ASSUME NEW v, NEW m, Legal(v, m, a) PROVE Legal(v, m, b)
  <2>1. a = SessionIds => b = SessionIds
    OBVIOUS
  <2>2. m.id \in a => m.id \in b
    OBVIOUS
  <2>3. QED
    BY <1>1, <2>1, <2>2 DEF Legal, Allowed
<1>2. QED
  BY <1>1 DEF Trace

LEMMA TraceNone ==
  ASSUME NEW v \in Views, NEW asked
  PROVE  \E u : Trace(u, <<>>, asked) /\ u[0] = v /\ Len(<<>>) = 0
<1> DEFINE u == [i \in 0 .. 0 |-> v]
<1>1. Len(<<>>) = 0
  BY EmptySeq
<1>2. u \in [0 .. 0 -> Views] /\ u[0] = v
  OBVIOUS
<1>3. Trace(u, <<>>, asked)
  BY <1>1, <1>2 DEF Trace
<1>4. QED
  BY <1>1, <1>2, <1>3

LEMMA AfterType ==
  ASSUME NEW v \in Views, NEW m \in Msg
  PROVE  After(v, m) \in Views
<1>1. CASE m.msg = "EXIT_LOOP"
  BY <1>1 DEF After
<1>2. CASE m.msg # "EXIT_LOOP"
  <2>1. m.id \in SessionIds /\ v[m.id] \in ViewStates
    BY <1>2 DEF Msg, Views
  <2>2. Becomes(v[m.id], m.msg) \in ViewStates
    BY <2>1 DEF Becomes, ViewStates
  <2>3. QED
    BY <1>2, <2>1, <2>2 DEF After, Views
<1>3. QED
  BY <1>1, <1>2

LEMMA TraceOne ==
  ASSUME NEW v \in Views, NEW m \in Msg, NEW asked, Legal(v, m, asked)
  PROVE  \E u : Trace(u, <<m>>, asked) /\ u[0] = v /\ u[Len(<<m>>)] = After(v, m)
<1> DEFINE u == [i \in 0 .. 1 |-> IF i = 0 THEN v ELSE After(v, m)]
           q == <<m>>
<1>1. Len(q) = 1 /\ q[1] = m
  OBVIOUS
<1>2. u \in [0 .. 1 -> Views] /\ u[0] = v /\ u[1] = After(v, m)
  BY AfterType
<1> HIDE DEF u, q
<1>3. Trace(u, q, asked)
  BY <1>1, <1>2 DEF Trace
<1>4. QED
  BY <1>1, <1>2, <1>3 DEF q

LEMMA TraceConcat ==
  ASSUME NEW p \in Seq(Msg), NEW q \in Seq(Msg), NEW asked, NEW w, NEW u,
         Trace(w, p, asked), Trace(u, q, asked), u[0] = w[Len(p)]
  PROVE  \E z : /\ Trace(z, p \o q, asked)
                /\ z[0] = w[0] /\ z[Len(p \o q)] = u[Len(q)]
<1> DEFINE n == Len(p)
           k == Len(q)
           c == p \o q
           z == [i \in 0 .. n + k |-> IF i <= n THEN w[i] ELSE u[i - n]]
<1>1. /\ n \in Nat /\ k \in Nat /\ c \in Seq(Msg) /\ Len(c) = n + k
      /\ \A i \in 1 .. n : c[i] = p[i]
      /\ \A i \in n + 1 .. n + k : c[i] = q[i - n]
  BY AtConcat, ConcatProperties
<1>2. /\ w \in [0 .. n -> Views] /\ u \in [0 .. k -> Views] /\ u[0] = w[n]
      /\ \A i \in 1 .. n : Legal(w[i - 1], p[i], asked) /\ w[i] = After(w[i - 1], p[i])
      /\ \A i \in 1 .. k : Legal(u[i - 1], q[i], asked) /\ u[i] = After(u[i - 1], q[i])
  BY DEF Trace
<1> HIDE DEF n, k, c
<1>3. /\ \A i \in 0 .. n : z[i] = w[i]
      /\ \A i \in n .. n + k : z[i] = u[i - n]
  <2>1. ASSUME NEW i \in 0 .. n PROVE z[i] = w[i]
    <3>1. i \in 0 .. n + k /\ i <= n
      BY <1>1
    <3>2. QED
      BY <3>1
  <2>2. ASSUME NEW i \in n .. n + k PROVE z[i] = u[i - n]
    <3>1. i \in 0 .. n + k
      BY <1>1
    <3>2. CASE i = n
      <4>1. i - n = 0 /\ i <= n
        BY <1>1, <3>2
      <4>2. QED
        BY <1>2, <3>1, <3>2, <4>1
    <3>3. CASE i # n
      <4>1. ~(i <= n)
        BY <1>1, <3>3
      <4>2. QED
        BY <3>1, <4>1
    <3>4. QED
      BY <3>2, <3>3
  <2>3. QED
    BY <2>1, <2>2
<1>4. z \in [0 .. n + k -> Views]
  <2>1. ASSUME NEW i \in 0 .. n + k PROVE z[i] \in Views
    <3>1. CASE i <= n
      BY <1>1, <1>2, <1>3, <3>1
    <3>2. CASE i > n
      <4>1. i - n \in 0 .. k /\ i \in n .. n + k
        BY <1>1, <3>2
      <4>2. QED
        BY <1>2, <1>3, <4>1
    <3>3. QED
      BY <1>1, <3>1, <3>2
  <2>2. QED
    BY <2>1
<1>5. z[0] = w[0] /\ z[n + k] = u[k]
  <2>1. 0 \in 0 .. n /\ n + k \in n .. n + k /\ (n + k) - n = k
    BY <1>1
  <2>2. QED
    BY <1>3, <2>1
<1> HIDE DEF z
<1>6. ASSUME NEW i \in 1 .. n + k
      PROVE  Legal(z[i - 1], c[i], asked) /\ z[i] = After(z[i - 1], c[i])
  <2>1. CASE i <= n
    <3>1. i \in 1 .. n /\ i \in 0 .. n /\ i - 1 \in 0 .. n
      BY <1>1, <2>1
    <3>2. QED
      BY <1>1, <1>2, <1>3, <3>1
  <2>2. CASE i > n
    <3>1. /\ i \in n + 1 .. n + k /\ i \in n .. n + k /\ i - 1 \in n .. n + k
          /\ i - n \in 1 .. k /\ (i - 1) - n = (i - n) - 1
      BY <1>1, <2>2
    <3>2. c[i] = q[i - n] /\ z[i] = u[i - n] /\ z[i - 1] = u[(i - n) - 1]
      BY <1>1, <1>3, <3>1
    <3>3. QED
      BY <1>2, <3>1, <3>2
  <2>3. QED
    BY <1>1, <2>1, <2>2
<1>7. Trace(z, c, asked)
  BY <1>1, <1>4, <1>6 DEF Trace
<1>8. QED
  BY <1>1, <1>5, <1>7 DEF n, k, c

LEMMA TraceTail ==
  ASSUME NEW q \in Seq(Msg), q # <<>>, NEW asked, NEW w, Trace(w, q, asked)
  PROVE  /\ Legal(w[0], Head(q), asked)
         /\ \E z : /\ Trace(z, Tail(q), asked)
                   /\ z[0] = After(w[0], Head(q)) /\ z[Len(Tail(q))] = w[Len(q)]
<1> DEFINE n == Len(q)
           t == Tail(q)
           z == [i \in 0 .. n - 1 |-> w[i + 1]]
<1>1. /\ n \in Nat \ {0} /\ t \in Seq(Msg) /\ Len(t) = n - 1
      /\ Head(q) = q[1] /\ \A i \in 1 .. n - 1 : t[i] = q[i + 1]
  BY AtTail, HeadTailProperties, LenProperties
<1>2. /\ w \in [0 .. n -> Views]
      /\ \A i \in 1 .. n : Legal(w[i - 1], q[i], asked) /\ w[i] = After(w[i - 1], q[i])
  BY DEF Trace
<1> HIDE DEF n, t
<1>3. Legal(w[0], q[1], asked) /\ w[1] = After(w[0], q[1])
  <2>1. 1 \in 1 .. n /\ 1 - 1 = 0
    BY <1>1
  <2>2. QED
    BY <1>2, <2>1
<1>4. z \in [0 .. n - 1 -> Views] /\ \A i \in 0 .. n - 1 : z[i] = w[i + 1]
  <2>1. \A i \in 0 .. n - 1 : i + 1 \in 0 .. n
    BY <1>1
  <2>2. QED
    BY <1>2, <2>1
<1>5. z[0] = w[1] /\ z[n - 1] = w[n]
  <2>1. 0 \in 0 .. n - 1 /\ n - 1 \in 0 .. n - 1 /\ (n - 1) + 1 = n /\ 0 + 1 = 1
    BY <1>1
  <2>2. QED
    BY <1>4, <2>1
<1> HIDE DEF z
<1>6. ASSUME NEW i \in 1 .. n - 1
      PROVE  Legal(z[i - 1], t[i], asked) /\ z[i] = After(z[i - 1], t[i])
  <2>1. /\ i \in 0 .. n - 1 /\ i - 1 \in 0 .. n - 1 /\ (i - 1) + 1 = i
        /\ i + 1 \in 1 .. n /\ (i + 1) - 1 = i
    BY <1>1
  <2>2. z[i - 1] = w[i] /\ z[i] = w[i + 1] /\ t[i] = q[i + 1]
    BY <1>1, <1>4, <2>1
  <2>3. QED
    BY <1>2, <2>1, <2>2
<1>7. Trace(z, t, asked)
  BY <1>1, <1>4, <1>6 DEF Trace
<1>8. QED
  BY <1>1, <1>3, <1>5, <1>7 DEF n, t
-----------------------------------------------------------------------------
(* A step of the loop thread or of the application that queues messages:   *)
(* they are told behind all others.                                        *)

LEMMA RemovingPushed ==
  ASSUME TypeOK, RemovalInv, SameDels, NEW ms \in Seq(Msg), MsgsAhead' = MsgsAhead \o ms,
         \A id \in known : inst'[id] = inst[id], NEW id \in SessionIds
  PROVE  Removing(id)' <=> Removing(id) \/ Has(ms, Removal(id)')
<1>1. Has(MsgsAhead', Removal(id)') <=> Has(MsgsAhead, Removal(id)') \/ Has(ms, Removal(id)')
  BY AheadType, ConcatHas
<1>2. Has(MsgsAhead, Removal(id)') <=> Has(MsgsAhead, Removal(id))
  <2>1. CASE id \in known
    BY <2>1 DEF Removal, SessionMsg
  <2>2. CASE id \notin known
    BY <2>2 DEF RemovalInv, Within, LiveMsgs, Has, Removal, SessionMsg
  <2>3. QED
    BY <2>1, <2>2
<1>3. Has(OpsAhead', Deletion(id)) <=> Has(OpsAhead, Deletion(id))
  BY DEF SameDels
<1>4. QED
  BY <1>1, <1>2, <1>3 DEF Removing, Deletion, SessionOp

LEMMA RemovingKept ==
  ASSUME TypeOK, RemovalInv, SameDels, MsgsAhead' = MsgsAhead,
         \A id \in known : inst'[id] = inst[id], NEW id \in SessionIds
  PROVE  Removing(id)' <=> Removing(id)
<1>1. <<>> \in Seq(Msg) /\ MsgsAhead' = MsgsAhead \o <<>> /\ DOMAIN <<>> = {}
  BY AheadType, NothingAhead, EmptySeq
<1>2. ~Has(<<>>, Removal(id)')
  BY <1>1 DEF Has
<1>3. QED
  BY <1>1, <1>2, RemovingPushed

LEMMA ViewPushed ==
  ASSUME TypeOK, TypeOK', ViewInv, app # "gone",
         contract.view' = contract.view, contract.asked \subseteq contract.asked',
         NEW ms \in Seq(Msg), MsgsAhead' = MsgsAhead \o ms,
         \A v \in Views : AllAgree(v) =>
           \E u : Trace(u, ms, contract.asked') /\ u[0] = v /\ AllAgree(u[Len(ms)])'
  PROVE  ViewInv'
<1> DEFINE M == MsgsAhead
           a == contract.asked'
<1>1. M \in Seq(Msg) /\ Len(M) \in Nat
  BY AheadType, LenProperties
<1>2. PICK w : /\ Trace(w, M, contract.asked) /\ w[0] = contract.view
               /\ AllAgree(w[Len(M)])
  BY DEF ViewInv
<1>3. contract.asked \in SUBSET SessionIds /\ a \in SUBSET SessionIds
  BY DEF TypeOK, Contract
<1>4. Trace(w, M, a)
  BY <1>1, <1>2, <1>3, TraceAsked
<1>5. w[Len(M)] \in Views
  BY <1>1, <1>4 DEF Trace
<1>6. PICK u : Trace(u, ms, a) /\ u[0] = w[Len(M)] /\ AllAgree(u[Len(ms)])'
  BY <1>2, <1>5
<1>7. PICK z : Trace(z, M \o ms, a) /\ z[0] = w[0] /\ z[Len(M \o ms)] = u[Len(ms)]
  BY <1>1, <1>4, <1>6, TraceConcat
<1>8. Trace(z, M', a) /\ z[0] = contract.view' /\ z[Len(M')] = u[Len(ms)]
  BY <1>2, <1>6, <1>7
<1>9. AllAgree(z[Len(M)])'
  BY <1>6, <1>8 DEF AllAgree, Agreement
<1>10. QED
  BY <1>8, <1>9 DEF ViewInv

LEMMA ViewKept ==
  ASSUME TypeOK, TypeOK', ViewInv, app # "gone",
         contract.view' = contract.view, contract.asked \subseteq contract.asked',
         MsgsAhead' = MsgsAhead,
         \A id \in SessionIds, x \in ViewStates : Agreement(id, x) => Agreement(id, x)'
  PROVE  ViewInv'
<1>1. <<>> \in Seq(Msg) /\ MsgsAhead' = MsgsAhead \o <<>>
  BY AheadType, NothingAhead, EmptySeq
<1>2. ASSUME NEW v \in Views, AllAgree(v)
      PROVE  \E u : Trace(u, <<>>, contract.asked') /\ u[0] = v /\ AllAgree(u[Len(<<>>)])'
  <2>1. AllAgree(v)'
    BY <1>2 DEF AllAgree, Views
  <2>2. PICK u : Trace(u, <<>>, contract.asked') /\ u[0] = v /\ Len(<<>>) = 0
    BY TraceNone
  <2>3. QED
    BY <2>1, <2>2
<1>3. QED
  BY <1>1, <1>2, ViewPushed

(* One message, of the session v.                                          *)
LEMMA ViewOne ==
  ASSUME TypeOK, TypeOK', ViewInv, app # "gone", UNCHANGED contract,
         NEW m \in Msg, m.msg # "EXIT_LOOP", MsgsAhead' = MsgsAhead \o <<m>>,
         \A x \in ViewStates : Agreement(m.id, x) =>
           Allowed(x, m.msg, m.id \in contract.asked) /\ Agreement(m.id, Becomes(x, m.msg))',
         \A id \in SessionIds, x \in ViewStates : id # m.id /\ Agreement(id, x) => Agreement(id, x)'
  PROVE  ViewInv'
<1>1. <<m>> \in Seq(Msg) /\ m.id \in SessionIds
  BY DEF Msg
<1>2. ASSUME NEW v \in Views, AllAgree(v)
      PROVE  \E u : Trace(u, <<m>>, contract.asked') /\ u[0] = v /\ AllAgree(u[Len(<<m>>)])'
  <2>1. v[m.id] \in ViewStates /\ Agreement(m.id, v[m.id])
    BY <1>1, <1>2 DEF AllAgree, Views
  <2>2. Legal(v, m, contract.asked)
    BY <2>1 DEF Legal
  <2>3. AllAgree(After(v, m))'
    <3>1. ASSUME NEW id \in SessionIds PROVE Agreement(id, After(v, m)[id])'
      <4>1. CASE id = m.id
        <5>1. After(v, m)[id] = Becomes(v[m.id], m.msg)
          BY <1>1, <4>1 DEF After, Views
        <5>2. QED
          BY <2>1, <4>1, <5>1
      <4>2. CASE id # m.id
        <5>1. After(v, m)[id] = v[id] /\ v[id] \in ViewStates /\ Agreement(id, v[id])
          BY <1>1, <1>2, <4>2 DEF After, Views, AllAgree
        <5>2. QED
          BY <4>2, <5>1
      <4>3. QED
        BY <4>1, <4>2
    <3>2. QED
      BY <3>1 DEF AllAgree
  <2>4. PICK u : Trace(u, <<m>>, contract.asked) /\ u[0] = v /\ u[Len(<<m>>)] = After(v, m)
    BY <2>2, TraceOne
  <2>5. QED
    BY <2>3, <2>4
<1>3. QED
  BY <1>1, <1>2, ViewPushed

(* A session that stays in the map as it is, or goes offline in the same   *)
(* state, agrees with what it agreed with.                                 *)
LEMMA AgreementFrame ==
  ASSUME NEW id, NEW x, Agreement(id, x),
         id \in known' <=> id \in known, Removing(id)' <=> Removing(id),
         sess'[id].connectState = sess[id].connectState,
         sess'[id].online => sess[id].online,
         contract.asked \subseteq contract.asked'
  PROVE  Agreement(id, x)'
BY DEF Agreement
-----------------------------------------------------------------------------
(* What is removed was given up by the application: it has asked for it,   *)
(* or it has closed the client, after which no session is made.            *)

ClientClose == [op |-> "CLIENT_CLOSE"]
ConnectOps  == {o \in Op : o.op = "CONNECT"}
AskedOps    == {o \in Op : /\ o.op = "CLIENT_CLOSE" => isStop
                           /\ o.op = "REMOVE_SESSION" => o.id \in contract.asked}

AskedInv ==
  /\ isStop => contract.asked = SessionIds
  /\ Within(OpsAhead, AskedOps) /\ Last(OpsAhead, ClientClose, ConnectOps)
  /\ stage # "START" => isStop /\ Within(OpsAhead, Op \ ConnectOps)
  /\ stage \in {"WAIT_EXIT", "STOP"} => known = {}
  /\ loop # "running" => stage \in {"WAIT_EXIT", "STOP"}
  /\ \A id \in known : sess[id].removeTag => id \in contract.asked

(* What a step does to the operations that are ahead.                      *)
OpsMove ==
  \/ OpsAhead' = OpsAhead
  \/ /\ OpsAhead # <<>> /\ OpsAhead' = Tail(OpsAhead)
     /\ Head(OpsAhead) = Head(opDispatch) /\ ExecuteOperation
  \/ \E o \in Op : /\ OpsAhead' = Append(OpsAhead, o)
                   /\ o.op = "CONNECT" => ~isStop
                   /\ o.op = "CLIENT_CLOSE" => isStop'
                   /\ o.op = "REMOVE_SESSION" => o.id \in contract.asked'
  \/ \E ops \in Seq(Op) : /\ OpsAhead' = OpsAhead \o ops
                          /\ \A i \in DOMAIN ops : ops[i].op = "DISCONNECT"

LEMMA AskedOpsKept ==
  ASSUME TypeOK, AskedInv, OpsMove, isStop => isStop', contract.asked \subseteq contract.asked'
  PROVE  /\ Within(OpsAhead', AskedOps') /\ Last(OpsAhead', ClientClose, ConnectOps)
         /\ stage # "START" => Within(OpsAhead', Op \ ConnectOps)
<1> DEFINE q  == OpsAhead
           A  == AskedOps'
           N  == Op \ ConnectOps
           cc == ClientClose
           C  == ConnectOps
<1>1. q \in Seq(Op)
  BY AheadType
<1>2. Within(q, AskedOps) /\ AskedOps \subseteq A
  BY DEF AskedInv, AskedOps
<1>3. Within(q, A)
  BY <1>2 DEF Within
<1>4. Last(q, cc, C) /\ (stage # "START" => Within(q, N))
  BY DEF AskedInv
<1>5. Has(q, cc) => isStop
  BY <1>2 DEF Has, Within, AskedOps, ClientClose
<1>6. stage # "START" => isStop
  BY DEF AskedInv
<1>7. CASE q' = q
  BY <1>3, <1>4, <1>7
<1>8. CASE q # <<>> /\ q' = Tail(q)
  BY <1>1, <1>3, <1>4, <1>8, WithinTail, LastTail
<1>9. ASSUME NEW o \in Op, q' = Append(q, o), o.op = "CONNECT" => ~isStop,
             o.op = "CLIENT_CLOSE" => isStop', o.op = "REMOVE_SESSION" => o.id \in contract.asked'
      PROVE  Within(q', A) /\ Last(q', cc, C) /\ (stage # "START" => Within(q', N))
  <2>1. o \in A /\ (o \in C => ~isStop)
    BY <1>9 DEF AskedOps, ConnectOps
  <2>2. Last(q', cc, C)
    BY <1>1, <1>4, <1>5, <1>9, <2>1, LastAppend
  <2>3. stage # "START" => o \in N
    BY <1>6, <2>1
  <2>4. QED
    BY <1>1, <1>3, <1>4, <1>9, <2>1, <2>2, <2>3, WithinAppend
<1>10. ASSUME NEW ops \in Seq(Op), q' = q \o ops, \A i \in DOMAIN ops : ops[i].op = "DISCONNECT"
       PROVE  Within(q', A) /\ Last(q', cc, C) /\ (stage # "START" => Within(q', N))
  <2>0. \A i \in DOMAIN ops : ops[i] \in Op
    BY LenProperties
  <2>1. \A i \in DOMAIN ops : ops[i] \in A /\ ops[i] \in N /\ ops[i] \notin C /\ ops[i] # cc
    BY <1>10, <2>0 DEF AskedOps, ConnectOps, ClientClose
  <2>2. Within(ops, A) /\ Within(ops, N) /\ Last(ops, cc, C)
    BY <2>1 DEF Within, Last
  <2>3. Last(q', cc, C)
    BY <1>1, <1>4, <1>10, <2>1, <2>2, ConcatLast
  <2>4. QED
    BY <1>1, <1>3, <1>4, <1>10, <2>2, <2>3, ConcatWithin
<1>11. QED
  BY <1>7, <1>8, <1>9, <1>10 DEF OpsMove

LEMMA OpsMoves ==
  ASSUME TypeOK, QueueShape, [Next]_vars, ~JoinReturns
  PROVE  /\ OpsMove
         /\ isStop => isStop'
         /\ contract.asked \subseteq contract.asked'
         /\ UNCHANGED isStop \/ contract.asked' = SessionIds
<1> DEFINE Keeps == UNCHANGED isStop /\ contract.asked' = contract.asked
<1>u. UNCHANGED <<opQue, opDispatch>> => OpsMove
  BY DEF OpsMove, OpsAhead
<1>p. ASSUME NEW o \in Op, PushOp(o), opDispatch' = opDispatch, o.op = "CONNECT" => ~isStop,
             o.op = "CLIENT_CLOSE" => isStop', o.op = "REMOVE_SESSION" => o.id \in contract.asked'
      PROVE  OpsMove
  BY <1>p, OpPushed DEF OpsMove
<1>t. ASSUME NEW o, Executes(o), ExecuteOperation PROVE OpsMove
  <2>1. opDispatch # <<>> /\ opDispatch' = Tail(opDispatch) /\ opQue' = opQue
    BY <1>t DEF Executes
  <2>2. OpsAhead # <<>> /\ OpsAhead' = Tail(OpsAhead) /\ Head(OpsAhead) = Head(opDispatch)
    BY <2>1, OpTaken DEF OpsAhead
  <2>3. QED
    BY <1>t, <2>2 DEF OpsMove
<1>1. ASSUME NEW id \in SessionIds, NEW call, NEW op \in SessionOps \ {"REMOVE_SESSION"},
             Request(call, op, id)
      PROVE  OpsMove /\ Keeps
  <2>1. SessionOp(op, id) \in Op /\ SessionOp(op, id).op = op
    BY SessionOpType DEF SessionOp
  <2>2. op # "CLIENT_CLOSE" /\ op # "REMOVE_SESSION"
    BY DEF SessionOps
  <2>3. QED
    BY <1>1, <1>p, <2>1, <2>2 DEF Request
<1>2. ASSUME NEW id \in SessionIds, Connect(id) \/ Disconnect(id) \/ Send(id) \/ SendAndClose(id)
      PROVE  OpsMove /\ Keeps
  BY <1>1, <1>2 DEF Connect, Disconnect, Send, SendAndClose, SessionOps
<1>3. ASSUME NEW id \in SessionIds, RemoveSession(id)
      PROVE  OpsMove /\ UNCHANGED isStop /\ contract.asked' = contract.asked \cup {id}
  <2>1. contract.asked' = contract.asked \cup {id} /\ UNCHANGED <<isStop, opDispatch>>
    BY <1>3 DEF RemoveSession, TypeOK, Contract
  <2>2. /\ SessionOp("REMOVE_SESSION", id) \in Op
        /\ SessionOp("REMOVE_SESSION", id).op = "REMOVE_SESSION"
        /\ SessionOp("REMOVE_SESSION", id).id = id
    BY SessionOpType DEF SessionOp, SessionOps
  <2>3. QED
    BY <1>3, <1>p, <2>1, <2>2 DEF RemoveSession
<1>4. CASE SetSocketNoDelay
  <2>1. [op |-> "SET_NO_DELAY"] \in Op
    BY DEF Op, ClientOps
  <2>2. QED
    BY <1>4, <1>p, <2>1 DEF SetSocketNoDelay
<1>5. CASE CloseClient \/ Destroy
  <2>1. /\ isStop' = TRUE /\ contract.asked' = SessionIds /\ opDispatch' = opDispatch
        /\ opQue' = opQue \/ PushOp([op |-> "CLIENT_CLOSE"])
    BY <1>5 DEF CloseClient, Destroy, StopAndPush, TypeOK, Contract
  <2>2. [op |-> "CLIENT_CLOSE"] \in Op
    BY DEF Op, ClientOps
  <2>3. OpsMove
    BY <1>p, <1>u, <2>1, <2>2
  <2>4. QED
    BY <2>1, <2>3 DEF TypeOK, Contract
<1>6. CASE GetThreadMsg
  BY <1>6, <1>u DEF GetThreadMsg, appVars
<1>7. CASE DispatchMsg
  <2> DEFINE m == Head(msgDispatch)
  <2>1. m \in Msg /\ UNCHANGED <<isStop, opDispatch>> /\ contract' = Told(m)
    BY <1>7, HeadTailProperties DEF DispatchMsg, TypeOK
  <2>2. contract.asked' = contract.asked
    BY <2>1 DEF Told, TypeOK, Contract
  <2>3. opQue' = opQue \/ \E v \in SessionIds : PushOp(SessionOp("DELETE_SESSION", v))
    BY <1>7, <2>1 DEF DispatchMsg, Msg
  <2>4. \A v \in SessionIds : /\ SessionOp("DELETE_SESSION", v) \in Op
                              /\ SessionOp("DELETE_SESSION", v).op = "DELETE_SESSION"
    BY SessionOpType DEF SessionOp, SessionOps
  <2>5. QED
    BY <1>p, <1>u, <2>1, <2>2, <2>3, <2>4
<1>8. CASE DrainOperations
  <2>1. OpsAhead' = OpsAhead
    BY <1>8, NothingAhead DEF DrainOperations, OpsAhead, TypeOK
  <2>2. QED
    BY <1>8, <2>1 DEF DrainOperations, OpsMove, appVars
<1>9. CASE ExecuteOperation
  <2>1. \E o : Executes(o)
    BY <1>9 DEF ExecuteOperation, ExecSend, ExecSendAndClose, ExecDisconnect, ExecConnect,
       ExecSetNoDelay, ExecClientClose, ExecRemoveSession, ExecDeleteSession
  <2>2. QED
    BY <1>9, <1>t, <2>1 DEF Executes, appVars
<1>10. CASE OnTimerUpdateRun \/ RunEnds
  BY <1>10, <1>u DEF OnTimerUpdateRun, RunEnds, appVars
<1>11. ASSUME NEW id \in SessionIds, ConnectAnswered(id) \/ OnRead(id) \/ OnReadEnd(id)
       PROVE  OpsMove /\ Keeps
  BY <1>11, <1>u DEF ConnectAnswered, OnSocketConnect, OnRead, OnReadEnd, SocketCallback, appVars
<1>12. ASSUME NEW id \in SessionIds, OnWriteDone(id) \/ OnClose(id)
       PROVE  OpsMove /\ Keeps
  <2>1. PICK n \in Nat : opQue' = opQue \o CloserOps(id, n)
    BY <1>12 DEF OnWriteDone, OnClose, TypeOK, Session
  <2>2. opDispatch' = opDispatch /\ Keeps
    BY <1>12 DEF OnWriteDone, OnClose, SocketCallback, appVars
  <2> DEFINE ops == CloserOps(id, n)
  <2>3. ops \in Seq(Op)
    BY CloserOpsType
  <2>4. \A i \in DOMAIN ops : ops[i].op = "DISCONNECT"
    BY DEF CloserOps
  <2> HIDE DEF ops
  <2>5. OpsAhead' = OpsAhead \o ops
    <3>1. opDispatch \in Seq(Op) /\ opQue \in Seq(Op)
      BY DEF TypeOK
    <3>2. opDispatch \o (opQue \o ops) = (opDispatch \o opQue) \o ops
      BY <2>3, <3>1, BatchBehind
    <3>3. QED
      BY <2>1, <2>2, <3>2 DEF OpsAhead, ops
  <2>6. QED
    BY <2>2, <2>3, <2>4, <2>5 DEF OpsMove
<1>13. CASE UNCHANGED vars
  BY <1>13, <1>u DEF vars, appVars, sharedVars
<1>14. QED
  BY <1>2, <1>3, <1>4, <1>5, <1>6, <1>7, <1>8, <1>9, <1>10, <1>11, <1>12, <1>13
  DEF Next, Application, LoopThread

LEMMA AskedStep ==
  ASSUME TypeOK, TypeOK', QueueShape, QueueShape', AskedInv, [Next]_vars
  PROVE  AskedInv'
<1>s. sess \in [SessionIds -> Session] /\ \A id \in SessionIds : sess[id] \in Session
  BY DEF TypeOK
\* Neither the sessions nor the stages are disturbed.
<1>k. ASSUME ~JoinReturns, UNCHANGED <<stage, loop>>,
             stage # "START" => known' \subseteq known,
             \A id \in known' : sess'[id].removeTag =>
               \/ id \in known /\ sess[id].removeTag
               \/ id \in contract.asked
      PROVE  AskedInv'
  <2>1. /\ OpsMove /\ (isStop => isStop') /\ contract.asked \subseteq contract.asked'
        /\ UNCHANGED isStop \/ contract.asked' = SessionIds
    BY <1>k, OpsMoves
  <2>2. /\ Within(OpsAhead', AskedOps') /\ Last(OpsAhead', ClientClose, ConnectOps)
        /\ stage # "START" => Within(OpsAhead', Op \ ConnectOps)
    BY <2>1, AskedOpsKept
  <2>3. isStop' => contract.asked' = SessionIds
    BY <2>1 DEF AskedInv, TypeOK, Contract
  <2>4. \A id \in known' : sess'[id].removeTag => id \in contract.asked'
    BY <1>k, <2>1 DEF AskedInv
  <2>5. /\ stage' # "START" => isStop'
        /\ stage' \in {"WAIT_EXIT", "STOP"} => known' = {}
        /\ loop' # "running" => stage' \in {"WAIT_EXIT", "STOP"}
    BY <1>k, <2>1 DEF AskedInv
  <2>6. QED
    BY <1>k, <2>2, <2>3, <2>4, <2>5 DEF AskedInv, ClientClose, ConnectOps
<1>f. ASSUME NEW s \in Session
      PROVE  /\ ExecuteDisconnect(s).removeTag = s.removeTag
             /\ Connecting(s).removeTag = s.removeTag
             /\ ShutdownSocket(s).removeTag = s.removeTag
             /\ \A t \in AfterSend(s) \cup AfterSendAndClose(s) : t.removeTag = s.removeTag
  BY DEF ExecuteDisconnect, ShutdownSocket, AfterSend, AfterSendAndClose, Connecting, Session
<1>c. ASSUME NEW v \in SessionIds, NEW s, ChangeSession(v, s)
      PROVE  sess'[v] = s /\ \A id \in SessionIds : id # v => sess'[id] = sess[id]
  BY <1>s, <1>c DEF ChangeSession
\* One session is changed, and its tag is not.
<1>v. ASSUME ~JoinReturns, UNCHANGED <<stage, loop, known>>, NEW v \in SessionIds,
             \A id \in SessionIds : id # v => sess'[id] = sess[id],
             sess'[v].removeTag = sess[v].removeTag
      PROVE  AskedInv'
  BY <1>k, <1>v DEF TypeOK
<1>1. CASE JoinReturns
  <2>1. /\ app' = "gone" /\ known' = {} /\ UNCHANGED <<isStop, contract, stage, loop>>
    BY <1>1 DEF JoinReturns
  <2>2. OpsAhead' = <<>> /\ DOMAIN <<>> = {}
    BY <2>1, EmptySeq DEF QueueShape
  <2>3. QED
    BY <2>1, <2>2 DEF AskedInv, Within, Last
<1>2. CASE Application /\ ~JoinReturns
  <2>1. UNCHANGED <<stage, loop, known, sess>>
    BY <1>2 DEF Application, Connect, Disconnect, Send, SendAndClose, Request, RemoveSession,
       SetSocketNoDelay, CloseClient, Destroy, StopAndPush, GetThreadMsg, DispatchMsg, sessionVars
  <2>2. QED
    BY <1>2, <1>k, <2>1
<1>l. ASSUME loop # "ended" \/ app # "joining" PROVE ~JoinReturns
  BY <1>l DEF JoinReturns
<1>e. ASSUME NEW o, Executes(o) PROVE ~JoinReturns /\ UNCHANGED <<loop, contract, isStop>>
  <2>1. opDispatch # <<>> /\ loop = "running" /\ loop' = loop
    BY <1>e DEF Executes, QueueShape
  <2>2. QED
    BY <1>e, <1>l, <2>1 DEF Executes, appVars
<1>g. ASSUME NEW o \in SessionOps, Executes(o)
      PROVE  Target \in SessionIds /\ ~JoinReturns /\ loop' = loop
  BY <1>g, <1>e, TargetType
<1>3. CASE ExecSend
  <2>1. Target \in SessionIds /\ ~JoinReturns /\ UNCHANGED <<stage, loop, known>>
    BY <1>3, <1>g DEF SessionOps, ExecSend
  <2>2. /\ \A id \in SessionIds : id # Target => sess'[id] = sess[id]
        /\ sess'[Target].removeTag = sess[Target].removeTag
    BY <1>3, <1>s, <1>c, <1>f, <2>1 DEF ExecSend
  <2>3. QED
    BY <1>v, <2>1, <2>2
<1>4. CASE ExecSendAndClose
  <2>1. Target \in SessionIds /\ ~JoinReturns /\ UNCHANGED <<stage, loop, known>>
    BY <1>4, <1>g DEF SessionOps, ExecSendAndClose
  <2>2. /\ \A id \in SessionIds : id # Target => sess'[id] = sess[id]
        /\ sess'[Target].removeTag = sess[Target].removeTag
    BY <1>4, <1>s, <1>c, <1>f, <2>1 DEF ExecSendAndClose
  <2>3. QED
    BY <1>v, <2>1, <2>2
<1>5. CASE ExecDisconnect
  <2>1. Target \in SessionIds /\ ~JoinReturns /\ UNCHANGED <<stage, loop, known>>
    BY <1>5, <1>g DEF SessionOps, ExecDisconnect
  <2> DEFINE s == sess[Target]
             t == [s EXCEPT !.connectState = "DISCONNECTING"]
  <2>2. t \in Session /\ t.removeTag = s.removeTag
    BY <1>s, <2>1 DEF Session, States
  <2>3. ExecuteDisconnect(t).removeTag = s.removeTag
    BY <1>f, <2>2
  <2>4. sess' = sess \/ ChangeSession(Target, ExecuteDisconnect(t))
    BY <1>5 DEF ExecDisconnect
  <2> HIDE DEF t
  <2>5. QED
    BY <1>c, <1>v, <2>1, <2>3, <2>4
<1>6. CASE ExecConnect
  <2>1. Target \in SessionIds /\ ~JoinReturns /\ UNCHANGED <<stage, loop>>
    BY <1>6, <1>g DEF SessionOps, ExecConnect
  <2>2. stage = "START"
    <3>1. opDispatch # <<>> /\ Head(opDispatch).op = "CONNECT"
      BY <1>6 DEF ExecConnect, Executes
    <3>2. OpsAhead # <<>> /\ Head(OpsAhead).op = "CONNECT" /\ Head(OpsAhead) \in Op
      BY <3>1, OpTaken DEF OpsAhead
    <3>3. Head(OpsAhead) \notin Op \ ConnectOps
      BY <3>2 DEF ConnectOps
    <3>4. QED
      BY <3>2, <3>3, AheadType, WithinTail DEF AskedInv
  <2>3. CASE CreateSession
    <3>1. /\ known' = known \cup {Target}
          /\ \A id \in SessionIds : id # Target => sess'[id] = sess[id]
      BY <1>c, <2>1, <2>3 DEF CreateSession
    <3>2. /\ ~Connecting(NewSession).removeTag
          /\ ~[NewSession EXCEPT !.connectState = "DISCONNECT"].removeTag
      BY DEF Connecting, NewSession
    <3>3. ~sess'[Target].removeTag
      BY <1>c, <2>1, <2>3, <3>2 DEF CreateSession
    <3>4. QED
      BY <1>k, <2>1, <2>2, <3>1, <3>3 DEF TypeOK
  <2>4. CASE Reconnect
    <3>1. /\ known' = known
          /\ \A id \in SessionIds : id # Target => sess'[id] = sess[id]
          /\ sess'[Target].removeTag = sess[Target].removeTag
      BY <1>c, <1>f, <1>s, <2>1, <2>4 DEF Reconnect
    <3>2. QED
      BY <1>v, <2>1, <3>1
  <2>5. QED
    BY <1>6, <2>3, <2>4 DEF ExecConnect
<1>7. CASE ExecSetNoDelay
  <2>1. ~JoinReturns /\ UNCHANGED <<stage, loop, known>>
    BY <1>7, <1>e DEF ExecSetNoDelay
  <2>2. \A id \in SessionIds : sess'[id].removeTag = sess[id].removeTag
    BY <1>7, <1>s DEF ExecSetNoDelay, Session
  <2>3. QED
    BY <1>k, <2>1, <2>2 DEF TypeOK
<1>8. CASE ExecClientClose
  <2>1. ~JoinReturns /\ UNCHANGED <<loop, known, sess, contract, isStop>> /\ stage' = "CLEAR_SESSION"
    BY <1>8, <1>e DEF ExecClientClose, sessionVars
  <2>2. loop = "running"
    BY <1>8 DEF ExecClientClose, Executes, QueueShape
  <2>3. /\ OpsAhead # <<>> /\ OpsAhead' = Tail(OpsAhead) /\ OpsAhead \in Seq(Op)
        /\ Head(OpsAhead) = Head(opDispatch) /\ Head(OpsAhead).op = "CLIENT_CLOSE"
    <3>1. opDispatch # <<>> /\ opDispatch' = Tail(opDispatch) /\ opQue' = opQue
          /\ Head(opDispatch).op = "CLIENT_CLOSE"
      BY <1>8 DEF ExecClientClose, Executes
    <3>2. QED
      BY <3>1, OpTaken DEF OpsAhead
  <2>4. Head(OpsAhead) = ClientClose
    BY <2>3, HeadTailProperties DEF ClientClose, Op, SessionOps, ClientOps
  <2>5. isStop
    BY <2>3, WithinTail DEF AskedInv, AskedOps
  <2>6. OpsMove
    BY <1>8, <2>3 DEF OpsMove, ExecuteOperation
  <2>7. Within(OpsAhead', AskedOps') /\ Last(OpsAhead', ClientClose, ConnectOps)
    BY <2>1, <2>6, AskedOpsKept
  <2>8. Within(OpsAhead', Op \ ConnectOps)
    <3>1. \A i \in DOMAIN Tail(OpsAhead) : Tail(OpsAhead)[i] \notin ConnectOps
      BY <2>3, <2>4, LastTail DEF AskedInv
    <3>2. \A i \in DOMAIN Tail(OpsAhead) : Tail(OpsAhead)[i] \in Op
      BY <2>3, AtTail, LenProperties
    <3>3. QED
      BY <2>3, <3>1, <3>2 DEF Within
  <2>9. QED
    BY <2>1, <2>2, <2>5, <2>7, <2>8 DEF AskedInv, ClientClose, ConnectOps
<1>9. CASE ExecRemoveSession
  <2>1. Target \in SessionIds /\ ~JoinReturns /\ UNCHANGED <<stage, loop, known>>
    BY <1>9, <1>g DEF SessionOps, ExecRemoveSession
  <2>2. Target \in contract.asked
    <3>1. opDispatch # <<>> /\ Head(opDispatch).op = "REMOVE_SESSION"
      BY <1>9 DEF ExecRemoveSession, Executes
    <3>2. OpsAhead # <<>> /\ Head(OpsAhead) = Head(opDispatch)
      BY <3>1, OpTaken DEF OpsAhead
    <3>3. Head(OpsAhead) \in AskedOps
      BY <3>2, AheadType, WithinTail DEF AskedInv
    <3>4. QED
      BY <3>1, <3>2, <3>3 DEF AskedOps, Target
  <2>3. \A id \in SessionIds : id # Target => sess'[id] = sess[id]
    BY <1>9, <1>c, <2>1 DEF ExecRemoveSession
  <2>4. QED
    BY <1>k, <2>1, <2>2, <2>3 DEF TypeOK
<1>10. CASE ExecDeleteSession
  <2>1. Target \in SessionIds /\ ~JoinReturns /\ UNCHANGED <<stage, loop>>
    BY <1>10, <1>g DEF SessionOps, ExecDeleteSession
  <2>2. /\ \A id \in SessionIds : id # Target => sess'[id] = sess[id]
        /\ known' \subseteq known /\ (Target \in known' => sess' = sess)
    BY <1>10, <1>c, <2>1 DEF ExecDeleteSession
  <2>3. QED
    BY <1>k, <2>1, <2>2 DEF TypeOK
<1>11. CASE DrainOperations
  BY <1>11, <1>k, <1>l DEF DrainOperations, sessionVars
<1>12. CASE OnTimerUpdateRun \/ RunEnds
  <2>1. ~JoinReturns /\ UNCHANGED <<known, contract, isStop, OpsAhead>>
    BY <1>12, <1>l DEF OnTimerUpdateRun, RunEnds, appVars, sessionVars, OpsAhead
  <2>2. OpsMove
    BY <2>1 DEF OpsMove
  <2>3. /\ Within(OpsAhead', AskedOps') /\ Last(OpsAhead', ClientClose, ConnectOps)
        /\ stage # "START" => Within(OpsAhead', Op \ ConnectOps)
    BY <2>1, <2>2, AskedOpsKept
  <2>4. stage # "START" /\ (stage' # stage => known = {} /\ stage' # "START")
    BY <1>12 DEF OnTimerUpdateRun, RunEnds, ClearSessions, StopLoop, AllSessionsGone, AskedInv
  <2>5. loop' # "running" => stage' \in {"WAIT_EXIT", "STOP"}
    BY <1>12 DEF OnTimerUpdateRun, RunEnds, ClearSessions, StopLoop
  <2>6. contract.asked = SessionIds
    BY <2>4 DEF AskedInv
  <2>7. stage' \in {"WAIT_EXIT", "STOP"} => known' = {}
    BY <2>1, <2>4 DEF AskedInv
  <2>8. known' \subseteq SessionIds
    BY DEF TypeOK
  <2>9. QED
    BY <2>1, <2>3, <2>4, <2>5, <2>6, <2>7, <2>8 DEF AskedInv, ClientClose, ConnectOps
<1>13. ASSUME NEW id \in SessionIds,
              \/ ConnectAnswered(id) \/ OnRead(id) \/ OnReadEnd(id)
              \/ OnWriteDone(id) \/ OnClose(id)
       PROVE  AskedInv'
  <2>1. loop # "ended" /\ UNCHANGED <<stage, loop, known>>
    BY <1>13 DEF ConnectAnswered, OnSocketConnect, OnRead, OnReadEnd, OnWriteDone, OnClose,
       SocketCallback
  <2>2. \A x \in SessionIds : x # id => sess'[x] = sess[x]
    BY <1>13, <1>c DEF ConnectAnswered, OnSocketConnect, OnRead, OnReadEnd, OnWriteDone, OnClose
  <2>3. sess'[id].removeTag = sess[id].removeTag
    <3>1. ASSUME NEW status, NEW readStarted, OnSocketConnect(id, status, readStarted)
          PROVE  sess'[id].removeTag = sess[id].removeTag
      <4> DEFINE suc == ConnectStatus(status, readStarted) = 1
                 s == [sess[id] EXCEPT !.online = suc,
                               !.connectState = IF suc THEN "CONNECT" ELSE "DISCONNECT",
                               !.handle = IF suc THEN "open" ELSE "failed"]
      <4>1. s \in Session /\ s.removeTag = sess[id].removeTag
        BY <1>s DEF Session, States, Handles
      <4>2. \/ ChangeSession(id, ExecuteDisconnect(s))
            \/ ChangeSession(id, ApplyOptions(s))
            \/ ChangeSession(id, s)
        BY <3>1 DEF OnSocketConnect
      <4>3. ExecuteDisconnect(s).removeTag = s.removeTag /\ ApplyOptions(s).removeTag = s.removeTag
        BY <1>f, <4>1 DEF ApplyOptions, Session
      <4> HIDE DEF s, suc
      <4>4. QED
        BY <1>c, <4>1, <4>2, <4>3
    <3>2. CASE OnRead(id)
      BY <3>2 DEF OnRead
    <3>3. CASE OnReadEnd(id)
      BY <3>3, <1>c, <1>f, <1>s DEF OnReadEnd
    <3>4. CASE OnWriteDone(id)
      BY <3>4, <1>c, <1>s DEF OnWriteDone, Session
    <3>5. CASE OnClose(id)
      <4> DEFINE r == [SocketClosed(sess[id]) EXCEPT !.connectState = "DISCONNECT", !.noDelay = FALSE]
      <4>1. r.removeTag = sess[id].removeTag
        BY <1>s DEF SocketClosed, Session
      <4>2. ChangeSession(id, r)
        BY <3>5 DEF OnClose
      <4> HIDE DEF r
      <4>3. QED
        BY <1>c, <4>1, <4>2
    <3>6. QED
      BY <1>13, <3>1, <3>2, <3>3, <3>4, <3>5 DEF ConnectAnswered
  <2>4. QED
    BY <1>l, <1>v, <2>1, <2>2, <2>3
<1>14. CASE UNCHANGED vars /\ ~JoinReturns
  BY <1>14, <1>k DEF vars, sessionVars
<1>15. QED
  BY <1>1, <1>2, <1>3, <1>4, <1>5, <1>6, <1>7, <1>8, <1>9, <1>10, <1>11, <1>12, <1>13, <1>14
  DEF Next, LoopThread, ExecuteOperation
-----------------------------------------------------------------------------
(* What an operation leaves for the application to hear.                   *)
LEMMA ViewExecute ==
  ASSUME TypeOK, TypeOK', SocketState, RemovalInv, AskedInv, ViewInv, app # "gone",
         ExecuteOperation
  PROVE  ViewInv'
<1>s. sess \in [SessionIds -> Session] /\ \A id \in SessionIds : sess[id] \in Session
  BY DEF TypeOK
<1>c. ASSUME NEW v \in SessionIds, NEW s, ChangeSession(v, s)
      PROVE  sess'[v] = s /\ \A id \in SessionIds : id # v => sess'[id] = sess[id]
  BY <1>s, <1>c DEF ChangeSession
<1>e. ASSUME NEW o, Executes(o)
      PROVE  /\ UNCHANGED <<contract, msgDispatch>> /\ contract.view' = contract.view
             /\ contract.asked \subseteq contract.asked'
  BY <1>e DEF Executes, appVars
<1>t. ASSUME NEW o \in SessionOps, Executes(o) PROVE Target \in SessionIds
  BY <1>t, TargetType
<1>f. ASSUME NEW s \in Session
      PROVE  ExecuteDisconnect(s).connectState = s.connectState /\ ~ExecuteDisconnect(s).online
  BY DEF ExecuteDisconnect, ShutdownSocket, Session
<1>w. ASSUME NEW s \in Session, NEW t \in AfterSend(s) \cup AfterSendAndClose(s)
      PROVE  t.connectState = s.connectState /\ (t.online => s.online)
  BY <1>f, <1>w DEF AfterSend, AfterSendAndClose, Session
<1>n. ASSUME NEW s \in Session
      PROVE  Connecting(s).connectState = "CONNECTING" /\ Connecting(s).online = s.online
  BY DEF Connecting, Session
<1>r. ASSUME NEW v \in SessionIds, Removing(v) PROVE v \in known /\ Removed(sess[v])
  BY <1>r DEF RemovalInv
<1>q. \A v \in known : sess[v].online => sess[v].connectState = "CONNECT"
  BY DEF SocketState, SocketAgrees
\* Nothing is told, and one session is changed.
<1>u. ASSUME NEW o, Executes(o), SameDels, UNCHANGED <<msgQue, known, inst>>, NEW v \in SessionIds,
             \A id \in SessionIds : id # v => sess'[id] = sess[id],
             \A x \in ViewStates : Removing(v)' = Removing(v) /\ Agreement(v, x) => Agreement(v, x)'
      PROVE  ViewInv'
  <2>1. MsgsAhead' = MsgsAhead
    BY <1>e, <1>u DEF MsgsAhead
  <2>2. \A id \in SessionIds : Removing(id)' <=> Removing(id)
    BY <1>u, <2>1, RemovingKept
  <2>3. ASSUME NEW id \in SessionIds, NEW x \in ViewStates, Agreement(id, x) PROVE Agreement(id, x)'
    <3>1. CASE id = v
      BY <1>u, <2>2, <2>3, <3>1 DEF Removing
    <3>2. CASE id # v
      BY <1>e, <1>u, <2>2, <2>3, <3>2, AgreementFrame
    <3>3. QED
      BY <3>1, <3>2
  <2>4. QED
    BY <1>e, <1>u, <2>1, <2>3, ViewKept
<1>v. ASSUME NEW o, Executes(o), SameDels, UNCHANGED <<msgQue, known, inst>>, NEW v \in SessionIds,
             \A id \in SessionIds : id # v => sess'[id] = sess[id],
             sess'[v].connectState = sess[v].connectState, sess'[v].online => sess[v].online
      PROVE  ViewInv'
  <2>1. ASSUME NEW x \in ViewStates, Removing(v)' = Removing(v), Agreement(v, x)
        PROVE  Agreement(v, x)'
    BY <1>e, <1>v, <2>1, AgreementFrame
  <2>2. QED
    BY <1>u, <1>v, <2>1
\* A message m of the session v is queued.
<1>m. ASSUME NEW o, Executes(o), SameDels, NEW v \in SessionIds, NEW k \in SessionMsgs,
             NEW m, m = [msg |-> k, id |-> v, inst |-> inst'[v]], PushMsgs(<<m>>),
             ~Removing(v), v \in known', known' = known \cup {v},
             \A id \in known : inst'[id] = inst[id],
             \A id \in SessionIds : id # v => sess'[id] = sess[id],
             \A x \in ViewStates : Agreement(v, x) =>
               /\ Allowed(x, k, v \in contract.asked)
               /\ IF k = "REMOVE_SESSION" THEN TRUE
                  ELSE /\ Becomes(x, k) = "down"
                       /\ sess'[v].connectState = "DISCONNECT" /\ ~sess'[v].online
      PROVE  ViewInv'
  <2>1. m \in Msg /\ m.msg = k /\ m.id = v /\ k # "EXIT_LOOP"
    BY <1>m DEF Msg, TypeOK, SessionMsgs
  <2> DEFINE ms == <<m>>
  <2>2. ms \in Seq(Msg) /\ DOMAIN ms = {1} /\ ms[1] = m
    BY <2>1
  <2>3. PushMsgs(ms)
    BY <1>m
  <2> HIDE DEF ms
  <2>4. MsgsAhead' = MsgsAhead \o ms
    BY <1>e, <1>m, <2>2, <2>3, BatchPushed
  <2>5. ASSUME NEW id \in SessionIds
        PROVE  Removing(id)' <=> Removing(id) \/ (id = v /\ k = "REMOVE_SESSION")
    <3>1. Has(ms, Removal(id)') <=> m = Removal(id)'
      BY <2>2 DEF Has
    <3>2. m = Removal(id)' <=> id = v /\ k = "REMOVE_SESSION"
      BY <1>m DEF Removal, SessionMsg
    <3>3. QED
      BY <1>m, <2>2, <2>4, <3>1, <3>2, RemovingPushed
  <2>6. ASSUME NEW id \in SessionIds, NEW x \in ViewStates, id # v, Agreement(id, x)
        PROVE  Agreement(id, x)'
    BY <1>e, <1>m, <2>5, <2>6, AgreementFrame
  <2>7. ASSUME NEW x \in ViewStates, Agreement(v, x)
        PROVE  Agreement(v, Becomes(x, k))'
    <3>1. CASE k = "REMOVE_SESSION"
      BY <2>5, <3>1 DEF Agreement, Becomes
    <3>2. CASE k # "REMOVE_SESSION"
      <4>1. PICK y : y = Becomes(x, k)
        OBVIOUS
      <4>2. /\ y = "down" /\ sess'[v].connectState = "DISCONNECT" /\ ~sess'[v].online
            /\ v \in known' /\ ~Removing(v)'
        BY <1>m, <2>5, <2>7, <3>2, <4>1
      <4>3. Agreement(v, y)'
        BY <4>2 DEF Agreement
      <4>4. QED
        BY <4>1, <4>3 DEF Becomes, Agreement
    <3>3. QED
      BY <3>1, <3>2
  <2>8. QED
    BY <1>e, <1>m, <2>1, <2>4, <2>6, <2>7, ViewOne DEF ms
<1>1. CASE ExecSend
  <2>1. /\ Target \in SessionIds /\ SameDels /\ Executes("SENDDATA")
        /\ UNCHANGED <<msgQue, known, inst>>
    BY <1>1, <1>t, PopKeepsDels DEF ExecSend, SessionOps
  <2>v. PICK v \in SessionIds : v = Target
    BY <2>1
  <2>2. CASE UNCHANGED sess
    BY <1>v, <2>1, <2>2
  <2>3. ASSUME NEW t \in AfterSend(sess[v]), ChangeSession(v, t) PROVE ViewInv'
    <3>1. sess'[v] = t /\ \A id \in SessionIds : id # v => sess'[id] = sess[id]
      BY <1>c, <2>3
    <3>2. t.connectState = sess[v].connectState /\ (t.online => sess[v].online)
      BY <1>s, <1>w, <2>3
    <3>3. QED
      BY <1>v, <2>1, <3>1, <3>2
  <2>4. QED
    BY <1>1, <2>v, <2>2, <2>3 DEF ExecSend
<1>2. CASE ExecSendAndClose
  <2>1. /\ Target \in SessionIds /\ SameDels /\ Executes("SEND_CLOSE")
        /\ UNCHANGED <<msgQue, known, inst>>
    BY <1>2, <1>t, PopKeepsDels DEF ExecSendAndClose, SessionOps
  <2>v. PICK v \in SessionIds : v = Target
    BY <2>1
  <2>2. CASE UNCHANGED sess
    BY <1>v, <2>1, <2>2
  <2>3. ASSUME NEW t \in AfterSendAndClose(sess[v]), ChangeSession(v, t) PROVE ViewInv'
    <3>1. sess'[v] = t /\ \A id \in SessionIds : id # v => sess'[id] = sess[id]
      BY <1>c, <2>3
    <3>2. t.connectState = sess[v].connectState /\ (t.online => sess[v].online)
      BY <1>s, <1>w, <2>3
    <3>3. QED
      BY <1>v, <2>1, <3>1, <3>2
  <2>4. QED
    BY <1>2, <2>v, <2>2, <2>3 DEF ExecSendAndClose
<1>3. CASE ExecDisconnect
  <2>1. /\ Target \in SessionIds /\ SameDels /\ Executes("DISCONNECT")
        /\ UNCHANGED <<msgQue, known, inst>>
    BY <1>3, <1>t, PopKeepsDels DEF ExecDisconnect, SessionOps
  <2>v. PICK v \in SessionIds : v = Target
    BY <2>1
  <2> DEFINE t == [sess[v] EXCEPT !.connectState = "DISCONNECTING"]
  <2>2. t \in Session /\ t.connectState = "DISCONNECTING"
    BY <1>s DEF Session, States
  <2> HIDE DEF t
  <2>3. CASE UNCHANGED sess
    BY <1>v, <2>1, <2>3
  <2>4. CASE /\ v \in known /\ sess[v].connectState = "CONNECT"
             /\ ChangeSession(v, ExecuteDisconnect(t))
    <3>c. /\ sess'[v] = ExecuteDisconnect(t)
          /\ \A id \in SessionIds : id # v => sess'[id] = sess[id]
      BY <1>c, <2>4
    <3>1. /\ sess'[v].connectState = "DISCONNECTING" /\ ~sess'[v].online
          /\ \A id \in SessionIds : id # v => sess'[id] = sess[id]
      BY <1>f, <2>2, <3>c
    <3>2. ~Removing(v)
      BY <1>r, <2>4 DEF Removed
    <3>3. ASSUME NEW x \in ViewStates, Removing(v)' = Removing(v), Agreement(v, x)
          PROVE  Agreement(v, x)'
      <4>1. x = "up" \/ v \in contract.asked'
        BY <1>e, <2>1, <2>4, <3>2, <3>3 DEF Agreement
      <4>2. QED
        BY <3>1, <3>2, <3>3, <2>1, <2>4, <4>1 DEF Agreement
    <3>4. QED
      BY <1>u, <2>1, <3>1, <3>3
  <2>5. QED
    BY <1>3, <2>v, <2>3, <2>4 DEF ExecDisconnect, t
<1>4. CASE ExecConnect
  <2>1. Target \in SessionIds /\ SameDels /\ Executes("CONNECT")
    BY <1>4, <1>t, PopKeepsDels DEF ExecConnect, SessionOps
  <2>v. PICK v \in SessionIds : v = Target
    BY <2>1
  <2>2. CASE CreateSession
    <3>1. /\ v \notin known /\ ~Removing(v) /\ known' = known \cup {v}
          /\ inst' = [inst EXCEPT ![v] = @ + 1]
      BY <1>r, <2>v, <2>2 DEF CreateSession
    <3>2. \A id \in known : inst'[id] = inst[id]
      BY <3>1 DEF TypeOK
    <3>3. \/ ChangeSession(v, Connecting(NewSession)) /\ UNCHANGED msgQue
          \/ /\ ChangeSession(v, [NewSession EXCEPT !.connectState = "DISCONNECT"])
             /\ PushMsgs(<<[msg |-> "CONNECT_FAIL", id |-> v, inst |-> inst'[v]]>>)
      BY <2>v, <2>2 DEF CreateSession
    <3>4. CASE ChangeSession(v, Connecting(NewSession)) /\ UNCHANGED msgQue
      <4>1. /\ sess'[v].connectState = "CONNECTING" /\ ~sess'[v].online
            /\ \A id \in SessionIds : id # v => sess'[id] = sess[id]
        <5>1. /\ sess'[v] = Connecting(NewSession)
              /\ \A id \in SessionIds : id # v => sess'[id] = sess[id]
          BY <1>c, <3>4
        <5>2. NewSession.online = FALSE
          BY DEF NewSession
        <5>3. QED
          BY <1>n, <5>1, <5>2, NewSessionType
      <4>2. MsgsAhead' = MsgsAhead
        BY <1>e, <2>1, <3>4 DEF MsgsAhead
      <4>3. \A id \in SessionIds : Removing(id)' <=> Removing(id)
        BY <2>1, <3>2, <4>2, RemovingKept
      <4>4. ASSUME NEW id \in SessionIds, NEW x \in ViewStates, Agreement(id, x)
            PROVE  Agreement(id, x)'
        <5>1. CASE id = v
          BY <3>1, <4>1, <4>4, <5>1 DEF Agreement
        <5>2. CASE id # v
          BY <1>e, <2>1, <3>1, <4>1, <4>3, <4>4, <5>2, AgreementFrame
        <5>3. QED
          BY <5>1, <5>2
      <4>5. QED
        BY <1>e, <2>1, <4>2, <4>4, ViewKept
    <3>5. ASSUME NEW m, m = [msg |-> "CONNECT_FAIL", id |-> v, inst |-> inst'[v]],
                 PushMsgs(<<m>>), ChangeSession(v, [NewSession EXCEPT !.connectState = "DISCONNECT"])
          PROVE  ViewInv'
      <4>1. /\ sess'[v].connectState = "DISCONNECT" /\ ~sess'[v].online
            /\ \A id \in SessionIds : id # v => sess'[id] = sess[id]
        <5>1. /\ sess'[v] = [NewSession EXCEPT !.connectState = "DISCONNECT"]
              /\ \A id \in SessionIds : id # v => sess'[id] = sess[id]
          BY <1>c, <3>5
        <5>2. QED
          BY <5>1 DEF NewSession
      <4>2. ASSUME NEW x \in ViewStates, Agreement(v, x)
            PROVE  /\ Allowed(x, "CONNECT_FAIL", v \in contract.asked)
                   /\ Becomes(x, "CONNECT_FAIL") = "down"
        BY <3>1, <4>2 DEF Agreement, Allowed, Becomes
      <4>3. QED
        BY <1>m, <2>1, <3>1, <3>2, <3>5, <4>1, <4>2 DEF SessionMsgs
    <3>6. QED
      BY <3>3, <3>4, <3>5
  <2>3. CASE Reconnect
    <3>1. v \in known /\ UNCHANGED <<known, inst>>
      BY <2>v, <2>3 DEF Reconnect
    <3>2. CASE UNCHANGED <<sess, msgQue>>
      BY <1>v, <2>1, <3>1, <3>2
    <3>3. CASE ~(UNCHANGED <<sess, msgQue>>)
      <4>1. /\ ~sess[v].removeTag /\ sess[v].connectState = "DISCONNECT"
            /\ \/ ChangeSession(v, Connecting(sess[v])) /\ UNCHANGED msgQue
               \/ /\ ChangeSession(v, ExecuteDisconnect(sess[v]))
                  /\ PushMsgs(<<SessionMsg("CONNECT_FAIL", v)>>)
        BY <2>v, <2>3, <3>3 DEF Reconnect
      <4>2. ~Removing(v) /\ ~sess[v].online
        BY <1>q, <1>r, <3>1, <4>1 DEF Removed
      <4>3. \A x \in ViewStates : Agreement(v, x) => x = "down"
        BY <3>1, <4>1, <4>2 DEF Agreement
      <4>4. CASE ChangeSession(v, Connecting(sess[v])) /\ UNCHANGED msgQue
        <5>1. /\ sess'[v].connectState = "CONNECTING" /\ ~sess'[v].online
              /\ \A id \in SessionIds : id # v => sess'[id] = sess[id]
          <6>1. /\ sess'[v] = Connecting(sess[v])
                /\ \A id \in SessionIds : id # v => sess'[id] = sess[id]
            BY <1>c, <4>4
          <6>2. QED
            BY <1>n, <1>s, <4>2, <6>1
        <5>2. ASSUME NEW x \in ViewStates, Removing(v)' = Removing(v), Agreement(v, x)
              PROVE  Agreement(v, x)'
          BY <3>1, <4>2, <4>3, <5>1, <5>2 DEF Agreement
        <5>3. QED
          BY <1>u, <2>1, <3>1, <4>4, <5>1, <5>2
      <4>5. ASSUME NEW m, m = SessionMsg("CONNECT_FAIL", v), PushMsgs(<<m>>),
                   ChangeSession(v, ExecuteDisconnect(sess[v]))
            PROVE  ViewInv'
        <5>1. /\ sess'[v].connectState = "DISCONNECT" /\ ~sess'[v].online
              /\ \A id \in SessionIds : id # v => sess'[id] = sess[id]
          <6>1. /\ sess'[v] = ExecuteDisconnect(sess[v])
                /\ \A id \in SessionIds : id # v => sess'[id] = sess[id]
            BY <1>c, <4>5
          <6>2. QED
            BY <1>f, <1>s, <4>1, <6>1
        <5>2. ASSUME NEW x \in ViewStates, Agreement(v, x)
              PROVE  /\ Allowed(x, "CONNECT_FAIL", v \in contract.asked)
                     /\ Becomes(x, "CONNECT_FAIL") = "down"
          BY <4>3, <5>2 DEF Allowed, Becomes
        <5>3. m = [msg |-> "CONNECT_FAIL", id |-> v, inst |-> inst'[v]] /\ known' = known \cup {v}
          BY <3>1, <4>5 DEF SessionMsg
        <5>4. QED
          BY <1>m, <2>1, <3>1, <4>2, <4>5, <5>1, <5>2, <5>3 DEF SessionMsgs
      <4>6. QED
        BY <4>1, <4>4, <4>5
    <3>4. QED
      BY <3>2, <3>3
  <2>4. QED
    BY <1>4, <2>2, <2>3 DEF ExecConnect
<1>5. CASE ExecSetNoDelay \/ ExecClientClose
  <2>1. PICK o \in {"SET_NO_DELAY", "CLIENT_CLOSE"} : Executes(o)
    BY <1>5 DEF ExecSetNoDelay, ExecClientClose
  <2>2. UNCHANGED <<msgQue, known, inst>> /\ SameDels
    BY <1>5, <2>1, PopKeepsDels DEF ExecSetNoDelay, ExecClientClose, sessionVars
  <2>3. \A id \in SessionIds : /\ sess'[id].connectState = sess[id].connectState
                               /\ sess'[id].online = sess[id].online
    BY <1>5, <1>s DEF ExecSetNoDelay, ExecClientClose, sessionVars, Session
  <2>4. MsgsAhead' = MsgsAhead
    BY <1>e, <2>1, <2>2 DEF MsgsAhead
  <2>5. \A id \in SessionIds : Removing(id)' <=> Removing(id)
    BY <2>2, <2>4, RemovingKept
  <2>6. ASSUME NEW id \in SessionIds, NEW x \in ViewStates, Agreement(id, x) PROVE Agreement(id, x)'
    BY <1>e, <2>1, <2>2, <2>3, <2>5, <2>6, AgreementFrame
  <2>7. QED
    BY <1>e, <2>1, <2>4, <2>6, ViewKept
<1>6. CASE ExecRemoveSession
  <2>1. /\ Target \in SessionIds /\ SameDels /\ Executes("REMOVE_SESSION")
        /\ UNCHANGED <<known, inst>>
    BY <1>6, <1>t, PopKeepsDels DEF ExecRemoveSession, SessionOps
  <2>v. PICK v \in SessionIds : v = Target
    BY <2>1
  <2>a. v \in contract.asked
    <3>1. opDispatch # <<>> /\ Head(opDispatch).op = "REMOVE_SESSION"
      BY <2>1 DEF Executes
    <3>2. OpsAhead # <<>> /\ Head(OpsAhead) = Head(opDispatch)
      BY <3>1, OpTaken DEF OpsAhead
    <3>3. Head(OpsAhead) \in AskedOps
      BY <3>2, AheadType, WithinTail DEF AskedInv
    <3>4. QED
      BY <2>v, <3>1, <3>2, <3>3 DEF AskedOps, Target
  <2> DEFINE t == [sess[v] EXCEPT !.removeTag = TRUE]
  <2>t. t \in Session /\ t.connectState = sess[v].connectState /\ t.online = sess[v].online
    BY <1>s DEF Session
  <2> HIDE DEF t
  <2>2. CASE UNCHANGED <<sess, msgQue>>
    BY <1>v, <2>1, <2>2
  <2>3. CASE ChangeSession(v, ExecuteDisconnect(t)) /\ UNCHANGED msgQue
    <3>1. /\ sess'[v].connectState = sess[v].connectState /\ ~sess'[v].online
          /\ \A id \in SessionIds : id # v => sess'[id] = sess[id]
      <4>1. /\ sess'[v] = ExecuteDisconnect(t)
            /\ \A id \in SessionIds : id # v => sess'[id] = sess[id]
        BY <1>c, <2>3
      <4>2. QED
        BY <1>f, <2>t, <4>1
    <3>2. QED
      BY <1>v, <2>1, <2>3, <3>1
  <2>4. CASE ChangeSession(v, t) /\ UNCHANGED msgQue
    <3>1. /\ sess'[v].connectState = sess[v].connectState /\ sess'[v].online = sess[v].online
          /\ \A id \in SessionIds : id # v => sess'[id] = sess[id]
      <4>1. sess'[v] = t /\ \A id \in SessionIds : id # v => sess'[id] = sess[id]
        BY <1>c, <2>4
      <4>2. QED
        BY <2>t, <4>1
    <3>2. QED
      BY <1>v, <2>1, <2>4, <3>1
  <2>5. ASSUME v \in known, sess[v].connectState = "DISCONNECT", ~sess[v].removeTag,
               NEW m, m = SessionMsg("REMOVE_SESSION", v), PushMsgs(<<m>>), ChangeSession(v, t)
        PROVE  ViewInv'
    <3>1. ~Removing(v)
      BY <1>r, <2>5 DEF Removed
    <3>2. \A id \in SessionIds : id # v => sess'[id] = sess[id]
      BY <1>c, <2>5
    <3>3. ASSUME NEW x \in ViewStates, Agreement(v, x)
          PROVE  Allowed(x, "REMOVE_SESSION", v \in contract.asked)
      BY <2>a, <2>5, <3>1, <3>3 DEF Agreement, Allowed
    <3>4. m = [msg |-> "REMOVE_SESSION", id |-> v, inst |-> inst'[v]] /\ known' = known \cup {v}
      BY <2>1, <2>5 DEF SessionMsg
    <3>5. QED
      BY <1>m, <2>1, <2>5, <3>1, <3>2, <3>3, <3>4 DEF SessionMsgs
  <2>6. QED
    BY <1>6, <2>v, <2>2, <2>3, <2>4, <2>5 DEF ExecRemoveSession, t
<1>7. CASE ExecDeleteSession
  <2>1. /\ Target \in SessionIds /\ Executes("DELETE_SESSION")
        /\ UNCHANGED <<msgQue, inst>>
    BY <1>7, <1>t DEF ExecDeleteSession, SessionOps
  <2>v. PICK v \in SessionIds : v = Target
    BY <2>1
  <2>2. MsgsAhead' = MsgsAhead /\ \A id \in SessionIds : Removal(id)' = Removal(id)
    BY <1>e, <2>1 DEF MsgsAhead, Removal, SessionMsg
  <2>3. /\ opDispatch # <<>> /\ opDispatch' = Tail(opDispatch) /\ opQue' = opQue
        /\ Head(opDispatch).op = "DELETE_SESSION" /\ Head(opDispatch).id = v
    BY <2>1, <2>v DEF Executes, Target
  <2>4. /\ OpsAhead \in Seq(Op) /\ OpsAhead # <<>>
        /\ Head(OpsAhead) = Head(opDispatch) /\ OpsAhead' = Tail(OpsAhead)
    BY <2>3, OpTaken DEF OpsAhead
  <2>5. Head(OpsAhead) = Deletion(v)
    <3>1. Head(OpsAhead) \in PlainOps
      BY <2>4, WithinTail DEF RemovalInv
    <3>2. QED
      BY <2>3, <2>4, <3>1 DEF PlainOps, Op, ClientOps, Deletion, SessionOp
  <2>6. ASSUME NEW id \in SessionIds, id # v PROVE Removing(id)' <=> Removing(id)
    <3>1. Deletion(id) # Deletion(v)
      BY <2>6 DEF Deletion, SessionOp
    <3>2. Has(OpsAhead, Deletion(id)) <=> Has(OpsAhead', Deletion(id))
      BY <2>4, <2>5, <3>1, HasTail
    <3>3. QED
      BY <2>2, <3>2 DEF Removing, Deletion, SessionOp
  <2>7. v \in known /\ Removing(v) /\ sess[v].removeTag
    <3>1. Has(OpsAhead, Deletion(v))
      BY <2>4, <2>5, HasTail
    <3>2. QED
      BY <1>r, <3>1 DEF Removing, Removed
  <2>8. known' = known \ {v} /\ ChangeSession(v, NewSession)
    BY <1>7, <2>v, <2>7 DEF ExecDeleteSession
  <2>9. ASSUME NEW id \in SessionIds, NEW x \in ViewStates, Agreement(id, x) PROVE Agreement(id, x)'
    <3>1. CASE id = v
      BY <2>7, <2>8, <2>9, <3>1 DEF Agreement
    <3>2. CASE id # v
      <4>1. sess'[id] = sess[id] /\ (id \in known' <=> id \in known)
        BY <1>c, <2>8, <3>2
      <4>2. QED
        BY <1>e, <2>1, <2>6, <2>9, <3>2, <4>1, AgreementFrame
    <3>3. QED
      BY <3>1, <3>2
  <2>10. QED
    BY <1>e, <2>1, <2>2, <2>9, ViewKept
<1>8. QED
  BY <1>1, <1>2, <1>3, <1>4, <1>5, <1>6, <1>7 DEF ExecuteOperation
-----------------------------------------------------------------------------
(* The removals of different sessions that are down: each becomes absent.  *)
RemovalsOf(ms, v, asked) ==
  /\ \A i \in 1 .. Len(ms) : /\ ms[i].msg = "REMOVE_SESSION" /\ ms[i].id \in asked
                              /\ v[ms[i].id] = "down"
  /\ \A i, j \in 1 .. Len(ms) : ms[i].id = ms[j].id => i = j

Hears(ms, id) == \E i \in 1 .. Len(ms) : ms[i].id = id

LEMMA TraceRemovals ==
  ASSUME NEW ms \in Seq(Msg), NEW v \in Views, NEW asked, RemovalsOf(ms, v, asked)
  PROVE  \E u : /\ Trace(u, ms, asked) /\ u[0] = v
                /\ \A id \in SessionIds :
                     u[Len(ms)][id] = IF Hears(ms, id) THEN "absent" ELSE v[id]
<1> DEFINE n == Len(ms)
           told(i, id) == \E j \in 1 .. i : ms[j].id = id
           u == [i \in 0 .. n |-> [id \in SessionIds |-> IF told(i, id) THEN "absent" ELSE v[id]]]
<1>1. n \in Nat /\ \A i \in 1 .. n : ms[i] \in Msg /\ ms[i].id \in SessionIds
  BY LenProperties, ElementOfSeq DEF Msg, RemovalsOf
<1>2. \A i \in 1 .. n : /\ ms[i].msg = "REMOVE_SESSION" /\ ms[i].id \in asked
                        /\ v[ms[i].id] = "down"
  BY DEF RemovalsOf
<1>3. \A i, j \in 1 .. n : ms[i].id = ms[j].id => i = j
  BY DEF RemovalsOf
<1> HIDE DEF n
<1>4. \A id \in SessionIds : v[id] \in ViewStates /\ "absent" \in ViewStates
  BY DEF Views, ViewStates
<1>5. u \in [0 .. n -> Views]
  BY <1>4 DEF Views
<1>6. \A i \in 0 .. n, id \in SessionIds : u[i][id] = IF told(i, id) THEN "absent" ELSE v[id]
  OBVIOUS
<1>7. u[0] = v
  <2>1. \A id \in SessionIds : ~told(0, id)
    OBVIOUS
  <2>2. u[0] = [id \in SessionIds |-> v[id]]
    BY <1>1, <2>1
  <2>3. QED
    BY <2>2 DEF Views
<1>8. ASSUME NEW i \in 1 .. n
      PROVE  Legal(u[i - 1], ms[i], asked) /\ u[i] = After(u[i - 1], ms[i])
  <2>1. i - 1 \in 0 .. n /\ i \in 0 .. n /\ ms[i].id \in SessionIds /\ ms[i].msg = "REMOVE_SESSION"
    BY <1>1, <1>2
  <2>2. ~told(i - 1, ms[i].id)
    <3>1. \A j \in 1 .. i - 1 : j \in 1 .. n /\ j # i
      BY <1>1
    <3>2. QED
      BY <1>3, <3>1
  <2>3. ASSUME NEW id \in SessionIds
        PROVE  told(i, id) <=> told(i - 1, id) \/ id = ms[i].id
    <3>1. \A j : j \in 1 .. i <=> j \in 1 .. i - 1 \/ j = i
      BY <1>1
    <3>2. QED
      BY <3>1
  <2> HIDE DEF told
  <2>4. u[i - 1] \in Views /\ u[i] \in Views
    BY <1>5, <2>1
  <2> HIDE DEF u
  <2>5. u[i - 1][ms[i].id] = "down"
    BY <1>2, <1>6, <2>1, <2>2
  <2>6. Legal(u[i - 1], ms[i], asked)
    BY <1>2, <2>1, <2>5 DEF Legal, Allowed
  <2>7. ASSUME NEW id \in SessionIds
        PROVE  u[i][id] = IF id = ms[i].id THEN "absent" ELSE u[i - 1][id]
    BY <1>6, <2>1, <2>3
  <2>8. u[i] = [u[i - 1] EXCEPT ![ms[i].id] = "absent"]
    BY <2>4, <2>7 DEF Views
  <2>9. QED
    BY <2>1, <2>6, <2>8 DEF After, Becomes
<1>9. Trace(u, ms, asked)
  BY <1>5, <1>8 DEF Trace, n
<1>10. n \in 0 .. n
  BY <1>1
<1>11. \A id \in SessionIds : u[n][id] = IF told(n, id) THEN "absent" ELSE v[id]
  BY <1>6, <1>10
<1> HIDE DEF u
<1>12. QED
  BY <1>7, <1>9, <1>11 DEF n, Hears

(* The timer of a closing client tells of the removals it begins, the end  *)
(* of the loop that it has no session left.                                *)
LEMMA ViewTimer ==
  ASSUME TypeOK, TypeOK', SocketState, RemovalInv, AskedInv, ViewInv, app # "gone",
         DrainOperations \/ OnTimerUpdateRun \/ RunEnds
  PROVE  ViewInv'
<1>s. sess \in [SessionIds -> Session] /\ \A id \in SessionIds : sess[id] \in Session
  BY DEF TypeOK
<1>a. /\ UNCHANGED <<contract, msgDispatch, known, inst>> /\ contract.view' = contract.view
      /\ contract.asked \subseteq contract.asked'
  BY DEF DrainOperations, OnTimerUpdateRun, RunEnds, appVars, sessionVars
<1>o. OpsAhead' = OpsAhead
  <2>1. CASE DrainOperations
    BY <2>1, NothingAhead DEF DrainOperations, OpsAhead, TypeOK
  <2>2. CASE OnTimerUpdateRun \/ RunEnds
    BY <2>2 DEF OnTimerUpdateRun, RunEnds, OpsAhead
  <2>3. QED
    BY <2>1, <2>2
<1>d. SameDels
  BY <1>o, SameOps
<1>r. \A id \in SessionIds : Removal(id)' = Removal(id)
  BY <1>a DEF Removal, SessionMsg
<1>1. ASSUME UNCHANGED <<msgQue, sess>> PROVE ViewInv'
  <2>1. MsgsAhead' = MsgsAhead
    BY <1>1, <1>a DEF MsgsAhead
  <2>2. \A id \in SessionIds : Removing(id)' <=> Removing(id)
    BY <1>a, <1>d, <2>1, RemovingKept
  <2>3. ASSUME NEW id \in SessionIds, NEW x \in ViewStates, Agreement(id, x) PROVE Agreement(id, x)'
    BY <1>1, <1>a, <2>2, <2>3, AgreementFrame
  <2>4. QED
    BY <1>a, <2>1, <2>3, ViewKept
<1>2. CASE DrainOperations
  BY <1>1, <1>2 DEF DrainOperations, sessionVars
<1>3. CASE OnTimerUpdateRun /\ StopLoop
  BY <1>1, <1>3 DEF OnTimerUpdateRun, StopLoop
<1>4. CASE OnTimerUpdateRun /\ ClearSessions
  <2>1. PICK gone \in Ascending({id \in SessionIds : AwaitsRemoval(id)}) :
          PushMsgs([i \in DOMAIN gone |-> SessionMsg("REMOVE_SESSION", gone[i])])
    BY <1>4 DEF ClearSessions
  <2>2. PICK ms : ms = [i \in DOMAIN gone |-> SessionMsg("REMOVE_SESSION", gone[i])]
    OBVIOUS
  <2>3. /\ ms \in Seq(Msg) /\ Len(ms) \in Nat /\ DOMAIN ms = 1 .. Len(ms)
        /\ \A i \in DOMAIN ms : /\ gone[i] \in SessionIds /\ AwaitsRemoval(gone[i])
                                /\ ms[i] = Removal(gone[i])
        /\ \A i, j \in DOMAIN ms : gone[i] = gone[j] => i = j
        /\ \A id \in SessionIds : AwaitsRemoval(id) => \E i \in DOMAIN ms : gone[i] = id
    BY <2>2, TimerBatch
  <2>4. MsgsAhead' = MsgsAhead \o ms
    BY <1>a, <2>1, <2>2, <2>3, BatchPushed
  <2>5. \A i \in 1 .. Len(ms) : ms[i].msg = "REMOVE_SESSION" /\ ms[i].id = gone[i]
    BY <2>3 DEF Removal, SessionMsg
  <2>6. ASSUME NEW id \in SessionIds PROVE Hears(ms, id) <=> AwaitsRemoval(id)
    BY <2>3, <2>5 DEF Hears
  <2>7. ASSUME NEW id \in SessionIds PROVE Removing(id)' <=> Removing(id) \/ Hears(ms, id)
    <3>1. Has(ms, Removal(id)') <=> Has(ms, Removal(id))
      BY <1>r
    <3>2. Has(ms, Removal(id)) => Hears(ms, id)
      BY <2>3 DEF Has, Hears, Removal, SessionMsg
    <3>3. Hears(ms, id) => Has(ms, Removal(id))
      <4>1. ASSUME Hears(ms, id) PROVE Has(ms, Removal(id))
        <5>1. PICK i \in 1 .. Len(ms) : ms[i].id = id
          BY <4>1 DEF Hears
        <5>2. i \in DOMAIN ms /\ gone[i] = id
          BY <2>3, <2>5, <5>1
        <5>3. QED
          BY <2>3, <5>2 DEF Has
      <4>2. QED
        BY <4>1
    <3>4. QED
      BY <1>a, <1>d, <2>3, <2>4, <3>1, <3>2, <3>3, RemovingPushed
  <2>8. contract.asked = SessionIds /\ contract.asked' = SessionIds
    BY <1>4, <1>a DEF AskedInv, ClearSessions
  <2>9. ASSUME NEW id \in SessionIds, AwaitsRemoval(id), NEW x, Agreement(id, x) PROVE x = "down"
    <3>1. id \in known /\ sess[id].connectState = "DISCONNECT" /\ ~sess[id].removeTag
      BY <2>9 DEF AwaitsRemoval
    <3>2. ~Removing(id)
      BY <3>1 DEF RemovalInv, Removed
    <3>3. QED
      BY <2>9, <3>1, <3>2 DEF Agreement
  <2>10. ASSUME NEW id \in SessionIds, ~Hears(ms, id), NEW x \in ViewStates, Agreement(id, x)
         PROVE  Agreement(id, x)'
    <3>1. /\ sess'[id].connectState = sess[id].connectState
          /\ sess'[id].online => sess[id].online
      <4>0. sess'[id] = IF id \in known /\ sess[id].connectState = "CONNECT"
                          THEN ExecuteDisconnect([sess[id] EXCEPT !.removeTag = TRUE])
                          ELSE sess[id]
        BY <1>4, <2>6, <2>10 DEF ClearSessions
      <4>1. PICK t : t = [sess[id] EXCEPT !.removeTag = TRUE]
        OBVIOUS
      <4>2. t \in Session /\ t.connectState = sess[id].connectState
        BY <1>s, <4>1 DEF Session
      <4>3. ExecuteDisconnect(t).connectState = t.connectState /\ ~ExecuteDisconnect(t).online
        BY <4>2 DEF ExecuteDisconnect, ShutdownSocket, Session
      <4>4. QED
        BY <4>0, <4>1, <4>2, <4>3
    <3>2. QED
      BY <1>a, <2>7, <2>10, <3>1, AgreementFrame
  <2>11. ASSUME NEW id \in SessionIds, Hears(ms, id) PROVE Agreement(id, "absent")'
    BY <2>7, <2>11 DEF Agreement
  <2>12. ASSUME NEW v \in Views, AllAgree(v)
         PROVE  \E u : Trace(u, ms, contract.asked') /\ u[0] = v /\ AllAgree(u[Len(ms)])'
    <3>0. ms \in Seq(Msg) /\ v \in Views
      BY <2>3, <2>12
    <3>1. \A i \in 1 .. Len(ms) : /\ ms[i].msg = "REMOVE_SESSION" /\ ms[i].id \in SessionIds
                                  /\ v[ms[i].id] = "down"
      BY <2>3, <2>5, <2>9, <2>12 DEF AllAgree
    <3>2. RemovalsOf(ms, v, SessionIds)
      BY <2>3, <2>5, <3>1 DEF RemovalsOf
    <3>3. PICK u : /\ Trace(u, ms, SessionIds) /\ u[0] = v
                   /\ \A id \in SessionIds :
                        u[Len(ms)][id] = IF Hears(ms, id) THEN "absent" ELSE v[id]
      BY <3>0, <3>2, TraceRemovals
    <3>4. PICK z : z = u[Len(ms)]
      OBVIOUS
    <3>5. \A id \in SessionIds : z[id] = IF Hears(ms, id) THEN "absent" ELSE v[id]
      BY <3>3, <3>4
    <3>6. \A id \in SessionIds : v[id] \in ViewStates /\ Agreement(id, v[id])
      BY <2>12 DEF AllAgree, Views
    <3>7. \A id \in SessionIds : Agreement(id, z[id])'
      <4>1. ASSUME NEW id \in SessionIds PROVE Agreement(id, z[id])'
        <5>1. CASE Hears(ms, id)
          <6>1. Agreement(id, "absent")' /\ z[id] = "absent"
            BY <2>11, <3>5, <5>1
          <6>2. QED
            BY <6>1 DEF Agreement
        <5>2. CASE ~Hears(ms, id)
          <6>1. Agreement(id, v[id])' /\ z[id] = v[id]
            BY <2>10, <3>5, <3>6, <5>2
          <6>2. QED
            BY <6>1 DEF Agreement
        <5>3. QED
          BY <5>1, <5>2
      <4>2. QED
        BY <4>1
    <3>8. AllAgree(u[Len(ms)])'
      BY <3>4, <3>7 DEF AllAgree, Agreement
    <3>9. QED
      BY <2>8, <3>3, <3>8
  <2>13. QED
    BY <1>a, <2>3, <2>4, <2>12, ViewPushed
<1>5. CASE RunEnds
  <2>1. Exit \in Msg /\ Exit.msg = "EXIT_LOOP"
    BY DEF Exit, Msg
  <2> DEFINE ms == <<Exit>>
  <2>2. ms \in Seq(Msg) /\ DOMAIN ms = {1} /\ ms[1] = Exit
    BY <2>1
  <2>3. PushMsgs(ms) /\ UNCHANGED sess
    BY <1>5 DEF RunEnds, Exit, sessionVars
  <2> HIDE DEF ms
  <2>4. MsgsAhead' = MsgsAhead \o ms
    BY <1>a, <2>2, <2>3, BatchPushed
  <2>5. known = {} /\ known' = {} /\ contract.asked = SessionIds /\ contract.asked' = SessionIds
    BY <1>5, <1>a DEF AskedInv, RunEnds
  <2>6. ASSUME NEW v \in Views, AllAgree(v)
        PROVE  \E u : Trace(u, ms, contract.asked') /\ u[0] = v /\ AllAgree(u[Len(ms)])'
    <3>1. \A id \in SessionIds : v[id] = "absent"
      BY <2>5, <2>6 DEF AllAgree, Agreement
    <3>2. Legal(v, Exit, SessionIds)
      BY <2>1, <3>1 DEF Legal
    <3>3. PICK u : Trace(u, <<Exit>>, SessionIds) /\ u[0] = v /\ u[Len(<<Exit>>)] = After(v, Exit)
      BY <2>1, <3>2, TraceOne
    <3>4. Trace(u, ms, SessionIds) /\ u[Len(ms)] = v
      BY <2>1, <3>3 DEF ms, After
    <3>5. AllAgree(v)'
      BY <2>5, <3>1 DEF AllAgree, Agreement
    <3>6. QED
      BY <2>5, <3>3, <3>4, <3>5 DEF AllAgree, Agreement
  <2>7. QED
    BY <1>a, <2>2, <2>4, <2>6, ViewPushed
<1>6. QED
  BY <1>2, <1>3, <1>4, <1>5 DEF OnTimerUpdateRun

(* What libuv reports of a session.                                        *)
LEMMA ViewCallbacks ==
  ASSUME TypeOK, TypeOK', SocketState, RemovalInv, AskedInv, ViewInv, app # "gone",
         NEW id \in SessionIds,
         \/ ConnectAnswered(id) \/ OnRead(id) \/ OnReadEnd(id)
         \/ OnWriteDone(id) \/ OnClose(id)
  PROVE  ViewInv'
<1>1. /\ id \in known /\ sess[id].handle \in {"connecting", "open", "closing"}
      /\ opDispatch = <<>>
      /\ UNCHANGED <<contract, opDispatch, msgDispatch, known, inst>>
  BY DEF ConnectAnswered, OnSocketConnect, OnRead, OnReadEnd, OnWriteDone, OnClose, SocketCallback,
         appVars
<1>a. contract.view' = contract.view /\ contract.asked \subseteq contract.asked'
  BY <1>1
<1>d. SameDels
  BY <1>1, DelsKept DEF LoopThread, ExecDeleteSession, Executes
<1>2. ~Removing(id)
  BY <1>1 DEF RemovalInv, SocketState, SocketAgrees, Removed
<1>s. sess[id] \in Session /\ sess \in [SessionIds -> Session] /\ SocketAgrees(sess[id])
  BY <1>1 DEF TypeOK, SocketState
<1>c. ASSUME NEW s, ChangeSession(id, s)
      PROVE  sess'[id] = s /\ \A x \in SessionIds : x # id => sess'[x] = sess[x]
  BY <1>s, <1>c DEF ChangeSession
<1>r. \A x \in SessionIds : Removal(x)' = Removal(x)
  BY <1>1 DEF Removal, SessionMsg
\* Nothing is told.
<1>u. ASSUME msgQue' = msgQue, \A i \in SessionIds : i # id => sess'[i] = sess[i],
             \A x \in ViewStates : ~Removing(id)' /\ Agreement(id, x) => Agreement(id, x)'
      PROVE  ViewInv'
  <2>1. MsgsAhead' = MsgsAhead
    BY <1>1, <1>u DEF MsgsAhead
  <2>2. \A i \in SessionIds : Removing(i)' <=> Removing(i)
    BY <1>1, <1>d, <2>1, RemovingKept
  <2>3. ASSUME NEW i \in SessionIds, NEW x \in ViewStates, Agreement(i, x) PROVE Agreement(i, x)'
    <3>1. CASE i = id
      BY <1>2, <1>u, <2>2, <2>3, <3>1
    <3>2. CASE i # id
      BY <1>1, <1>a, <1>u, <2>2, <2>3, <3>2, AgreementFrame
    <3>3. QED
      BY <3>1, <3>2
  <2>4. QED
    BY <1>a, <2>1, <2>3, ViewKept
<1>v. ASSUME msgQue' = msgQue, NEW s, ChangeSession(id, s),
             s.connectState = sess[id].connectState, s.online => sess[id].online
      PROVE  ViewInv'
  <2>1. sess'[id] = s /\ \A i \in SessionIds : i # id => sess'[i] = sess[i]
    BY <1>c, <1>v
  <2>2. ASSUME NEW x \in ViewStates, ~Removing(id)', Agreement(id, x) PROVE Agreement(id, x)'
    BY <1>1, <1>2, <1>a, <1>v, <2>1, <2>2, AgreementFrame
  <2>3. QED
    BY <1>u, <1>v, <2>1, <2>2
\* One message is told.
<1>m. ASSUME NEW k \in SessionMsgs, k # "REMOVE_SESSION", PushMsgs(<<SessionMsg(k, id)>>),
             \A i \in SessionIds : i # id => sess'[i] = sess[i],
             \A x \in ViewStates : Agreement(id, x) =>
               /\ Allowed(x, k, id \in contract.asked)
               /\ ~Removing(id)' => Agreement(id, Becomes(x, k))'
      PROVE  ViewInv'
  <2>0. PICK m : m = SessionMsg(k, id)
    OBVIOUS
  <2>1. m \in Msg /\ m.msg = k /\ m.id = id /\ k # "EXIT_LOOP"
    BY <2>0, SessionMsgType DEF SessionMsg, SessionMsgs
  <2> DEFINE ms == <<m>>
  <2>2. ms \in Seq(Msg) /\ DOMAIN ms = {1} /\ ms[1] = m
    BY <2>1
  <2>3. PushMsgs(ms)
    BY <1>m, <2>0
  <2> HIDE DEF ms
  <2>4. MsgsAhead' = MsgsAhead \o ms
    BY <1>1, <2>2, <2>3, BatchPushed
  <2>5. ASSUME NEW i \in SessionIds PROVE Removing(i)' <=> Removing(i)
    <3>1. ~Has(ms, Removal(i)')
      BY <1>m, <2>1, <2>2 DEF Has, Removal, SessionMsg
    <3>2. QED
      BY <1>1, <1>d, <2>2, <2>4, <3>1, RemovingPushed
  <2>6. ASSUME NEW i \in SessionIds, NEW x \in ViewStates, i # id, Agreement(i, x)
        PROVE  Agreement(i, x)'
    BY <1>1, <1>a, <1>m, <2>5, <2>6, AgreementFrame
  <2>7. ~Removing(id)'
    BY <1>2, <2>5
  <2>8. ASSUME NEW x \in ViewStates, Agreement(id, x)
        PROVE  Allowed(x, k, id \in contract.asked) /\ Agreement(id, Becomes(x, k))'
    BY <1>m, <2>7, <2>8
  <2>9. QED
    BY <1>1, <2>1, <2>4, <2>6, <2>8, ViewOne DEF ms
<1>3. ASSUME NEW status \in {0, UV_ETIMEDOUT, UV_ECONNREFUSED}, NEW readStarted \in BOOLEAN,
             OnSocketConnect(id, status, readStarted)
      PROVE  ViewInv'
  <2>0. PICK answer : answer = ConnectStatus(status, readStarted)
    OBVIOUS
  <2> DEFINE suc == answer = 1
             unwanted == suc /\ (stage # "START" \/ sess[id].removeTag)
             s == [sess[id] EXCEPT !.online = suc,
                                   !.connectState = IF suc THEN "CONNECT" ELSE "DISCONNECT",
                                   !.handle = IF suc THEN "open" ELSE "failed"]
  <2>1. /\ s \in Session /\ s.online = suc
        /\ s.connectState = IF suc THEN "CONNECT" ELSE "DISCONNECT"
    BY <1>s DEF Session, States, Handles
  <2>2. /\ ChangeSession(id, IF unwanted THEN ExecuteDisconnect(s)
                             ELSE IF suc THEN ApplyOptions(s) ELSE s)
        /\ IF unwanted THEN UNCHANGED msgQue
           ELSE PushMsgs(<<SessionMsg(ConnectMsg(answer), id)>>)
        /\ sess[id].handle = "connecting"
    BY <1>3, <2>0 DEF OnSocketConnect
  <2>3. answer \in {0, 1, 2}
    BY <2>0 DEF ConnectStatus
  <2> HIDE DEF s
  <2>4. sess[id].connectState = "CONNECTING" /\ ~sess[id].online
    BY <1>s, <2>2 DEF SocketAgrees
  <2>5. CASE unwanted
    <3>1. /\ sess'[id] = ExecuteDisconnect(s) /\ UNCHANGED msgQue
          /\ \A i \in SessionIds : i # id => sess'[i] = sess[i]
      BY <1>c, <2>2, <2>5
    <3>2. sess'[id].connectState = "CONNECT" /\ ~sess'[id].online
      BY <2>1, <2>5, <3>1 DEF ExecuteDisconnect, ShutdownSocket, Session
    <3>3. id \in contract.asked
      BY <1>1, <2>5 DEF AskedInv
    <3>4. ASSUME NEW x \in ViewStates, ~Removing(id)', Agreement(id, x) PROVE Agreement(id, x)'
      BY <1>1, <3>2, <3>3, <3>4 DEF Agreement
    <3>5. QED
      BY <1>u, <3>1, <3>4
  <2>6. CASE ~unwanted /\ suc
    <3>1. /\ sess'[id] = ApplyOptions(s)
          /\ \A i \in SessionIds : i # id => sess'[i] = sess[i]
      BY <1>c, <2>2, <2>6
    <3>2. sess'[id].connectState = "CONNECT"
      BY <2>1, <2>6, <3>1 DEF ApplyOptions, Session
    <3>3. ConnectMsg(answer) = "CONNECT" /\ PushMsgs(<<SessionMsg("CONNECT", id)>>)
      BY <2>2, <2>6 DEF ConnectMsg
    <3>4. ASSUME NEW x \in ViewStates, Agreement(id, x)
          PROVE  /\ Allowed(x, "CONNECT", id \in contract.asked)
                 /\ ~Removing(id)' => Agreement(id, Becomes(x, "CONNECT"))'
      <4>1. x # "up"
        BY <1>1, <1>2, <2>4, <3>4 DEF Agreement
      <4>2. ~Removing(id)' => Agreement(id, "up")'
        BY <1>1, <3>2 DEF Agreement
      <4>3. QED
        BY <4>1, <4>2 DEF Allowed, Becomes
    <3>5. QED
      BY <1>m, <3>1, <3>3, <3>4 DEF SessionMsgs
  <2>7. CASE ~suc
    <3>1. /\ sess'[id] = s
          /\ \A i \in SessionIds : i # id => sess'[i] = sess[i]
      BY <1>c, <2>2, <2>7
    <3>2. sess'[id].connectState = "DISCONNECT" /\ ~sess'[id].online
      BY <2>1, <2>7, <3>1
    <3>3. PICK k \in {"CONNECT_FAIL", "CONNECT_TIMOUT"} : k = ConnectMsg(answer)
      BY <2>3, <2>7 DEF ConnectMsg
    <3>4. PushMsgs(<<SessionMsg(k, id)>>)
      BY <2>2, <2>7, <3>3
    <3>5. ASSUME NEW x \in ViewStates, Agreement(id, x)
          PROVE  /\ Allowed(x, k, id \in contract.asked)
                 /\ ~Removing(id)' => Agreement(id, Becomes(x, k))'
      <4>1. x # "up"
        BY <1>1, <1>2, <2>4, <3>5 DEF Agreement
      <4>2. ~Removing(id)' => Agreement(id, "down")'
        BY <1>1, <3>2 DEF Agreement
      <4>3. QED
        BY <4>1, <4>2 DEF Allowed, Becomes
    <3>6. QED
      BY <1>m, <3>1, <3>4, <3>5 DEF SessionMsgs
  <2>8. QED
    BY <2>5, <2>6, <2>7
<1>4. CASE OnRead(id)
  <2>1. UNCHANGED sess
    BY <1>4 DEF OnRead
  <2>2. ASSUME NEW x \in ViewStates, ~Removing(id)', Agreement(id, x) PROVE Agreement(id, x)'
    BY <1>1, <1>2, <1>a, <2>1, <2>2, AgreementFrame
  <2>3. CASE sess[id].online
    <3>1. PushMsgs(<<SessionMsg("RECV_DATA", id)>>)
      BY <1>4, <2>3 DEF OnRead
    <3>2. ASSUME NEW x \in ViewStates, Agreement(id, x)
          PROVE  /\ Allowed(x, "RECV_DATA", id \in contract.asked)
                 /\ ~Removing(id)' => Agreement(id, Becomes(x, "RECV_DATA"))'
      <4>1. x = "up"
        BY <1>1, <1>2, <2>3, <3>2 DEF Agreement
      <4>2. QED
        BY <2>2, <3>2, <4>1 DEF Allowed, Becomes
    <3>3. QED
      BY <1>m, <2>1, <3>1, <3>2 DEF SessionMsgs
  <2>4. CASE ~sess[id].online
    BY <1>4, <1>u, <2>1, <2>2, <2>4 DEF OnRead
  <2>5. QED
    BY <2>3, <2>4
<1>5. CASE OnReadEnd(id)
  <2>1. UNCHANGED msgQue /\ ChangeSession(id, ShutdownSocket(sess[id]))
    BY <1>5 DEF OnReadEnd
  <2>2. /\ ShutdownSocket(sess[id]).connectState = sess[id].connectState
        /\ ShutdownSocket(sess[id]).online = sess[id].online
    BY <1>s DEF ShutdownSocket, Session
  <2>3. QED
    BY <1>v, <2>1, <2>2
<1>6. CASE OnWriteDone(id)
  <2>1. PICK t : t = [sess[id] EXCEPT !.closers = @ - 1]
    OBVIOUS
  <2>2. UNCHANGED msgQue /\ ChangeSession(id, t)
    BY <1>6, <2>1 DEF OnWriteDone
  <2>3. t.connectState = sess[id].connectState /\ t.online = sess[id].online
    BY <1>s, <2>1 DEF Session
  <2>4. QED
    BY <1>v, <2>2, <2>3
<1>7. CASE OnClose(id)
  <2>0. PICK t : t = [SocketClosed(sess[id]) EXCEPT !.connectState = "DISCONNECT", !.noDelay = FALSE]
    OBVIOUS
  <2>1. t.connectState = "DISCONNECT" /\ ~t.online
    BY <1>s, <2>0 DEF SocketClosed, Session
  <2>2. ChangeSession(id, t) /\ PushMsgs(CloseMsgs(id)) /\ sess[id].handle = "closing"
    BY <1>7, <2>0 DEF OnClose
  <2>3. /\ sess'[id].connectState = "DISCONNECT" /\ ~sess'[id].online
        /\ \A i \in SessionIds : i # id => sess'[i] = sess[i]
    BY <1>c, <2>1, <2>2
  <2>4. ASSUME NEW x \in ViewStates, Agreement(id, x)
        PROVE  Allowed(x, "DIS_CONNECT", id \in contract.asked)
    <3>1. sess[id].connectState \in {"CONNECT", "DISCONNECTING"}
      BY <1>s, <2>2 DEF SocketAgrees, Session, States
    <3>2. x = "up" \/ id \in contract.asked
      BY <1>1, <1>2, <2>4, <3>1 DEF Agreement
    <3>3. QED
      BY <3>2 DEF Allowed
  <2>d. PICK d : d = SessionMsg("DIS_CONNECT", id)
    OBVIOUS
  <2>r. PICK r : r = SessionMsg("REMOVE_SESSION", id)
    OBVIOUS
  <2>5. /\ d \in Msg /\ d.msg = "DIS_CONNECT" /\ d.id = id
        /\ r \in Msg /\ r.msg = "REMOVE_SESSION" /\ r.id = id
    BY <2>d, <2>r, SessionMsgType DEF SessionMsgs, SessionMsg
  <2>6. CASE ~sess[id].removeTag
    <3>1. CloseMsgs(id) = <<d>>
      BY <2>d, <2>5, <2>6, NothingAhead DEF CloseMsgs
    <3>2. ASSUME NEW x \in ViewStates
          PROVE  ~Removing(id)' => Agreement(id, Becomes(x, "DIS_CONNECT"))'
      <4>1. ~Removing(id)' => Agreement(id, "down")'
        BY <1>1, <2>3 DEF Agreement
      <4>2. QED
        BY <4>1 DEF Becomes
    <3>3. QED
      BY <1>m, <2>d, <2>2, <2>3, <2>4, <3>1, <3>2 DEF SessionMsgs
  <2>7. CASE sess[id].removeTag
    <3> DEFINE ms == <<d, r>>
    <3>1. ms \in Seq(Msg) /\ DOMAIN ms = {1, 2} /\ ms[1] = d /\ ms[2] = r
      BY <2>5
    <3>2. CloseMsgs(id) = ms /\ <<d>> \o <<r>> = ms
      BY <2>d, <2>r, <2>5, <2>7, TwoMsgs DEF CloseMsgs
    <3>3. r = Removal(id)' /\ \A i \in SessionIds : i # id => d # Removal(i)' /\ r # Removal(i)'
      BY <1>1, <2>d, <2>r DEF Removal, SessionMsg
    <3> HIDE DEF ms
    <3>4. MsgsAhead' = MsgsAhead \o ms
      BY <1>1, <2>2, <3>1, <3>2, BatchPushed
    <3>5. /\ Removing(id)'
          /\ \A i \in SessionIds : i # id => (Removing(i)' <=> Removing(i))
      <4>1. Has(ms, Removal(id)') /\ \A i \in SessionIds : i # id => ~Has(ms, Removal(i)')
        BY <3>1, <3>3 DEF Has
      <4>2. QED
        BY <1>1, <1>d, <3>1, <3>4, <4>1, RemovingPushed
    <3>6. id \in contract.asked
      BY <1>1, <2>7 DEF AskedInv
    <3>7. ASSUME NEW v \in Views, AllAgree(v)
          PROVE  \E u : Trace(u, ms, contract.asked') /\ u[0] = v /\ AllAgree(u[Len(ms)])'
      <4>1. v[id] \in ViewStates /\ Agreement(id, v[id])
        BY <3>7 DEF AllAgree, Views
      <4>2. Legal(v, d, contract.asked)
        BY <2>4, <2>5, <4>1 DEF Legal
      <4>3. PICK y : y = After(v, d)
        OBVIOUS
      <4>4. y \in Views /\ y[id] = "down" /\ \A i \in SessionIds : i # id => y[i] = v[i]
        BY <2>5, <4>3, AfterType DEF After, Becomes, Views
      <4>5. Legal(y, r, contract.asked)
        BY <2>5, <3>6, <4>4 DEF Legal, Allowed
      <4>6. PICK z : z = After(y, r)
        OBVIOUS
      <4>7. z[id] = "absent" /\ \A i \in SessionIds : i # id => z[i] = v[i]
        BY <2>5, <4>4, <4>6 DEF After, Becomes, Views
      <4>8. PICK w : Trace(w, <<d>>, contract.asked) /\ w[0] = v /\ w[Len(<<d>>)] = y
        BY <2>5, <4>2, <4>3, TraceOne
      <4>9. PICK u : Trace(u, <<r>>, contract.asked) /\ u[0] = y /\ u[Len(<<r>>)] = z
        BY <2>5, <4>4, <4>5, <4>6, TraceOne
      <4>10. <<d>> \in Seq(Msg) /\ <<r>> \in Seq(Msg)
        BY <2>5, OneMsg
      <4>11. PICK x : /\ Trace(x, <<d>> \o <<r>>, contract.asked)
                      /\ x[0] = w[0] /\ x[Len(<<d>> \o <<r>>)] = u[Len(<<r>>)]
        <5>1. PICK p : p = <<d>>
          OBVIOUS
        <5>2. PICK q : q = <<r>>
          OBVIOUS
        <5>3. /\ p \in Seq(Msg) /\ q \in Seq(Msg) /\ u[0] = w[Len(p)]
              /\ Trace(w, p, contract.asked) /\ Trace(u, q, contract.asked)
          BY <4>8, <4>9, <4>10, <5>1, <5>2
        <5>4. PICK x : /\ Trace(x, p \o q, contract.asked)
                       /\ x[0] = w[0] /\ x[Len(p \o q)] = u[Len(q)]
          BY <5>3, TraceConcat
        <5>5. QED
          BY <5>1, <5>2, <5>4
      <4>12. Trace(x, ms, contract.asked) /\ x[0] = v /\ x[Len(ms)] = z
        BY <3>2, <4>8, <4>9, <4>11
      <4>13. \A i \in SessionIds : Agreement(i, z[i])'
        <5>1. ASSUME NEW i \in SessionIds PROVE Agreement(i, z[i])'
          <6>1. CASE i = id
            BY <3>5, <4>7, <6>1 DEF Agreement
          <6>2. CASE i # id
            <7>1. Agreement(i, v[i])
              BY <3>7 DEF AllAgree
            <7>2. Agreement(i, v[i])'
              BY <1>1, <1>a, <2>3, <3>5, <6>2, <7>1, AgreementFrame
            <7>3. z[i] = v[i]
              BY <4>7, <6>2
            <7>4. QED
              BY <7>2, <7>3 DEF Agreement
          <6>3. QED
            BY <6>1, <6>2
        <5>2. QED
          BY <5>1
      <4>14. AllAgree(x[Len(ms)])'
        BY <4>12, <4>13 DEF AllAgree, Agreement
      <4>15. QED
        BY <1>1, <4>12, <4>14
    <3>8. QED
      BY <1>a, <3>1, <3>4, <3>7, ViewPushed
  <2>8. QED
    BY <2>6, <2>7
<1>8. QED
  BY <1>3, <1>4, <1>5, <1>6, <1>7 DEF ConnectAnswered

(* The application calls, polls, and is told of the first message.         *)
LEMMA ToldView ==
  ASSUME TypeOK, NEW m \in Msg
  PROVE  Told(m).view = After(contract.view, m) /\ Told(m).asked = contract.asked
<1>1. contract \in [view : Views, asked : SUBSET SessionIds, closed : BOOLEAN]
  BY DEF TypeOK, Contract, Views, ViewStates
<1>2. CASE m.msg = "EXIT_LOOP"
  BY <1>1, <1>2 DEF Told, After
<1>3. CASE m.msg # "EXIT_LOOP"
  <2>1. PICK y : y = Becomes(contract.view[m.id], m.msg)
    OBVIOUS
  <2>2. (CASE m.msg = "CONNECT"        -> "up"
           [] m.msg = "RECV_DATA"      -> contract.view[m.id]
           [] m.msg = "REMOVE_SESSION" -> "absent"
           [] OTHER                    -> "down") = y
    BY <2>1 DEF Becomes
  <2>3. Told(m) = [contract EXCEPT !.view[m.id] = y]
    BY <1>3, <2>2 DEF Told
  <2>4. After(contract.view, m) = [contract.view EXCEPT ![m.id] = y]
    BY <1>3, <2>1 DEF After
  <2>5. QED
    BY <1>1, <2>3, <2>4
<1>4. QED
  BY <1>2, <1>3

LEMMA ViewApplication ==
  ASSUME TypeOK, TypeOK', QueueShape, RemovalInv, ViewInv, Application
  PROVE  ViewInv'
<1>1. CASE JoinReturns
  BY <1>1 DEF JoinReturns, ViewInv
<1>2. CASE ~DispatchMsg /\ ~JoinReturns
  <2>1. /\ UNCHANGED <<known, inst, sess>> /\ app # "gone"
        /\ contract.view' = contract.view /\ contract.asked \subseteq contract.asked'
    <3>1. contract \in Contract
      BY DEF TypeOK
    <3>2. CASE UNCHANGED contract
      BY <1>2, <3>2 DEF Application, Connect, Disconnect, Send, SendAndClose, Request, RemoveSession,
         SetSocketNoDelay, CloseClient, Destroy, StopAndPush, GetThreadMsg, Calls, sessionVars
    <3>3. ASSUME NEW id \in SessionIds, RemoveSession(id)
          PROVE  /\ UNCHANGED <<known, inst, sess>> /\ app # "gone"
                 /\ contract' = [contract EXCEPT !.asked = @ \cup {id}]
      BY <3>3 DEF RemoveSession, Calls, sessionVars
    <3>4. ASSUME CloseClient \/ Destroy
          PROVE  /\ UNCHANGED <<known, inst, sess>> /\ app # "gone"
                 /\ contract' = [contract EXCEPT !.asked = SessionIds]
      BY <3>4 DEF CloseClient, Destroy, StopAndPush, Calls, sessionVars
    <3>5. CASE \E id \in SessionIds : RemoveSession(id)
      BY <3>1, <3>3, <3>5 DEF Contract
    <3>6. CASE CloseClient \/ Destroy
      BY <3>1, <3>4, <3>6 DEF Contract
    <3>7. CASE ~(\E id \in SessionIds : RemoveSession(id)) /\ ~CloseClient /\ ~Destroy
      <4>1. UNCHANGED contract
        BY <1>2, <3>7 DEF Application, Connect, Disconnect, Send, SendAndClose, Request,
           SetSocketNoDelay, GetThreadMsg, appVars
      <4>2. QED
        BY <3>2, <4>1
    <3>8. QED
      BY <3>5, <3>6, <3>7
  <2>2. MsgsAhead' = MsgsAhead
    <3>1. CASE GetThreadMsg
      <4>1. msgDispatch = <<>> /\ msgDispatch' = msgQue /\ msgQue' = <<>> /\ msgQue \in Seq(Msg)
        BY <3>1 DEF GetThreadMsg, TypeOK
      <4>2. QED
        BY <4>1, NothingAhead DEF MsgsAhead
    <3>2. CASE ~GetThreadMsg
      BY <1>2, <3>2 DEF Application, Connect, Disconnect, Send, SendAndClose, Request,
         RemoveSession, SetSocketNoDelay, CloseClient, Destroy, StopAndPush, MsgsAhead
    <3>3. QED
      BY <3>1, <3>2
  <2>3. SameDels
    BY <1>2, DelsKept
  <2>4. \A id \in SessionIds : Removing(id)' <=> Removing(id)
    BY <2>1, <2>2, <2>3, RemovingKept
  <2>5. ASSUME NEW id \in SessionIds, NEW x \in ViewStates, Agreement(id, x) PROVE Agreement(id, x)'
    BY <2>1, <2>4, <2>5, AgreementFrame
  <2>6. QED
    BY <2>1, <2>2, <2>5, ViewKept
<1>3. CASE DispatchMsg
  <2> DEFINE m == Head(msgDispatch)
  <2>1. /\ msgDispatch # <<>> /\ msgDispatch' = Tail(msgDispatch) /\ app # "gone"
        /\ UNCHANGED <<msgQue, known, inst, sess, opDispatch>> /\ contract' = Told(m)
    BY <1>3 DEF DispatchMsg, sessionVars
  <2>2. /\ MsgsAhead \in Seq(Msg) /\ MsgsAhead # <<>>
        /\ Head(MsgsAhead) = m /\ MsgsAhead' = Tail(MsgsAhead)
    BY <2>1, MsgTaken DEF MsgsAhead
  <2>3. m \in LiveMsgs /\ m \in Msg
    BY <2>2, WithinTail DEF RemovalInv, LiveMsgs
  <2>4. contract.view' = After(contract.view, m) /\ contract.asked' = contract.asked
    BY <2>1, <2>3, ToldView
  <2> HIDE DEF m
  <2>5. ASSUME NEW id \in SessionIds PROVE Removing(id)' <=> Removing(id)
    <3>1. Removal(id)' = Removal(id)
      BY <2>1 DEF Removal, SessionMsg
    <3>2. Has(MsgsAhead, Removal(id)) <=> m = Removal(id) \/ Has(MsgsAhead', Removal(id))
      BY <2>2, HasTail
    <3>3. CASE m.msg = "REMOVE_SESSION"
      <4>1. PICK v \in SessionIds : v = m.id
        BY <2>3, <3>3 DEF Msg
      <4>2. PICK d : d = Deletion(v)
        OBVIOUS
      <4>3. m = Removal(v)
        BY <2>3, <3>3, <4>1 DEF LiveMsgs, Msg, Removal, SessionMsg
      <4>4. d \in Op /\ PushOp(d)
        BY <1>3, <3>3, <4>1, <4>2, SessionOpType DEF DispatchMsg, Deletion, SessionOps, m
      <4>5. OpsAhead' = Append(OpsAhead, d) /\ OpsAhead \in Seq(Op)
        BY <2>1, <4>4, OpPushed
      <4>6. Has(OpsAhead', Deletion(id)) <=> Has(OpsAhead, Deletion(id)) \/ d = Deletion(id)
        BY <4>4, <4>5, HasAppend
      <4>7. (d = Deletion(id) <=> id = v) /\ (m = Removal(id) <=> id = v)
        BY <4>2, <4>3 DEF Deletion, SessionOp, Removal, SessionMsg
      <4>8. QED
        BY <3>1, <3>2, <4>6, <4>7 DEF Removing, Deletion
    <3>4. CASE m.msg # "REMOVE_SESSION"
      <4>1. OpsAhead' = OpsAhead
        BY <1>3, <2>1, <3>4 DEF DispatchMsg, OpsAhead, m
      <4>2. m # Removal(id)
        BY <3>4 DEF Removal, SessionMsg
      <4>3. QED
        BY <3>1, <3>2, <4>1, <4>2 DEF Removing, Deletion
    <3>5. QED
      BY <3>3, <3>4
  <2>6. PICK w : /\ Trace(w, MsgsAhead, contract.asked) /\ w[0] = contract.view
                 /\ AllAgree(w[Len(MsgsAhead)])
    BY <2>1 DEF ViewInv
  <2>7. PICK z : /\ Trace(z, MsgsAhead', contract.asked) /\ z[0] = After(w[0], m)
                 /\ z[Len(MsgsAhead')] = w[Len(MsgsAhead)]
    BY <2>2, <2>6, TraceTail
  <2>8. PICK y : y = w[Len(MsgsAhead)]
    OBVIOUS
  <2>9. \A id \in SessionIds : Agreement(id, y[id])'
    <3>1. ASSUME NEW id \in SessionIds PROVE Agreement(id, y[id])'
      <4>1. PICK x : x = y[id]
        OBVIOUS
      <4>2. Agreement(id, x)
        BY <2>6, <2>8, <4>1 DEF AllAgree, Agreement
      <4>3. Agreement(id, x)'
        BY <2>1, <2>4, <2>5, <4>2, AgreementFrame
      <4>4. QED
        BY <4>1, <4>3 DEF Agreement
    <3>2. QED
      BY <3>1
  <2>10. AllAgree(z[Len(MsgsAhead)])'
    BY <2>7, <2>8, <2>9 DEF AllAgree, Agreement
  <2>11. QED
    BY <2>4, <2>6, <2>7, <2>10 DEF ViewInv
<1>4. QED
  BY <1>1, <1>2, <1>3
-----------------------------------------------------------------------------
(* EXIT_LOOP is the last message there is.                                 *)
ExitInv ==
  /\ loop # "ended" => ~contract.closed /\ ~Has(MsgsAhead, Exit)
  /\ contract.closed => MsgsAhead = <<>>
  /\ Last(MsgsAhead, Exit, Msg)

LEMMA NotExit ==
  ASSUME TypeOK, NEW id \in SessionIds, NEW k \in SessionMsgs, NEW m, m = SessionMsg(k, id)
  PROVE  <<m>> \in Seq(Msg) /\ ~Has(<<m>>, Exit)
<1>1. m \in Msg /\ m.msg = k /\ k # "EXIT_LOOP"
  BY SessionMsgType DEF SessionMsg, SessionMsgs
<1>2. m # Exit
  BY <1>1 DEF Exit
<1>3. <<m>> \in Seq(Msg) /\ DOMAIN <<m>> = {1} /\ <<m>>[1] = m
  BY <1>1
<1>4. QED
  BY <1>2, <1>3 DEF Has

(* What the loop thread queues until it ends.                              *)
LEMMA LoopPushes ==
  ASSUME TypeOK, TypeOK', QueueShape, LoopThread, ~RunEnds
  PROVE  /\ loop # "ended" /\ loop' # "ended" /\ UNCHANGED <<contract, msgDispatch>>
         /\ \E ms \in Seq(Msg) : MsgsAhead' = MsgsAhead \o ms /\ ~Has(ms, Exit)
<1>1. loop # "ended" /\ loop' # "ended" /\ UNCHANGED <<contract, msgDispatch>>
  <2>1. CASE DrainOperations \/ OnTimerUpdateRun
    BY <2>1 DEF DrainOperations, OnTimerUpdateRun, ClearSessions, StopLoop, appVars
  <2>2. ASSUME NEW o, Executes(o)
        PROVE  loop # "ended" /\ loop' # "ended" /\ UNCHANGED <<contract, msgDispatch>>
    BY <2>2 DEF Executes, QueueShape, appVars
  <2>3. CASE ExecuteOperation
    BY <2>2, <2>3 DEF ExecuteOperation, ExecSend, ExecSendAndClose, ExecDisconnect, ExecConnect,
       ExecSetNoDelay, ExecClientClose, ExecRemoveSession, ExecDeleteSession
  <2>4. ASSUME NEW id \in SessionIds,
               \/ ConnectAnswered(id) \/ OnRead(id) \/ OnReadEnd(id)
               \/ OnWriteDone(id) \/ OnClose(id)
        PROVE  SocketCallback(id)
    BY <2>4 DEF ConnectAnswered, OnSocketConnect, OnRead, OnReadEnd, OnWriteDone, OnClose
  <2>5. ASSUME NEW id \in SessionIds, SocketCallback(id)
        PROVE  loop # "ended" /\ loop' # "ended" /\ UNCHANGED <<contract, msgDispatch>>
    BY <2>5 DEF SocketCallback, appVars
  <2>6. QED
    BY <2>1, <2>3, <2>4, <2>5 DEF LoopThread
<1> DEFINE Pushes == \E ms \in Seq(Msg) : PushMsgs(ms) /\ ~Has(ms, Exit)
<1>u. ASSUME UNCHANGED msgQue PROVE Pushes
  <2>1. <<>> \in Seq(Msg) /\ DOMAIN <<>> = {} /\ msgQue = msgQue \o <<>>
    BY NothingAhead, EmptySeq DEF TypeOK
  <2>2. QED
    BY <1>u, <2>1 DEF PushMsgs, Has
<1>m. ASSUME NEW id \in SessionIds, NEW k \in SessionMsgs, PushMsgs(<<SessionMsg(k, id)>>)
      PROVE  Pushes
  <2>1. PICK m : m = SessionMsg(k, id)
    OBVIOUS
  <2>2. <<m>> \in Seq(Msg) /\ ~Has(<<m>>, Exit)
    BY <2>1, NotExit
  <2>3. PushMsgs(<<m>>)
    BY <1>m, <2>1
  <2>4. QED
    BY <2>2, <2>3
<1> HIDE DEF Pushes
<1>2. ASSUME DrainOperations PROVE Pushes
  BY <1>2, <1>u DEF DrainOperations
<1>3. ASSUME \/ ExecSend \/ ExecSendAndClose \/ ExecDisconnect \/ ExecSetNoDelay
             \/ ExecClientClose \/ ExecDeleteSession
      PROVE  Pushes
  BY <1>3, <1>u DEF ExecSend, ExecSendAndClose, ExecDisconnect, ExecSetNoDelay, ExecClientClose,
     ExecDeleteSession
<1>4. ASSUME ExecConnect PROVE Pushes
  <2>1. PICK v \in SessionIds : v = Target
    BY <1>4, TargetType DEF ExecConnect, SessionOps
  <2>2. CASE UNCHANGED msgQue
    BY <1>u, <2>2
  <2>3. CASE PushMsgs(<<SessionMsg("CONNECT_FAIL", v)>>)
    BY <1>m, <2>3 DEF SessionMsgs
  <2>4. ASSUME NEW m, m = [msg |-> "CONNECT_FAIL", id |-> v, inst |-> inst'[v]], PushMsgs(<<m>>)
        PROVE  Pushes
    <3>1. m \in Msg /\ m # Exit
      BY <2>4 DEF Msg, SessionMsgs, Exit, TypeOK
    <3>2. <<m>> \in Seq(Msg) /\ DOMAIN <<m>> = {1} /\ <<m>>[1] = m
      BY <3>1
    <3>3. QED
      BY <2>4, <3>1, <3>2 DEF Has, Pushes
  <2>5. QED
    BY <1>4, <2>1, <2>2, <2>3, <2>4 DEF ExecConnect, CreateSession, Reconnect
<1>5. ASSUME ExecRemoveSession PROVE Pushes
  <2>1. PICK v \in SessionIds : v = Target
    BY <1>5, TargetType DEF ExecRemoveSession, SessionOps
  <2>2. UNCHANGED msgQue \/ PushMsgs(<<SessionMsg("REMOVE_SESSION", v)>>)
    BY <1>5, <2>1 DEF ExecRemoveSession
  <2>3. QED
    BY <1>m, <1>u, <2>2 DEF SessionMsgs
<1>6. ASSUME OnTimerUpdateRun PROVE Pushes
  <2>1. CASE StopLoop
    BY <1>u, <2>1 DEF StopLoop
  <2>2. CASE ClearSessions
    <3>1. PICK gone \in Ascending({id \in SessionIds : AwaitsRemoval(id)}) :
            PushMsgs([i \in DOMAIN gone |-> SessionMsg("REMOVE_SESSION", gone[i])])
      BY <2>2 DEF ClearSessions
    <3>2. PICK ms : ms = [i \in DOMAIN gone |-> SessionMsg("REMOVE_SESSION", gone[i])]
      OBVIOUS
    <3>3. /\ ms \in Seq(Msg)
          /\ \A i \in DOMAIN ms : ms[i] = Removal(gone[i])
      BY <3>2, TimerBatch
    <3>4. ~Has(ms, Exit)
      BY <3>3 DEF Has, Exit, Removal, SessionMsg
    <3>5. QED
      BY <3>1, <3>2, <3>3, <3>4 DEF Pushes
  <2>3. QED
    BY <1>6, <2>1, <2>2 DEF OnTimerUpdateRun
<1>7. ASSUME NEW id \in SessionIds, NEW status \in {0, UV_ETIMEDOUT, UV_ECONNREFUSED},
             NEW readStarted \in BOOLEAN, OnSocketConnect(id, status, readStarted)
      PROVE  Pushes
  <2>1. PICK k : k = ConnectMsg(ConnectStatus(status, readStarted))
    OBVIOUS
  <2>2. k \in SessionMsgs
    BY <2>1 DEF ConnectStatus, ConnectMsg, SessionMsgs
  <2>3. UNCHANGED msgQue \/ PushMsgs(<<SessionMsg(k, id)>>)
    BY <1>7, <2>1 DEF OnSocketConnect
  <2>4. QED
    BY <1>m, <1>u, <2>2, <2>3
<1>8. ASSUME NEW id \in SessionIds, OnRead(id) \/ OnReadEnd(id) \/ OnWriteDone(id) PROVE Pushes
  BY <1>8, <1>m, <1>u DEF OnRead, OnReadEnd, OnWriteDone, SessionMsgs
<1>9. ASSUME NEW id \in SessionIds, OnClose(id) PROVE Pushes
  <2>1. PICK d : d = SessionMsg("DIS_CONNECT", id)
    OBVIOUS
  <2>2. PICK r : r = SessionMsg("REMOVE_SESSION", id)
    OBVIOUS
  <2>3. d \in Msg /\ r \in Msg /\ d # Exit /\ r # Exit
    BY <2>1, <2>2, SessionMsgType DEF SessionMsgs, SessionMsg, Exit
  <2>4. PushMsgs(CloseMsgs(id))
    BY <1>9 DEF OnClose
  <2>5. CASE ~sess[id].removeTag
    <3>1. CloseMsgs(id) = <<d>>
      BY <2>1, <2>3, <2>5, NothingAhead DEF CloseMsgs
    <3>2. QED
      BY <1>m, <2>1, <2>4, <3>1 DEF SessionMsgs
  <2>6. CASE sess[id].removeTag
    <3>1. CloseMsgs(id) = <<d, r>>
      BY <2>1, <2>2, <2>3, <2>6, TwoMsgs DEF CloseMsgs
    <3>2. <<d, r>> \in Seq(Msg) /\ DOMAIN <<d, r>> = {1, 2} /\ <<d, r>>[1] = d /\ <<d, r>>[2] = r
      BY <2>3
    <3>3. ~Has(<<d, r>>, Exit)
      BY <2>3, <3>2 DEF Has
    <3>4. QED
      BY <2>4, <3>1, <3>2, <3>3 DEF Pushes
  <2>7. QED
    BY <2>5, <2>6
<1>10. Pushes
  BY <1>2, <1>3, <1>4, <1>5, <1>6, <1>7, <1>8, <1>9 DEF LoopThread, ExecuteOperation, ConnectAnswered
<1>11. PICK ms \in Seq(Msg) : PushMsgs(ms) /\ ~Has(ms, Exit)
  BY <1>10 DEF Pushes
<1>12. MsgsAhead' = MsgsAhead \o ms
  BY <1>1, <1>11, BatchPushed
<1>13. QED
  BY <1>1, <1>11, <1>12

LEMMA ToldClosed ==
  ASSUME TypeOK, NEW m \in Msg
  PROVE  /\ m = Exit => Told(m).closed = TRUE
         /\ m # Exit => m.msg # "EXIT_LOOP" /\ Told(m).closed = contract.closed
<1>1. m = Exit <=> m.msg = "EXIT_LOOP"
  BY DEF Msg, Exit, SessionMsgs
<1>2. CASE m.msg = "EXIT_LOOP"
  BY <1>1, <1>2 DEF Told, TypeOK, Contract
<1>3. CASE m.msg # "EXIT_LOOP"
  BY <1>1, <1>3 DEF Told, TypeOK, Contract
<1>4. QED
  BY <1>2, <1>3

LEMMA ExitStep ==
  ASSUME TypeOK, TypeOK', QueueShape, QueueShape', ExitInv, [Next]_vars
  PROVE  ExitInv'
<1>u. ASSUME MsgsAhead' = MsgsAhead, contract'.closed = contract.closed, loop' = loop
      PROVE  ExitInv'
  BY <1>u DEF ExitInv
<1>1. CASE LoopThread /\ ~RunEnds
  <2>1. loop # "ended" /\ UNCHANGED contract
    BY <1>1, LoopPushes
  <2>2. PICK ms \in Seq(Msg) : MsgsAhead' = MsgsAhead \o ms /\ ~Has(ms, Exit)
    BY <1>1, LoopPushes
  <2>3. ~contract'.closed /\ ~Has(MsgsAhead, Exit)
    BY <2>1 DEF ExitInv
  <2>4. ~Has(MsgsAhead', Exit)
    BY <2>2, <2>3, AheadType, ConcatHas
  <2>5. QED
    BY <2>3, <2>4 DEF ExitInv, Has, Last
<1>2. CASE RunEnds
  <2>1. Exit \in Msg /\ <<Exit>> \in Seq(Msg)
    BY DEF Exit, Msg
  <2>2. loop # "ended" /\ loop' = "ended" /\ UNCHANGED <<contract, msgDispatch>>
    BY <1>2 DEF RunEnds, appVars
  <2>3. msgQue' = Append(msgQue, Exit)
    BY <1>2, <2>1, AppendIsConcat DEF RunEnds, PushMsgs, Exit, TypeOK
  <2>4. MsgsAhead' = Append(MsgsAhead, Exit) /\ MsgsAhead \in Seq(Msg)
    <3>1. msgDispatch \in Seq(Msg) /\ msgQue \in Seq(Msg) /\ Exit \in Msg
      BY <2>1 DEF TypeOK
    <3>2. msgDispatch \o Append(msgQue, Exit) = Append(msgDispatch \o msgQue, Exit)
      BY <3>1, PushBehind
    <3>3. QED
      BY <2>2, <2>3, <3>2, AheadType DEF MsgsAhead
  <2>5. ~contract'.closed /\ Last(MsgsAhead, Exit, Msg) /\ ~Has(MsgsAhead, Exit)
    BY <2>2 DEF ExitInv
  <2>6. Last(MsgsAhead', Exit, Msg)
    BY <2>1, <2>4, <2>5, LastAppend
  <2>7. QED
    BY <2>2, <2>5, <2>6 DEF ExitInv
<1>3. CASE JoinReturns
  <2>1. loop' = "ended" /\ MsgsAhead' = <<>> /\ DOMAIN <<>> = {}
    BY <1>3, EmptySeq DEF JoinReturns, QueueShape
  <2>2. QED
    BY <2>1 DEF ExitInv, Last
<1>4. CASE DispatchMsg
  <2> DEFINE m == Head(msgDispatch)
  <2>1. /\ msgDispatch # <<>> /\ msgDispatch' = Tail(msgDispatch)
        /\ UNCHANGED <<msgQue, loop>> /\ contract' = Told(m)
    BY <1>4 DEF DispatchMsg
  <2>2. /\ MsgsAhead \in Seq(Msg) /\ MsgsAhead # <<>>
        /\ Head(MsgsAhead) = m /\ MsgsAhead' = Tail(MsgsAhead) /\ m \in Msg
    BY <2>1, MsgTaken DEF MsgsAhead
  <2> HIDE DEF m
  <2>3. /\ Last(MsgsAhead', Exit, Msg) /\ MsgsAhead' \in Seq(Msg)
        /\ m = Exit => \A i \in DOMAIN MsgsAhead' : MsgsAhead'[i] \notin Msg
        /\ Has(MsgsAhead', Exit) => Has(MsgsAhead, Exit)
        /\ m = Exit => Has(MsgsAhead, Exit)
    BY <2>2, AheadType, LastTail, HasTail DEF ExitInv
  <2>4. CASE m = Exit
    <3>1. loop' = "ended"
      BY <2>1, <2>3, <2>4 DEF ExitInv
    <3>2. \A i \in DOMAIN MsgsAhead' : MsgsAhead'[i] \in Msg
      BY <2>3, LenProperties
    <3>3. DOMAIN MsgsAhead' = {}
      BY <2>3, <2>4, <3>2
    <3>4. MsgsAhead' = <<>>
      BY <2>3, <3>3, LenProperties, EmptySeq
    <3>5. QED
      BY <2>3, <3>1, <3>4 DEF ExitInv
  <2>5. CASE m # Exit
    <3>1. contract'.closed = contract.closed /\ ~contract.closed
      BY <2>1, <2>2, <2>5, ToldClosed DEF ExitInv
    <3>2. QED
      BY <2>1, <2>3, <3>1 DEF ExitInv
  <2>6. QED
    BY <2>4, <2>5
<1>5. CASE Application /\ ~DispatchMsg /\ ~JoinReturns
  <2>1. contract'.closed = contract.closed /\ loop' = loop
    <3>1. ASSUME NEW id \in SessionIds, RemoveSession(id)
          PROVE  contract'.closed = contract.closed /\ loop' = loop
      BY <3>1 DEF RemoveSession, TypeOK, Contract
    <3>2. ASSUME CloseClient \/ Destroy
          PROVE  contract'.closed = contract.closed /\ loop' = loop
      BY <3>2 DEF CloseClient, Destroy, StopAndPush, TypeOK, Contract
    <3>3. QED
      BY <1>5, <3>1, <3>2 DEF Application, Connect, Disconnect, Send, SendAndClose, Request,
         SetSocketNoDelay, GetThreadMsg, appVars
  <2>2. MsgsAhead' = MsgsAhead
    <3>1. CASE GetThreadMsg
      <4>1. msgDispatch = <<>> /\ msgDispatch' = msgQue /\ msgQue' = <<>> /\ msgQue \in Seq(Msg)
        BY <3>1 DEF GetThreadMsg, TypeOK
      <4>2. QED
        BY <4>1, NothingAhead DEF MsgsAhead
    <3>2. CASE ~GetThreadMsg
      BY <1>5, <3>2 DEF Application, Connect, Disconnect, Send, SendAndClose, Request,
         RemoveSession, SetSocketNoDelay, CloseClient, Destroy, StopAndPush, MsgsAhead
    <3>3. QED
      BY <3>1, <3>2
  <2>3. QED
    BY <1>u, <2>1, <2>2
<1>6. CASE UNCHANGED vars
  BY <1>6, <1>u DEF vars, appVars, sharedVars, MsgsAhead
<1>7. QED
  BY <1>1, <1>2, <1>3, <1>4, <1>5, <1>6 DEF Next
-----------------------------------------------------------------------------
(* The contract.                                                           *)

LEMMA ViewStep ==
  ASSUME TypeOK, TypeOK', SocketState, QueueShape, RemovalInv, AskedInv, ViewInv, [Next]_vars
  PROVE  ViewInv'
<1>1. CASE Application
  BY <1>1, ViewApplication
<1>2. CASE LoopThread
  <2>1. CASE app = "gone"
    <3>1. loop = "ended" /\ opDispatch = <<>> /\ known = {}
      <4>1. opDispatch \in Seq(Op) /\ opQue \in Seq(Op)
        BY DEF TypeOK
      <4>2. QED
        BY <2>1 DEF QueueShape
    <3>2. ~LoopThread
      BY <3>1 DEF LoopThread, DrainOperations, ExecuteOperation, ExecSend, ExecSendAndClose,
         ExecDisconnect, ExecConnect, ExecSetNoDelay, ExecClientClose, ExecRemoveSession,
         ExecDeleteSession, Executes, OnTimerUpdateRun, RunEnds, ConnectAnswered,
         OnSocketConnect, OnRead, OnReadEnd, OnWriteDone, OnClose, SocketCallback
    <3>3. QED
      BY <1>2, <3>2
  <2>2. CASE app # "gone"
    BY <1>2, <2>2, ViewExecute, ViewTimer, ViewCallbacks DEF LoopThread
  <2>3. QED
    BY <2>1, <2>2
<1>3. CASE UNCHANGED vars
  BY <1>3 DEF vars, appVars, sharedVars, sessionVars, ViewInv, AllAgree, Agreement, Removing,
     Removal, SessionMsg, Deletion, SessionOp, MsgsAhead, OpsAhead
<1>4. QED
  BY <1>1, <1>2, <1>3 DEF Next

LEMMA ContractInit == Init => AskedInv /\ ViewInv /\ ExitInv /\ Promise!Init
<1> SUFFICES ASSUME Init PROVE AskedInv /\ ViewInv /\ ExitInv /\ Promise!Init
  OBVIOUS
<1>1. MsgsAhead = <<>> /\ OpsAhead = <<>> /\ DOMAIN <<>> = {}
  BY NothingAhead, EmptySeq DEF Init, MsgsAhead, OpsAhead
<1>2. AskedInv
  BY <1>1 DEF Init, AskedInv, Within, Last
<1>3. ExitInv
  BY <1>1 DEF Init, ExitInv, Has, Last
<1>4. Promise!Init
  BY DEF Init, Promise!Init
<1>5. ViewInv
  <2>1. contract.view = [id \in SessionIds |-> "absent"] /\ known = {}
    BY DEF Init
  <2>2. contract.view \in Views /\ \A id \in SessionIds : contract.view[id] = "absent"
    BY <2>1 DEF Views, ViewStates
  <2>3. PICK u : /\ Trace(u, <<>>, contract.asked) /\ u[0] = contract.view /\ Len(<<>>) = 0
    BY <2>2, TraceNone
  <2>4. AllAgree(u[Len(MsgsAhead)])
    BY <1>1, <2>1, <2>2, <2>3 DEF AllAgree, Agreement
  <2>5. QED
    BY <1>1, <2>3, <2>4 DEF ViewInv
<1>6. QED
  BY <1>2, <1>3, <1>4, <1>5

(* The first message makes a callback of the contract.                     *)
LEMMA ViewDispatch ==
  ASSUME TypeOK, ViewInv, ExitInv, DispatchMsg
  PROVE  Promised(Head(msgDispatch)) /\ Promise!Next
<1>1. PICK m : m = Head(msgDispatch)
  OBVIOUS
<1>2. /\ msgDispatch # <<>> /\ app # "gone" /\ contract' = Told(m)
  BY <1>1 DEF DispatchMsg
<1>3. /\ MsgsAhead \in Seq(Msg) /\ MsgsAhead # <<>> /\ Head(MsgsAhead) = m /\ m \in Msg
  BY <1>1, <1>2, MsgTaken DEF MsgsAhead
<1>4. PICK w : Trace(w, MsgsAhead, contract.asked) /\ w[0] = contract.view
  BY <1>2 DEF ViewInv
<1>5. Legal(contract.view, m, contract.asked)
  BY <1>3, <1>4, TraceTail
<1>6. ~contract.closed
  BY <1>3 DEF ExitInv
<1>7. /\ contract'.view = After(contract.view, m) /\ contract'.asked = contract.asked
      /\ m = Exit => contract'.closed = TRUE
      /\ m # Exit => m.msg # "EXIT_LOOP" /\ contract'.closed = contract.closed
  BY <1>2, <1>3, ToldView, ToldClosed
<1>8. CASE m = Exit
  <2>1. m.msg = "EXIT_LOOP"
    BY <1>8 DEF Exit
  <2>2. contract.asked = SessionIds /\ \A id \in SessionIds : contract.view[id] = "absent"
    BY <1>5, <2>1 DEF Legal
  <2>3. contract'.view = contract.view /\ contract'.closed = TRUE
    BY <1>7, <1>8, <2>1 DEF After
  <2>4. Promise!OnClose
    BY <1>6, <1>7, <2>2, <2>3 DEF Promise!OnClose
  <2>5. QED
    BY <1>1, <2>1, <2>4 DEF Promised, Promise!Next
<1>9. CASE m # Exit
  <2>1. PICK k \in SessionMsgs, id \in SessionIds : m.msg = k /\ m.id = id
    BY <1>3, <1>7, <1>9 DEF Msg
  <2>2. PICK x : x = contract.view[id]
    OBVIOUS
  <2>3. Allowed(x, k, id \in contract.asked)
    BY <1>5, <1>7, <1>9, <2>1, <2>2 DEF Legal
  <2>4. ASSUME NEW what, what = Becomes(x, k) PROVE Promise!Callback(id, what)
    <3>1. contract'.view = [contract.view EXCEPT ![id] = what]
      BY <1>7, <1>9, <2>1, <2>2, <2>4 DEF After
    <3>2. QED
      BY <1>6, <1>7, <1>9, <3>1 DEF Promise!Callback
  <2>5. CASE k = "CONNECT"
    <3>1. Promise!OnConnect(id)
      BY <2>2, <2>3, <2>4, <2>5 DEF Allowed, Becomes, Promise!OnConnect
    <3>2. QED
      BY <1>1, <2>1, <2>5, <3>1 DEF Promised, Promise!Next
  <2>6. CASE k \in {"CONNECT_FAIL", "CONNECT_TIMOUT"}
    <3>1. Promise!OnConnectFail(id)
      BY <2>2, <2>3, <2>4, <2>6 DEF Allowed, Becomes, Promise!OnConnectFail
    <3>2. QED
      BY <1>1, <2>1, <2>6, <3>1 DEF Promised, Promise!Next
  <2>7. CASE k = "RECV_DATA"
    <3>1. Promise!OnRecv(id)
      BY <2>2, <2>3, <2>4, <2>7 DEF Allowed, Becomes, Promise!OnRecv
    <3>2. QED
      BY <1>1, <2>1, <2>7, <3>1 DEF Promised, Promise!Next
  <2>8. CASE k = "DIS_CONNECT"
    <3>1. Promise!OnDisconnect(id)
      BY <2>2, <2>3, <2>4, <2>8 DEF Allowed, Becomes, Promise!OnDisconnect
    <3>2. QED
      BY <1>1, <2>1, <2>8, <3>1 DEF Promised, Promise!Next
  <2>9. CASE k = "REMOVE_SESSION"
    <3>1. Promise!OnRemove(id)
      BY <2>2, <2>3, <2>4, <2>9 DEF Allowed, Becomes, Promise!OnRemove
    <3>2. QED
      BY <1>1, <2>1, <2>9, <3>1 DEF Promised, Promise!Next
  <2>10. QED
    BY <2>5, <2>6, <2>7, <2>8, <2>9 DEF SessionMsgs
<1>10. QED
  BY <1>8, <1>9

(* Every other step is a request of the application, or not of the         *)
(* contract.                                                               *)
LEMMA OthersTellNothing ==
  ASSUME TypeOK, QueueShape, TypeOK', [Next]_vars, ~DispatchMsg
  PROVE  Promise!Next \/ UNCHANGED Promise!vars
<1>1. ASSUME UNCHANGED contract PROVE UNCHANGED Promise!vars
  BY <1>1 DEF Promise!vars
<1>2. ASSUME NEW id \in SessionIds, RemoveSession(id) PROVE Promise!Next
  <2>1. contract' = [contract EXCEPT !.asked = @ \cup {id}]
    BY <1>2 DEF RemoveSession
  <2>2. /\ contract'.asked = contract.asked \cup {id}
        /\ contract'.view = contract.view /\ contract'.closed = contract.closed
    BY <2>1 DEF TypeOK, Contract
  <2>3. Promise!Ask({id})
    BY <2>2 DEF Promise!Ask
  <2>4. QED
    BY <2>3 DEF Promise!Next
<1>3. ASSUME CloseClient \/ Destroy PROVE Promise!Next
  <2>1. contract' = [contract EXCEPT !.asked = SessionIds]
    BY <1>3 DEF CloseClient, Destroy, StopAndPush
  <2>2. /\ contract'.asked = contract.asked \cup SessionIds
        /\ contract'.view = contract.view /\ contract'.closed = contract.closed
    BY <2>1 DEF TypeOK, Contract
  <2>3. Promise!Ask(SessionIds)
    BY <2>2 DEF Promise!Ask
  <2>4. QED
    BY <2>3 DEF Promise!Next
<1>4. CASE LoopThread
  <2>1. UNCHANGED contract
    BY <1>4, LoopPushes DEF RunEnds, appVars
  <2>2. QED
    BY <1>1, <2>1
<1>5. CASE Application /\ ~(\E id \in SessionIds : RemoveSession(id)) /\ ~CloseClient /\ ~Destroy
  <2>1. UNCHANGED contract
    BY <1>5 DEF Application, Connect, Disconnect, Send, SendAndClose, Request, SetSocketNoDelay,
       GetThreadMsg, JoinReturns, appVars
  <2>2. QED
    BY <1>1, <2>1
<1>6. CASE UNCHANGED vars
  BY <1>1, <1>6 DEF vars, appVars
<1>7. QED
  BY <1>2, <1>3, <1>4, <1>5, <1>6 DEF Next

(* The callbacks of the application are those of SessionContract, in its   *)
(* order: every one that is made is a step of it, and of the other steps   *)
(* only removeSession and closeClient change what it speaks of.            *)
THEOREM ContractCorrect == SafeSpec => ImplementsContract
<1> DEFINE Inv == QueueShape /\ RemovalInv /\ AskedInv /\ ViewInv /\ ExitInv
<1>1. Init => Inv /\ Promise!Init
  BY RemovalInit, ContractInit
<1>2. TypeOK /\ TypeOK' /\ SocketState /\ Inv /\ [Next]_vars => Inv'
  BY QueueShapeStep, RemovalStep, AskedStep, ViewStep, ExitStep
<1>3. TypeOK /\ Inv /\ [Next]_vars => [DispatchMsg => Promised(Head(msgDispatch))]_vars
  BY ViewDispatch
<1>4. TypeOK /\ TypeOK' /\ Inv /\ [Next]_vars => [Promise!Next]_(Promise!vars)
  BY ViewDispatch, OthersTellNothing
<1> HIDE DEF Inv
<1>5. QED
  BY <1>1, <1>2, <1>3, <1>4, TypeCorrect, SocketStateCorrect, PTL
  DEF SafeSpec, ImplementsContract, Promise!Spec
-----------------------------------------------------------------------------
(* NoDelayConverges.  A session that is usable got the value of the flag   *)
(* when its connect completed or when SET_NO_DELAY was executed, and every *)
(* later change of the flag has left such an operation behind it.          *)

SetNoDelay == [op |-> "SET_NO_DELAY"]
Usable(s)  == s.handle = "open" /\ ~s.removeTag

DelayInv ==
  ~Has(OpsAhead, SetNoDelay) =>
    \A id \in known : Usable(sess[id]) => sess[id].noDelay = enableNoDelay

(* What becomes of one session: it is not usable, it has the value of the  *)
(* flag, or it has the value it had.                                       *)
DelayKept(s, t) ==
  Usable(t) => \/ t.noDelay = enableNoDelay
               \/ Usable(s) /\ t.noDelay = s.noDelay

LEMMA DelayOperators ==
  ASSUME NEW s \in Session
  PROVE  /\ DelayKept(s, ExecuteDisconnect(s))
         /\ DelayKept(s, [s EXCEPT !.removeTag = TRUE])
         /\ DelayKept(s, ExecuteDisconnect([s EXCEPT !.removeTag = TRUE]))
         /\ DelayKept(s, ExecuteDisconnect([s EXCEPT !.connectState = "DISCONNECTING"]))
         /\ \A t \in AfterSend(s) \cup AfterSendAndClose(s) : DelayKept(s, t)
         /\ ~Usable(Connecting(s))
         /\ DelayKept(s, ShutdownSocket(s))
         /\ DelayKept(s, [s EXCEPT !.closers = @ - 1])
         /\ ~Usable([SocketClosed(s) EXCEPT !.connectState = "DISCONNECT", !.noDelay = FALSE])
<1> USE DEF Session, Handles, States, HasTcp, ShutdownSocket, DelayKept, Usable
<1>1. /\ DelayKept(s, ExecuteDisconnect(s))
      /\ DelayKept(s, ExecuteDisconnect([s EXCEPT !.removeTag = TRUE]))
      /\ DelayKept(s, ExecuteDisconnect([s EXCEPT !.connectState = "DISCONNECTING"]))
  BY DEF ExecuteDisconnect
<1>2. /\ DelayKept(s, [s EXCEPT !.removeTag = TRUE])
      /\ DelayKept(s, [s EXCEPT !.closers = @ - 1])
      /\ DelayKept(s, [s EXCEPT !.closers = @ + 1])
      /\ DelayKept(s, s)
      /\ DelayKept(s, ShutdownSocket(s))
  OBVIOUS
<1>3. \A t \in AfterSend(s) \cup AfterSendAndClose(s) : DelayKept(s, t)
  <2> HIDE DEF DelayKept
  <2>1. QED
    BY <1>1, <1>2 DEF AfterSend, AfterSendAndClose
<1>4. /\ ~Usable(Connecting(s))
      /\ ~Usable([SocketClosed(s) EXCEPT !.connectState = "DISCONNECT", !.noDelay = FALSE])
  BY DEF Connecting, SocketClosed
<1>5. QED
  BY <1>1, <1>2, <1>3, <1>4

(* A step that leaves the flag alone and executes no SET_NO_DELAY.         *)
LEMMA DelayFrame ==
  ASSUME DelayInv, enableNoDelay' = enableNoDelay,
         Has(OpsAhead, SetNoDelay) => Has(OpsAhead', SetNoDelay),
         \A id \in known' : \/ ~Usable(sess'[id])
                            \/ id \in known /\ DelayKept(sess[id], sess'[id])
  PROVE  DelayInv'
BY DEF DelayInv, DelayKept, Usable, SetNoDelay

(* Only its execution takes a SET_NO_DELAY from the queues.                *)
LEMMA SetNoDelayKept ==
  ASSUME TypeOK, QueueShape, [Next]_vars, ~JoinReturns, ~ExecSetNoDelay
  PROVE  Has(OpsAhead, SetNoDelay) => Has(OpsAhead', SetNoDelay)
<1> DEFINE q == OpsAhead
           x == SetNoDelay
<1>1. q \in Seq(Op) /\ OpsMove
  BY AheadType, OpsMoves
<1>2. ASSUME ExecuteOperation, Head(q) = Head(opDispatch) PROVE Head(q) # x
  <2>1. \E o : Executes(o) /\ o # "SET_NO_DELAY"
    BY <1>2 DEF ExecuteOperation, ExecSend, ExecSendAndClose, ExecDisconnect, ExecConnect,
       ExecClientClose, ExecRemoveSession, ExecDeleteSession
  <2>2. QED
    BY <1>2, <2>1 DEF Executes, SetNoDelay
<1> HIDE DEF x
<1>3. ASSUME Has(q, x) PROVE Has(q', x)
  <2>1. CASE q # <<>> /\ q' = Tail(q) /\ Head(q) # x
    BY <1>1, <1>3, <2>1, HasTail
  <2>2. ASSUME NEW o \in Op, q' = Append(q, o) PROVE Has(q', x)
    BY <1>1, <1>3, <2>2, HasAppend
  <2>3. ASSUME NEW ops \in Seq(Op), q' = q \o ops PROVE Has(q', x)
    BY <1>1, <1>3, <2>3, ConcatHas
  <2>4. QED
    BY <1>1, <1>2, <1>3, <2>1, <2>2, <2>3 DEF OpsMove
<1>4. QED
  BY <1>3 DEF x, SetNoDelay

LEMMA DelayExecute ==
  ASSUME TypeOK, QueueShape, DelayInv, ExecuteOperation
  PROVE  DelayInv'
<1> USE DEF SessionOps
<1>s. \A id \in known : id \in SessionIds /\ sess[id] \in Session /\ DelayKept(sess[id], sess[id])
  BY DEF TypeOK, DelayKept
<1>e. enableNoDelay' = enableNoDelay
  BY DEF ExecuteOperation, ExecSend, ExecSendAndClose, ExecDisconnect, ExecConnect,
     ExecSetNoDelay, ExecClientClose, ExecRemoveSession, ExecDeleteSession, Executes, appVars
<1>k. ASSUME ~ExecSetNoDelay PROVE Has(OpsAhead, SetNoDelay) => Has(OpsAhead', SetNoDelay)
  <2>1. ~JoinReturns
    BY DEF ExecuteOperation, ExecSend, ExecSendAndClose, ExecDisconnect, ExecConnect,
       ExecSetNoDelay, ExecClientClose, ExecRemoveSession, ExecDeleteSession, Executes,
       appVars, JoinReturns
  <2>2. QED
    BY <1>k, <2>1, SetNoDelayKept DEF Next, LoopThread
<1>c. ASSUME ~ExecSetNoDelay, NEW id \in known, NEW s, ChangeSession(id, s),
             known' = known, DelayKept(sess[id], s)
      PROVE  DelayInv'
  <2>1. \A v \in known' : v \in known /\ DelayKept(sess[v], sess'[v])
    BY <1>c, <1>s DEF ChangeSession, TypeOK
  <2>2. QED
    BY <1>c, <1>e, <1>k, <2>1, DelayFrame
<1>d. ASSUME ~ExecSetNoDelay, NEW id \in SessionIds, NEW s, ChangeSession(id, s),
             \A v \in known' : v = id \/ v \in known, ~Usable(s)
      PROVE  DelayInv'
  <2>1. sess'[id] = s /\ \A v \in known' : v # id => v \in known /\ sess'[v] = sess[v]
    BY <1>d, <1>s DEF ChangeSession, TypeOK
  <2>2. \A v \in known' : \/ ~Usable(sess'[v])
                          \/ v \in known /\ DelayKept(sess[v], sess'[v])
    BY <1>d, <1>s, <2>1
  <2>3. QED
    BY <1>d, <1>e, <1>k, <2>2, DelayFrame
<1>u. ASSUME ~ExecSetNoDelay, UNCHANGED sess, known' \subseteq known PROVE DelayInv'
  BY <1>u, <1>e, <1>k, <1>s, DelayFrame
<1>o. ASSUME NEW o, o # "SET_NO_DELAY", Executes(o) PROVE ~ExecSetNoDelay
  BY <1>o DEF Executes, ExecSetNoDelay
<1>1. CASE ExecSend
  <2>1. Target \in SessionIds /\ ~ExecSetNoDelay
    BY <1>1, <1>o, TargetType DEF ExecSend
  <2>2. QED
    BY <1>1, <1>s, <1>c, <1>u, <2>1, DelayOperators DEF ExecSend
<1>2. CASE ExecSendAndClose
  <2>1. Target \in SessionIds /\ ~ExecSetNoDelay
    BY <1>2, <1>o, TargetType DEF ExecSendAndClose
  <2>2. QED
    BY <1>2, <1>s, <1>c, <1>u, <2>1, DelayOperators DEF ExecSendAndClose
<1>3. CASE ExecDisconnect
  <2>1. Target \in SessionIds /\ ~ExecSetNoDelay
    BY <1>3, <1>o, TargetType DEF ExecDisconnect
  <2>2. QED
    BY <1>3, <1>s, <1>c, <1>u, <2>1, DelayOperators DEF ExecDisconnect
<1>4. CASE ExecConnect
  <2>1. Target \in SessionIds /\ ~ExecSetNoDelay
    BY <1>4, <1>o, TargetType DEF ExecConnect
  <2>2. CASE CreateSession
    <3>1. /\ ~Usable(Connecting(NewSession))
          /\ ~Usable([NewSession EXCEPT !.connectState = "DISCONNECT"])
      BY NewSessionType, DelayOperators DEF Usable, NewSession
    <3>2. PICK s : ChangeSession(Target, s) /\ ~Usable(s)
      BY <2>2, <3>1 DEF CreateSession
    <3>3. \A v \in known' : v = Target \/ v \in known
      BY <2>2 DEF CreateSession
    <3>4. QED
      BY <1>d, <2>1, <3>2, <3>3
  <2>3. CASE Reconnect
    <3>1. Target \in known /\ known' = known
      BY <2>3 DEF Reconnect
    <3>2. CASE UNCHANGED sess
      BY <1>u, <2>1, <3>1, <3>2
    <3>3. \A v \in known' : v = Target \/ v \in known
      BY <3>1
    <3>4. CASE ChangeSession(Target, Connecting(sess[Target]))
      BY <1>d, <1>s, <2>1, <3>1, <3>3, <3>4, DelayOperators
    <3>5. CASE ChangeSession(Target, ExecuteDisconnect(sess[Target]))
      BY <1>c, <1>s, <2>1, <3>1, <3>3, <3>5, DelayOperators
    <3>6. QED
      BY <2>3, <3>2, <3>4, <3>5 DEF Reconnect
  <2>4. QED
    BY <1>4, <2>2, <2>3 DEF ExecConnect
<1>5. CASE ExecSetNoDelay
  <2>1. known' = known /\ enableNoDelay' = enableNoDelay
    BY <1>5, <1>e DEF ExecSetNoDelay
  <2>2. \A id \in known : Usable(sess'[id]) => sess'[id].noDelay = enableNoDelay
    BY <1>5, <1>s DEF ExecSetNoDelay, Usable, HasTcp, Session
  <2>3. QED
    BY <2>1, <2>2 DEF DelayInv, Usable
<1>6. CASE ExecClientClose
  BY <1>6, <1>u, <1>o DEF ExecClientClose, sessionVars
<1>7. CASE ExecRemoveSession
  <2>1. Target \in SessionIds /\ ~ExecSetNoDelay
    BY <1>7, <1>o, TargetType DEF ExecRemoveSession
  <2>2. QED
    BY <1>7, <1>s, <1>c, <1>u, <2>1, DelayOperators DEF ExecRemoveSession
<1>8. CASE ExecDeleteSession
  <2>1. Target \in SessionIds /\ ~ExecSetNoDelay
    BY <1>8, <1>o, TargetType DEF ExecDeleteSession
  <2>2. ~Usable(NewSession)
    BY DEF Usable, NewSession
  <2>3. QED
    <3>1. CASE UNCHANGED <<known, sess>>
      BY <1>u, <2>1, <3>1
    <3>2. CASE known' = known \ {Target} /\ ChangeSession(Target, NewSession)
      <4>1. ChangeSession(Target, NewSession) /\ \A v \in known' : v = Target \/ v \in known
        BY <3>2
      <4>2. QED
        BY <1>d, <2>1, <2>2, <4>1
    <3>3. QED
      BY <1>8, <3>1, <3>2 DEF ExecDeleteSession
<1>9. QED
  BY <1>1, <1>2, <1>3, <1>4, <1>5, <1>6, <1>7, <1>8 DEF ExecuteOperation

LEMMA DelayLoop ==
  ASSUME TypeOK, QueueShape, DelayInv, LoopThread, ~ExecuteOperation
  PROVE  DelayInv'
<1>s. \A id \in known : id \in SessionIds /\ sess[id] \in Session /\ DelayKept(sess[id], sess[id])
  BY DEF TypeOK, DelayKept
<1>e. enableNoDelay' = enableNoDelay /\ known' = known /\ ~JoinReturns
  <2>1. CASE DrainOperations \/ OnTimerUpdateRun \/ RunEnds
    BY <2>1 DEF DrainOperations, OnTimerUpdateRun, RunEnds, appVars, sessionVars, JoinReturns
  <2>2. ASSUME NEW id \in SessionIds, SocketCallback(id)
        PROVE  enableNoDelay' = enableNoDelay /\ known' = known /\ ~JoinReturns
    BY <2>2 DEF SocketCallback, appVars, JoinReturns
  <2>3. ASSUME NEW id \in SessionIds,
               ConnectAnswered(id) \/ OnRead(id) \/ OnReadEnd(id) \/ OnWriteDone(id) \/ OnClose(id)
        PROVE  SocketCallback(id)
    BY <2>3 DEF ConnectAnswered, OnSocketConnect, OnRead, OnReadEnd, OnWriteDone, OnClose
  <2>4. QED
    BY <2>1, <2>2, <2>3 DEF LoopThread
<1>k. Has(OpsAhead, SetNoDelay) => Has(OpsAhead', SetNoDelay)
  BY <1>e, SetNoDelayKept DEF ExecuteOperation, Next
<1>u. ASSUME UNCHANGED sess PROVE DelayInv'
  BY <1>u, <1>e, <1>k, <1>s, DelayFrame
<1>c. ASSUME NEW id \in known, NEW s, ChangeSession(id, s), DelayKept(sess[id], s)
      PROVE  DelayInv'
  <2>1. \A v \in known' : v \in known /\ DelayKept(sess[v], sess'[v])
    BY <1>c, <1>e, <1>s DEF ChangeSession, TypeOK
  <2>2. QED
    BY <1>e, <1>k, <2>1, DelayFrame
<1>1. CASE DrainOperations \/ StopLoop \/ RunEnds
  BY <1>1, <1>u DEF DrainOperations, StopLoop, RunEnds, sessionVars
<1>2. CASE ClearSessions
  <2>1. \A id \in known :
          sess'[id] \in {sess[id], [sess[id] EXCEPT !.removeTag = TRUE],
                         ExecuteDisconnect([sess[id] EXCEPT !.removeTag = TRUE])}
    BY <1>2, <1>s DEF ClearSessions
  <2>2. \A id \in known : DelayKept(sess[id], sess'[id])
    BY <1>s, <2>1, DelayOperators
  <2>3. QED
    BY <1>e, <1>k, <2>2, DelayFrame
<1>3. ASSUME NEW id \in SessionIds, NEW status, NEW readStarted,
             OnSocketConnect(id, status, readStarted)
      PROVE  DelayInv'
  <2> DEFINE suc == ConnectStatus(status, readStarted) = 1
             unwanted == suc /\ (stage # "START" \/ sess[id].removeTag)
             s == [sess[id] EXCEPT !.online = suc,
                                   !.connectState = IF suc THEN "CONNECT" ELSE "DISCONNECT",
                                   !.handle = IF suc THEN "open" ELSE "failed"]
  <2>1. /\ id \in known /\ sess[id] \in Session
        /\ ChangeSession(id, IF unwanted THEN ExecuteDisconnect(s)
                             ELSE IF suc THEN ApplyOptions(s) ELSE s)
    BY <1>3, <1>s DEF OnSocketConnect, SocketCallback
  <2>2. unwanted => ~Usable(ExecuteDisconnect(s))
    BY <2>1 DEF Session, ExecuteDisconnect, ShutdownSocket, HasTcp, Usable
  <2>3. suc => ApplyOptions(s).noDelay = enableNoDelay
    BY <2>1 DEF Session, ApplyOptions
  <2>4. ~suc => ~Usable(s)
    BY <2>1 DEF Session, Usable
  <2> HIDE DEF s, suc, unwanted
  <2>5. QED
    BY <1>c, <2>1, <2>2, <2>3, <2>4 DEF DelayKept
<1>4. ASSUME NEW id \in SessionIds, OnRead(id) \/ OnReadEnd(id) \/ OnWriteDone(id) \/ OnClose(id)
      PROVE  DelayInv'
  <2>1. id \in known /\ sess[id] \in Session
    BY <1>4, <1>s DEF OnRead, OnReadEnd, OnWriteDone, OnClose, SocketCallback
  <2>2. CASE OnRead(id)
    BY <2>2, <1>u DEF OnRead
  <2>3. CASE OnReadEnd(id)
    BY <2>1, <2>3, <1>c, DelayOperators DEF OnReadEnd
  <2>4. CASE OnWriteDone(id)
    BY <2>1, <2>4, <1>c, DelayOperators DEF OnWriteDone
  <2>5. CASE OnClose(id)
    <3> DEFINE t == [SocketClosed(sess[id]) EXCEPT !.connectState = "DISCONNECT",
                                                    !.noDelay = FALSE]
    <3>1. ChangeSession(id, t) /\ ~Usable(t)
      BY <2>1, <2>5, DelayOperators DEF OnClose
    <3> HIDE DEF t
    <3>2. QED
      BY <2>1, <3>1, <1>c DEF DelayKept
  <2>6. QED
    BY <1>4, <2>2, <2>3, <2>4, <2>5
<1>5. ASSUME NEW id \in SessionIds, ConnectAnswered(id) PROVE DelayInv'
  BY <1>3, <1>5 DEF ConnectAnswered
<1>6. CASE OnTimerUpdateRun
  BY <1>1, <1>2, <1>6 DEF OnTimerUpdateRun
<1>7. CASE DrainOperations \/ RunEnds
  BY <1>1, <1>7
<1>8. QED
  BY <1>4, <1>5, <1>6, <1>7 DEF LoopThread

LEMMA DelayApplication ==
  ASSUME TypeOK, QueueShape, DelayInv, Application
  PROVE  DelayInv'
<1>s. \A id \in known : DelayKept(sess[id], sess[id])
  BY DEF DelayKept
<1>1. CASE JoinReturns
  BY <1>1 DEF JoinReturns, DelayInv
<1>2. CASE SetSocketNoDelay
  <2>1. SetNoDelay \in Op
    BY DEF Op, ClientOps, SetNoDelay
  <2>2. OpsAhead' = Append(OpsAhead, SetNoDelay) /\ OpsAhead \in Seq(Op)
    BY <1>2, <2>1, OpPushed DEF SetSocketNoDelay, SetNoDelay
  <2>3. Has(OpsAhead', SetNoDelay)
    BY <2>1, <2>2, HasAppend
  <2>4. QED
    BY <2>3 DEF DelayInv, SetNoDelay
<1>3. CASE ~JoinReturns /\ ~SetSocketNoDelay
  <2>1. enableNoDelay' = enableNoDelay /\ known' = known /\ sess' = sess
    BY <1>3 DEF Application, Connect, Disconnect, Send, SendAndClose, Request, RemoveSession,
       CloseClient, Destroy, StopAndPush, GetThreadMsg, DispatchMsg, sessionVars, appVars
  <2>2. ~ExecSetNoDelay
    BY <1>3 DEF Application, Connect, Disconnect, Send, SendAndClose, Request, RemoveSession,
       CloseClient, Destroy, StopAndPush, GetThreadMsg, DispatchMsg, ExecSetNoDelay, Executes,
       appVars, Calls
  <2>3. Has(OpsAhead, SetNoDelay) => Has(OpsAhead', SetNoDelay)
    BY <1>3, <2>2, SetNoDelayKept DEF Next
  <2>4. QED
    BY <1>s, <2>1, <2>3, DelayFrame
<1>4. QED
  BY <1>1, <1>2, <1>3

(* NoDelayConverges: once no change of the flag is queued, every usable    *)
(* socket has its value, though the application writes the flag and the    *)
(* loop thread reads it with nothing between them: a connect that          *)
(* completes with the old value is followed by the operation that the      *)
(* change queued.                                                          *)
THEOREM NoDelayCorrect == SafeSpec => []NoDelayConverges
<1>1. Init => DelayInv
  BY DEF Init, DelayInv
<1>2. TypeOK /\ QueueShape /\ DelayInv /\ [Next]_vars => DelayInv'
  <2> SUFFICES ASSUME TypeOK, QueueShape, DelayInv, [Next]_vars PROVE DelayInv'
    OBVIOUS
  <2>1. CASE UNCHANGED vars
    BY <2>1 DEF vars, appVars, sharedVars, sessionVars, DelayInv, OpsAhead
  <2>2. QED
    BY <2>1, DelayApplication, DelayExecute, DelayLoop DEF Next
<1>3. TypeOK /\ DelayInv => NoDelayConverges
  <2> SUFFICES ASSUME TypeOK, DelayInv, \A o \in QueuedOps : o.op # "SET_NO_DELAY"
               PROVE  \A id \in known : Usable(sess[id]) => sess[id].noDelay = enableNoDelay
    BY DEF NoDelayConverges, Usable
  <2>1. ~Has(opDispatch, SetNoDelay) /\ ~Has(opQue, SetNoDelay)
    BY DEF QueuedOps, Has, SetNoDelay
  <2>2. ~Has(OpsAhead, SetNoDelay)
    BY <2>1, ConcatHas DEF OpsAhead, TypeOK
  <2>3. QED
    BY <2>2 DEF DelayInv
<1>4. SafeSpec => []QueueShape
  BY RemovalInit, TypeCorrect, QueueShapeStep, PTL DEF SafeSpec
<1>5. QED
  BY <1>1, <1>2, <1>3, <1>4, TypeCorrect, PTL DEF SafeSpec
-----------------------------------------------------------------------------
(* OrphanCause.  A session whose removal is under way stays so until it is *)
(* freed, and whoever else makes a session Removed announces its removal.  *)

Lost(id) == id \in known /\ Removed(sess[id]) /\ ~Removing(id)

LEMMA OrphanIsLost ==
  ASSUME TypeOK, RemovalInv, NEW id \in SessionIds
  PROVE  Orphan(id) <=> Lost(id)
<1>1. Removals(id) = 0 <=> ~Removing(id)
  BY RemovalsCount DEF Removals, Removing
<1>2. QED
  BY <1>1 DEF Orphan, Lost, Removed

LEMMA Announced ==
  ASSUME TypeOK, NEW ms \in Seq(Msg), PushMsgs(ms), UNCHANGED <<msgDispatch, inst>>,
         NEW id \in SessionIds, Has(ms, Removal(id))
  PROVE  Removing(id)'
<1>1. MsgsAhead' = MsgsAhead \o ms
  BY BatchPushed
<1>2. Has(MsgsAhead', Removal(id))
  BY <1>1, AheadType, ConcatHas
<1>3. Removal(id)' = Removal(id)
  BY DEF Removal, SessionMsg
<1>4. QED
  BY <1>2, <1>3 DEF Removing

LEMMA RemovingGoesOn ==
  ASSUME TypeOK, TypeOK', QueueShape, RemovalInv, [Next]_vars,
         NEW id \in SessionIds, Removing(id), id \in known'
  PROVE  Removing(id)'
<1>0. id \in known /\ Removed(sess[id])
  BY DEF RemovalInv
<1>1. CASE JoinReturns
  BY <1>1 DEF JoinReturns
<1>2. CASE DispatchMsg
  <2> DEFINE m == Head(msgDispatch)
  <2>1. /\ msgDispatch # <<>> /\ msgDispatch' = Tail(msgDispatch)
        /\ UNCHANGED <<msgQue, opDispatch, inst>>
    BY <1>2 DEF DispatchMsg, sessionVars
  <2>2. MsgsAhead # <<>> /\ MsgsAhead' = Tail(MsgsAhead) /\ Head(MsgsAhead) = m
    BY <2>1, MsgTaken DEF MsgsAhead
  <2>3. Removal(id)' = Removal(id)
    BY <2>1 DEF Removal, SessionMsg
  <2>4. \/ UNCHANGED opQue
        \/ PushOp(SessionOp("DELETE_SESSION", m.id)) /\ m.id \in SessionIds
    <3>1. m \in Msg
      BY <2>1, HeadTailProperties DEF TypeOK
    <3>2. QED
      BY <1>2, <3>1 DEF DispatchMsg, Msg
  <2>5. Has(OpsAhead, Deletion(id)) => Has(OpsAhead', Deletion(id))
    <3>1. CASE UNCHANGED opQue
      BY <2>1, <3>1 DEF OpsAhead
    <3>2. ASSUME NEW v \in SessionIds, PushOp(SessionOp("DELETE_SESSION", v))
          PROVE  Has(OpsAhead, Deletion(id)) => Has(OpsAhead', Deletion(id))
      <4>1. PICK o : o = SessionOp("DELETE_SESSION", v)
        OBVIOUS
      <4>2. o \in Op /\ PushOp(o)
        BY <3>2, <4>1, SessionOpType DEF SessionOps
      <4>3. OpsAhead' = Append(OpsAhead, o) /\ OpsAhead \in Seq(Op)
        BY <2>1, <4>2, OpPushed
      <4>4. QED
        BY <4>2, <4>3, HasAppend
    <3>3. QED
      BY <2>4, <3>1, <3>2
  <2>6. CASE m = Removal(id)
    <3>1. PICK o : o = Deletion(id)
      OBVIOUS
    <3>2. o \in Op
      BY <3>1, SessionOpType DEF SessionOps, Deletion
    <3>3. PushOp(o)
      BY <1>2, <2>6, <3>1 DEF DispatchMsg, Removal, SessionMsg, Deletion
    <3>4. OpsAhead' = Append(OpsAhead, o) /\ OpsAhead \in Seq(Op)
      BY <2>1, <3>2, <3>3, OpPushed
    <3>5. Has(OpsAhead', o)
      BY <3>2, <3>4, HasAppend
    <3>6. QED
      BY <3>1, <3>5 DEF Removing, Deletion, SessionOp
  <2>7. CASE m # Removal(id)
    <3>1. Has(MsgsAhead, Removal(id)) => Has(MsgsAhead', Removal(id))
      BY <2>2, <2>7, AheadType, HasTail
    <3>2. QED
      BY <2>3, <2>5, <3>1 DEF Removing, Deletion, SessionOp
  <2>8. QED
    BY <2>6, <2>7
<1>3. CASE Application /\ ~DispatchMsg /\ ~JoinReturns
  <2>1. UNCHANGED <<known, inst>>
    BY <1>3 DEF Application, Connect, Disconnect, Send, SendAndClose, Request, RemoveSession,
       SetSocketNoDelay, CloseClient, Destroy, StopAndPush, GetThreadMsg, sessionVars
  <2>2. MsgsAhead' = MsgsAhead
    <3>1. CASE GetThreadMsg
      BY <3>1, NothingAhead DEF GetThreadMsg, MsgsAhead, TypeOK
    <3>2. CASE ~GetThreadMsg
      <4>1. UNCHANGED <<msgDispatch, msgQue>>
        BY <1>3, <3>2 DEF Application, Connect, Disconnect, Send, SendAndClose, Request,
           RemoveSession, SetSocketNoDelay, CloseClient, Destroy, StopAndPush
      <4>2. QED
        BY <4>1 DEF MsgsAhead
    <3>3. QED
      BY <3>1, <3>2
  <2>3. SameDels
    BY <1>3, DelsKept
  <2>4. QED
    BY <2>1, <2>2, <2>3, RemovingKept
<1>4. CASE LoopThread /\ ~ExecDeleteSession
  <2>1. SameDels
    BY <1>4, DelsKept
  <2>2. \E ms \in Seq(Msg) : MsgsAhead' = MsgsAhead \o ms
    <3>1. CASE RunEnds
      <4> DEFINE ms == <<[msg |-> "EXIT_LOOP"]>>
      <4>1. ms \in Seq(Msg)
        BY DEF Msg
      <4>2. PushMsgs(ms) /\ msgDispatch' = msgDispatch
        BY <3>1 DEF RunEnds
      <4> HIDE DEF ms
      <4>3. QED
        BY <4>1, <4>2, BatchPushed
    <3>2. CASE ~RunEnds
      BY <1>4, <3>2, LoopPushes
    <3>3. QED
      BY <3>1, <3>2
  <2>3. \A v \in known : inst'[v] = inst[v]
    <3>1. CASE ExecConnect
      BY <3>1 DEF ExecConnect, CreateSession, Reconnect, TypeOK
    <3>2. CASE ~ExecConnect
      <4>1. CASE DrainOperations \/ ExecuteOperation \/ OnTimerUpdateRun \/ RunEnds
        BY <3>2, <4>1 DEF DrainOperations, ExecuteOperation, ExecSend, ExecSendAndClose,
           ExecDisconnect, ExecSetNoDelay, ExecClientClose, ExecRemoveSession,
           ExecDeleteSession, OnTimerUpdateRun, RunEnds, sessionVars
      <4>2. ASSUME NEW x \in SessionIds,
                   \/ ConnectAnswered(x) \/ OnRead(x) \/ OnReadEnd(x)
                   \/ OnWriteDone(x) \/ OnClose(x)
            PROVE  inst' = inst
        BY <4>2 DEF ConnectAnswered, OnSocketConnect, OnRead, OnReadEnd, OnWriteDone, OnClose,
           SocketCallback
      <4>3. QED
        BY <1>4, <4>1, <4>2 DEF LoopThread
    <3>3. QED
      BY <3>1, <3>2
  <2>4. QED
    BY <2>1, <2>2, <2>3, RemovingPushed
<1>5. CASE ExecDeleteSession
  <2>v. PICK v \in SessionIds : v = Target
    BY <1>5, TargetType DEF ExecDeleteSession, SessionOps
  <2>1. UNCHANGED <<msgDispatch, msgQue, inst, opQue>>
    BY <1>5 DEF ExecDeleteSession, Executes
  <2>2. (v \in known /\ sess[v].removeTag) => known' = known \ {v}
    BY <1>5, <2>v DEF ExecDeleteSession
  <2>p. opDispatch # <<>> /\ opDispatch' = Tail(opDispatch)
    BY <1>5 DEF ExecDeleteSession, Executes
  <2>s. opDispatch \in Seq(Op) /\ opQue \in Seq(Op)
    BY DEF TypeOK
  <2>3. OpsAhead # <<>> /\ Head(OpsAhead) = Head(opDispatch) /\ OpsAhead' = Tail(OpsAhead)
    BY <2>1, <2>p, <2>s, PopInFront DEF OpsAhead
  <2>4. Head(OpsAhead) # Deletion(id)
    <3>1. v # id
      BY <1>0, <2>2 DEF Removed
    <3>2. QED
      BY <2>3, <2>v, <3>1 DEF Target, Deletion, SessionOp
  <2>5. Has(OpsAhead, Deletion(id)) => Has(OpsAhead', Deletion(id))
    BY <2>3, <2>4, AheadType, HasTail
  <2>6. MsgsAhead' = MsgsAhead /\ Removal(id)' = Removal(id)
    BY <2>1 DEF MsgsAhead, Removal, SessionMsg
  <2>7. QED
    BY <2>5, <2>6 DEF Removing, Deletion, SessionOp
<1>6. CASE UNCHANGED vars
  BY <1>6 DEF vars, appVars, sharedVars, sessionVars, Removing, MsgsAhead, OpsAhead, Removal,
     Deletion, SessionMsg, SessionOp
<1>7. QED
  BY <1>1, <1>2, <1>3, <1>4, <1>5, <1>6 DEF Next
(* What a step makes Removed, and does not announce: a session whose       *)
(* connect failed after it was tagged.                                     *)
Tagged(id) == sess[id].connectState = "CONNECTING" /\ sess[id].removeTag

LEMMA SameRemoved ==
  ASSUME NEW s \in Session
  PROVE  /\ Removed(ExecuteDisconnect(s)) => Removed(s)
         /\ \A t \in AfterSend(s) \cup AfterSendAndClose(s) : Removed(t) => Removed(s)
         /\ ~Removed(ExecuteDisconnect([s EXCEPT !.connectState = "DISCONNECTING"]))
         /\ s.connectState # "DISCONNECT" =>
              ~Removed(ExecuteDisconnect([s EXCEPT !.removeTag = TRUE]))
         /\ ~Removed(Connecting(s))
         /\ Removed(ShutdownSocket(s)) => Removed(s)
         /\ Removed([s EXCEPT !.closers = @ - 1]) => Removed(s)
<1> USE DEF Session, Removed, ShutdownSocket
<1>1. Removed(ExecuteDisconnect(s)) => Removed(s)
  BY DEF ExecuteDisconnect
<1>2. \A t \in AfterSend(s) \cup AfterSendAndClose(s) : Removed(t) => Removed(s)
  BY <1>1 DEF AfterSend, AfterSendAndClose
<1>3. /\ ~Removed(ExecuteDisconnect([s EXCEPT !.connectState = "DISCONNECTING"]))
      /\ s.connectState # "DISCONNECT" =>
           ~Removed(ExecuteDisconnect([s EXCEPT !.removeTag = TRUE]))
  BY DEF ExecuteDisconnect
<1>4. /\ ~Removed(Connecting(s))
      /\ Removed(ShutdownSocket(s)) => Removed(s)
      /\ Removed([s EXCEPT !.closers = @ - 1]) => Removed(s)
  BY DEF Connecting
<1>5. QED
  BY <1>1, <1>2, <1>3, <1>4

LEMMA LostExecute ==
  ASSUME TypeOK, ExecuteOperation, NEW id \in SessionIds, id \in known', Removed(sess'[id]),
         ~(id \in known /\ Removed(sess[id]))
  PROVE  Removing(id)'
<1> USE DEF SessionOps
<1>s. sess \in [SessionIds -> Session]
  BY DEF TypeOK
<1>c. ASSUME NEW v \in SessionIds, NEW s, ChangeSession(v, s)
      PROVE  sess'[v] = s /\ \A x \in SessionIds : x # v => sess'[x] = sess[x]
  BY <1>s, <1>c DEF ChangeSession
<1>d. ASSUME NEW v \in SessionIds, NEW s, ChangeSession(v, s), known' = known,
             Removed(s) => v \in known /\ Removed(sess[v])
      PROVE  FALSE
  <2>1. CASE id = v
    BY <1>c, <1>d, <2>1
  <2>2. CASE id # v
    BY <1>c, <1>d, <2>2
  <2>3. QED
    BY <2>1, <2>2
<1>1. CASE ExecSend
  <2>1. PICK v \in SessionIds : v = Target
    BY <1>1, TargetType DEF ExecSend
  <2>2. QED
    BY <1>1, <1>s, <1>d, <2>1, SameRemoved DEF ExecSend
<1>2. CASE ExecSendAndClose
  <2>1. PICK v \in SessionIds : v = Target
    BY <1>2, TargetType DEF ExecSendAndClose
  <2>2. QED
    BY <1>2, <1>s, <1>d, <2>1, SameRemoved DEF ExecSendAndClose
<1>3. CASE ExecDisconnect
  <2>1. PICK v \in SessionIds : v = Target
    BY <1>3, TargetType DEF ExecDisconnect
  <2>2. QED
    BY <1>3, <1>s, <1>d, <2>1, SameRemoved DEF ExecDisconnect
<1>4. CASE ExecConnect
  <2>1. PICK v \in SessionIds : v = Target
    BY <1>4, TargetType DEF ExecConnect
  <2>2. CASE CreateSession
    <3>1. PICK s : ChangeSession(v, s) /\ ~Removed(s)
      <4>1. /\ ~Removed(Connecting(NewSession))
            /\ ~Removed([NewSession EXCEPT !.connectState = "DISCONNECT"])
        BY NewSessionType, SameRemoved DEF Removed, NewSession
      <4>2. QED
        BY <2>1, <2>2, <4>1 DEF CreateSession
    <3>2. \A x \in known' : x = v \/ x \in known
      BY <2>1, <2>2 DEF CreateSession
    <3>3. sess'[v] = s /\ \A x \in SessionIds : x # v => sess'[x] = sess[x]
      BY <1>c, <3>1
    <3>4. QED
      BY <3>1, <3>2, <3>3
  <2>3. CASE Reconnect
    <3>1. known' = known
      BY <2>3 DEF Reconnect
    <3>2. CASE UNCHANGED sess
      BY <3>1, <3>2
    <3>3. CASE ChangeSession(v, Connecting(sess[v]))
      BY <1>d, <1>s, <3>1, <3>3, SameRemoved
    <3>4. CASE ~sess[v].removeTag /\ ChangeSession(v, ExecuteDisconnect(sess[v]))
      <4>1. ~Removed(ExecuteDisconnect(sess[v]))
        BY <1>s, <3>4, SameRemoved DEF Removed
      <4>2. QED
        BY <1>d, <3>1, <3>4, <4>1
    <3>5. QED
      BY <2>1, <2>3, <3>2, <3>3, <3>4 DEF Reconnect
  <2>4. QED
    BY <1>4, <2>2, <2>3 DEF ExecConnect
<1>5. CASE ExecSetNoDelay
  <2>1. known' = known
    BY <1>5 DEF ExecSetNoDelay
  <2>2. sess'[id] \in {sess[id], [sess[id] EXCEPT !.noDelay = enableNoDelay]}
    BY <1>5 DEF ExecSetNoDelay
  <2>3. QED
    BY <1>s, <2>1, <2>2 DEF Removed, Session
<1>6. CASE ExecClientClose
  BY <1>6 DEF ExecClientClose, sessionVars
<1>7. CASE ExecRemoveSession
  <2>1. PICK v \in SessionIds : v = Target
    BY <1>7, TargetType DEF ExecRemoveSession
  <2>2. UNCHANGED <<known, inst, msgDispatch>>
    BY <1>7 DEF ExecRemoveSession, Executes
  <2>3. CASE v \notin known
    BY <1>7, <2>1, <2>2, <2>3 DEF ExecRemoveSession
  <2>4. CASE v \in known /\ sess[v].connectState # "DISCONNECT"
    <3>1. ChangeSession(v, ExecuteDisconnect([sess[v] EXCEPT !.removeTag = TRUE]))
      BY <1>7, <2>1, <2>4 DEF ExecRemoveSession
    <3>2. ~Removed(ExecuteDisconnect([sess[v] EXCEPT !.removeTag = TRUE]))
      BY <1>s, <2>4, SameRemoved
    <3>3. QED
      BY <1>d, <2>2, <3>1, <3>2
  <2>5. CASE v \in known /\ sess[v].connectState = "DISCONNECT"
    <3>1. /\ ChangeSession(v, [sess[v] EXCEPT !.removeTag = TRUE])
          /\ ~sess[v].removeTag => PushMsgs(<<Removal(v)>>)
      BY <1>7, <2>1, <2>5 DEF ExecRemoveSession, Removal
    <3>2. CASE sess[v].removeTag
      BY <1>d, <2>2, <2>5, <3>1, <3>2 DEF Removed
    <3>3. CASE ~sess[v].removeTag
      <4>1. PICK m : m = Removal(v)
        OBVIOUS
      <4>2. m \in Msg
        BY <4>1, SessionMsgType DEF Removal, SessionMsgs
      <4>3. <<m>> \in Seq(Msg) /\ Has(<<m>>, m) /\ PushMsgs(<<m>>)
        BY <3>1, <3>3, <4>1, <4>2 DEF Has
      <4>4. Removing(v)'
        BY <2>2, <4>1, <4>3, Announced
      <4>5. CASE id = v
        BY <4>4, <4>5
      <4>6. CASE id # v
        BY <1>c, <2>2, <3>1, <4>6
      <4>7. QED
        BY <4>5, <4>6
    <3>4. QED
      BY <3>2, <3>3
  <2>6. QED
    BY <2>3, <2>4, <2>5
<1>8. CASE ExecDeleteSession
  <2>1. PICK v \in SessionIds : v = Target
    BY <1>8, TargetType DEF ExecDeleteSession
  <2>2. CASE UNCHANGED <<known, sess>>
    BY <2>2
  <2>3. CASE known' = known \ {v} /\ ChangeSession(v, NewSession)
    BY <1>c, <2>3
  <2>4. QED
    BY <1>8, <2>1, <2>2, <2>3 DEF ExecDeleteSession
<1>9. QED
  BY <1>1, <1>2, <1>3, <1>4, <1>5, <1>6, <1>7, <1>8 DEF ExecuteOperation

LEMMA LostLoop ==
  ASSUME TypeOK, SocketState, LoopThread, ~ExecuteOperation, NEW id \in SessionIds,
         id \in known', Removed(sess'[id]), ~(id \in known /\ Removed(sess[id]))
  PROVE  Removing(id)' \/ Tagged(id)
<1>s. sess \in [SessionIds -> Session]
  BY DEF TypeOK
<1>c. ASSUME NEW v \in SessionIds, NEW s, ChangeSession(v, s)
      PROVE  sess'[v] = s /\ \A x \in SessionIds : x # v => sess'[x] = sess[x]
  BY <1>s, <1>c DEF ChangeSession
<1>d. ASSUME NEW v \in SessionIds, NEW s, ChangeSession(v, s), known' = known,
             Removed(s) => v \in known /\ Removed(sess[v])
      PROVE  FALSE
  <2>1. CASE id = v
    BY <1>c, <1>d, <2>1
  <2>2. CASE id # v
    BY <1>c, <1>d, <2>2
  <2>3. QED
    BY <2>1, <2>2
<1>1. ASSUME DrainOperations \/ RunEnds \/ (OnTimerUpdateRun /\ StopLoop) PROVE FALSE
  BY <1>1 DEF DrainOperations, RunEnds, OnTimerUpdateRun, StopLoop, sessionVars
<1>2. CASE OnTimerUpdateRun /\ ClearSessions
  <2>1. UNCHANGED <<known, inst, msgDispatch>>
    BY <1>2 DEF OnTimerUpdateRun
  <2>2. AwaitsRemoval(id)
    <3>1. sess'[id] \in {sess[id], ExecuteDisconnect([sess[id] EXCEPT !.removeTag = TRUE])}
            \/ AwaitsRemoval(id)
      BY <1>2 DEF ClearSessions
    <3>2. sess'[id] = ExecuteDisconnect([sess[id] EXCEPT !.removeTag = TRUE])
            => sess[id].connectState = "CONNECT" \/ sess'[id] = sess[id] \/ AwaitsRemoval(id)
      BY <1>2 DEF ClearSessions
    <3>3. sess[id].connectState = "CONNECT" =>
            ~Removed(ExecuteDisconnect([sess[id] EXCEPT !.removeTag = TRUE]))
      BY <1>s, SameRemoved
    <3>4. QED
      BY <2>1, <3>1, <3>2, <3>3
  <2>3. PICK gone \in Ascending({v \in SessionIds : AwaitsRemoval(v)}) :
          PushMsgs([i \in DOMAIN gone |-> SessionMsg("REMOVE_SESSION", gone[i])])
    BY <1>2 DEF ClearSessions
  <2>4. PICK ms : ms = [i \in DOMAIN gone |-> SessionMsg("REMOVE_SESSION", gone[i])]
    OBVIOUS
  <2>5. /\ ms \in Seq(Msg)
        /\ \A i \in DOMAIN ms : ms[i] = Removal(gone[i])
        /\ \E i \in DOMAIN ms : gone[i] = id
    BY <2>2, <2>4, TimerBatch
  <2>6. Has(ms, Removal(id)) /\ PushMsgs(ms)
    BY <2>3, <2>4, <2>5 DEF Has
  <2>7. QED
    BY <2>1, <2>5, <2>6, Announced
<1>3. ASSUME NEW v \in SessionIds, NEW status, NEW readStarted,
             OnSocketConnect(v, status, readStarted)
      PROVE  Tagged(id)
  <2> DEFINE suc == ConnectStatus(status, readStarted) = 1
             unwanted == suc /\ (stage # "START" \/ sess[v].removeTag)
             s == [sess[v] EXCEPT !.online = suc,
                                  !.connectState = IF suc THEN "CONNECT" ELSE "DISCONNECT",
                                  !.handle = IF suc THEN "open" ELSE "failed"]
  <2>1. /\ v \in known /\ known' = known /\ sess[v].handle = "connecting"
        /\ ChangeSession(v, IF unwanted THEN ExecuteDisconnect(s)
                            ELSE IF suc THEN ApplyOptions(s) ELSE s)
    BY <1>3 DEF OnSocketConnect, SocketCallback
  <2>2. sess[v].connectState = "CONNECTING"
    BY <2>1 DEF SocketState, SocketAgrees
  <2>3. suc => ~Removed(ExecuteDisconnect(s)) /\ ~Removed(ApplyOptions(s))
    BY <1>s DEF Session, Removed, ExecuteDisconnect, ShutdownSocket, ApplyOptions
  <2>4. Removed(s) => sess[v].removeTag
    BY <1>s DEF Session, Removed
  <2> HIDE DEF s, suc, unwanted
  <2>5. CASE id # v
    BY <1>c, <2>1, <2>5
  <2>6. CASE id = v
    <3>1. sess'[v] = IF unwanted THEN ExecuteDisconnect(s)
                     ELSE IF suc THEN ApplyOptions(s) ELSE s
      BY <1>c, <2>1
    <3>2. unwanted => suc
      BY DEF unwanted
    <3>3. QED
      BY <2>2, <2>3, <2>4, <2>6, <3>1, <3>2 DEF Tagged
  <2>7. QED
    BY <2>5, <2>6
<1>4. ASSUME NEW v \in SessionIds, OnRead(v) \/ OnReadEnd(v) \/ OnWriteDone(v)
      PROVE  FALSE
  <2>1. v \in known /\ known' = known
    BY <1>4 DEF OnRead, OnReadEnd, OnWriteDone, SocketCallback
  <2>2. CASE OnRead(v)
    BY <2>1, <2>2 DEF OnRead
  <2>3. CASE OnReadEnd(v)
    BY <1>d, <1>s, <2>1, <2>3, SameRemoved DEF OnReadEnd
  <2>4. CASE OnWriteDone(v)
    BY <1>d, <1>s, <2>1, <2>4, SameRemoved DEF OnWriteDone
  <2>5. QED
    BY <1>4, <2>2, <2>3, <2>4
<1>5. ASSUME NEW v \in SessionIds, OnClose(v)
      PROVE  Removing(id)'
  <2> DEFINE t == [SocketClosed(sess[v]) EXCEPT !.connectState = "DISCONNECT",
                                                 !.noDelay = FALSE]
  <2>1. /\ v \in known /\ UNCHANGED <<known, inst, msgDispatch>>
        /\ ChangeSession(v, t) /\ PushMsgs(CloseMsgs(v))
    BY <1>5 DEF OnClose, SocketCallback
  <2>2. t.removeTag = sess[v].removeTag
    BY <1>s DEF SocketClosed, Session
  <2> HIDE DEF t
  <2>3. CASE id # v
    BY <1>c, <2>1, <2>3
  <2>4. CASE id = v
    <3>1. sess[v].removeTag
      BY <1>c, <2>1, <2>2, <2>4 DEF Removed
    <3>2. PICK d : d = SessionMsg("DIS_CONNECT", v)
      OBVIOUS
    <3>3. PICK r : r = Removal(v)
      OBVIOUS
    <3>4. d \in Msg /\ r \in Msg
      BY <3>2, <3>3, SessionMsgType DEF SessionMsgs, Removal
    <3>5. CloseMsgs(v) = <<d, r>>
      BY <3>1, <3>2, <3>3, <3>4, TwoMsgs DEF CloseMsgs, Removal
    <3>6. /\ <<d, r>> \in Seq(Msg) /\ DOMAIN <<d, r>> = {1, 2} /\ <<d, r>>[2] = r
      BY <3>4
    <3>7. Has(<<d, r>>, r) /\ PushMsgs(<<d, r>>)
      BY <2>1, <3>5, <3>6 DEF Has
    <3>8. QED
      BY <2>1, <2>4, <3>3, <3>6, <3>7, Announced
  <2>5. QED
    BY <2>3, <2>4
<1>6. ASSUME NEW v \in SessionIds, ConnectAnswered(v) PROVE Tagged(id)
  BY <1>3, <1>6 DEF ConnectAnswered
<1>7. OnTimerUpdateRun => ClearSessions \/ StopLoop
  BY DEF OnTimerUpdateRun
<1>8. QED
  BY <1>1, <1>2, <1>4, <1>5, <1>6, <1>7 DEF LoopThread

(* OrphanCause: the one way to a session that nothing will ever delete is  *)
(* removeSession while it connects, followed by a connect that fails.      *)
(* Every other step that leaves a session tagged and disconnected has      *)
(* queued its removal, and no removal that is queued is ever dropped       *)
(* without the session.                                                    *)
THEOREM OrphanCauseCorrect == SafeSpec => OrphanCause
<1> DEFINE Inv  == TypeOK /\ SocketState /\ QueueShape /\ RemovalInv
           Same == \A id \in SessionIds : Orphan(id) <=> Lost(id)
<1>1. ASSUME Inv, Inv', Same, Same', [Next]_vars,
             NEW id \in SessionIds, ~Orphan(id), Orphan(id)'
      PROVE  Tagged(id)
  <2>1. ~Lost(id) /\ Lost(id)'
    BY <1>1
  <2>2. id \in known' /\ Removed(sess'[id]) /\ ~Removing(id)'
    BY <2>1 DEF Lost, Removed
  <2>3. ~(id \in known /\ Removed(sess[id]))
    BY <1>1, <2>1, <2>2, RemovingGoesOn DEF Lost
  <2>4. CASE Application
    <3>1. sess' = sess /\ known' \subseteq known
      BY <2>4 DEF Application, Connect, Disconnect, Send, SendAndClose, Request,
                  RemoveSession, SetSocketNoDelay, CloseClient, Destroy, StopAndPush,
                  JoinReturns, GetThreadMsg, DispatchMsg, sessionVars
    <3>2. QED
      BY <2>2, <2>3, <3>1
  <2>5. CASE LoopThread
    BY <1>1, <2>2, <2>3, <2>5, LostExecute, LostLoop
  <2>6. CASE UNCHANGED vars
    BY <2>2, <2>3, <2>6 DEF vars, sessionVars
  <2>7. QED
    BY <1>1, <2>4, <2>5, <2>6 DEF Next
<1>2. Inv /\ Inv' /\ Same /\ Same' /\ [Next]_vars =>
        [\A id \in SessionIds : ~Orphan(id) /\ Orphan(id)' =>
           sess[id].connectState = "CONNECTING" /\ sess[id].removeTag]_vars
  BY <1>1 DEF Tagged
<1>3. TypeOK /\ TypeOK' /\ SocketState /\ QueueShape /\ RemovalInv /\ [Next]_vars
        => QueueShape' /\ RemovalInv'
  BY QueueShapeStep, RemovalStep
<1>4. SafeSpec => [](QueueShape /\ RemovalInv)
  BY <1>3, RemovalInit, TypeCorrect, SocketStateCorrect, PTL DEF SafeSpec
<1>5. SafeSpec => []Inv
  BY <1>4, TypeCorrect, SocketStateCorrect, PTL
<1>6. Inv => Same
  BY OrphanIsLost
<1> HIDE DEF Inv, Same
<1>7. QED
  BY <1>2, <1>5, <1>6, PTL DEF SafeSpec, OrphanCause
-----------------------------------------------------------------------------
(* CloserHitsOwn.  The operation that a completed sendAndClose queues names*)
(* the connection of its write.  Before the session can connect again a    *)
(* CONNECT is executed, so the queue with that operation was taken over    *)
(* first; and no connect completes before what was taken over is executed. *)

OfTheApplication == {o \in Op : o.op = "DISCONNECT" => o.conn = 0}
OfOthers(id)     == {o \in Op : o.op = "DISCONNECT" /\ o.id = id => o.conn = 0}
OfItsOwn(id)     == {o \in Op : o.op = "DISCONNECT" /\ o.id = id => o.conn \in {0, conns[id]}}

CloserInv ==
  /\ opDispatch # <<>> => Within(opQue, OfTheApplication)
  /\ \A id \in known :
       /\ sess[id].handle = "connecting" => Within(opQue, OfOthers(id))
       /\ sess[id].connectState = "CONNECT" =>
            Within(opDispatch, OfItsOwn(id)) /\ Within(opQue, OfItsOwn(id))

(* A step that moves no session to a connection, and no session but while  *)
(* operations are executed to a connect.                                   *)
Quieter(id) ==
  /\ sess'[id].handle = "connecting" =>
       \/ opDispatch # <<>>
       \/ id \in known /\ sess[id].handle = "connecting"
  /\ sess'[id].connectState = "CONNECT" => id \in known /\ sess[id].connectState = "CONNECT"

LEMMA CloserApplication ==
  ASSUME TypeOK, CloserInv, Application
  PROVE  CloserInv'
<1> USE DEF SessionOps
<1>0. opQue \in Seq(Op)
  BY DEF TypeOK
<1>1. CASE JoinReturns
  <2>1. Within(<<>>, OfTheApplication)
    BY EmptySeq DEF Within
  <2>2. QED
    BY <1>1, <2>1 DEF JoinReturns, CloserInv, OfTheApplication
<1>2. CASE ~JoinReturns
  <2>1. UNCHANGED <<opDispatch, known, sess, conns>>
    BY <1>2 DEF Application, Connect, Disconnect, Send, SendAndClose, Request, RemoveSession,
       SetSocketNoDelay, CloseClient, Destroy, StopAndPush, GetThreadMsg, DispatchMsg, sessionVars
  <2>k. ASSUME UNCHANGED opQue PROVE CloserInv'
    BY <2>k, <2>1 DEF CloserInv, OfTheApplication, OfOthers, OfItsOwn
  <2>p. ASSUME NEW o \in Op, o.op = "DISCONNECT" => o.conn = 0, PushOp(o)
        PROVE  CloserInv'
    <3>1. opQue' = Append(opQue, o)
      BY <2>p DEF PushOp
    <3>2. /\ o \in OfTheApplication
          /\ \A id \in SessionIds : o \in OfOthers(id) /\ o \in OfItsOwn(id)
      BY <2>p DEF OfTheApplication, OfOthers, OfItsOwn
    <3>3. Within(opQue, OfTheApplication) => Within(opQue', OfTheApplication)
      BY <1>0, <2>p, <3>1, <3>2, WithinAppend
    <3>4. ASSUME NEW id \in known
          PROVE  /\ Within(opQue, OfOthers(id)) => Within(opQue', OfOthers(id))
                 /\ Within(opQue, OfItsOwn(id)) => Within(opQue', OfItsOwn(id))
      <4>1. id \in SessionIds
        BY DEF TypeOK
      <4>2. QED
        BY <1>0, <2>p, <3>1, <3>2, <4>1, WithinAppend
    <3>5. QED
      BY <2>1, <3>3, <3>4 DEF CloserInv, OfTheApplication, OfOthers, OfItsOwn
  <2>2. ASSUME NEW id \in SessionIds, NEW k \in SessionOps, PushOp(SessionOp(k, id))
        PROVE  CloserInv'
    <3>1. PICK o : o = SessionOp(k, id)
      OBVIOUS
    <3>2. o \in Op /\ o.conn = 0 /\ PushOp(o)
      BY <2>2, <3>1, SessionOpType DEF SessionOp
    <3>3. QED
      BY <2>p, <3>2
  <2>3. ASSUME NEW k \in ClientOps, PushOp([op |-> k]) PROVE CloserInv'
    <3>1. PICK o : o = [op |-> k]
      OBVIOUS
    <3>2. o \in Op /\ o.op # "DISCONNECT" /\ PushOp(o)
      BY <2>3, <3>1 DEF Op, ClientOps
    <3>3. QED
      BY <2>p, <3>2
  <2>4. \/ UNCHANGED opQue
        \/ \E id \in SessionIds, k \in SessionOps : PushOp(SessionOp(k, id))
        \/ \E k \in ClientOps : PushOp([op |-> k])
    <3>1. ASSUME DispatchMsg
          PROVE  \/ UNCHANGED opQue
                 \/ \E id \in SessionIds, k \in SessionOps : PushOp(SessionOp(k, id))
      <4>1. Head(msgDispatch) \in Msg
        BY <3>1, HeadTailProperties DEF DispatchMsg, TypeOK
      <4>2. Head(msgDispatch).msg = "REMOVE_SESSION" => Head(msgDispatch).id \in SessionIds
        BY <4>1 DEF Msg
      <4>3. QED
        BY <3>1, <4>2 DEF DispatchMsg
    <3>2. ASSUME SetSocketNoDelay \/ CloseClient \/ Destroy
          PROVE  UNCHANGED opQue \/ \E k \in ClientOps : PushOp([op |-> k])
      BY <3>2 DEF SetSocketNoDelay, CloseClient, Destroy, StopAndPush, ClientOps
    <3>3. ASSUME NEW id \in SessionIds, \/ Connect(id) \/ Disconnect(id) \/ Send(id)
                                        \/ SendAndClose(id) \/ RemoveSession(id)
          PROVE  \E k \in SessionOps : PushOp(SessionOp(k, id))
      BY <3>3 DEF Connect, Disconnect, Send, SendAndClose, Request, RemoveSession
    <3>4. QED
      BY <1>2, <3>1, <3>2, <3>3 DEF Application, GetThreadMsg
  <2>5. QED
    BY <2>2, <2>3, <2>4, <2>k
<1>3. QED
  BY <1>1, <1>2

(* Operations are taken over, one is executed, or the timer fires.         *)
LEMMA CloserFrame ==
  ASSUME TypeOK, CloserInv, UNCHANGED <<opQue, conns>>,
         opDispatch' = opDispatch \/ (opDispatch # <<>> /\ opDispatch' = Tail(opDispatch)),
         \A id \in known' : id \in SessionIds /\ Quieter(id)
  PROVE  CloserInv'
<1>0. opDispatch \in Seq(Op)
  BY DEF TypeOK
<1>1. opDispatch' # <<>> => opDispatch # <<>>
  OBVIOUS
<1>2. ASSUME NEW Y, Within(opDispatch, Y) PROVE Within(opDispatch', Y)
  BY <1>0, <1>2, WithinTail
<1>3. ASSUME NEW id \in SessionIds, Within(opQue, OfTheApplication)
      PROVE  Within(opQue, OfOthers(id))
  BY <1>3 DEF Within, OfTheApplication, OfOthers
<1>4. ASSUME NEW id \in known', sess'[id].handle = "connecting"
      PROVE  Within(opQue, OfOthers(id))
  BY <1>3, <1>4 DEF Quieter, CloserInv
<1>5. ASSUME NEW id \in known', sess'[id].connectState = "CONNECT"
      PROVE  Within(opDispatch', OfItsOwn(id)) /\ Within(opQue, OfItsOwn(id))
  BY <1>2, <1>5 DEF Quieter, CloserInv
<1>6. QED
  BY <1>1, <1>4, <1>5 DEF CloserInv, OfTheApplication, OfOthers, OfItsOwn

LEMMA QuieterSessions ==
  ASSUME NEW s \in Session,
         NEW t \in {s, ExecuteDisconnect(s), [s EXCEPT !.removeTag = TRUE],
                    [s EXCEPT !.noDelay = enableNoDelay],
                    ExecuteDisconnect([s EXCEPT !.removeTag = TRUE]),
                    ExecuteDisconnect([s EXCEPT !.connectState = "DISCONNECTING"])}
                   \cup AfterSend(s) \cup AfterSendAndClose(s)
  PROVE  /\ t.handle = "connecting" => s.handle = "connecting"
         /\ t.connectState = "CONNECT" => s.connectState = "CONNECT"
BY DEF Session, ExecuteDisconnect, ShutdownSocket, AfterSend, AfterSendAndClose

LEMMA CloserExecute ==
  ASSUME TypeOK, CloserInv, ExecuteOperation
  PROVE  CloserInv'
<1> USE DEF SessionOps
<1>s. sess \in [SessionIds -> Session] /\ known \subseteq SessionIds
  BY DEF TypeOK
<1>0. /\ UNCHANGED <<opQue, conns>>
      /\ opDispatch # <<>> /\ opDispatch' = Tail(opDispatch)
  <2>1. \E o : Executes(o)
    BY DEF ExecuteOperation, ExecSend, ExecSendAndClose, ExecDisconnect, ExecConnect,
       ExecSetNoDelay, ExecClientClose, ExecRemoveSession, ExecDeleteSession
  <2>2. conns' = conns
    BY DEF ExecuteOperation, ExecSend, ExecSendAndClose, ExecDisconnect, ExecConnect,
       ExecSetNoDelay, ExecClientClose, ExecRemoveSession, ExecDeleteSession, sessionVars
  <2>3. QED
    BY <2>1, <2>2 DEF Executes
<1>c. ASSUME NEW v \in SessionIds, NEW s, ChangeSession(v, s),
             \A x \in known' : x = v \/ x \in known,
             s.connectState = "CONNECT" => v \in known /\ sess[v].connectState = "CONNECT"
      PROVE  CloserInv'
  <2>1. sess'[v] = s /\ \A x \in SessionIds : x # v => sess'[x] = sess[x]
    BY <1>s, <1>c DEF ChangeSession
  <2>2. \A x \in known' : x \in SessionIds /\ Quieter(x)
    BY <1>0, <1>c, <1>s, <2>1 DEF Quieter
  <2>3. QED
    BY <1>0, <2>2, CloserFrame
<1>u. ASSUME UNCHANGED sess, known' \subseteq known PROVE CloserInv'
  <2>1. \A x \in known' : x \in SessionIds /\ Quieter(x)
    BY <1>0, <1>s, <1>u DEF Quieter
  <2>2. QED
    BY <1>0, <2>1, CloserFrame
<1>t. ASSUME NEW o \in SessionOps, Executes(o) PROVE \E v \in SessionIds : v = Target
  BY <1>t, TargetType
<1>1. CASE ExecSend
  <2>1. PICK v \in SessionIds : v = Target
    BY <1>1, <1>t DEF ExecSend
  <2>2. known' = known
    BY <1>1 DEF ExecSend
  <2>3. UNCHANGED sess \/ \E t \in AfterSend(sess[v]) : v \in known /\ ChangeSession(v, t)
    BY <1>1, <2>1 DEF ExecSend
  <2>4. QED
    BY <1>s, <1>c, <1>u, <2>2, <2>3, QuieterSessions
<1>2. CASE ExecSendAndClose
  <2>1. PICK v \in SessionIds : v = Target
    BY <1>2, <1>t DEF ExecSendAndClose
  <2>2. known' = known
    BY <1>2 DEF ExecSendAndClose
  <2>3. UNCHANGED sess \/ \E t \in AfterSendAndClose(sess[v]) : v \in known /\ ChangeSession(v, t)
    BY <1>2, <2>1 DEF ExecSendAndClose
  <2>4. QED
    BY <1>s, <1>c, <1>u, <2>2, <2>3, QuieterSessions
<1>3. CASE ExecDisconnect
  <2>1. PICK v \in SessionIds : v = Target
    BY <1>3, <1>t DEF ExecDisconnect
  <2>2. known' = known
    BY <1>3 DEF ExecDisconnect
  <2> DEFINE t == ExecuteDisconnect([sess[v] EXCEPT !.connectState = "DISCONNECTING"])
  <2>3. UNCHANGED sess \/ (v \in known /\ ChangeSession(v, t))
    BY <1>3, <2>1 DEF ExecDisconnect
  <2>4. t.connectState = "CONNECT" => sess[v].connectState = "CONNECT"
    BY <1>s, QuieterSessions
  <2> HIDE DEF t
  <2>5. QED
    BY <1>c, <1>u, <2>2, <2>3, <2>4
<1>4. CASE ExecConnect
  <2>1. PICK v \in SessionIds : v = Target
    BY <1>4, <1>t DEF ExecConnect
  <2>2. CASE CreateSession
    <3>1. /\ Connecting(NewSession).connectState # "CONNECT"
          /\ [NewSession EXCEPT !.connectState = "DISCONNECT"].connectState # "CONNECT"
      BY DEF NewSession, Connecting
    <3>2. PICK s : ChangeSession(v, s) /\ s.connectState # "CONNECT"
      BY <2>1, <2>2, <3>1 DEF CreateSession
    <3>3. \A x \in known' : x = v \/ x \in known
      BY <2>1, <2>2 DEF CreateSession
    <3>4. QED
      BY <1>c, <3>2, <3>3
  <2>3. CASE Reconnect
    <3>1. known' = known /\ v \in known
      BY <2>1, <2>3 DEF Reconnect
    <3>2. CASE UNCHANGED sess
      BY <1>u, <3>1, <3>2
    <3>3. CASE ChangeSession(v, Connecting(sess[v]))
      <4>1. Connecting(sess[v]).connectState # "CONNECT"
        BY <1>s DEF Connecting, Session
      <4>2. QED
        BY <1>c, <3>1, <3>3, <4>1
    <3>4. CASE ChangeSession(v, ExecuteDisconnect(sess[v]))
      BY <1>c, <1>s, <3>1, <3>4, QuieterSessions
    <3>5. QED
      BY <2>1, <2>3, <3>2, <3>3, <3>4 DEF Reconnect
  <2>4. QED
    BY <1>4, <2>2, <2>3 DEF ExecConnect
<1>5. CASE ExecSetNoDelay
  <2>1. known' = known
    BY <1>5 DEF ExecSetNoDelay
  <2>2. \A id \in known : sess'[id] \in {sess[id], [sess[id] EXCEPT !.noDelay = enableNoDelay]}
    BY <1>5, <1>s DEF ExecSetNoDelay
  <2>3. \A x \in known' : x \in SessionIds /\ Quieter(x)
    BY <1>s, <2>1, <2>2, QuieterSessions DEF Quieter
  <2>4. QED
    BY <1>0, <2>3, CloserFrame
<1>6. CASE ExecClientClose
  BY <1>6, <1>u DEF ExecClientClose, sessionVars
<1>7. CASE ExecRemoveSession
  <2>1. PICK v \in SessionIds : v = Target
    BY <1>7, <1>t DEF ExecRemoveSession
  <2>2. known' = known
    BY <1>7 DEF ExecRemoveSession
  <2> DEFINE t == ExecuteDisconnect([sess[v] EXCEPT !.removeTag = TRUE])
             r == [sess[v] EXCEPT !.removeTag = TRUE]
  <2>3. \/ UNCHANGED sess
        \/ v \in known /\ (ChangeSession(v, t) \/ ChangeSession(v, r))
    BY <1>7, <2>1 DEF ExecRemoveSession
  <2>4. /\ t.connectState = "CONNECT" => sess[v].connectState = "CONNECT"
        /\ r.connectState = "CONNECT" => sess[v].connectState = "CONNECT"
    BY <1>s, QuieterSessions
  <2> HIDE DEF t, r
  <2>5. QED
    BY <1>c, <1>u, <2>2, <2>3, <2>4
<1>8. CASE ExecDeleteSession
  <2>1. PICK v \in SessionIds : v = Target
    BY <1>8, <1>t DEF ExecDeleteSession
  <2>2. CASE UNCHANGED <<known, sess>>
    BY <1>u, <2>2
  <2>3. CASE known' = known \ {v} /\ ChangeSession(v, NewSession)
    BY <1>c, <2>3 DEF NewSession
  <2>4. QED
    BY <1>8, <2>1, <2>2, <2>3 DEF ExecDeleteSession
<1>9. QED
  BY <1>1, <1>2, <1>3, <1>4, <1>5, <1>6, <1>7, <1>8 DEF ExecuteOperation
(* Writes of sendAndClose complete, on the connection of their session.    *)
LEMMA CloserPushed ==
  ASSUME TypeOK, CloserInv, opDispatch = <<>>, UNCHANGED <<opDispatch, known, conns>>,
         NEW id \in known, NEW n \in Nat, opQue' = opQue \o CloserOps(id, n),
         \A x \in known : x # id => sess'[x] = sess[x],
         sess'[id].handle # "connecting",
         sess'[id].connectState = "CONNECT" => sess[id].connectState = "CONNECT"
  PROVE  CloserInv'
<1>0. opQue \in Seq(Op) /\ known \subseteq SessionIds
  BY DEF TypeOK
<1> DEFINE ops == CloserOps(id, n)
<1>1. ops \in Seq(Op)
  BY <1>0, CloserOpsType
<1>2. \A i \in DOMAIN ops : ops[i].op = "DISCONNECT" /\ ops[i].id = id /\ ops[i].conn = conns[id]
  BY DEF CloserOps
<1>3. \A i \in DOMAIN ops : ops[i] \in Op
  BY <1>1, LenProperties
<1> HIDE DEF ops
<1>4. Within(ops, OfItsOwn(id))
  BY <1>2, <1>3 DEF Within, OfItsOwn
<1>5. ASSUME NEW x \in known, x # id
      PROVE  Within(ops, OfOthers(x)) /\ Within(ops, OfItsOwn(x))
  BY <1>2, <1>3, <1>5 DEF Within, OfOthers, OfItsOwn
<1>6. opQue' = opQue \o ops
  BY DEF ops
<1>7. ASSUME NEW x \in known, sess'[x].handle = "connecting"
      PROVE  Within(opQue', OfOthers(x))
  BY <1>0, <1>1, <1>5, <1>6, <1>7, ConcatWithin DEF CloserInv
<1>8. ASSUME NEW x \in known, sess'[x].connectState = "CONNECT"
      PROVE  Within(opDispatch, OfItsOwn(x)) /\ Within(opQue', OfItsOwn(x))
  BY <1>0, <1>1, <1>4, <1>5, <1>6, <1>8, ConcatWithin DEF CloserInv
<1>9. QED
  BY <1>7, <1>8 DEF CloserInv, OfTheApplication, OfOthers, OfItsOwn

LEMMA CloserCallbacks ==
  ASSUME TypeOK, CloserInv, NEW id \in SessionIds,
         \/ ConnectAnswered(id) \/ OnRead(id) \/ OnReadEnd(id)
         \/ OnWriteDone(id) \/ OnClose(id)
  PROVE  CloserInv'
<1>1. /\ id \in known /\ opDispatch = <<>> /\ UNCHANGED <<opDispatch, known>>
      /\ known \subseteq SessionIds
  BY DEF ConnectAnswered, OnSocketConnect, OnRead, OnReadEnd, OnWriteDone, OnClose,
     SocketCallback, TypeOK
<1>s. sess[id] \in Session /\ sess \in [SessionIds -> Session]
  BY DEF TypeOK
<1>c. ASSUME NEW s, ChangeSession(id, s)
      PROVE  sess'[id] = s /\ \A x \in known : x # id => sess'[x] = sess[x]
  BY <1>1, <1>s, <1>c DEF ChangeSession
<1>2. ASSUME NEW status, NEW readStarted, OnSocketConnect(id, status, readStarted)
      PROVE  CloserInv'
  <2> DEFINE suc == ConnectStatus(status, readStarted) = 1
             unwanted == suc /\ (stage # "START" \/ sess[id].removeTag)
             s == [sess[id] EXCEPT !.online = suc,
                                   !.connectState = IF suc THEN "CONNECT" ELSE "DISCONNECT",
                                   !.handle = IF suc THEN "open" ELSE "failed"]
             t == IF unwanted THEN ExecuteDisconnect(s)
                  ELSE IF suc THEN ApplyOptions(s) ELSE s
  <2>1. /\ sess[id].handle = "connecting" /\ UNCHANGED opQue /\ ChangeSession(id, t)
        /\ conns' = IF suc THEN [conns EXCEPT ![id] = @ + 1] ELSE conns
    BY <1>2 DEF OnSocketConnect
  <2>2. t.handle # "connecting"
    BY <1>s DEF Session, ExecuteDisconnect, ShutdownSocket, HasTcp, ApplyOptions
  <2> HIDE DEF t, suc
  <2>3. \A x \in known : x # id => sess'[x] = sess[x] /\ conns'[x] = conns[x]
    BY <1>1, <1>c, <2>1 DEF TypeOK
  <2>4. sess'[id].handle # "connecting"
    BY <1>c, <2>1, <2>2
  <2>5. Within(opDispatch, OfItsOwn(id)') /\ Within(opQue, OfItsOwn(id)')
    <3>1. Within(opQue, OfOthers(id))
      BY <1>1, <2>1 DEF CloserInv
    <3>2. QED
      BY <1>1, <3>1, EmptySeq DEF Within, OfOthers, OfItsOwn
  <2>6. ASSUME NEW x \in known, x # id PROVE OfItsOwn(x)' = OfItsOwn(x)
    BY <2>3, <2>6 DEF OfItsOwn
  <2>7. ASSUME NEW x \in known, sess'[x].handle = "connecting"
        PROVE  Within(opQue, OfOthers(x))
    BY <2>3, <2>4, <2>7 DEF CloserInv
  <2>8. ASSUME NEW x \in known, sess'[x].connectState = "CONNECT"
        PROVE  Within(opDispatch, OfItsOwn(x)') /\ Within(opQue, OfItsOwn(x)')
    <3>1. CASE x = id
      BY <2>5, <3>1
    <3>2. CASE x # id
      BY <2>3, <2>6, <2>8, <3>2 DEF CloserInv
    <3>3. QED
      BY <3>1, <3>2
  <2>9. QED
    BY <1>1, <2>1, <2>7, <2>8 DEF CloserInv, OfTheApplication, OfOthers
<1>3. CASE OnRead(id)
  <2>1. UNCHANGED <<sess, opQue, conns>>
    BY <1>3 DEF OnRead
  <2>2. \A x \in known' : x \in SessionIds /\ Quieter(x)
    BY <1>1, <2>1 DEF Quieter
  <2>3. QED
    BY <1>1, <2>1, <2>2, CloserFrame
<1>4. CASE OnReadEnd(id)
  <2>1. UNCHANGED <<opQue, conns>> /\ ChangeSession(id, ShutdownSocket(sess[id]))
    BY <1>4 DEF OnReadEnd
  <2>2. LET t == ShutdownSocket(sess[id])
        IN  /\ t.handle = "connecting" => sess[id].handle = "connecting"
            /\ t.connectState = sess[id].connectState
    BY <1>s DEF Session, ShutdownSocket
  <2>3. \A x \in known' : x \in SessionIds /\ Quieter(x)
    BY <1>1, <1>c, <2>1, <2>2 DEF Quieter
  <2>4. QED
    BY <1>1, <2>1, <2>3, CloserFrame
<1>5. CASE OnWriteDone(id)
  <2> DEFINE t == [sess[id] EXCEPT !.closers = @ - 1]
  <2>1. /\ ChangeSession(id, t) /\ opQue' = opQue \o CloserOps(id, 1) /\ conns' = conns
        /\ sess[id].handle = "open"
    BY <1>5 DEF OnWriteDone
  <2>2. t.handle = sess[id].handle /\ t.connectState = sess[id].connectState
    BY <1>s DEF Session
  <2> HIDE DEF t
  <2>3. QED
    BY <1>1, <1>c, <2>1, <2>2, CloserPushed
<1>6. CASE OnClose(id)
  <2> DEFINE t == [SocketClosed(sess[id]) EXCEPT !.connectState = "DISCONNECT",
                                                  !.noDelay = FALSE]
  <2>1. /\ ChangeSession(id, t) /\ opQue' = opQue \o CloserOps(id, sess[id].closers)
        /\ conns' = conns
    BY <1>6 DEF OnClose
  <2>2. t.handle = "none" /\ t.connectState = "DISCONNECT"
    BY <1>s DEF Session, SocketClosed
  <2>3. sess[id].closers \in Nat
    BY <1>s DEF Session
  <2> HIDE DEF t
  <2>4. PICK n \in Nat : n = sess[id].closers
    BY <2>3
  <2>5. QED
    BY <1>1, <1>c, <2>1, <2>2, <2>4, CloserPushed
<1>7. QED
  BY <1>2, <1>3, <1>4, <1>5, <1>6 DEF ConnectAnswered

LEMMA CloserTimer ==
  ASSUME TypeOK, CloserInv, DrainOperations \/ OnTimerUpdateRun \/ RunEnds
  PROVE  CloserInv'
<1>s. \A id \in known : id \in SessionIds /\ sess[id] \in Session
  BY DEF TypeOK
<1>1. CASE DrainOperations
  <2>1. /\ opDispatch' = opQue /\ opQue' = <<>>
        /\ UNCHANGED <<known, sess, conns>>
    BY <1>1 DEF DrainOperations, sessionVars
  <2>2. \A Y : Within(<<>>, Y)
    BY EmptySeq DEF Within
  <2>3. Within(opQue', OfTheApplication)
    BY <2>1, <2>2
  <2>4. \A id \in known : Within(opQue', OfOthers(id)) /\ Within(opQue', OfItsOwn(id))
    BY <2>1, <2>2
  <2>5. \A id \in known : sess[id].connectState = "CONNECT" => Within(opDispatch', OfItsOwn(id))
    BY <2>1 DEF CloserInv
  <2>6. QED
    BY <2>1, <2>3, <2>4, <2>5 DEF CloserInv, OfTheApplication, OfOthers, OfItsOwn
<1>2. CASE ~DrainOperations
  <2>1. UNCHANGED <<opQue, opDispatch, known, conns>>
    BY <1>2 DEF OnTimerUpdateRun, RunEnds, sessionVars
  <2>2. \A id \in known :
          sess'[id] \in {sess[id], [sess[id] EXCEPT !.removeTag = TRUE],
                         ExecuteDisconnect([sess[id] EXCEPT !.removeTag = TRUE])}
    BY <1>2, <1>s DEF OnTimerUpdateRun, ClearSessions, StopLoop, RunEnds, sessionVars
  <2>3. \A id \in known' : id \in SessionIds /\ Quieter(id)
    BY <1>s, <2>1, <2>2, QuieterSessions DEF Quieter
  <2>4. QED
    BY <2>1, <2>3, CloserFrame
<1>3. QED
  BY <1>1, <1>2

(* CloserHitsOwn: the DISCONNECT that a completed sendAndClose queues is   *)
(* carried out on the connection its data went to, or on none: the         *)
(* operation names a session only, and the session may have closed and     *)
(* connected again before it is executed, but never has.                   *)
THEOREM CloserCorrect == SafeSpec => CloserHitsOwn
<1>1. Init => CloserInv
  BY DEF Init, CloserInv
<1>2. TypeOK /\ CloserInv /\ [Next]_vars => CloserInv'
  <2> SUFFICES ASSUME TypeOK, CloserInv, [Next]_vars PROVE CloserInv'
    OBVIOUS
  <2>1. CASE UNCHANGED vars
    BY <2>1 DEF vars, sharedVars, sessionVars, CloserInv, OfTheApplication, OfOthers, OfItsOwn
  <2>2. QED
    BY <2>1, CloserApplication, CloserExecute, CloserCallbacks, CloserTimer DEF Next, LoopThread
<1>3. TypeOK /\ CloserInv /\ [Next]_vars =>
        [ExecDisconnect /\ sess' # sess =>
           Head(opDispatch).conn \in {0, conns[Head(opDispatch).id]}]_vars
  <2> SUFFICES ASSUME TypeOK, CloserInv, ExecDisconnect, sess' # sess
               PROVE  Head(opDispatch).conn \in {0, conns[Head(opDispatch).id]}
    OBVIOUS
  <2>1. /\ opDispatch # <<>> /\ Head(opDispatch).op = "DISCONNECT"
        /\ Target \in known /\ sess[Target].connectState = "CONNECT"
    BY DEF ExecDisconnect, Executes
  <2>2. Within(opDispatch, OfItsOwn(Target))
    BY <2>1 DEF CloserInv
  <2>3. Head(opDispatch) \in OfItsOwn(Target)
    BY <2>1, <2>2, WithinTail DEF TypeOK
  <2>4. QED
    BY <2>1, <2>3 DEF OfItsOwn, Target
<1>4. QED
  BY <1>1, <1>2, <1>3, TypeCorrect, PTL DEF SafeSpec, CloserHitsOwn
=============================================================================
