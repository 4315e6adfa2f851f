-------------------------- MODULE KCPClientProofs --------------------------
(***************************************************************************)
(* The KCP client, for any set of session ids, any number of calls and any *)
(* length of its queues: the types of its variables; RemovalOnce, on the   *)
(* four records of a connection, on what the queued messages and           *)
(* operations point to, and on the socket of a session that is freed; and  *)
(* ImplementsContract: the client is a SessionContract.                    *)
(***************************************************************************)
EXTENDS KCPClient, QueueLemmas

Closer == "FIN_WAIT"   \* the closing state of a client's socket

-----------------------------------------------------------------------------
(* What the functions of KCPSession make of a session is a session.        *)

LEMMA SessionTypes ==
  ASSUME NEW s \in Session
  PROVE  /\ ExecuteDisconnect(s, Closer) \in Session
         /\ SocketDisconnect(s, Closer) \in Session
         /\ SocketClosed(s) \in Session
         /\ Connecting(s) \in Session
<1> USE DEF Session, ConnectStates, Closer
<1>1. SocketDisconnect(s, Closer) \in Session
  BY DEF SocketDisconnect
<1>2. ExecuteDisconnect(s, Closer) \in Session
  BY DEF ExecuteDisconnect, SocketDisconnect
<1>3. SocketClosed(s) \in Session
  BY DEF SocketClosed
<1>4. Connecting(s) \in Session
  BY DEF Connecting
<1>5. QED
  BY <1>1, <1>2, <1>3, <1>4

(* What a step changes of a session by itself leaves a session.            *)
LEMMA FieldTypes ==
  ASSUME NEW s \in Session
  PROVE  /\ \A b \in BOOLEAN : [s EXCEPT !.unsent = b] \in Session
         /\ [s EXCEPT !.removeTag = TRUE] \in Session
         /\ \A c \in ConnectStates : [s EXCEPT !.connectState = c] \in Session
         /\ \A b \in BOOLEAN :
              [s EXCEPT !.state = "ESTABLISHED", !.connectState = "CONNECT",
                        !.online = TRUE, !.hasConv = b] \in Session
         /\ [s EXCEPT !.online = FALSE, !.connectState = "DISCONNECT",
                      !.state = "CLOSED", !.udp = "closing", !.hasConv = FALSE] \in Session
         /\ [s EXCEPT !.udp = "closing", !.unsent = FALSE, !.hasConv = FALSE] \in Session
         /\ [s EXCEPT !.state = "CLOSED", !.udp = "none"] \in Session
<1> USE DEF Session, ConnectStates
<1>1. /\ \A b \in BOOLEAN : [s EXCEPT !.unsent = b] \in Session
      /\ [s EXCEPT !.removeTag = TRUE] \in Session
      /\ \A c \in ConnectStates : [s EXCEPT !.connectState = c] \in Session
  OBVIOUS
<1>2. /\ \A b \in BOOLEAN :
           [s EXCEPT !.state = "ESTABLISHED", !.connectState = "CONNECT",
                     !.online = TRUE, !.hasConv = b] \in Session
      /\ [s EXCEPT !.online = FALSE, !.connectState = "DISCONNECT",
                   !.state = "CLOSED", !.udp = "closing", !.hasConv = FALSE] \in Session
  OBVIOUS
<1>3. /\ [s EXCEPT !.udp = "closing", !.unsent = FALSE, !.hasConv = FALSE] \in Session
      /\ [s EXCEPT !.state = "CLOSED", !.udp = "none"] \in Session
  OBVIOUS
<1>4. QED
  BY <1>1, <1>2, <1>3

LEMMA NewSessionType ==
  NewSession \in Session /\ [NewSession EXCEPT !.connectState = "DISCONNECT"] \in Session
BY DEF NewSession, Session, ConnectStates

(* An operation of a session, and a message of one.                        *)
LEMMA SessionOpType ==
  ASSUME NEW o \in SessionOps, NEW id \in SessionIds
  PROVE  SessionOp(o, id) \in Op
BY DEF SessionOp, Op

LEMMA SessionMsgType ==
  ASSUME NEW m \in SessionMsgs, NEW id \in SessionIds
  PROVE  SessionMsg(m, id) \in Msg
BY DEF SessionMsg, Msg

(* The operation about to be executed is one of Op; if it is one of a      *)
(* session, that session has an id the application chose.                  *)
LEMMA TargetType ==
  ASSUME TypeOK, NEW o \in SessionOps, Executes(o)
  PROVE  Target \in SessionIds
<1>1. Head(opDispatch) \in Op
  BY HeadTailProperties DEF TypeOK, Executes
<1>2. QED
  BY <1>1 DEF Executes, Target, Op, SessionOps

LEMMA PushOpType ==
  ASSUME TypeOK, NEW o \in Op, PushOp(o)
  PROVE  opQue' \in Seq(Op)
<1>1. opQue \in Seq(Op)
  BY DEF TypeOK
<1>2. QED
  BY <1>1, AppendProperties DEF PushOp

LEMMA OneMsg == ASSUME NEW m \in Msg PROVE <<m>> \in Seq(Msg)
OBVIOUS

-----------------------------------------------------------------------------
(* The timer's messages: one for every session that awaits removal.        *)
LEMMA RemovalMsgsType ==
  ASSUME NEW gone \in Ascending({id \in SessionIds : AwaitsRemoval(id)})
  PROVE  [i \in DOMAIN gone |-> SessionMsg("REMOVE_SESSION", gone[i])] \in Seq(Msg)
<1> DEFINE ids == {id \in SessionIds : AwaitsRemoval(id)}
           n   == Cardinality(ids)
<1>1. n \in Nat
  BY SessionIdsAssumption, FS_Subset, FS_CardinalityType
<1>2. gone \in [1 .. n -> ids]
  BY DEF Ascending
<1>3. \A i \in 1 .. n : SessionMsg("REMOVE_SESSION", gone[i]) \in Msg
  BY <1>2, SessionMsgType DEF SessionMsgs
<1>4. DOMAIN gone = 1 .. n
  BY <1>2
<1> HIDE DEF n
<1>5. [i \in 1 .. n |-> SessionMsg("REMOVE_SESSION", gone[i])] \in Seq(Msg)
  BY <1>1, <1>3
<1>6. QED
  BY <1>4, <1>5

(* The messages of a close: one, or two.                                   *)
LEMMA CloseMsgsType ==
  ASSUME NEW id \in SessionIds
  PROVE  CloseMsgs(id) \in Seq(Msg)
<1>1. SessionMsg("DIS_CONNECT", id) \in Msg /\ SessionMsg("REMOVE_SESSION", id) \in Msg
  BY SessionMsgType DEF SessionMsgs
<1>2. <<SessionMsg("DIS_CONNECT", id)>> \in Seq(Msg)
  BY <1>1, OneMsg
<1>3. (IF sess[id].removeTag THEN <<SessionMsg("REMOVE_SESSION", id)>> ELSE <<>>) \in Seq(Msg)
  BY <1>1, OneMsg, EmptySeq
<1>4. QED
  BY <1>2, <1>3, ConcatProperties DEF CloseMsgs

(* The history of the application's view keeps its type.                   *)
LEMMA ContractType ==
  ASSUME NEW c \in Contract
  PROVE  /\ \A a \in SUBSET SessionIds : [c EXCEPT !.asked = a] \in Contract
         /\ [c EXCEPT !.closed = TRUE] \in Contract
BY DEF Contract

(* Every variable keeps its type.                                          *)

LEMMA TypeInit == Init => TypeOK
<1> SUFFICES ASSUME Init PROVE TypeOK
  OBVIOUS
<1> USE DEF Init
<1>1. contract \in Contract
  BY DEF Contract
<1>2. sess \in [SessionIds -> Session]
  BY NewSessionType
<1>3. calls \in 0 .. MaxCalls
  BY BoundsAssumption
<1>4. QED
  BY <1>1, <1>2, <1>3, EmptySeq DEF TypeOK, Stages

LEMMA TypeApplication ==
  ASSUME TypeOK, Application
  PROVE  TypeOK'
<1> USE DEF TypeOK, appVars, Calls, SessionOps
<1>1. ASSUME NEW id \in SessionIds, NEW call, NEW op \in SessionOps, Request(call, op, id)
      PROVE  TypeOK'
  BY <1>1, BoundsAssumption, SessionOpType, PushOpType DEF Request
<1>2. ASSUME NEW id \in SessionIds,
             Connect(id) \/ Disconnect(id) \/ Send(id) \/ SendAndClose(id)
      PROVE  TypeOK'
  BY <1>1, <1>2 DEF Connect, Disconnect, Send, SendAndClose
<1>3. ASSUME NEW id \in SessionIds, RemoveSession(id) PROVE TypeOK'
  <2>1. contract' \in Contract
    <3>1. contract.asked \cup {id} \in SUBSET SessionIds
      BY DEF Contract
    <3>2. QED
      BY <1>3, <3>1, ContractType DEF RemoveSession
  <2>2. QED
    BY <1>3, <2>1, BoundsAssumption, SessionOpType, PushOpType DEF RemoveSession
<1>5. ASSUME StopAndPush
      PROVE  contract' \in Contract /\ opQue' \in Seq(Op)
  <2>1. contract' \in Contract
    BY <1>5, ContractType DEF StopAndPush
  <2>2. [op |-> "CLIENT_CLOSE"] \in Op
    BY DEF Op
  <2>3. CASE isStop
    BY <1>5, <2>1, <2>3 DEF StopAndPush
  <2>4. CASE ~isStop
    BY <1>5, <2>1, <2>2, <2>4, PushOpType DEF StopAndPush
  <2>5. QED
    BY <2>3, <2>4
<1>6. CASE CloseClient \/ Destroy
  <2>1. StopAndPush /\ calls' \in 0 .. MaxCalls /\ app' \in {"up", "joining", "gone"}
    BY <1>6, BoundsAssumption DEF CloseClient, Destroy
  <2>2. contract' \in Contract /\ opQue' \in Seq(Op)
    BY <1>5, <2>1
  <2>3. QED
    BY <2>1, <2>2 DEF StopAndPush
<1>7. CASE JoinReturns
  BY <1>7, EmptySeq DEF JoinReturns
<1>8. CASE GetThreadMsg
  BY <1>8, EmptySeq DEF GetThreadMsg
<1>9. CASE DispatchMsg
  <2> DEFINE m == Head(msgDispatch)
  <2>1. m \in Msg /\ msgDispatch' \in Seq(Msg)
    BY <1>9, HeadTailProperties DEF DispatchMsg
  <2>2. Told(m) \in Contract
    <3>1. CASE m.msg = "EXIT_LOOP"
      BY <3>1, ContractType DEF Told
    <3>2. CASE m.msg # "EXIT_LOOP"
      <4>1. m.msg \in SessionMsgs /\ m.id \in SessionIds
        BY <2>1, <3>2 DEF Msg
      <4>2. contract.view[m.id] \in {"absent", "down", "up"}
        BY <4>1 DEF Contract
      <4> DEFINE w == CASE m.msg = "CONNECT"        -> "up"
                        [] m.msg = "RECV_DATA"      -> contract.view[m.id]
                        [] m.msg = "REMOVE_SESSION" -> "absent"
                        [] OTHER                    -> "down"
      <4>3. w \in {"absent", "down", "up"}
        BY <4>2
      <4>4. Told(m) = [contract EXCEPT !.view[m.id] = w]
        BY <3>2 DEF Told
      <4> HIDE DEF w, m
      <4>5. [contract.view EXCEPT ![m.id] = w] \in [SessionIds -> {"absent", "down", "up"}]
        BY <4>1, <4>3 DEF Contract
      <4>6. QED
        BY <4>4, <4>5 DEF Contract
    <3>3. QED
      BY <3>1, <3>2
  <2>3. opQue' \in Seq(Op)
    <3>1. CASE m.msg = "REMOVE_SESSION"
      <4>1. m.id \in SessionIds
        BY <2>1, <3>1 DEF Msg, SessionMsgs
      <4>2. QED
        BY <1>9, <3>1, <4>1, SessionOpType, PushOpType DEF DispatchMsg
    <3>2. CASE m.msg # "REMOVE_SESSION"
      BY <1>9, <3>2 DEF DispatchMsg
    <3>3. QED
      BY <3>1, <3>2
  <2>4. QED
    BY <1>9, <2>1, <2>2, <2>3 DEF DispatchMsg
<1>10. QED
  BY <1>2, <1>3, <1>6, <1>7, <1>8, <1>9 DEF Application

(* What is left of the operations after one of them is taken out.          *)
LEMMA ExecutesType ==
  ASSUME TypeOK, NEW o, Executes(o)
  PROVE  /\ opDispatch' \in Seq(Op)
         /\ UNCHANGED <<appVars, msgDispatch, loop>>
BY HeadTailProperties DEF TypeOK, Executes

LEMMA TypeExecuteOperation ==
  ASSUME TypeOK, ExecuteOperation
  PROVE  TypeOK'
<1> USE DEF appVars, SessionOps
<1>s. sess \in [SessionIds -> Session]
  BY DEF TypeOK
<1>c. ASSUME NEW id \in SessionIds, NEW s \in Session, ChangeSession(id, s)
      PROVE  sess' \in [SessionIds -> Session]
  BY <1>s, <1>c DEF ChangeSession
<1>m. ASSUME NEW m \in Msg, PushMsgs(<<m>>)
      PROVE  msgQue' \in Seq(Msg)
  BY <1>m, OneMsg, ConcatProperties DEF PushMsgs, TypeOK
<1>d. ASSUME NEW s \in Session PROVE ExecuteDisconnect(s, "FIN_WAIT") \in Session
  BY SessionTypes DEF Closer
<1>1. CASE ExecSend
  <2>1. Target \in SessionIds
    BY <1>1, TargetType DEF ExecSend
  <2>2. sess' \in [SessionIds -> Session]
    BY <1>1, <1>s, <1>c, <1>d, <2>1, FieldTypes DEF ExecSend
  <2>3. QED
    BY <1>1, <2>2, ExecutesType DEF ExecSend, TypeOK
<1>2. CASE ExecSendAndClose
  <2>1. Target \in SessionIds
    BY <1>2, TargetType DEF ExecSendAndClose
  <2>2. sess' \in [SessionIds -> Session]
    BY <1>2, <1>s, <1>c, <1>d, <2>1, FieldTypes DEF ExecSendAndClose
  <2>3. opQue' \in Seq(Op)
    BY <1>2, <2>1, SessionOpType, PushOpType DEF ExecSendAndClose, TypeOK
  <2>4. QED
    BY <1>2, <2>2, <2>3, ExecutesType DEF ExecSendAndClose, TypeOK
<1>3. CASE ExecDisconnect
  <2>1. Target \in SessionIds
    BY <1>3, TargetType DEF ExecDisconnect
  <2>2. [sess[Target] EXCEPT !.connectState = "DISCONNECTING"] \in Session
    BY <1>s, <2>1, FieldTypes DEF ConnectStates
  <2>3. sess' \in [SessionIds -> Session]
    BY <1>3, <1>s, <1>c, <1>d, <2>1, <2>2 DEF ExecDisconnect
  <2>4. QED
    BY <1>3, <2>3, ExecutesType DEF ExecDisconnect, TypeOK
<1>4. CASE ExecConnect
  <2>1. Target \in SessionIds
    BY <1>4, TargetType DEF ExecConnect
  <2>2. SessionMsg("CONNECT_FAIL", Target) \in Msg
    BY <2>1, SessionMsgType DEF SessionMsgs
  <2>3. CASE CreateSession
    <3>1. known' \subseteq SessionIds
      BY <2>1, <2>3 DEF CreateSession, TypeOK
    <3>2. sess' \in [SessionIds -> Session]
      BY <1>c, <2>1, <2>3, NewSessionType, SessionTypes DEF CreateSession
    <3>3. msgQue' \in Seq(Msg)
      BY <1>m, <2>2, <2>3 DEF CreateSession, TypeOK
    <3>4. QED
      BY <1>4, <3>1, <3>2, <3>3, ExecutesType DEF ExecConnect, TypeOK
  <2>4. CASE Reconnect
    <3>1. sess' \in [SessionIds -> Session]
      BY <1>s, <1>c, <1>d, <2>1, <2>4, SessionTypes DEF Reconnect
    <3>2. msgQue' \in Seq(Msg)
      BY <1>m, <2>2, <2>4 DEF Reconnect, TypeOK
    <3>3. QED
      BY <1>4, <2>4, <3>1, <3>2, ExecutesType DEF ExecConnect, Reconnect, TypeOK
  <2>5. QED
    BY <1>4, <2>3, <2>4 DEF ExecConnect
<1>6. CASE ExecClientClose
  BY <1>6, ExecutesType DEF ExecClientClose, TypeOK, Stages
<1>7. CASE ExecRemoveSession
  <2>1. Target \in SessionIds
    BY <1>7, TargetType DEF ExecRemoveSession
  <2>2. [sess[Target] EXCEPT !.removeTag = TRUE] \in Session
    BY <1>s, <2>1, FieldTypes
  <2>3. sess' \in [SessionIds -> Session]
    BY <1>7, <1>s, <1>c, <1>d, <2>1, <2>2 DEF ExecRemoveSession
  <2>4. SessionMsg("REMOVE_SESSION", Target) \in Msg
    BY <2>1, SessionMsgType DEF SessionMsgs
  <2>5. msgQue' \in Seq(Msg)
    BY <1>7, <1>m, <2>4 DEF ExecRemoveSession, TypeOK
  <2>6. QED
    BY <1>7, <2>3, <2>5, ExecutesType DEF ExecRemoveSession, TypeOK
<1>8. CASE ExecDeleteSession
  <2>1. Target \in SessionIds
    BY <1>8, TargetType DEF ExecDeleteSession
  <2>2. sess' \in [SessionIds -> Session] /\ known' \subseteq SessionIds
    BY <1>8, <1>s, <1>c, <2>1, NewSessionType DEF ExecDeleteSession, TypeOK
  <2>3. QED
    BY <1>8, <2>2, ExecutesType DEF ExecDeleteSession, TypeOK
<1>9. QED
  BY <1>1, <1>2, <1>3, <1>4, <1>6, <1>7, <1>8 DEF ExecuteOperation

LEMMA TypeTimer ==
  ASSUME TypeOK, DrainOperations \/ OnTimerUpdateRun \/ RunEnds
  PROVE  TypeOK'
<1> USE DEF appVars
<1>1. CASE DrainOperations
  BY <1>1, EmptySeq DEF DrainOperations, TypeOK
<1>2. CASE OnTimerUpdateRun /\ ClearSessions
  <2>1. \A id \in SessionIds : [sess[id] EXCEPT !.removeTag = TRUE] \in Session
    BY FieldTypes DEF TypeOK
  <2>2. \A id \in SessionIds :
          ExecuteDisconnect([sess[id] EXCEPT !.removeTag = TRUE], "FIN_WAIT") \in Session
    BY <2>1, SessionTypes DEF Closer
  <2>3. sess' \in [SessionIds -> Session]
    BY <1>2, <2>1, <2>2 DEF ClearSessions, TypeOK
  <2>4. msgQue' \in Seq(Msg)
    <3>1. PICK gone \in Ascending({id \in SessionIds : AwaitsRemoval(id)}) :
            PushMsgs([i \in DOMAIN gone |-> SessionMsg("REMOVE_SESSION", gone[i])])
      BY <1>2 DEF ClearSessions
    <3>2. msgQue \in Seq(Msg)
      BY DEF TypeOK
    <3>3. QED
      BY <3>1, <3>2, RemovalMsgsType, ConcatProperties DEF PushMsgs
  <2>5. stage' \in Stages
    BY <1>2 DEF ClearSessions, Stages, TypeOK
  <2>6. QED
    BY <1>2, <2>3, <2>4, <2>5 DEF OnTimerUpdateRun, ClearSessions, TypeOK
<1>3. CASE OnTimerUpdateRun /\ StopLoop
  BY <1>3 DEF OnTimerUpdateRun, StopLoop, TypeOK
<1>4. CASE RunEnds
  <2>1. [msg |-> "EXIT_LOOP"] \in Msg
    BY DEF Msg
  <2>2. msgQue' \in Seq(Msg)
    BY <1>4, <2>1, OneMsg, ConcatProperties DEF RunEnds, PushMsgs, TypeOK
  <2>3. QED
    BY <1>4, <2>2 DEF RunEnds, TypeOK, Stages
<1>5. QED
  BY <1>1, <1>2, <1>3, <1>4 DEF OnTimerUpdateRun

(* A callback of the socket of id.                                         *)
Callbacks(id) ==
  \/ Flush(id) \/ OnSynAck(id) \/ OnConnectFailed(id) \/ OnRecv(id)
  \/ PeerLeaves(id) \/ Shutdown(id) \/ OnClose(id)

LEMMA TypeCallbacks ==
  ASSUME TypeOK, NEW id \in SessionIds, Callbacks(id)
  PROVE  TypeOK'
<1> USE DEF appVars, SocketCallback
<1>s. sess[id] \in Session /\ sess \in [SessionIds -> Session]
  BY DEF TypeOK
<1>c. ASSUME NEW s \in Session, ChangeSession(id, s)
      PROVE  sess' \in [SessionIds -> Session]
  BY <1>s, <1>c DEF ChangeSession
<1>m. ASSUME NEW m \in Msg, PushMsgs(<<m>>)
      PROVE  msgQue' \in Seq(Msg)
  BY <1>m, OneMsg, ConcatProperties DEF PushMsgs, TypeOK
<1>k. \A m \in SessionMsgs : SessionMsg(m, id) \in Msg
  BY SessionMsgType
<1>1. CASE Flush(id)
  BY <1>1, <1>s, <1>c, FieldTypes DEF Flush, TypeOK
<1>2. CASE OnSynAck(id)
  <2>p. PICK conv \in BOOLEAN :
        LET s == [sess[id] EXCEPT !.state = "ESTABLISHED", !.connectState = "CONNECT",
                                  !.online = TRUE, !.hasConv = conv] IN
          IF Unwanted(id)
            THEN ChangeSession(id, ExecuteDisconnect(s, "FIN_WAIT")) /\ UNCHANGED msgQue
            ELSE ChangeSession(id, s) /\ PushMsgs(<<SessionMsg("CONNECT", id)>>)
    BY <1>2 DEF OnSynAck
  <2> DEFINE s == [sess[id] EXCEPT !.state = "ESTABLISHED", !.connectState = "CONNECT",
                                   !.online = TRUE, !.hasConv = conv]
  <2>1. s \in Session
    BY <1>s, FieldTypes
  <2>2. \/ ChangeSession(id, ExecuteDisconnect(s, "FIN_WAIT")) /\ UNCHANGED msgQue
        \/ ChangeSession(id, s) /\ PushMsgs(<<SessionMsg("CONNECT", id)>>)
    BY <2>p
  <2> HIDE DEF s
  <2>3. sess' \in [SessionIds -> Session]
    BY <1>c, <2>1, <2>2, SessionTypes DEF Closer
  <2>4. msgQue' \in Seq(Msg)
    BY <1>m, <1>k, <2>2 DEF SessionMsgs, TypeOK
  <2>5. QED
    BY <1>2, <2>3, <2>4 DEF OnSynAck, TypeOK
<1>3. CASE OnConnectFailed(id)
  <2>1. sess' \in [SessionIds -> Session]
    BY <1>3, <1>s, <1>c, FieldTypes DEF OnConnectFailed
  <2>2. msgQue' \in Seq(Msg)
    BY <1>3, <1>m, <1>k DEF OnConnectFailed, SessionMsgs
  <2>3. QED
    BY <1>3, <2>1, <2>2 DEF OnConnectFailed, TypeOK
<1>4. CASE OnRecv(id)
  <2>1. msgQue' \in Seq(Msg)
    BY <1>4, <1>m, <1>k DEF OnRecv, SessionMsgs, TypeOK
  <2>2. QED
    BY <1>4, <2>1 DEF OnRecv, TypeOK
<1>5. CASE PeerLeaves(id)
  BY <1>5, <1>s, <1>c, SessionTypes DEF PeerLeaves, Closer, TypeOK
<1>6. CASE Shutdown(id)
  BY <1>6, <1>s, <1>c, FieldTypes DEF Shutdown, TypeOK
<1>7. CASE OnClose(id)
  <2> DEFINE s == [sess[id] EXCEPT !.state = "CLOSED", !.udp = "none"]
  <2>1. s \in Session
    BY <1>s, FieldTypes
  <2>2. \/ /\ ChangeSession(id, [SocketClosed(s) EXCEPT !.connectState = "DISCONNECT"])
           /\ PushMsgs(CloseMsgs(id))
        \/ ChangeSession(id, s) /\ UNCHANGED msgQue
    BY <1>7 DEF OnClose
  <2> HIDE DEF s
  <2>3. [SocketClosed(s) EXCEPT !.connectState = "DISCONNECT"] \in Session
    BY <2>1, SessionTypes, FieldTypes DEF ConnectStates
  <2>4. sess' \in [SessionIds -> Session]
    BY <1>c, <2>1, <2>2, <2>3
  <2>5. msgQue' \in Seq(Msg)
    BY <2>2, CloseMsgsType, ConcatProperties DEF PushMsgs, TypeOK
  <2>6. QED
    BY <1>7, <2>4, <2>5 DEF OnClose, TypeOK
<1>8. QED
  BY <1>1, <1>2, <1>3, <1>4, <1>5, <1>6, <1>7 DEF Callbacks

(* TypeOK holds in every reachable state: in particular no operation and   *)
(* no message that any step of either thread queues is malformed.          *)
THEOREM TypeCorrect == SafeSpec => []TypeOK
<1>1. TypeOK /\ [Next]_vars => TypeOK'
  <2> SUFFICES ASSUME TypeOK, [Next]_vars PROVE TypeOK'
    OBVIOUS
  <2>1. CASE Application
    BY <2>1, TypeApplication
  <2>2. CASE LoopThread
    BY <2>2, TypeExecuteOperation, TypeTimer, TypeCallbacks DEF LoopThread, Callbacks
  <2>3. CASE UNCHANGED vars
    BY <2>3 DEF vars, appVars, sharedVars, TypeOK
  <2>4. QED
    BY <2>1, <2>2, <2>3 DEF Next
<1>2. QED
  BY <1>1, TypeInit, PTL DEF SafeSpec
-----------------------------------------------------------------------------
(* What each step does to one session keeps the four records in agreement. *)

SocketState == \A id \in known : SocketAgrees(sess[id])

LEMMA AgreeOperators ==
  ASSUME NEW s \in Session, SocketAgrees(s)
  PROVE  /\ SocketAgrees(ExecuteDisconnect(s, "FIN_WAIT"))
         /\ SocketAgrees(SocketDisconnect(s, "FIN_WAIT"))
         /\ SocketAgrees([s EXCEPT !.removeTag = TRUE])
         /\ \A b \in BOOLEAN : SocketAgrees([s EXCEPT !.unsent = b])
         /\ s.connectState = "CONNECT" =>
              SocketAgrees(ExecuteDisconnect([s EXCEPT !.connectState = "DISCONNECTING"], "FIN_WAIT"))
         /\ s.connectState = "DISCONNECT" /\ s.state = "CLOSED" => SocketAgrees(Connecting(s))
<1> USE DEF Session, ConnectStates, SocketAgrees
<1>1. SocketAgrees(ExecuteDisconnect(s, "FIN_WAIT")) /\ SocketAgrees(SocketDisconnect(s, "FIN_WAIT"))
  BY DEF ExecuteDisconnect, SocketDisconnect
<1>2. /\ SocketAgrees([s EXCEPT !.removeTag = TRUE])
      /\ \A b \in BOOLEAN : SocketAgrees([s EXCEPT !.unsent = b])
  OBVIOUS
<1>3. s.connectState = "CONNECT" =>
        SocketAgrees(ExecuteDisconnect([s EXCEPT !.connectState = "DISCONNECTING"], "FIN_WAIT"))
  BY DEF ExecuteDisconnect, SocketDisconnect
<1>4. s.connectState = "DISCONNECT" /\ s.state = "CLOSED" => SocketAgrees(Connecting(s))
  BY DEF Connecting
<1>5. QED
  BY <1>1, <1>2, <1>3, <1>4

(* The answer, the failure and the end of a connection.                    *)
LEMMA AgreeSocket ==
  ASSUME NEW s \in Session, SocketAgrees(s)
  PROVE  /\ s.state = "SYN_SENT" =>
              /\ \A b \in BOOLEAN :
                   SocketAgrees([s EXCEPT !.state = "ESTABLISHED", !.connectState = "CONNECT",
                                          !.online = TRUE, !.hasConv = b])
              /\ SocketAgrees([s EXCEPT !.online = FALSE, !.connectState = "DISCONNECT",
                                        !.state = "CLOSED", !.udp = "closing", !.hasConv = FALSE])
         /\ s.state = "FIN_WAIT" =>
              SocketAgrees([s EXCEPT !.udp = "closing", !.unsent = FALSE, !.hasConv = FALSE])
         /\ s.udp = "closing" /\ s.state # "FIN_WAIT" =>
              SocketAgrees([s EXCEPT !.state = "CLOSED", !.udp = "none"])
         /\ s.udp = "closing" =>
              SocketAgrees([SocketClosed([s EXCEPT !.state = "CLOSED", !.udp = "none"])
                              EXCEPT !.connectState = "DISCONNECT"])
<1> USE DEF Session, ConnectStates, SocketAgrees
<1>1. s.state = "SYN_SENT" =>
              /\ \A b \in BOOLEAN :
                   SocketAgrees([s EXCEPT !.state = "ESTABLISHED", !.connectState = "CONNECT",
                                          !.online = TRUE, !.hasConv = b])
              /\ SocketAgrees([s EXCEPT !.online = FALSE, !.connectState = "DISCONNECT",
                                        !.state = "CLOSED", !.udp = "closing", !.hasConv = FALSE])
  OBVIOUS
<1>2. s.state = "FIN_WAIT" =>
        SocketAgrees([s EXCEPT !.udp = "closing", !.unsent = FALSE, !.hasConv = FALSE])
  OBVIOUS
<1>3. s.udp = "closing" /\ s.state # "FIN_WAIT" =>
              SocketAgrees([s EXCEPT !.state = "CLOSED", !.udp = "none"])
  OBVIOUS
<1>4. s.udp = "closing" =>
        SocketAgrees([SocketClosed([s EXCEPT !.state = "CLOSED", !.udp = "none"])
                        EXCEPT !.connectState = "DISCONNECT"])
  BY DEF SocketClosed
<1>5. QED
  BY <1>1, <1>2, <1>3, <1>4

LEMMA AgreeNew ==
  /\ SocketAgrees(Connecting(NewSession))
  /\ SocketAgrees([NewSession EXCEPT !.connectState = "DISCONNECT"])
BY DEF NewSession, Connecting, SocketAgrees

LEMMA AgreeExecuteOperation ==
  ASSUME TypeOK, SocketState, ExecuteOperation
  PROVE  SocketState'
<1>s. \A id \in known : sess[id] \in Session /\ SocketAgrees(sess[id])
  BY DEF TypeOK, SocketState
<1>c. ASSUME NEW id \in SessionIds, NEW s, ChangeSession(id, s), SocketAgrees(s),
             known' \subseteq known \cup {id}
      PROVE  SocketState'
  BY <1>c DEF ChangeSession, SocketState, TypeOK
<1>u. ASSUME UNCHANGED sess, known' \subseteq known
      PROVE  SocketState'
  BY <1>u DEF SocketState
<1>1. CASE ExecSend
  <2>1. Target \in SessionIds
    BY <1>1, TargetType DEF ExecSend, SessionOps
  <2>2. QED
    BY <1>1, <1>s, <1>c, <1>u, <2>1, AgreeOperators DEF ExecSend, Sendable
<1>2. CASE ExecSendAndClose
  <2>1. Target \in SessionIds
    BY <1>2, TargetType DEF ExecSendAndClose, SessionOps
  <2>2. QED
    BY <1>2, <1>s, <1>c, <1>u, <2>1, AgreeOperators DEF ExecSendAndClose, Sendable
<1>3. CASE ExecDisconnect
  <2>1. Target \in SessionIds
    BY <1>3, TargetType DEF ExecDisconnect, SessionOps
  <2>2. QED
    BY <1>3, <1>s, <1>c, <1>u, <2>1, AgreeOperators DEF ExecDisconnect
<1>4. CASE ExecConnect
  <2>1. Target \in SessionIds
    BY <1>4, TargetType DEF ExecConnect, SessionOps
  <2>2. CASE CreateSession
    BY <1>c, <2>1, <2>2, AgreeNew DEF CreateSession
  <2>3. CASE Reconnect
    BY <1>s, <1>c, <1>u, <2>1, <2>3, AgreeOperators DEF Reconnect
  <2>4. QED
    BY <1>4, <2>2, <2>3 DEF ExecConnect
<1>5. CASE ExecClientClose
  BY <1>5, <1>u DEF ExecClientClose
<1>6. CASE ExecRemoveSession
  <2>1. Target \in SessionIds
    BY <1>6, TargetType DEF ExecRemoveSession, SessionOps
  <2>2. Target \in known =>
          /\ [sess[Target] EXCEPT !.removeTag = TRUE] \in Session
          /\ SocketAgrees([sess[Target] EXCEPT !.removeTag = TRUE])
    BY <1>s, AgreeOperators, FieldTypes
  <2>3. Target \in known =>
          SocketAgrees(ExecuteDisconnect([sess[Target] EXCEPT !.removeTag = TRUE], "FIN_WAIT"))
    BY <2>2, AgreeOperators
  <2>4. QED
    BY <1>6, <1>c, <1>u, <2>1, <2>2, <2>3 DEF ExecRemoveSession
<1>7. CASE ExecDeleteSession
  <2>1. Target \in SessionIds
    BY <1>7, TargetType DEF ExecDeleteSession, SessionOps
  <2>2. CASE UNCHANGED <<known, sess>>
    BY <1>u, <2>2
  <2>3. CASE known' = known \ {Target} /\ ChangeSession(Target, NewSession)
    BY <2>1, <2>3 DEF ChangeSession, SocketState, TypeOK
  <2>4. QED
    BY <1>7, <2>2, <2>3 DEF ExecDeleteSession
<1>8. QED
  BY <1>1, <1>2, <1>3, <1>4, <1>5, <1>6, <1>7 DEF ExecuteOperation

LEMMA AgreeCallbacks ==
  ASSUME TypeOK, SocketState, NEW id \in SessionIds, Callbacks(id)
  PROVE  SocketState'
<1>s. id \in known /\ sess[id] \in Session /\ SocketAgrees(sess[id]) /\ known' = known
  BY DEF TypeOK, SocketState, Callbacks, Flush, OnSynAck, OnConnectFailed, OnRecv, PeerLeaves,
         Shutdown, OnClose, SocketCallback
<1>c. ASSUME NEW s, ChangeSession(id, s), SocketAgrees(s)
      PROVE  SocketState'
  BY <1>c, <1>s DEF ChangeSession, SocketState, TypeOK
<1>1. CASE Flush(id)
  BY <1>1, <1>s, <1>c, AgreeOperators DEF Flush
<1>2. CASE OnSynAck(id)
  <2>p. PICK conv \in BOOLEAN :
        LET s == [sess[id] EXCEPT !.state = "ESTABLISHED", !.connectState = "CONNECT",
                                  !.online = TRUE, !.hasConv = conv] IN
          IF Unwanted(id)
            THEN ChangeSession(id, ExecuteDisconnect(s, "FIN_WAIT")) /\ UNCHANGED msgQue
            ELSE ChangeSession(id, s) /\ PushMsgs(<<SessionMsg("CONNECT", id)>>)
    BY <1>2 DEF OnSynAck
  <2> DEFINE s == [sess[id] EXCEPT !.state = "ESTABLISHED", !.connectState = "CONNECT",
                                   !.online = TRUE, !.hasConv = conv]
  <2>1. s \in Session
    BY <1>s, FieldTypes
  <2>2. SocketAgrees(s)
    BY <1>2, <1>s, AgreeSocket DEF OnSynAck
  <2>3. ChangeSession(id, ExecuteDisconnect(s, "FIN_WAIT")) \/ ChangeSession(id, s)
    BY <2>p
  <2> HIDE DEF s
  <2>4. QED
    BY <1>c, <2>1, <2>2, <2>3, AgreeOperators
<1>3. CASE OnConnectFailed(id)
  BY <1>3, <1>s, <1>c, AgreeSocket DEF OnConnectFailed
<1>4. CASE OnRecv(id)
  BY <1>4, <1>s DEF OnRecv, SocketState
<1>5. CASE PeerLeaves(id)
  BY <1>5, <1>s, <1>c, AgreeOperators DEF PeerLeaves
<1>6. CASE Shutdown(id)
  BY <1>6, <1>s, <1>c, AgreeSocket DEF Shutdown
<1>7. CASE OnClose(id)
  BY <1>7, <1>s, <1>c, AgreeSocket DEF OnClose
<1>8. QED
  BY <1>1, <1>2, <1>3, <1>4, <1>5, <1>6, <1>7 DEF Callbacks

LEMMA AgreeTimer ==
  ASSUME TypeOK, SocketState, DrainOperations \/ OnTimerUpdateRun \/ RunEnds
  PROVE  SocketState'
<1>1. known' = known
  BY DEF DrainOperations, OnTimerUpdateRun, RunEnds
<1>2. CASE UNCHANGED sess
  BY <1>1, <1>2 DEF SocketState
<1>3. CASE ClearSessions
  <2>1. \A id \in known :
          /\ sess[id] \in Session /\ SocketAgrees(sess[id])
          /\ [sess[id] EXCEPT !.removeTag = TRUE] \in Session
          /\ SocketAgrees([sess[id] EXCEPT !.removeTag = TRUE])
    BY AgreeOperators, FieldTypes DEF TypeOK, SocketState
  <2>2. \A id \in known :
          SocketAgrees(ExecuteDisconnect([sess[id] EXCEPT !.removeTag = TRUE], "FIN_WAIT"))
    BY <2>1, AgreeOperators
  <2>3. \A id \in known :
          sess'[id] \in {sess[id], [sess[id] EXCEPT !.removeTag = TRUE],
                         ExecuteDisconnect([sess[id] EXCEPT !.removeTag = TRUE], "FIN_WAIT")}
    BY <1>3 DEF ClearSessions, TypeOK
  <2>4. QED
    BY <1>1, <2>1, <2>2, <2>3 DEF SocketState
<1>4. QED
  BY <1>2, <1>3 DEF DrainOperations, OnTimerUpdateRun, StopLoop, RunEnds

LEMMA AgreeInit == Init => SocketState
BY DEF Init, SocketState

LEMMA AgreeStep ==
  ASSUME TypeOK, SocketState, [Next]_vars
  PROVE  SocketState'
<1>1. CASE Application
  <2>1. sess' = sess /\ known' \subseteq known
    BY <1>1 DEF Application, Connect, Disconnect, Send, SendAndClose, Request,
                RemoveSession, CloseClient, Destroy, StopAndPush,
                JoinReturns, GetThreadMsg, DispatchMsg
  <2>2. QED
    BY <2>1 DEF SocketState
<1>2. CASE LoopThread
  BY <1>2, AgreeExecuteOperation, AgreeTimer, AgreeCallbacks DEF LoopThread, Callbacks
<1>3. CASE UNCHANGED vars
  BY <1>3 DEF vars, SocketState
<1>4. QED
  BY <1>1, <1>2, <1>3 DEF Next

(* The state of a session and that of its socket agree in every reachable  *)
(* state.                                                                  *)
LEMMA SocketStateCorrect == SafeSpec => []SocketState
BY AgreeInit, AgreeStep, TypeCorrect, PTL DEF SafeSpec

(* While a batch of operations is worked off no handle is closing: only    *)
(* callbacks close one, and the batch is not begun before they are called  *)
(* back.                                                                   *)
BatchInv == opDispatch # <<>> => \A id \in known : sess[id].udp # "closing"

LEMMA BatchStep ==
  ASSUME TypeOK, BatchInv, [Next]_vars
  PROVE  BatchInv'
<1> USE DEF BatchInv
<1>1. CASE Application
  <2>1. sess' = sess /\ opDispatch' = opDispatch /\ known' \subseteq known
    BY <1>1 DEF Application, Connect, Disconnect, Send, SendAndClose, Request,
                RemoveSession, CloseClient, Destroy, StopAndPush,
                JoinReturns, GetThreadMsg, DispatchMsg
  <2>2. QED
    BY <2>1
<1>2. CASE ExecuteOperation
  <2>0. opDispatch # <<>>
    BY <1>2 DEF ExecuteOperation, ExecSend, ExecSendAndClose, ExecDisconnect, ExecConnect,
       ExecClientClose, ExecRemoveSession, ExecDeleteSession, Executes
  <2>s. \A id \in known : sess[id] \in Session /\ sess[id].udp # "closing"
    BY <2>0 DEF TypeOK
  <2>c. ASSUME NEW id \in SessionIds, NEW s, ChangeSession(id, s), s.udp # "closing",
               known' \subseteq known \cup {id}
        PROVE  BatchInv'
    BY <2>s, <2>c DEF ChangeSession, TypeOK
  <2>u. ASSUME UNCHANGED sess, known' \subseteq known PROVE BatchInv'
    BY <2>s, <2>u
  <2>d. ASSUME NEW s \in Session
        PROVE  /\ ExecuteDisconnect(s, "FIN_WAIT").udp = s.udp
               /\ \A b \in BOOLEAN : [s EXCEPT !.unsent = b].udp = s.udp
               /\ [s EXCEPT !.removeTag = TRUE].udp = s.udp
               /\ [s EXCEPT !.connectState = "DISCONNECTING"].udp = s.udp
               /\ Connecting(s).udp = "open"
    BY DEF ExecuteDisconnect, SocketDisconnect, Connecting, Session
  <2>e. ASSUME NEW s \in Session, NEW t \in Session, t.udp = s.udp
        PROVE  ExecuteDisconnect(t, "FIN_WAIT").udp = s.udp
    BY <2>d, <2>e
  <2>f. ASSUME NEW s \in Session
        PROVE  /\ ExecuteDisconnect([s EXCEPT !.removeTag = TRUE], "FIN_WAIT").udp = s.udp
               /\ ExecuteDisconnect([s EXCEPT !.connectState = "DISCONNECTING"], "FIN_WAIT").udp
                    = s.udp
    <3>1. PICK t \in Session : t = [s EXCEPT !.removeTag = TRUE] /\ t.udp = s.udp
      BY <2>d, FieldTypes
    <3>2. PICK u \in Session : u = [s EXCEPT !.connectState = "DISCONNECTING"] /\ u.udp = s.udp
      BY <2>d, FieldTypes DEF ConnectStates
    <3>3. ExecuteDisconnect(t, "FIN_WAIT").udp = s.udp /\ ExecuteDisconnect(u, "FIN_WAIT").udp = s.udp
      BY <2>e, <3>1, <3>2
    <3>4. QED
      BY <3>1, <3>2, <3>3
  <2>1. CASE ExecSend
    <3>1. Target \in SessionIds
      BY <2>1, TargetType DEF ExecSend, SessionOps
    <3>2. ASSUME Target \in known
          PROVE  /\ [sess[Target] EXCEPT !.unsent = TRUE].udp # "closing"
                 /\ ExecuteDisconnect(sess[Target], "FIN_WAIT").udp # "closing"
      <4>1. PICK s \in Session : s = sess[Target] /\ s.udp # "closing"
        BY <2>s, <3>2
      <4>2. [s EXCEPT !.unsent = TRUE].udp # "closing" /\ ExecuteDisconnect(s, "FIN_WAIT").udp # "closing"
        BY <2>d, <4>1
      <4>3. QED
        BY <4>1, <4>2
    <3>3. known' = known
      BY <2>1 DEF ExecSend
    <3>4. \/ UNCHANGED sess
          \/ /\ Target \in known
             /\ \/ ChangeSession(Target, [sess[Target] EXCEPT !.unsent = TRUE])
                \/ ChangeSession(Target, ExecuteDisconnect(sess[Target], "FIN_WAIT"))
      BY <2>1 DEF ExecSend, Sendable
    <3>5. QED
      BY <2>c, <2>u, <3>1, <3>2, <3>3, <3>4
  <2>2. CASE ExecSendAndClose
    <3>1. Target \in SessionIds
      BY <2>2, TargetType DEF ExecSendAndClose, SessionOps
    <3>2. ASSUME Target \in known
          PROVE  /\ [sess[Target] EXCEPT !.unsent = TRUE].udp # "closing"
                 /\ ExecuteDisconnect(sess[Target], "FIN_WAIT").udp # "closing"
      <4>1. PICK s \in Session : s = sess[Target] /\ s.udp # "closing"
        BY <2>s, <3>2
      <4>2. [s EXCEPT !.unsent = TRUE].udp # "closing" /\ ExecuteDisconnect(s, "FIN_WAIT").udp # "closing"
        BY <2>d, <4>1
      <4>3. QED
        BY <4>1, <4>2
    <3>3. known' = known
      BY <2>2 DEF ExecSendAndClose
    <3>4. \/ UNCHANGED sess
          \/ /\ Target \in known
             /\ \/ ChangeSession(Target, [sess[Target] EXCEPT !.unsent = TRUE])
                \/ ChangeSession(Target, ExecuteDisconnect(sess[Target], "FIN_WAIT"))
      BY <2>2 DEF ExecSendAndClose, Sendable
    <3>5. QED
      BY <2>c, <2>u, <3>1, <3>2, <3>3, <3>4
  <2>3. CASE ExecDisconnect
    <3>1. Target \in SessionIds
      BY <2>3, TargetType DEF ExecDisconnect, SessionOps
    <3>2. ASSUME Target \in known
          PROVE  ExecuteDisconnect([sess[Target] EXCEPT !.connectState = "DISCONNECTING"],
                                   "FIN_WAIT").udp # "closing"
      <4>1. PICK s \in Session : s = sess[Target] /\ s.udp # "closing"
        BY <2>s, <3>2
      <4>2. ExecuteDisconnect([s EXCEPT !.connectState = "DISCONNECTING"], "FIN_WAIT").udp # "closing"
        BY <2>f, <4>1
      <4>3. QED
        BY <4>1, <4>2
    <3>3. QED
      BY <2>3, <2>c, <2>u, <3>1, <3>2 DEF ExecDisconnect
  <2>4. CASE ExecConnect
    <3>1. Target \in SessionIds
      BY <2>4, TargetType DEF ExecConnect, SessionOps
    <3>2. CASE CreateSession
      <4>1. /\ Connecting(NewSession).udp # "closing"
            /\ [NewSession EXCEPT !.connectState = "DISCONNECT"].udp # "closing"
        BY NewSessionType, <2>d DEF NewSession
      <4>2. QED
        BY <2>c, <3>1, <3>2, <4>1 DEF CreateSession
    <3>3. CASE Reconnect
      BY <2>s, <2>c, <2>u, <2>d, <3>1, <3>3 DEF Reconnect
    <3>4. QED
      BY <2>4, <3>2, <3>3 DEF ExecConnect
  <2>5. CASE ExecClientClose
    BY <2>5, <2>u DEF ExecClientClose
  <2>6. CASE ExecRemoveSession
    <3>1. Target \in SessionIds
      BY <2>6, TargetType DEF ExecRemoveSession, SessionOps
    <3>2. ASSUME Target \in known
          PROVE  /\ [sess[Target] EXCEPT !.removeTag = TRUE].udp # "closing"
                 /\ ExecuteDisconnect([sess[Target] EXCEPT !.removeTag = TRUE], "FIN_WAIT").udp
                      # "closing"
      <4>1. PICK s \in Session : s = sess[Target] /\ s.udp # "closing"
        BY <2>s, <3>2
      <4>2. /\ [s EXCEPT !.removeTag = TRUE].udp # "closing"
            /\ ExecuteDisconnect([s EXCEPT !.removeTag = TRUE], "FIN_WAIT").udp # "closing"
        BY <2>d, <2>f, <4>1
      <4>3. QED
        BY <4>1, <4>2
    <3>3. QED
      BY <2>6, <2>c, <2>u, <3>1, <3>2 DEF ExecRemoveSession
  <2>7. CASE ExecDeleteSession
    <3>1. Target \in SessionIds
      BY <2>7, TargetType DEF ExecDeleteSession, SessionOps
    <3>2. QED
      BY <2>7, <2>c, <2>u, <3>1 DEF ExecDeleteSession, NewSession
  <2>8. QED
    BY <1>2, <2>1, <2>2, <2>3, <2>4, <2>5, <2>6, <2>7 DEF ExecuteOperation
<1>3. CASE DrainOperations
  BY <1>3 DEF DrainOperations, Closing
<1>4. CASE OnTimerUpdateRun \/ RunEnds
  <2>1. CASE OnTimerUpdateRun
    BY <2>1 DEF OnTimerUpdateRun
  <2>2. CASE RunEnds
    BY <2>2 DEF RunEnds
  <2>3. QED
    BY <1>4, <2>1, <2>2
<1>5. ASSUME NEW id \in SessionIds, Callbacks(id) PROVE BatchInv'
  BY <1>5 DEF Callbacks, Flush, OnSynAck, OnConnectFailed, OnRecv, PeerLeaves,
     Shutdown, OnClose, SocketCallback
<1>6. CASE UNCHANGED vars
  BY <1>6 DEF vars, sharedVars
<1>7. QED
  BY <1>1, <1>2, <1>3, <1>4, <1>5, <1>6 DEF Next, LoopThread, Callbacks

-----------------------------------------------------------------------------
(* RemovalOnce.  The two queues of a pair, one behind the other, are one   *)
(* queue.  The removal of a session is announced behind all its messages,  *)
(* then confirmed; meanwhile the session is tagged and disconnected, and a *)
(* session that is neither announced nor confirmed may still send.         *)

Removal(id)  == SessionMsg("REMOVE_SESSION", id)
Deletion(id) == SessionOp("DELETE_SESSION", id)
MsgsOf(id)   == {m \in Msg : m.msg # "EXIT_LOOP" /\ m.id = id}
LiveMsgs     == {m \in Msg : m.msg # "EXIT_LOOP" => m.id \in known}

Silent(id)   == \A i \in DOMAIN MsgsAhead : MsgsAhead[i] \notin MsgsOf(id)
Removing(id) == Has(MsgsAhead, Removal(id)) \/ Has(OpsAhead, Deletion(id))
Removed(s)   == s.removeTag /\ s.connectState = "DISCONNECT"

QueueShape ==
  /\ app # "up" => msgDispatch = <<>>
  /\ loop # "running" => opDispatch = <<>>
  /\ app = "gone" => loop = "ended" /\ MsgsAhead = <<>> /\ OpsAhead = <<>> /\ known = {}

RemovalInv ==
  /\ Within(MsgsAhead, LiveMsgs)
  /\ \A id \in SessionIds :
       /\ Single(MsgsAhead, Removal(id)) /\ Last(MsgsAhead, Removal(id), MsgsOf(id))
       /\ Single(OpsAhead, Deletion(id))
       /\ Has(OpsAhead, Deletion(id)) => Silent(id)
       /\ Removing(id) => id \in known /\ Removed(sess[id])

(* The operations that are queued change, but no deletion is among them.   *)
SameDels ==
  \A id \in SessionIds :
    /\ Has(OpsAhead', Deletion(id)) <=> Has(OpsAhead, Deletion(id))
    /\ Single(OpsAhead, Deletion(id)) => Single(OpsAhead', Deletion(id))

LEMMA AheadType == TypeOK => MsgsAhead \in Seq(Msg) /\ OpsAhead \in Seq(Op)
BY ConcatProperties DEF MsgsAhead, OpsAhead, TypeOK

(* A message, or an operation, that is taken is the first of those ahead.  *)
LEMMA MsgTaken ==
  ASSUME TypeOK, msgDispatch # <<>>
  PROVE  /\ MsgsAhead \in Seq(Msg) /\ MsgsAhead # <<>>
         /\ Head(MsgsAhead) = Head(msgDispatch) /\ Head(MsgsAhead) \in Msg
         /\ Tail(MsgsAhead) = Tail(msgDispatch) \o msgQue
<1>1. msgDispatch \in Seq(Msg) /\ msgQue \in Seq(Msg)
  BY DEF TypeOK
<1>2. /\ MsgsAhead # <<>> /\ Head(MsgsAhead) = Head(msgDispatch)
      /\ Tail(MsgsAhead) = Tail(msgDispatch) \o msgQue
  BY <1>1, PopInFront DEF MsgsAhead
<1>3. MsgsAhead \in Seq(Msg)
  BY AheadType
<1>4. QED
  BY <1>2, <1>3, HeadTailProperties

LEMMA OpTaken ==
  ASSUME TypeOK, opDispatch # <<>>
  PROVE  /\ OpsAhead \in Seq(Op) /\ OpsAhead # <<>>
         /\ Head(OpsAhead) = Head(opDispatch) /\ Head(OpsAhead) \in Op
         /\ Tail(OpsAhead) = Tail(opDispatch) \o opQue
<1>1. opDispatch \in Seq(Op) /\ opQue \in Seq(Op)
  BY DEF TypeOK
<1>2. /\ OpsAhead # <<>> /\ Head(OpsAhead) = Head(opDispatch)
      /\ Tail(OpsAhead) = Tail(opDispatch) \o opQue
  BY <1>1, PopInFront DEF OpsAhead
<1>3. OpsAhead \in Seq(Op)
  BY AheadType
<1>4. QED
  BY <1>2, <1>3, HeadTailProperties

LEMMA BatchPushed ==
  ASSUME TypeOK, NEW ms \in Seq(Msg), PushMsgs(ms), msgDispatch' = msgDispatch
  PROVE  MsgsAhead' = MsgsAhead \o ms
<1>1. msgDispatch \in Seq(Msg) /\ msgQue \in Seq(Msg)
  BY DEF TypeOK
<1>2. msgDispatch \o (msgQue \o ms) = (msgDispatch \o msgQue) \o ms
  BY <1>1, BatchBehind
<1>3. QED
  BY <1>2 DEF MsgsAhead, PushMsgs

LEMMA RemovalMsg ==
  ASSUME NEW id \in SessionIds, NEW m \in SessionMsgs, NEW x \in SessionIds
  PROVE  /\ SessionMsg(m, x) \in Msg
         /\ SessionMsg(m, x) = Removal(id) <=> m = "REMOVE_SESSION" /\ x = id
         /\ SessionMsg(m, x) \in MsgsOf(id) <=> x = id
         /\ Removal(id) \in MsgsOf(id)
BY SessionMsgType DEF SessionMsg, Removal, MsgsOf, Msg, SessionMsgs

(* A step of the loop thread queues the messages ms of sessions that are   *)
(* not being removed, and leaves those that are as they are.               *)
LEMMA RemovalPushed ==
  ASSUME TypeOK, TypeOK', RemovalInv, SameDels,
         NEW ms \in Seq(Msg), MsgsAhead' = MsgsAhead \o ms, Within(ms, LiveMsgs'),
         known \subseteq known',
         \A id \in SessionIds :
           /\ Single(ms, Removal(id)) /\ Last(ms, Removal(id), MsgsOf(id))
           /\ Removing(id) => /\ sess'[id].removeTag = sess[id].removeTag
                              /\ sess'[id].connectState = sess[id].connectState
                              /\ \A i \in DOMAIN ms : ms[i] \notin MsgsOf(id)
           /\ Has(ms, Removal(id)) => id \in known' /\ Removed(sess'[id])
  PROVE  RemovalInv'
<1> DEFINE M == MsgsAhead
<1>1. M \in Seq(Msg)
  BY AheadType
<1>2. Within(M, LiveMsgs')
  BY DEF RemovalInv, Within, LiveMsgs
<1>3. Within(M', LiveMsgs')
  BY <1>1, <1>2, ConcatWithin
<1>6. ASSUME NEW id \in SessionIds
      PROVE  /\ Single(M, Removal(id)) /\ Last(M, Removal(id), MsgsOf(id))
             /\ Has(M, Removal(id)) => Removing(id)
  BY DEF RemovalInv, Removing
<1>7. ASSUME NEW id \in SessionIds
      PROVE  Removal(id) \in MsgsOf(id)
  BY RemovalMsg DEF SessionMsgs
<1>8. ASSUME NEW id \in SessionIds
      PROVE  /\ Single(M', Removal(id)) /\ Last(M', Removal(id), MsgsOf(id))
             /\ Has(M', Removal(id)) <=> Has(M, Removal(id)) \/ Has(ms, Removal(id))
  <2>1. Has(M, Removal(id)) => ~Has(ms, Removal(id))
    BY <1>6, <1>7 DEF Has
  <2>2. Has(M, Removal(id)) => \A i \in DOMAIN ms : ms[i] \notin MsgsOf(id)
    BY <1>6
  <2>3. QED
    BY <1>1, <1>6, <2>1, <2>2, ConcatHas, ConcatSingle, ConcatLast
<1>9. ASSUME NEW id \in SessionIds
      PROVE  /\ Single(OpsAhead', Deletion(id))
             /\ Has(OpsAhead', Deletion(id)) => Has(OpsAhead, Deletion(id))
  BY DEF SameDels, RemovalInv
<1>10. ASSUME NEW id \in SessionIds, Has(OpsAhead', Deletion(id)) PROVE Silent(id)'
  <2>1. Silent(id) /\ Removing(id)
    BY <1>9, <1>10 DEF RemovalInv, Removing
  <2>2. \A i \in DOMAIN ms : ms[i] \notin MsgsOf(id)
    BY <2>1
  <2>3. QED
    BY <1>1, <2>1, <2>2, ConcatParts DEF Silent, MsgsOf
<1>11. ASSUME NEW id \in SessionIds, Removing(id)' PROVE id \in known' /\ Removed(sess'[id])
  <2>1. CASE Removing(id)
    BY <2>1 DEF RemovalInv, Removed
  <2>2. CASE Has(ms, Removal(id))
    BY <2>2
  <2>3. QED
    BY <1>6, <1>8, <1>9, <1>11, <2>1, <2>2 DEF Removing, Deletion, Removal
<1>13. QED
  BY <1>3, <1>8, <1>9, <1>10, <1>11 DEF RemovalInv, Deletion, MsgsOf, Removal

(* A step that queues no message.                                          *)
LEMMA RemovalKept ==
  ASSUME TypeOK, TypeOK', RemovalInv, SameDels, MsgsAhead' = MsgsAhead,
         known \subseteq known',
         \A id \in SessionIds : Removing(id) =>
           /\ sess'[id].removeTag = sess[id].removeTag
           /\ sess'[id].connectState = sess[id].connectState
  PROVE  RemovalInv'
<1>1. <<>> \in Seq(Msg) /\ MsgsAhead' = MsgsAhead \o <<>> /\ DOMAIN <<>> = {}
  BY AheadType, NothingAhead, EmptySeq
<1>2. /\ Within(<<>>, LiveMsgs')
      /\ \A id \in SessionIds : /\ Single(<<>>, Removal(id)) /\ ~Has(<<>>, Removal(id))
                                /\ Last(<<>>, Removal(id), MsgsOf(id))
  BY <1>1 DEF Within, Single, Last, Has
<1>3. QED
  BY <1>1, <1>2, RemovalPushed

(* A step that queues one message, of a session that is not being removed. *)
LEMMA RemovalOne ==
  ASSUME TypeOK, TypeOK', RemovalInv, SameDels,
         NEW v \in SessionIds, ~Removing(v), v \in known',
         NEW k \in SessionMsgs, PushMsgs(<<SessionMsg(k, v)>>),
         msgDispatch' = msgDispatch,
         k = "REMOVE_SESSION" => Removed(sess'[v]),
         known \subseteq known',
         \A id \in SessionIds : id # v => sess'[id] = sess[id]
  PROVE  RemovalInv'
<1> DEFINE m  == SessionMsg(k, v)
           ms == <<m>>
<1>1. m \in Msg /\ ms \in Seq(Msg) /\ DOMAIN ms = {1} /\ ms[1] = m
  BY SessionMsgType
<1>3. m \in LiveMsgs'
  BY <1>1 DEF LiveMsgs, SessionMsg
<1>4. ASSUME NEW id \in SessionIds
      PROVE  /\ m \in MsgsOf(id) <=> id = v
             /\ m = Removal(id) => id = v /\ k = "REMOVE_SESSION"
  BY RemovalMsg
<1>5. PushMsgs(ms)
  OBVIOUS
<1> HIDE DEF m, ms
<1>2. MsgsAhead' = MsgsAhead \o ms
  BY <1>1, <1>5, BatchPushed
<1>6. ASSUME NEW id \in SessionIds
      PROVE  /\ Single(ms, Removal(id)) /\ Last(ms, Removal(id), MsgsOf(id))
             /\ Has(ms, Removal(id)) => m = Removal(id)
  BY <1>1 DEF Single, Last, Has
<1>7. ASSUME NEW id \in SessionIds, Removing(id)
      PROVE  /\ sess'[id] = sess[id]
             /\ \A i \in DOMAIN ms : ms[i] \notin MsgsOf(id)
  BY <1>1, <1>4, <1>7
<1>8. ASSUME NEW id \in SessionIds, Has(ms, Removal(id))
      PROVE  id \in known' /\ Removed(sess'[id])
  BY <1>4, <1>6, <1>8
<1>9. Within(ms, LiveMsgs')
  BY <1>1, <1>3 DEF Within
<1>10. QED
  BY <1>1, <1>2, <1>6, <1>7, <1>8, <1>9, RemovalPushed

(* Pops and pushes of operations that delete no session.                   *)
LEMMA SameOps ==
  ASSUME OpsAhead' = OpsAhead
  PROVE  SameDels
BY DEF SameDels

LEMMA OpPushed ==
  ASSUME TypeOK, NEW o \in Op, PushOp(o), opDispatch' = opDispatch
  PROVE  OpsAhead' = Append(OpsAhead, o) /\ OpsAhead \in Seq(Op)
BY AheadType, PushBehind DEF OpsAhead, PushOp, TypeOK

(* An operation is taken out; executeSendAndClose pushes another as well.  *)
LEMMA OpPopped ==
  ASSUME TypeOK, NEW o, Executes(o)
  PROVE  /\ OpsAhead \in Seq(Op) /\ OpsAhead # <<>> /\ Head(OpsAhead) = Head(opDispatch)
         /\ Tail(OpsAhead) \in Seq(Op)
         /\ opQue' = opQue => OpsAhead' = Tail(OpsAhead)
         /\ \A p \in Op : PushOp(p) => OpsAhead' = Append(Tail(OpsAhead), p)
<1>1. opDispatch # <<>> /\ opDispatch' = Tail(opDispatch)
  BY DEF Executes
<1>2. opDispatch \in Seq(Op) /\ opQue \in Seq(Op) /\ Tail(opDispatch) \in Seq(Op)
  BY <1>1, HeadTailProperties DEF TypeOK
<1>3. /\ OpsAhead \in Seq(Op) /\ OpsAhead # <<>> /\ Head(OpsAhead) = Head(opDispatch)
      /\ Tail(OpsAhead) = Tail(opDispatch) \o opQue
  BY <1>1, <1>2, OpTaken DEF OpsAhead
<1>4. opQue' = opQue => OpsAhead' = Tail(OpsAhead)
  BY <1>1, <1>3 DEF OpsAhead
<1>5. ASSUME NEW p \in Op, PushOp(p) PROVE OpsAhead' = Append(Tail(OpsAhead), p)
  <2>1. Tail(opDispatch) \o Append(opQue, p) = Append(Tail(opDispatch) \o opQue, p)
    BY <1>2, PushBehind
  <2>2. QED
    BY <1>1, <1>3, <1>5, <2>1 DEF PushOp, OpsAhead
<1>6. QED
  BY <1>3, <1>4, <1>5, HeadTailProperties

LEMMA PushKeepsDels ==
  ASSUME TypeOK, NEW o \in Op, o.op # "DELETE_SESSION", PushOp(o), opDispatch' = opDispatch
  PROVE  SameDels
<1>1. OpsAhead' = Append(OpsAhead, o) /\ OpsAhead \in Seq(Op)
  BY OpPushed
<1>2. \A id \in SessionIds : o # Deletion(id)
  BY DEF Deletion, SessionOp
<1>3. QED
  BY <1>1, <1>2, HasAppend, SingleAppend DEF SameDels

LEMMA PopKeepsDels ==
  ASSUME TypeOK, NEW o, o # "DELETE_SESSION", Executes(o),
         opQue' = opQue \/ \E p \in Op : p.op # "DELETE_SESSION" /\ PushOp(p)
  PROVE  SameDels
<1> DEFINE T == Tail(OpsAhead)
<1>1. Head(opDispatch).op # "DELETE_SESSION"
  BY DEF Executes
<1>2. /\ OpsAhead \in Seq(Op) /\ OpsAhead # <<>> /\ Head(OpsAhead) = Head(opDispatch)
      /\ T \in Seq(Op)
  BY OpPopped
<1>3. \A id \in SessionIds : Head(OpsAhead) # Deletion(id)
  BY <1>1, <1>2 DEF Deletion, SessionOp
<1>4. \A id \in SessionIds : /\ Has(T, Deletion(id)) <=> Has(OpsAhead, Deletion(id))
                             /\ Single(OpsAhead, Deletion(id)) => Single(T, Deletion(id))
  BY <1>2, <1>3, HasTail, SingleTail
<1> HIDE DEF T
<1>5. CASE opQue' = opQue
  <2>1. OpsAhead' = T
    BY <1>5, OpPopped DEF T
  <2>2. QED
    BY <1>4, <2>1 DEF SameDels
<1>6. ASSUME NEW p \in Op, p.op # "DELETE_SESSION", PushOp(p) PROVE SameDels
  <2>1. OpsAhead' = Append(T, p)
    BY <1>6, OpPopped DEF T
  <2>2. \A id \in SessionIds : p # Deletion(id)
    BY <1>6 DEF Deletion, SessionOp
  <2>3. QED
    BY <1>2, <1>4, <2>1, <2>2, HasAppend, SingleAppend DEF SameDels
<1>7. QED
  BY <1>5, <1>6

(* No step but the confirmation of a removal, its execution and the end of *)
(* the application touches a deletion.                                     *)
LEMMA DelsKept ==
  ASSUME TypeOK,
         \/ Application /\ ~DispatchMsg /\ ~JoinReturns
         \/ LoopThread /\ ~ExecDeleteSession
         \/ UNCHANGED vars
  PROVE  SameDels
<1> USE DEF SessionOps
<1>u. ASSUME UNCHANGED <<opQue, opDispatch>> PROVE SameDels
  BY <1>u, SameOps DEF OpsAhead
<1>1. ASSUME NEW id \in SessionIds, NEW call, NEW op \in SessionOps, op # "DELETE_SESSION",
             Request(call, op, id)
      PROVE  SameDels
  <2>1. SessionOp(op, id) \in Op /\ SessionOp(op, id).op # "DELETE_SESSION"
    BY <1>1, SessionOpType DEF SessionOp
  <2>2. QED
    BY <1>1, <2>1, PushKeepsDels DEF Request
<1>2. ASSUME NEW id \in SessionIds,
             Connect(id) \/ Disconnect(id) \/ Send(id) \/ SendAndClose(id)
      PROVE  SameDels
  BY <1>1, <1>2 DEF Connect, Disconnect, Send, SendAndClose
<1>3. ASSUME NEW id \in SessionIds, RemoveSession(id) PROVE SameDels
  <2>1. /\ SessionOp("REMOVE_SESSION", id) \in Op
        /\ SessionOp("REMOVE_SESSION", id).op # "DELETE_SESSION"
    BY SessionOpType DEF SessionOp
  <2>2. QED
    BY <1>3, <2>1, PushKeepsDels DEF RemoveSession
<1>5. CASE CloseClient \/ Destroy
  <2>1. StopAndPush
    BY <1>5 DEF CloseClient, Destroy
  <2>2. [op |-> "CLIENT_CLOSE"] \in Op
    BY DEF Op
  <2>3. QED
    BY <1>u, <2>1, <2>2, PushKeepsDels DEF StopAndPush
<1>6. CASE GetThreadMsg
  BY <1>6, <1>u DEF GetThreadMsg
<1>7. CASE DrainOperations
  <2>1. OpsAhead' = OpsAhead
    BY <1>7, NothingAhead DEF DrainOperations, OpsAhead, TypeOK
  <2>2. QED
    BY <2>1, SameOps
<1>8. CASE ExecuteOperation /\ ~ExecDeleteSession
  <2>1. CASE ~ExecSendAndClose
    <3>1. \E o : o # "DELETE_SESSION" /\ Executes(o)
      BY <1>8, <2>1 DEF ExecuteOperation, ExecSend, ExecDisconnect, ExecConnect,
         ExecClientClose, ExecRemoveSession
    <3>2. opQue' = opQue
      BY <1>8, <2>1 DEF ExecuteOperation, ExecSend, ExecDisconnect, ExecConnect,
         ExecClientClose, ExecRemoveSession
    <3>3. QED
      BY <3>1, <3>2, PopKeepsDels
  <2>2. CASE ExecSendAndClose
    <3>1. Target \in SessionIds /\ Executes("SEND_AND_CLOSE")
      BY <2>2, TargetType DEF ExecSendAndClose
    <3>2. SessionOp("DISCONNECT", Target) \in Op /\ SessionOp("DISCONNECT", Target).op # "DELETE_SESSION"
      BY <3>1, SessionOpType DEF SessionOp
    <3>3. opQue' = opQue \/ PushOp(SessionOp("DISCONNECT", Target))
      BY <2>2 DEF ExecSendAndClose
    <3>4. QED
      BY <3>1, <3>2, <3>3, PopKeepsDels
  <2>3. QED
    BY <2>1, <2>2
<1>9. CASE OnTimerUpdateRun \/ RunEnds
  BY <1>9, <1>u DEF OnTimerUpdateRun, RunEnds
<1>10. ASSUME NEW id \in SessionIds, Callbacks(id) PROVE SameDels
  BY <1>10, <1>u DEF Callbacks, Flush, OnSynAck, OnConnectFailed, OnRecv, PeerLeaves, Shutdown,
     OnClose, SocketCallback
<1>11. CASE UNCHANGED vars
  BY <1>11, <1>u DEF vars, sharedVars
<1>12. QED
  BY <1>2, <1>3, <1>5, <1>6, <1>7, <1>8, <1>9, <1>10, <1>11
  DEF Application, LoopThread, Callbacks

LEMMA QueueShapeStep ==
  ASSUME TypeOK, QueueShape, [Next]_vars
  PROVE  QueueShape'
<1> USE DEF QueueShape
<1>1. ASSUME UNCHANGED <<app, msgDispatch, opDispatch, loop>>, app # "gone" PROVE QueueShape'
  BY <1>1
<1>2. ASSUME NEW id \in SessionIds, Connect(id) \/ Disconnect(id) \/ Send(id) \/ SendAndClose(id)
      PROVE  QueueShape'
  BY <1>1, <1>2 DEF Connect, Disconnect, Send, SendAndClose, Request, Calls
<1>3. ASSUME NEW id \in SessionIds, RemoveSession(id) PROVE QueueShape'
  BY <1>1, <1>3 DEF RemoveSession, Calls
<1>5. CASE CloseClient \/ Destroy
  BY <1>5 DEF CloseClient, Destroy, StopAndPush, Calls
<1>6. CASE JoinReturns
  <2>1. msgDispatch' = <<>> /\ opDispatch' = <<>> /\ msgQue' = <<>> /\ opQue' = <<>>
    BY <1>6 DEF JoinReturns
  <2>2. MsgsAhead' = <<>> /\ OpsAhead' = <<>>
    BY <2>1, NothingAhead, EmptySeq DEF MsgsAhead, OpsAhead
  <2>3. QED
    BY <1>6, <2>1, <2>2 DEF JoinReturns
<1>7. CASE GetThreadMsg
  BY <1>7 DEF GetThreadMsg, appVars
<1>8. CASE DispatchMsg
  BY <1>8 DEF DispatchMsg
<1>9. CASE DrainOperations
  BY <1>9 DEF DrainOperations, appVars
<1>10. CASE ExecuteOperation
  <2>1. opDispatch # <<>> /\ UNCHANGED <<app, msgDispatch, loop>>
    BY <1>10 DEF ExecuteOperation, ExecSend, ExecSendAndClose, ExecDisconnect, ExecConnect,
       ExecClientClose, ExecRemoveSession, ExecDeleteSession, Executes, appVars
  <2>2. QED
    BY <2>1
<1>11. CASE OnTimerUpdateRun
  BY <1>11 DEF OnTimerUpdateRun, ClearSessions, StopLoop, appVars
<1>12. CASE RunEnds
  BY <1>12 DEF RunEnds, appVars
<1>13. ASSUME NEW id \in SessionIds, Callbacks(id) PROVE QueueShape'
  BY <1>1, <1>13 DEF Callbacks, Flush, OnSynAck, OnConnectFailed, OnRecv, PeerLeaves, Shutdown,
     OnClose, SocketCallback, appVars
<1>14. CASE UNCHANGED vars
  BY <1>14 DEF vars, appVars, sharedVars, MsgsAhead, OpsAhead
<1>15. QED
  BY <1>2, <1>3, <1>5, <1>6, <1>7, <1>8, <1>9, <1>10, <1>11, <1>12, <1>13, <1>14
  DEF Next, Application, LoopThread, Callbacks

LEMMA RemovalApplication ==
  ASSUME TypeOK, TypeOK', QueueShape, RemovalInv, Application, ~JoinReturns
  PROVE  RemovalInv'
<1>1. CASE ~DispatchMsg
  <2>1. UNCHANGED <<known, sess>>
    BY <1>1 DEF Application, Connect, Disconnect, Send, SendAndClose, Request, RemoveSession,
       CloseClient, Destroy, StopAndPush, GetThreadMsg
  <2>2. CASE GetThreadMsg
    <3>1. msgDispatch = <<>> /\ msgDispatch' = msgQue /\ msgQue' = <<>> /\ msgQue \in Seq(Msg)
      BY <2>2 DEF GetThreadMsg, TypeOK
    <3>2. MsgsAhead' = MsgsAhead
      BY <3>1, NothingAhead DEF MsgsAhead
    <3>3. QED
      BY <1>1, <2>1, <3>2, DelsKept, RemovalKept
  <2>3. CASE ~GetThreadMsg
    <3>1. MsgsAhead' = MsgsAhead
      BY <1>1, <2>3 DEF Application, Connect, Disconnect, Send, SendAndClose, Request,
         RemoveSession, CloseClient, Destroy, StopAndPush, MsgsAhead
    <3>2. QED
      BY <1>1, <2>1, <3>1, DelsKept, RemovalKept
  <2>4. QED
    BY <2>2, <2>3
<1>2. CASE DispatchMsg
  <2> DEFINE m == Head(msgDispatch)
  <2>1. /\ msgDispatch # <<>> /\ msgDispatch' = Tail(msgDispatch)
        /\ UNCHANGED <<msgQue, known, sess, opDispatch>>
    BY <1>2 DEF DispatchMsg
  <2>2. /\ MsgsAhead \in Seq(Msg) /\ MsgsAhead # <<>>
        /\ Head(MsgsAhead) = m /\ MsgsAhead' = Tail(MsgsAhead)
    BY <2>1, MsgTaken DEF MsgsAhead
  <2>3. m \in LiveMsgs /\ Within(MsgsAhead', LiveMsgs')
    BY <2>1, <2>2, WithinTail DEF RemovalInv, LiveMsgs
  <2>4. ASSUME NEW id \in SessionIds
        PROVE  /\ Single(MsgsAhead', Removal(id)) /\ Last(MsgsAhead', Removal(id), MsgsOf(id))
               /\ m = Removal(id) => Silent(id)' /\ ~Has(MsgsAhead', Removal(id))
               /\ Has(MsgsAhead, Removal(id)) <=> m = Removal(id) \/ Has(MsgsAhead', Removal(id))
               /\ Silent(id) => Silent(id)' /\ m # Removal(id)
    <3>1. Single(MsgsAhead, Removal(id)) /\ Last(MsgsAhead, Removal(id), MsgsOf(id))
      BY DEF RemovalInv
    <3>2. Silent(id) => Silent(id)' /\ m # Removal(id)
      <4>1. Silent(id) => Within(MsgsAhead, Msg \ MsgsOf(id))
        BY <2>2, LenProperties DEF Silent, Within
      <4>2. Silent(id) => m \notin MsgsOf(id) /\ Within(MsgsAhead', Msg \ MsgsOf(id))
        BY <2>2, <4>1, WithinTail
      <4>3. Removal(id) \in MsgsOf(id)
        BY RemovalMsg DEF SessionMsgs
      <4>4. QED
        BY <4>2, <4>3 DEF Silent, Within, MsgsOf
    <3>3. m = Removal(id) => Silent(id)'
      BY <2>2, <3>1, LastTail DEF Silent, MsgsOf
    <3>4. QED
      BY <2>2, <3>1, <3>2, <3>3, HasTail, SingleTail, LastTail
  <2>5. CASE m.msg = "REMOVE_SESSION"
    <3> DEFINE v == m.id
               d == Deletion(v)
    <3>1. v \in SessionIds /\ m = Removal(v)
      BY <2>3, <2>5 DEF LiveMsgs, Msg, Removal, SessionMsg
    <3>2. d \in Op /\ PushOp(d)
      BY <1>2, <2>5, <3>1, SessionOpType DEF DispatchMsg, Deletion, SessionOps
    <3>3. OpsAhead' = Append(OpsAhead, d) /\ OpsAhead \in Seq(Op)
      BY <2>1, <3>2, OpPushed
    <3>4. \A id \in SessionIds : /\ d = Deletion(id) <=> id = v
                                 /\ m = Removal(id) <=> id = v
      BY <3>1 DEF Deletion, SessionOp, Removal, SessionMsg
    <3> HIDE DEF d, v, m
    <3>5. ~Has(OpsAhead, d)
      <4>1. ~Silent(v)
        BY <2>4, <3>1
      <4>2. QED
        BY <3>1, <4>1 DEF RemovalInv, d
    <3>6. ASSUME NEW id \in SessionIds
          PROVE  /\ Single(OpsAhead', Deletion(id))
                 /\ Has(OpsAhead', Deletion(id)) <=> Has(OpsAhead, Deletion(id)) \/ id = v
      BY <3>2, <3>3, <3>4, <3>5, HasAppend, SingleAppend DEF RemovalInv
    <3>7. ASSUME NEW id \in SessionIds
          PROVE  /\ Has(OpsAhead', Deletion(id)) => Silent(id)'
                 /\ Removing(id)' => Removing(id)
      BY <2>4, <3>1, <3>4, <3>6 DEF RemovalInv, Removing, Deletion, Removal
    <3>8. QED
      BY <2>1, <2>3, <2>4, <3>6, <3>7 DEF RemovalInv, Removed, Deletion, Removal, MsgsOf
  <2>6. CASE m.msg # "REMOVE_SESSION"
    <3>1. OpsAhead' = OpsAhead
      BY <1>2, <2>1, <2>6 DEF DispatchMsg, OpsAhead
    <3>2. \A id \in SessionIds : m # Removal(id)
      BY <2>6 DEF Removal, SessionMsg
    <3> HIDE DEF m
    <3>3. ASSUME NEW id \in SessionIds
          PROVE  /\ Has(OpsAhead', Deletion(id)) => Silent(id)'
                 /\ Removing(id)' => Removing(id)
      BY <2>4, <3>1, <3>2 DEF RemovalInv, Removing, Deletion, Removal
    <3>4. QED
      BY <2>1, <2>3, <2>4, <3>1, <3>3 DEF RemovalInv, Removed, Deletion, Removal, MsgsOf
  <2>7. QED
    BY <2>5, <2>6
<1>3. QED
  BY <1>1, <1>2

(* An operation changes the session it is for, and no other.               *)
LEMMA RemovalExecute ==
  ASSUME TypeOK, TypeOK', SocketState, QueueShape, RemovalInv, ExecuteOperation
  PROVE  RemovalInv'
<1> USE DEF SessionOps
<1>s. sess \in [SessionIds -> Session]
  BY DEF TypeOK
<1>e. ASSUME NEW o, Executes(o)
      PROVE  UNCHANGED <<app, msgDispatch>>
  BY <1>e DEF Executes, appVars
<1>d. ~ExecDeleteSession => SameDels
  BY DelsKept DEF LoopThread
<1>u. ASSUME UNCHANGED <<msgDispatch, msgQue, known>>, SameDels,
             NEW v \in SessionIds,
             \A id \in SessionIds : id # v => sess'[id] = sess[id],
             Removing(v) => /\ sess'[v].removeTag = sess[v].removeTag
                            /\ sess'[v].connectState = sess[v].connectState
      PROVE  RemovalInv'
  BY <1>u, RemovalKept DEF MsgsAhead
<1>c. ASSUME NEW v \in SessionIds, NEW s, ChangeSession(v, s)
      PROVE  sess'[v] = s /\ \A id \in SessionIds : id # v => sess'[id] = sess[id]
  BY <1>s, <1>c DEF ChangeSession
<1>f. ASSUME NEW s \in Session
      PROVE  /\ ExecuteDisconnect(s, "FIN_WAIT").removeTag = s.removeTag
             /\ ExecuteDisconnect(s, "FIN_WAIT").connectState = s.connectState
             /\ [s EXCEPT !.unsent = TRUE].removeTag = s.removeTag
             /\ [s EXCEPT !.unsent = TRUE].connectState = s.connectState
  BY DEF ExecuteDisconnect, SocketDisconnect, Session
<1>r. ASSUME NEW v \in SessionIds, Removing(v) PROVE v \in known /\ Removed(sess[v])
  BY <1>r DEF RemovalInv
<1>1. CASE ExecSend
  <2>1. Target \in SessionIds /\ SameDels
    BY <1>1, <1>d, TargetType DEF ExecSend, ExecDeleteSession, Executes
  <2>2. \/ UNCHANGED sess
        \/ ChangeSession(Target, [sess[Target] EXCEPT !.unsent = TRUE])
        \/ ChangeSession(Target, ExecuteDisconnect(sess[Target], "FIN_WAIT"))
    BY <1>1 DEF ExecSend
  <2>3. \A id \in SessionIds : id # Target => sess'[id] = sess[id]
    BY <1>c, <2>1, <2>2
  <2>a. \/ sess'[Target] = sess[Target]
        \/ sess'[Target] = [sess[Target] EXCEPT !.unsent = TRUE]
        \/ sess'[Target] = ExecuteDisconnect(sess[Target], "FIN_WAIT")
    BY <1>c, <2>1, <2>2
  <2>b. sess[Target] \in Session
    BY <1>s, <2>1
  <2>4. /\ sess'[Target].removeTag = sess[Target].removeTag
        /\ sess'[Target].connectState = sess[Target].connectState
    BY <1>f, <2>a, <2>b
  <2>5. UNCHANGED <<msgDispatch, msgQue, known>>
    BY <1>1, <1>e DEF ExecSend
  <2>6. QED
    BY <1>u, <2>1, <2>3, <2>4, <2>5
<1>2. CASE ExecSendAndClose
  <2>1. Target \in SessionIds /\ SameDels
    BY <1>2, <1>d, TargetType DEF ExecSendAndClose, ExecDeleteSession, Executes
  <2>2. \/ UNCHANGED sess
        \/ ChangeSession(Target, [sess[Target] EXCEPT !.unsent = TRUE])
        \/ ChangeSession(Target, ExecuteDisconnect(sess[Target], "FIN_WAIT"))
    BY <1>2 DEF ExecSendAndClose
  <2>3. \A id \in SessionIds : id # Target => sess'[id] = sess[id]
    BY <1>c, <2>1, <2>2
  <2>a. \/ sess'[Target] = sess[Target]
        \/ sess'[Target] = [sess[Target] EXCEPT !.unsent = TRUE]
        \/ sess'[Target] = ExecuteDisconnect(sess[Target], "FIN_WAIT")
    BY <1>c, <2>1, <2>2
  <2>b. sess[Target] \in Session
    BY <1>s, <2>1
  <2>4. /\ sess'[Target].removeTag = sess[Target].removeTag
        /\ sess'[Target].connectState = sess[Target].connectState
    BY <1>f, <2>a, <2>b
  <2>5. UNCHANGED <<msgDispatch, msgQue, known>>
    BY <1>2, <1>e DEF ExecSendAndClose
  <2>6. QED
    BY <1>u, <2>1, <2>3, <2>4, <2>5
<1>3. CASE ExecDisconnect
  <2>1. Target \in SessionIds /\ SameDels
    BY <1>3, <1>d, TargetType DEF ExecDisconnect, ExecDeleteSession, Executes
  <2>2. \A id \in SessionIds : id # Target => sess'[id] = sess[id]
    BY <1>3, <1>c, <2>1 DEF ExecDisconnect
  <2>3. sess[Target].connectState # "CONNECT" => sess' = sess
    BY <1>3 DEF ExecDisconnect
  <2>4. Removing(Target) => sess' = sess
    BY <1>r, <2>1, <2>3 DEF Removed
  <2>5. QED
    BY <1>3, <1>e, <1>u, <2>1, <2>2, <2>4 DEF ExecDisconnect
<1>4. CASE ExecConnect
  <2>1. Target \in SessionIds /\ SameDels
    BY <1>4, <1>d, TargetType DEF ExecConnect, ExecDeleteSession, Executes
  <2>2. msgDispatch' = msgDispatch
    BY <1>4, <1>e DEF ExecConnect
  <2>3. CASE CreateSession
    <3>1. ~Removing(Target) /\ Target \in known'
      BY <1>r, <2>1, <2>3 DEF CreateSession
    <3>2. known \subseteq known'
      BY <2>3 DEF CreateSession
    <3>3. \A id \in SessionIds : id # Target => sess'[id] = sess[id]
      BY <1>c, <2>1, <2>3 DEF CreateSession
    <3>4. CASE UNCHANGED msgQue
      <4>1. MsgsAhead' = MsgsAhead
        BY <2>2, <3>4 DEF MsgsAhead
      <4>2. QED
        BY <2>1, <3>1, <3>2, <3>3, <4>1, RemovalKept
    <3>5. CASE PushMsgs(<<SessionMsg("CONNECT_FAIL", Target)>>)
      BY <2>1, <2>2, <3>1, <3>2, <3>3, <3>5, RemovalOne DEF SessionMsgs
    <3>6. QED
      BY <2>3, <3>4, <3>5 DEF CreateSession
  <2>4. CASE Reconnect
    <3>1. known' = known
      BY <2>4 DEF Reconnect
    <3>2. CASE UNCHANGED <<sess, msgQue>>
      BY <1>u, <2>1, <2>2, <3>1, <3>2
    <3>3. CASE ~(UNCHANGED <<sess, msgQue>>)
      <4>1. ~Removing(Target) /\ Target \in known
        BY <1>r, <2>1, <2>4, <3>3 DEF Reconnect, Removed
      <4>2. \A id \in SessionIds : id # Target => sess'[id] = sess[id]
        BY <1>c, <2>1, <2>4 DEF Reconnect
      <4>3. CASE UNCHANGED msgQue
        BY <1>u, <2>1, <2>2, <3>1, <4>1, <4>2, <4>3
      <4>4. CASE PushMsgs(<<SessionMsg("CONNECT_FAIL", Target)>>)
        BY <2>1, <2>2, <3>1, <4>1, <4>2, <4>4, RemovalOne DEF SessionMsgs
      <4>5. QED
        BY <2>4, <3>3, <4>3, <4>4 DEF Reconnect
    <3>4. QED
      BY <3>2, <3>3
  <2>5. QED
    BY <1>4, <2>3, <2>4 DEF ExecConnect
<1>5. CASE ExecClientClose
  <2>1. SameDels /\ UNCHANGED <<msgDispatch, msgQue, known, sess>>
    BY <1>5, <1>d, <1>e DEF ExecClientClose, ExecDeleteSession, Executes
  <2>2. QED
    BY <2>1, RemovalKept DEF MsgsAhead
<1>6. CASE ExecRemoveSession
  <2> DEFINE s == sess[Target]
  <2>1. Target \in SessionIds /\ SameDels /\ UNCHANGED <<msgDispatch, known>>
    BY <1>6, <1>d, <1>e, TargetType DEF ExecRemoveSession, ExecDeleteSession, Executes
  <2>2. CASE Target \notin known
    BY <1>6, <1>u, <2>1, <2>2 DEF ExecRemoveSession
  <2>3. CASE Target \in known /\ s.connectState # "DISCONNECT"
    <3>1. ~Removing(Target)
      BY <1>r, <2>1, <2>3 DEF Removed
    <3>2. msgQue' = msgQue
          /\ ChangeSession(Target, ExecuteDisconnect([s EXCEPT !.removeTag = TRUE], "FIN_WAIT"))
      BY <1>6, <2>3 DEF ExecRemoveSession
    <3>3. QED
      BY <1>u, <1>c, <2>1, <3>1, <3>2
  <2>4. CASE Target \in known /\ s.connectState = "DISCONNECT"
    <3>1. /\ ChangeSession(Target, [s EXCEPT !.removeTag = TRUE])
          /\ IF s.removeTag THEN UNCHANGED msgQue
             ELSE PushMsgs(<<SessionMsg("REMOVE_SESSION", Target)>>)
      BY <1>6, <2>4 DEF ExecRemoveSession
    <3>2. Removed(sess'[Target]) /\ \A id \in SessionIds : id # Target => sess'[id] = sess[id]
      BY <1>s, <1>c, <2>1, <2>4, <3>1 DEF Removed, Session
    <3>3. CASE s.removeTag
      BY <1>r, <1>u, <2>1, <3>1, <3>2, <3>3 DEF Removed
    <3>4. CASE ~s.removeTag
      <4>1. ~Removing(Target)
        BY <1>r, <2>1, <3>4 DEF Removed
      <4>2. PushMsgs(<<SessionMsg("REMOVE_SESSION", Target)>>) /\ Target \in known'
        BY <2>1, <2>4, <3>1, <3>4
      <4>3. QED
        BY <2>1, <3>2, <4>1, <4>2, RemovalOne DEF SessionMsgs
    <3>5. QED
      BY <3>3, <3>4
  <2>5. QED
    BY <2>2, <2>3, <2>4
<1>7. CASE ExecDeleteSession
  <2>v. PICK v \in SessionIds : v = Target
    BY <1>7, TargetType DEF ExecDeleteSession
  <2> DEFINE d == Deletion(v)
  <2>1. UNCHANGED <<msgDispatch, msgQue>> /\ opQue' = opQue /\ Executes("DELETE_SESSION")
    BY <1>7, <1>e DEF ExecDeleteSession
  <2>3. /\ OpsAhead \in Seq(Op) /\ OpsAhead # <<>>
        /\ Head(OpsAhead) = Head(opDispatch) /\ OpsAhead' = Tail(OpsAhead)
    BY <2>1, OpPopped
  <2>4. MsgsAhead' = MsgsAhead
    BY <2>1 DEF MsgsAhead
  <2>5. ASSUME NEW id \in SessionIds
        PROVE  /\ Single(OpsAhead', Deletion(id))
               /\ Has(OpsAhead', Deletion(id)) => Has(OpsAhead, Deletion(id))
               /\ Has(OpsAhead', Deletion(id)) => Head(OpsAhead) # Deletion(id)
    BY <2>3, HasTail, SingleTail DEF RemovalInv
  <2>6. ASSUME NEW id \in SessionIds, Removing(id)' PROVE Removing(id)
    BY <2>4, <2>5, <2>6 DEF Removing, Deletion, Removal
  <2>7. CASE UNCHANGED <<known, sess>>
    <3>1. Within(MsgsAhead', LiveMsgs')
      BY <2>4, <2>7 DEF RemovalInv, LiveMsgs
    <3>2. QED
      BY <2>4, <2>5, <2>6, <2>7, <3>1 DEF RemovalInv, Removed, Silent, MsgsOf, Deletion, Removal
  <2>8. CASE known' = known \ {v} /\ ChangeSession(v, NewSession)
    <3>0. \A id \in SessionIds : id # v => sess'[id] = sess[id]
      BY <1>c, <2>8
    <3>1. Head(OpsAhead) \in Op /\ Has(OpsAhead, Head(OpsAhead))
      BY <2>3, HasTail, HeadTailProperties
    <3>2. Head(OpsAhead) = d
      BY <2>1, <2>3, <2>v, <3>1 DEF Deletion, SessionOp, Target, Op, Executes
    <3>3. Silent(v) /\ ~Has(OpsAhead', d)
      BY <2>5, <3>1, <3>2 DEF RemovalInv
    <3>4. ~Removing(v)'
      <4>1. Removal(v) \in MsgsOf(v)
        BY RemovalMsg DEF SessionMsgs
      <4>2. ~Has(MsgsAhead', Removal(v))
        BY <2>4, <3>3, <4>1 DEF Silent, Has
      <4>3. QED
        BY <3>3, <4>2 DEF Removing, Deletion, Removal
    <3>5. Within(MsgsAhead', LiveMsgs')
      <4>1. Within(MsgsAhead, LiveMsgs)
        BY DEF RemovalInv
      <4>2. \A i \in DOMAIN MsgsAhead : MsgsAhead[i] \notin MsgsOf(v)
        BY <3>3 DEF Silent
      <4>3. QED
        BY <2>4, <2>8, <4>1, <4>2 DEF Within, LiveMsgs, MsgsOf
    <3>6. \A id \in SessionIds : Removing(id)' => id \in known' /\ Removed(sess'[id])
      BY <2>6, <2>8, <3>0, <3>4 DEF RemovalInv
    <3>7. QED
      BY <2>4, <2>5, <3>5, <3>6 DEF RemovalInv, Silent, MsgsOf, Deletion, Removal
  <2>9. QED
    BY <1>7, <2>v, <2>7, <2>8 DEF ExecDeleteSession
<1>8. QED
  BY <1>1, <1>2, <1>3, <1>4, <1>5, <1>6, <1>7 DEF ExecuteOperation

(* The batch of the timer announces each session that awaits it once.      *)
LEMMA TimerBatch ==
  ASSUME NEW gone \in Ascending({id \in SessionIds : AwaitsRemoval(id)}),
         NEW ms, ms = [i \in DOMAIN gone |-> SessionMsg("REMOVE_SESSION", gone[i])]
  PROVE  /\ ms \in Seq(Msg) /\ Len(ms) \in Nat /\ DOMAIN ms = 1 .. Len(ms)
         /\ DOMAIN gone = DOMAIN ms
         /\ \A i \in DOMAIN ms : /\ gone[i] \in SessionIds /\ AwaitsRemoval(gone[i])
                                 /\ ms[i] = Removal(gone[i])
         /\ \A i, j \in DOMAIN ms : gone[i] = gone[j] => i = j
         /\ \A id \in SessionIds : AwaitsRemoval(id) => \E i \in DOMAIN ms : gone[i] = id
<1> DEFINE ids == {id \in SessionIds : AwaitsRemoval(id)}
           n   == Cardinality(ids)
<1>1. n \in Nat
  BY SessionIdsAssumption, FS_Subset, FS_CardinalityType
<1>2. /\ gone \in [1 .. n -> ids]
      /\ \A i, j \in DOMAIN gone : i < j => gone[i] < gone[j]
      /\ {gone[i] : i \in DOMAIN gone} = ids
  BY DEF Ascending
<1>3. ms \in Seq(Msg) /\ DOMAIN ms = 1 .. n
  BY <1>2, RemovalMsgsType
<1>4. Len(ms) = n
  BY <1>1, <1>3, LenProperties
<1> HIDE DEF n
<1>5. ASSUME NEW i \in 1 .. n, NEW j \in 1 .. n, gone[i] = gone[j] PROVE i = j
  <2>1. gone[i] \in Nat /\ gone[j] \in Nat
    BY <1>2, SessionIdsAssumption
  <2>2. ~(i < j) /\ ~(j < i)
    BY <1>2, <1>5, <2>1
  <2>3. QED
    BY <1>1, <2>2
<1>6. \A i \in 1 .. n : ms[i] = Removal(gone[i])
  BY <1>2, <1>3 DEF Removal
<1>7. \A i \in 1 .. n : gone[i] \in ids
  BY <1>2
<1>8. QED
  BY <1>1, <1>2, <1>3, <1>4, <1>5, <1>6, <1>7

LEMMA RemovalTimer ==
  ASSUME TypeOK, TypeOK', RemovalInv, DrainOperations \/ OnTimerUpdateRun \/ RunEnds
  PROVE  RemovalInv'
<1> USE DEF appVars
<1>1. CASE DrainOperations
  <2>1. OpsAhead' = OpsAhead
    BY <1>1, NothingAhead DEF DrainOperations, OpsAhead, TypeOK
  <2>2. UNCHANGED <<msgDispatch, msgQue, known, sess>>
    BY <1>1 DEF DrainOperations
  <2>3. QED
    BY <2>1, <2>2, SameOps, RemovalKept DEF MsgsAhead
<1>2. CASE OnTimerUpdateRun /\ ClearSessions
  <2>1. PICK gone \in Ascending({id \in SessionIds : AwaitsRemoval(id)}) :
          PushMsgs([i \in DOMAIN gone |-> SessionMsg("REMOVE_SESSION", gone[i])])
    BY <1>2 DEF ClearSessions
  <2>2. PICK ms : ms = [i \in DOMAIN gone |-> SessionMsg("REMOVE_SESSION", gone[i])]
    OBVIOUS
  <2>3. /\ ms \in Seq(Msg) /\ DOMAIN gone = DOMAIN ms
        /\ \A i \in DOMAIN ms : /\ gone[i] \in SessionIds /\ AwaitsRemoval(gone[i])
                                /\ ms[i] = Removal(gone[i])
        /\ \A i, j \in DOMAIN ms : gone[i] = gone[j] => i = j
    BY <2>2, TimerBatch
  <2>4. UNCHANGED <<msgDispatch, opQue, opDispatch, known>>
    BY <1>2 DEF OnTimerUpdateRun
  <2>5. MsgsAhead' = MsgsAhead \o ms
    BY <2>1, <2>2, <2>3, <2>4, BatchPushed
  <2>7. ASSUME NEW i \in DOMAIN ms, NEW id \in SessionIds
        PROVE  ms[i] \in MsgsOf(id) <=> gone[i] = id
    BY <2>3, RemovalMsg DEF Removal, SessionMsgs
  <2>8. Within(ms, LiveMsgs')
    <3>1. ASSUME NEW i \in DOMAIN ms PROVE ms[i] \in LiveMsgs
      BY <2>3, RemovalMsg DEF LiveMsgs, AwaitsRemoval, Removal, SessionMsg, SessionMsgs
    <3>2. QED
      BY <2>4, <3>1 DEF Within, LiveMsgs
  <2>9. ASSUME NEW id \in SessionIds
        PROVE  /\ Has(ms, Removal(id)) => AwaitsRemoval(id)
               /\ Single(ms, Removal(id)) /\ Last(ms, Removal(id), MsgsOf(id))
    <3>1. \A i \in DOMAIN ms : ms[i] = Removal(id) => gone[i] = id
      BY <2>7, RemovalMsg DEF SessionMsgs
    <3>2. \A i, j \in DOMAIN ms : i < j => i # j
      BY <2>3, LenProperties
    <3>3. QED
      BY <2>3, <2>7, <3>1, <3>2 DEF Has, Single, Last
  <2>10. ASSUME NEW id \in SessionIds, Removing(id)
         PROVE  /\ sess'[id].removeTag = sess[id].removeTag
                /\ sess'[id].connectState = sess[id].connectState
                /\ \A i \in DOMAIN ms : ms[i] \notin MsgsOf(id)
    <3>1. Removed(sess[id]) /\ ~AwaitsRemoval(id)
      BY <2>10 DEF RemovalInv, Removed, AwaitsRemoval
    <3>2. sess'[id] = sess[id]
      BY <1>2, <3>1 DEF ClearSessions, Removed
    <3>3. QED
      BY <2>3, <2>7, <3>1, <3>2
  <2>11. ASSUME NEW id \in SessionIds, AwaitsRemoval(id)
         PROVE  id \in known' /\ Removed(sess'[id])
    BY <1>2, <2>4, <2>11 DEF ClearSessions, AwaitsRemoval, Removed, TypeOK, Session
  <2>12. SameDels
    BY <2>4, SameOps DEF OpsAhead
  <2>13. QED
    BY <2>3, <2>4, <2>5, <2>8, <2>9, <2>10, <2>11, <2>12, RemovalPushed
<1>3. CASE OnTimerUpdateRun /\ StopLoop
  BY <1>3, SameOps, RemovalKept DEF OnTimerUpdateRun, StopLoop, MsgsAhead, OpsAhead
<1>4. CASE RunEnds
  <2> DEFINE m  == [msg |-> "EXIT_LOOP"]
             ms == <<m>>
  <2>1. m \in Msg /\ ms \in Seq(Msg) /\ DOMAIN ms = {1} /\ ms[1] = m
    BY DEF Msg
  <2>2. PushMsgs(ms) /\ UNCHANGED <<msgDispatch, opQue, opDispatch, known, sess>>
    BY <1>4 DEF RunEnds
  <2>3. \A id \in SessionIds : m \notin MsgsOf(id) /\ m # Removal(id)
    BY DEF MsgsOf, Removal, SessionMsg
  <2>4. m \in LiveMsgs'
    BY <2>1 DEF LiveMsgs
  <2> HIDE DEF m, ms
  <2>5. MsgsAhead' = MsgsAhead \o ms /\ SameDels
    BY <2>1, <2>2, BatchPushed, SameOps DEF OpsAhead
  <2>6. Within(ms, LiveMsgs')
    BY <2>1, <2>4 DEF Within
  <2>7. \A id \in SessionIds : /\ ~Has(ms, Removal(id)) /\ Single(ms, Removal(id))
                               /\ Last(ms, Removal(id), MsgsOf(id))
                               /\ \A i \in DOMAIN ms : ms[i] \notin MsgsOf(id)
    BY <2>1, <2>3 DEF Has, Single, Last
  <2>8. QED
    BY <2>1, <2>2, <2>5, <2>6, <2>7, RemovalPushed
<1>5. QED
  BY <1>1, <1>2, <1>3, <1>4 DEF OnTimerUpdateRun

LEMMA TwoMsgs ==
  ASSUME NEW S, NEW a \in S, NEW b \in S
  PROVE  <<a>> \o <<b>> = <<a, b>>
<1> DEFINE p == <<a>>
           q == <<b>>
           ab == <<a, b>>
<1>1. /\ p \in Seq(S) /\ Len(p) = 1 /\ p[1] = a
      /\ q \in Seq(S) /\ Len(q) = 1 /\ q[1] = b
      /\ ab \in Seq(S) /\ Len(ab) = 2 /\ ab[1] = a /\ ab[2] = b
  OBVIOUS
<1> HIDE DEF p, q, ab
<1>2. p \o q \in Seq(S) /\ Len(p \o q) = 2
  BY <1>1, ConcatProperties
<1>3. (p \o q)[1] = a /\ (p \o q)[2] = b
  <2>1. 1 \in 1 .. Len(p) + Len(q) /\ 2 \in 1 .. Len(p) + Len(q) /\ 2 - Len(p) = 1
    BY <1>1
  <2>2. /\ (p \o q)[1] = IF 1 <= Len(p) THEN p[1] ELSE q[1 - Len(p)]
        /\ (p \o q)[2] = IF 2 <= Len(p) THEN p[2] ELSE q[2 - Len(p)]
    BY <1>1, <2>1, ConcatProperties
  <2>3. QED
    BY <1>1, <2>1, <2>2
<1>4. p \o q = ab
  BY <1>1, <1>2, <1>3, SeqEqual
<1>5. QED
  BY <1>4 DEF p, q, ab

(* A callback of a session that is being removed can only be the end of a  *)
(* connect that failed, which says nothing.                                *)
LEMMA RemovalCallbacks ==
  ASSUME TypeOK, TypeOK', SocketState, RemovalInv, NEW id \in SessionIds, Callbacks(id)
  PROVE  RemovalInv'
<1> USE DEF Callbacks, Flush, OnSynAck, OnConnectFailed, OnRecv, PeerLeaves, Shutdown, OnClose
<1>1. id \in known /\ UNCHANGED <<opDispatch, msgDispatch, known>>
  BY DEF SocketCallback
<1>d. SameDels
  <2>1. opDispatch = <<>>
    BY DEF SocketCallback
  <2>2. QED
    BY <2>1, DelsKept DEF LoopThread, ExecDeleteSession, Executes
<1>s. sess[id] \in Session /\ sess \in [SessionIds -> Session] /\ SocketAgrees(sess[id])
  BY <1>1 DEF TypeOK, SocketState
<1>2. sess[id].state # "CLOSED" => ~Removing(id)
  BY <1>s DEF RemovalInv, SocketAgrees, Removed
<1> USE DEF Session
<1>c. ASSUME NEW s, ChangeSession(id, s)
      PROVE  sess'[id] = s /\ \A x \in SessionIds : x # id => sess'[x] = sess[x]
  BY <1>s, <1>c DEF ChangeSession
<1>o. \A x \in SessionIds : x # id => sess'[x] = sess[x]
  BY <1>c
<1>u. ASSUME msgQue' = msgQue,
             \/ ~Removing(id)
             \/ /\ sess'[id].removeTag = sess[id].removeTag
                /\ sess'[id].connectState = sess[id].connectState
      PROVE  RemovalInv'
  <2>1. MsgsAhead' = MsgsAhead
    BY <1>1, <1>u DEF MsgsAhead
  <2>2. QED
    BY <1>1, <1>d, <1>o, <1>u, <2>1, RemovalKept
<1>m. ASSUME NEW k \in SessionMsgs, PushMsgs(<<SessionMsg(k, id)>>), ~Removing(id),
             k = "REMOVE_SESSION" => Removed(sess'[id])
      PROVE  RemovalInv'
  BY <1>1, <1>d, <1>m, <1>o, RemovalOne
<1> USE DEF SessionMsgs
<1>3. CASE Flush(id) \/ PeerLeaves(id) \/ Shutdown(id)
  <2>1. msgQue' = msgQue /\ sess[id].state # "CLOSED"
    BY <1>3
  <2>2. QED
    BY <1>2, <1>u, <2>1
<1>4. CASE OnSynAck(id)
  <2>1. sess[id].state # "CLOSED"
    BY <1>4
  <2>2. UNCHANGED msgQue \/ PushMsgs(<<SessionMsg("CONNECT", id)>>)
    BY <1>4
  <2>3. QED
    BY <1>2, <1>u, <1>m, <2>1, <2>2
<1>5. CASE OnConnectFailed(id)
  <2>1. sess[id].state # "CLOSED"
    BY <1>5
  <2>2. PICK k \in {"CONNECT_FAIL", "CONNECT_TIMOUT"} : PushMsgs(<<SessionMsg(k, id)>>)
    BY <1>5
  <2>3. QED
    BY <1>2, <1>m, <2>1, <2>2
<1>6. CASE OnRecv(id)
  <2>1. sess[id].state # "CLOSED"
    BY <1>6
  <2>2. UNCHANGED msgQue \/ PushMsgs(<<SessionMsg("RECV_DATA", id)>>)
    BY <1>6
  <2>3. QED
    BY <1>2, <1>u, <1>m, <2>1, <2>2
<1>7. CASE OnClose(id) /\ sess[id].state # "FIN_WAIT"
  <2>1. msgQue' = msgQue
    BY <1>7
  <2>2. sess'[id] = [sess[id] EXCEPT !.state = "CLOSED", !.udp = "none"]
    BY <1>7, <1>c
  <2>3. QED
    BY <1>s, <1>u, <2>1, <2>2
<1>8. CASE OnClose(id) /\ sess[id].state = "FIN_WAIT"
  <2> DEFINE t == [SocketClosed([sess[id] EXCEPT !.state = "CLOSED", !.udp = "none"])
                     EXCEPT !.connectState = "DISCONNECT"]
             d == SessionMsg("DIS_CONNECT", id)
             r == SessionMsg("REMOVE_SESSION", id)
  <2>1. t.removeTag = sess[id].removeTag /\ t.connectState = "DISCONNECT"
    BY <1>s DEF SocketClosed
  <2>2. ChangeSession(id, t) /\ PushMsgs(CloseMsgs(id))
    BY <1>8
  <2>n. ~Removing(id)
    BY <1>2, <1>8
  <2> HIDE DEF t, Callbacks, Flush, OnSynAck, OnConnectFailed, OnRecv, PeerLeaves, Shutdown,
               OnClose, Session
  <2>3. sess'[id].removeTag = sess[id].removeTag /\ sess'[id].connectState = "DISCONNECT"
    BY <1>c, <2>1, <2>2
  <2>4. CASE ~sess[id].removeTag
    <3>1. d \in Msg
      BY SessionMsgType
    <3>2. CloseMsgs(id) = <<d>>
      BY <2>4, <3>1, NothingAhead DEF CloseMsgs
    <3>3. QED
      BY <1>m, <2>2, <2>n, <3>2
  <2>5. CASE sess[id].removeTag
    <3> DEFINE ms == <<d, r>>
    <3>1. d \in Msg /\ r \in Msg
      BY SessionMsgType
    <3>2. ms \in Seq(Msg) /\ DOMAIN ms = {1, 2} /\ ms[1] = d /\ ms[2] = r
      BY <3>1
    <3>3. CloseMsgs(id) = ms
      BY <2>5, <3>1, TwoMsgs DEF CloseMsgs
    <3>4. ASSUME NEW x \in SessionIds
          PROVE  /\ d \in MsgsOf(x) <=> x = id
                 /\ r \in MsgsOf(x) <=> x = id
                 /\ d # Removal(x)
                 /\ r = Removal(x) <=> x = id
      BY <3>1 DEF MsgsOf, SessionMsg, Removal
    <3>5. d \in LiveMsgs' /\ r \in LiveMsgs'
      BY <1>1, <3>1 DEF LiveMsgs, SessionMsg
    <3> HIDE DEF d, r, ms
    <3>6. MsgsAhead' = MsgsAhead \o ms
      BY <1>1, <2>2, <3>2, <3>3, BatchPushed
    <3>7. Within(ms, LiveMsgs')
      BY <3>2, <3>5 DEF Within
    <3>8. ASSUME NEW x \in SessionIds
          PROVE  /\ Single(ms, Removal(x)) /\ Last(ms, Removal(x), MsgsOf(x))
                 /\ Has(ms, Removal(x)) => x = id
                 /\ x # id => \A i \in DOMAIN ms : ms[i] \notin MsgsOf(x)
      BY <3>2, <3>4 DEF Single, Last, Has
    <3>9. id \in known' /\ Removed(sess'[id])
      BY <1>1, <2>3, <2>5 DEF Removed
    <3>10. ASSUME NEW x \in SessionIds, Removing(x) PROVE x # id /\ sess'[x] = sess[x]
      BY <1>o, <2>n, <3>10
    <3>11. QED
      BY <1>1, <1>d, <3>2, <3>6, <3>7, <3>8, <3>9, <3>10, RemovalPushed
  <2>6. QED
    BY <2>4, <2>5
<1>9. QED
  BY <1>3, <1>4, <1>5, <1>6, <1>7, <1>8

LEMMA RemovalInit == Init => QueueShape /\ RemovalInv
<1> SUFFICES ASSUME Init PROVE QueueShape /\ RemovalInv
  OBVIOUS
<1>1. MsgsAhead = <<>> /\ OpsAhead = <<>> /\ DOMAIN <<>> = {}
  BY NothingAhead, EmptySeq DEF Init, MsgsAhead, OpsAhead
<1>2. RemovalInv
  BY <1>1 DEF RemovalInv, Within, Single, Last, Has, Removing
<1>3. QED
  BY <1>1, <1>2 DEF Init, QueueShape

LEMMA RemovalStep ==
  ASSUME TypeOK, TypeOK', SocketState, QueueShape, QueueShape', RemovalInv, [Next]_vars
  PROVE  RemovalInv'
<1>1. CASE JoinReturns
  <2>1. app' = "gone"
    BY <1>1 DEF JoinReturns
  <2>2. MsgsAhead' = <<>> /\ OpsAhead' = <<>> /\ DOMAIN <<>> = {}
    BY <2>1, EmptySeq DEF QueueShape
  <2>3. QED
    BY <2>2 DEF RemovalInv, Within, Single, Last, Has, Removing
<1>2. CASE Application /\ ~JoinReturns
  BY <1>2, RemovalApplication
<1>3. CASE LoopThread
  BY <1>3, RemovalExecute, RemovalTimer, RemovalCallbacks DEF LoopThread, Callbacks
<1>4. CASE UNCHANGED vars
  BY <1>4, SameOps, RemovalKept DEF vars, appVars, sharedVars, MsgsAhead, OpsAhead
<1>5. QED
  BY <1>1, <1>2, <1>3, <1>4 DEF Next

(* RemovalOnce: the four records of every connection agree, as far as its  *)
(* socket has a conv to be closed with (a peer may leave it without);      *)
(* every message points to a session that lives; the removal of a session  *)
(* is announced once, behind all its other messages; and when the session  *)
(* is freed its socket has no handle left, as ~KCPSocket asserts.          *)
(* Whatever the order of calls and callbacks, and however long the queues. *)
THEOREM RemovalOnceCorrect == SafeSpec => []RemovalOnce
<1>1. TypeOK /\ SocketState /\ BatchInv /\ QueueShape /\ RemovalInv => RemovalOnce
  <2> SUFFICES ASSUME TypeOK, SocketState, BatchInv, QueueShape, RemovalInv PROVE RemovalOnce
    OBVIOUS
  <2>0. MsgsAhead \in Seq(Msg) /\ OpsAhead \in Seq(Op)
    BY AheadType
  <2>1. \A i \in DOMAIN MsgsAhead : MsgsAhead[i] \in LiveMsgs
    BY DEF RemovalInv, Within
  <2>2. ASSUME NEW id \in SessionIds
        PROVE  /\ Removals(id) \in {0, 1}
               /\ Removals(id) = 1 => Removing(id)
    <3>1. Has(OpsAhead, Deletion(id)) => ~Has(MsgsAhead, Removal(id))
      BY RemovalMsg DEF RemovalInv, Silent, Has, SessionMsgs
    <3>2. /\ Cardinality({i \in DOMAIN MsgsAhead : MsgsAhead[i] = Removal(id)})
               = IF Has(MsgsAhead, Removal(id)) THEN 1 ELSE 0
          /\ Cardinality({i \in DOMAIN OpsAhead : OpsAhead[i] = Deletion(id)})
               = IF Has(OpsAhead, Deletion(id)) THEN 1 ELSE 0
      BY <2>0, CountSingle DEF RemovalInv
    <3>3. QED
      BY <3>1, <3>2 DEF Removals, Removing, Removal, Deletion
  <2>3. ASSUME NEW id \in SessionIds, Removing(id)
        PROVE  id \in known /\ sess[id].removeTag /\ sess[id].state = "CLOSED"
    <3>1. id \in known /\ Removed(sess[id])
      BY <2>3 DEF RemovalInv
    <3>2. QED
      BY <3>1 DEF SocketState, SocketAgrees, Removed
  <2>4. ASSUME NEW id \in SessionIds, NEW i \in DOMAIN MsgsAhead, NEW j \in DOMAIN MsgsAhead,
               i < j, MsgsAhead[i] = Removal(id)
        PROVE  MsgsAhead[j].msg = "EXIT_LOOP" \/ MsgsAhead[j].id # id
    <3>1. MsgsAhead[j] \notin MsgsOf(id)
      BY <2>4 DEF RemovalInv, Last
    <3>2. QED
      BY <2>1, <3>1 DEF LiveMsgs, MsgsOf
  <2>5. ASSUME opDispatch # <<>>, Head(opDispatch).op = "DELETE_SESSION"
        PROVE  sess[Target].udp = "none"
    <3>1. Head(opDispatch) \in Op
      BY <2>5, HeadTailProperties DEF TypeOK
    <3>2. Target \in SessionIds /\ Head(opDispatch) = Deletion(Target)
      BY <2>5, <3>1 DEF Op, Deletion, SessionOp, Target
    <3>3. OpsAhead # <<>> /\ Head(OpsAhead) = Deletion(Target)
      BY <2>5, <3>2, OpTaken DEF OpsAhead
    <3>4. Removing(Target)
      BY <2>0, <3>3, HasTail DEF Removing
    <3>5. /\ Target \in known /\ sess[Target].state = "CLOSED" /\ sess[Target] \in Session
          /\ sess[Target].udp # "closing" /\ SocketAgrees(sess[Target])
      BY <2>3, <2>5, <3>2, <3>4 DEF BatchInv, TypeOK, SocketState
    <3>6. QED
      BY <3>5 DEF SocketAgrees, Session
  <2>6. QED
    <3>1. \A id \in known : SocketAgrees(sess[id])
      BY DEF SocketState
    <3>2. \A i \in DOMAIN MsgsAhead : MsgsAhead[i].msg # "EXIT_LOOP" => MsgsAhead[i].id \in known
      BY <2>1 DEF LiveMsgs
    <3>3. \A id \in SessionIds :
            /\ Removals(id) <= 1
            /\ Removals(id) = 1 /\ app # "gone" =>
                 id \in known /\ sess[id].removeTag /\ sess[id].state = "CLOSED"
      BY <2>2, <2>3
    <3>4. QED
      BY <2>4, <2>5, <3>1, <3>2, <3>3 DEF RemovalOnce, Removal
<1>2. TypeOK /\ TypeOK' /\ SocketState /\ QueueShape /\ RemovalInv /\ [Next]_vars
        => QueueShape' /\ RemovalInv'
  BY QueueShapeStep, RemovalStep
<1>3. SafeSpec => []SocketState
  BY SocketStateCorrect
<1>4. SafeSpec => []BatchInv
  <2>1. Init => BatchInv
    BY DEF Init, BatchInv
  <2>2. QED
    BY <2>1, BatchStep, TypeCorrect, PTL DEF SafeSpec
<1>5. SafeSpec => [](QueueShape /\ RemovalInv)
  BY <1>2, <1>3, RemovalInit, TypeCorrect, PTL DEF SafeSpec
<1>6. QED
  BY <1>1, <1>3, <1>4, <1>5, TypeCorrect, PTL

-----------------------------------------------------------------------------
(* ImplementsContract.  A trace of a queue of messages says what the       *)
(* application will have heard after each of them.  The last view of it    *)
(* agrees with the states of the sessions, so that the callback that the   *)
(* next message of a session makes will be one that the contract allows.   *)

Exit       == [msg |-> "EXIT_LOOP"]
ViewStates == {"absent", "down", "up"}
Views      == [SessionIds -> ViewStates]

\* What a message of kind k makes of the view x of its session, and when the
\* contract allows it, asks saying that the application has given that up.
Becomes(x, k) == CASE k = "CONNECT"        -> "up"
                   [] k = "RECV_DATA"      -> x
                   [] k = "REMOVE_SESSION" -> "absent"
                   [] OTHER                -> "down"

Allowed(x, k, asks) ==
  /\ k \in {"CONNECT", "CONNECT_FAIL", "CONNECT_TIMOUT"} => x # "up"
  /\ k = "RECV_DATA" => x = "up"
  /\ k = "DIS_CONNECT" => x = "up" \/ asks
  /\ k = "REMOVE_SESSION" => x = "down" /\ asks

After(v, m) ==
  IF m.msg = "EXIT_LOOP" THEN v ELSE [v EXCEPT ![m.id] = Becomes(v[m.id], m.msg)]

Legal(v, m, asked) ==
  IF m.msg = "EXIT_LOOP" THEN asked = SessionIds /\ \A id \in SessionIds : v[id] = "absent"
                         ELSE Allowed(v[m.id], m.msg, m.id \in asked)

Trace(w, q, asked) ==
  /\ w \in [0 .. Len(q) -> Views]
  /\ \A i \in 1 .. Len(q) : Legal(w[i - 1], q[i], asked) /\ w[i] = After(w[i - 1], q[i])

\* The view of id, when all is told, against the state of the session.
Agreement(id, x) ==
  IF id \notin known \/ Removing(id) THEN x = "absent"
  ELSE /\ sess[id].connectState = "CONNECTING" => x # "up"
       /\ sess[id].connectState = "DISCONNECT" => x = "down"
       /\ sess[id].connectState \in {"CONNECT", "DISCONNECTING"} => x = "up" \/ id \in contract.asked
       /\ sess[id].online => x = "up"

AllAgree(v) == \A id \in SessionIds : Agreement(id, v[id])

ViewInv ==
  app # "gone" =>
    \E w : /\ Trace(w, MsgsAhead, contract.asked)
           /\ w[0] = contract.view
           /\ AllAgree(w[Len(MsgsAhead)])

-----------------------------------------------------------------------------
(* Traces: of a longer request, of two queues behind each other, of none,  *)
(* one and the rest.                                                       *)

LEMMA TraceAsked ==
  ASSUME NEW q \in Seq(Msg), NEW w, NEW a \in SUBSET SessionIds, NEW b \in SUBSET SessionIds,
         a \subseteq b, Trace(w, q, a)
  PROVE  Trace(w, q, b)
<1>1. ASSUME NEW v, NEW m, Legal(v, m, a) PROVE Legal(v, m, b)
  <2>1. a = SessionIds => b = SessionIds
    OBVIOUS
  <2>2. m.id \in a => m.id \in b
    OBVIOUS
  <2>3. QED
    BY <1>1, <2>1, <2>2 DEF Legal, Allowed
<1>2. QED
  BY <1>1 DEF Trace

LEMMA TraceNone ==
  ASSUME NEW v \in Views, NEW asked
  PROVE  \E u : Trace(u, <<>>, asked) /\ u[0] = v /\ Len(<<>>) = 0
<1> DEFINE u == [i \in 0 .. 0 |-> v]
<1>1. Len(<<>>) = 0
  BY EmptySeq
<1>2. u \in [0 .. 0 -> Views] /\ u[0] = v
  OBVIOUS
<1>3. Trace(u, <<>>, asked)
  BY <1>1, <1>2 DEF Trace
<1>4. QED
  BY <1>1, <1>2, <1>3

LEMMA AfterType ==
  ASSUME NEW v \in Views, NEW m \in Msg
  PROVE  After(v, m) \in Views
<1>1. CASE m.msg = "EXIT_LOOP"
  BY <1>1 DEF After
<1>2. CASE m.msg # "EXIT_LOOP"
  <2>1. m.id \in SessionIds /\ v[m.id] \in ViewStates
    BY <1>2 DEF Msg, Views
  <2>2. Becomes(v[m.id], m.msg) \in ViewStates
    BY <2>1 DEF Becomes, ViewStates
  <2>3. QED
    BY <1>2, <2>1, <2>2 DEF After, Views
<1>3. QED
  BY <1>1, <1>2

LEMMA TraceOne ==
  ASSUME NEW v \in Views, NEW m \in Msg, NEW asked, Legal(v, m, asked)
  PROVE  \E u : Trace(u, <<m>>, asked) /\ u[0] = v /\ u[Len(<<m>>)] = After(v, m)
<1> DEFINE u == [i \in 0 .. 1 |-> IF i = 0 THEN v ELSE After(v, m)]
           q == <<m>>
<1>1. Len(q) = 1 /\ q[1] = m
  OBVIOUS
<1>2. u \in [0 .. 1 -> Views] /\ u[0] = v /\ u[1] = After(v, m)
  BY AfterType
<1> HIDE DEF u, q
<1>3. Trace(u, q, asked)
  BY <1>1, <1>2 DEF Trace
<1>4. QED
  BY <1>1, <1>2, <1>3 DEF q

LEMMA TraceConcat ==
  ASSUME NEW p \in Seq(Msg), NEW q \in Seq(Msg), NEW asked, NEW w, NEW u,
         Trace(w, p, asked), Trace(u, q, asked), u[0] = w[Len(p)]
  PROVE  \E z : /\ Trace(z, p \o q, asked)
                /\ z[0] = w[0] /\ z[Len(p \o q)] = u[Len(q)]
<1> DEFINE n == Len(p)
           k == Len(q)
           c == p \o q
           z == [i \in 0 .. n + k |-> IF i <= n THEN w[i] ELSE u[i - n]]
<1>1. /\ n \in Nat /\ k \in Nat /\ c \in Seq(Msg) /\ Len(c) = n + k
      /\ \A i \in 1 .. n : c[i] = p[i]
      /\ \A i \in n + 1 .. n + k : c[i] = q[i - n]
  BY AtConcat, ConcatProperties
<1>2. /\ w \in [0 .. n -> Views] /\ u \in [0 .. k -> Views] /\ u[0] = w[n]
      /\ \A i \in 1 .. n : Legal(w[i - 1], p[i], asked) /\ w[i] = After(w[i - 1], p[i])
      /\ \A i \in 1 .. k : Legal(u[i - 1], q[i], asked) /\ u[i] = After(u[i - 1], q[i])
  BY DEF Trace
<1> HIDE DEF n, k, c
<1>3. /\ \A i \in 0 .. n : z[i] = w[i]
      /\ \A i \in n .. n + k : z[i] = u[i - n]
  <2>1. ASSUME NEW i \in 0 .. n PROVE z[i] = w[i]
    <3>1. i \in 0 .. n + k /\ i <= n
      BY <1>1
    <3>2. QED
      BY <3>1
  <2>2. ASSUME NEW i \in n .. n + k PROVE z[i] = u[i - n]
    <3>1. i \in 0 .. n + k
      BY <1>1
    <3>2. CASE i = n
      <4>1. i - n = 0 /\ i <= n
        BY <1>1, <3>2
      <4>2. QED
        BY <1>2, <3>1, <3>2, <4>1
    <3>3. CASE i # n
      <4>1. ~(i <= n)
        BY <1>1, <3>3
      <4>2. QED
        BY <3>1, <4>1
    <3>4. QED
      BY <3>2, <3>3
  <2>3. QED
    BY <2>1, <2>2
<1>4. z \in [0 .. n + k -> Views]
  <2>1. ASSUME NEW i \in 0 .. n + k PROVE z[i] \in Views
    <3>1. CASE i <= n
      BY <1>1, <1>2, <1>3, <3>1
    <3>2. CASE i > n
      <4>1. i - n \in 0 .. k /\ i \in n .. n + k
        BY <1>1, <3>2
      <4>2. QED
        BY <1>2, <1>3, <4>1
    <3>3. QED
      BY <1>1, <3>1, <3>2
  <2>2. QED
    BY <2>1
<1>5. z[0] = w[0] /\ z[n + k] = u[k]
  <2>1. 0 \in 0 .. n /\ n + k \in n .. n + k /\ (n + k) - n = k
    BY <1>1
  <2>2. QED
    BY <1>3, <2>1
<1> HIDE DEF z
<1>6. ASSUME NEW i \in 1 .. n + k
      PROVE  Legal(z[i - 1], c[i], asked) /\ z[i] = After(z[i - 1], c[i])
  <2>1. CASE i <= n
    <3>1. i \in 1 .. n /\ i \in 0 .. n /\ i - 1 \in 0 .. n
      BY <1>1, <2>1
    <3>2. QED
      BY <1>1, <1>2, <1>3, <3>1
  <2>2. CASE i > n
    <3>1. /\ i \in n + 1 .. n + k /\ i \in n .. n + k /\ i - 1 \in n .. n + k
          /\ i - n \in 1 .. k /\ (i - 1) - n = (i - n) - 1
      BY <1>1, <2>2
    <3>2. c[i] = q[i - n] /\ z[i] = u[i - n] /\ z[i - 1] = u[(i - n) - 1]
      BY <1>1, <1>3, <3>1
    <3>3. QED
      BY <1>2, <3>1, <3>2
  <2>3. QED
    BY <1>1, <2>1, <2>2
<1>7. Trace(z, c, asked)
  BY <1>1, <1>4, <1>6 DEF Trace
<1>8. QED
  BY <1>1, <1>5, <1>7 DEF n, k, c

LEMMA TraceTail ==
  ASSUME NEW q \in Seq(Msg), q # <<>>, NEW asked, NEW w, Trace(w, q, asked)
  PROVE  /\ Legal(w[0], Head(q), asked)
         /\ \E z : /\ Trace(z, Tail(q), asked)
                   /\ z[0] = After(w[0], Head(q)) /\ z[Len(Tail(q))] = w[Len(q)]
<1> DEFINE n == Len(q)
           t == Tail(q)
           z == [i \in 0 .. n - 1 |-> w[i + 1]]
<1>1. /\ n \in Nat \ {0} /\ t \in Seq(Msg) /\ Len(t) = n - 1
      /\ Head(q) = q[1] /\ \A i \in 1 .. n - 1 : t[i] = q[i + 1]
  BY AtTail, HeadTailProperties, LenProperties
<1>2. /\ w \in [0 .. n -> Views]
      /\ \A i \in 1 .. n : Legal(w[i - 1], q[i], asked) /\ w[i] = After(w[i - 1], q[i])
  BY DEF Trace
<1> HIDE DEF n, t
<1>3. Legal(w[0], q[1], asked) /\ w[1] = After(w[0], q[1])
  <2>1. 1 \in 1 .. n /\ 1 - 1 = 0
    BY <1>1
  <2>2. QED
    BY <1>2, <2>1
<1>4. z \in [0 .. n - 1 -> Views] /\ \A i \in 0 .. n - 1 : z[i] = w[i + 1]
  <2>1. \A i \in 0 .. n - 1 : i + 1 \in 0 .. n
    BY <1>1
  <2>2. QED
    BY <1>2, <2>1
<1>5. z[0] = w[1] /\ z[n - 1] = w[n]
  <2>1. 0 \in 0 .. n - 1 /\ n - 1 \in 0 .. n - 1 /\ (n - 1) + 1 = n /\ 0 + 1 = 1
    BY <1>1
  <2>2. QED
    BY <1>4, <2>1
<1> HIDE DEF z
<1>6. ASSUME NEW i \in 1 .. n - 1
      PROVE  Legal(z[i - 1], t[i], asked) /\ z[i] = After(z[i - 1], t[i])
  <2>1. /\ i \in 0 .. n - 1 /\ i - 1 \in 0 .. n - 1 /\ (i - 1) + 1 = i
        /\ i + 1 \in 1 .. n /\ (i + 1) - 1 = i
    BY <1>1
  <2>2. z[i - 1] = w[i] /\ z[i] = w[i + 1] /\ t[i] = q[i + 1]
    BY <1>1, <1>4, <2>1
  <2>3. QED
    BY <1>2, <2>1, <2>2
<1>7. Trace(z, t, asked)
  BY <1>1, <1>4, <1>6 DEF Trace
<1>8. QED
  BY <1>1, <1>3, <1>5, <1>7 DEF n, t
-----------------------------------------------------------------------------
(* A step of the loop thread or of the application that queues messages:   *)
(* they are told behind all others.                                        *)

LEMMA RemovingPushed ==
  ASSUME TypeOK, SameDels, NEW ms \in Seq(Msg), MsgsAhead' = MsgsAhead \o ms,
         NEW id \in SessionIds
  PROVE  Removing(id)' <=> Removing(id) \/ Has(ms, Removal(id))
<1>1. Has(MsgsAhead', Removal(id)) <=> Has(MsgsAhead, Removal(id)) \/ Has(ms, Removal(id))
  BY AheadType, ConcatHas
<1>2. Has(OpsAhead', Deletion(id)) <=> Has(OpsAhead, Deletion(id))
  BY DEF SameDels
<1>3. QED
  BY <1>1, <1>2 DEF Removing, Deletion, Removal

LEMMA RemovingKept ==
  ASSUME TypeOK, SameDels, MsgsAhead' = MsgsAhead, NEW id \in SessionIds
  PROVE  Removing(id)' <=> Removing(id)
<1>1. Has(OpsAhead', Deletion(id)) <=> Has(OpsAhead, Deletion(id))
  BY DEF SameDels
<1>2. QED
  BY <1>1 DEF Removing, Deletion, Removal

LEMMA ViewPushed ==
  ASSUME TypeOK, TypeOK', ViewInv, app # "gone",
         contract.view' = contract.view, contract.asked \subseteq contract.asked',
         NEW ms \in Seq(Msg), MsgsAhead' = MsgsAhead \o ms,
         \A v \in Views : AllAgree(v) =>
           \E u : Trace(u, ms, contract.asked') /\ u[0] = v /\ AllAgree(u[Len(ms)])'
  PROVE  ViewInv'
<1> DEFINE M == MsgsAhead
           a == contract.asked'
<1>1. M \in Seq(Msg) /\ Len(M) \in Nat
  BY AheadType, LenProperties
<1>2. PICK w : /\ Trace(w, M, contract.asked) /\ w[0] = contract.view
               /\ AllAgree(w[Len(M)])
  BY DEF ViewInv
<1>3. contract.asked \in SUBSET SessionIds /\ a \in SUBSET SessionIds
  BY DEF TypeOK, Contract
<1>4. Trace(w, M, a)
  BY <1>1, <1>2, <1>3, TraceAsked
<1>5. w[Len(M)] \in Views
  BY <1>1, <1>4 DEF Trace
<1>6. PICK u : Trace(u, ms, a) /\ u[0] = w[Len(M)] /\ AllAgree(u[Len(ms)])'
  BY <1>2, <1>5
<1>7. PICK z : Trace(z, M \o ms, a) /\ z[0] = w[0] /\ z[Len(M \o ms)] = u[Len(ms)]
  BY <1>1, <1>4, <1>6, TraceConcat
<1>8. Trace(z, M', a) /\ z[0] = contract.view' /\ z[Len(M')] = u[Len(ms)]
  BY <1>2, <1>6, <1>7
<1>9. AllAgree(z[Len(M)])'
  BY <1>6, <1>8 DEF AllAgree, Agreement
<1>10. QED
  BY <1>8, <1>9 DEF ViewInv

LEMMA ViewKept ==
  ASSUME TypeOK, TypeOK', ViewInv, app # "gone",
         contract.view' = contract.view, contract.asked \subseteq contract.asked',
         MsgsAhead' = MsgsAhead,
         \A id \in SessionIds, x \in ViewStates : Agreement(id, x) => Agreement(id, x)'
  PROVE  ViewInv'
<1>1. <<>> \in Seq(Msg) /\ MsgsAhead' = MsgsAhead \o <<>>
  BY AheadType, NothingAhead, EmptySeq
<1>2. ASSUME NEW v \in Views, AllAgree(v)
      PROVE  \E u : Trace(u, <<>>, contract.asked') /\ u[0] = v /\ AllAgree(u[Len(<<>>)])'
  <2>1. AllAgree(v)'
    BY <1>2 DEF AllAgree, Views
  <2>2. PICK u : Trace(u, <<>>, contract.asked') /\ u[0] = v /\ Len(<<>>) = 0
    BY TraceNone
  <2>3. QED
    BY <2>1, <2>2
<1>3. QED
  BY <1>1, <1>2, ViewPushed

(* One message, of the session v.                                          *)
LEMMA ViewOne ==
  ASSUME TypeOK, TypeOK', ViewInv, app # "gone", UNCHANGED contract,
         NEW m \in Msg, m.msg # "EXIT_LOOP", MsgsAhead' = MsgsAhead \o <<m>>,
         \A x \in ViewStates : Agreement(m.id, x) =>
           Allowed(x, m.msg, m.id \in contract.asked) /\ Agreement(m.id, Becomes(x, m.msg))',
         \A id \in SessionIds, x \in ViewStates : id # m.id /\ Agreement(id, x) => Agreement(id, x)'
  PROVE  ViewInv'
<1>1. <<m>> \in Seq(Msg) /\ m.id \in SessionIds
  BY DEF Msg
<1>2. ASSUME NEW v \in Views, AllAgree(v)
      PROVE  \E u : Trace(u, <<m>>, contract.asked') /\ u[0] = v /\ AllAgree(u[Len(<<m>>)])'
  <2>1. v[m.id] \in ViewStates /\ Agreement(m.id, v[m.id])
    BY <1>1, <1>2 DEF AllAgree, Views
  <2>2. Legal(v, m, contract.asked)
    BY <2>1 DEF Legal
  <2>3. AllAgree(After(v, m))'
    <3>1. ASSUME NEW id \in SessionIds PROVE Agreement(id, After(v, m)[id])'
      <4>1. CASE id = m.id
        <5>1. After(v, m)[id] = Becomes(v[m.id], m.msg)
          BY <1>1, <4>1 DEF After, Views
        <5>2. QED
          BY <2>1, <4>1, <5>1
      <4>2. CASE id # m.id
        <5>1. After(v, m)[id] = v[id] /\ v[id] \in ViewStates /\ Agreement(id, v[id])
          BY <1>1, <1>2, <4>2 DEF After, Views, AllAgree
        <5>2. QED
          BY <4>2, <5>1
      <4>3. QED
        BY <4>1, <4>2
    <3>2. QED
      BY <3>1 DEF AllAgree
  <2>4. PICK u : Trace(u, <<m>>, contract.asked) /\ u[0] = v /\ u[Len(<<m>>)] = After(v, m)
    BY <2>2, TraceOne
  <2>5. QED
    BY <2>3, <2>4
<1>3. QED
  BY <1>1, <1>2, ViewPushed

(* A session that stays in the map as it is, or goes offline in the same   *)
(* state, agrees with what it agreed with.                                 *)
LEMMA AgreementFrame ==
  ASSUME NEW id, NEW x, Agreement(id, x),
         id \in known' <=> id \in known, Removing(id)' <=> Removing(id),
         sess'[id].connectState = sess[id].connectState,
         sess'[id].online => sess[id].online,
         contract.asked \subseteq contract.asked'
  PROVE  Agreement(id, x)'
BY DEF Agreement

-----------------------------------------------------------------------------
(* What is removed was given up by the application: it has asked for it,   *)
(* or it has closed the client, after which no session is made.            *)

ClientClose == [op |-> "CLIENT_CLOSE"]
ConnectOps  == {o \in Op : o.op = "CONNECT"}
AskedOps    == {o \in Op : /\ o.op = "CLIENT_CLOSE" => isStop
                           /\ o.op = "REMOVE_SESSION" => o.id \in contract.asked}

AskedInv ==
  /\ isStop => contract.asked = SessionIds
  /\ Within(OpsAhead, AskedOps) /\ Last(OpsAhead, ClientClose, ConnectOps)
  /\ stage # "START" => isStop /\ Within(OpsAhead, Op \ ConnectOps)
  /\ stage \in {"WAIT_EXIT", "STOP"} => known = {}
  /\ loop # "running" => stage \in {"WAIT_EXIT", "STOP"}
  /\ \A id \in known : sess[id].removeTag => id \in contract.asked

(* What a step does to the operations that are ahead.                      *)
OpsMove ==
  \/ OpsAhead' = OpsAhead
  \/ /\ OpsAhead # <<>> /\ OpsAhead' = Tail(OpsAhead)
     /\ Head(OpsAhead) = Head(opDispatch) /\ ExecuteOperation
  \/ \E o \in Op : /\ OpsAhead' = Append(OpsAhead, o)
                   /\ o.op = "CONNECT" => ~isStop
                   /\ o.op = "CLIENT_CLOSE" => isStop'
                   /\ o.op = "REMOVE_SESSION" => o.id \in contract.asked'
  \/ \E o \in Op : /\ OpsAhead # <<>> /\ OpsAhead' = Append(Tail(OpsAhead), o)
                   /\ o.op = "DISCONNECT"
                   /\ Head(OpsAhead) = Head(opDispatch) /\ ExecSendAndClose

LEMMA AskedOpsKept ==
  ASSUME TypeOK, AskedInv, OpsMove, isStop => isStop', contract.asked \subseteq contract.asked'
  PROVE  /\ Within(OpsAhead', AskedOps') /\ Last(OpsAhead', ClientClose, ConnectOps)
         /\ stage # "START" => Within(OpsAhead', Op \ ConnectOps)
<1> DEFINE q  == OpsAhead
           A  == AskedOps'
           N  == Op \ ConnectOps
           cc == ClientClose
           C  == ConnectOps
<1>1. q \in Seq(Op)
  BY AheadType
<1>2. Within(q, AskedOps) /\ AskedOps \subseteq A
  BY DEF AskedInv, AskedOps
<1>3. Within(q, A)
  BY <1>2 DEF Within
<1>4. Last(q, cc, C) /\ (stage # "START" => Within(q, N))
  BY DEF AskedInv
<1>5. Has(q, cc) => isStop
  BY <1>2 DEF Has, Within, AskedOps, ClientClose
<1>6. stage # "START" => isStop
  BY DEF AskedInv
<1>7. CASE q' = q
  BY <1>3, <1>4, <1>7
<1>8. CASE q # <<>> /\ q' = Tail(q)
  BY <1>1, <1>3, <1>4, <1>8, WithinTail, LastTail
<1>9. ASSUME NEW o \in Op, q' = Append(q, o), o.op = "CONNECT" => ~isStop,
             o.op = "CLIENT_CLOSE" => isStop', o.op = "REMOVE_SESSION" => o.id \in contract.asked'
      PROVE  Within(q', A) /\ Last(q', cc, C) /\ (stage # "START" => Within(q', N))
  <2>1. o \in A /\ (o \in C => ~isStop)
    BY <1>9 DEF AskedOps, ConnectOps
  <2>2. Last(q', cc, C)
    BY <1>1, <1>4, <1>5, <1>9, <2>1, LastAppend
  <2>3. stage # "START" => o \in N
    BY <1>6, <2>1
  <2>4. QED
    BY <1>1, <1>3, <1>4, <1>9, <2>1, <2>2, <2>3, WithinAppend
<1>10. ASSUME NEW o \in Op, o.op = "DISCONNECT", q # <<>>, q' = Append(Tail(q), o)
       PROVE  Within(q', A) /\ Last(q', cc, C) /\ (stage # "START" => Within(q', N))
  <2>1. o \in A /\ o \in N /\ o \notin C /\ o # cc
    BY <1>10 DEF AskedOps, ConnectOps, ClientClose
  <2>2. /\ Tail(q) \in Seq(Op) /\ Within(Tail(q), A) /\ Last(Tail(q), cc, C)
        /\ stage # "START" => Within(Tail(q), N)
    BY <1>1, <1>3, <1>4, <1>10, WithinTail, LastTail, HeadTailProperties
  <2>3. Last(q', cc, C)
    BY <1>10, <2>1, <2>2, LastAppend
  <2>4. QED
    BY <1>10, <2>1, <2>2, <2>3, WithinAppend
<1>11. QED
  BY <1>7, <1>8, <1>9, <1>10 DEF OpsMove

LEMMA OpsMoves ==
  ASSUME TypeOK, QueueShape, [Next]_vars, ~JoinReturns
  PROVE  /\ OpsMove
         /\ isStop => isStop'
         /\ contract.asked \subseteq contract.asked'
         /\ UNCHANGED isStop \/ contract.asked' = SessionIds
<1> DEFINE Keeps == UNCHANGED isStop /\ contract.asked' = contract.asked
<1>u. UNCHANGED <<opQue, opDispatch>> => OpsMove
  BY DEF OpsMove, OpsAhead
<1>p. ASSUME NEW o \in Op, PushOp(o), opDispatch' = opDispatch, o.op = "CONNECT" => ~isStop,
             o.op = "CLIENT_CLOSE" => isStop', o.op = "REMOVE_SESSION" => o.id \in contract.asked'
      PROVE  OpsMove
  BY <1>p, OpPushed DEF OpsMove
<1>t. ASSUME NEW o, Executes(o), ExecuteOperation, opQue' = opQue PROVE OpsMove
  BY <1>t, OpPopped DEF OpsMove
<1>1. ASSUME NEW id \in SessionIds, NEW call, NEW op \in SessionOps \ {"REMOVE_SESSION"},
             Request(call, op, id)
      PROVE  OpsMove /\ Keeps
  <2>1. SessionOp(op, id) \in Op /\ SessionOp(op, id).op = op
    BY SessionOpType DEF SessionOp
  <2>2. op # "CLIENT_CLOSE" /\ op # "REMOVE_SESSION"
    BY DEF SessionOps
  <2>3. QED
    BY <1>1, <1>p, <2>1, <2>2 DEF Request
<1>2. ASSUME NEW id \in SessionIds, Connect(id) \/ Disconnect(id) \/ Send(id) \/ SendAndClose(id)
      PROVE  OpsMove /\ Keeps
  BY <1>1, <1>2 DEF Connect, Disconnect, Send, SendAndClose, SessionOps
<1>3. ASSUME NEW id \in SessionIds, RemoveSession(id)
      PROVE  OpsMove /\ UNCHANGED isStop /\ contract.asked' = contract.asked \cup {id}
  <2>1. contract.asked' = contract.asked \cup {id} /\ UNCHANGED <<isStop, opDispatch>>
    BY <1>3 DEF RemoveSession, TypeOK, Contract
  <2>2. /\ SessionOp("REMOVE_SESSION", id) \in Op
        /\ SessionOp("REMOVE_SESSION", id).op = "REMOVE_SESSION"
        /\ SessionOp("REMOVE_SESSION", id).id = id
    BY SessionOpType DEF SessionOp, SessionOps
  <2>3. QED
    BY <1>3, <1>p, <2>1, <2>2 DEF RemoveSession
<1>5. CASE CloseClient \/ Destroy
  <2>1. /\ isStop' = TRUE /\ contract.asked' = SessionIds /\ opDispatch' = opDispatch
        /\ opQue' = opQue \/ PushOp([op |-> "CLIENT_CLOSE"])
    BY <1>5 DEF CloseClient, Destroy, StopAndPush, TypeOK, Contract
  <2>2. [op |-> "CLIENT_CLOSE"] \in Op
    BY DEF Op
  <2>3. OpsMove
    BY <1>p, <1>u, <2>1, <2>2
  <2>4. QED
    BY <2>1, <2>3 DEF TypeOK, Contract
<1>6. CASE GetThreadMsg
  BY <1>6, <1>u DEF GetThreadMsg, appVars
<1>7. CASE DispatchMsg
  <2> DEFINE m == Head(msgDispatch)
  <2>1. m \in Msg /\ UNCHANGED <<isStop, opDispatch>> /\ contract' = Told(m)
    BY <1>7, HeadTailProperties DEF DispatchMsg, TypeOK
  <2>2. contract.asked' = contract.asked
    BY <2>1 DEF Told, TypeOK, Contract
  <2>3. opQue' = opQue \/ \E v \in SessionIds : PushOp(SessionOp("DELETE_SESSION", v))
    BY <1>7, <2>1 DEF DispatchMsg, Msg
  <2>4. \A v \in SessionIds : /\ SessionOp("DELETE_SESSION", v) \in Op
                              /\ SessionOp("DELETE_SESSION", v).op = "DELETE_SESSION"
    BY SessionOpType DEF SessionOp, SessionOps
  <2>5. QED
    BY <1>p, <1>u, <2>1, <2>2, <2>3, <2>4
<1>8. CASE DrainOperations
  <2>1. OpsAhead' = OpsAhead
    BY <1>8, NothingAhead DEF DrainOperations, OpsAhead, TypeOK
  <2>2. QED
    BY <1>8, <2>1 DEF DrainOperations, OpsMove, appVars
<1>9. CASE ExecuteOperation
  <2>1. PICK o : Executes(o)
    BY <1>9 DEF ExecuteOperation, ExecSend, ExecSendAndClose, ExecDisconnect, ExecConnect,
       ExecClientClose, ExecRemoveSession, ExecDeleteSession
  <2>2. Keeps
    BY <2>1 DEF Executes, appVars
  <2>3. CASE opQue' = opQue
    BY <1>9, <1>t, <2>1, <2>2, <2>3
  <2>4. CASE opQue' # opQue
    <3>1. ExecSendAndClose /\ PushOp(SessionOp("DISCONNECT", Target))
      BY <1>9, <2>4 DEF ExecuteOperation, ExecSend, ExecSendAndClose, ExecDisconnect, ExecConnect,
         ExecClientClose, ExecRemoveSession, ExecDeleteSession
    <3>2. Target \in SessionIds
      BY <3>1, TargetType DEF ExecSendAndClose, SessionOps
    <3>3. PICK d \in Op : d.op = "DISCONNECT" /\ PushOp(d)
      BY <3>1, <3>2, SessionOpType DEF SessionOp, SessionOps
    <3>4. QED
      BY <2>1, <2>2, <3>1, <3>3, OpPopped DEF OpsMove
  <2>5. QED
    BY <2>3, <2>4
<1>10. CASE OnTimerUpdateRun \/ RunEnds
  BY <1>10, <1>u DEF OnTimerUpdateRun, RunEnds, appVars
<1>11. ASSUME NEW id \in SessionIds, Callbacks(id) PROVE OpsMove /\ Keeps
  BY <1>11, <1>u DEF Callbacks, Flush, OnSynAck, OnConnectFailed, OnRecv, PeerLeaves, Shutdown,
     OnClose, SocketCallback, appVars
<1>13. CASE UNCHANGED vars
  BY <1>13, <1>u DEF vars, appVars, sharedVars
<1>14. QED
  BY <1>2, <1>3, <1>5, <1>6, <1>7, <1>8, <1>9, <1>10, <1>11, <1>13
  DEF Next, Application, LoopThread, Callbacks

LEMMA AskedStep ==
  ASSUME TypeOK, TypeOK', QueueShape, QueueShape', AskedInv, [Next]_vars
  PROVE  AskedInv'
<1>s. sess \in [SessionIds -> Session] /\ \A id \in SessionIds : sess[id] \in Session
  BY DEF TypeOK
\* Neither the sessions nor the stages are disturbed.
<1>k. ASSUME ~JoinReturns, UNCHANGED <<stage, loop>>,
             stage # "START" => known' \subseteq known,
             \A id \in known' : sess'[id].removeTag =>
               \/ id \in known /\ sess[id].removeTag
               \/ id \in contract.asked
      PROVE  AskedInv'
  <2>1. /\ OpsMove /\ (isStop => isStop') /\ contract.asked \subseteq contract.asked'
        /\ UNCHANGED isStop \/ contract.asked' = SessionIds
    BY <1>k, OpsMoves
  <2>2. /\ Within(OpsAhead', AskedOps') /\ Last(OpsAhead', ClientClose, ConnectOps)
        /\ stage # "START" => Within(OpsAhead', Op \ ConnectOps)
    BY <2>1, AskedOpsKept
  <2>3. isStop' => contract.asked' = SessionIds
    BY <2>1 DEF AskedInv, TypeOK, Contract
  <2>4. \A id \in known' : sess'[id].removeTag => id \in contract.asked'
    BY <1>k, <2>1 DEF AskedInv
  <2>5. /\ stage' # "START" => isStop'
        /\ stage' \in {"WAIT_EXIT", "STOP"} => known' = {}
        /\ loop' # "running" => stage' \in {"WAIT_EXIT", "STOP"}
    BY <1>k, <2>1 DEF AskedInv
  <2>6. QED
    BY <1>k, <2>2, <2>3, <2>4, <2>5 DEF AskedInv, ClientClose, ConnectOps
<1>f. ASSUME NEW s \in Session
      PROVE  /\ ExecuteDisconnect(s, "FIN_WAIT").removeTag = s.removeTag
             /\ Connecting(s).removeTag = s.removeTag
             /\ SocketDisconnect(s, "FIN_WAIT").removeTag = s.removeTag
             /\ \A b \in BOOLEAN : [s EXCEPT !.unsent = b].removeTag = s.removeTag
  BY DEF ExecuteDisconnect, SocketDisconnect, Connecting, Session
<1>c. ASSUME NEW v \in SessionIds, NEW s, ChangeSession(v, s)
      PROVE  sess'[v] = s /\ \A id \in SessionIds : id # v => sess'[id] = sess[id]
  BY <1>s, <1>c DEF ChangeSession
\* One session is changed, and its tag is not.
<1>v. ASSUME ~JoinReturns, UNCHANGED <<stage, loop, known>>, NEW v \in SessionIds,
             \A id \in SessionIds : id # v => sess'[id] = sess[id],
             sess'[v].removeTag = sess[v].removeTag
      PROVE  AskedInv'
  BY <1>k, <1>v DEF TypeOK
<1>1. CASE JoinReturns
  <2>1. /\ app' = "gone" /\ known' = {} /\ UNCHANGED <<isStop, contract, stage, loop>>
    BY <1>1 DEF JoinReturns
  <2>2. OpsAhead' = <<>> /\ DOMAIN <<>> = {}
    BY <2>1, EmptySeq DEF QueueShape
  <2>3. QED
    BY <2>1, <2>2 DEF AskedInv, Within, Last
<1>2. CASE Application /\ ~JoinReturns
  <2>1. UNCHANGED <<stage, loop, known, sess>>
    BY <1>2 DEF Application, Connect, Disconnect, Send, SendAndClose, Request, RemoveSession,
       CloseClient, Destroy, StopAndPush, GetThreadMsg, DispatchMsg
  <2>2. QED
    BY <1>2, <1>k, <2>1
<1>l. ASSUME loop # "ended" \/ app # "joining" PROVE ~JoinReturns
  BY <1>l DEF JoinReturns
<1>e. ASSUME NEW o, Executes(o) PROVE ~JoinReturns /\ UNCHANGED <<loop, contract, isStop>>
  <2>1. opDispatch # <<>> /\ loop = "running" /\ loop' = loop
    BY <1>e DEF Executes, QueueShape
  <2>2. QED
    BY <1>e, <1>l, <2>1 DEF Executes, appVars
<1>g. ASSUME NEW o \in SessionOps, Executes(o)
      PROVE  Target \in SessionIds /\ ~JoinReturns /\ loop' = loop
  BY <1>g, <1>e, TargetType
<1>3. CASE ExecSend
  <2>1. Target \in SessionIds /\ ~JoinReturns /\ UNCHANGED <<stage, loop, known>>
    BY <1>3, <1>g DEF SessionOps, ExecSend
  <2>2. \/ UNCHANGED sess
        \/ ChangeSession(Target, [sess[Target] EXCEPT !.unsent = TRUE])
        \/ ChangeSession(Target, ExecuteDisconnect(sess[Target], "FIN_WAIT"))
    BY <1>3 DEF ExecSend
  <2>3. \/ sess' = sess
        \/ sess'[Target] = [sess[Target] EXCEPT !.unsent = TRUE]
        \/ sess'[Target] = ExecuteDisconnect(sess[Target], "FIN_WAIT")
    BY <1>c, <2>1, <2>2
  <2>4. \A id \in SessionIds : id # Target => sess'[id] = sess[id]
    BY <1>c, <2>1, <2>2
  <2>5. sess'[Target].removeTag = sess[Target].removeTag
    BY <1>s, <1>f, <2>1, <2>3
  <2>6. QED
    BY <1>v, <2>1, <2>4, <2>5
<1>4. CASE ExecSendAndClose
  <2>1. Target \in SessionIds /\ ~JoinReturns /\ UNCHANGED <<stage, loop, known>>
    BY <1>4, <1>g DEF SessionOps, ExecSendAndClose
  <2>2. \/ UNCHANGED sess
        \/ ChangeSession(Target, [sess[Target] EXCEPT !.unsent = TRUE])
        \/ ChangeSession(Target, ExecuteDisconnect(sess[Target], "FIN_WAIT"))
    BY <1>4 DEF ExecSendAndClose
  <2>3. \/ sess' = sess
        \/ sess'[Target] = [sess[Target] EXCEPT !.unsent = TRUE]
        \/ sess'[Target] = ExecuteDisconnect(sess[Target], "FIN_WAIT")
    BY <1>c, <2>1, <2>2
  <2>4. \A id \in SessionIds : id # Target => sess'[id] = sess[id]
    BY <1>c, <2>1, <2>2
  <2>5. sess'[Target].removeTag = sess[Target].removeTag
    BY <1>s, <1>f, <2>1, <2>3
  <2>6. QED
    BY <1>v, <2>1, <2>4, <2>5
<1>5. CASE ExecDisconnect
  <2>1. Target \in SessionIds /\ ~JoinReturns /\ UNCHANGED <<stage, loop, known>>
    BY <1>5, <1>g DEF SessionOps, ExecDisconnect
  <2> DEFINE s == sess[Target]
             t == [s EXCEPT !.connectState = "DISCONNECTING"]
  <2>2. t \in Session /\ t.removeTag = s.removeTag
    BY <1>s, <2>1 DEF Session, ConnectStates
  <2>3. ExecuteDisconnect(t, "FIN_WAIT").removeTag = s.removeTag
    BY <1>f, <2>2
  <2>4. sess' = sess \/ ChangeSession(Target, ExecuteDisconnect(t, "FIN_WAIT"))
    BY <1>5 DEF ExecDisconnect
  <2> HIDE DEF t
  <2>5. QED
    BY <1>c, <1>v, <2>1, <2>3, <2>4
<1>6. CASE ExecConnect
  <2>1. Target \in SessionIds /\ ~JoinReturns /\ UNCHANGED <<stage, loop>>
    BY <1>6, <1>g DEF SessionOps, ExecConnect
  <2>2. stage = "START"
    <3>1. opDispatch # <<>> /\ Head(opDispatch).op = "CONNECT"
      BY <1>6 DEF ExecConnect, Executes
    <3>2. OpsAhead # <<>> /\ Head(OpsAhead).op = "CONNECT" /\ Head(OpsAhead) \in Op
      BY <3>1, OpTaken DEF OpsAhead
    <3>3. Head(OpsAhead) \notin Op \ ConnectOps
      BY <3>2 DEF ConnectOps
    <3>4. QED
      BY <3>2, <3>3, AheadType, WithinTail DEF AskedInv
  <2>3. CASE CreateSession
    <3>1. /\ known' = known \cup {Target}
          /\ \A id \in SessionIds : id # Target => sess'[id] = sess[id]
      BY <1>c, <2>1, <2>3 DEF CreateSession
    <3>2. /\ ~Connecting(NewSession).removeTag
          /\ ~[NewSession EXCEPT !.connectState = "DISCONNECT"].removeTag
      BY DEF Connecting, NewSession
    <3>3. ~sess'[Target].removeTag
      BY <1>c, <2>1, <2>3, <3>2 DEF CreateSession
    <3>4. QED
      BY <1>k, <2>1, <2>2, <3>1, <3>3 DEF TypeOK
  <2>4. CASE Reconnect
    <3>1. /\ known' = known
          /\ \A id \in SessionIds : id # Target => sess'[id] = sess[id]
          /\ sess'[Target].removeTag = sess[Target].removeTag
      BY <1>c, <1>f, <1>s, <2>1, <2>4 DEF Reconnect
    <3>2. QED
      BY <1>v, <2>1, <3>1
  <2>5. QED
    BY <1>6, <2>3, <2>4 DEF ExecConnect
<1>8. CASE ExecClientClose
  <2>1. ~JoinReturns /\ UNCHANGED <<loop, known, sess, contract, isStop>> /\ stage' = "CLEAR_SESSION"
    BY <1>8, <1>e DEF ExecClientClose
  <2>2. loop = "running"
    BY <1>8 DEF ExecClientClose, Executes, QueueShape
  <2>3. /\ OpsAhead # <<>> /\ OpsAhead' = Tail(OpsAhead) /\ OpsAhead \in Seq(Op)
        /\ Head(OpsAhead) = Head(opDispatch) /\ Head(OpsAhead).op = "CLIENT_CLOSE"
    <3>1. Executes("CLIENT_CLOSE") /\ opQue' = opQue
      BY <1>8 DEF ExecClientClose
    <3>2. Head(opDispatch).op = "CLIENT_CLOSE"
      BY <3>1 DEF Executes
    <3>3. QED
      BY <3>1, <3>2, OpPopped
  <2>4. Head(OpsAhead) = ClientClose
    BY <2>3, HeadTailProperties DEF ClientClose, Op, SessionOps
  <2>5. isStop
    BY <2>3, WithinTail DEF AskedInv, AskedOps
  <2>6. OpsMove
    BY <1>8, <2>3 DEF OpsMove, ExecuteOperation
  <2>7. Within(OpsAhead', AskedOps') /\ Last(OpsAhead', ClientClose, ConnectOps)
    BY <2>1, <2>6, AskedOpsKept
  <2>8. Within(OpsAhead', Op \ ConnectOps)
    <3>1. \A i \in DOMAIN Tail(OpsAhead) : Tail(OpsAhead)[i] \notin ConnectOps
      BY <2>3, <2>4, LastTail DEF AskedInv
    <3>2. \A i \in DOMAIN Tail(OpsAhead) : Tail(OpsAhead)[i] \in Op
      BY <2>3, AtTail, LenProperties
    <3>3. QED
      BY <2>3, <3>1, <3>2 DEF Within
  <2>9. QED
    BY <2>1, <2>2, <2>5, <2>7, <2>8 DEF AskedInv, ClientClose, ConnectOps
<1>9. CASE ExecRemoveSession
  <2>1. Target \in SessionIds /\ ~JoinReturns /\ UNCHANGED <<stage, loop, known>>
    BY <1>9, <1>g DEF SessionOps, ExecRemoveSession
  <2>2. Target \in contract.asked
    <3>1. opDispatch # <<>> /\ Head(opDispatch).op = "REMOVE_SESSION"
      BY <1>9 DEF ExecRemoveSession, Executes
    <3>2. OpsAhead # <<>> /\ Head(OpsAhead) = Head(opDispatch)
      BY <3>1, OpTaken DEF OpsAhead
    <3>3. Head(OpsAhead) \in AskedOps
      BY <3>2, AheadType, WithinTail DEF AskedInv
    <3>4. QED
      BY <3>1, <3>2, <3>3 DEF AskedOps, Target
  <2>3. \A id \in SessionIds : id # Target => sess'[id] = sess[id]
    BY <1>9, <1>c, <2>1 DEF ExecRemoveSession
  <2>4. QED
    BY <1>k, <2>1, <2>2, <2>3 DEF TypeOK
<1>10. CASE ExecDeleteSession
  <2>1. Target \in SessionIds /\ ~JoinReturns /\ UNCHANGED <<stage, loop>>
    BY <1>10, <1>g DEF SessionOps, ExecDeleteSession
  <2>2. /\ \A id \in SessionIds : id # Target => sess'[id] = sess[id]
        /\ known' \subseteq known /\ (Target \in known' => sess' = sess)
    BY <1>10, <1>c, <2>1 DEF ExecDeleteSession
  <2>3. QED
    BY <1>k, <2>1, <2>2 DEF TypeOK
<1>11. CASE DrainOperations
  BY <1>11, <1>k, <1>l DEF DrainOperations
<1>12. CASE OnTimerUpdateRun \/ RunEnds
  <2>1. ~JoinReturns /\ UNCHANGED <<known, contract, isStop, OpsAhead>>
    BY <1>12, <1>l DEF OnTimerUpdateRun, RunEnds, appVars, ClearSessions, StopLoop, OpsAhead
  <2>2. OpsMove
    BY <2>1 DEF OpsMove
  <2>3. /\ Within(OpsAhead', AskedOps') /\ Last(OpsAhead', ClientClose, ConnectOps)
        /\ stage # "START" => Within(OpsAhead', Op \ ConnectOps)
    BY <2>1, <2>2, AskedOpsKept
  <2>4. stage # "START" /\ (stage' # stage => known = {} /\ stage' # "START")
    BY <1>12 DEF OnTimerUpdateRun, RunEnds, ClearSessions, StopLoop, AllSessionsGone, AskedInv
  <2>5. loop' # "running" => stage' \in {"WAIT_EXIT", "STOP"}
    BY <1>12 DEF OnTimerUpdateRun, RunEnds, ClearSessions, StopLoop
  <2>6. contract.asked = SessionIds
    BY <2>4 DEF AskedInv
  <2>7. stage' \in {"WAIT_EXIT", "STOP"} => known' = {}
    BY <2>1, <2>4 DEF AskedInv
  <2>8. known' \subseteq SessionIds
    BY DEF TypeOK
  <2>9. QED
    BY <2>1, <2>3, <2>4, <2>5, <2>6, <2>7, <2>8 DEF AskedInv, ClientClose, ConnectOps
<1>13. ASSUME NEW id \in SessionIds, Callbacks(id) PROVE AskedInv'
  <2> USE DEF Callbacks, Flush, OnSynAck, OnConnectFailed, OnRecv, PeerLeaves, Shutdown, OnClose
  <2>1. loop # "ended" /\ UNCHANGED <<stage, loop, known>>
    BY <1>13 DEF SocketCallback
  <2>2. \A x \in SessionIds : x # id => sess'[x] = sess[x]
    BY <1>13, <1>c
  <2>3. sess'[id].removeTag = sess[id].removeTag
    <3>0. sess[id] \in Session
      BY <1>s
    <3>1. CASE Flush(id)
      <4>1. sess'[id] = [sess[id] EXCEPT !.unsent = FALSE]
        BY <3>1, <1>c
      <4>2. QED
        BY <1>f, <3>0, <4>1
    <3>2. CASE OnSynAck(id)
    <4>p. PICK conv \in BOOLEAN :
          LET s == [sess[id] EXCEPT !.state = "ESTABLISHED", !.connectState = "CONNECT",
                                    !.online = TRUE, !.hasConv = conv] IN
            IF Unwanted(id)
              THEN ChangeSession(id, ExecuteDisconnect(s, "FIN_WAIT")) /\ UNCHANGED msgQue
              ELSE ChangeSession(id, s) /\ PushMsgs(<<SessionMsg("CONNECT", id)>>)
      BY <3>2
      <4> DEFINE s == [sess[id] EXCEPT !.state = "ESTABLISHED", !.connectState = "CONNECT",
                                       !.online = TRUE, !.hasConv = conv]
      <4>1. s \in Session /\ s.removeTag = sess[id].removeTag
        BY <3>0 DEF Session, ConnectStates
      <4>2. ChangeSession(id, ExecuteDisconnect(s, "FIN_WAIT")) \/ ChangeSession(id, s)
        BY <4>p
      <4> HIDE DEF s
      <4>3. sess'[id] = ExecuteDisconnect(s, "FIN_WAIT") \/ sess'[id] = s
        BY <1>c, <4>2
      <4>4. QED
        BY <1>f, <4>1, <4>3
    <3>3. CASE OnConnectFailed(id)
      <4>1. sess'[id] = [sess[id] EXCEPT !.online = FALSE, !.connectState = "DISCONNECT",
                                         !.state = "CLOSED", !.udp = "closing", !.hasConv = FALSE]
        BY <3>3, <1>c
      <4>2. QED
        BY <3>0, <4>1 DEF Session
    <3>4. CASE OnRecv(id)
      BY <3>4
    <3>5. CASE PeerLeaves(id)
      <4>1. sess'[id] = SocketDisconnect(sess[id], "FIN_WAIT")
        BY <3>5, <1>c
      <4>2. QED
        BY <1>f, <3>0, <4>1
    <3>6. CASE Shutdown(id)
      <4>1. sess'[id] = [sess[id] EXCEPT !.udp = "closing", !.unsent = FALSE, !.hasConv = FALSE]
        BY <3>6, <1>c
      <4>2. QED
        BY <3>0, <4>1 DEF Session
    <3>7. CASE OnClose(id)
      <4> DEFINE s == [sess[id] EXCEPT !.state = "CLOSED", !.udp = "none"]
                 r == [SocketClosed(s) EXCEPT !.connectState = "DISCONNECT"]
      <4>1. s.removeTag = sess[id].removeTag /\ r.removeTag = sess[id].removeTag
        BY <1>s DEF SocketClosed, Session
      <4>2. ChangeSession(id, r) \/ ChangeSession(id, s)
        BY <3>7
      <4> HIDE DEF r, s
      <4>3. QED
        BY <1>c, <4>1, <4>2
    <3>8. QED
      BY <1>13, <3>1, <3>2, <3>3, <3>4, <3>5, <3>6, <3>7
  <2>4. QED
    BY <1>l, <1>v, <2>1, <2>2, <2>3
<1>14. CASE UNCHANGED vars /\ ~JoinReturns
  BY <1>14, <1>k DEF vars
<1>15. QED
  BY <1>1, <1>2, <1>3, <1>4, <1>5, <1>6, <1>8, <1>9, <1>10, <1>11, <1>12, <1>13, <1>14
  DEF Next, LoopThread, ExecuteOperation, Callbacks

-----------------------------------------------------------------------------
(* What an operation leaves for the application to hear.                   *)
LEMMA ViewExecute ==
  ASSUME TypeOK, TypeOK', SocketState, RemovalInv, AskedInv, ViewInv, app # "gone",
         ExecuteOperation
  PROVE  ViewInv'
<1>s. sess \in [SessionIds -> Session] /\ \A id \in SessionIds : sess[id] \in Session
  BY DEF TypeOK
<1>c. ASSUME NEW v \in SessionIds, NEW s, ChangeSession(v, s)
      PROVE  sess'[v] = s /\ \A id \in SessionIds : id # v => sess'[id] = sess[id]
  BY <1>s, <1>c DEF ChangeSession
<1>e. ASSUME NEW o, Executes(o)
      PROVE  /\ UNCHANGED <<contract, msgDispatch>> /\ contract.view' = contract.view
             /\ contract.asked \subseteq contract.asked'
  BY <1>e DEF Executes, appVars
<1>t. ASSUME NEW o \in SessionOps, Executes(o) PROVE Target \in SessionIds
  BY <1>t, TargetType
<1>f. ASSUME NEW s \in Session
      PROVE  /\ ExecuteDisconnect(s, "FIN_WAIT").connectState = s.connectState
             /\ ~ExecuteDisconnect(s, "FIN_WAIT").online
  BY DEF ExecuteDisconnect, SocketDisconnect, Session
<1>w. ASSUME NEW s \in Session
      PROVE  /\ [s EXCEPT !.unsent = TRUE].connectState = s.connectState
             /\ [s EXCEPT !.unsent = TRUE].online = s.online
  BY DEF Session
<1>n. ASSUME NEW s \in Session
      PROVE  Connecting(s).connectState = "CONNECTING" /\ Connecting(s).online = s.online
  BY DEF Connecting, Session
<1>r. ASSUME NEW v \in SessionIds, Removing(v) PROVE v \in known /\ Removed(sess[v])
  BY <1>r DEF RemovalInv
<1>q. \A v \in known : sess[v].online => sess[v].connectState = "CONNECT"
  BY DEF SocketState, SocketAgrees
\* Nothing is told, and one session is changed.
<1>u. ASSUME NEW o, Executes(o), SameDels, UNCHANGED <<msgQue, known>>, NEW v \in SessionIds,
             \A id \in SessionIds : id # v => sess'[id] = sess[id],
             \A x \in ViewStates : Removing(v)' = Removing(v) /\ Agreement(v, x) => Agreement(v, x)'
      PROVE  ViewInv'
  <2>1. MsgsAhead' = MsgsAhead
    BY <1>e, <1>u DEF MsgsAhead
  <2>2. \A id \in SessionIds : Removing(id)' <=> Removing(id)
    BY <1>u, <2>1, RemovingKept
  <2>3. ASSUME NEW id \in SessionIds, NEW x \in ViewStates, Agreement(id, x) PROVE Agreement(id, x)'
    <3>1. CASE id = v
      BY <1>u, <2>2, <2>3, <3>1 DEF Removing
    <3>2. CASE id # v
      BY <1>e, <1>u, <2>2, <2>3, <3>2, AgreementFrame
    <3>3. QED
      BY <3>1, <3>2
  <2>4. QED
    BY <1>e, <1>u, <2>1, <2>3, ViewKept
<1>v. ASSUME NEW o, Executes(o), SameDels, UNCHANGED <<msgQue, known>>, NEW v \in SessionIds,
             \A id \in SessionIds : id # v => sess'[id] = sess[id],
             sess'[v].connectState = sess[v].connectState, sess'[v].online => sess[v].online
      PROVE  ViewInv'
  <2>1. ASSUME NEW x \in ViewStates, Removing(v)' = Removing(v), Agreement(v, x)
        PROVE  Agreement(v, x)'
    BY <1>e, <1>v, <2>1, AgreementFrame
  <2>2. QED
    BY <1>u, <1>v, <2>1
\* A message m of the session v is queued.
<1>m. ASSUME NEW o, Executes(o), SameDels, NEW v \in SessionIds, NEW k \in SessionMsgs,
             NEW m, m = SessionMsg(k, v), PushMsgs(<<m>>),
             ~Removing(v), v \in known', known' = known \cup {v},
             \A id \in SessionIds : id # v => sess'[id] = sess[id],
             \A x \in ViewStates : Agreement(v, x) =>
               /\ Allowed(x, k, v \in contract.asked)
               /\ IF k = "REMOVE_SESSION" THEN TRUE
                  ELSE /\ Becomes(x, k) = "down"
                       /\ sess'[v].connectState = "DISCONNECT" /\ ~sess'[v].online
      PROVE  ViewInv'
  <2>1. m \in Msg /\ m.msg = k /\ m.id = v /\ k # "EXIT_LOOP"
    BY <1>m DEF Msg, SessionMsg, SessionMsgs
  <2> DEFINE ms == <<m>>
  <2>2. ms \in Seq(Msg) /\ DOMAIN ms = {1} /\ ms[1] = m
    BY <2>1
  <2>3. PushMsgs(ms)
    BY <1>m
  <2> HIDE DEF ms
  <2>4. MsgsAhead' = MsgsAhead \o ms
    BY <1>e, <1>m, <2>2, <2>3, BatchPushed
  <2>5. ASSUME NEW id \in SessionIds
        PROVE  Removing(id)' <=> Removing(id) \/ (id = v /\ k = "REMOVE_SESSION")
    <3>1. Has(ms, Removal(id)) <=> m = Removal(id)
      BY <2>2 DEF Has
    <3>2. m = Removal(id) <=> id = v /\ k = "REMOVE_SESSION"
      BY <1>m DEF Removal, SessionMsg
    <3>3. QED
      BY <1>m, <2>2, <2>4, <3>1, <3>2, RemovingPushed
  <2>6. ASSUME NEW id \in SessionIds, NEW x \in ViewStates, id # v, Agreement(id, x)
        PROVE  Agreement(id, x)'
    BY <1>e, <1>m, <2>5, <2>6, AgreementFrame
  <2>7. ASSUME NEW x \in ViewStates, Agreement(v, x)
        PROVE  Agreement(v, Becomes(x, k))'
    <3>1. CASE k = "REMOVE_SESSION"
      BY <2>5, <3>1 DEF Agreement, Becomes
    <3>2. CASE k # "REMOVE_SESSION"
      <4>1. PICK y : y = Becomes(x, k)
        OBVIOUS
      <4>2. /\ y = "down" /\ sess'[v].connectState = "DISCONNECT" /\ ~sess'[v].online
            /\ v \in known' /\ ~Removing(v)'
        BY <1>m, <2>5, <2>7, <3>2, <4>1
      <4>3. Agreement(v, y)'
        BY <4>2 DEF Agreement
      <4>4. QED
        BY <4>1, <4>3 DEF Becomes, Agreement
    <3>3. QED
      BY <3>1, <3>2
  <2>8. QED
    BY <1>e, <1>m, <2>1, <2>4, <2>6, <2>7, ViewOne DEF ms
<1>1. CASE ExecSend
  <2>1. Target \in SessionIds /\ Executes("SENDDATA") /\ UNCHANGED <<msgQue, known>>
    BY <1>1, <1>t DEF ExecSend, SessionOps
  <2>d. SameDels
    BY <1>1, <2>1, DelsKept DEF LoopThread, ExecuteOperation, ExecDeleteSession, Executes
  <2>v. PICK v \in SessionIds : v = Target
    BY <2>1
  <2>2. \/ UNCHANGED sess
        \/ ChangeSession(v, [sess[v] EXCEPT !.unsent = TRUE])
        \/ ChangeSession(v, ExecuteDisconnect(sess[v], "FIN_WAIT"))
    BY <1>1, <2>v DEF ExecSend
  <2>3. \/ sess'[v] = sess[v]
        \/ sess'[v] = [sess[v] EXCEPT !.unsent = TRUE]
        \/ sess'[v] = ExecuteDisconnect(sess[v], "FIN_WAIT")
    BY <1>c, <2>2
  <2>4. \A id \in SessionIds : id # v => sess'[id] = sess[id]
    BY <1>c, <2>2
  <2>5. sess'[v].connectState = sess[v].connectState /\ (sess'[v].online => sess[v].online)
    BY <1>s, <1>f, <1>w, <2>3
  <2>6. QED
    BY <1>v, <2>1, <2>d, <2>4, <2>5
<1>2. CASE ExecSendAndClose
  <2>1. Target \in SessionIds /\ Executes("SEND_AND_CLOSE") /\ UNCHANGED <<msgQue, known>>
    BY <1>2, <1>t DEF ExecSendAndClose, SessionOps
  <2>d. SameDels
    BY <1>2, <2>1, DelsKept DEF LoopThread, ExecuteOperation, ExecDeleteSession, Executes
  <2>v. PICK v \in SessionIds : v = Target
    BY <2>1
  <2>2. \/ UNCHANGED sess
        \/ ChangeSession(v, [sess[v] EXCEPT !.unsent = TRUE])
        \/ ChangeSession(v, ExecuteDisconnect(sess[v], "FIN_WAIT"))
    BY <1>2, <2>v DEF ExecSendAndClose
  <2>3. \/ sess'[v] = sess[v]
        \/ sess'[v] = [sess[v] EXCEPT !.unsent = TRUE]
        \/ sess'[v] = ExecuteDisconnect(sess[v], "FIN_WAIT")
    BY <1>c, <2>2
  <2>4. \A id \in SessionIds : id # v => sess'[id] = sess[id]
    BY <1>c, <2>2
  <2>5. sess'[v].connectState = sess[v].connectState /\ (sess'[v].online => sess[v].online)
    BY <1>s, <1>f, <1>w, <2>3
  <2>6. QED
    BY <1>v, <2>1, <2>d, <2>4, <2>5
<1>3. CASE ExecDisconnect
  <2>1. /\ Target \in SessionIds /\ SameDels /\ Executes("DISCONNECT")
        /\ UNCHANGED <<msgQue, known>>
    BY <1>3, <1>t, PopKeepsDels DEF ExecDisconnect, SessionOps
  <2>v. PICK v \in SessionIds : v = Target
    BY <2>1
  <2> DEFINE t == [sess[v] EXCEPT !.connectState = "DISCONNECTING"]
  <2>2. t \in Session /\ t.connectState = "DISCONNECTING"
    BY <1>s DEF Session, ConnectStates
  <2> HIDE DEF t
  <2>3. CASE UNCHANGED sess
    BY <1>v, <2>1, <2>3
  <2>4. CASE /\ v \in known /\ sess[v].connectState = "CONNECT"
             /\ ChangeSession(v, ExecuteDisconnect(t, "FIN_WAIT"))
    <3>c. /\ sess'[v] = ExecuteDisconnect(t, "FIN_WAIT")
          /\ \A id \in SessionIds : id # v => sess'[id] = sess[id]
      BY <1>c, <2>4
    <3>1. /\ sess'[v].connectState = "DISCONNECTING" /\ ~sess'[v].online
          /\ \A id \in SessionIds : id # v => sess'[id] = sess[id]
      BY <1>f, <2>2, <3>c
    <3>2. ~Removing(v)
      BY <1>r, <2>4 DEF Removed
    <3>3. ASSUME NEW x \in ViewStates, Removing(v)' = Removing(v), Agreement(v, x)
          PROVE  Agreement(v, x)'
      <4>1. x = "up" \/ v \in contract.asked'
        BY <1>e, <2>1, <2>4, <3>2, <3>3 DEF Agreement
      <4>2. QED
        BY <3>1, <3>2, <3>3, <2>1, <2>4, <4>1 DEF Agreement
    <3>4. QED
      BY <1>u, <2>1, <3>1, <3>3
  <2>5. QED
    BY <1>3, <2>v, <2>3, <2>4 DEF ExecDisconnect, t
<1>4. CASE ExecConnect
  <2>1. Target \in SessionIds /\ SameDels /\ Executes("CONNECT")
    BY <1>4, <1>t, PopKeepsDels DEF ExecConnect, SessionOps
  <2>v. PICK v \in SessionIds : v = Target
    BY <2>1
  <2>2. CASE CreateSession
    <3>1. v \notin known /\ ~Removing(v) /\ known' = known \cup {v}
      BY <1>r, <2>v, <2>2 DEF CreateSession
    <3>3. \/ ChangeSession(v, Connecting(NewSession)) /\ UNCHANGED msgQue
          \/ /\ ChangeSession(v, [NewSession EXCEPT !.connectState = "DISCONNECT"])
             /\ PushMsgs(<<SessionMsg("CONNECT_FAIL", v)>>)
      BY <2>v, <2>2 DEF CreateSession
    <3>4. CASE ChangeSession(v, Connecting(NewSession)) /\ UNCHANGED msgQue
      <4>1. /\ sess'[v].connectState = "CONNECTING" /\ ~sess'[v].online
            /\ \A id \in SessionIds : id # v => sess'[id] = sess[id]
        <5>1. /\ sess'[v] = Connecting(NewSession)
              /\ \A id \in SessionIds : id # v => sess'[id] = sess[id]
          BY <1>c, <3>4
        <5>2. NewSession.online = FALSE
          BY DEF NewSession
        <5>3. QED
          BY <1>n, <5>1, <5>2, NewSessionType
      <4>2. MsgsAhead' = MsgsAhead
        BY <1>e, <2>1, <3>4 DEF MsgsAhead
      <4>3. \A id \in SessionIds : Removing(id)' <=> Removing(id)
        BY <2>1, <4>2, RemovingKept
      <4>4. ASSUME NEW id \in SessionIds, NEW x \in ViewStates, Agreement(id, x)
            PROVE  Agreement(id, x)'
        <5>1. CASE id = v
          BY <3>1, <4>1, <4>4, <5>1 DEF Agreement
        <5>2. CASE id # v
          BY <1>e, <2>1, <3>1, <4>1, <4>3, <4>4, <5>2, AgreementFrame
        <5>3. QED
          BY <5>1, <5>2
      <4>5. QED
        BY <1>e, <2>1, <4>2, <4>4, ViewKept
    <3>5. ASSUME NEW m, m = SessionMsg("CONNECT_FAIL", v),
                 PushMsgs(<<m>>), ChangeSession(v, [NewSession EXCEPT !.connectState = "DISCONNECT"])
          PROVE  ViewInv'
      <4>1. /\ sess'[v].connectState = "DISCONNECT" /\ ~sess'[v].online
            /\ \A id \in SessionIds : id # v => sess'[id] = sess[id]
        <5>1. /\ sess'[v] = [NewSession EXCEPT !.connectState = "DISCONNECT"]
              /\ \A id \in SessionIds : id # v => sess'[id] = sess[id]
          BY <1>c, <3>5
        <5>2. QED
          BY <5>1 DEF NewSession
      <4>2. ASSUME NEW x \in ViewStates, Agreement(v, x)
            PROVE  /\ Allowed(x, "CONNECT_FAIL", v \in contract.asked)
                   /\ Becomes(x, "CONNECT_FAIL") = "down"
        BY <3>1, <4>2 DEF Agreement, Allowed, Becomes
      <4>3. QED
        BY <1>m, <2>1, <3>1, <3>5, <4>1, <4>2 DEF SessionMsgs
    <3>6. QED
      BY <3>3, <3>4, <3>5
  <2>3. CASE Reconnect
    <3>1. v \in known /\ UNCHANGED known
      BY <2>v, <2>3 DEF Reconnect
    <3>2. CASE UNCHANGED <<sess, msgQue>>
      BY <1>v, <2>1, <3>1, <3>2
    <3>3. CASE ~(UNCHANGED <<sess, msgQue>>)
      <4>1. /\ ~sess[v].removeTag /\ sess[v].connectState = "DISCONNECT"
            /\ \/ ChangeSession(v, Connecting(sess[v])) /\ UNCHANGED msgQue
               \/ /\ ChangeSession(v, ExecuteDisconnect(sess[v], "FIN_WAIT"))
                  /\ PushMsgs(<<SessionMsg("CONNECT_FAIL", v)>>)
        BY <2>v, <2>3, <3>3 DEF Reconnect
      <4>2. ~Removing(v) /\ ~sess[v].online
        BY <1>q, <1>r, <3>1, <4>1 DEF Removed
      <4>3. \A x \in ViewStates : Agreement(v, x) => x = "down"
        BY <3>1, <4>1, <4>2 DEF Agreement
      <4>4. CASE ChangeSession(v, Connecting(sess[v])) /\ UNCHANGED msgQue
        <5>1. /\ sess'[v].connectState = "CONNECTING" /\ ~sess'[v].online
              /\ \A id \in SessionIds : id # v => sess'[id] = sess[id]
          <6>1. /\ sess'[v] = Connecting(sess[v])
                /\ \A id \in SessionIds : id # v => sess'[id] = sess[id]
            BY <1>c, <4>4
          <6>2. QED
            BY <1>n, <1>s, <4>2, <6>1
        <5>2. ASSUME NEW x \in ViewStates, Removing(v)' = Removing(v), Agreement(v, x)
              PROVE  Agreement(v, x)'
          BY <3>1, <4>2, <4>3, <5>1, <5>2 DEF Agreement
        <5>3. QED
          BY <1>u, <2>1, <3>1, <4>4, <5>1, <5>2
      <4>5. ASSUME NEW m, m = SessionMsg("CONNECT_FAIL", v), PushMsgs(<<m>>),
                   ChangeSession(v, ExecuteDisconnect(sess[v], "FIN_WAIT"))
            PROVE  ViewInv'
        <5>1. /\ sess'[v].connectState = "DISCONNECT" /\ ~sess'[v].online
              /\ \A id \in SessionIds : id # v => sess'[id] = sess[id]
          <6>1. /\ sess'[v] = ExecuteDisconnect(sess[v], "FIN_WAIT")
                /\ \A id \in SessionIds : id # v => sess'[id] = sess[id]
            BY <1>c, <4>5
          <6>2. QED
            BY <1>f, <1>s, <4>1, <6>1
        <5>2. ASSUME NEW x \in ViewStates, Agreement(v, x)
              PROVE  /\ Allowed(x, "CONNECT_FAIL", v \in contract.asked)
                     /\ Becomes(x, "CONNECT_FAIL") = "down"
          BY <4>3, <5>2 DEF Allowed, Becomes
        <5>3. known' = known \cup {v}
          BY <3>1
        <5>4. QED
          BY <1>m, <2>1, <3>1, <4>2, <4>5, <5>1, <5>2, <5>3 DEF SessionMsgs
      <4>6. QED
        BY <4>1, <4>4, <4>5
    <3>4. QED
      BY <3>2, <3>3
  <2>4. QED
    BY <1>4, <2>2, <2>3 DEF ExecConnect
<1>5. CASE ExecClientClose
  <2>1. Executes("CLIENT_CLOSE") /\ UNCHANGED <<msgQue, known, sess, opQue>>
    BY <1>5 DEF ExecClientClose
  <2>2. SameDels
    BY <2>1, PopKeepsDels
  <2>4. MsgsAhead' = MsgsAhead
    BY <1>e, <2>1 DEF MsgsAhead
  <2>5. \A id \in SessionIds : Removing(id)' <=> Removing(id)
    BY <2>2, <2>4, RemovingKept
  <2>6. ASSUME NEW id \in SessionIds, NEW x \in ViewStates, Agreement(id, x) PROVE Agreement(id, x)'
    BY <1>e, <2>1, <2>5, <2>6, AgreementFrame
  <2>7. QED
    BY <1>e, <2>1, <2>4, <2>6, ViewKept
<1>6. CASE ExecRemoveSession
  <2>1. /\ Target \in SessionIds /\ SameDels /\ Executes("REMOVE_SESSION")
        /\ UNCHANGED known
    BY <1>6, <1>t, PopKeepsDels DEF ExecRemoveSession, SessionOps
  <2>v. PICK v \in SessionIds : v = Target
    BY <2>1
  <2>a. v \in contract.asked
    <3>1. Head(opDispatch).op = "REMOVE_SESSION"
      BY <2>1 DEF Executes
    <3>2. OpsAhead # <<>> /\ Head(OpsAhead) = Head(opDispatch)
      BY <2>1, OpPopped
    <3>3. Head(OpsAhead) \in AskedOps
      BY <3>2, AheadType, WithinTail DEF AskedInv
    <3>4. QED
      BY <2>v, <3>1, <3>2, <3>3 DEF AskedOps, Target
  <2> DEFINE t == [sess[v] EXCEPT !.removeTag = TRUE]
  <2>t. t \in Session /\ t.connectState = sess[v].connectState /\ t.online = sess[v].online
    BY <1>s DEF Session
  <2> HIDE DEF t
  <2>2. CASE UNCHANGED <<sess, msgQue>>
    BY <1>v, <2>1, <2>2
  <2>3. CASE ChangeSession(v, ExecuteDisconnect(t, "FIN_WAIT")) /\ UNCHANGED msgQue
    <3>1. /\ sess'[v].connectState = sess[v].connectState /\ ~sess'[v].online
          /\ \A id \in SessionIds : id # v => sess'[id] = sess[id]
      <4>1. /\ sess'[v] = ExecuteDisconnect(t, "FIN_WAIT")
            /\ \A id \in SessionIds : id # v => sess'[id] = sess[id]
        BY <1>c, <2>3
      <4>2. QED
        BY <1>f, <2>t, <4>1
    <3>2. QED
      BY <1>v, <2>1, <2>3, <3>1
  <2>4. CASE ChangeSession(v, t) /\ UNCHANGED msgQue
    <3>1. /\ sess'[v].connectState = sess[v].connectState /\ sess'[v].online = sess[v].online
          /\ \A id \in SessionIds : id # v => sess'[id] = sess[id]
      <4>1. sess'[v] = t /\ \A id \in SessionIds : id # v => sess'[id] = sess[id]
        BY <1>c, <2>4
      <4>2. QED
        BY <2>t, <4>1
    <3>2. QED
      BY <1>v, <2>1, <2>4, <3>1
  <2>5. ASSUME v \in known, sess[v].connectState = "DISCONNECT", ~sess[v].removeTag,
               NEW m, m = SessionMsg("REMOVE_SESSION", v), PushMsgs(<<m>>), ChangeSession(v, t)
        PROVE  ViewInv'
    <3>1. ~Removing(v)
      BY <1>r, <2>5 DEF Removed
    <3>2. \A id \in SessionIds : id # v => sess'[id] = sess[id]
      BY <1>c, <2>5
    <3>3. ASSUME NEW x \in ViewStates, Agreement(v, x)
          PROVE  Allowed(x, "REMOVE_SESSION", v \in contract.asked)
      BY <2>a, <2>5, <3>1, <3>3 DEF Agreement, Allowed
    <3>4. known' = known \cup {v}
      BY <2>1, <2>5
    <3>5. QED
      BY <1>m, <2>1, <2>5, <3>1, <3>2, <3>3, <3>4 DEF SessionMsgs
  <2>6. QED
    BY <1>6, <2>v, <2>2, <2>3, <2>4, <2>5 DEF ExecRemoveSession, t
<1>7. CASE ExecDeleteSession
  <2>1. /\ Target \in SessionIds /\ Executes("DELETE_SESSION")
        /\ UNCHANGED msgQue
    BY <1>7, <1>t DEF ExecDeleteSession, SessionOps
  <2>v. PICK v \in SessionIds : v = Target
    BY <2>1
  <2>2. MsgsAhead' = MsgsAhead
    BY <1>e, <2>1 DEF MsgsAhead
  <2>3. Head(opDispatch).op = "DELETE_SESSION" /\ Head(opDispatch).id = v
    BY <2>1, <2>v DEF Executes, Target
  <2>4. /\ OpsAhead \in Seq(Op) /\ OpsAhead # <<>>
        /\ Head(OpsAhead) = Head(opDispatch) /\ OpsAhead' = Tail(OpsAhead)
    BY <1>7, <2>1, OpPopped DEF ExecDeleteSession
  <2>5. Head(OpsAhead) = Deletion(v)
    <3>1. Head(OpsAhead) \in Op
      BY <2>4, HeadTailProperties
    <3>2. QED
      BY <2>3, <2>4, <3>1 DEF Op, Deletion, SessionOp
  <2>6. ASSUME NEW id \in SessionIds, id # v PROVE Removing(id)' <=> Removing(id)
    <3>1. Deletion(id) # Deletion(v)
      BY <2>6 DEF Deletion, SessionOp
    <3>2. Has(OpsAhead, Deletion(id)) <=> Has(OpsAhead', Deletion(id))
      BY <2>4, <2>5, <3>1, HasTail
    <3>3. QED
      BY <2>2, <3>2 DEF Removing, Deletion, Removal
  <2>7. v \in known /\ Removing(v) /\ sess[v].removeTag
    <3>1. Has(OpsAhead, Deletion(v))
      BY <2>4, <2>5, HasTail
    <3>2. QED
      BY <1>r, <3>1 DEF Removing, Removed
  <2>8. known' = known \ {v} /\ ChangeSession(v, NewSession)
    BY <1>7, <2>v, <2>7 DEF ExecDeleteSession
  <2>9. ASSUME NEW id \in SessionIds, NEW x \in ViewStates, Agreement(id, x) PROVE Agreement(id, x)'
    <3>1. CASE id = v
      BY <2>7, <2>8, <2>9, <3>1 DEF Agreement
    <3>2. CASE id # v
      <4>1. sess'[id] = sess[id] /\ (id \in known' <=> id \in known)
        BY <1>c, <2>8, <3>2
      <4>2. QED
        BY <1>e, <2>1, <2>6, <2>9, <3>2, <4>1, AgreementFrame
    <3>3. QED
      BY <3>1, <3>2
  <2>10. QED
    BY <1>e, <2>1, <2>2, <2>9, ViewKept
<1>8. QED
  BY <1>1, <1>2, <1>3, <1>4, <1>5, <1>6, <1>7 DEF ExecuteOperation

-----------------------------------------------------------------------------
(* The removals of different sessions that are down: each becomes absent.  *)
RemovalsOf(ms, v, asked) ==
  /\ \A i \in 1 .. Len(ms) : /\ ms[i].msg = "REMOVE_SESSION" /\ ms[i].id \in asked
                              /\ v[ms[i].id] = "down"
  /\ \A i, j \in 1 .. Len(ms) : ms[i].id = ms[j].id => i = j

Hears(ms, id) == \E i \in 1 .. Len(ms) : ms[i].id = id

LEMMA TraceRemovals ==
  ASSUME NEW ms \in Seq(Msg), NEW v \in Views, NEW asked, RemovalsOf(ms, v, asked)
  PROVE  \E u : /\ Trace(u, ms, asked) /\ u[0] = v
                /\ \A id \in SessionIds :
                     u[Len(ms)][id] = IF Hears(ms, id) THEN "absent" ELSE v[id]
<1> DEFINE n == Len(ms)
           told(i, id) == \E j \in 1 .. i : ms[j].id = id
           u == [i \in 0 .. n |-> [id \in SessionIds |-> IF told(i, id) THEN "absent" ELSE v[id]]]
<1>1. n \in Nat /\ \A i \in 1 .. n : ms[i] \in Msg /\ ms[i].id \in SessionIds
  BY LenProperties, ElementOfSeq DEF Msg, RemovalsOf
<1>2. \A i \in 1 .. n : /\ ms[i].msg = "REMOVE_SESSION" /\ ms[i].id \in asked
                        /\ v[ms[i].id] = "down"
  BY DEF RemovalsOf
<1>3. \A i, j \in 1 .. n : ms[i].id = ms[j].id => i = j
  BY DEF RemovalsOf
<1> HIDE DEF n
<1>4. \A id \in SessionIds : v[id] \in ViewStates /\ "absent" \in ViewStates
  BY DEF Views, ViewStates
<1>5. u \in [0 .. n -> Views]
  BY <1>4 DEF Views
<1>6. \A i \in 0 .. n, id \in SessionIds : u[i][id] = IF told(i, id) THEN "absent" ELSE v[id]
  OBVIOUS
<1>7. u[0] = v
  <2>1. \A id \in SessionIds : ~told(0, id)
    OBVIOUS
  <2>2. u[0] = [id \in SessionIds |-> v[id]]
    BY <1>1, <2>1
  <2>3. QED
    BY <2>2 DEF Views
<1>8. ASSUME NEW i \in 1 .. n
      PROVE  Legal(u[i - 1], ms[i], asked) /\ u[i] = After(u[i - 1], ms[i])
  <2>1. i - 1 \in 0 .. n /\ i \in 0 .. n /\ ms[i].id \in SessionIds /\ ms[i].msg = "REMOVE_SESSION"
    BY <1>1, <1>2
  <2>2. ~told(i - 1, ms[i].id)
    <3>1. \A j \in 1 .. i - 1 : j \in 1 .. n /\ j # i
      BY <1>1
    <3>2. QED
      BY <1>3, <3>1
  <2>3. ASSUME NEW id \in SessionIds
        PROVE  told(i, id) <=> told(i - 1, id) \/ id = ms[i].id
    <3>1. \A j : j \in 1 .. i <=> j \in 1 .. i - 1 \/ j = i
      BY <1>1
    <3>2. QED
      BY <3>1
  <2> HIDE DEF told
  <2>4. u[i - 1] \in Views /\ u[i] \in Views
    BY <1>5, <2>1
  <2> HIDE DEF u
  <2>5. u[i - 1][ms[i].id] = "down"
    BY <1>2, <1>6, <2>1, <2>2
  <2>6. Legal(u[i - 1], ms[i], asked)
    BY <1>2, <2>1, <2>5 DEF Legal, Allowed
  <2>7. ASSUME NEW id \in SessionIds
        PROVE  u[i][id] = IF id = ms[i].id THEN "absent" ELSE u[i - 1][id]
    BY <1>6, <2>1, <2>3
  <2>8. u[i] = [u[i - 1] EXCEPT ![ms[i].id] = "absent"]
    BY <2>4, <2>7 DEF Views
  <2>9. QED
    BY <2>1, <2>6, <2>8 DEF After, Becomes
<1>9. Trace(u, ms, asked)
  BY <1>5, <1>8 DEF Trace, n
<1>10. n \in 0 .. n
  BY <1>1
<1>11. \A id \in SessionIds : u[n][id] = IF told(n, id) THEN "absent" ELSE v[id]
  BY <1>6, <1>10
<1> HIDE DEF u
<1>12. QED
  BY <1>7, <1>9, <1>11 DEF n, Hears

(* The timer of a closing client tells of the removals it begins, the end  *)
(* of the loop that it has no session left.                                *)
LEMMA ViewTimer ==
  ASSUME TypeOK, TypeOK', SocketState, RemovalInv, AskedInv, ViewInv, app # "gone",
         DrainOperations \/ OnTimerUpdateRun \/ RunEnds
  PROVE  ViewInv'
<1>s. sess \in [SessionIds -> Session] /\ \A id \in SessionIds : sess[id] \in Session
  BY DEF TypeOK
<1>a. /\ UNCHANGED <<contract, msgDispatch, known>> /\ contract.view' = contract.view
      /\ contract.asked \subseteq contract.asked'
  BY DEF DrainOperations, OnTimerUpdateRun, RunEnds, appVars
<1>o. OpsAhead' = OpsAhead
  <2>1. CASE DrainOperations
    BY <2>1, NothingAhead DEF DrainOperations, OpsAhead, TypeOK
  <2>2. CASE OnTimerUpdateRun \/ RunEnds
    BY <2>2 DEF OnTimerUpdateRun, RunEnds, OpsAhead
  <2>3. QED
    BY <2>1, <2>2
<1>d. SameDels
  BY <1>o, SameOps
<1>1. ASSUME UNCHANGED <<msgQue, sess>> PROVE ViewInv'
  <2>1. MsgsAhead' = MsgsAhead
    BY <1>1, <1>a DEF MsgsAhead
  <2>2. \A id \in SessionIds : Removing(id)' <=> Removing(id)
    BY <1>a, <1>d, <2>1, RemovingKept
  <2>3. ASSUME NEW id \in SessionIds, NEW x \in ViewStates, Agreement(id, x) PROVE Agreement(id, x)'
    BY <1>1, <1>a, <2>2, <2>3, AgreementFrame
  <2>4. QED
    BY <1>a, <2>1, <2>3, ViewKept
<1>2. CASE DrainOperations
  BY <1>1, <1>2 DEF DrainOperations
<1>3. CASE OnTimerUpdateRun /\ StopLoop
  BY <1>1, <1>3 DEF OnTimerUpdateRun, StopLoop
<1>4. CASE OnTimerUpdateRun /\ ClearSessions
  <2>1. PICK gone \in Ascending({id \in SessionIds : AwaitsRemoval(id)}) :
          PushMsgs([i \in DOMAIN gone |-> SessionMsg("REMOVE_SESSION", gone[i])])
    BY <1>4 DEF ClearSessions
  <2>2. PICK ms : ms = [i \in DOMAIN gone |-> SessionMsg("REMOVE_SESSION", gone[i])]
    OBVIOUS
  <2>3. /\ ms \in Seq(Msg) /\ Len(ms) \in Nat /\ DOMAIN ms = 1 .. Len(ms)
        /\ \A i \in DOMAIN ms : /\ gone[i] \in SessionIds /\ AwaitsRemoval(gone[i])
                                /\ ms[i] = Removal(gone[i])
        /\ \A i, j \in DOMAIN ms : gone[i] = gone[j] => i = j
        /\ \A id \in SessionIds : AwaitsRemoval(id) => \E i \in DOMAIN ms : gone[i] = id
    BY <2>2, TimerBatch
  <2>4. MsgsAhead' = MsgsAhead \o ms
    BY <1>a, <2>1, <2>2, <2>3, BatchPushed
  <2>5. \A i \in 1 .. Len(ms) : ms[i].msg = "REMOVE_SESSION" /\ ms[i].id = gone[i]
    BY <2>3 DEF Removal, SessionMsg
  <2>6. ASSUME NEW id \in SessionIds PROVE Hears(ms, id) <=> AwaitsRemoval(id)
    BY <2>3, <2>5 DEF Hears
  <2>7. ASSUME NEW id \in SessionIds PROVE Removing(id)' <=> Removing(id) \/ Hears(ms, id)
    <3>2. Has(ms, Removal(id)) => Hears(ms, id)
      BY <2>3 DEF Has, Hears, Removal, SessionMsg
    <3>3. Hears(ms, id) => Has(ms, Removal(id))
      <4>1. ASSUME Hears(ms, id) PROVE Has(ms, Removal(id))
        <5>1. PICK i \in 1 .. Len(ms) : ms[i].id = id
          BY <4>1 DEF Hears
        <5>2. i \in DOMAIN ms /\ gone[i] = id
          BY <2>3, <2>5, <5>1
        <5>3. QED
          BY <2>3, <5>2 DEF Has
      <4>2. QED
        BY <4>1
    <3>4. QED
      BY <1>a, <1>d, <2>3, <2>4, <3>2, <3>3, RemovingPushed
  <2>8. contract.asked = SessionIds /\ contract.asked' = SessionIds
    BY <1>4, <1>a DEF AskedInv, ClearSessions
  <2>9. ASSUME NEW id \in SessionIds, AwaitsRemoval(id), NEW x, Agreement(id, x) PROVE x = "down"
    <3>1. id \in known /\ sess[id].connectState = "DISCONNECT" /\ ~sess[id].removeTag
      BY <2>9 DEF AwaitsRemoval
    <3>2. ~Removing(id)
      BY <3>1 DEF RemovalInv, Removed
    <3>3. QED
      BY <2>9, <3>1, <3>2 DEF Agreement
  <2>10. ASSUME NEW id \in SessionIds, ~Hears(ms, id), NEW x \in ViewStates, Agreement(id, x)
         PROVE  Agreement(id, x)'
    <3>1. /\ sess'[id].connectState = sess[id].connectState
          /\ sess'[id].online => sess[id].online
      <4>0. sess'[id] = IF id \in known /\ sess[id].connectState = "CONNECT"
                          THEN ExecuteDisconnect([sess[id] EXCEPT !.removeTag = TRUE], "FIN_WAIT")
                          ELSE sess[id]
        BY <1>4, <2>6, <2>10 DEF ClearSessions
      <4>1. PICK t : t = [sess[id] EXCEPT !.removeTag = TRUE]
        OBVIOUS
      <4>2. t \in Session /\ t.connectState = sess[id].connectState
        BY <1>s, <4>1 DEF Session
      <4>3. ExecuteDisconnect(t, "FIN_WAIT").connectState = t.connectState /\ ~ExecuteDisconnect(t, "FIN_WAIT").online
        BY <4>2 DEF ExecuteDisconnect, SocketDisconnect, Session
      <4>4. QED
        BY <4>0, <4>1, <4>2, <4>3
    <3>2. QED
      BY <1>a, <2>7, <2>10, <3>1, AgreementFrame
  <2>11. ASSUME NEW id \in SessionIds, Hears(ms, id) PROVE Agreement(id, "absent")'
    BY <2>7, <2>11 DEF Agreement
  <2>12. ASSUME NEW v \in Views, AllAgree(v)
         PROVE  \E u : Trace(u, ms, contract.asked') /\ u[0] = v /\ AllAgree(u[Len(ms)])'
    <3>0. ms \in Seq(Msg) /\ v \in Views
      BY <2>3, <2>12
    <3>1. \A i \in 1 .. Len(ms) : /\ ms[i].msg = "REMOVE_SESSION" /\ ms[i].id \in SessionIds
                                  /\ v[ms[i].id] = "down"
      BY <2>3, <2>5, <2>9, <2>12 DEF AllAgree
    <3>2. RemovalsOf(ms, v, SessionIds)
      BY <2>3, <2>5, <3>1 DEF RemovalsOf
    <3>3. PICK u : /\ Trace(u, ms, SessionIds) /\ u[0] = v
                   /\ \A id \in SessionIds :
                        u[Len(ms)][id] = IF Hears(ms, id) THEN "absent" ELSE v[id]
      BY <3>0, <3>2, TraceRemovals
    <3>4. PICK z : z = u[Len(ms)]
      OBVIOUS
    <3>5. \A id \in SessionIds : z[id] = IF Hears(ms, id) THEN "absent" ELSE v[id]
      BY <3>3, <3>4
    <3>6. \A id \in SessionIds : v[id] \in ViewStates /\ Agreement(id, v[id])
      BY <2>12 DEF AllAgree, Views
    <3>7. \A id \in SessionIds : Agreement(id, z[id])'
      <4>1. ASSUME NEW id \in SessionIds PROVE Agreement(id, z[id])'
        <5>1. CASE Hears(ms, id)
          <6>1. Agreement(id, "absent")' /\ z[id] = "absent"
            BY <2>11, <3>5, <5>1
          <6>2. QED
            BY <6>1 DEF Agreement
        <5>2. CASE ~Hears(ms, id)
          <6>1. Agreement(id, v[id])' /\ z[id] = v[id]
            BY <2>10, <3>5, <3>6, <5>2
          <6>2. QED
            BY <6>1 DEF Agreement
        <5>3. QED
          BY <5>1, <5>2
      <4>2. QED
        BY <4>1
    <3>8. AllAgree(u[Len(ms)])'
      BY <3>4, <3>7 DEF AllAgree, Agreement
    <3>9. QED
      BY <2>8, <3>3, <3>8
  <2>13. QED
    BY <1>a, <2>3, <2>4, <2>12, ViewPushed
<1>5. CASE RunEnds
  <2>1. Exit \in Msg /\ Exit.msg = "EXIT_LOOP"
    BY DEF Exit, Msg
  <2> DEFINE ms == <<Exit>>
  <2>2. ms \in Seq(Msg) /\ DOMAIN ms = {1} /\ ms[1] = Exit
    BY <2>1
  <2>3. PushMsgs(ms) /\ UNCHANGED sess
    BY <1>5 DEF RunEnds, Exit
  <2> HIDE DEF ms
  <2>4. MsgsAhead' = MsgsAhead \o ms
    BY <1>a, <2>2, <2>3, BatchPushed
  <2>5. known = {} /\ known' = {} /\ contract.asked = SessionIds /\ contract.asked' = SessionIds
    BY <1>5, <1>a DEF AskedInv, RunEnds
  <2>6. ASSUME NEW v \in Views, AllAgree(v)
        PROVE  \E u : Trace(u, ms, contract.asked') /\ u[0] = v /\ AllAgree(u[Len(ms)])'
    <3>1. \A id \in SessionIds : v[id] = "absent"
      BY <2>5, <2>6 DEF AllAgree, Agreement
    <3>2. Legal(v, Exit, SessionIds)
      BY <2>1, <3>1 DEF Legal
    <3>3. PICK u : Trace(u, <<Exit>>, SessionIds) /\ u[0] = v /\ u[Len(<<Exit>>)] = After(v, Exit)
      BY <2>1, <3>2, TraceOne
    <3>4. Trace(u, ms, SessionIds) /\ u[Len(ms)] = v
      BY <2>1, <3>3 DEF ms, After
    <3>5. AllAgree(v)'
      BY <2>5, <3>1 DEF AllAgree, Agreement
    <3>6. QED
      BY <2>5, <3>3, <3>4, <3>5 DEF AllAgree, Agreement
  <2>7. QED
    BY <1>a, <2>2, <2>4, <2>6, ViewPushed
<1>6. QED
  BY <1>2, <1>3, <1>4, <1>5 DEF OnTimerUpdateRun

(* What the timer of a socket, a datagram or libuv brings a session.       *)
LEMMA ViewCallbacks ==
  ASSUME TypeOK, TypeOK', SocketState, RemovalInv, AskedInv, ViewInv, app # "gone",
         NEW id \in SessionIds, Callbacks(id)
  PROVE  ViewInv'
<1> USE DEF Callbacks, Flush, OnSynAck, OnConnectFailed, OnRecv, PeerLeaves, Shutdown, OnClose
<1>1. /\ id \in known /\ opDispatch = <<>>
      /\ UNCHANGED <<contract, opDispatch, msgDispatch, known>>
  BY DEF SocketCallback, appVars
<1>a. contract.view' = contract.view /\ contract.asked \subseteq contract.asked'
  BY <1>1
<1>d. SameDels
  BY <1>1, DelsKept DEF LoopThread, ExecDeleteSession, Executes
<1>s. sess[id] \in Session /\ sess \in [SessionIds -> Session] /\ SocketAgrees(sess[id])
  BY <1>1 DEF TypeOK, SocketState
<1>c. ASSUME NEW s, ChangeSession(id, s)
      PROVE  sess'[id] = s /\ \A x \in SessionIds : x # id => sess'[x] = sess[x]
  BY <1>s, <1>c DEF ChangeSession
<1>2. sess[id].state # "CLOSED" => ~Removing(id)
  BY <1>s DEF RemovalInv, SocketAgrees, Removed
<1>h. Callbacks(id)
  OBVIOUS
<1> HIDE DEF Callbacks, Flush, OnSynAck, OnConnectFailed, OnRecv, PeerLeaves, Shutdown, OnClose
\* Nothing is told.
<1>u. ASSUME msgQue' = msgQue, \A i \in SessionIds : i # id => sess'[i] = sess[i],
             \A x \in ViewStates : Removing(id)' = Removing(id) /\ Agreement(id, x) => Agreement(id, x)'
      PROVE  ViewInv'
  <2>1. MsgsAhead' = MsgsAhead
    BY <1>1, <1>u DEF MsgsAhead
  <2>2. \A i \in SessionIds : Removing(i)' <=> Removing(i)
    BY <1>1, <1>d, <2>1, RemovingKept
  <2>3. ASSUME NEW i \in SessionIds, NEW x \in ViewStates, Agreement(i, x) PROVE Agreement(i, x)'
    <3>1. CASE i = id
      BY <1>u, <2>2, <2>3, <3>1 DEF Removing
    <3>2. CASE i # id
      BY <1>1, <1>a, <1>u, <2>2, <2>3, <3>2, AgreementFrame
    <3>3. QED
      BY <3>1, <3>2
  <2>4. QED
    BY <1>a, <2>1, <2>3, ViewKept
<1>v. ASSUME msgQue' = msgQue, NEW s, ChangeSession(id, s),
             s.connectState = sess[id].connectState, s.online => sess[id].online
      PROVE  ViewInv'
  <2>1. sess'[id] = s /\ \A i \in SessionIds : i # id => sess'[i] = sess[i]
    BY <1>c, <1>v
  <2>2. ASSUME NEW x \in ViewStates, Removing(id)' = Removing(id), Agreement(id, x)
        PROVE  Agreement(id, x)'
    BY <1>1, <1>a, <1>v, <2>1, <2>2, AgreementFrame
  <2>3. QED
    BY <1>u, <1>v, <2>1, <2>2
\* One message is told.
<1>m. ASSUME NEW k \in SessionMsgs, k # "REMOVE_SESSION", PushMsgs(<<SessionMsg(k, id)>>),
             ~Removing(id),
             \A i \in SessionIds : i # id => sess'[i] = sess[i],
             \A x \in ViewStates : Agreement(id, x) =>
               /\ Allowed(x, k, id \in contract.asked)
               /\ ~Removing(id)' => Agreement(id, Becomes(x, k))'
      PROVE  ViewInv'
  <2>0. PICK m : m = SessionMsg(k, id)
    OBVIOUS
  <2>1. m \in Msg /\ m.msg = k /\ m.id = id /\ k # "EXIT_LOOP"
    BY <2>0, SessionMsgType DEF SessionMsg, SessionMsgs
  <2> DEFINE ms == <<m>>
  <2>2. ms \in Seq(Msg) /\ DOMAIN ms = {1} /\ ms[1] = m
    BY <2>1
  <2>3. PushMsgs(ms)
    BY <1>m, <2>0
  <2> HIDE DEF ms
  <2>4. MsgsAhead' = MsgsAhead \o ms
    BY <1>1, <2>2, <2>3, BatchPushed
  <2>5. ASSUME NEW i \in SessionIds PROVE Removing(i)' <=> Removing(i)
    <3>1. ~Has(ms, Removal(i))
      BY <1>m, <2>1, <2>2 DEF Has, Removal, SessionMsg
    <3>2. QED
      BY <1>1, <1>d, <2>2, <2>4, <3>1, RemovingPushed
  <2>6. ASSUME NEW i \in SessionIds, NEW x \in ViewStates, i # id, Agreement(i, x)
        PROVE  Agreement(i, x)'
    BY <1>1, <1>a, <1>m, <2>5, <2>6, AgreementFrame
  <2>7. ~Removing(id)'
    BY <1>m, <2>5
  <2>8. ASSUME NEW x \in ViewStates, Agreement(id, x)
        PROVE  Allowed(x, k, id \in contract.asked) /\ Agreement(id, Becomes(x, k))'
    BY <1>m, <2>7, <2>8
  <2>9. QED
    BY <1>1, <2>1, <2>4, <2>6, <2>8, ViewOne DEF ms
<1>3. CASE Flush(id)
  <2>1. UNCHANGED msgQue /\ ChangeSession(id, [sess[id] EXCEPT !.unsent = FALSE])
    BY <1>3 DEF Flush
  <2>2. /\ [sess[id] EXCEPT !.unsent = FALSE].connectState = sess[id].connectState
        /\ [sess[id] EXCEPT !.unsent = FALSE].online = sess[id].online
    BY <1>s DEF Session
  <2>3. QED
    BY <1>v, <2>1, <2>2
<1>4. CASE OnSynAck(id)
  <2>p. PICK conv \in BOOLEAN :
        LET s == [sess[id] EXCEPT !.state = "ESTABLISHED", !.connectState = "CONNECT",
                                  !.online = TRUE, !.hasConv = conv] IN
          IF Unwanted(id)
            THEN ChangeSession(id, ExecuteDisconnect(s, "FIN_WAIT")) /\ UNCHANGED msgQue
            ELSE ChangeSession(id, s) /\ PushMsgs(<<SessionMsg("CONNECT", id)>>)
    BY <1>4 DEF OnSynAck
  <2> DEFINE s == [sess[id] EXCEPT !.state = "ESTABLISHED", !.connectState = "CONNECT",
                                   !.online = TRUE, !.hasConv = conv]
  <2>1. s \in Session /\ s.connectState = "CONNECT"
    BY <1>s DEF Session, ConnectStates
  <2>2. /\ sess[id].state = "SYN_SENT"
        /\ IF Unwanted(id)
             THEN ChangeSession(id, ExecuteDisconnect(s, "FIN_WAIT")) /\ UNCHANGED msgQue
             ELSE ChangeSession(id, s) /\ PushMsgs(<<SessionMsg("CONNECT", id)>>)
    BY <1>4, <2>p DEF OnSynAck
  <2> HIDE DEF s
  <2>3. ~Removing(id) /\ sess[id].connectState = "CONNECTING"
    BY <1>2, <1>s, <2>2 DEF SocketAgrees
  <2>4. CASE Unwanted(id)
    <3>1. /\ sess'[id] = ExecuteDisconnect(s, "FIN_WAIT") /\ UNCHANGED msgQue
          /\ \A i \in SessionIds : i # id => sess'[i] = sess[i]
      BY <1>c, <2>2, <2>4
    <3>2. sess'[id].connectState = "CONNECT" /\ ~sess'[id].online
      BY <2>1, <3>1 DEF ExecuteDisconnect, SocketDisconnect, Session
    <3>3. id \in contract.asked
      BY <1>1, <2>4 DEF AskedInv, Unwanted
    <3>4. ASSUME NEW x \in ViewStates, Removing(id)' = Removing(id), Agreement(id, x)
          PROVE  Agreement(id, x)'
      BY <1>1, <2>3, <3>2, <3>3, <3>4 DEF Agreement
    <3>5. QED
      BY <1>u, <3>1, <3>4
  <2>5. CASE ~Unwanted(id)
    <3>1. /\ sess'[id] = s /\ PushMsgs(<<SessionMsg("CONNECT", id)>>)
          /\ \A i \in SessionIds : i # id => sess'[i] = sess[i]
      BY <1>c, <2>2, <2>5
    <3>2. ASSUME NEW x \in ViewStates, Agreement(id, x)
          PROVE  /\ Allowed(x, "CONNECT", id \in contract.asked)
                 /\ ~Removing(id)' => Agreement(id, Becomes(x, "CONNECT"))'
      <4>1. x # "up"
        BY <1>1, <2>3, <3>2 DEF Agreement
      <4>2. ~Removing(id)' => Agreement(id, "up")'
        BY <1>1, <2>1, <3>1 DEF Agreement
      <4>3. QED
        BY <4>1, <4>2 DEF Allowed, Becomes
    <3>3. QED
      BY <1>m, <2>3, <3>1, <3>2 DEF SessionMsgs
  <2>6. QED
    BY <2>4, <2>5
<1>5. CASE OnConnectFailed(id)
  <2>0. PICK t : t = [sess[id] EXCEPT !.online = FALSE, !.connectState = "DISCONNECT",
                                      !.state = "CLOSED", !.udp = "closing", !.hasConv = FALSE]
    OBVIOUS
  <2>1. ~t.online /\ t.connectState = "DISCONNECT"
    BY <1>s, <2>0 DEF Session
  <2>2. PICK k \in {"CONNECT_FAIL", "CONNECT_TIMOUT"} :
          /\ sess[id].state = "SYN_SENT" /\ ChangeSession(id, t)
          /\ PushMsgs(<<SessionMsg(k, id)>>)
    BY <1>5, <2>0 DEF OnConnectFailed
  <2>3. ~Removing(id) /\ sess[id].connectState = "CONNECTING"
    BY <1>2, <1>s, <2>2 DEF SocketAgrees
  <2>4. /\ sess'[id].connectState = "DISCONNECT" /\ ~sess'[id].online
        /\ \A i \in SessionIds : i # id => sess'[i] = sess[i]
    BY <1>c, <2>1, <2>2
  <2>5. ASSUME NEW x \in ViewStates, Agreement(id, x)
        PROVE  /\ Allowed(x, k, id \in contract.asked)
               /\ ~Removing(id)' => Agreement(id, Becomes(x, k))'
    <3>1. x # "up"
      BY <1>1, <2>3, <2>5 DEF Agreement
    <3>2. ~Removing(id)' => Agreement(id, "down")'
      BY <1>1, <2>4 DEF Agreement
    <3>3. QED
      BY <3>1, <3>2 DEF Allowed, Becomes
  <2>6. QED
    BY <1>m, <2>2, <2>3, <2>4, <2>5 DEF SessionMsgs
<1>6. CASE OnRecv(id)
  <2>1. UNCHANGED sess /\ sess[id].state = "ESTABLISHED"
    BY <1>6 DEF OnRecv
  <2>2. ~Removing(id)
    BY <1>2, <2>1
  <2>3. CASE sess[id].online
    <3>1. PushMsgs(<<SessionMsg("RECV_DATA", id)>>)
      BY <1>6, <2>3 DEF OnRecv
    <3>2. ASSUME NEW x \in ViewStates, Agreement(id, x)
          PROVE  /\ Allowed(x, "RECV_DATA", id \in contract.asked)
                 /\ ~Removing(id)' => Agreement(id, Becomes(x, "RECV_DATA"))'
      <4>1. x = "up"
        BY <1>1, <2>2, <2>3, <3>2 DEF Agreement
      <4>2. ~Removing(id)' => Agreement(id, x)'
        BY <1>1, <1>a, <2>1, <2>2, <3>2, AgreementFrame
      <4>3. QED
        BY <4>1, <4>2 DEF Allowed, Becomes
    <3>3. QED
      BY <1>m, <2>1, <2>2, <3>1, <3>2 DEF SessionMsgs
  <2>4. CASE ~sess[id].online
    <3>1. UNCHANGED msgQue
      BY <1>6, <2>4 DEF OnRecv
    <3>2. ASSUME NEW x \in ViewStates, Removing(id)' = Removing(id), Agreement(id, x)
          PROVE  Agreement(id, x)'
      BY <1>1, <1>a, <2>1, <3>2, AgreementFrame
    <3>3. QED
      BY <1>u, <2>1, <3>1, <3>2
  <2>5. QED
    BY <2>3, <2>4
<1>7. CASE PeerLeaves(id)
  <2>1. UNCHANGED msgQue /\ ChangeSession(id, SocketDisconnect(sess[id], "FIN_WAIT"))
    BY <1>7 DEF PeerLeaves
  <2>2. /\ SocketDisconnect(sess[id], "FIN_WAIT").connectState = sess[id].connectState
        /\ SocketDisconnect(sess[id], "FIN_WAIT").online = sess[id].online
    BY <1>s DEF SocketDisconnect, Session
  <2>3. QED
    BY <1>v, <2>1, <2>2
<1>8. CASE Shutdown(id)
  <2>0. PICK t : t = [sess[id] EXCEPT !.udp = "closing", !.unsent = FALSE, !.hasConv = FALSE]
    OBVIOUS
  <2>1. UNCHANGED msgQue /\ ChangeSession(id, t)
    BY <1>8, <2>0 DEF Shutdown
  <2>2. t.connectState = sess[id].connectState /\ t.online = sess[id].online
    BY <1>s, <2>0 DEF Session
  <2>3. QED
    BY <1>v, <2>1, <2>2
<1>9. CASE OnClose(id) /\ sess[id].state # "FIN_WAIT"
  <2>0. PICK t : t = [sess[id] EXCEPT !.state = "CLOSED", !.udp = "none"]
    OBVIOUS
  <2>1. UNCHANGED msgQue /\ ChangeSession(id, t)
    BY <1>9, <2>0 DEF OnClose
  <2>2. t.connectState = sess[id].connectState /\ t.online = sess[id].online
    BY <1>s, <2>0 DEF Session
  <2>3. QED
    BY <1>v, <2>1, <2>2
<1>10. CASE OnClose(id) /\ sess[id].state = "FIN_WAIT"
  <2>0. PICK s : s = [sess[id] EXCEPT !.state = "CLOSED", !.udp = "none"]
    OBVIOUS
  <2>t. PICK t : t = [SocketClosed(s) EXCEPT !.connectState = "DISCONNECT"]
    OBVIOUS
  <2>1. t.connectState = "DISCONNECT" /\ ~t.online
    BY <1>s, <2>0, <2>t DEF SocketClosed, Session
  <2>2. ChangeSession(id, t) /\ PushMsgs(CloseMsgs(id)) /\ ~Removing(id)
    BY <1>2, <1>10, <2>0, <2>t DEF OnClose
  <2>3. /\ sess'[id].connectState = "DISCONNECT" /\ ~sess'[id].online
        /\ \A i \in SessionIds : i # id => sess'[i] = sess[i]
    BY <1>c, <2>1, <2>2
  <2>4. ASSUME NEW x \in ViewStates, Agreement(id, x)
        PROVE  Allowed(x, "DIS_CONNECT", id \in contract.asked)
    <3>1. sess[id].connectState \in {"CONNECT", "DISCONNECTING"}
      BY <1>s, <1>10 DEF SocketAgrees, Session, ConnectStates
    <3>2. x = "up" \/ id \in contract.asked
      BY <1>1, <2>2, <2>4, <3>1 DEF Agreement
    <3>3. QED
      BY <3>2 DEF Allowed
  <2>d. PICK d : d = SessionMsg("DIS_CONNECT", id)
    OBVIOUS
  <2>r. PICK r : r = SessionMsg("REMOVE_SESSION", id)
    OBVIOUS
  <2>5. /\ d \in Msg /\ d.msg = "DIS_CONNECT" /\ d.id = id
        /\ r \in Msg /\ r.msg = "REMOVE_SESSION" /\ r.id = id
    BY <2>d, <2>r, SessionMsgType DEF SessionMsgs, SessionMsg
  <2>6. CASE ~sess[id].removeTag
    <3>1. CloseMsgs(id) = <<d>>
      BY <2>d, <2>5, <2>6, NothingAhead DEF CloseMsgs
    <3>2. ASSUME NEW x \in ViewStates
          PROVE  ~Removing(id)' => Agreement(id, Becomes(x, "DIS_CONNECT"))'
      <4>1. ~Removing(id)' => Agreement(id, "down")'
        BY <1>1, <2>3 DEF Agreement
      <4>2. QED
        BY <4>1 DEF Becomes
    <3>3. QED
      BY <1>m, <2>d, <2>2, <2>3, <2>4, <3>1, <3>2 DEF SessionMsgs
  <2>7. CASE sess[id].removeTag
    <3> DEFINE ms == <<d, r>>
    <3>1. ms \in Seq(Msg) /\ DOMAIN ms = {1, 2} /\ ms[1] = d /\ ms[2] = r
      BY <2>5
    <3>2. CloseMsgs(id) = ms /\ <<d>> \o <<r>> = ms
      BY <2>d, <2>r, <2>5, <2>7, TwoMsgs DEF CloseMsgs
    <3>3. r = Removal(id) /\ \A i \in SessionIds : i # id => d # Removal(i) /\ r # Removal(i)
      BY <1>1, <2>d, <2>r DEF Removal, SessionMsg
    <3> HIDE DEF ms
    <3>4. MsgsAhead' = MsgsAhead \o ms
      BY <1>1, <2>2, <3>1, <3>2, BatchPushed
    <3>5. /\ Removing(id)'
          /\ \A i \in SessionIds : i # id => (Removing(i)' <=> Removing(i))
      <4>1. Has(ms, Removal(id)) /\ \A i \in SessionIds : i # id => ~Has(ms, Removal(i))
        BY <3>1, <3>3 DEF Has
      <4>2. QED
        BY <1>1, <1>d, <3>1, <3>4, <4>1, RemovingPushed
    <3>6. id \in contract.asked
      BY <1>1, <2>7 DEF AskedInv
    <3>7. ASSUME NEW v \in Views, AllAgree(v)
          PROVE  \E u : Trace(u, ms, contract.asked') /\ u[0] = v /\ AllAgree(u[Len(ms)])'
      <4>1. v[id] \in ViewStates /\ Agreement(id, v[id])
        BY <3>7 DEF AllAgree, Views
      <4>2. Legal(v, d, contract.asked)
        BY <2>4, <2>5, <4>1 DEF Legal
      <4>3. PICK y : y = After(v, d)
        OBVIOUS
      <4>4. y \in Views /\ y[id] = "down" /\ \A i \in SessionIds : i # id => y[i] = v[i]
        BY <2>5, <4>3, AfterType DEF After, Becomes, Views
      <4>5. Legal(y, r, contract.asked)
        BY <2>5, <3>6, <4>4 DEF Legal, Allowed
      <4>6. PICK z : z = After(y, r)
        OBVIOUS
      <4>7. z[id] = "absent" /\ \A i \in SessionIds : i # id => z[i] = v[i]
        BY <2>5, <4>4, <4>6 DEF After, Becomes, Views
      <4>8. PICK w : Trace(w, <<d>>, contract.asked) /\ w[0] = v /\ w[Len(<<d>>)] = y
        BY <2>5, <4>2, <4>3, TraceOne
      <4>9. PICK u : Trace(u, <<r>>, contract.asked) /\ u[0] = y /\ u[Len(<<r>>)] = z
        BY <2>5, <4>4, <4>5, <4>6, TraceOne
      <4>10. <<d>> \in Seq(Msg) /\ <<r>> \in Seq(Msg)
        BY <2>5, OneMsg
      <4>11. PICK x : /\ Trace(x, <<d>> \o <<r>>, contract.asked)
                      /\ x[0] = w[0] /\ x[Len(<<d>> \o <<r>>)] = u[Len(<<r>>)]
        <5>1. PICK p : p = <<d>>
          OBVIOUS
        <5>2. PICK q : q = <<r>>
          OBVIOUS
        <5>3. /\ p \in Seq(Msg) /\ q \in Seq(Msg) /\ u[0] = w[Len(p)]
              /\ Trace(w, p, contract.asked) /\ Trace(u, q, contract.asked)
          BY <4>8, <4>9, <4>10, <5>1, <5>2
        <5>4. PICK x : /\ Trace(x, p \o q, contract.asked)
                       /\ x[0] = w[0] /\ x[Len(p \o q)] = u[Len(q)]
          BY <5>3, TraceConcat
        <5>5. QED
          BY <5>1, <5>2, <5>4
      <4>12. Trace(x, ms, contract.asked) /\ x[0] = v /\ x[Len(ms)] = z
        BY <3>2, <4>8, <4>9, <4>11
      <4>13. \A i \in SessionIds : Agreement(i, z[i])'
        <5>1. ASSUME NEW i \in SessionIds PROVE Agreement(i, z[i])'
          <6>1. CASE i = id
            BY <3>5, <4>7, <6>1 DEF Agreement
          <6>2. CASE i # id
            <7>1. Agreement(i, v[i])
              BY <3>7 DEF AllAgree
            <7>2. Agreement(i, v[i])'
              BY <1>1, <1>a, <2>3, <3>5, <6>2, <7>1, AgreementFrame
            <7>3. z[i] = v[i]
              BY <4>7, <6>2
            <7>4. QED
              BY <7>2, <7>3 DEF Agreement
          <6>3. QED
            BY <6>1, <6>2
        <5>2. QED
          BY <5>1
      <4>14. AllAgree(x[Len(ms)])'
        BY <4>12, <4>13 DEF AllAgree, Agreement
      <4>15. QED
        BY <1>1, <4>12, <4>14
    <3>8. QED
      BY <1>a, <3>1, <3>4, <3>7, ViewPushed
  <2>8. QED
    BY <2>6, <2>7
<1>11. QED
  BY <1>h, <1>3, <1>4, <1>5, <1>6, <1>7, <1>8, <1>9, <1>10 DEF Callbacks

(* The application calls, polls, and is told of the first message.         *)
LEMMA ToldView ==
  ASSUME TypeOK, NEW m \in Msg
  PROVE  Told(m).view = After(contract.view, m) /\ Told(m).asked = contract.asked
<1>1. contract \in [view : Views, asked : SUBSET SessionIds, closed : BOOLEAN]
  BY DEF TypeOK, Contract, Views, ViewStates
<1>2. CASE m.msg = "EXIT_LOOP"
  BY <1>1, <1>2 DEF Told, After
<1>3. CASE m.msg # "EXIT_LOOP"
  <2>1. PICK y : y = Becomes(contract.view[m.id], m.msg)
    OBVIOUS
  <2>2. (CASE m.msg = "CONNECT"        -> "up"
           [] m.msg = "RECV_DATA"      -> contract.view[m.id]
           [] m.msg = "REMOVE_SESSION" -> "absent"
           [] OTHER                    -> "down") = y
    BY <2>1 DEF Becomes
  <2>3. Told(m) = [contract EXCEPT !.view[m.id] = y]
    BY <1>3, <2>2 DEF Told
  <2>4. After(contract.view, m) = [contract.view EXCEPT ![m.id] = y]
    BY <1>3, <2>1 DEF After
  <2>5. QED
    BY <1>1, <2>3, <2>4
<1>4. QED
  BY <1>2, <1>3

LEMMA ViewApplication ==
  ASSUME TypeOK, TypeOK', QueueShape, RemovalInv, ViewInv, Application
  PROVE  ViewInv'
<1>1. CASE JoinReturns
  BY <1>1 DEF JoinReturns, ViewInv
<1>2. CASE ~DispatchMsg /\ ~JoinReturns
  <2>1. /\ UNCHANGED <<known, sess>> /\ app # "gone"
        /\ contract.view' = contract.view /\ contract.asked \subseteq contract.asked'
    <3>1. contract \in Contract
      BY DEF TypeOK
    <3>2. CASE UNCHANGED contract
      BY <1>2, <3>2 DEF Application, Connect, Disconnect, Send, SendAndClose, Request, RemoveSession,
         CloseClient, Destroy, StopAndPush, GetThreadMsg, Calls
    <3>3. ASSUME NEW id \in SessionIds, RemoveSession(id)
          PROVE  /\ UNCHANGED <<known, sess>> /\ app # "gone"
                 /\ contract' = [contract EXCEPT !.asked = @ \cup {id}]
      BY <3>3 DEF RemoveSession, Calls
    <3>4. ASSUME CloseClient \/ Destroy
          PROVE  /\ UNCHANGED <<known, sess>> /\ app # "gone"
                 /\ contract' = [contract EXCEPT !.asked = SessionIds]
      BY <3>4 DEF CloseClient, Destroy, StopAndPush, Calls
    <3>5. CASE \E id \in SessionIds : RemoveSession(id)
      BY <3>1, <3>3, <3>5 DEF Contract
    <3>6. CASE CloseClient \/ Destroy
      BY <3>1, <3>4, <3>6 DEF Contract
    <3>7. CASE ~(\E id \in SessionIds : RemoveSession(id)) /\ ~CloseClient /\ ~Destroy
      <4>1. UNCHANGED contract
        BY <1>2, <3>7 DEF Application, Connect, Disconnect, Send, SendAndClose, Request,
           GetThreadMsg, appVars
      <4>2. QED
        BY <3>2, <4>1
    <3>8. QED
      BY <3>5, <3>6, <3>7
  <2>2. MsgsAhead' = MsgsAhead
    <3>1. CASE GetThreadMsg
      <4>1. msgDispatch = <<>> /\ msgDispatch' = msgQue /\ msgQue' = <<>> /\ msgQue \in Seq(Msg)
        BY <3>1 DEF GetThreadMsg, TypeOK
      <4>2. QED
        BY <4>1, NothingAhead DEF MsgsAhead
    <3>2. CASE ~GetThreadMsg
      BY <1>2, <3>2 DEF Application, Connect, Disconnect, Send, SendAndClose, Request,
         RemoveSession, CloseClient, Destroy, StopAndPush, MsgsAhead
    <3>3. QED
      BY <3>1, <3>2
  <2>3. SameDels
    BY <1>2, DelsKept
  <2>4. \A id \in SessionIds : Removing(id)' <=> Removing(id)
    BY <2>1, <2>2, <2>3, RemovingKept
  <2>5. ASSUME NEW id \in SessionIds, NEW x \in ViewStates, Agreement(id, x) PROVE Agreement(id, x)'
    BY <2>1, <2>4, <2>5, AgreementFrame
  <2>6. QED
    BY <2>1, <2>2, <2>5, ViewKept
<1>3. CASE DispatchMsg
  <2> DEFINE m == Head(msgDispatch)
  <2>1. /\ msgDispatch # <<>> /\ msgDispatch' = Tail(msgDispatch) /\ app # "gone"
        /\ UNCHANGED <<msgQue, known, sess, opDispatch>> /\ contract' = Told(m)
    BY <1>3 DEF DispatchMsg
  <2>2. /\ MsgsAhead \in Seq(Msg) /\ MsgsAhead # <<>>
        /\ Head(MsgsAhead) = m /\ MsgsAhead' = Tail(MsgsAhead)
    BY <2>1, MsgTaken DEF MsgsAhead
  <2>3. m \in LiveMsgs /\ m \in Msg
    BY <2>2, WithinTail DEF RemovalInv, LiveMsgs
  <2>4. contract.view' = After(contract.view, m) /\ contract.asked' = contract.asked
    BY <2>1, <2>3, ToldView
  <2> HIDE DEF m
  <2>5. ASSUME NEW id \in SessionIds PROVE Removing(id)' <=> Removing(id)
    <3>2. Has(MsgsAhead, Removal(id)) <=> m = Removal(id) \/ Has(MsgsAhead', Removal(id))
      BY <2>2, HasTail
    <3>3. CASE m.msg = "REMOVE_SESSION"
      <4>1. PICK v \in SessionIds : v = m.id
        BY <2>3, <3>3 DEF Msg
      <4>2. PICK d : d = Deletion(v)
        OBVIOUS
      <4>3. m = Removal(v)
        BY <2>3, <3>3, <4>1 DEF Msg, Removal, SessionMsg
      <4>4. d \in Op /\ PushOp(d)
        BY <1>3, <3>3, <4>1, <4>2, SessionOpType DEF DispatchMsg, Deletion, SessionOps, m
      <4>5. OpsAhead' = Append(OpsAhead, d) /\ OpsAhead \in Seq(Op)
        BY <2>1, <4>4, OpPushed
      <4>6. Has(OpsAhead', Deletion(id)) <=> Has(OpsAhead, Deletion(id)) \/ d = Deletion(id)
        BY <4>4, <4>5, HasAppend
      <4>7. (d = Deletion(id) <=> id = v) /\ (m = Removal(id) <=> id = v)
        BY <4>2, <4>3 DEF Deletion, SessionOp, Removal, SessionMsg
      <4>8. QED
        BY <3>2, <4>6, <4>7 DEF Removing, Deletion, Removal
    <3>4. CASE m.msg # "REMOVE_SESSION"
      <4>1. OpsAhead' = OpsAhead
        BY <1>3, <2>1, <3>4 DEF DispatchMsg, OpsAhead, m
      <4>2. m # Removal(id)
        BY <3>4 DEF Removal, SessionMsg
      <4>3. QED
        BY <3>2, <4>1, <4>2 DEF Removing, Deletion, Removal
    <3>5. QED
      BY <3>3, <3>4
  <2>6. PICK w : /\ Trace(w, MsgsAhead, contract.asked) /\ w[0] = contract.view
                 /\ AllAgree(w[Len(MsgsAhead)])
    BY <2>1 DEF ViewInv
  <2>7. PICK z : /\ Trace(z, MsgsAhead', contract.asked) /\ z[0] = After(w[0], m)
                 /\ z[Len(MsgsAhead')] = w[Len(MsgsAhead)]
    BY <2>2, <2>6, TraceTail
  <2>8. PICK y : y = w[Len(MsgsAhead)]
    OBVIOUS
  <2>9. \A id \in SessionIds : Agreement(id, y[id])'
    <3>1. ASSUME NEW id \in SessionIds PROVE Agreement(id, y[id])'
      <4>1. PICK x : x = y[id]
        OBVIOUS
      <4>2. Agreement(id, x)
        BY <2>6, <2>8, <4>1 DEF AllAgree, Agreement
      <4>3. Agreement(id, x)'
        BY <2>1, <2>4, <2>5, <4>2, AgreementFrame
      <4>4. QED
        BY <4>1, <4>3 DEF Agreement
    <3>2. QED
      BY <3>1
  <2>10. AllAgree(z[Len(MsgsAhead)])'
    BY <2>7, <2>8, <2>9 DEF AllAgree, Agreement
  <2>11. QED
    BY <2>4, <2>6, <2>7, <2>10 DEF ViewInv
<1>4. QED
  BY <1>1, <1>2, <1>3

-----------------------------------------------------------------------------
(* EXIT_LOOP is the last message there is.                                 *)
ExitInv ==
  /\ loop # "ended" => ~contract.closed /\ ~Has(MsgsAhead, Exit)
  /\ contract.closed => MsgsAhead = <<>>
  /\ Last(MsgsAhead, Exit, Msg)

LEMMA NotExit ==
  ASSUME TypeOK, NEW id \in SessionIds, NEW k \in SessionMsgs, NEW m, m = SessionMsg(k, id)
  PROVE  <<m>> \in Seq(Msg) /\ ~Has(<<m>>, Exit)
<1>1. m \in Msg /\ m.msg = k /\ k # "EXIT_LOOP"
  BY SessionMsgType DEF SessionMsg, SessionMsgs
<1>2. m # Exit
  BY <1>1 DEF Exit
<1>3. <<m>> \in Seq(Msg) /\ DOMAIN <<m>> = {1} /\ <<m>>[1] = m
  BY <1>1
<1>4. QED
  BY <1>2, <1>3 DEF Has

(* What the loop thread queues until it ends.                              *)
LEMMA LoopPushes ==
  ASSUME TypeOK, TypeOK', QueueShape, LoopThread, ~RunEnds
  PROVE  /\ loop # "ended" /\ loop' # "ended" /\ UNCHANGED <<contract, msgDispatch>>
         /\ \E ms \in Seq(Msg) : MsgsAhead' = MsgsAhead \o ms /\ ~Has(ms, Exit)
<1>1. loop # "ended" /\ loop' # "ended" /\ UNCHANGED <<contract, msgDispatch>>
  <2>1. CASE DrainOperations \/ OnTimerUpdateRun
    BY <2>1 DEF DrainOperations, OnTimerUpdateRun, ClearSessions, StopLoop, appVars
  <2>2. ASSUME NEW o, Executes(o)
        PROVE  loop # "ended" /\ loop' # "ended" /\ UNCHANGED <<contract, msgDispatch>>
    BY <2>2 DEF Executes, QueueShape, appVars
  <2>3. CASE ExecuteOperation
    BY <2>2, <2>3 DEF ExecuteOperation, ExecSend, ExecSendAndClose, ExecDisconnect, ExecConnect,
       ExecClientClose, ExecRemoveSession, ExecDeleteSession
  <2>4. ASSUME NEW id \in SessionIds, Callbacks(id) PROVE SocketCallback(id)
    BY <2>4 DEF Callbacks, Flush, OnSynAck, OnConnectFailed, OnRecv, PeerLeaves, Shutdown, OnClose
  <2>5. ASSUME NEW id \in SessionIds, SocketCallback(id)
        PROVE  loop # "ended" /\ loop' # "ended" /\ UNCHANGED <<contract, msgDispatch>>
    BY <2>5 DEF SocketCallback, appVars
  <2>6. QED
    BY <2>1, <2>3, <2>4, <2>5 DEF LoopThread, Callbacks
<1> DEFINE Pushes == \E ms \in Seq(Msg) : PushMsgs(ms) /\ ~Has(ms, Exit)
<1>u. ASSUME UNCHANGED msgQue PROVE Pushes
  <2>1. <<>> \in Seq(Msg) /\ DOMAIN <<>> = {} /\ msgQue = msgQue \o <<>>
    BY NothingAhead, EmptySeq DEF TypeOK
  <2>2. QED
    BY <1>u, <2>1 DEF PushMsgs, Has
<1>m. ASSUME NEW id \in SessionIds, NEW k \in SessionMsgs, PushMsgs(<<SessionMsg(k, id)>>)
      PROVE  Pushes
  <2>1. PICK m : m = SessionMsg(k, id)
    OBVIOUS
  <2>2. <<m>> \in Seq(Msg) /\ ~Has(<<m>>, Exit)
    BY <2>1, NotExit
  <2>3. PushMsgs(<<m>>)
    BY <1>m, <2>1
  <2>4. QED
    BY <2>2, <2>3
<1> HIDE DEF Pushes
<1>2. ASSUME DrainOperations PROVE Pushes
  BY <1>2, <1>u DEF DrainOperations
<1>3. ASSUME \/ ExecSend \/ ExecSendAndClose \/ ExecDisconnect
             \/ ExecClientClose \/ ExecDeleteSession
      PROVE  Pushes
  BY <1>3, <1>u DEF ExecSend, ExecSendAndClose, ExecDisconnect, ExecClientClose,
     ExecDeleteSession
<1>4. ASSUME ExecConnect PROVE Pushes
  <2>1. PICK v \in SessionIds : v = Target
    BY <1>4, TargetType DEF ExecConnect, SessionOps
  <2>2. CASE UNCHANGED msgQue
    BY <1>u, <2>2
  <2>3. CASE PushMsgs(<<SessionMsg("CONNECT_FAIL", v)>>)
    BY <1>m, <2>3 DEF SessionMsgs
  <2>5. QED
    BY <1>4, <2>1, <2>2, <2>3 DEF ExecConnect, CreateSession, Reconnect
<1>5. ASSUME ExecRemoveSession PROVE Pushes
  <2>1. PICK v \in SessionIds : v = Target
    BY <1>5, TargetType DEF ExecRemoveSession, SessionOps
  <2>2. UNCHANGED msgQue \/ PushMsgs(<<SessionMsg("REMOVE_SESSION", v)>>)
    BY <1>5, <2>1 DEF ExecRemoveSession
  <2>3. QED
    BY <1>m, <1>u, <2>2 DEF SessionMsgs
<1>6. ASSUME OnTimerUpdateRun PROVE Pushes
  <2>1. CASE StopLoop
    BY <1>u, <2>1 DEF StopLoop
  <2>2. CASE ClearSessions
    <3>1. PICK gone \in Ascending({id \in SessionIds : AwaitsRemoval(id)}) :
            PushMsgs([i \in DOMAIN gone |-> SessionMsg("REMOVE_SESSION", gone[i])])
      BY <2>2 DEF ClearSessions
    <3>2. PICK ms : ms = [i \in DOMAIN gone |-> SessionMsg("REMOVE_SESSION", gone[i])]
      OBVIOUS
    <3>3. /\ ms \in Seq(Msg)
          /\ \A i \in DOMAIN ms : ms[i] = Removal(gone[i])
      BY <3>2, TimerBatch
    <3>4. ~Has(ms, Exit)
      BY <3>3 DEF Has, Exit, Removal, SessionMsg
    <3>5. QED
      BY <3>1, <3>2, <3>3, <3>4 DEF Pushes
  <2>3. QED
    BY <1>6, <2>1, <2>2 DEF OnTimerUpdateRun
<1>7. ASSUME NEW id \in SessionIds, Flush(id) \/ PeerLeaves(id) \/ Shutdown(id) PROVE Pushes
  BY <1>7, <1>u DEF Flush, PeerLeaves, Shutdown
<1>8. ASSUME NEW id \in SessionIds, OnSynAck(id) \/ OnConnectFailed(id) \/ OnRecv(id) PROVE Pushes
  <2>1. \/ UNCHANGED msgQue
        \/ \E k \in {"CONNECT", "CONNECT_FAIL", "CONNECT_TIMOUT", "RECV_DATA"} :
             PushMsgs(<<SessionMsg(k, id)>>)
    BY <1>8 DEF OnSynAck, OnConnectFailed, OnRecv
  <2>2. QED
    BY <1>m, <1>u, <2>1 DEF SessionMsgs
<1>9. ASSUME NEW id \in SessionIds, OnClose(id) PROVE Pushes
  <2>1. PICK d : d = SessionMsg("DIS_CONNECT", id)
    OBVIOUS
  <2>2. PICK r : r = SessionMsg("REMOVE_SESSION", id)
    OBVIOUS
  <2>3. d \in Msg /\ r \in Msg /\ d # Exit /\ r # Exit
    BY <2>1, <2>2, SessionMsgType DEF SessionMsgs, SessionMsg, Exit
  <2>0. UNCHANGED msgQue \/ PushMsgs(CloseMsgs(id))
    BY <1>9 DEF OnClose
  <2>u. CASE UNCHANGED msgQue
    BY <1>u, <2>u
  <2>m. ASSUME PushMsgs(CloseMsgs(id)) PROVE Pushes
    <3>1. CASE ~sess[id].removeTag
      <4>1. CloseMsgs(id) = <<d>>
        BY <2>1, <2>3, <3>1, NothingAhead DEF CloseMsgs
      <4>2. QED
        BY <1>m, <2>1, <2>m, <4>1 DEF SessionMsgs
    <3>2. CASE sess[id].removeTag
      <4>1. CloseMsgs(id) = <<d, r>>
        BY <2>1, <2>2, <2>3, <3>2, TwoMsgs DEF CloseMsgs
      <4>2. <<d, r>> \in Seq(Msg) /\ DOMAIN <<d, r>> = {1, 2} /\ <<d, r>>[1] = d /\ <<d, r>>[2] = r
        BY <2>3
      <4>3. ~Has(<<d, r>>, Exit)
        BY <2>3, <4>2 DEF Has
      <4>4. QED
        BY <2>m, <4>1, <4>2, <4>3 DEF Pushes
    <3>3. QED
      BY <3>1, <3>2
  <2>4. QED
    BY <2>0, <2>u, <2>m
<1>10. Pushes
  BY <1>2, <1>3, <1>4, <1>5, <1>6, <1>7, <1>8, <1>9 DEF LoopThread, ExecuteOperation
<1>11. PICK ms \in Seq(Msg) : PushMsgs(ms) /\ ~Has(ms, Exit)
  BY <1>10 DEF Pushes
<1>12. MsgsAhead' = MsgsAhead \o ms
  BY <1>1, <1>11, BatchPushed
<1>13. QED
  BY <1>1, <1>11, <1>12

LEMMA ToldClosed ==
  ASSUME TypeOK, NEW m \in Msg
  PROVE  /\ m = Exit => Told(m).closed = TRUE
         /\ m # Exit => m.msg # "EXIT_LOOP" /\ Told(m).closed = contract.closed
<1>1. m = Exit <=> m.msg = "EXIT_LOOP"
  BY DEF Msg, Exit, SessionMsgs
<1>2. CASE m.msg = "EXIT_LOOP"
  BY <1>1, <1>2 DEF Told, TypeOK, Contract
<1>3. CASE m.msg # "EXIT_LOOP"
  BY <1>1, <1>3 DEF Told, TypeOK, Contract
<1>4. QED
  BY <1>2, <1>3

LEMMA ExitStep ==
  ASSUME TypeOK, TypeOK', QueueShape, QueueShape', ExitInv, [Next]_vars
  PROVE  ExitInv'
<1>u. ASSUME MsgsAhead' = MsgsAhead, contract'.closed = contract.closed, loop' = loop
      PROVE  ExitInv'
  BY <1>u DEF ExitInv
<1>1. CASE LoopThread /\ ~RunEnds
  <2>1. loop # "ended" /\ UNCHANGED contract
    BY <1>1, LoopPushes
  <2>2. PICK ms \in Seq(Msg) : MsgsAhead' = MsgsAhead \o ms /\ ~Has(ms, Exit)
    BY <1>1, LoopPushes
  <2>3. ~contract'.closed /\ ~Has(MsgsAhead, Exit)
    BY <2>1 DEF ExitInv
  <2>4. ~Has(MsgsAhead', Exit)
    BY <2>2, <2>3, AheadType, ConcatHas
  <2>5. QED
    BY <2>3, <2>4 DEF ExitInv, Has, Last
<1>2. CASE RunEnds
  <2>1. Exit \in Msg /\ <<Exit>> \in Seq(Msg)
    BY DEF Exit, Msg
  <2>2. loop # "ended" /\ loop' = "ended" /\ UNCHANGED <<contract, msgDispatch>>
    BY <1>2 DEF RunEnds, appVars
  <2>3. msgQue' = Append(msgQue, Exit)
    BY <1>2, <2>1, AppendIsConcat DEF RunEnds, PushMsgs, Exit, TypeOK
  <2>4. MsgsAhead' = Append(MsgsAhead, Exit) /\ MsgsAhead \in Seq(Msg)
    <3>1. msgDispatch \in Seq(Msg) /\ msgQue \in Seq(Msg) /\ Exit \in Msg
      BY <2>1 DEF TypeOK
    <3>2. msgDispatch \o Append(msgQue, Exit) = Append(msgDispatch \o msgQue, Exit)
      BY <3>1, PushBehind
    <3>3. QED
      BY <2>2, <2>3, <3>2, AheadType DEF MsgsAhead
  <2>5. ~contract'.closed /\ Last(MsgsAhead, Exit, Msg) /\ ~Has(MsgsAhead, Exit)
    BY <2>2 DEF ExitInv
  <2>6. Last(MsgsAhead', Exit, Msg)
    BY <2>1, <2>4, <2>5, LastAppend
  <2>7. QED
    BY <2>2, <2>5, <2>6 DEF ExitInv
<1>3. CASE JoinReturns
  <2>1. loop' = "ended" /\ MsgsAhead' = <<>> /\ DOMAIN <<>> = {}
    BY <1>3, EmptySeq DEF JoinReturns, QueueShape
  <2>2. QED
    BY <2>1 DEF ExitInv, Last
<1>4. CASE DispatchMsg
  <2> DEFINE m == Head(msgDispatch)
  <2>1. /\ msgDispatch # <<>> /\ msgDispatch' = Tail(msgDispatch)
        /\ UNCHANGED <<msgQue, loop>> /\ contract' = Told(m)
    BY <1>4 DEF DispatchMsg
  <2>2. /\ MsgsAhead \in Seq(Msg) /\ MsgsAhead # <<>>
        /\ Head(MsgsAhead) = m /\ MsgsAhead' = Tail(MsgsAhead) /\ m \in Msg
    BY <2>1, MsgTaken DEF MsgsAhead
  <2> HIDE DEF m
  <2>3. /\ Last(MsgsAhead', Exit, Msg) /\ MsgsAhead' \in Seq(Msg)
        /\ m = Exit => \A i \in DOMAIN MsgsAhead' : MsgsAhead'[i] \notin Msg
        /\ Has(MsgsAhead', Exit) => Has(MsgsAhead, Exit)
        /\ m = Exit => Has(MsgsAhead, Exit)
    BY <2>2, AheadType, LastTail, HasTail DEF ExitInv
  <2>4. CASE m = Exit
    <3>1. loop' = "ended"
      BY <2>1, <2>3, <2>4 DEF ExitInv
    <3>2. \A i \in DOMAIN MsgsAhead' : MsgsAhead'[i] \in Msg
      BY <2>3, LenProperties
    <3>3. DOMAIN MsgsAhead' = {}
      BY <2>3, <2>4, <3>2
    <3>4. MsgsAhead' = <<>>
      BY <2>3, <3>3, LenProperties, EmptySeq
    <3>5. QED
      BY <2>3, <3>1, <3>4 DEF ExitInv
  <2>5. CASE m # Exit
    <3>1. contract'.closed = contract.closed /\ ~contract.closed
      BY <2>1, <2>2, <2>5, ToldClosed DEF ExitInv
    <3>2. QED
      BY <2>1, <2>3, <3>1 DEF ExitInv
  <2>6. QED
    BY <2>4, <2>5
<1>5. CASE Application /\ ~DispatchMsg /\ ~JoinReturns
  <2>1. contract'.closed = contract.closed /\ loop' = loop
    <3>1. ASSUME NEW id \in SessionIds, RemoveSession(id)
          PROVE  contract'.closed = contract.closed /\ loop' = loop
      BY <3>1 DEF RemoveSession, TypeOK, Contract
    <3>2. ASSUME CloseClient \/ Destroy
          PROVE  contract'.closed = contract.closed /\ loop' = loop
      BY <3>2 DEF CloseClient, Destroy, StopAndPush, TypeOK, Contract
    <3>3. QED
      BY <1>5, <3>1, <3>2 DEF Application, Connect, Disconnect, Send, SendAndClose, Request,
         GetThreadMsg, appVars
  <2>2. MsgsAhead' = MsgsAhead
    <3>1. CASE GetThreadMsg
      <4>1. msgDispatch = <<>> /\ msgDispatch' = msgQue /\ msgQue' = <<>> /\ msgQue \in Seq(Msg)
        BY <3>1 DEF GetThreadMsg, TypeOK
      <4>2. QED
        BY <4>1, NothingAhead DEF MsgsAhead
    <3>2. CASE ~GetThreadMsg
      BY <1>5, <3>2 DEF Application, Connect, Disconnect, Send, SendAndClose, Request,
         RemoveSession, CloseClient, Destroy, StopAndPush, MsgsAhead
    <3>3. QED
      BY <3>1, <3>2
  <2>3. QED
    BY <1>u, <2>1, <2>2
<1>6. CASE UNCHANGED vars
  BY <1>6, <1>u DEF vars, appVars, sharedVars, MsgsAhead
<1>7. QED
  BY <1>1, <1>2, <1>3, <1>4, <1>5, <1>6 DEF Next
-----------------------------------------------------------------------------
(* The contract.                                                           *)

LEMMA ViewStep ==
  ASSUME TypeOK, TypeOK', SocketState, QueueShape, RemovalInv, AskedInv, ViewInv, [Next]_vars
  PROVE  ViewInv'
<1>1. CASE Application
  BY <1>1, ViewApplication
<1>2. CASE LoopThread
  <2>1. CASE app = "gone"
    <3>1. loop = "ended" /\ opDispatch = <<>> /\ known = {}
      <4>1. opDispatch \in Seq(Op) /\ opQue \in Seq(Op)
        BY DEF TypeOK
      <4>2. QED
        BY <2>1 DEF QueueShape
    <3>2. ~LoopThread
      BY <3>1 DEF LoopThread, DrainOperations, ExecuteOperation, ExecSend, ExecSendAndClose,
         ExecDisconnect, ExecConnect, ExecClientClose, ExecRemoveSession,
         ExecDeleteSession, Executes, OnTimerUpdateRun, RunEnds, Flush, OnSynAck, OnConnectFailed,
         OnRecv, PeerLeaves, Shutdown, OnClose, SocketCallback
    <3>3. QED
      BY <1>2, <3>2
  <2>2. CASE app # "gone"
    BY <1>2, <2>2, ViewExecute, ViewTimer, ViewCallbacks DEF LoopThread, Callbacks
  <2>3. QED
    BY <2>1, <2>2
<1>3. CASE UNCHANGED vars
  BY <1>3 DEF vars, appVars, sharedVars, ViewInv, AllAgree, Agreement, Removing,
     Removal, SessionMsg, Deletion, SessionOp, MsgsAhead, OpsAhead
<1>4. QED
  BY <1>1, <1>2, <1>3 DEF Next

LEMMA ContractInit == Init => AskedInv /\ ViewInv /\ ExitInv /\ Promise!Init
<1> SUFFICES ASSUME Init PROVE AskedInv /\ ViewInv /\ ExitInv /\ Promise!Init
  OBVIOUS
<1>1. MsgsAhead = <<>> /\ OpsAhead = <<>> /\ DOMAIN <<>> = {}
  BY NothingAhead, EmptySeq DEF Init, MsgsAhead, OpsAhead
<1>2. AskedInv
  BY <1>1 DEF Init, AskedInv, Within, Last
<1>3. ExitInv
  BY <1>1 DEF Init, ExitInv, Has, Last
<1>4. Promise!Init
  BY DEF Init, Promise!Init
<1>5. ViewInv
  <2>1. contract.view = [id \in SessionIds |-> "absent"] /\ known = {}
    BY DEF Init
  <2>2. contract.view \in Views /\ \A id \in SessionIds : contract.view[id] = "absent"
    BY <2>1 DEF Views, ViewStates
  <2>3. PICK u : /\ Trace(u, <<>>, contract.asked) /\ u[0] = contract.view /\ Len(<<>>) = 0
    BY <2>2, TraceNone
  <2>4. AllAgree(u[Len(MsgsAhead)])
    BY <1>1, <2>1, <2>2, <2>3 DEF AllAgree, Agreement
  <2>5. QED
    BY <1>1, <2>3, <2>4 DEF ViewInv
<1>6. QED
  BY <1>2, <1>3, <1>4, <1>5

(* The first message makes a callback of the contract.                     *)
LEMMA ViewDispatch ==
  ASSUME TypeOK, ViewInv, ExitInv, DispatchMsg
  PROVE  Promised(Head(msgDispatch)) /\ Promise!Next
<1>1. PICK m : m = Head(msgDispatch)
  OBVIOUS
<1>2. /\ msgDispatch # <<>> /\ app # "gone" /\ contract' = Told(m)
  BY <1>1 DEF DispatchMsg
<1>3. /\ MsgsAhead \in Seq(Msg) /\ MsgsAhead # <<>> /\ Head(MsgsAhead) = m /\ m \in Msg
  BY <1>1, <1>2, MsgTaken DEF MsgsAhead
<1>4. PICK w : Trace(w, MsgsAhead, contract.asked) /\ w[0] = contract.view
  BY <1>2 DEF ViewInv
<1>5. Legal(contract.view, m, contract.asked)
  BY <1>3, <1>4, TraceTail
<1>6. ~contract.closed
  BY <1>3 DEF ExitInv
<1>7. /\ contract'.view = After(contract.view, m) /\ contract'.asked = contract.asked
      /\ m = Exit => contract'.closed = TRUE
      /\ m # Exit => m.msg # "EXIT_LOOP" /\ contract'.closed = contract.closed
  BY <1>2, <1>3, ToldView, ToldClosed
<1>8. CASE m = Exit
  <2>1. m.msg = "EXIT_LOOP"
    BY <1>8 DEF Exit
  <2>2. contract.asked = SessionIds /\ \A id \in SessionIds : contract.view[id] = "absent"
    BY <1>5, <2>1 DEF Legal
  <2>3. contract'.view = contract.view /\ contract'.closed = TRUE
    BY <1>7, <1>8, <2>1 DEF After
  <2>4. Promise!OnClose
    BY <1>6, <1>7, <2>2, <2>3 DEF Promise!OnClose
  <2>5. QED
    BY <1>1, <2>1, <2>4 DEF Promised, Promise!Next
<1>9. CASE m # Exit
  <2>1. PICK k \in SessionMsgs, id \in SessionIds : m.msg = k /\ m.id = id
    BY <1>3, <1>7, <1>9 DEF Msg
  <2>2. PICK x : x = contract.view[id]
    OBVIOUS
  <2>3. Allowed(x, k, id \in contract.asked)
    BY <1>5, <1>7, <1>9, <2>1, <2>2 DEF Legal
  <2>4. ASSUME NEW what, what = Becomes(x, k) PROVE Promise!Callback(id, what)
    <3>1. contract'.view = [contract.view EXCEPT ![id] = what]
      BY <1>7, <1>9, <2>1, <2>2, <2>4 DEF After
    <3>2. QED
      BY <1>6, <1>7, <1>9, <3>1 DEF Promise!Callback
  <2>5. CASE k = "CONNECT"
    <3>1. Promise!OnConnect(id)
      BY <2>2, <2>3, <2>4, <2>5 DEF Allowed, Becomes, Promise!OnConnect
    <3>2. QED
      BY <1>1, <2>1, <2>5, <3>1 DEF Promised, Promise!Next
  <2>6. CASE k \in {"CONNECT_FAIL", "CONNECT_TIMOUT"}
    <3>1. Promise!OnConnectFail(id)
      BY <2>2, <2>3, <2>4, <2>6 DEF Allowed, Becomes, Promise!OnConnectFail
    <3>2. QED
      BY <1>1, <2>1, <2>6, <3>1 DEF Promised, Promise!Next
  <2>7. CASE k = "RECV_DATA"
    <3>1. Promise!OnRecv(id)
      BY <2>2, <2>3, <2>4, <2>7 DEF Allowed, Becomes, Promise!OnRecv
    <3>2. QED
      BY <1>1, <2>1, <2>7, <3>1 DEF Promised, Promise!Next
  <2>8. CASE k = "DIS_CONNECT"
    <3>1. Promise!OnDisconnect(id)
      BY <2>2, <2>3, <2>4, <2>8 DEF Allowed, Becomes, Promise!OnDisconnect
    <3>2. QED
      BY <1>1, <2>1, <2>8, <3>1 DEF Promised, Promise!Next
  <2>9. CASE k = "REMOVE_SESSION"
    <3>1. Promise!OnRemove(id)
      BY <2>2, <2>3, <2>4, <2>9 DEF Allowed, Becomes, Promise!OnRemove
    <3>2. QED
      BY <1>1, <2>1, <2>9, <3>1 DEF Promised, Promise!Next
  <2>10. QED
    BY <2>5, <2>6, <2>7, <2>8, <2>9 DEF SessionMsgs
<1>10. QED
  BY <1>8, <1>9

(* Every other step is a request of the application, or not of the         *)
(* contract.                                                               *)
LEMMA OthersTellNothing ==
  ASSUME TypeOK, QueueShape, TypeOK', [Next]_vars, ~DispatchMsg
  PROVE  Promise!Next \/ UNCHANGED Promise!vars
<1>1. ASSUME UNCHANGED contract PROVE UNCHANGED Promise!vars
  BY <1>1 DEF Promise!vars
<1>2. ASSUME NEW id \in SessionIds, RemoveSession(id) PROVE Promise!Next
  <2>1. contract' = [contract EXCEPT !.asked = @ \cup {id}]
    BY <1>2 DEF RemoveSession
  <2>2. /\ contract'.asked = contract.asked \cup {id}
        /\ contract'.view = contract.view /\ contract'.closed = contract.closed
    BY <2>1 DEF TypeOK, Contract
  <2>3. Promise!Ask({id})
    BY <2>2 DEF Promise!Ask
  <2>4. QED
    BY <2>3 DEF Promise!Next
<1>3. ASSUME CloseClient \/ Destroy PROVE Promise!Next
  <2>1. contract' = [contract EXCEPT !.asked = SessionIds]
    BY <1>3 DEF CloseClient, Destroy, StopAndPush
  <2>2. /\ contract'.asked = contract.asked \cup SessionIds
        /\ contract'.view = contract.view /\ contract'.closed = contract.closed
    BY <2>1 DEF TypeOK, Contract
  <2>3. Promise!Ask(SessionIds)
    BY <2>2 DEF Promise!Ask
  <2>4. QED
    BY <2>3 DEF Promise!Next
<1>4. CASE LoopThread
  <2>1. UNCHANGED contract
    BY <1>4, LoopPushes DEF RunEnds, appVars
  <2>2. QED
    BY <1>1, <2>1
<1>5. CASE Application /\ ~(\E id \in SessionIds : RemoveSession(id)) /\ ~CloseClient /\ ~Destroy
  <2>1. UNCHANGED contract
    BY <1>5 DEF Application, Connect, Disconnect, Send, SendAndClose, Request,
       GetThreadMsg, JoinReturns, appVars
  <2>2. QED
    BY <1>1, <2>1
<1>6. CASE UNCHANGED vars
  BY <1>1, <1>6 DEF vars, appVars
<1>7. QED
  BY <1>2, <1>3, <1>4, <1>5, <1>6 DEF Next

(* The callbacks of the application are those of SessionContract, in its   *)
(* order: every one that is made is a step of it, and of the other steps   *)
(* only removeSession and closeClient change what it speaks of.            *)
THEOREM ContractCorrect == SafeSpec => ImplementsContract
<1> DEFINE Inv == QueueShape /\ RemovalInv /\ AskedInv /\ ViewInv /\ ExitInv
<1>1. Init => Inv /\ Promise!Init
  BY RemovalInit, ContractInit
<1>2. TypeOK /\ TypeOK' /\ SocketState /\ Inv /\ [Next]_vars => Inv'
  BY QueueShapeStep, RemovalStep, AskedStep, ViewStep, ExitStep
<1>3. TypeOK /\ Inv /\ [Next]_vars => [DispatchMsg => Promised(Head(msgDispatch))]_vars
  BY ViewDispatch
<1>4. TypeOK /\ TypeOK' /\ Inv /\ [Next]_vars => [Promise!Next]_(Promise!vars)
  BY ViewDispatch, OthersTellNothing
<1> HIDE DEF Inv
<1>5. QED
  BY <1>1, <1>2, <1>3, <1>4, TypeCorrect, SocketStateCorrect, PTL
  DEF SafeSpec, ImplementsContract, Promise!Spec

=============================================================================
