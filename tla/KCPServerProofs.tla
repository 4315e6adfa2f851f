-------------------------- MODULE KCPServerProofs --------------------------
(***************************************************************************)
(* The KCP server, for any number of accepted sockets and calls and any    *)
(* length of its queues: the types of its variables; ShutdownOrder, that   *)
(* the listening socket is the last to close; and DepartsOnce, that a      *)
(* session is freed once, behind its last message and after its socket.    *)
(* The last two need each other: a session is freed by an operation that   *)
(* only the end of its socket has caused, and a socket tells its session   *)
(* because that one is not freed yet.                                      *)
(***************************************************************************)
EXTENDS KCPServer, QueueLemmas

-----------------------------------------------------------------------------
(* What the functions of KCPSession make of a session.                     *)

LEMMA SessionTypes ==
  ASSUME NEW s \in Accepted
  PROVE  /\ SocketDisconnect(s, "CLOSE_WAIT") \in Accepted
         /\ ExecuteDisconnect(s, "CLOSE_WAIT") \in Accepted
         /\ \A b \in BOOLEAN : AfterSend(s, b, "CLOSE_WAIT") \subseteq Accepted
         /\ DisconnectAccepted(s) \in Accepted
         /\ [SocketClosed(s) EXCEPT !.state = "removed", !.isInvalid = TRUE,
                                     !.hasConv = FALSE] \in Accepted
         /\ \A x \in AcceptedStates : \A b \in BOOLEAN :
              [s EXCEPT !.state = x, !.hasConv = b] \in Accepted
<1> USE DEF Accepted, AcceptedStates, SocketDisconnect
<1>1. SocketDisconnect(s, "CLOSE_WAIT") \in Accepted
  OBVIOUS
<1>2. ExecuteDisconnect(s, "CLOSE_WAIT") \in Accepted
  BY DEF ExecuteDisconnect
<1>3. \A b \in BOOLEAN : AfterSend(s, b, "CLOSE_WAIT") \subseteq Accepted
  BY <1>2 DEF AfterSend
<1>4. DisconnectAccepted(s) \in Accepted
  BY <1>1 DEF DisconnectAccepted
<1>5. [SocketClosed(s) EXCEPT !.state = "removed", !.isInvalid = TRUE,
                              !.hasConv = FALSE] \in Accepted
  BY DEF SocketClosed
<1>6. \A x \in AcceptedStates : \A b \in BOOLEAN :
        [s EXCEPT !.state = x, !.hasConv = b] \in Accepted
  OBVIOUS
<1>7. QED
  BY <1>1, <1>2, <1>3, <1>4, <1>5, <1>6

LEMMA NewSessionType == NewSession \in Accepted
BY DEF NewSession, Accepted, AcceptedStates

LEMMA SessionMsgType ==
  ASSUME NEW m \in SessionMsgs, NEW id \in Convs
  PROVE  SessionMsg(m, id) \in Msg
BY DEF SessionMsg, Msg

LEMMA TargetType ==
  ASSUME TypeOK, NEW o \in SessionOps, Executes(o)
  PROVE  Target \in Convs
<1>1. Head(opDispatch) \in Op
  BY HeadTailProperties DEF TypeOK, Executes
<1>2. QED
  BY <1>1 DEF Executes, Target, Op, SessionOps

LEMMA PushOpType ==
  ASSUME TypeOK, NEW o \in Op, PushOp(o)
  PROVE  opQue' \in Seq(Op)
<1>1. opQue \in Seq(Op)
  BY DEF TypeOK
<1>2. QED
  BY <1>1, AppendProperties DEF PushOp

LEMMA PushMsgType ==
  ASSUME TypeOK, NEW m \in Msg, PushMsg(m)
  PROVE  msgQue' \in Seq(Msg)
<1>1. msgQue \in Seq(Msg)
  BY DEF TypeOK
<1>2. QED
  BY <1>1, AppendProperties DEF PushMsg

(* Every variable keeps its type.                                          *)

LEMMA TypeInit == Init => TypeOK
<1> SUFFICES ASSUME Init PROVE TypeOK
  OBVIOUS
<1> USE DEF Init
<1>1. contract \in Contract
  BY DEF Contract
<1>2. so \in [Convs -> Accepted]
  BY DEF Accepted, AcceptedStates
<1>3. calls \in 0 .. MaxCalls /\ convSeed \in 0 .. MaxConvs
  BY BoundsAssumption
<1>4. QED
  BY <1>1, <1>2, <1>3, EmptySeq DEF TypeOK, Stages

LEMMA TypeApplication ==
  ASSUME TypeOK, Application
  PROVE  TypeOK'
<1> USE DEF TypeOK, appVars, loopVars, connVars
<1>1. ASSUME NEW call, Calls(call) PROVE calls' \in 0 .. MaxCalls
  BY <1>1, BoundsAssumption DEF Calls
<1>2. ASSUME NEW id \in Convs, NEW call, NEW op \in SessionOps, Request(call, op, id)
      PROVE  TypeOK'
  <2>1. [op |-> op, id |-> id] \in Op
    BY DEF Op
  <2>2. opQue' \in Seq(Op)
    BY <1>2, <2>1, PushOpType DEF Request
  <2>3. QED
    BY <1>1, <1>2, <2>2 DEF Request, Calls
<1>3. ASSUME NEW id \in Convs, Send(id) \/ SendAndClose(id) \/ Disconnect(id)
      PROVE  TypeOK'
  BY <1>2, <1>3 DEF Send, SendAndClose, Disconnect, SessionOps
<1>4. CASE Start
  BY <1>1, <1>4 DEF Start, Calls, Stages
<1>5. ASSUME StopServer PROVE start' \in BOOLEAN /\ opQue' \in Seq(Op)
  <2>1. [op |-> "STOP_SERVER"] \in Op
    BY DEF Op
  <2>2. QED
    BY <1>5, <2>1, PushOpType DEF StopServer
<1>6. CASE Stop
  BY <1>1, <1>5, <1>6 DEF Stop, Calls
<1>7. CASE Destroy
  BY <1>1, <1>5, <1>7 DEF Destroy
<1>8. CASE JoinReturns
  BY <1>8, EmptySeq DEF JoinReturns
<1>9. CASE GetThreadMsg
  BY <1>9, EmptySeq DEF GetThreadMsg
<1>10. CASE DispatchMsg
  <2> DEFINE m == Head(msgDispatch)
  <2>1. m \in Msg /\ msgDispatch' \in Seq(Msg)
    BY <1>10, HeadTailProperties DEF DispatchMsg
  <2>2. m.msg # "EXIT_LOOP" => m.msg \in SessionMsgs /\ m.id \in Convs
    BY <2>1 DEF Msg
  <2>3. contract' \in Contract
    <3>1. contract' = Told(m)
      BY <1>10 DEF DispatchMsg
    <3> HIDE DEF m
    <3>2. QED
      BY <2>2, <3>1 DEF Told, Contract, SessionMsgs
  <2>4. opQue' \in Seq(Op)
    <3>1. m.msg = "DIS_CONNECT" => [op |-> "SEND_DIS_SESSION_MSG", id |-> m.id] \in Op
      BY <2>2 DEF Op, SessionOps
    <3>2. QED
      BY <1>10, <3>1, PushOpType DEF DispatchMsg
  <2>5. QED
    BY <1>10, <2>1, <2>3, <2>4 DEF DispatchMsg
<1>11. QED
  BY <1>3, <1>4, <1>6, <1>7, <1>8, <1>9, <1>10 DEF Application

LEMMA TypeExecuteOperation ==
  ASSUME TypeOK, ExecuteOperation
  PROVE  TypeOK'
<1> USE DEF appVars, SessionOps, Change
<1>s. so \in [Convs -> Accepted]
  BY DEF TypeOK
<1>e. ASSUME NEW o, Executes(o), so' \in [Convs -> Accepted], stage' \in Stages,
             allSession' \subseteq Convs, opQue' \in Seq(Op),
             server' \in {"none", "LISTEN", "STOP_LISTEN", "closing", "CLOSED"}
      PROVE  TypeOK'
  BY <1>e, HeadTailProperties DEF Executes, TypeOK
<1>1. CASE ExecSend
  <2>1. Target \in Convs
    BY <1>1, TargetType DEF ExecSend
  <2>2. so' \in [Convs -> Accepted]
    <3>1. HasKcp(Target) \in BOOLEAN
      BY DEF HasKcp
    <3>2. so[Target] \in Accepted
      BY <1>s, <2>1
    <3>3. AfterSend(so[Target], HasKcp(Target), "CLOSE_WAIT") \subseteq Accepted
      BY <3>1, <3>2, SessionTypes
    <3>4. CASE Target \notin allSession
      BY <1>1, <1>s, <3>4 DEF ExecSend
    <3>5. CASE Target \in allSession
      <4>1. PICK s \in AfterSend(so[Target], HasKcp(Target), "CLOSE_WAIT") : Change(Target, s)
        BY <1>1, <3>5 DEF ExecSend
      <4>2. s \in Accepted
        BY <3>3, <4>1
      <4>3. QED
        BY <1>s, <2>1, <4>1, <4>2
    <3>6. QED
      BY <3>4, <3>5
  <2>3. QED
    BY <1>1, <1>e, <2>2 DEF ExecSend, TypeOK
<1>2. CASE ExecSendAndClose
  <2>1. Target \in Convs /\ [op |-> "DIS_SESSION", id |-> Target] \in Op
    BY <1>2, TargetType DEF ExecSendAndClose, Op
  <2>2. so' \in [Convs -> Accepted]
    BY <1>2, <1>s, <2>1, SessionTypes DEF ExecSendAndClose
  <2>3. opQue' \in Seq(Op)
    BY <1>2, <2>1, PushOpType DEF ExecSendAndClose, TypeOK
  <2>4. QED
    BY <1>2, <1>e, <2>2, <2>3 DEF ExecSendAndClose, TypeOK
<1>3. CASE ExecDisconnect
  <2>1. Target \in Convs
    BY <1>3, TargetType DEF ExecDisconnect
  <2>2. so' \in [Convs -> Accepted]
    BY <1>3, <1>s, <2>1, SessionTypes DEF ExecDisconnect
  <2>3. QED
    BY <1>3, <1>e, <2>2 DEF ExecDisconnect, TypeOK
<1>4. CASE ExecDelete
  BY <1>4, <1>e DEF ExecDelete, TypeOK
<1>5. CASE ExecStopServer
  <2>1. \A v \in Convs : DisconnectValid[v] \in Accepted
    BY <1>s, SessionTypes DEF DisconnectValid
  <2>2. so' \in [Convs -> Accepted]
    BY <1>5, <2>1, SessionTypes DEF ExecStopServer
  <2>3. QED
    BY <1>5, <1>e, <2>2 DEF ExecStopServer, TypeOK, Stages
<1>6. QED
  BY <1>1, <1>2, <1>3, <1>4, <1>5 DEF ExecuteOperation

LEMMA TypeLoop ==
  ASSUME TypeOK, OnIdle \/ OnIdleStage \/ RunReturns \/ RunEnds
  PROVE  TypeOK'
<1> USE DEF TypeOK, appVars, loopVars, connVars, Stages
<1>1. CASE OnIdle
  BY <1>1, EmptySeq DEF OnIdle
<1>2. CASE OnIdleStage
  <2>1. so' \in [Convs -> Accepted]
    BY <1>2, SessionTypes DEF OnIdleStage, ClearSessions, StopLoop, NothingToDo, DisconnectValid
  <2>2. stage' \in Stages /\ timer' \in {"new", "ticking", "stopped"}
        /\ loop' \in {"none", "running", "stopped", "ended"}
        /\ server' \in {"none", "LISTEN", "STOP_LISTEN", "closing", "CLOSED"}
    BY <1>2 DEF OnIdleStage, ClearSessions, StopLoop, NothingToDo
  <2>3. QED
    BY <1>2, <2>1, <2>2 DEF OnIdleStage
<1>3. CASE RunReturns
  BY <1>3 DEF RunReturns
<1>4. CASE RunEnds
  <2>1. [msg |-> "EXIT_LOOP"] \in Msg
    BY DEF Msg
  <2>2. PushMsg([msg |-> "EXIT_LOOP"])
    BY <1>4 DEF RunEnds
  <2>3. msgQue' \in Seq(Msg)
    BY <2>1, <2>2, PushMsgType
  <2>4. UNCHANGED <<appVars, stage, timer, loop, server, connVars, opQue, opDispatch,
                    msgDispatch, inIdle>>
    BY <1>4 DEF RunEnds
  <2>5. exiting' \in BOOLEAN
    BY <1>4 DEF RunEnds
  <2>6. QED
    BY <2>3, <2>4, <2>5
<1>5. QED
  BY <1>1, <1>2, <1>3, <1>4

LEMMA TypeCallbacks ==
  ASSUME TypeOK,
         \/ OnSyn \/ StopListenTick \/ OnServerSocketClose
         \/ \E v \in Convs : OnAck(v) \/ OnRecv(v) \/ PeerLeaves(v) \/ OnLastDatagram(v)
                             \/ AcceptedTimeout(v)
  PROVE  TypeOK'
<1> USE DEF Callback, Reads, Change, appVars, connVars
<1>m. ASSUME NEW k \in SessionMsgs, NEW v \in Convs, PushMsg(SessionMsg(k, v))
      PROVE  msgQue' \in Seq(Msg)
  BY <1>m, SessionMsgType, PushMsgType
<1>s. so \in [Convs -> Accepted]
  BY DEF TypeOK
<1>r. ASSUME NEW v \in Convs, Remove(v) PROVE so' \in [Convs -> Accepted] /\ msgQue' \in Seq(Msg)
  <2>1. so' \in [Convs -> Accepted]
    BY <1>r, <1>s, SessionTypes DEF Remove, AcceptedStates
  <2>2. msgQue' \in Seq(Msg)
    BY <1>r, <1>m DEF Remove, SessionMsgs, TypeOK
  <2>3. QED
    BY <2>1, <2>2
<1>1. CASE OnSyn
  <2>1. convSeed \in Convs /\ convSeed' \in 0 .. MaxConvs
    BY <1>1, BoundsAssumption DEF OnSyn, TypeOK, Convs
  <2>2. so' \in [Convs -> Accepted]
    BY <1>1, <1>s, <2>1, SessionTypes DEF OnSyn, AcceptedStates
  <2>3. QED
    BY <1>1, <2>1, <2>2 DEF OnSyn, TypeOK
<1>2. CASE StopListenTick
  <2>1. so' \in [Convs -> Accepted]
    BY <1>2, <1>s, SessionTypes DEF StopListenTick
  <2>2. QED
    BY <1>2, <2>1 DEF StopListenTick, TypeOK
<1>3. CASE OnServerSocketClose
  BY <1>3 DEF OnServerSocketClose, TypeOK, Stages
<1>4. ASSUME NEW v \in Convs, OnAck(v) PROVE TypeOK'
  <2>1. so' \in [Convs -> Accepted]
    BY <1>4, <1>s, NewSessionType DEF OnAck
  <2>2. msgQue' \in Seq(Msg)
    BY <1>4, <1>m DEF OnAck, SessionMsgs
  <2>3. QED
    BY <1>4, <2>1, <2>2 DEF OnAck, TypeOK
<1>5. ASSUME NEW v \in Convs, OnRecv(v) PROVE TypeOK'
  <2>1. msgQue' \in Seq(Msg)
    BY <1>5, <1>m DEF OnRecv, SessionMsgs, TypeOK
  <2>2. QED
    BY <1>5, <2>1 DEF OnRecv, TypeOK
<1>6. ASSUME NEW v \in Convs, PeerLeaves(v) PROVE TypeOK'
  <2>1. so' \in [Convs -> Accepted]
    BY <1>6, <1>s, SessionTypes DEF PeerLeaves
  <2>2. QED
    BY <1>6, <2>1 DEF PeerLeaves, TypeOK
<1>7. ASSUME NEW v \in Convs, OnLastDatagram(v) \/ AcceptedTimeout(v) PROVE TypeOK'
  <2>1. so' \in [Convs -> Accepted] /\ msgQue' \in Seq(Msg)
    BY <1>7, <1>r DEF OnLastDatagram, AcceptedTimeout
  <2>2. QED
    BY <1>7, <2>1 DEF OnLastDatagram, AcceptedTimeout, TypeOK
<1>8. QED
  BY <1>1, <1>2, <1>3, <1>4, <1>5, <1>6, <1>7

LEMMA TypeStep == TypeOK /\ [Next]_vars => TypeOK'
<1> SUFFICES ASSUME TypeOK, [Next]_vars PROVE TypeOK'
  OBVIOUS
<1>1. CASE UNCHANGED vars
  BY <1>1 DEF vars, appVars, loopVars, connVars, TypeOK
<1>2. QED
  BY <1>1, TypeApplication, TypeExecuteOperation, TypeLoop, TypeCallbacks
  DEF Next, LoopThread

(* Every variable of the server stays in its domain: in particular every   *)
(* operation and message names a socket that was accepted.                 *)
THEOREM TypeCorrect == SafeSpec => []TypeOK
BY TypeInit, TypeStep, PTL DEF SafeSpec

-----------------------------------------------------------------------------
(* DepartsOnce.  The end of a session is in one place at a time: nowhere,  *)
(* then as DIS_CONNECT in the queue of messages, behind every other one of *)
(* the session, then as an operation, and then the session is freed.       *)

Gone(id)   == SessionMsg("DIS_CONNECT", id)
Del(id)    == [op |-> "SEND_DIS_SESSION_MSG", id |-> id]
MsgsOf(id) == [msg : SessionMsgs, id : {id}]
KnownMsgs  == {m \in Msg : m.msg # "EXIT_LOOP" => m.id \in allSession}

Silent(id)   == \A i \in DOMAIN MsgsAhead : MsgsAhead[i] \notin MsgsOf(id)
Leaving(id)  == Has(MsgsAhead, Gone(id)) \/ Has(OpsAhead, Del(id))
Departed(id) == id \in allSession /\ so[id].state = "removed"

DepartInv ==
  /\ Within(MsgsAhead, KnownMsgs)
  /\ \A id \in Convs :
       /\ Single(MsgsAhead, Gone(id)) /\ Last(MsgsAhead, Gone(id), MsgsOf(id))
       /\ Single(OpsAhead, Del(id))
       /\ Has(OpsAhead, Del(id)) => Silent(id)
       /\ app # "gone" => (Departed(id) <=> Leaving(id))

(* Where the queues are empty: the dispatch queues outside of the loops    *)
(* that empty them, and all of them when the server object is gone.        *)
QueueShape ==
  /\ opDispatch # <<>> => loop = "running" /\ inIdle
  /\ app # "up" => msgDispatch = <<>>
  /\ app = "gone" => /\ loop = "ended" /\ ~exiting
                     /\ opQue = <<>> /\ msgQue = <<>>

LEMMA QueueShapeInit == Init => QueueShape
BY DEF Init, QueueShape

LEMMA QueueShapeStep ==
  ASSUME TypeOK, QueueShape, [Next]_vars
  PROVE  QueueShape'
<1> USE DEF QueueShape
<1>1. CASE Start \/ Stop \/ Destroy \/ JoinReturns
  BY <1>1 DEF Start, Calls, Stop, Destroy, JoinReturns, loopVars, connVars
<1>2. ASSUME NEW id \in Convs, Send(id) \/ SendAndClose(id) \/ Disconnect(id)
      PROVE  QueueShape'
  BY <1>2 DEF Send, SendAndClose, Disconnect, Request, Calls, loopVars, connVars
<1>3. CASE GetThreadMsg \/ DispatchMsg
  BY <1>3 DEF GetThreadMsg, DispatchMsg, appVars, loopVars, connVars
<1>4. ASSUME NEW o, Executes(o) PROVE QueueShape'
  BY <1>4 DEF Executes, appVars
<1>5. CASE ExecuteOperation
  BY <1>4, <1>5 DEF ExecuteOperation, ExecSend, ExecSendAndClose, ExecDisconnect, ExecDelete,
     ExecStopServer
<1>6. CASE OnIdle \/ RunReturns \/ RunEnds
  BY <1>6 DEF OnIdle, RunReturns, RunEnds, appVars, loopVars, connVars
<1>7. CASE OnIdleStage
  BY <1>7 DEF OnIdleStage, appVars
<1>8. CASE OnSyn \/ StopListenTick \/ OnServerSocketClose
  BY <1>8 DEF OnSyn, StopListenTick, OnServerSocketClose, Reads, Callback, appVars
<1>9. ASSUME NEW id \in Convs, \/ OnAck(id) \/ OnRecv(id) \/ PeerLeaves(id)
                               \/ OnLastDatagram(id) \/ AcceptedTimeout(id)
      PROVE  QueueShape'
  BY <1>9 DEF OnAck, OnRecv, PeerLeaves, OnLastDatagram, AcceptedTimeout, Reads, Callback,
     appVars
<1>10. CASE UNCHANGED vars
  BY <1>10 DEF vars, appVars, loopVars, connVars
<1>11. QED
  BY <1>1, <1>2, <1>3, <1>5, <1>6, <1>7, <1>8, <1>9, <1>10
  DEF Next, Application, LoopThread

-----------------------------------------------------------------------------
(* What a push and a pop do to what is still to be worked off.             *)

LEMMA AheadType ==
  ASSUME TypeOK
  PROVE  MsgsAhead \in Seq(Msg) /\ OpsAhead \in Seq(Op)
BY ConcatProperties DEF TypeOK, MsgsAhead, OpsAhead

LEMMA OpsPushed ==
  ASSUME TypeOK, NEW o \in Op, PushOp(o), opDispatch' = opDispatch
  PROVE  OpsAhead' = Append(OpsAhead, o)
<1>1. opQue \in Seq(Op) /\ opDispatch \in Seq(Op)
  BY DEF TypeOK
<1>2. QED
  BY <1>1, PushBehind DEF OpsAhead, PushOp

LEMMA OpsPopped ==
  ASSUME TypeOK, NEW o, Executes(o), opQue' = opQue
  PROVE  /\ OpsAhead # <<>> /\ Head(OpsAhead) = Head(opDispatch)
         /\ OpsAhead' = Tail(OpsAhead)
<1>1. opQue \in Seq(Op) /\ opDispatch \in Seq(Op) /\ opDispatch # <<>>
  BY DEF TypeOK, Executes
<1>2. opDispatch' = Tail(opDispatch) /\ opQue' = opQue
  BY DEF Executes
<1>3. QED
  BY <1>1, <1>2, PopInFront DEF OpsAhead

LEMMA MsgsPushed ==
  ASSUME TypeOK, NEW m \in Msg, PushMsg(m), msgDispatch' = msgDispatch
  PROVE  MsgsAhead' = Append(MsgsAhead, m)
<1>1. msgQue \in Seq(Msg) /\ msgDispatch \in Seq(Msg)
  BY DEF TypeOK
<1>2. QED
  BY <1>1, PushBehind DEF MsgsAhead, PushMsg

LEMMA MsgsPopped ==
  ASSUME TypeOK, msgDispatch # <<>>, msgDispatch' = Tail(msgDispatch), msgQue' = msgQue
  PROVE  /\ MsgsAhead # <<>> /\ Head(MsgsAhead) = Head(msgDispatch)
         /\ MsgsAhead' = Tail(MsgsAhead)
<1>1. msgQue \in Seq(Msg) /\ msgDispatch \in Seq(Msg)
  BY DEF TypeOK
<1>2. QED
  BY <1>1, PopInFront DEF MsgsAhead

(* The operations may change, as long as no deletion comes or goes.        *)
SameDels ==
  \A id \in Convs : /\ Has(OpsAhead', Del(id)) <=> Has(OpsAhead, Del(id))
                    /\ Single(OpsAhead, Del(id)) => Single(OpsAhead', Del(id))

SameSessions ==
  /\ allSession' = allSession
  /\ \A id \in Convs : so'[id].state = "removed" <=> so[id].state = "removed"

(* Steps that leave the messages and the deletions as they are.            *)
LEMMA DepartKept ==
  ASSUME DepartInv, SameDels, SameSessions, app' # "gone" => app # "gone",
         MsgsAhead' = MsgsAhead
  PROVE  DepartInv'
BY DEF DepartInv, SameDels, SameSessions, Departed, Leaving, Silent, KnownMsgs

LEMMA PushKeepsDels ==
  ASSUME TypeOK, NEW o \in Op, o.op # "SEND_DIS_SESSION_MSG", OpsAhead' = Append(OpsAhead, o)
  PROVE  SameDels
<1>1. \A id \in Convs : o # Del(id)
  BY DEF Del
<1>2. QED
  BY <1>1, AheadType, HasAppend, SingleAppend DEF SameDels

LEMMA PopKeepsDels ==
  ASSUME TypeOK, NEW o, o # "SEND_DIS_SESSION_MSG", Executes(o), opQue' = opQue
  PROVE  SameDels
<1>1. \A id \in Convs : Head(OpsAhead) # Del(id)
  BY OpsPopped DEF Executes, Del
<1>2. OpsAhead \in Seq(Op) /\ OpsAhead # <<>> /\ OpsAhead' = Tail(OpsAhead)
  BY AheadType, OpsPopped
<1>3. QED
  BY <1>1, <1>2, HasTail, SingleTail DEF SameDels

(* executeSendAndClose pops one operation and pushes another.              *)
LEMMA PopPushKeepsDels ==
  ASSUME TypeOK, NEW o, o # "SEND_DIS_SESSION_MSG", Executes(o),
         NEW p \in Op, p.op # "SEND_DIS_SESSION_MSG", PushOp(p)
  PROVE  SameDels
<1>1. /\ opQue \in Seq(Op) /\ opDispatch \in Seq(Op) /\ opDispatch # <<>>
      /\ Head(opDispatch).op = o /\ opDispatch' = Tail(opDispatch) /\ opQue' = Append(opQue, p)
  BY DEF TypeOK, Executes, PushOp
<1>2. /\ OpsAhead # <<>> /\ Head(OpsAhead) = Head(opDispatch)
      /\ Tail(OpsAhead) = Tail(opDispatch) \o opQue
  BY <1>1, PopInFront DEF OpsAhead
<1>3. Tail(opDispatch) \in Seq(Op) /\ Tail(OpsAhead) \in Seq(Op)
  BY <1>1, <1>2, AheadType, HeadTailProperties
<1>4. OpsAhead' = Append(Tail(OpsAhead), p)
  <2>1. OpsAhead' = Tail(opDispatch) \o Append(opQue, p)
    BY <1>1 DEF OpsAhead
  <2>2. Tail(opDispatch) \o Append(opQue, p) = Append(Tail(opDispatch) \o opQue, p)
    BY <1>1, <1>3, PushBehind
  <2>3. QED
    BY <1>2, <2>1, <2>2
<1>5. ASSUME NEW id \in Convs
      PROVE  /\ Has(OpsAhead', Del(id)) <=> Has(OpsAhead, Del(id))
             /\ Single(OpsAhead, Del(id)) => Single(OpsAhead', Del(id))
  <2>1. Head(OpsAhead) # Del(id) /\ p # Del(id)
    BY <1>1, <1>2 DEF Del
  <2>2. /\ Has(Tail(OpsAhead), Del(id)) <=> Has(OpsAhead, Del(id))
        /\ Single(OpsAhead, Del(id)) => Single(Tail(OpsAhead), Del(id))
    BY <1>2, <2>1, AheadType, HasTail, SingleTail
  <2>3. QED
    BY <1>3, <1>4, <2>1, <2>2, HasAppend, SingleAppend
<1>6. QED
  BY <1>5 DEF SameDels

LEMMA SameOps == ASSUME OpsAhead' = OpsAhead PROVE SameDels
BY DEF SameDels
-----------------------------------------------------------------------------
(* A message of a session is pushed only while the session is not leaving. *)
LEMMA DepartPushed ==
  ASSUME TypeOK, DepartInv, SameDels, NEW m \in Msg, MsgsAhead' = Append(MsgsAhead, m),
         NEW id \in Convs, m \in MsgsOf(id) => ~Leaving(id)
  PROVE  /\ Has(MsgsAhead', Gone(id)) <=> Has(MsgsAhead, Gone(id)) \/ m = Gone(id)
         /\ Single(MsgsAhead', Gone(id)) /\ Last(MsgsAhead', Gone(id), MsgsOf(id))
         /\ Has(OpsAhead', Del(id)) => Silent(id)'
         /\ Leaving(id)' <=> Leaving(id) \/ m = Gone(id)
<1> DEFINE M == MsgsAhead
<1>1. M \in Seq(Msg) /\ M' = Append(M, m)
  BY AheadType
<1>2. /\ Single(M, Gone(id)) /\ Last(M, Gone(id), MsgsOf(id))
      /\ Has(OpsAhead, Del(id)) => Silent(id)
  BY DEF DepartInv
<1>3. Gone(id) \in MsgsOf(id)
  BY DEF Gone, MsgsOf, SessionMsg, SessionMsgs
<1>4. m = Gone(id) => ~Has(M, Gone(id))
  BY <1>3 DEF Leaving
<1>5. Has(M', Gone(id)) <=> Has(M, Gone(id)) \/ m = Gone(id)
  BY <1>1, HasAppend
<1>6. Single(M', Gone(id))
  BY <1>1, <1>2, <1>4, SingleAppend
<1>7. Last(M', Gone(id), MsgsOf(id))
  BY <1>1, <1>2, LastAppend DEF Leaving
<1>8. ASSUME Has(OpsAhead, Del(id)) PROVE Silent(id)'
  <2>1. m \notin MsgsOf(id) /\ Silent(id)
    BY <1>2, <1>8 DEF Leaving
  <2>2. \A i \in DOMAIN M' : i \in DOMAIN M \/ i = Len(M) + 1
    BY <1>1, AtAppend
  <2>3. \A i \in DOMAIN M' : M'[i] \notin MsgsOf(id)
    BY <1>1, <2>1, <2>2, AtAppend DEF Silent
  <2>4. QED
    BY <2>3 DEF Silent
<1>9. QED
  BY <1>5, <1>6, <1>7, <1>8 DEF SameDels, Leaving

(* Every session is as it was, but for the one that is new, or closed now. *)
LEMMA DepartPush ==
  ASSUME TypeOK, DepartInv, SameDels, app' # "gone" => app # "gone",
         NEW m \in Msg, MsgsAhead' = Append(MsgsAhead, m), m \in KnownMsgs',
         allSession \subseteq allSession',
         \A id \in Convs : m \in MsgsOf(id) => ~Leaving(id),
         \A id \in Convs : app # "gone" =>
           (Departed(id)' <=> Departed(id) \/ m = Gone(id))
  PROVE  DepartInv'
<1>1. Within(MsgsAhead', KnownMsgs')
  <2>1. Within(MsgsAhead, KnownMsgs')
    BY DEF DepartInv, Within, KnownMsgs
  <2>2. QED
    BY <2>1, AheadType, WithinAppend
<1>2. ASSUME NEW id \in Convs
      PROVE  /\ Single(MsgsAhead', Gone(id)) /\ Last(MsgsAhead', Gone(id), MsgsOf(id))
             /\ Has(OpsAhead', Del(id)) => Silent(id)'
             /\ Leaving(id)' <=> Leaving(id) \/ m = Gone(id)
  BY DepartPushed
<1>3. \A id \in Convs : Single(OpsAhead', Del(id))
  BY DEF DepartInv, SameDels
<1>4. \A id \in Convs : app' # "gone" => (Departed(id)' <=> Leaving(id)')
  BY <1>2 DEF DepartInv
<1>5. QED
  BY <1>1, <1>2, <1>3, <1>4 DEF DepartInv

(* A message is taken: of the messages nothing but the end of its session  *)
(* is missed.                                                              *)
LEMMA DepartPopped ==
  ASSUME TypeOK, DepartInv, msgDispatch # <<>>, msgDispatch' = Tail(msgDispatch),
         msgQue' = msgQue, NEW id \in Convs
  PROVE  LET m == Head(msgDispatch) IN
         /\ Has(MsgsAhead, Gone(id)) <=> m = Gone(id) \/ Has(MsgsAhead', Gone(id))
         /\ Single(MsgsAhead', Gone(id)) /\ Last(MsgsAhead', Gone(id), MsgsOf(id))
         /\ Silent(id) => Silent(id)'
         /\ m = Gone(id) => ~Has(MsgsAhead', Gone(id)) /\ Silent(id)' /\ ~Has(OpsAhead, Del(id))
<1> DEFINE M == MsgsAhead
           m == Head(msgDispatch)
<1>1. M \in Seq(Msg) /\ M # <<>> /\ Head(M) = m /\ M' = Tail(M)
  BY AheadType, MsgsPopped
<1>2. /\ Single(M, Gone(id)) /\ Last(M, Gone(id), MsgsOf(id))
      /\ Has(OpsAhead, Del(id)) => Silent(id)
  BY DEF DepartInv
<1>3. Has(M, Gone(id)) <=> m = Gone(id) \/ Has(M', Gone(id))
  BY <1>1, HasTail
<1>4. Single(M', Gone(id)) /\ (m = Gone(id) => ~Has(M', Gone(id)))
  BY <1>1, <1>2, SingleTail
<1>5. /\ Last(M', Gone(id), MsgsOf(id))
      /\ m = Gone(id) => \A i \in DOMAIN M' : M'[i] \notin MsgsOf(id)
  BY <1>1, <1>2, LastTail
<1>6. Silent(id) => Silent(id)'
  BY <1>1, AtTail DEF Silent
<1>7. m = Gone(id) => ~Has(OpsAhead, Del(id))
  <2>1. Gone(id) \in MsgsOf(id)
    BY DEF Gone, MsgsOf, SessionMsg, SessionMsgs
  <2>2. m = Gone(id) => ~Silent(id)
    BY <1>1, <2>1, AtTail DEF Silent
  <2>3. QED
    BY <1>2, <2>2
<1>8. QED
  BY <1>3, <1>4, <1>5, <1>6, <1>7 DEF Silent

LEMMA DepartDispatchMsg ==
  ASSUME TypeOK, QueueShape, DepartInv, DispatchMsg
  PROVE  DepartInv'
<1> DEFINE m == Head(msgDispatch)
<1>1. /\ msgDispatch # <<>> /\ msgDispatch' = Tail(msgDispatch) /\ UNCHANGED <<msgQue, app>>
      /\ UNCHANGED <<allSession, so, opDispatch>> /\ app = "up"
  BY DEF DispatchMsg, connVars
<1>2. m \in Msg /\ msgDispatch \in Seq(Msg)
  BY <1>1, HeadTailProperties DEF TypeOK
<1>3. Within(MsgsAhead', KnownMsgs')
  <2>1. Within(Tail(MsgsAhead), KnownMsgs)
    BY <1>1, AheadType, MsgsPopped, WithinTail DEF DepartInv
  <2>2. KnownMsgs' = KnownMsgs
    BY <1>1 DEF KnownMsgs
  <2>3. QED
    BY <1>1, <2>1, <2>2, MsgsPopped
<1>4. CASE m.msg = "DIS_CONNECT"
  <2>1. PICK d \in Convs : m = Gone(d)
    BY <1>2, <1>4 DEF Msg, Gone, SessionMsg
  <2>2. Del(d) \in Op
    BY <2>1 DEF Del, Op, SessionOps
  <2>3. PushOp(Del(d))
    BY <1>4, <2>1 DEF DispatchMsg, Del, Gone, SessionMsg
  <2>4. OpsAhead' = Append(OpsAhead, Del(d))
    BY <1>1, <2>2, <2>3, OpsPushed
  <2>5. ~Has(OpsAhead, Del(d)) /\ Silent(d)' /\ ~Has(MsgsAhead', Gone(d)) /\ Has(MsgsAhead, Gone(d))
    BY <1>1, <2>1, DepartPopped
  <2>6. ASSUME NEW id \in Convs
        PROVE  /\ Has(OpsAhead', Del(id)) <=> Has(OpsAhead, Del(id)) \/ id = d
               /\ Single(OpsAhead', Del(id))
    <3>1. Del(d) = Del(id) <=> id = d
      BY DEF Del
    <3>2. OpsAhead \in Seq(Op) /\ Single(OpsAhead, Del(id))
      BY AheadType DEF DepartInv
    <3>3. QED
      BY <2>2, <2>4, <2>5, <3>1, <3>2, HasAppend, SingleAppend
  <2>7. ASSUME NEW id \in Convs, id # d
        PROVE  /\ Has(MsgsAhead', Gone(id)) <=> Has(MsgsAhead, Gone(id))
               /\ Silent(id) => Silent(id)'
    <3>1. m # Gone(id)
      BY <2>1, <2>7 DEF Gone, SessionMsg
    <3>2. QED
      BY <1>1, <3>1, DepartPopped
  <2>8. ASSUME NEW id \in Convs
        PROVE  /\ Has(OpsAhead', Del(id)) => Silent(id)'
               /\ Departed(id)' <=> Leaving(id)'
    <3>1. /\ Has(OpsAhead, Del(id)) => Silent(id)
          /\ Departed(id) <=> Leaving(id)
      BY <1>1 DEF DepartInv
    <3>2. Departed(id)' <=> Departed(id)
      BY <1>1 DEF Departed
    <3>3. CASE id = d
      <4>1. Leaving(id) /\ Leaving(id)' /\ Silent(id)'
        BY <2>5, <2>6, <3>3 DEF Leaving
      <4>2. QED
        BY <3>1, <3>2, <4>1
    <3>4. CASE id # d
      BY <2>6, <2>7, <3>1, <3>2, <3>4 DEF Leaving
    <3>5. QED
      BY <3>3, <3>4
  <2>9. \A id \in Convs : Single(MsgsAhead', Gone(id)) /\ Last(MsgsAhead', Gone(id), MsgsOf(id))
    BY <1>1, DepartPopped
  <2>10. QED
    BY <1>3, <2>6, <2>8, <2>9 DEF DepartInv
<1>5. CASE m.msg # "DIS_CONNECT"
  <2>1. OpsAhead' = OpsAhead
    BY <1>1, <1>5 DEF DispatchMsg, OpsAhead
  <2>2. ASSUME NEW id \in Convs
        PROVE  /\ Single(MsgsAhead', Gone(id)) /\ Last(MsgsAhead', Gone(id), MsgsOf(id))
               /\ Silent(id) => Silent(id)'
               /\ Has(MsgsAhead', Gone(id)) <=> Has(MsgsAhead, Gone(id))
    <3>1. m # Gone(id)
      BY <1>5 DEF Gone, SessionMsg
    <3>2. QED
      BY <1>1, <3>1, DepartPopped
  <2>3. \A id \in Convs : Departed(id)' <=> Departed(id)
    BY <1>1 DEF Departed
  <2>4. \A id \in Convs : Leaving(id)' <=> Leaving(id)
    BY <2>1, <2>2 DEF Leaving
  <2>5. QED
    BY <1>1, <1>3, <2>1, <2>2, <2>3, <2>4 DEF DepartInv
<1>6. QED
  BY <1>4, <1>5
(* The session is freed: no message speaks of it any more.                 *)
LEMMA DepartDelete ==
  ASSUME TypeOK, QueueShape, DepartInv, ExecDelete
  PROVE  DepartInv'
<1> DEFINE d == Target
<1>1. /\ Head(opDispatch).op = "SEND_DIS_SESSION_MSG" /\ Executes("SEND_DIS_SESSION_MSG")
      /\ UNCHANGED <<app, so, opQue, msgQue, msgDispatch>> /\ allSession' = allSession \ {d}
  BY DEF ExecDelete, Executes, appVars
<1>2. d \in Convs
  BY <1>1, TargetType DEF SessionOps
<1>3. Head(opDispatch) = Del(d)
  <2>1. Head(opDispatch) \in Op
    BY <1>1, HeadTailProperties DEF TypeOK, Executes
  <2>2. QED
    BY <1>1, <2>1 DEF Op, Del, Target
<1> HIDE DEF d
<1>4. /\ OpsAhead \in Seq(Op) /\ OpsAhead # <<>>
      /\ Head(OpsAhead) = Del(d) /\ OpsAhead' = Tail(OpsAhead)
  BY <1>1, <1>3, AheadType, OpsPopped
<1>5. MsgsAhead' = MsgsAhead
  BY <1>1 DEF MsgsAhead
<1>6. ASSUME NEW id \in Convs
      PROVE  /\ Single(OpsAhead', Del(id))
             /\ Has(OpsAhead', Del(id)) <=> Has(OpsAhead, Del(id)) /\ id # d
  <2>1. Single(OpsAhead, Del(id))
    BY DEF DepartInv
  <2>2. Del(d) = Del(id) <=> id = d
    BY DEF Del
  <2>3. QED
    BY <1>4, <2>1, <2>2, HasTail, SingleTail
<1>7. Has(OpsAhead, Del(d))
  BY <1>4, HasTail
<1>8. Silent(d)
  BY <1>2, <1>7 DEF DepartInv
<1>9. ~Has(MsgsAhead, Gone(d))
  BY <1>8 DEF Has, Silent, Gone, MsgsOf, SessionMsg, SessionMsgs
<1>10. Within(MsgsAhead', KnownMsgs')
  <2>1. ASSUME NEW i \in DOMAIN MsgsAhead PROVE MsgsAhead[i] \in KnownMsgs'
    <3>1. MsgsAhead[i] \in KnownMsgs /\ MsgsAhead[i] \notin MsgsOf(d)
      BY <1>8 DEF DepartInv, Within, Silent
    <3>2. MsgsAhead[i].msg # "EXIT_LOOP" => MsgsAhead[i].id # d
      BY <3>1 DEF KnownMsgs, Msg, MsgsOf
    <3>3. QED
      BY <1>1, <3>1, <3>2 DEF KnownMsgs
  <2>2. QED
    BY <1>5, <2>1 DEF Within
<1>11. ASSUME NEW id \in Convs, app # "gone"
       PROVE  Departed(id)' <=> Leaving(id)'
  <2>1. Departed(id) <=> Leaving(id)
    BY <1>11 DEF DepartInv
  <2>2. Departed(id)' <=> Departed(id) /\ id # d
    BY <1>1 DEF Departed
  <2>3. Leaving(id)' <=> Has(MsgsAhead, Gone(id)) \/ (Has(OpsAhead, Del(id)) /\ id # d)
    BY <1>5, <1>6 DEF Leaving
  <2>4. QED
    BY <1>9, <2>1, <2>2, <2>3 DEF Leaving
<1>12. \A id \in Convs :
         /\ Single(MsgsAhead', Gone(id)) /\ Last(MsgsAhead', Gone(id), MsgsOf(id))
         /\ Has(OpsAhead', Del(id)) => Silent(id)'
  BY <1>5, <1>6 DEF DepartInv, Silent
<1>13. QED
  BY <1>1, <1>6, <1>10, <1>11, <1>12 DEF DepartInv

LEMMA DepartJoinReturns ==
  ASSUME TypeOK, QueueShape, DepartInv, JoinReturns
  PROVE  DepartInv'
<1>1. /\ app' = "gone" /\ msgQue' = <<>> /\ opQue' = <<>>
      /\ msgDispatch' = <<>> /\ opDispatch' = <<>>
  BY DEF JoinReturns, QueueShape
<1>2. MsgsAhead' = <<>> /\ OpsAhead' = <<>>
  BY <1>1, NothingAhead, EmptySeq DEF MsgsAhead, OpsAhead
<1>3. DOMAIN MsgsAhead' = {} /\ DOMAIN OpsAhead' = {}
  BY <1>2, EmptySeq
<1>4. QED
  BY <1>1, <1>3 DEF DepartInv, Within, Single, Last, Has

LEMMA DepartApplication ==
  ASSUME TypeOK, QueueShape, DepartInv, Application
  PROVE  DepartInv'
<1>k. ASSUME SameDels, UNCHANGED <<allSession, so, msgQue, msgDispatch>>, app # "gone"
      PROVE  DepartInv'
  BY <1>k, DepartKept DEF SameSessions, MsgsAhead
<1>p. ASSUME NEW o \in Op, PushOp(o), o.op # "SEND_DIS_SESSION_MSG", opDispatch' = opDispatch
      PROVE  SameDels
  BY <1>p, OpsPushed, PushKeepsDels
<1>u. ASSUME UNCHANGED <<opQue, opDispatch>> PROVE SameDels
  BY <1>u, SameOps DEF OpsAhead
<1>s. ASSUME StopServer, opDispatch' = opDispatch PROVE SameDels
  <2>1. CASE start
    <3>1. [op |-> "STOP_SERVER"] \in Op
      BY DEF Op
    <3>2. PushOp([op |-> "STOP_SERVER"])
      BY <1>s, <2>1 DEF StopServer
    <3>3. QED
      BY <1>p, <1>s, <3>1, <3>2
  <2>2. CASE ~start
    BY <1>s, <1>u, <2>2 DEF StopServer
  <2>3. QED
    BY <2>1, <2>2
<1>1. CASE Start
  BY <1>1, <1>k, <1>u DEF Start, Calls, connVars
<1>2. CASE Stop
  BY <1>2, <1>k, <1>s DEF Stop, Calls, connVars
<1>3. CASE Destroy
  BY <1>3, <1>k, <1>s DEF Destroy, Calls, connVars
<1>4. ASSUME NEW id \in Convs, Send(id) \/ SendAndClose(id) \/ Disconnect(id)
      PROVE  DepartInv'
  <2>1. ASSUME NEW call, NEW op \in SessionOps, op # "SEND_DIS_SESSION_MSG",
               Request(call, op, id)
        PROVE  DepartInv'
    <3>1. [op |-> op, id |-> id] \in Op
      BY DEF Op
    <3>2. PushOp([op |-> op, id |-> id]) /\ opDispatch' = opDispatch
      BY <2>1 DEF Request
    <3>3. SameDels
      BY <1>p, <2>1, <3>1, <3>2
    <3>4. QED
      BY <1>k, <2>1, <3>3 DEF Request, Calls, connVars
  <2>2. QED
    BY <1>4, <2>1 DEF Send, SendAndClose, Disconnect, SessionOps
<1>5. CASE JoinReturns
  BY <1>5, DepartJoinReturns
<1>6. CASE GetThreadMsg
  <2>1. MsgsAhead' = MsgsAhead
    BY <1>6, NothingAhead, EmptySeq DEF GetThreadMsg, MsgsAhead, TypeOK
  <2>2. SameDels /\ SameSessions
    BY <1>6, <1>u DEF GetThreadMsg, connVars, SameSessions
  <2>3. QED
    BY <1>6, <2>1, <2>2, DepartKept DEF GetThreadMsg, appVars
<1>7. CASE DispatchMsg
  BY <1>7, DepartDispatchMsg
<1>8. QED
  BY <1>1, <1>2, <1>3, <1>4, <1>5, <1>6, <1>7 DEF Application

-----------------------------------------------------------------------------
(* ShutdownOrder.  What m_isOnline, isInvalid, the state of a socket and   *)
(* m_allSession say of one another, and how far the shutdown has come.     *)

Agrees(s, known) ==
  /\ s.state \in {"ESTABLISHED", "CLOSE_WAIT"} => known
  /\ known => /\ s.state \in {"ESTABLISHED", "CLOSE_WAIT", "removed"}
              /\ s.isInvalid = TRUE <=> s.state = "removed"
  /\ s.state = "ESTABLISHED" => s.online = TRUE
  /\ s.online = TRUE => s.state \in {"ESTABLISHED", "CLOSE_WAIT"}
  /\ s.state \in {"SYN_RECV", "ESTABLISHED", "CLOSE_WAIT"} => s.hasConv = TRUE

\* A socket that is in the manager's list, and one that is not closing.
Listed(s) == s.state \notin {"none", "removed"}
Alive(s)  == s.state \in {"SYN_RECV", "ESTABLISHED"}

OrderInv ==
  /\ \A id \in Convs : Agrees(so[id], id \in allSession)
  /\ \A id \in Convs : id >= convSeed => so[id].state = "none"
  /\ stage = "WAIT_CLOSE_SERVER_SOCKET" =>
       server # "LISTEN" /\ \A id \in Convs : ~Alive(so[id])
  /\ stage \in {"CLEAR", "WAIT_SESSION_CLOSE"} =>
       server # "LISTEN" /\ \A id \in Convs : ~Listed(so[id])
  /\ server \in {"STOP_LISTEN", "closing"} => stage = "WAIT_CLOSE_SERVER_SOCKET"
  /\ server = "closing" => \A id \in Convs : ~Listed(so[id])

(* A socket only goes forward: r is as s is, or nearer to its end.         *)
Forward(s, r) ==
  /\ Listed(r) => Listed(s)
  /\ Alive(r) => Alive(s)
  /\ s.state = "none" => r.state = "none"

(* What the functions of KCPSession make of a session that agrees agrees,  *)
(* is further on, and is in the manager's list if it was.                  *)
LEMMA AgreesKept ==
  ASSUME NEW s \in Accepted, NEW known \in BOOLEAN, Agrees(s, known)
  PROVE  /\ Agrees(ExecuteDisconnect(s, "CLOSE_WAIT"), known)
         /\ Agrees(DisconnectAccepted(s), known)
         /\ Forward(s, ExecuteDisconnect(s, "CLOSE_WAIT"))
         /\ Forward(s, DisconnectAccepted(s)) /\ ~Alive(DisconnectAccepted(s))
         /\ \A b \in BOOLEAN : \A r \in AfterSend(s, b, "CLOSE_WAIT") :
              Agrees(r, known) /\ Forward(s, r)
         /\ s.state = "ESTABLISHED" =>
              /\ Agrees(SocketDisconnect(s, "CLOSE_WAIT"), known)
              /\ Forward(s, SocketDisconnect(s, "CLOSE_WAIT"))
<1> USE DEF Accepted, Agrees, Forward, Listed, Alive, SocketDisconnect
<1>1. /\ Agrees(ExecuteDisconnect(s, "CLOSE_WAIT"), known)
      /\ Forward(s, ExecuteDisconnect(s, "CLOSE_WAIT"))
  BY DEF ExecuteDisconnect
<1>2. /\ Agrees(DisconnectAccepted(s), known)
      /\ Forward(s, DisconnectAccepted(s)) /\ ~Alive(DisconnectAccepted(s))
  BY DEF DisconnectAccepted
<1>3. \A b \in BOOLEAN : \A r \in AfterSend(s, b, "CLOSE_WAIT") :
        Agrees(r, known) /\ Forward(s, r)
  BY <1>1 DEF AfterSend
<1>4. s.state = "ESTABLISHED" =>
        /\ Agrees(SocketDisconnect(s, "CLOSE_WAIT"), known)
        /\ Forward(s, SocketDisconnect(s, "CLOSE_WAIT"))
  OBVIOUS
<1>5. QED
  BY <1>1, <1>2, <1>3, <1>4

(* None of them removes a socket.                                          *)
LEMMA SameRemoved ==
  ASSUME NEW s \in Accepted
  PROVE  /\ ExecuteDisconnect(s, "CLOSE_WAIT").state = "removed" <=> s.state = "removed"
         /\ DisconnectAccepted(s).state = "removed" <=> s.state = "removed"
         /\ SocketDisconnect(s, "CLOSE_WAIT").state = "removed" <=> s.state = "removed"
         /\ \A b \in BOOLEAN : \A r \in AfterSend(s, b, "CLOSE_WAIT") :
              r.state = "removed" <=> s.state = "removed"
BY DEF ExecuteDisconnect, DisconnectAccepted, SocketDisconnect, AfterSend, Accepted

(* Sockets go forward, or leave the server's list; the stage stays.        *)
LEMMA OrderKept ==
  ASSUME OrderInv, UNCHANGED <<stage, server, convSeed>>,
         \A id \in Convs : /\ Agrees(so'[id], id \in allSession')
                           /\ Forward(so[id], so'[id])
  PROVE  OrderInv'
BY DEF OrderInv, Forward

LEMMA OrderInit == Init => OrderInv
<1> SUFFICES ASSUME Init PROVE OrderInv
  OBVIOUS
<1>1. \A id \in Convs : so[id] = [state |-> "none", online |-> FALSE, isInvalid |-> FALSE,
                                hasConv |-> FALSE]
  BY DEF Init
<1>2. QED
  BY <1>1 DEF Init, OrderInv, Agrees, Alive, Listed

(* The socket of a session that is freed has left the manager's list.      *)
LEMMA FreedRemoved ==
  ASSUME TypeOK, QueueShape, DepartInv, ExecDelete
  PROVE  Target \in Convs /\ so[Target].state = "removed"
<1>1. /\ Executes("SEND_DIS_SESSION_MSG") /\ opQue' = opQue
      /\ Head(opDispatch).op = "SEND_DIS_SESSION_MSG" /\ app # "gone"
  BY DEF ExecDelete, Executes, QueueShape
<1>2. Target \in Convs
  BY <1>1, TargetType DEF SessionOps
<1>3. Head(opDispatch) = Del(Target)
  <2>1. Head(opDispatch) \in Op
    BY <1>1, HeadTailProperties DEF TypeOK, Executes
  <2>2. QED
    BY <1>1, <2>1 DEF Op, Del, Target
<1>4. Has(OpsAhead, Del(Target))
  BY <1>1, <1>3, AheadType, OpsPopped, HasTail
<1>5. QED
  BY <1>1, <1>2, <1>4 DEF DepartInv, Leaving, Departed

LEMMA RemoveOrdered ==
  ASSUME TypeOK, OrderInv, NEW v \in Convs, Listed(so[v]), so[v].state # "ESTABLISHED",
         Remove(v), UNCHANGED <<stage, server, convSeed, allSession>>
  PROVE  OrderInv'
<1>1. so \in [Convs -> Accepted] /\ so[v] \in Accepted
  BY DEF TypeOK
<1>2. Agrees(so[v], v \in allSession)
  BY DEF OrderInv
<1>3. /\ so' = [so EXCEPT ![v] = so'[v]] /\ so'[v].state = "removed"
      /\ Agrees(so'[v], v \in allSession)
  <2>1. CASE so[v].state = "CLOSE_WAIT"
    <3> DEFINE r == [SocketClosed(so[v]) EXCEPT !.state = "removed", !.isInvalid = TRUE,
                                          !.hasConv = FALSE]
    <3>1. so' = [so EXCEPT ![v] = r]
      BY <2>1 DEF Remove
    <3>2. r.state = "removed" /\ r.isInvalid = TRUE /\ r.online = FALSE
      BY <1>1 DEF SocketClosed, Accepted
    <3> HIDE DEF r
    <3>3. QED
      BY <1>1, <3>1, <3>2 DEF Agrees
  <2>2. CASE so[v].state # "CLOSE_WAIT"
    <3> DEFINE r == [so[v] EXCEPT !.state = "removed", !.hasConv = FALSE]
    <3>1. so' = [so EXCEPT ![v] = r]
      BY <2>2 DEF Remove
    <3>2. r.state = "removed" /\ r.online = so[v].online
      BY <1>1 DEF Accepted
    <3>3. so[v].online # TRUE /\ v \notin allSession
      BY <1>2, <2>2 DEF Agrees, Listed
    <3> HIDE DEF r
    <3>4. QED
      BY <1>1, <3>1, <3>2, <3>3 DEF Agrees
  <2>3. QED
    BY <2>1, <2>2
<1>4. \A id \in Convs : /\ Agrees(so'[id], id \in allSession')
                        /\ Forward(so[id], so'[id])
  BY <1>1, <1>3 DEF OrderInv, Forward, Listed, Alive
<1>5. QED
  BY <1>4, OrderKept

LEMMA OrderStep ==
  ASSUME TypeOK, QueueShape, DepartInv, OrderInv, [Next]_vars
  PROVE  OrderInv'
<1>s. so \in [Convs -> Accepted] /\ \A id \in Convs : so[id] \in Accepted
  BY DEF TypeOK
<1>a. \A id \in Convs : Agrees(so[id], id \in allSession)
  BY DEF OrderInv
<1>f. \A id \in Convs : Forward(so[id], so[id])
  BY DEF Forward
<1>b. ASSUME NEW id \in Convs, NEW s \in Accepted, Agrees(s, id \in allSession)
      PROVE  /\ Agrees(ExecuteDisconnect(s, "CLOSE_WAIT"), id \in allSession)
             /\ Agrees(DisconnectAccepted(s), id \in allSession)
             /\ Forward(s, ExecuteDisconnect(s, "CLOSE_WAIT"))
             /\ Forward(s, DisconnectAccepted(s)) /\ ~Alive(DisconnectAccepted(s))
             /\ \A b \in BOOLEAN : \A r \in AfterSend(s, b, "CLOSE_WAIT") :
                  Agrees(r, id \in allSession) /\ Forward(s, r)
             /\ s.state = "ESTABLISHED" =>
                  /\ Agrees(SocketDisconnect(s, "CLOSE_WAIT"), id \in allSession)
                  /\ Forward(s, SocketDisconnect(s, "CLOSE_WAIT"))
  <2> DEFINE known == id \in allSession
  <2>1. known \in BOOLEAN /\ Agrees(s, known)
    BY <1>b
  <2>s. s \in Accepted
    BY <1>b
  <2> HIDE DEF known
  <2>2. /\ Agrees(ExecuteDisconnect(s, "CLOSE_WAIT"), known)
        /\ Agrees(DisconnectAccepted(s), known)
        /\ Forward(s, ExecuteDisconnect(s, "CLOSE_WAIT"))
        /\ Forward(s, DisconnectAccepted(s)) /\ ~Alive(DisconnectAccepted(s))
        /\ \A b \in BOOLEAN : \A r \in AfterSend(s, b, "CLOSE_WAIT") :
             Agrees(r, known) /\ Forward(s, r)
        /\ s.state = "ESTABLISHED" =>
             /\ Agrees(SocketDisconnect(s, "CLOSE_WAIT"), known)
             /\ Forward(s, SocketDisconnect(s, "CLOSE_WAIT"))
    BY <2>1, <2>s, AgreesKept
  <2>3. QED
    BY <2>2 DEF known
<1>d. \A id \in Convs : /\ DisconnectValid[id] \in Accepted
                        /\ Agrees(DisconnectValid[id], id \in allSession)
                        /\ Forward(so[id], DisconnectValid[id])
  BY <1>a, <1>b, <1>f, <1>s, SessionTypes DEF DisconnectValid
<1>t. ASSUME NEW v \in Convs, NEW r, so' = [so EXCEPT ![v] = r], Agrees(r, v \in allSession),
             Forward(so[v], r), UNCHANGED <<stage, server, convSeed, allSession>>
      PROVE  OrderInv'
  BY <1>a, <1>f, <1>s, <1>t, OrderKept
<1>u. ASSUME UNCHANGED <<stage, server, convSeed, allSession, so>> PROVE OrderInv'
  BY <1>a, <1>f, <1>u, OrderKept
<1>1. CASE Start
  BY <1>1 DEF Start, connVars, OrderInv
<1>2. CASE Application /\ ~Start
  BY <1>2, <1>u DEF Application, Stop, Destroy, JoinReturns, Send, SendAndClose,
     Disconnect, Request, GetThreadMsg, DispatchMsg, loopVars, connVars
<1>3. CASE ExecSend
  <2>1. Target \in Convs /\ HasKcp(Target) \in BOOLEAN
    BY <1>3, TargetType DEF ExecSend, SessionOps, HasKcp
  <2>2. UNCHANGED <<stage, server, convSeed, allSession>>
    BY <1>3 DEF ExecSend, Executes
  <2>3. CASE Target \in allSession
    <3>1. PICK r \in AfterSend(so[Target], HasKcp(Target), "CLOSE_WAIT") : Change(Target, r)
      BY <1>3, <2>3 DEF ExecSend
    <3>2. Agrees(r, Target \in allSession) /\ Forward(so[Target], r)
      BY <1>a, <1>s, <2>1, <3>1, <1>b
    <3>3. QED
      BY <1>t, <2>1, <2>2, <3>1, <3>2 DEF Change
  <2>4. CASE Target \notin allSession
    BY <1>3, <1>u, <2>2, <2>4 DEF ExecSend
  <2>5. QED
    BY <2>3, <2>4
<1>4. CASE ExecSendAndClose \/ ExecDisconnect
  <2>1. Target \in Convs /\ UNCHANGED <<stage, server, convSeed, allSession>>
    BY <1>4, TargetType DEF ExecSendAndClose, ExecDisconnect, Executes, SessionOps
  <2>2. CASE so' = so
    BY <1>u, <2>1, <2>2
  <2>3. CASE Change(Target, ExecuteDisconnect(so[Target], "CLOSE_WAIT"))
    <3>1. /\ Agrees(ExecuteDisconnect(so[Target], "CLOSE_WAIT"), Target \in allSession)
          /\ Forward(so[Target], ExecuteDisconnect(so[Target], "CLOSE_WAIT"))
      BY <1>a, <1>s, <2>1, <1>b
    <3>2. QED
      BY <1>t, <2>1, <2>3, <3>1 DEF Change
  <2>4. QED
    BY <1>4, <2>2, <2>3 DEF ExecSendAndClose, ExecDisconnect
<1>5. CASE ExecDelete
  <2>1. Target \in Convs /\ so[Target].state = "removed"
    BY <1>5, FreedRemoved
  <2>2. /\ UNCHANGED <<stage, server, convSeed, so>>
        /\ allSession' = allSession \ {Target}
    BY <1>5 DEF ExecDelete, Executes
  <2>3. \A id \in Convs : Agrees(so'[id], id \in allSession')
    BY <1>a, <2>1, <2>2 DEF Agrees
  <2>4. QED
    BY <1>f, <2>2, <2>3, OrderKept
<1>6. CASE ExecStopServer
  <2>1. \A id \in Convs : /\ Agrees(so'[id], id \in allSession)
                          /\ Forward(DisconnectValid[id], so'[id]) /\ ~Alive(so'[id])
    BY <1>6, <1>d, <1>b DEF ExecStopServer
  <2>2. /\ stage' = "WAIT_CLOSE_SERVER_SOCKET" /\ server' = "STOP_LISTEN"
        /\ UNCHANGED <<convSeed, allSession>>
    BY <1>6 DEF ExecStopServer, Executes
  <2>3. \A id \in Convs : id >= convSeed => so'[id].state = "none"
    BY <1>d, <2>1 DEF OrderInv, Forward
  <2>4. QED
    BY <2>1, <2>2, <2>3 DEF OrderInv
<1>7. CASE OnIdle \/ RunEnds
  BY <1>7, <1>u DEF OnIdle, RunEnds, loopVars, connVars
<1>8. CASE OnIdleStage
  <2>1. UNCHANGED <<convSeed, allSession>>
    BY <1>8 DEF OnIdleStage
  <2>2. CASE ClearSessions
    <3>1. /\ so' = DisconnectValid /\ stage = "CLEAR" /\ stage' = "WAIT_SESSION_CLOSE"
          /\ UNCHANGED server
      BY <2>2 DEF ClearSessions
    <3>2. \A id \in Convs : ~Listed(so'[id])
      BY <1>d, <3>1 DEF OrderInv, Forward
    <3>3. \A id \in Convs : id >= convSeed => so'[id].state = "none"
      BY <1>d, <3>1 DEF OrderInv, Forward
    <3>4. QED
      BY <1>d, <2>1, <3>1, <3>2, <3>3 DEF OrderInv
  <2>3. CASE StopLoop
    BY <2>1, <2>3 DEF StopLoop, OrderInv
  <2>4. CASE NothingToDo
    BY <1>u, <2>1, <2>4 DEF NothingToDo
  <2>5. QED
    BY <1>8, <2>2, <2>3, <2>4 DEF OnIdleStage
<1>9. CASE RunReturns
  BY <1>9 DEF RunReturns, connVars, OrderInv
<1>10. CASE OnSyn
  <2>1. /\ convSeed \in Convs /\ convSeed' = convSeed + 1 /\ server = "LISTEN"
        /\ so' = [so EXCEPT ![convSeed] = [so[convSeed] EXCEPT !.state = "SYN_RECV",
                                                            !.hasConv = TRUE]]
        /\ UNCHANGED <<stage, server, allSession>>
    BY <1>10, BoundsAssumption DEF OnSyn, Reads, TypeOK, Convs
  <2>2. so[convSeed].state = "none"
    BY <2>1, BoundsAssumption DEF OrderInv, Convs
  <2>3. /\ so'[convSeed].state = "SYN_RECV" /\ so'[convSeed].online # TRUE
        /\ so'[convSeed].hasConv = TRUE /\ convSeed \notin allSession
    <3>1. Agrees(so[convSeed], convSeed \in allSession) /\ so[convSeed] \in Accepted
      BY <1>a, <1>s, <2>1
    <3>2. so[convSeed].online # TRUE /\ convSeed \notin allSession
      BY <2>2, <3>1 DEF Agrees
    <3>3. QED
      BY <1>s, <2>1, <3>1, <3>2 DEF Accepted
  <2>4. \A id \in Convs : id # convSeed => so'[id] = so[id]
    BY <1>s, <2>1
  <2>5. \A id \in Convs : Agrees(so'[id], id \in allSession')
    BY <1>a, <2>1, <2>3, <2>4 DEF Agrees
  <2>6. \A id \in Convs : id >= convSeed' => so'[id].state = "none"
    <3>1. \A id \in Convs : id >= convSeed' => id # convSeed /\ id >= convSeed
      BY <2>1, BoundsAssumption DEF Convs
    <3>2. QED
      BY <2>4, <3>1 DEF OrderInv
  <2>7. QED
    BY <2>1, <2>5, <2>6 DEF OrderInv
<1>11. CASE StopListenTick
  <2>1. server = "STOP_LISTEN" /\ UNCHANGED <<stage, convSeed, allSession>>
    BY <1>11 DEF StopListenTick
  <2>2. CASE Manager = {}
    <3>1. server' = "closing" /\ so' = so
      BY <1>11, <2>2 DEF StopListenTick
    <3>2. \A id \in Convs : ~Listed(so[id])
      BY <2>2 DEF Manager, Listed
    <3>3. QED
      BY <2>1, <3>1, <3>2 DEF OrderInv
  <2>3. CASE Manager # {}
    <3>1. \A id \in Convs : Agrees(so'[id], id \in allSession) /\ Forward(so[id], so'[id])
      BY <1>11, <1>a, <1>s, <2>3, <1>b DEF StopListenTick
    <3>2. UNCHANGED server
      BY <1>11, <2>3 DEF StopListenTick
    <3>3. QED
      BY <2>1, <3>1, <3>2, OrderKept
  <2>4. QED
    BY <2>2, <2>3
<1>12. CASE OnServerSocketClose
  BY <1>12 DEF OnServerSocketClose, connVars, OrderInv
<1>13. ASSUME NEW v \in Convs, OnAck(v) PROVE OrderInv'
  <2>1. /\ server = "LISTEN" /\ so[v].state = "SYN_RECV" /\ so' = [so EXCEPT ![v] = NewSession]
        /\ allSession' = allSession \cup {v} /\ UNCHANGED <<stage, server, convSeed>>
    BY <1>13 DEF OnAck, Reads, Change
  <2>2. Agrees(NewSession, TRUE) /\ Forward(so[v], NewSession)
    BY <2>1 DEF Agrees, Forward, Listed, Alive, NewSession
  <2>3. \A id \in Convs : Agrees(so'[id], id \in allSession') /\ Forward(so[id], so'[id])
    <3>1. \A id \in Convs : id # v => so'[id] = so[id] /\ (id \in allSession' <=> id \in allSession)
      BY <1>s, <2>1
    <3>2. so'[v] = NewSession /\ v \in allSession'
      BY <1>s, <2>1
    <3>3. QED
      BY <1>a, <1>f, <2>2, <3>1, <3>2 DEF Agrees
  <2>4. QED
    BY <2>1, <2>3, OrderKept
<1>14. ASSUME NEW v \in Convs, OnRecv(v) PROVE OrderInv'
  BY <1>14, <1>u DEF OnRecv, Reads, connVars
<1>15. ASSUME NEW v \in Convs, PeerLeaves(v) PROVE OrderInv'
  BY <1>15, <1>a, <1>s, <1>t, <1>b DEF PeerLeaves, Change
<1>16. ASSUME NEW v \in Convs, OnLastDatagram(v) \/ AcceptedTimeout(v) PROVE OrderInv'
  <2>1. /\ Listed(so[v]) /\ so[v].state # "ESTABLISHED"
        /\ Remove(v) /\ UNCHANGED <<stage, server, convSeed, allSession>>
    BY <1>16 DEF OnLastDatagram, AcceptedTimeout, Reads, Listed
  <2>2. QED
    BY <2>1, RemoveOrdered
<1>17. CASE UNCHANGED vars
  BY <1>17, <1>u DEF vars, loopVars, connVars
<1>18. QED
  BY <1>1, <1>2, <1>3, <1>4, <1>5, <1>6, <1>7, <1>8, <1>9, <1>10, <1>11, <1>12, <1>13,
     <1>14, <1>15, <1>16, <1>17
  DEF Next, LoopThread, ExecuteOperation

-----------------------------------------------------------------------------
(* DepartsOnce, with the help of OrderInv.                                 *)

LEMMA DepartLoop ==
  ASSUME TypeOK, QueueShape, DepartInv,
         OnIdle \/ ExecuteOperation \/ OnIdleStage \/ RunReturns \/ RunEnds
  PROVE  DepartInv'
<1>s. so \in [Convs -> Accepted] /\ \A id \in Convs : so[id] \in Accepted
  BY DEF TypeOK
<1>k. ASSUME SameDels, SameSessions, UNCHANGED <<app, msgQue, msgDispatch>> PROVE DepartInv'
  BY <1>k, DepartKept DEF MsgsAhead
<1>d. \A id \in Convs : /\ DisconnectValid[id] \in Accepted
                        /\ DisconnectValid[id].state = "removed" <=> so[id].state = "removed"
  BY <1>s, SameRemoved, SessionTypes DEF DisconnectValid
<1>e. ASSUME NEW o, Executes(o), o # "SEND_DIS_SESSION_MSG", SameSessions, opQue' = opQue
      PROVE  DepartInv'
  BY <1>e, <1>k, PopKeepsDels DEF Executes, appVars
<1>t. ASSUME NEW r, Change(Target, r), allSession' = allSession,
             r.state = "removed" <=> so[Target].state = "removed"
      PROVE  SameSessions
  BY <1>s, <1>t DEF SameSessions, Change
<1>u. ASSUME UNCHANGED <<allSession, so>> PROVE SameSessions
  BY <1>u DEF SameSessions
<1>1. CASE ExecSend
  <2>1. Target \in Convs /\ HasKcp(Target) \in BOOLEAN
    BY <1>1, TargetType DEF ExecSend, SessionOps, HasKcp
  <2>2. CASE Target \in allSession
    <3>1. PICK r \in AfterSend(so[Target], HasKcp(Target), "CLOSE_WAIT") : Change(Target, r)
      BY <1>1, <2>2 DEF ExecSend
    <3>2. r.state = "removed" <=> so[Target].state = "removed"
      BY <1>s, <2>1, <3>1, SameRemoved
    <3>3. QED
      BY <1>1, <1>e, <1>t, <3>1, <3>2 DEF ExecSend
  <2>3. CASE Target \notin allSession
    BY <1>1, <1>e, <1>u, <2>3 DEF ExecSend
  <2>4. QED
    BY <2>2, <2>3
<1>2. CASE ExecSendAndClose \/ ExecDisconnect
  <2>1. /\ Target \in Convs /\ [op |-> "DIS_SESSION", id |-> Target] \in Op
        /\ Executes("SEND_CLOSE") \/ Executes("DIS_SESSION")
        /\ allSession' = allSession
    BY <1>2, TargetType DEF ExecSendAndClose, ExecDisconnect, SessionOps, Op
  <2>2. SameSessions
    <3>1. CASE so' = so
      BY <1>u, <2>1, <3>1
    <3>2. CASE Change(Target, ExecuteDisconnect(so[Target], "CLOSE_WAIT"))
      BY <1>s, <1>t, <2>1, <3>2, SameRemoved
    <3>3. QED
      BY <1>2, <3>1, <3>2 DEF ExecSendAndClose, ExecDisconnect
  <2>3. CASE opQue' = opQue
    BY <1>e, <2>1, <2>2, <2>3
  <2>4. CASE PushOp([op |-> "DIS_SESSION", id |-> Target])
    <3>1. SameDels
      BY <2>1, <2>4, PopPushKeepsDels
    <3>2. QED
      BY <1>k, <2>1, <2>2, <3>1 DEF Executes, appVars
  <2>5. QED
    BY <1>2, <2>3, <2>4 DEF ExecSendAndClose, ExecDisconnect
<1>3. CASE ExecDelete
  BY <1>3, DepartDelete
<1>4. CASE ExecStopServer
  <2>1. \A id \in Convs : so'[id].state = "removed" <=> so[id].state = "removed"
    BY <1>4, <1>d, SameRemoved DEF ExecStopServer
  <2>2. QED
    BY <1>4, <1>e, <2>1 DEF ExecStopServer, SameSessions
<1>5. CASE OnIdle
  <2>1. opDispatch = <<>> /\ opDispatch' = opQue /\ opQue' = <<>> /\ opQue \in Seq(Op)
    BY <1>5 DEF OnIdle, QueueShape, TypeOK
  <2>2. OpsAhead' = OpsAhead
    BY <2>1, NothingAhead DEF OpsAhead
  <2>3. QED
    BY <1>5, <1>k, <1>u, <2>2, SameOps DEF OnIdle, appVars, connVars
<1>6. CASE OnIdleStage
  <2>1. allSession' = allSession /\ UNCHANGED <<app, msgQue, msgDispatch, opQue, opDispatch>>
    BY <1>6 DEF OnIdleStage, appVars
  <2>2. SameSessions
    BY <1>6, <1>d, <1>u, <2>1 DEF OnIdleStage, ClearSessions, StopLoop, NothingToDo, SameSessions
  <2>3. SameDels
    BY <2>1, SameOps DEF OpsAhead
  <2>4. QED
    BY <1>k, <2>1, <2>2, <2>3
<1>7. CASE RunReturns
  <2>1. SameDels
    BY <1>7, SameOps DEF RunReturns, OpsAhead
  <2>2. QED
    BY <1>7, <1>k, <1>u, <2>1 DEF RunReturns, appVars, connVars
<1>8. CASE RunEnds
  <2> DEFINE m == [msg |-> "EXIT_LOOP"]
  <2>1. m \in Msg /\ PushMsg(m)
    BY <1>8 DEF RunEnds, Msg
  <2>2. UNCHANGED <<app, allSession, so, opQue, opDispatch, msgDispatch>>
    BY <1>8 DEF RunEnds, appVars, connVars
  <2>3. SameDels
    BY <2>2, SameOps DEF OpsAhead
  <2>4. MsgsAhead' = Append(MsgsAhead, m)
    BY <2>1, <2>2, MsgsPushed
  <2>5. m \in KnownMsgs'
    BY <2>1 DEF KnownMsgs
  <2>6. \A id \in Convs : m \notin MsgsOf(id) /\ m # Gone(id)
    BY DEF MsgsOf, SessionMsgs, Gone, SessionMsg
  <2>7. \A id \in Convs : Departed(id)' <=> Departed(id)
    BY <2>2 DEF Departed
  <2> HIDE DEF m
  <2>8. QED
    BY <2>1, <2>2, <2>3, <2>4, <2>5, <2>6, <2>7, DepartPush
<1>9. QED
  BY <1>1, <1>2, <1>3, <1>4, <1>5, <1>6, <1>7, <1>8 DEF ExecuteOperation

LEMMA DepartCallbacks ==
  ASSUME TypeOK, QueueShape, OrderInv, DepartInv,
         \/ OnSyn \/ StopListenTick \/ OnServerSocketClose
         \/ \E v \in Convs : OnAck(v) \/ OnRecv(v) \/ PeerLeaves(v) \/ OnLastDatagram(v)
                             \/ AcceptedTimeout(v)
  PROVE  DepartInv'
<1>s. so \in [Convs -> Accepted] /\ \A id \in Convs : so[id] \in Accepted
  BY DEF TypeOK
<1>a. \A id \in Convs : Agrees(so[id], id \in allSession)
  BY DEF OrderInv
<1>g. ASSUME Callback
      PROVE  /\ app # "gone" /\ app' = app /\ UNCHANGED <<opQue, opDispatch, msgDispatch>>
             /\ SameDels
  BY <1>g, SameOps DEF Callback, QueueShape, appVars, OpsAhead
<1>k. ASSUME Callback, SameSessions, msgQue' = msgQue PROVE DepartInv'
  BY <1>k, <1>g, DepartKept DEF MsgsAhead
<1>v. ASSUME NEW id \in Convs, so[id].state # "removed", app # "gone" PROVE ~Leaving(id)
  BY <1>v DEF DepartInv, Departed
<1>w. ASSUME NEW k \in SessionMsgs, NEW id \in Convs, NEW x \in Convs
      PROVE  /\ SessionMsg(k, id) \in MsgsOf(x) <=> x = id
             /\ SessionMsg(k, id) = Gone(x) <=> x = id /\ k = "DIS_CONNECT"
  BY <1>w DEF SessionMsg, MsgsOf, Gone
<1>p. ASSUME Callback, NEW k \in SessionMsgs, NEW v \in Convs, PushMsg(SessionMsg(k, v)),
             so[v].state # "removed", v \in allSession', allSession \subseteq allSession',
             \A x \in Convs : Departed(x)' <=> Departed(x) \/ (x = v /\ k = "DIS_CONNECT")
      PROVE  DepartInv'
  <2> DEFINE m == SessionMsg(k, v)
  <2>1. m \in Msg
    BY <1>p, SessionMsgType
  <2>2. MsgsAhead' = Append(MsgsAhead, m)
    BY <1>g, <1>p, <2>1, MsgsPushed
  <2>3. m \in KnownMsgs'
    BY <1>p, <2>1 DEF KnownMsgs, SessionMsg
  <2>4. ASSUME NEW x \in Convs
        PROVE  /\ m \in MsgsOf(x) => ~Leaving(x)
               /\ Departed(x)' <=> Departed(x) \/ m = Gone(x)
    <3>1. (m \in MsgsOf(x) => x = v) /\ (m = Gone(x) <=> x = v /\ k = "DIS_CONNECT")
      BY <1>p, <1>w
    <3>2. QED
      BY <1>g, <1>p, <1>v, <3>1
  <2> HIDE DEF m
  <2>5. QED
    BY <1>g, <1>p, <2>1, <2>2, <2>3, <2>4, DepartPush
<1>1. CASE OnSyn
  <2>1. /\ Callback /\ UNCHANGED <<allSession, msgQue>> /\ convSeed \in Convs
        /\ so' = [so EXCEPT ![convSeed] = [so[convSeed] EXCEPT !.state = "SYN_RECV",
                                                            !.hasConv = TRUE]]
    BY <1>1, BoundsAssumption DEF OnSyn, Reads, TypeOK, Convs
  <2>2. so[convSeed].state # "removed" /\ so'[convSeed].state # "removed"
    <3>1. so[convSeed].state = "none"
      BY <2>1, BoundsAssumption DEF OrderInv, Convs
    <3>2. QED
      BY <1>s, <2>1, <3>1 DEF Accepted
  <2>3. SameSessions
    BY <1>s, <2>1, <2>2 DEF SameSessions
  <2>4. QED
    BY <1>k, <2>1, <2>3
<1>2. CASE StopListenTick
  <2>1. SameSessions
    BY <1>2, <1>s, SameRemoved DEF StopListenTick, SameSessions
  <2>2. QED
    BY <1>2, <1>k, <2>1 DEF StopListenTick
<1>3. CASE OnServerSocketClose
  BY <1>3, <1>k DEF OnServerSocketClose, connVars, SameSessions
<1>4. ASSUME NEW v \in Convs, OnAck(v) PROVE DepartInv'
  <2>1. /\ Callback /\ so[v].state = "SYN_RECV" /\ so' = [so EXCEPT ![v] = NewSession]
        /\ allSession' = allSession \cup {v} /\ PushMsg(SessionMsg("NEW_CONNECT", v))
    BY <1>4 DEF OnAck, Reads, Change
  <2>2. \A x \in Convs : Departed(x)' <=> Departed(x)
    BY <1>s, <2>1 DEF Departed, NewSession
  <2>3. QED
    BY <1>p, <2>1, <2>2 DEF SessionMsgs
<1>5. ASSUME NEW v \in Convs, OnRecv(v) PROVE DepartInv'
  <2>1. Callback /\ so[v].state = "ESTABLISHED" /\ UNCHANGED <<allSession, so>>
    BY <1>5 DEF OnRecv, Reads, connVars
  <2>2. CASE so[v].online
    <3>1. PushMsg(SessionMsg("RECV_DATA", v)) /\ v \in allSession'
      BY <1>5, <1>a, <2>1, <2>2 DEF OnRecv, Agrees
    <3>2. \A x \in Convs : Departed(x)' <=> Departed(x)
      BY <2>1 DEF Departed
    <3>3. QED
      BY <1>p, <2>1, <3>1, <3>2 DEF SessionMsgs
  <2>3. CASE ~so[v].online
    BY <1>5, <1>k, <2>1, <2>3 DEF OnRecv, SameSessions
  <2>4. QED
    BY <2>2, <2>3
<1>6. ASSUME NEW v \in Convs, PeerLeaves(v) PROVE DepartInv'
  <2>1. SameSessions
    BY <1>6, <1>s, SameRemoved DEF PeerLeaves, Change, SameSessions
  <2>2. QED
    BY <1>6, <1>k, <2>1 DEF PeerLeaves
<1>7. ASSUME NEW v \in Convs, OnLastDatagram(v) \/ AcceptedTimeout(v) PROVE DepartInv'
  <2>1. /\ Callback /\ Remove(v) /\ allSession' = allSession
        /\ so[v].state \in {"SYN_RECV", "CLOSE_WAIT", "CLOSED"}
    BY <1>7 DEF OnLastDatagram, AcceptedTimeout, Reads
  <2>2. CASE so[v].state = "CLOSE_WAIT"
    <3> DEFINE r == [SocketClosed(so[v]) EXCEPT !.state = "removed", !.isInvalid = TRUE,
                                          !.hasConv = FALSE]
    <3>1. so' = [so EXCEPT ![v] = r] /\ PushMsg(SessionMsg("DIS_CONNECT", v))
      BY <2>1, <2>2 DEF Remove
    <3>2. r.state = "removed"
      BY <1>s DEF SocketClosed, Accepted
    <3>3. v \in allSession
      BY <1>a, <2>2 DEF Agrees
    <3> HIDE DEF r
    <3>4. \A x \in Convs : Departed(x)' <=> Departed(x) \/ x = v
      BY <1>s, <2>1, <3>1, <3>2, <3>3 DEF Departed
    <3>5. QED
      BY <1>p, <2>1, <2>2, <3>1, <3>3, <3>4 DEF SessionMsgs
  <2>3. CASE so[v].state # "CLOSE_WAIT"
    <3>1. v \notin allSession /\ msgQue' = msgQue
      BY <1>a, <2>1, <2>3 DEF Agrees, Remove
    <3>2. \A x \in Convs : x # v => so'[x] = so[x]
      BY <1>s, <2>3 , <2>1 DEF Remove
    <3>3. \A x \in Convs : Departed(x)' <=> Departed(x)
      BY <2>1, <3>1, <3>2 DEF Departed
    <3>4. MsgsAhead' = MsgsAhead /\ allSession' = allSession
      BY <1>g, <2>1, <3>1 DEF MsgsAhead
    <3>5. QED
      BY <1>g, <2>1, <3>3, <3>4 DEF DepartInv, SameDels, Leaving, Silent, KnownMsgs
  <2>4. QED
    BY <2>2, <2>3
<1>8. QED
  BY <1>1, <1>2, <1>3, <1>4, <1>5, <1>6, <1>7

LEMMA DepartInit == Init => DepartInv
<1> SUFFICES ASSUME Init PROVE DepartInv
  OBVIOUS
<1>1. MsgsAhead = <<>> /\ OpsAhead = <<>>
  BY NothingAhead, EmptySeq DEF Init, MsgsAhead, OpsAhead
<1>2. DOMAIN MsgsAhead = {} /\ DOMAIN OpsAhead = {}
  BY <1>1, EmptySeq
<1>3. \A id \in Convs : ~Departed(id)
  BY DEF Init, Departed
<1>4. QED
  BY <1>2, <1>3 DEF DepartInv, Within, Single, Last, Has, Leaving

LEMMA DepartStep ==
  ASSUME TypeOK, QueueShape, OrderInv, DepartInv, [Next]_vars
  PROVE  DepartInv'
<1>1. CASE UNCHANGED vars
  <2>1. /\ MsgsAhead' = MsgsAhead /\ OpsAhead' = OpsAhead
        /\ UNCHANGED <<app, allSession, so>>
    BY <1>1 DEF vars, appVars, connVars, MsgsAhead, OpsAhead
  <2>2. QED
    BY <2>1, SameOps, DepartKept DEF SameSessions
<1>2. QED
  BY <1>1, DepartApplication, DepartLoop, DepartCallbacks DEF Next, LoopThread

LEMMA ServerInvariant == SafeSpec => [](QueueShape /\ OrderInv /\ DepartInv)
<1>1. TypeOK /\ QueueShape /\ OrderInv /\ DepartInv /\ [Next]_vars
        => QueueShape' /\ OrderInv' /\ DepartInv'
  BY QueueShapeStep, OrderStep, DepartStep
<1>2. QED
  BY <1>1, QueueShapeInit, OrderInit, DepartInit, TypeCorrect, PTL DEF SafeSpec

(* The order of the shutdown: what is connected is online and known to the *)
(* server, nothing is half open once it was told to stop, and nothing is   *)
(* left in the listening socket's list when its own close is over.         *)
THEOREM ShutdownOrderCorrect == SafeSpec => []ShutdownOrder
<1>1. ASSUME TypeOK, OrderInv PROVE ShutdownOrder
  <2>1. \A v \in Convs :
          /\ so[v].state = "ESTABLISHED" => v \in allSession /\ so[v].online
          /\ so[v].online => so[v].state \in {"ESTABLISHED", "CLOSE_WAIT"}
          /\ v \in allSession => (so[v].isInvalid <=> so[v].state = "removed")
    BY <1>1 DEF OrderInv, Agrees, TypeOK, Accepted
  <2>2. stage = "WAIT_CLOSE_SERVER_SOCKET" =>
          \A v \in Convs : so[v].state \notin {"SYN_RECV", "ESTABLISHED"}
    BY <1>1 DEF OrderInv, Alive
  <2>3. stage \in {"CLEAR", "WAIT_SESSION_CLOSE"} => Manager = {}
    BY <1>1 DEF OrderInv, Listed, Manager
  <2>4. QED
    BY <2>1, <2>2, <2>3 DEF ShutdownOrder
<1>2. QED
  BY <1>1, ServerInvariant, TypeCorrect, PTL

(* Every session is freed once: its DIS_CONNECT, and the operation that    *)
(* frees it, are never queued twice nor together, no message is queued of  *)
(* a session that was freed and none behind its DIS_CONNECT.               *)
THEOREM DepartsOnceCorrect == SafeSpec => []DepartsOnce
<1>1. ASSUME TypeOK, DepartInv PROVE DepartsOnce
  <2>1. MsgsAhead \in Seq(Msg) /\ OpsAhead \in Seq(Op)
    BY <1>1, AheadType
  <2>2. ASSUME NEW id \in Convs PROVE Departures(id) = IF Leaving(id) THEN 1 ELSE 0
    <3>1. Single(MsgsAhead, Gone(id)) /\ Single(OpsAhead, Del(id))
      BY <1>1 DEF DepartInv
    <3>2. ~(Has(MsgsAhead, Gone(id)) /\ Has(OpsAhead, Del(id)))
      <4>1. Gone(id) \in MsgsOf(id)
        BY DEF Gone, SessionMsg, MsgsOf, SessionMsgs
      <4>2. QED
        BY <1>1, <4>1 DEF DepartInv, Silent, Has
    <3>3. /\ Cardinality({i \in DOMAIN MsgsAhead : MsgsAhead[i] = Gone(id)})
               = IF Has(MsgsAhead, Gone(id)) THEN 1 ELSE 0
          /\ Cardinality({i \in DOMAIN OpsAhead : OpsAhead[i] = Del(id)})
               = IF Has(OpsAhead, Del(id)) THEN 1 ELSE 0
      BY <2>1, <3>1, CountSingle
    <3>4. QED
      BY <3>2, <3>3 DEF Departures, Leaving, Gone, Del
  <2>3. ASSUME NEW m \in QueuedMsgs, m.msg # "EXIT_LOOP" PROVE m.id \in allSession
    <3>1. PICK i \in DOMAIN MsgsAhead : MsgsAhead[i] = m
      <4>0. msgDispatch \in Seq(Msg) /\ msgQue \in Seq(Msg)
        BY <1>1 DEF TypeOK
      <4>1. CASE \E i \in DOMAIN msgDispatch : msgDispatch[i] = m
        BY <4>0, <4>1, AtConcat DEF MsgsAhead
      <4>2. ASSUME NEW i \in DOMAIN msgQue, msgQue[i] = m
            PROVE  \E j \in DOMAIN MsgsAhead : MsgsAhead[j] = m
        <5>1. /\ Len(msgDispatch) + i \in DOMAIN MsgsAhead
              /\ MsgsAhead[Len(msgDispatch) + i] = m
          BY <4>0, <4>2, AtConcat DEF MsgsAhead
        <5>2. QED
          BY <5>1
      <4>3. QED
        BY <4>1, <4>2 DEF QueuedMsgs
    <3>2. QED
      BY <1>1, <2>3, <3>1 DEF DepartInv, Within, KnownMsgs
  <2>4. ASSUME NEW id \in Convs, NEW i \in DOMAIN MsgsAhead, NEW j \in DOMAIN MsgsAhead,
               i < j, MsgsAhead[i] = SessionMsg("DIS_CONNECT", id)
        PROVE  MsgsAhead[j].msg = "EXIT_LOOP" \/ MsgsAhead[j].id # id
    <3>1. MsgsAhead[j] \notin MsgsOf(id)
      BY <1>1, <2>4 DEF DepartInv, Last, Gone
    <3>2. MsgsAhead[j] \in Msg
      BY <2>1, LenProperties
    <3>3. QED
      BY <3>1, <3>2 DEF Msg, MsgsOf
  <2>5. \A id \in Convs : app # "gone" => (Departed(id) <=> Leaving(id))
    BY <1>1 DEF DepartInv
  <2>6. QED
    BY <2>2, <2>3, <2>4, <2>5 DEF DepartsOnce, Departed
<1>2. QED
  BY <1>1, ServerInvariant, TypeCorrect, PTL

-----------------------------------------------------------------------------
(* ImplementsContract.  A session is announced before anything else is     *)
(* told of it, and the application has heard of its end as soon as that is *)
(* no longer in the queue of messages; the close callback is the only      *)
(* message when there is one.                                              *)

Announce(id) == SessionMsg("NEW_CONNECT", id)
Exit         == [msg |-> "EXIT_LOOP"]
Early(s)     == s.state \in {"none", "SYN_RECV"}

ViewInv ==
  \A id \in Convs :
    /\ Leads(MsgsAhead, Announce(id), MsgsOf(id))
    /\ contract.view[id] # "new" => ~Has(MsgsAhead, Announce(id)) /\ ~Early(so[id])
    /\ contract.view[id] = "new" /\ id \in allSession => Has(MsgsAhead, Announce(id))
    /\ contract.view[id] = "up" => id \in allSession
    /\ contract.view[id] = "down" =>
         Silent(id) /\ (id \in allSession => so[id].state = "removed")
    /\ Departed(id) /\ contract.view[id] # "down" => Has(MsgsAhead, Gone(id))

ExitInv ==
  /\ loop \in {"stopped", "ended"} => allSession = {}
  /\ exiting => loop = "ended"
  /\ loop # "ended" \/ exiting => ~contract.closed /\ ~Has(MsgsAhead, Exit)
  /\ contract.closed => ~Has(MsgsAhead, Exit)
  /\ Single(MsgsAhead, Exit)

LEMMA SameEarly ==
  ASSUME NEW s \in Accepted
  PROVE  /\ Early(ExecuteDisconnect(s, "CLOSE_WAIT")) => Early(s)
         /\ Early(DisconnectAccepted(s)) => Early(s)
         /\ Early(SocketDisconnect(s, "CLOSE_WAIT")) => Early(s)
         /\ \A b \in BOOLEAN : \A r \in AfterSend(s, b, "CLOSE_WAIT") : Early(r) => Early(s)
BY DEF Early, ExecuteDisconnect, DisconnectAccepted, SocketDisconnect, AfterSend, Accepted

(* Nothing is told, and no socket but those of no session is removed.      *)
LEMMA ViewKept ==
  ASSUME ViewInv, UNCHANGED <<contract, allSession>>, MsgsAhead' = MsgsAhead,
         \A id \in Convs : /\ Early(so'[id]) => Early(so[id])
                           /\ so[id].state = "removed" => so'[id].state = "removed"
                           /\ Departed(id)' => Departed(id)
  PROVE  ViewInv'
BY DEF ViewInv, Silent

(* A message of a session is queued, of which the application has not heard *)
(* the end; NEW_CONNECT is the first of its session, DIS_CONNECT its end.  *)
LEMMA ViewPushed ==
  ASSUME TypeOK, ViewInv, UNCHANGED contract,
         NEW k \in SessionMsgs, NEW v \in Convs, MsgsAhead' = Append(MsgsAhead, SessionMsg(k, v)),
         contract.view[v] # "down",
         k = "NEW_CONNECT" => contract.view[v] = "new" /\ Silent(v),
         allSession' = IF k = "NEW_CONNECT" THEN allSession \cup {v} ELSE allSession,
         \A id \in Convs : id # v => so'[id] = so[id],
         Early(so'[v]) => Early(so[v]),
         k = "NEW_CONNECT" => so'[v].state = "ESTABLISHED",
         Departed(v)' => Departed(v) \/ k = "DIS_CONNECT"
  PROVE  ViewInv'
<1> DEFINE m == SessionMsg(k, v)
           M == MsgsAhead
<1>1. m \in Msg /\ M \in Seq(Msg) /\ M' = Append(M, m)
  BY AheadType, SessionMsgType
<1>2. \A id \in Convs : /\ m = Announce(id) <=> id = v /\ k = "NEW_CONNECT"
                        /\ m = Gone(id) <=> id = v /\ k = "DIS_CONNECT"
                        /\ m \in MsgsOf(id) <=> id = v
  BY DEF SessionMsg, Announce, Gone, MsgsOf
<1>3. \A i \in DOMAIN M' : (i \in DOMAIN M /\ M'[i] = M[i]) \/ M'[i] = m
  BY <1>1, AtAppend
<1> HIDE DEF m
<1>4. ASSUME NEW id \in Convs
      PROVE  /\ Leads(M', Announce(id), MsgsOf(id))
             /\ Has(M', Announce(id)) <=> Has(M, Announce(id)) \/ (id = v /\ k = "NEW_CONNECT")
             /\ Has(M', Gone(id)) <=> Has(M, Gone(id)) \/ (id = v /\ k = "DIS_CONNECT")
  <2>1. Leads(M, Announce(id), MsgsOf(id))
    BY DEF ViewInv
  <2>2. m = Announce(id) => \A i \in DOMAIN M : M[i] \notin MsgsOf(id)
    BY <1>2 DEF Silent
  <2>3. Leads(M', Announce(id), MsgsOf(id))
    BY <1>1, <2>1, <2>2, LeadsAppend
  <2>4. QED
    BY <1>1, <1>2, <2>3, HasAppend
<1>5. ASSUME NEW id \in Convs, contract.view[id] = "down" PROVE Silent(id)'
  <2>1. m \notin MsgsOf(id) /\ Silent(id)
    BY <1>2, <1>5 DEF ViewInv
  <2>2. QED
    BY <1>3, <2>1 DEF Silent
<1>6. ASSUME NEW id \in Convs, id # v
      PROVE  /\ so'[id] = so[id] /\ (Departed(id)' <=> Departed(id))
             /\ id \in allSession' <=> id \in allSession
  BY <1>6 DEF Departed
<1>7. ASSUME NEW id \in Convs
      PROVE  /\ contract.view[id] # "new" => ~Has(M', Announce(id)) /\ ~Early(so'[id])
             /\ contract.view[id] = "new" /\ id \in allSession' => Has(M', Announce(id))
             /\ contract.view[id] = "up" => id \in allSession'
             /\ contract.view[id] = "down" =>
                  Silent(id)' /\ (id \in allSession' => so'[id].state = "removed")
             /\ Departed(id)' /\ contract.view[id] # "down" => Has(M', Gone(id))
  <2>1. /\ contract.view[id] # "new" => ~Has(M, Announce(id)) /\ ~Early(so[id])
        /\ contract.view[id] = "new" /\ id \in allSession => Has(M, Announce(id))
        /\ contract.view[id] = "up" => id \in allSession
        /\ contract.view[id] = "down" =>
             Silent(id) /\ (id \in allSession => so[id].state = "removed")
        /\ Departed(id) /\ contract.view[id] # "down" => Has(M, Gone(id))
    BY DEF ViewInv
  <2>2. CASE id = v
    BY <1>4, <2>1, <2>2
  <2>3. CASE id # v
    BY <1>4, <1>5, <1>6, <2>1, <2>3
  <2>4. QED
    BY <2>2, <2>3
<1>8. QED
  BY <1>4, <1>7 DEF ViewInv

(* What the application is told next is what the contract allows.          *)
LEMMA ViewDispatch ==
  ASSUME TypeOK, QueueShape, OrderInv, DepartInv, ViewInv, ExitInv, DispatchMsg
  PROVE  ViewInv' /\ Promised(Head(msgDispatch))
<1> DEFINE m == Head(msgDispatch)
<1>1. /\ msgDispatch # <<>> /\ msgDispatch' = Tail(msgDispatch)
      /\ UNCHANGED <<msgQue, allSession, so, app>> /\ app = "up" /\ contract' = Told(m)
  BY DEF DispatchMsg, connVars
<1>2. m \in Msg
  BY <1>1, HeadTailProperties DEF TypeOK
<1>3. /\ MsgsAhead \in Seq(Msg) /\ MsgsAhead # <<>>
      /\ Head(MsgsAhead) = m /\ MsgsAhead' = Tail(MsgsAhead)
  BY <1>1, AheadType, MsgsPopped
<1>4. m \in KnownMsgs
  BY <1>3, WithinTail DEF DepartInv
<1>v. /\ contract.view \in [Convs -> {"new", "up", "down"}]
      /\ contract = [view |-> contract.view, closed |-> contract.closed]
  BY DEF TypeOK, Contract
<1>5. ASSUME NEW id \in Convs
      PROVE  /\ Leads(MsgsAhead', Announce(id), MsgsOf(id))
             /\ m \in MsgsOf(id) => ~Has(MsgsAhead', Announce(id)) /\ ~Silent(id)
             /\ m # Announce(id) => (Has(MsgsAhead', Announce(id)) <=> Has(MsgsAhead, Announce(id)))
             /\ m = Announce(id) => Has(MsgsAhead, Announce(id))
             /\ m # Gone(id) => (Has(MsgsAhead', Gone(id)) <=> Has(MsgsAhead, Gone(id)))
             /\ Silent(id) \/ m = Gone(id) => Silent(id)'
             /\ m = Gone(id) => Departed(id)
             /\ Departed(id)' <=> Departed(id)
  <2>1. Leads(MsgsAhead, Announce(id), MsgsOf(id))
    BY DEF ViewInv
  <2>2. Leads(MsgsAhead', Announce(id), MsgsOf(id)) /\ (m \in MsgsOf(id) => ~Has(MsgsAhead', Announce(id)))
    BY <1>3, <2>1, LeadsTail
  <2>3. m \in MsgsOf(id) => ~Silent(id)
    BY <1>3, AtTail DEF Silent
  <2>4. Has(MsgsAhead, Announce(id)) <=> m = Announce(id) \/ Has(MsgsAhead', Announce(id))
    BY <1>3, HasTail
  <2>5. /\ Has(MsgsAhead, Gone(id)) <=> m = Gone(id) \/ Has(MsgsAhead', Gone(id))
        /\ Silent(id) \/ m = Gone(id) => Silent(id)'
    BY <1>1, DepartPopped
  <2>6. m = Gone(id) => Departed(id)
    BY <1>1, <2>5 DEF DepartInv, Leaving
  <2>7. Departed(id)' <=> Departed(id)
    BY <1>1 DEF Departed
  <2>8. QED
    BY <2>2, <2>3, <2>4, <2>5, <2>6, <2>7
<1>6. ASSUME NEW id \in Convs, m \in MsgsOf(id), m # Announce(id)
      PROVE  contract.view[id] = "up"
  <2>1. id \in allSession
    BY <1>4, <1>6 DEF KnownMsgs, MsgsOf, SessionMsgs
  <2>2. contract.view[id] # "down"
    BY <1>5, <1>6 DEF ViewInv
  <2>3. contract.view[id] # "new"
    BY <1>5, <1>6, <2>1 DEF ViewInv
  <2>4. QED
    BY <1>v, <2>2, <2>3
<1> HIDE DEF m
<1>7. CASE m = Exit
  <2>1. Has(MsgsAhead, Exit)
    BY <1>3, <1>7, HasTail
  <2>2. allSession = {} /\ ~contract.closed
    BY <2>1 DEF ExitInv
  <2>3. contract' = [contract EXCEPT !.closed = TRUE]
    BY <1>1, <1>7 DEF Told, Exit
  <2>4. contract'.view = contract.view /\ contract'.closed = TRUE
    BY <1>v, <2>3
  <2>5. \A id \in Convs : contract.view[id] # "up"
    BY <2>2 DEF ViewInv
  <2>6. Promise!OnClose
    BY <2>2, <2>4, <2>5 DEF Promise!OnClose
  <2>7. \A id \in Convs : m \notin MsgsOf(id) /\ m # Announce(id) /\ m # Gone(id)
    BY <1>7 DEF Exit, MsgsOf, Announce, Gone, SessionMsg, SessionMsgs
  <2>8. ViewInv'
    BY <1>1, <1>5, <2>4, <2>7 DEF ViewInv
  <2>9. Promised(m)
    BY <1>7, <2>6 DEF Promised, Exit
  <2>10. QED
    BY <2>8, <2>9 DEF m
<1>8. ASSUME NEW v \in Convs, NEW k \in SessionMsgs, m = SessionMsg(k, v)
      PROVE  ViewInv' /\ Promised(m)
  <2>1. \A id \in Convs : /\ m \in MsgsOf(id) <=> id = v
                          /\ m = Announce(id) <=> id = v /\ k = "NEW_CONNECT"
                          /\ m = Gone(id) <=> id = v /\ k = "DIS_CONNECT"
    BY <1>8 DEF MsgsOf, Announce, Gone, SessionMsg
  <2>2. ~contract.closed
    <3>1. v \in allSession
      BY <1>4, <1>8 DEF KnownMsgs, SessionMsg, SessionMsgs
    <3>2. QED
      BY <3>1 DEF ExitInv
  <2>3. m.msg = k /\ m.id = v
    BY <1>8 DEF SessionMsg
  <2>4. CASE k = "NEW_CONNECT"
    <3>1. contract.view[v] = "new" /\ v \in allSession
      BY <1>4, <1>5, <2>1, <2>3, <2>4 DEF ViewInv, KnownMsgs
    <3>2. contract' = [contract EXCEPT !.view[v] = "up"]
      BY <1>1, <2>3, <2>4 DEF Told
    <3>3. contract'.view = [contract.view EXCEPT ![v] = "up"] /\ contract'.closed = contract.closed
      BY <1>v, <3>2
    <3>4. Promise!OnNewConnect(v)
      BY <2>2, <3>1, <3>3 DEF Promise!OnNewConnect, Promise!Callback
    <3>5. Promised(m)
      BY <2>3, <2>4, <3>4 DEF Promised
    <3>6. contract'.view[v] = "up" /\ \A id \in Convs : id # v => contract'.view[id] = contract.view[id]
      BY <1>v, <3>3
    <3>7. ~Early(so[v])
      <4>1. Agrees(so[v], TRUE)
        BY <3>1 DEF OrderInv, Agrees
      <4>2. QED
        BY <4>1 DEF Agrees, Early
    <3>8. ViewInv'
      BY <1>1, <1>5, <2>1, <2>4, <3>1, <3>6, <3>7 DEF ViewInv
    <3>9. QED
      BY <3>5, <3>8
  <2>5. CASE k = "RECV_DATA"
    <3>1. contract.view[v] = "up" /\ contract' = contract
      BY <1>1, <1>6, <2>1, <2>3, <2>5 DEF Told
    <3>2. contract.view = [contract.view EXCEPT ![v] = "up"]
      BY <1>v, <3>1
    <3>3. Promise!OnRecv(v)
      BY <2>2, <3>1, <3>2 DEF Promise!OnRecv, Promise!Callback
    <3>4. Promised(m)
      BY <2>3, <2>5, <3>3 DEF Promised
    <3>5. ViewInv'
      BY <1>1, <1>5, <2>1, <2>5, <3>1 DEF ViewInv
    <3>6. QED
      BY <3>4, <3>5
  <2>6. CASE k = "DIS_CONNECT"
    <3>1. contract.view[v] = "up" /\ contract' = [contract EXCEPT !.view[v] = "down"]
      BY <1>1, <1>6, <2>1, <2>3, <2>6 DEF Told
    <3>2. contract'.view = [contract.view EXCEPT ![v] = "down"] /\ contract'.closed = contract.closed
      BY <1>v, <3>1
    <3>3. Promise!OnDisconnect(v)
      BY <2>2, <3>1, <3>2 DEF Promise!OnDisconnect, Promise!Callback
    <3>4. Promised(m)
      BY <2>3, <2>6, <3>3 DEF Promised
    <3>5. contract'.view[v] = "down" /\ \A id \in Convs : id # v => contract'.view[id] = contract.view[id]
      BY <1>v, <3>2
    <3>6. ViewInv'
      BY <1>1, <1>5, <2>1, <2>6, <3>1, <3>5 DEF ViewInv, Departed
    <3>7. QED
      BY <3>4, <3>6
  <2>7. QED
    BY <2>4, <2>5, <2>6 DEF SessionMsgs
<1>9. m = Exit \/ \E v \in Convs, k \in SessionMsgs : m = SessionMsg(k, v)
  BY <1>2 DEF Msg, Exit, SessionMsg
<1>10. QED
  BY <1>7, <1>8, <1>9 DEF m

(* The session is freed: the application has been told of its end.         *)
LEMMA ViewDelete ==
  ASSUME TypeOK, QueueShape, OrderInv, DepartInv, ViewInv, ExecDelete
  PROVE  ViewInv'
<1> DEFINE d == Target
<1>1. /\ Executes("SEND_DIS_SESSION_MSG") /\ opQue' = opQue /\ app # "gone"
      /\ Head(opDispatch).op = "SEND_DIS_SESSION_MSG"
      /\ UNCHANGED <<contract, so, msgQue, msgDispatch>> /\ allSession' = allSession \ {d}
  BY DEF ExecDelete, Executes, QueueShape, appVars
<1>2. d \in Convs
  BY <1>1, TargetType DEF SessionOps
<1>3. Head(opDispatch) = Del(d)
  <2>1. Head(opDispatch) \in Op
    BY <1>1, HeadTailProperties DEF TypeOK, Executes
  <2>2. QED
    BY <1>1, <2>1 DEF Op, Del, Target
<1> HIDE DEF d
<1>4. Has(OpsAhead, Del(d))
  BY <1>1, <1>3, AheadType, OpsPopped, HasTail
<1>5. Silent(d) /\ Departed(d)
  BY <1>1, <1>2, <1>4 DEF DepartInv, Leaving
<1>6. ~Has(MsgsAhead, Gone(d))
  BY <1>5 DEF Has, Silent, Gone, MsgsOf, SessionMsg, SessionMsgs
<1>7. contract.view[d] = "down"
  BY <1>2, <1>5, <1>6 DEF ViewInv
<1>8. MsgsAhead' = MsgsAhead
  BY <1>1 DEF MsgsAhead
<1>9. \A id \in Convs : Departed(id)' => Departed(id)
  BY <1>1 DEF Departed
<1>10. QED
  BY <1>1, <1>7, <1>8, <1>9 DEF ViewInv, Silent

LEMMA ViewStep ==
  ASSUME TypeOK, QueueShape, OrderInv, DepartInv, ViewInv, ExitInv, [Next]_vars
  PROVE  ViewInv'
<1>s. so \in [Convs -> Accepted] /\ \A id \in Convs : so[id] \in Accepted
  BY DEF TypeOK
<1>a. \A id \in Convs : Agrees(so[id], id \in allSession)
  BY DEF OrderInv
<1>k. ASSUME UNCHANGED <<contract, allSession, msgQue, msgDispatch>>,
             \A id \in Convs : /\ Early(so'[id]) => Early(so[id])
                               /\ so'[id].state = "removed" <=> so[id].state = "removed"
      PROVE  ViewInv'
  <2>1. MsgsAhead' = MsgsAhead /\ \A id \in Convs : Departed(id)' => Departed(id)
    BY <1>k DEF MsgsAhead, Departed
  <2>2. QED
    BY <1>k, <2>1, ViewKept
<1>u. ASSUME UNCHANGED <<contract, allSession, so, msgQue, msgDispatch>> PROVE ViewInv'
  BY <1>u, <1>k
<1>d. \A id \in Convs : /\ DisconnectValid[id] \in Accepted
                        /\ Early(DisconnectValid[id]) => Early(so[id])
                        /\ DisconnectValid[id].state = "removed" <=> so[id].state = "removed"
  BY <1>s, SameEarly, SameRemoved, SessionTypes DEF DisconnectValid
<1>t. ASSUME NEW v \in Convs, NEW r, so' = [so EXCEPT ![v] = r], Early(r) => Early(so[v]),
             r.state = "removed" <=> so[v].state = "removed",
             UNCHANGED <<contract, allSession, msgQue, msgDispatch>>
      PROVE  ViewInv'
  BY <1>k, <1>s, <1>t
<1>p. ASSUME NEW k \in SessionMsgs, NEW v \in Convs, PushMsg(SessionMsg(k, v)),
             msgDispatch' = msgDispatch
      PROVE  MsgsAhead' = Append(MsgsAhead, SessionMsg(k, v))
  BY <1>p, MsgsPushed, SessionMsgType
<1>1. CASE Start \/ Stop \/ Destroy \/ OnIdle \/ RunReturns \/ UNCHANGED vars
  BY <1>1, <1>u DEF Start, Stop, Destroy, OnIdle, RunReturns, vars, appVars, connVars
<1>2. ASSUME NEW v \in Convs, Send(v) \/ SendAndClose(v) \/ Disconnect(v) PROVE ViewInv'
  BY <1>2, <1>u DEF Send, SendAndClose, Disconnect, Request, connVars
<1>3. CASE JoinReturns
  <2>1. /\ MsgsAhead' = <<>> /\ allSession = {} /\ UNCHANGED <<contract, so, allSession>>
    <3>1. msgDispatch' = <<>> /\ msgQue' = <<>>
      BY <1>3 DEF JoinReturns, QueueShape
    <3>2. QED
      BY <1>3, <3>1, NothingAhead, EmptySeq DEF JoinReturns, MsgsAhead, ExitInv, connVars
  <2>2. DOMAIN MsgsAhead' = {}
    BY <2>1, EmptySeq
  <2>3. QED
    BY <2>1, <2>2 DEF ViewInv, Leads, Has, Silent, Departed
<1>4. CASE GetThreadMsg
  <2>1. MsgsAhead' = MsgsAhead
    BY <1>4, NothingAhead, EmptySeq DEF GetThreadMsg, MsgsAhead, TypeOK
  <2>2. UNCHANGED <<contract, allSession, so>>
    BY <1>4 DEF GetThreadMsg, appVars, connVars
  <2>3. QED
    BY <2>1, <2>2, ViewKept DEF Departed
<1>5. CASE DispatchMsg
  BY <1>5, ViewDispatch
<1>6. CASE ExecSend
  <2>1. Target \in Convs /\ HasKcp(Target) \in BOOLEAN
    BY <1>6, TargetType DEF ExecSend, SessionOps, HasKcp
  <2>2. UNCHANGED <<contract, allSession, msgQue, msgDispatch>>
    BY <1>6 DEF ExecSend, Executes, appVars
  <2>3. CASE Target \in allSession
    <3>1. PICK r \in AfterSend(so[Target], HasKcp(Target), "CLOSE_WAIT") : Change(Target, r)
      BY <1>6, <2>3 DEF ExecSend
    <3>2. (Early(r) => Early(so[Target])) /\ (r.state = "removed" <=> so[Target].state = "removed")
      BY <1>s, <2>1, <3>1, SameEarly, SameRemoved
    <3>3. QED
      BY <1>t, <2>1, <2>2, <3>1, <3>2 DEF Change
  <2>4. CASE Target \notin allSession
    BY <1>6, <1>u, <2>2, <2>4 DEF ExecSend
  <2>5. QED
    BY <2>3, <2>4
<1>7. CASE ExecSendAndClose \/ ExecDisconnect
  <2>1. Target \in Convs /\ UNCHANGED <<contract, allSession, msgQue, msgDispatch>>
    BY <1>7, TargetType DEF ExecSendAndClose, ExecDisconnect, Executes, SessionOps, appVars
  <2>2. CASE so' = so
    BY <1>u, <2>1, <2>2
  <2>3. CASE Change(Target, ExecuteDisconnect(so[Target], "CLOSE_WAIT"))
    BY <1>s, <1>t, <2>1, <2>3, SameEarly, SameRemoved DEF Change
  <2>4. QED
    BY <1>7, <2>2, <2>3 DEF ExecSendAndClose, ExecDisconnect
<1>8. CASE ExecDelete
  BY <1>8, ViewDelete
<1>9. CASE ExecStopServer
  <2>1. \A id \in Convs : /\ Early(so'[id]) => Early(so[id])
                          /\ so'[id].state = "removed" <=> so[id].state = "removed"
    BY <1>9, <1>d, SameEarly, SameRemoved DEF ExecStopServer
  <2>2. QED
    BY <1>9, <1>k, <2>1 DEF ExecStopServer, Executes, appVars
<1>10. CASE OnIdleStage
  <2>1. UNCHANGED <<contract, allSession, msgQue, msgDispatch>>
    BY <1>10 DEF OnIdleStage, appVars
  <2>2. so' = DisconnectValid \/ so' = so
    BY <1>10 DEF OnIdleStage, ClearSessions, StopLoop, NothingToDo
  <2>3. QED
    BY <1>d, <1>k, <1>u, <2>1, <2>2
<1>11. CASE RunEnds
  <2>1. Exit \in Msg /\ PushMsg(Exit) /\ UNCHANGED <<contract, allSession, so, msgDispatch>>
    BY <1>11 DEF RunEnds, Exit, Msg, appVars, connVars
  <2>2. MsgsAhead' = Append(MsgsAhead, Exit) /\ MsgsAhead \in Seq(Msg)
    BY <2>1, AheadType, MsgsPushed
  <2>3. \A id \in Convs : Exit \notin MsgsOf(id) /\ Exit # Announce(id) /\ Exit # Gone(id)
    BY DEF Exit, MsgsOf, Announce, Gone, SessionMsg, SessionMsgs
  <2>4. ASSUME NEW id \in Convs
        PROVE  /\ Leads(MsgsAhead', Announce(id), MsgsOf(id))
               /\ Has(MsgsAhead', Announce(id)) <=> Has(MsgsAhead, Announce(id))
               /\ Has(MsgsAhead', Gone(id)) <=> Has(MsgsAhead, Gone(id))
               /\ Silent(id) => Silent(id)'
    <3>1. Leads(MsgsAhead, Announce(id), MsgsOf(id))
      BY DEF ViewInv
    <3>2. Leads(MsgsAhead', Announce(id), MsgsOf(id))
      BY <2>1, <2>2, <2>3, <3>1, LeadsAppend
    <3>3. Silent(id) => Silent(id)'
      BY <2>1, <2>2, <2>3, AtAppend DEF Silent
    <3>4. QED
      BY <2>1, <2>2, <2>3, <3>2, <3>3, HasAppend
  <2>5. \A id \in Convs : Departed(id)' <=> Departed(id)
    BY <2>1 DEF Departed
  <2>6. QED
    BY <2>1, <2>4, <2>5 DEF ViewInv
<1>12. CASE OnSyn
  <2>1. /\ UNCHANGED <<contract, allSession, msgQue, msgDispatch>> /\ convSeed \in Convs
        /\ so' = [so EXCEPT ![convSeed] = [so[convSeed] EXCEPT !.state = "SYN_RECV",
                                                            !.hasConv = TRUE]]
    BY <1>12, BoundsAssumption DEF OnSyn, Reads, Callback, TypeOK, Convs, appVars
  <2>2. so[convSeed].state = "none"
    BY <2>1, BoundsAssumption DEF OrderInv, Convs
  <2>3. [so[convSeed] EXCEPT !.state = "SYN_RECV", !.hasConv = TRUE].state = "SYN_RECV"
    BY <1>s, <2>1 DEF Accepted
  <2>4. QED
    BY <1>t, <2>1, <2>2, <2>3 DEF Early
<1>13. CASE StopListenTick
  <2>1. UNCHANGED <<contract, allSession, msgQue, msgDispatch>>
    BY <1>13 DEF StopListenTick, Callback, appVars
  <2>2. so' = so \/ so' = [v \in Convs |-> DisconnectAccepted(so[v])]
    BY <1>13 DEF StopListenTick
  <2>3. QED
    BY <1>k, <1>s, <1>u, <2>1, <2>2, SameEarly, SameRemoved
<1>14. CASE OnServerSocketClose
  BY <1>14, <1>u DEF OnServerSocketClose, Callback, appVars, connVars
<1>15. ASSUME NEW v \in Convs, OnAck(v) PROVE ViewInv'
  <2>1. /\ so[v].state = "SYN_RECV" /\ so' = [so EXCEPT ![v] = NewSession]
        /\ allSession' = allSession \cup {v} /\ UNCHANGED <<contract, msgDispatch>>
        /\ PushMsg(SessionMsg("NEW_CONNECT", v))
    BY <1>15 DEF OnAck, Reads, Callback, Change, appVars
  <2>2. v \notin allSession
    BY <1>a, <2>1 DEF Agrees
  <2>3. contract.view[v] = "new"
    BY <2>1 DEF ViewInv, Early
  <2>4. Silent(v)
    BY <2>2 DEF DepartInv, Within, KnownMsgs, Silent, MsgsOf, SessionMsgs
  <2>5. so'[v] = NewSession /\ \A id \in Convs : id # v => so'[id] = so[id]
    BY <1>s, <2>1
  <2>6. ~Early(so'[v]) /\ so'[v].state = "ESTABLISHED" /\ ~Departed(v)'
    BY <2>5 DEF Early, Departed, NewSession
  <2>7. QED
    BY <1>p, <2>1, <2>3, <2>4, <2>5, <2>6, ViewPushed DEF SessionMsgs
<1>16. ASSUME NEW v \in Convs, OnRecv(v) PROVE ViewInv'
  <2>1. so[v].state = "ESTABLISHED" /\ UNCHANGED <<contract, allSession, so, msgDispatch>>
    BY <1>16 DEF OnRecv, Reads, Callback, appVars, connVars
  <2>2. CASE so[v].online
    <3>1. contract.view[v] # "down"
      BY <1>a, <2>1 DEF ViewInv, Agrees
    <3>2. PushMsg(SessionMsg("RECV_DATA", v))
      BY <1>16, <2>2 DEF OnRecv
    <3>3. Departed(v)' => Departed(v)
      BY <2>1 DEF Departed
    <3>4. QED
      BY <1>p, <2>1, <3>1, <3>2, <3>3, ViewPushed DEF SessionMsgs
  <2>3. CASE ~so[v].online
    BY <1>16, <1>u, <2>1, <2>3 DEF OnRecv
  <2>4. QED
    BY <2>2, <2>3
<1>17. ASSUME NEW v \in Convs, PeerLeaves(v) PROVE ViewInv'
  BY <1>17, <1>s, <1>t, SameEarly, SameRemoved DEF PeerLeaves, Callback, Change, appVars
<1>18. ASSUME NEW v \in Convs, OnLastDatagram(v) \/ AcceptedTimeout(v) PROVE ViewInv'
  <2>1. /\ Remove(v) /\ UNCHANGED <<contract, allSession, msgDispatch>>
        /\ so[v].state \in {"SYN_RECV", "CLOSE_WAIT", "CLOSED"}
    BY <1>18 DEF OnLastDatagram, AcceptedTimeout, Reads, Callback, appVars
  <2>2. so' = [so EXCEPT ![v] = so'[v]] /\ so'[v].state = "removed"
    <3>1. so[v] \in Accepted
      BY <1>s
    <3>2. \A t \in Accepted :
            /\ [t EXCEPT !.state = "removed", !.hasConv = FALSE].state = "removed"
            /\ [SocketClosed(t) EXCEPT !.state = "removed", !.isInvalid = TRUE,
                                       !.hasConv = FALSE].state = "removed"
      BY DEF SocketClosed, Accepted
    <3>3. PICK t : so' = [so EXCEPT ![v] = t] /\ t.state = "removed"
      BY <2>1, <3>1, <3>2 DEF Remove
    <3>4. QED
      BY <1>s, <3>3
  <2>3. /\ \A id \in Convs : id # v => so'[id] = so[id]
        /\ ~Early(so'[v])
    BY <1>s, <2>2 DEF Early
  <2>4. CASE so[v].state = "CLOSE_WAIT"
    <3>1. contract.view[v] # "down" /\ PushMsg(SessionMsg("DIS_CONNECT", v))
      BY <1>a, <2>1, <2>4 DEF ViewInv, Agrees, Remove
    <3>2. QED
      BY <1>p, <2>1, <2>3, <3>1, ViewPushed DEF SessionMsgs
  <2>5. CASE so[v].state # "CLOSE_WAIT"
    <3>1. v \notin allSession /\ msgQue' = msgQue
      BY <1>a, <2>1, <2>5 DEF Agrees, Remove
    <3>2. \A id \in Convs : Departed(id)' => Departed(id)
      BY <2>1, <2>3, <3>1 DEF Departed
    <3>3. MsgsAhead' = MsgsAhead
      BY <2>1, <3>1 DEF MsgsAhead
    <3>4. \A id \in Convs : so[id].state = "removed" => so'[id].state = "removed"
      BY <2>2, <2>3
    <3>5. QED
      BY <2>1, <2>3, <3>2, <3>3, <3>4, ViewKept
  <2>6. QED
    BY <2>4, <2>5
<1>19. QED
  BY <1>1, <1>2, <1>3, <1>4, <1>5, <1>6, <1>7, <1>8, <1>9, <1>10, <1>11, <1>12, <1>13,
     <1>14, <1>15, <1>16, <1>17, <1>18
  DEF Next, Application, LoopThread, ExecuteOperation

(* The messages change by at most one, which is not EXIT_LOOP.             *)
LEMMA ExitKept ==
  ASSUME TypeOK, ExitInv, loop' = loop, exiting' = exiting, contract'.closed = contract.closed,
         loop \in {"stopped", "ended"} => allSession' = {},
         \/ MsgsAhead' = MsgsAhead
         \/ \E m \in Msg : m # Exit /\ MsgsAhead' = Append(MsgsAhead, m)
         \/ MsgsAhead # <<>> /\ MsgsAhead' = Tail(MsgsAhead)
  PROVE  ExitInv'
<1>1. (Has(MsgsAhead', Exit) => Has(MsgsAhead, Exit)) /\ Single(MsgsAhead', Exit)
  <2>1. Single(MsgsAhead, Exit)
    BY DEF ExitInv
  <2>2. CASE MsgsAhead' = MsgsAhead
    BY <2>1, <2>2
  <2>3. CASE \E m \in Msg : m # Exit /\ MsgsAhead' = Append(MsgsAhead, m)
    BY <2>1, <2>3, AheadType, HasAppend, SingleAppend
  <2>4. CASE MsgsAhead # <<>> /\ MsgsAhead' = Tail(MsgsAhead)
    BY <2>1, <2>4, AheadType, HasTail, SingleTail
  <2>5. QED
    BY <2>2, <2>3, <2>4
<1>2. QED
  BY <1>1 DEF ExitInv

LEMMA ExitStep ==
  ASSUME TypeOK, QueueShape, OrderInv, DepartInv, ViewInv, ExitInv, [Next]_vars
  PROVE  ExitInv'
<1>k. ASSUME UNCHANGED <<loop, exiting, contract>>, MsgsAhead' = MsgsAhead,
             allSession' \subseteq allSession
      PROVE  ExitInv'
  <2>1. loop \in {"stopped", "ended"} => allSession' = {}
    BY <1>k DEF ExitInv
  <2>2. QED
    BY <1>k, <2>1, ExitKept
<1>u. ASSUME UNCHANGED <<loop, exiting, contract, msgQue, msgDispatch>>,
             allSession' \subseteq allSession
      PROVE  ExitInv'
  BY <1>k, <1>u DEF MsgsAhead
<1>1. CASE Start
  <2>1. /\ loop = "none" /\ loop' = "running" /\ MsgsAhead' = MsgsAhead
        /\ UNCHANGED <<exiting, contract>>
    BY <1>1 DEF Start, MsgsAhead
  <2>2. QED
    BY <2>1 DEF ExitInv
<1>2. CASE Stop \/ Destroy \/ OnIdle \/ UNCHANGED vars
  BY <1>2, <1>u DEF Stop, Destroy, OnIdle, vars, appVars, loopVars, connVars
<1>3. ASSUME NEW v \in Convs, Send(v) \/ SendAndClose(v) \/ Disconnect(v) PROVE ExitInv'
  BY <1>3, <1>u DEF Send, SendAndClose, Disconnect, Request, connVars, loopVars
<1>4. CASE JoinReturns
  <2>1. msgDispatch' = <<>> /\ msgQue' = <<>> /\ UNCHANGED <<loop, exiting, contract, allSession>>
    BY <1>4 DEF JoinReturns, QueueShape, loopVars, connVars
  <2>2. DOMAIN MsgsAhead' = {}
    BY <2>1, NothingAhead, EmptySeq DEF MsgsAhead
  <2>3. QED
    BY <2>1, <2>2 DEF ExitInv, Has, Single
<1>5. CASE GetThreadMsg
  <2>1. MsgsAhead' = MsgsAhead
    BY <1>5, NothingAhead, EmptySeq DEF GetThreadMsg, MsgsAhead, TypeOK
  <2>2. QED
    BY <1>5, <1>k, <2>1 DEF GetThreadMsg, appVars, loopVars, connVars
<1>6. CASE DispatchMsg
  <2> DEFINE m == Head(msgDispatch)
  <2>1. /\ MsgsAhead \in Seq(Msg) /\ MsgsAhead # <<>>
        /\ Head(MsgsAhead) = m /\ MsgsAhead' = Tail(MsgsAhead)
        /\ UNCHANGED <<loop, exiting, allSession>> /\ contract' = Told(m) /\ m \in Msg
    BY <1>6, AheadType, MsgsPopped, HeadTailProperties DEF DispatchMsg, loopVars, connVars, TypeOK
  <2> HIDE DEF m
  <2>2. CASE m = Exit
    <3>1. Has(MsgsAhead, Exit) /\ ~Has(MsgsAhead', Exit) /\ Single(MsgsAhead', Exit)
      BY <2>1, <2>2, HasTail, SingleTail DEF ExitInv
    <3>2. QED
      BY <2>1, <3>1 DEF ExitInv
  <2>3. CASE m # Exit
    <3>0. \E v \in Convs, k \in SessionMsgs : m = SessionMsg(k, v)
      BY <2>1, <2>3 DEF Msg, Exit, SessionMsg
    <3>1. m.msg \in SessionMsgs
      BY <3>0 DEF SessionMsg
    <3>2. contract'.closed = contract.closed
      BY <2>1, <3>1 DEF Told, SessionMsgs, TypeOK, Contract
    <3>3. QED
      BY <2>1, <3>2, ExitKept DEF ExitInv
  <2>4. QED
    BY <2>2, <2>3
<1>7. CASE ExecuteOperation
  BY <1>7, <1>u DEF ExecuteOperation, ExecSend, ExecSendAndClose, ExecDisconnect, ExecDelete,
     ExecStopServer, Executes, appVars
<1>8. CASE OnIdleStage
  <2>1. /\ UNCHANGED <<exiting, contract, allSession, msgQue, msgDispatch>>
        /\ loop = "running"
    BY <1>8 DEF OnIdleStage, appVars
  <2>2. CASE loop' = loop
    BY <1>u, <2>1, <2>2
  <2>3. CASE loop' = "stopped" /\ allSession = {}
    BY <2>1, <2>3 DEF ExitInv, MsgsAhead
  <2>4. QED
    BY <1>8, <2>2, <2>3 DEF OnIdleStage, ClearSessions, StopLoop, NothingToDo, AllSessionsGone
<1>9. CASE RunReturns
  <2>1. /\ loop = "stopped" /\ loop' = "ended" /\ exiting' = TRUE
        /\ UNCHANGED <<contract, allSession, msgQue, msgDispatch>>
    BY <1>9 DEF RunReturns, appVars, connVars
  <2>2. QED
    BY <2>1 DEF ExitInv, MsgsAhead
<1>10. CASE RunEnds
  <2>1. /\ Exit \in Msg /\ PushMsg(Exit) /\ exiting /\ exiting' = FALSE
        /\ UNCHANGED <<loop, contract, allSession, msgDispatch>>
    BY <1>10 DEF RunEnds, Exit, Msg, appVars, connVars
  <2>2. MsgsAhead' = Append(MsgsAhead, Exit) /\ MsgsAhead \in Seq(Msg)
    BY <2>1, AheadType, MsgsPushed
  <2>3. loop = "ended" /\ ~contract.closed /\ ~Has(MsgsAhead, Exit) /\ Single(MsgsAhead, Exit)
    BY <2>1 DEF ExitInv
  <2>4. Single(MsgsAhead', Exit)
    BY <2>1, <2>2, <2>3, SingleAppend
  <2>5. QED
    BY <2>1, <2>3, <2>4 DEF ExitInv
<1>c. ASSUME Callback PROVE loop = "running" /\ UNCHANGED <<loop, exiting, contract, msgDispatch>>
  BY <1>c DEF Callback, appVars
<1>p. ASSUME Callback, NEW k \in SessionMsgs, NEW v \in Convs, PushMsg(SessionMsg(k, v))
      PROVE  ExitInv'
  <2>1. SessionMsg(k, v) \in Msg /\ SessionMsg(k, v) # Exit
    BY <1>p, SessionMsgType DEF SessionMsg, SessionMsgs, Exit
  <2>2. MsgsAhead' = Append(MsgsAhead, SessionMsg(k, v))
    BY <1>c, <1>p, <2>1, MsgsPushed
  <2>3. QED
    BY <1>c, <1>p, <2>1, <2>2, ExitKept
<1>11. CASE OnSyn \/ StopListenTick \/ OnServerSocketClose
  BY <1>11, <1>c, <1>u DEF OnSyn, StopListenTick, OnServerSocketClose, Reads, connVars
<1>12. ASSUME NEW v \in Convs, OnAck(v) PROVE ExitInv'
  BY <1>12, <1>p DEF OnAck, Reads, SessionMsgs
<1>13. ASSUME NEW v \in Convs, OnRecv(v) PROVE ExitInv'
  BY <1>13, <1>c, <1>p, <1>u DEF OnRecv, Reads, SessionMsgs, connVars
<1>14. ASSUME NEW v \in Convs, PeerLeaves(v) PROVE ExitInv'
  BY <1>14, <1>c, <1>u DEF PeerLeaves
<1>15. ASSUME NEW v \in Convs, OnLastDatagram(v) \/ AcceptedTimeout(v) PROVE ExitInv'
  <2>1. Callback /\ Remove(v) /\ allSession' = allSession
    BY <1>15 DEF OnLastDatagram, AcceptedTimeout, Reads
  <2>2. QED
    BY <1>c, <1>p, <1>u, <2>1 DEF Remove, SessionMsgs
<1>16. QED
  BY <1>1, <1>2, <1>3, <1>4, <1>5, <1>6, <1>7, <1>8, <1>9, <1>10, <1>11, <1>12, <1>13,
     <1>14, <1>15
  DEF Next, Application, LoopThread

LEMMA ContractInit == Init => ViewInv /\ ExitInv /\ Promise!Init
<1> SUFFICES ASSUME Init PROVE ViewInv /\ ExitInv /\ Promise!Init
  OBVIOUS
<1>1. DOMAIN MsgsAhead = {}
  BY NothingAhead, EmptySeq DEF Init, MsgsAhead
<1>2. contract.view = [v \in Convs |-> "new"] /\ contract.closed = FALSE
  BY DEF Init
<1>3. allSession = {} /\ loop = "none" /\ exiting = FALSE
  BY DEF Init
<1>4. ViewInv
  BY <1>1, <1>2, <1>3 DEF ViewInv, Leads, Has, Departed
<1>5. ExitInv
  BY <1>1, <1>2, <1>3 DEF ExitInv, Has, Single
<1>6. QED
  BY <1>2, <1>4, <1>5 DEF Promise!Init

(* A step that is no callback leaves the contract alone.                   *)
LEMMA OthersTellNothing ==
  ASSUME [Next]_vars, ~DispatchMsg
  PROVE  contract' = contract
BY DEF Next, Application, LoopThread, ExecuteOperation, Start, Stop, Destroy, JoinReturns, Send,
   SendAndClose, Disconnect, Request, GetThreadMsg, OnIdle, ExecSend, ExecSendAndClose,
   ExecDisconnect, ExecDelete, ExecStopServer, Executes, OnIdleStage, RunReturns, RunEnds,
   OnSyn, StopListenTick, OnServerSocketClose, OnAck, OnRecv, PeerLeaves, OnLastDatagram,
   AcceptedTimeout, Reads, Callback, vars, appVars

(* The callbacks of the application are those of ServerContract, in its    *)
(* order: every one that is made is a step of it, and nothing else is.     *)
THEOREM ContractCorrect == SafeSpec => ImplementsContract
<1> DEFINE Inv == TypeOK /\ QueueShape /\ OrderInv /\ DepartInv /\ ViewInv /\ ExitInv
<1>1. Init => Inv /\ Promise!Init
  BY TypeInit, QueueShapeInit, OrderInit, DepartInit, ContractInit
<1>2. Inv /\ [Next]_vars => Inv'
  BY TypeStep, QueueShapeStep, OrderStep, DepartStep, ViewStep, ExitStep
<1>3. Inv /\ [Next]_vars => [DispatchMsg => Promised(Head(msgDispatch))]_vars
  BY ViewDispatch
<1>4. Inv /\ [Next]_vars => [Promise!Next]_(Promise!vars)
  <2>1. ASSUME Inv, DispatchMsg PROVE Promise!Next
    <3> DEFINE m == Head(msgDispatch)
    <3>1. Promised(m)
      BY <2>1, ViewDispatch
    <3>2. m \in Msg
      BY <2>1, HeadTailProperties DEF DispatchMsg, TypeOK
    <3> HIDE DEF m
    <3>3. QED
      BY <3>1, <3>2 DEF Promised, Promise!Next, Msg, SessionMsgs
  <2>2. ASSUME [Next]_vars, ~DispatchMsg PROVE UNCHANGED Promise!vars
    BY <2>2, OthersTellNothing DEF Promise!vars
  <2>3. QED
    BY <2>1, <2>2
<1> HIDE DEF Inv
<1>5. QED
  BY <1>1, <1>2, <1>3, <1>4, PTL DEF SafeSpec, ImplementsContract, Promise!Spec
=============================================================================
