---------------------------- MODULE ThreadQueue ----------------------------
(***************************************************************************)
(* The hand-off between two threads that every client, server and peer of  *)
(* net_uv is built on.  There are two instances of it in each object:      *)
(*                                                                         *)
(*   m_operationMutex, m_operationQue, m_operationDispatchQue              *)
(*     filled by SessionManager::pushOperation (any thread, the loop       *)
(*     thread included), emptied by executeOperation on the loop thread;   *)
(*                                                                         *)
(*   m_msgMutex, m_msgQue, m_msgDispatchQue                                *)
(*     filled by Runnable::pushThreadMsg (loop thread), emptied by         *)
(*     updateFrame, through getThreadMsg, on the application's thread.     *)
(*                                                                         *)
(* The consumer only TRIES the lock: when a producer holds it, or when the *)
(* queue is empty, it returns and polls again on its next tick, which      *)
(* changes nothing and is a stuttering step here.                          *)
(*                                                                         *)
(* What other modules call Init, Next, Spec and TypeOK is QueueInit and so *)
(* on here: the module of the proofs extends a second specification.       *)
(***************************************************************************)
EXTENDS Naturals, Sequences

CONSTANTS
  Threads,     \* the threads that push
  Consumer,    \* the one thread that drains and dispatches; it pushes too
               \* when it is one of Threads
  NoThread,    \* the mutex is free
  Msgs,        \* what is handed over
  NoMsg,       \* a thread is not inside a push
  MaxPending   \* bound of the model: messages in the two queues together

ASSUME ThreadsAssumption == NoThread \notin Threads \cup {Consumer}
ASSUME MsgsAssumption    == NoMsg \notin Msgs
ASSUME BoundAssumption   == MaxPending \in Nat

VARIABLES
  lock,        \* the owner of the mutex
  carried,     \* carried[t]: what t is pushing, while it holds the mutex
  que,         \* m_operationQue / m_msgQue
  dispatch,    \* m_operationDispatchQue / m_msgDispatchQue
  at           \* where the consumer is in executeOperation / updateFrame

queueVars == <<lock, carried, que, dispatch, at>>

Places == {"idle", "draining", "dispatching"}

QueueTypeOK == /\ lock \in Threads \cup {Consumer, NoThread}
               /\ carried \in [Threads -> Msgs \cup {NoMsg}]
               /\ que \in Seq(Msgs)
               /\ dispatch \in Seq(Msgs)
               /\ at \in Places

QueueInit == /\ lock = NoThread
             /\ carried = [t \in Threads |-> NoMsg]
             /\ que = <<>>
             /\ dispatch = <<>>
             /\ at = "idle"

-----------------------------------------------------------------------------
\* Mutant of LockToPush: the push does not wait for the mutex.
LockToPushRacing(t, m) ==
  /\ carried[t] = NoMsg
  /\ t = Consumer => at # "draining"
  /\ Len(dispatch) + Len(que) < MaxPending
  /\ lock' = t
  /\ carried' = [carried EXCEPT ![t] = m]
  /\ UNCHANGED <<que, dispatch, at>>

\* Mutant of PushAndUnlock: the record is cleared before it is queued.
PushCleared(t) ==
  /\ carried[t] # NoMsg
  /\ carried' = [carried EXCEPT ![t] = NoMsg]
  /\ que' = Append(que, carried'[t])
  /\ lock' = NoThread
  /\ UNCHANGED <<dispatch, at>>

\* Mutant of DispatchOne: one message of the batch is handled, the rest of
\* the batch goes with it.
DispatchFirstOnly ==
  /\ at = "dispatching"
  /\ lock # Consumer
  /\ dispatch' = <<>>
  /\ at' = "idle"
  /\ UNCHANGED <<lock, carried, que>>

\* pushOperation, pushThreadMsg: build the record and take the mutex (lock(),
\* which waits).  The loop thread also pushes to the queue it drains, in the
\* middle of a batch: an executeSendAndClose that executeOperation dispatches
\* calls disconnect, which pushes an operation.
LockToPush(t, m) ==
  /\ carried[t] = NoMsg
  /\ lock = NoThread
  /\ Len(dispatch) + Len(que) < MaxPending
  /\ lock' = t
  /\ carried' = [carried EXCEPT ![t] = m]
  /\ UNCHANGED <<que, dispatch, at>>

\* ... push the record and release the mutex.
PushAndUnlock(t) ==
  /\ carried[t] # NoMsg
  /\ que' = Append(que, carried[t])
  /\ carried' = [carried EXCEPT ![t] = NoMsg]
  /\ lock' = NoThread
  /\ UNCHANGED <<dispatch, at>>

\* getThreadMsg, executeOperation: trylock() succeeds and the queue is not
\* empty.  A consumer in the middle of its own push is not polling.
TryLock ==
  /\ at = "idle"
  /\ lock = NoThread
  /\ que # <<>>
  /\ lock' = Consumer
  /\ at' = "draining"
  /\ UNCHANGED <<carried, que, dispatch>>

\* One turn of the loop that moves the queue over, still under the mutex.
MoveOne ==
  /\ at = "draining"
  /\ que # <<>>
  /\ dispatch' = Append(dispatch, Head(que))
  /\ que' = Tail(que)
  /\ UNCHANGED <<lock, carried, at>>

\* The queue is empty: release the mutex, then work through the batch.
UnlockDrained ==
  /\ at = "draining"
  /\ que = <<>>
  /\ lock' = NoThread
  /\ at' = "dispatching"
  /\ UNCHANGED <<carried, que, dispatch>>

\* One turn of the switch over the front of the dispatch queue, and its pop,
\* which waits for the pushes its handler makes.
DispatchOne ==
  /\ at = "dispatching"
  /\ lock # Consumer
  /\ dispatch # <<>>
  /\ dispatch' = Tail(dispatch)
  /\ at' = IF Len(dispatch) = 1 THEN "idle" ELSE at
  /\ UNCHANGED <<lock, carried, que>>

QueueNext ==
  \/ \E t \in Threads : \E m \in Msgs : LockToPush(t, m)
  \/ \E t \in Threads : PushAndUnlock(t)
  \/ TryLock
  \/ MoveOne
  \/ UnlockDrained
  \/ DispatchOne

\* A thread that holds the mutex runs on; the consumer polls for ever (the
\* 1 ms timer of the loop, the application's frame).  Its trylock needs
\* STRONG fairness: producers may take the mutex again and again, and only
\* in between is it free.  So does the end of a handler: no handler pushes for
\* ever, but it may push between any two of its steps.
QueueFairness ==
  /\ \A t \in Threads : WF_queueVars(PushAndUnlock(t))
  /\ SF_queueVars(TryLock)
  /\ WF_queueVars(MoveOne)
  /\ WF_queueVars(UnlockDrained)
  /\ SF_queueVars(DispatchOne)

QueueSafeSpec == QueueInit /\ [][QueueNext]_queueVars
QueueSpec == QueueSafeSpec /\ QueueFairness

-----------------------------------------------------------------------------
\* The mutex protects the two queues: it has an owner exactly while one
\* thread is inside its critical section, and that thread is the owner.  The
\* consumer, which pushes while it works off a batch, never does so while it
\* drains (the mutex is not recursive), and polls again only after the batch
\* (otherwise a second drain would append to a half-dispatched one).
LockDiscipline ==
  /\ \A t \in Threads : carried[t] # NoMsg => lock = t /\ (t = Consumer => at # "draining")
  /\ at = "draining" => lock = Consumer /\ \A t \in Threads : carried[t] = NoMsg
  /\ lock # NoThread /\ at # "draining" => lock \in Threads /\ carried[lock] # NoMsg
  /\ at = "idle" => dispatch = <<>>
  /\ at = "dispatching" => dispatch # <<>>
  /\ at = "draining" => que # <<>> \/ dispatch # <<>>

\* The two queues and the lock implement a plain FIFO: nothing is lost,
\* duplicated or reordered however the threads interleave, and everything
\* pushed is dispatched in the end.
Fifo == INSTANCE MsgFifo WITH pending <- dispatch \o que
FifoSafe == Fifo!SafeSpec
FifoSpec == Fifo!Spec
=============================================================================
