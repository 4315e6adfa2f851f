------------------------------ MODULE MsgFifo ------------------------------
(***************************************************************************)
(* What the two hand-off queues of net_uv promise to the code that uses    *)
(* them: a message put by any thread is taken by the one consuming thread, *)
(* once, and in the order of the puts.  Runnable::pushThreadMsg and        *)
(* SessionManager::pushOperation put; updateFrame and executeOperation     *)
(* take.  No lock, no batch: ThreadQueue shows that the locked pair of     *)
(* std::queue objects implements this.                                     *)
(***************************************************************************)
EXTENDS Sequences

CONSTANT Msgs       \* the messages (or operations) that can be handed over

VARIABLE pending    \* put and not yet taken, the oldest first

Init == pending = <<>>

Put(m) == pending' = Append(pending, m)

Take == /\ pending # <<>>
        /\ pending' = Tail(pending)

Next == (\E m \in Msgs : Put(m)) \/ Take

SafeSpec == Init /\ [][Next]_pending

\* The consumer polls, so what has been put is taken in the end.
Spec == SafeSpec /\ WF_pending(Take)
=============================================================================
