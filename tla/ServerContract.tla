--------------------------- MODULE ServerContract ---------------------------
(***************************************************************************)
(* What a server promises the application that polls updateFrame: the      *)
(* callbacks of every session come in the order NEW_CONNECT, RECV_DATA     *)
(* ..., DIS_CONNECT, each of the outer two once; and the close callback    *)
(* comes once, after the last session is gone.  A TCP server announces     *)
(* sessions in the order of their ids.                                     *)
(***************************************************************************)
EXTENDS Naturals

CONSTANTS
  Sessions,   \* the session ids, 0, 1, ... in the order they are made
  InOrder     \* sessions are announced in the order of their ids

VARIABLES
  view,     \* view[id]: "new" not announced yet, "up", "down"
  closed    \* the close callback was made

vars == <<view, closed>>

Init == /\ view = [id \in Sessions |-> "new"]
        /\ closed = FALSE

Callback(id, what) == ~closed /\ view' = [view EXCEPT ![id] = what] /\ UNCHANGED closed

\* m_newConnectCall
OnNewConnect(id) ==
  /\ view[id] = "new"
  /\ InOrder => \A older \in Sessions : older < id => view[older] # "new"
  /\ Callback(id, "up")

\* m_recvCall: of a session that is announced and not gone.
OnRecv(id) == view[id] = "up" /\ Callback(id, "up")

\* m_disconnectCall
OnDisconnect(id) == view[id] = "up" /\ Callback(id, "down")

\* m_closeCall
OnClose ==
  /\ ~closed
  /\ \A id \in Sessions : view[id] # "up"
  /\ closed' = TRUE
  /\ UNCHANGED view

Next == \/ \E id \in Sessions : OnNewConnect(id) \/ OnRecv(id) \/ OnDisconnect(id)
        \/ OnClose

Spec == Init /\ [][Next]_vars
=============================================================================
