-------------------------- MODULE SessionContract --------------------------
(***************************************************************************)
(* What a client of net_uv promises to the application that polls it: in   *)
(* which order the callbacks set with setConnectCallback, setRecvCallback, *)
(* setDisconnectCallback, setRemoveSessionCallback and                     *)
(* setClientCloseCallback can be called.  No thread, queue or socket: this *)
(* is the abstract specification that TCPClient implements.                *)
(***************************************************************************)
CONSTANT SessionIds

VARIABLES
  view,      \* view[id]: what the callbacks told the application of id
  asked,     \* the sessions it has asked to be rid of: removeSession(id), or
             \* closeClient for all of them
  closed     \* the client-close callback has been made

vars == <<view, asked, closed>>

Init == /\ view = [id \in SessionIds |-> "absent"]
        /\ asked = {}
        /\ closed = FALSE

\* The application calls removeSession or closeClient.
Ask(ids) == asked' = asked \cup ids /\ UNCHANGED <<view, closed>>

Callback(id, what) ==
  ~closed /\ view' = [view EXCEPT ![id] = what] /\ UNCHANGED <<asked, closed>>

\* Connected: never twice without a disconnect in between.
OnConnect(id) ==
  view[id] # "up" /\ Callback(id, "up")

\* A failed attempt, timed out or not, is one of a session not connected.
OnConnectFail(id) ==
  view[id] # "up" /\ Callback(id, "down")

\* Data arrives on a connected session only.
OnRecv(id) ==
  view[id] = "up" /\ Callback(id, "up")

\* A disconnect is told to an application that was told of the connection, or
\* that has given the session up before it heard of one.
OnDisconnect(id) ==
  /\ view[id] = "up" \/ id \in asked
  /\ Callback(id, "down")

\* A session goes away only on request, and not while it is connected.
OnRemove(id) ==
  /\ view[id] = "down" /\ id \in asked
  /\ Callback(id, "absent")

\* The client reports that it is closed once, when every session is gone, and
\* calls nothing afterwards.
OnClose ==
  /\ ~closed
  /\ \A id \in SessionIds : view[id] = "absent"
  /\ asked = SessionIds
  /\ closed' = TRUE
  /\ UNCHANGED <<view, asked>>

Next ==
  \/ \E ids \in SUBSET SessionIds : Ask(ids)
  \/ \E id \in SessionIds :
       \/ OnConnect(id) \/ OnConnectFail(id) \/ OnRecv(id)
       \/ OnDisconnect(id) \/ OnRemove(id)
  \/ OnClose

Spec == Init /\ [][Next]_vars
=============================================================================
