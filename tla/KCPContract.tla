---------------------------- MODULE KCPContract ----------------------------
(***************************************************************************)
(* What the handshake of KCPSocket promises the two sides that use it.     *)
(*                                                                         *)
(* A client that connects is answered once, with 1 (a connection, known by *)
(* its conv) or with a failure, and a connection it was given is closed    *)
(* once.  A server is given only connections a client was given, each one  *)
(* once, and closes it once.  A conv that was given once is not given      *)
(* again, except to a connect that repeats the random value of an earlier  *)
(* one of its address.  The listening socket reports its close after every *)
(* connection of it.                                                       *)
(***************************************************************************)
EXTENDS Naturals

CONSTANTS Clients, Convs

VARIABLES
  cli,      \* cli[c]: "idle", "waiting" or "repeating" (waiting too), "up"
  given,    \* the convs clients were answered with
  svr,      \* svr[v]: "none", "up", "down"
  listener, \* "up", "closed"
  calls     \* callbacks made

vars == <<cli, given, svr, listener, calls>>

Init == /\ cli = [c \in Clients |-> "idle"]
        /\ given = {}
        /\ svr = [v \in Convs |-> "none"]
        /\ listener = "up"
        /\ calls = 0

Waits(c) == cli[c] \in {"waiting", "repeating"}

\* connect, with a value that is new to its address or not.  (Again while it
\* waits: a connect whose answer was lost.)
Connect(c) == /\ cli[c] # "up"
              /\ \E x \in {"waiting", "repeating"} : cli' = [cli EXCEPT ![c] = x]
              /\ UNCHANGED <<given, svr, listener, calls>>

Call == calls' = calls + 1

\* m_connectCall(1)
Connected(c, v) ==
  /\ Waits(c)
  /\ cli[c] = "waiting" => v \notin given
  /\ cli' = [cli EXCEPT ![c] = "up"]
  /\ given' = given \cup {v}
  /\ Call /\ UNCHANGED <<svr, listener>>

\* m_connectCall(0), m_connectCall(2)
Failed(c) ==
  /\ Waits(c)
  /\ cli' = [cli EXCEPT ![c] = "idle"]
  /\ Call /\ UNCHANGED <<given, svr, listener>>

\* m_closeCall of a client's socket
ClientClosed(c) ==
  /\ cli[c] = "up"
  /\ cli' = [cli EXCEPT ![c] = "idle"]
  /\ Call /\ UNCHANGED <<given, svr, listener>>

\* m_newConnectionCall
NewConnection(v) ==
  /\ listener = "up" /\ svr[v] = "none" /\ v \in given
  /\ svr' = [svr EXCEPT ![v] = "up"]
  /\ Call /\ UNCHANGED <<cli, given, listener>>

\* m_closeCall of an accepted socket
AcceptedClosed(v) ==
  /\ svr[v] = "up"
  /\ svr' = [svr EXCEPT ![v] = "down"]
  /\ Call /\ UNCHANGED <<cli, given, listener>>

\* m_closeCall of the listening socket
ListenerClosed ==
  /\ listener = "up" /\ \A v \in Convs : svr[v] # "up"
  /\ listener' = "closed"
  /\ Call /\ UNCHANGED <<cli, given, svr>>

Next == \/ \E c \in Clients : \/ Connect(c) \/ Failed(c) \/ ClientClosed(c)
                              \/ \E v \in Convs : Connected(c, v)
        \/ \E v \in Convs : NewConnection(v) \/ AcceptedClosed(v)
        \/ ListenerClosed

Spec == Init /\ [][Next]_vars
=============================================================================
