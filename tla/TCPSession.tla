----------------------------- MODULE TCPSession -----------------------------
(***************************************************************************)
(* TCPSession and the TCPSocket it owns, on the loop thread: what one call *)
(* does to a session.  A session is a record with at least the fields      *)
(*   online   m_isOnline                                                   *)
(*   handle   m_tcp: "none" NULL; "connecting" a connect request is        *)
(*            pending; "open"; "failed" not NULL, its connect failed;      *)
(*            "closing" NULL, the close callback of the old handle is      *)
(*            pending                                                      *)
(*   closers  writes of sendAndClose that libuv has not called back        *)
(* The client's records and the server's have further fields of their own. *)
(***************************************************************************)
EXTENDS Naturals

Handles == {"none", "connecting", "open", "failed", "closing"}

HasTcp(s) == s.handle \in {"connecting", "open", "failed"}

\* TCPSocket::disconnect, shutdownSocket
ShutdownSocket(s) == IF HasTcp(s) THEN [s EXCEPT !.handle = "closing"] ELSE s

\* Mutant: the session forgets that it is offline now.
ExecuteDisconnectStaysOnline(s) == IF s.online THEN ShutdownSocket(s) ELSE s

\* executeDisconnect: nothing unless the session is online.
ExecuteDisconnect(s) ==
  IF s.online THEN ShutdownSocket([s EXCEPT !.online = FALSE]) ELSE s

CanWrite(s) == s.online /\ HasTcp(s)

\* The sessions that executeSend can leave: uv_write takes the data, or there
\* is no handle or uv_write refuses, and the session disconnects.
AfterSend(s) ==
  {ExecuteDisconnect(s)} \cup (IF CanWrite(s) THEN {s} ELSE {})

\* executeSendAndClose: the same, and the completion of the write will
\* disconnect the session.
AfterSendAndClose(s) ==
  {ExecuteDisconnect(s)}
  \cup (IF CanWrite(s) THEN {[s EXCEPT !.closers = @ + 1]} ELSE {})

\* on_socket_close
SocketClosed(s) ==
  [s EXCEPT !.online = FALSE, !.handle = "none", !.closers = 0]
=============================================================================
