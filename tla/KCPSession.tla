----------------------------- MODULE KCPSession -----------------------------
(***************************************************************************)
(* KCPSession and the KCPSocket it owns, on the loop thread: what one call *)
(* does to a session that has been connected.  A session is a record with  *)
(* at least the fields                                                     *)
(*   online   m_isOnline                                                   *)
(*   state    m_kcpState of the socket                                     *)
(*   hasConv  its getConv() is not 0                                       *)
(* FIN_WAIT is the closing state of a client's socket, CLOSE_WAIT that of  *)
(* an accepted one.                                                        *)
(***************************************************************************)

\* Mutants: m_soType is not looked at.
SocketDisconnectAsClient(s, closing) ==
  IF s.hasConv /\ s.state = "ESTABLISHED" THEN [s EXCEPT !.state = "FIN_WAIT"] ELSE s
SocketDisconnectAsServer(s, closing) ==
  IF s.hasConv /\ s.state = "ESTABLISHED" THEN [s EXCEPT !.state = "CLOSE_WAIT"] ELSE s

\* KCPSocket::disconnect of a connected socket: a FIN, and the closing state.
\* A socket that is closing already is left alone, and so is one without a conv.
SocketDisconnect(s, closing) ==
  IF s.hasConv /\ s.state = "ESTABLISHED" THEN [s EXCEPT !.state = closing] ELSE s

\* executeDisconnect: nothing unless the session is online.  It goes offline
\* whatever its socket does.
ExecuteDisconnect(s, closing) ==
  IF s.online THEN SocketDisconnect([s EXCEPT !.online = FALSE], closing) ELSE s

\* The sessions that executeSend can leave: ikcp takes the data, or there is
\* no ikcp or it refuses, and the session disconnects.
AfterSend(s, hasKcp, closing) ==
  {ExecuteDisconnect(s, closing)} \cup (IF hasKcp THEN {s} ELSE {})

\* on_socket_close
SocketClosed(s) == [s EXCEPT !.online = FALSE]
=============================================================================
