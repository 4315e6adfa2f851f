---------------------------- MODULE MCTCPServer ----------------------------
(* Instances of TCPServer for TLC. *)
EXTENDS TCPServer

AllCalls     == {"startServer", "stopServer", "send", "sendAndClose",
                 "disconnect", "destroy"}
RestartCalls == {"startServer", "restart", "stopServer"}
FirstTalks == {0}
=============================================================================
