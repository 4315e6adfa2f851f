---------------------------- MODULE MCKCPServer ----------------------------
(* Instances of KCPServer for TLC. *)
EXTENDS KCPServer

AllCalls == {"startServer", "stopServer", "send", "sendAndClose", "disconnect",
             "destroy"}
FirstTalks == {0}
=============================================================================
