---------------------------- MODULE MCKCPClient ----------------------------
(* Instances of KCPClient for TLC. *)
EXTENDS KCPClient

AllCalls == {"connect", "disconnect", "send", "sendAndClose", "removeSession",
             "closeClient", "destroy"}
OneSession  == {1}
ConnectAndSend == {"connect", "sendAndClose"}
=============================================================================
