---------------------------- MODULE MCTCPClient ----------------------------
(* Instances of TCPClient for TLC. *)
EXTENDS TCPClient

AllCalls == {"connect", "disconnect", "send", "sendAndClose", "removeSession",
             "setSocketNoDelay", "closeClient", "destroy"}
OneSession  == {1}
=============================================================================
