---------------------------- MODULE MCNetMsgMgr ----------------------------
(* Instances of NetMsgMgr for TLC. *)
EXTENDS NetMsgMgr
=============================================================================
