---------------------------- MODULE MCKCPSocket ----------------------------
(* Instances of KCPSocket for TLC. *)
EXTENDS KCPSocket
=============================================================================
