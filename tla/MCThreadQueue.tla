--------------------------- MODULE MCThreadQueue ---------------------------
(***************************************************************************)
(* The operation queue of a client: the application's thread and the loop  *)
(* thread both push, the loop thread drains.                               *)
(***************************************************************************)
EXTENDS ThreadQueue

CONSTANTS app, worker, loop, m1, m2

MCThreads == {app, worker, loop}
MCMsgs    == {m1, m2}

=============================================================================
