---------------------------- MODULE MCWorkQueue ----------------------------
(***************************************************************************)
(* Small pools of WorkQueue.                                               *)
(***************************************************************************)
EXTENDS WorkQueue
=============================================================================
