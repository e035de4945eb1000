------------------------------- MODULE MCIpc -------------------------------
(* libipc with two notification threads a side, which may be interchanged.     *)
EXTENDS Ipc, TLC

Symmetry == Permutations(Threads)
=============================================================================
