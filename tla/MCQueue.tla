------------------------------ MODULE MCQueue ------------------------------
(***************************************************************************)
(* Small instances of Queue: a reader of the branch "a" and a plain reader *)
(* beside two writers that may be interchanged, and one reader on each of  *)
(* two branches.                                                           *)
(***************************************************************************)
EXTENDS Queue, TLC

Symmetry == Permutations(Writers)

OneOnBranch == ("r1" :> "a") @@ ("r2" :> "none")
EachItsBranch == ("r1" :> "a") @@ ("r2" :> "b")
=============================================================================
