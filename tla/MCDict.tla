------------------------------- MODULE MCDict -------------------------------
(* Hashes for the model of libdict: keys that collide at once, keys that       *)
(* collide until perturb is shifted, and keys that all start elsewhere.        *)
EXTENDS Dict, TLC

MCKeys == 1 .. 4
MCHash == <<0, 4, 36, 1>>

Symmetry == Permutations(Vals)

MCSpreadKeys == 1 .. 8
MCSpreadHash == [k \in MCSpreadKeys |-> k]
=============================================================================
