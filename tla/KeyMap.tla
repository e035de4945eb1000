------------------------------- MODULE KeyMap -------------------------------
(***************************************************************************)
(* What libdict and libhash promise: a map from keys to values, where an   *)
(* absent key reads as NULL and every call sees the calls before it.       *)
(***************************************************************************)
CONSTANTS Keys, Vals, NULL

VARIABLES map,  \* the value of each key, NULL when it has none
          call  \* the last call: what was asked and what was returned

Init ==
    /\ map = [k \in Keys |-> NULL]
    /\ call = <<"new">>

Set(k, v) ==
    /\ map' = [map EXCEPT ![k] = v]
    /\ call' = <<"set", k, v>>

Del(k) ==
    /\ map' = [map EXCEPT ![k] = NULL]
    /\ call' = <<"del", k>>

Get(k) ==
    /\ call' = <<"get", k, map[k]>>
    /\ UNCHANGED map

Next == \E k \in Keys : Get(k) \/ Del(k) \/ \E v \in Vals : Set(k, v)

Spec == Init /\ [][Next]_<<map, call>>
=============================================================================
