------------------------------- MODULE MCHash -------------------------------
(* Keys of one hash, of one bucket and of the last bucket, in a number of      *)
(* buckets that is no power of two.                                            *)
EXTENDS Hash

MCKeys == 1 .. 4
MCHashOf == <<1, 1, 3, 5>>
=============================================================================
