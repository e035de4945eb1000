------------------------------ MODULE ByteFifo ------------------------------
(***************************************************************************)
(* What a caller of libringbuffer is promised: a byte queue of Cap bytes.  *)
(* A write is all or nothing, a read takes the oldest bytes there are, a   *)
(* dump looks at the content without taking it, a cleanup forgets it.      *)
(* Nothing here knows of indices or of wrapping.                           *)
(***************************************************************************)
EXTENDS Integers, Sequences

CONSTANTS Byte,    \* the bytes
          Cap,     \* the argument of rb_create
          MaxReq   \* bound: the longest write or read a caller asks for

VARIABLES contents,  \* the bytes written and not yet read, oldest first
          call,      \* the last call, with its argument
          ret,       \* what the last call returned
          out        \* the bytes the last call handed to its caller

vars == <<contents, call, ret, out>>

Requests == UNION {[1 .. n -> Byte] : n \in 0 .. MaxReq}

Init == contents = <<>> /\ call = <<"create">> /\ ret = 0 /\ out = <<>>

Write(data) ==
    /\ call' = <<"write", data>>
    /\ out' = <<>>
    /\ \/ /\ Len(contents) + Len(data) <= Cap
          /\ contents' = contents \o data
          /\ ret' = Len(data)
       \/ /\ Len(contents) + Len(data) > Cap
          /\ ret' = -1
          /\ UNCHANGED contents

Taken(n) == IF n <= Len(contents) THEN n ELSE Len(contents)

Read(n) ==
    /\ call' = <<"read", n>>
    /\ ret' = Taken(n)
    /\ out' = SubSeq(contents, 1, Taken(n))
    /\ contents' = SubSeq(contents, Taken(n) + 1, Len(contents))

Dump ==
    /\ call' = <<"dump">>
    /\ out' = contents
    /\ ret' = Len(contents)
    /\ UNCHANGED contents

Cleanup ==
    /\ call' = <<"cleanup">>
    /\ contents' = <<>>
    /\ ret' = 0
    /\ out' = <<>>

Next ==
    \/ \E data \in Requests : Write(data)
    \/ \E n \in 0 .. MaxReq : Read(n)
    \/ Dump
    \/ Cleanup

Spec == Init /\ [][Next]_vars
=============================================================================
