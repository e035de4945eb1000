----------------------------- MODULE RingBuffer -----------------------------
(***************************************************************************)
(* libringbuffer: a byte ring of length = Cap + 1 cells, one of which      *)
(* stays unused, with a read index start and a write index end.            *)
(***************************************************************************)
EXTENDS Integers, Sequences

CONSTANTS Byte,    \* the bytes
          Cap,     \* the argument of rb_create
          MaxReq   \* bound: the longest write or read a caller asks for

ASSUME RingAssumption == Cap \in Nat /\ MaxReq \in Nat /\ Byte # {}

VARIABLES buffer,  \* rb->buffer, a cell for every index below rb->length
          start,   \* rb->start
          end,     \* rb->end
          call,    \* history: the last call, with its argument
          ret,     \* what the last call returned
          out      \* the bytes the last call handed to its caller

vars == <<buffer, start, end, call, ret, out>>

length == Cap + 1
Index == 0 .. Cap

Requests == UNION {[1 .. n -> Byte] : n \in 0 .. MaxReq}

rb_get_space_free ==
    IF end >= start THEN length - (end - start) - 1 ELSE start - end - 1

rb_get_space_used ==
    IF end >= start THEN end - start ELSE length - (start - end)

\* memcpy(mem + at, src + from, n): n cells from at on get src's bytes
CopyIn(mem, at, src, from, n) ==
    [i \in DOMAIN mem |->
        IF at <= i /\ i < at + n THEN src[from + (i - at) + 1] ELSE mem[i]]

\* memcpy(buf, mem + at, n): the n bytes from at on
CopyOut(mem, at, n) == [i \in 1 .. n |-> mem[at + i - 1]]

\* calloc clears the cells
Zero == CHOOSE b \in Byte : TRUE

rb_create ==
    /\ buffer = [i \in Index |-> Zero]
    /\ start = 0
    /\ end = 0
    /\ call = <<"create">>
    /\ ret = 0
    /\ out = <<>>

Init == rb_create

\* "Not enough space"
WriteRefused(data) ==
    /\ Len(data) > rb_get_space_free
    /\ ret' = -1
    /\ UNCHANGED <<buffer, end>>

\* Mutant: the second copy starts again at the caller's first byte.
WriteWrapped_from_first(data) ==
    LET half_tail == length - end
        half_head == Len(data) - half_tail
        end1 == (end + half_tail) % length
    IN  /\ Len(data) <= rb_get_space_free
        /\ length - end < Len(data)
        /\ buffer' = CopyIn(CopyIn(buffer, end, data, 0, half_tail),
                            end1, data, 0, half_head)
        /\ end' = (end1 + half_head) % length
        /\ ret' = Len(data)

\* the bytes do not fit before the last cell: two copies
WriteWrapped(data) ==
    LET half_tail == length - end
        half_head == Len(data) - half_tail
        end1 == (end + half_tail) % length
    IN  /\ Len(data) <= rb_get_space_free
        /\ length - end < Len(data)
        /\ buffer' = CopyIn(CopyIn(buffer, end, data, 0, half_tail),
                            end1, data, half_tail, half_head)
        /\ end' = (end1 + half_head) % length
        /\ ret' = Len(data)

\* Mutant: the write index is not reduced when it reaches the end.
WriteStraight_unreduced(data) ==
    /\ Len(data) <= rb_get_space_free
    /\ length - end >= Len(data)
    /\ buffer' = CopyIn(buffer, end, data, 0, Len(data))
    /\ end' = end + Len(data)
    /\ ret' = Len(data)

WriteStraight(data) ==
    /\ Len(data) <= rb_get_space_free
    /\ length - end >= Len(data)
    /\ buffer' = CopyIn(buffer, end, data, 0, Len(data))
    /\ end' = (end + Len(data)) % length
    /\ ret' = Len(data)

rb_write(data) ==
    /\ call' = <<"write", data>>
    /\ WriteRefused(data) \/ WriteWrapped(data) \/ WriteStraight(data)
    /\ out' = <<>>
    /\ UNCHANGED start

\* the bytes rb_read and rb_dump copy out: n bytes from start on, the copy
\* broken in two at the last cell
Gather(n) ==
    LET half_tail == length - start IN
    IF half_tail < n
    THEN CopyOut(buffer, start, half_tail) \o CopyOut(buffer, 0, n - half_tail)
    ELSE CopyOut(buffer, start, n)

\* where the read index is after n bytes
Advanced(n) ==
    LET half_tail == length - start IN
    IF half_tail < n
    THEN (((start + half_tail) % length) + (n - half_tail)) % length
    ELSE (start + n) % length

rb_read(n) ==
    LET rlen == IF n > rb_get_space_used THEN rb_get_space_used ELSE n IN
    /\ call' = <<"read", n>>
    /\ out' = Gather(rlen)
    /\ ret' = rlen
    /\ \/ /\ Advanced(rlen) = end
          /\ start' = 0
          /\ end' = 0
       \/ /\ Advanced(rlen) # end
          /\ start' = Advanced(rlen)
          /\ end' = end
    /\ UNCHANGED buffer

\* an empty ring dumps as NULL: no bytes
rb_dump ==
    /\ call' = <<"dump">>
    /\ out' = Gather(rb_get_space_used)
    /\ ret' = rb_get_space_used
    /\ UNCHANGED <<buffer, start, end>>

rb_cleanup ==
    /\ call' = <<"cleanup">>
    /\ start' = 0
    /\ end' = 0
    /\ ret' = 0
    /\ out' = <<>>
    /\ UNCHANGED buffer

Next ==
    \/ \E data \in Requests : rb_write(data)
    \/ \E n \in 0 .. MaxReq : rb_read(n)
    \/ rb_dump
    \/ rb_cleanup

Spec == Init /\ [][Next]_vars

-----------------------------------------------------------------------------
\* Both indices stay inside the allocation and every cell holds a byte, so no
\* memcpy of rb_write, rb_read or rb_dump leaves rb->buffer.
TypeOK ==
    /\ buffer \in [Index -> Byte]
    /\ start \in Index
    /\ end \in Index
    /\ ret \in -1 .. (IF Cap > MaxReq THEN Cap ELSE MaxReq)
    /\ out \in Seq(Byte)

\* An empty ring is one whose indices are back at cell 0 (the reset at the end
\* of rb_read): whatever was written and read before, the next write of up to
\* Cap bytes is taken, and taken in one copy.
EmptyIsReset == start = end => start = 0

\* The bytes the ring holds, oldest first.
Held == [i \in 1 .. rb_get_space_used |-> buffer[(start + i - 1) % length]]

Fifo == INSTANCE ByteFifo WITH contents <- Held

\* The ring with its indices, its two-part copies and its reset is the byte
\* queue of ByteFifo: a write is appended whole or refused with -1 exactly when
\* Cap bytes would be exceeded, a read returns the oldest bytes in order, and
\* no call changes an unread byte.
ImplementsFifo == Fifo!Spec
=============================================================================
