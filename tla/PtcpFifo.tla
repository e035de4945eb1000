------------------------------ MODULE PtcpFifo ------------------------------
(***************************************************************************)
(* The byte buffer of a pseudo-TCP socket (libptcp/pseudotcp.c,            *)
(* PseudoTcpFifo): a ring with a read position and a data length, which    *)
(* can be written beyond its data.  Bytes that arrive out of order are     *)
(* written at an offset and join the data when the gap before them closes. *)
(***************************************************************************)
EXTENDS Integers, Sequences

LOCAL Least(a, b) == IF a < b THEN a ELSE b

\* pseudo_tcp_fifo_init: every cell holds the value of memory nobody wrote.
FifoInit(size, junk) ==
  [buffer |-> [i \in 0..size - 1 |-> junk], size |-> size,
   data_length |-> 0, read_position |-> 0]

FifoWriteRemaining(b) == b.size - b.data_length

\* The bytes pseudo_tcp_fifo_read_offset copies out.
FifoReadOffset(b, n, offset) ==
  IF offset >= b.data_length
  THEN <<>>
  ELSE [i \in 1..Least(n, b.data_length - offset) |->
          b.buffer[(b.read_position + offset + i - 1) % b.size]]

\* How many bytes pseudo_tcp_fifo_write_offset copies in.
FifoWriteCount(b, n, offset) ==
  IF b.data_length + offset >= b.size
  THEN 0
  ELSE Least(n, b.size - b.data_length - offset)

FifoWriteOffset(b, bytes, offset) ==
  LET at == (b.read_position + b.data_length + offset) % b.size
      n  == FifoWriteCount(b, Len(bytes), offset)
      k(i) == (i - at) % b.size
  IN  [b EXCEPT !.buffer =
         [i \in DOMAIN @ |-> IF k(i) < n THEN bytes[k(i) + 1] ELSE @[i]]]

\* The g_assert of pseudo_tcp_fifo_consume_read_data, and its effect.
FifoCanConsume(b, n) == n <= b.data_length

FifoConsumeRead(b, n) ==
  [b EXCEPT !.read_position = (@ + n) % b.size, !.data_length = @ - n]

\* The g_assert of pseudo_tcp_fifo_consume_write_buffer, and its effect.
FifoCanExtend(b, n) == n <= b.size - b.data_length

FifoConsumeWrite(b, n) == [b EXCEPT !.data_length = @ + n]

FifoRead(b, n) == FifoReadOffset(b, n, 0)

FifoAfterRead(b, n) == FifoConsumeRead(b, Len(FifoRead(b, n)))

FifoWrite(b, bytes) ==
  FifoConsumeWrite(FifoWriteOffset(b, bytes, 0),
                   FifoWriteCount(b, Len(bytes), 0))
=============================================================================
