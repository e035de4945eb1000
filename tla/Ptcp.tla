-------------------------------- MODULE Ptcp --------------------------------
(***************************************************************************)
(* Pseudo-TCP (libptcp/pseudotcp.c): two sockets that carry a byte stream  *)
(* over datagrams which the network may lose, duplicate and reorder.       *)
(*                                                                         *)
(* A socket is a record whose fields have the names of                     *)
(* PseudoTcpSocketPrivate.  A function of the code is an operator from the *)
(* socket before to the socket after; the last fields of the record belong *)
(* to one call: the datagrams it wrote, the result of the function called  *)
(* last, how many writes still succeed, whether the socket was idle for    *)
(* longer than rx_rto.  Every call from outside (connect, send, recv,      *)
(* close, shutdown, notify_packet, notify_clock) is one action.            *)
(*                                                                         *)
(* Time is left out: an armed timer may be due at any call of              *)
(* notify_clock.  Round-trip times, and the timestamps they come from, go  *)
(* with it.                                                                *)
(***************************************************************************)
EXTENDS Integers, FiniteSets, SequencesExt, PtcpFifo

CONSTANTS
  Plans,        \* what the applications do and what goes wrong; see Plan
  ConnLen,      \* length of the connect message (7 in the code)
  MinMss, Mss,  \* segment size before and after the connection is set up
  SndBuf, RcvBuf,            \* sbuf_len and rbuf_len
  XmitEstablished, XmitOther,  \* transmission limits: 15 and 30 in the code
  SeqSpace,       \* sequence numbers are taken modulo this (2^32 in the code)
  MaxNet,       \* datagrams under way
  MaxSegs       \* segments of slist

VARIABLES
  plan,    \* the plan this behaviour follows, chosen once
  sock,    \* sock[e]: the socket e
  net,     \* net[e]: the datagrams under way to e
  clk,     \* clk[e]: libptcp's POSIX timer is armed
  sent,    \* sent[e]: how many bytes send has taken
  got,     \* got[e]: the bytes recv has returned
  eof,     \* eof[e]: recv has returned 0 for the peer's FIN or reset
  dups, fails, lates   \* how often the network and the system misbehaved

vars == <<plan, sock, net, clk, sent, got, eof, dups, fails, lates>>

Ends == {"a", "b"}

\* A plan: which applications connect, how many bytes they send, which of them
\* shut down or close and how, how many datagrams the network delivers twice,
\* in how many calls writing a datagram fails, and how many calls of
\* adjust_clock meet a deadline just reached.
Plan == [connectors : SUBSET Ends, bytes : [Ends -> Nat],
         closers : SUBSET Ends, hows : SUBSET {"RD", "WR", "RDWR", "FORCE"},
         dup : Nat, fails : Nat, late : Nat]

Peer(e) == CHOOSE o \in Ends : o # e

\* Bytes are numbered by their place in the stream; 0 stands for the bytes of
\* the connect message and for memory nobody wrote.
Junk == 0

\* Beyond these values cwnd neither limits what is sent nor is below ssthresh,
\* and dup_acks changes no decision.
MaxCwnd == RcvBuf
MaxDupAcks == 4

NoFail == 1000

\* The sequence numbers a plan can use.
MaxSeq == ConnLen + Max({p.bytes[e] : p \in Plans, e \in Ends})

U32(x) == x % SeqSpace

LARGER(a, b) == U32(a - b - 1) < SeqSpace \div 2 - 1

LARGER_OR_EQUAL(a, b) == U32(a - b) < SeqSpace \div 2 - 1

SMALLER(a, b) == LARGER(b, a)

SMALLER_OR_EQUAL(a, b) == LARGER_OR_EQUAL(b, a)

CapCwnd(x) == Min({x, MaxCwnd})

States == {"LISTEN", "SYN_SENT", "SYN_RECEIVED", "ESTABLISHED", "CLOSED",
           "FIN_WAIT_1", "FIN_WAIT_2", "CLOSING", "TIME_WAIT", "CLOSE_WAIT",
           "LAST_ACK"}

has_sent_fin(state) ==
  state \in {"CLOSED", "FIN_WAIT_1", "FIN_WAIT_2", "CLOSING", "TIME_WAIT",
             "LAST_ACK"}

has_received_fin(state) ==
  state \in {"CLOSED", "CLOSING", "TIME_WAIT", "CLOSE_WAIT", "LAST_ACK"}

Transitions ==
  {<<"CLOSED", "SYN_SENT">>, <<"SYN_SENT", "CLOSED">>, <<"CLOSED", "LISTEN">>,
   <<"LISTEN", "CLOSED">>, <<"LISTEN", "SYN_SENT">>,
   <<"LISTEN", "SYN_RECEIVED">>, <<"SYN_SENT", "SYN_RECEIVED">>,
   <<"SYN_RECEIVED", "ESTABLISHED">>, <<"SYN_SENT", "ESTABLISHED">>,
   <<"SYN_RECEIVED", "FIN_WAIT_1">>, <<"ESTABLISHED", "FIN_WAIT_1">>,
   <<"ESTABLISHED", "CLOSE_WAIT">>, <<"FIN_WAIT_1", "FIN_WAIT_2">>,
   <<"FIN_WAIT_1", "CLOSING">>, <<"CLOSE_WAIT", "LAST_ACK">>,
   <<"FIN_WAIT_2", "TIME_WAIT">>, <<"CLOSING", "TIME_WAIT">>,
   <<"LAST_ACK", "CLOSED">>, <<"TIME_WAIT", "CLOSED">>,
   <<"SYN_RECEIVED", "LISTEN">>, <<"FIN_WAIT_1", "TIME_WAIT">>}

\* A g_assert of the code: bad records that one failed.
Assert_(s, cond) == [s EXCEPT !.bad = @ \/ ~cond]

-----------------------------------------------------------------------------
(* State changes *)

set_state(s, new) ==
  IF new = s.state
  THEN s
  ELSE [Assert_(s, <<s.state, new>> \in Transitions) EXCEPT !.state = new]

adjustMTU(s) ==
  [s EXCEPT !.mss = Mss, !.ssthresh = Max({@, 2 * Mss}), !.cwnd = Max({@, Mss})]

set_state_established(s) == adjustMTU(set_state(s, "ESTABLISHED"))

\* The Closed callback is called only when err is not "".
set_state_closed(s, err) == [set_state(s, "CLOSED") EXCEPT !.err = err]

-----------------------------------------------------------------------------
(* Sending *)

\* queue: the bytes that fit go to sbuf and to a segment of slist.  The
\* segments of unsent_slist are those of slist never transmitted.
queue(s, data, flags) ==
  LET room == FifoWriteRemaining(s.sbuf)
      d    == SubSeq(data, 1, Min({Len(data), room}))
      seg  == [seq |-> U32(s.snd_una + s.sbuf.data_length), len |-> Len(d),
               xmit |-> 0, flags |-> flags]
      joins == s.slist # <<>> /\ Last(s.slist).flags = flags
                              /\ Last(s.slist).xmit = 0
      t == Assert_(s, Len(data) <= room \/ flags = "NONE")
  IN  [t EXCEPT
        !.sbuf = FifoWrite(@, d),
        !.slist = IF joins
                  THEN ReplaceAt(@, Len(@), [Last(@) EXCEPT !.len = @ + Len(d)])
                  ELSE Append(@, seg)]

queue_connect_message(s) ==
  queue([s EXCEPT !.snd_wnd = ConnLen], [i \in 1..ConnLen |-> Junk], "CTL")

\* packet: one datagram to the WritePacket callback.  libptcp's callback
\* (_ptcp_write_packet) writes nothing for a closed socket.  The result of an
\* empty datagram is ignored.
packet(s, seq, flags, offset, n) ==
  LET data == FifoReadOffset(s.sbuf, n, offset)
      dgram == [seq |-> U32(seq), ack |-> s.rcv_nxt, flags |-> flags,
                wnd |-> s.rcv_wnd % 65536, data |-> data]
      written == s.state # "CLOSED" /\ s.writes > 0
  IN  [s EXCEPT
        !.bad = @ \/ (n # 0 /\ Len(data) # n),
        !.writes = IF @ \in {0, NoFail} THEN @ ELSE @ - 1,
        !.ts_lastack = s.rcv_nxt,
        !.out = IF written THEN Append(@, dgram) ELSE @,
        !.adj = @ \/ s.state # "CLOSED",
        !.ok = written \/ n = 0,
        !.t_ack = @ /\ ~written /\ n # 0]

FirstUnsent(s) == SelectInSeq(s.slist, LAMBDA g : g.xmit = 0)

\* After the first n bytes of the i-th segment were written: what is left of it
\* becomes a segment of its own, and the retransmission timer runs.
Transmitted(s, i, n) ==
  LET g == s.slist[i]
      first == g.xmit = 0
      list == [s.slist EXCEPT ![i].len = n, ![i].xmit = @ + 1]
      rest == [g EXCEPT !.seq = U32(@ + n), !.len = @ - n]
  IN  [Assert_(s, first => FirstUnsent(s) = i) EXCEPT
        !.slist = IF n < g.len THEN InsertAt(list, i + 1, rest) ELSE list,
        !.snd_nxt = IF first
                    THEN U32(@ + n + IF n = 0 /\ g.flags = "FIN" THEN 1 ELSE 0)
                    ELSE @,
        !.rto_base = TRUE]

XmitLimit(s) == IF s.state = "ESTABLISHED" THEN XmitEstablished ELSE XmitOther

TransmitResult(p, i, n) == IF p.ok THEN Transmitted(p, i, n) ELSE p

\* transmit: the i-th segment of slist, or as much of it as mss allows.  A
\* missing segment is a null pointer in the code.
transmit(s, i) ==
  LET g == s.slist[i]
      n == Min({g.len, s.mss})
  IN  CASE i \notin DOMAIN s.slist -> [Assert_(s, FALSE) EXCEPT !.ok = FALSE]
        [] i \in DOMAIN s.slist /\ g.xmit >= XmitLimit(s) ->
             [s EXCEPT !.ok = FALSE]
        [] i \in DOMAIN s.slist /\ g.xmit < XmitLimit(s) ->
             TransmitResult(
               packet(Assert_(s, LARGER_OR_EQUAL(g.seq, s.snd_una)),
                      g.seq, g.flags, U32(g.seq - s.snd_una), n),
               i, n)

\* One turn of attempt_send's loop: how much the windows allow to be sent now
\* (nAvailable), avoiding silly windows (RFC 813).
Available(s) ==
  LET cwnd == s.cwnd + IF s.dup_acks \in {1, 2} THEN s.dup_acks * s.mss ELSE 0
      window  == Min({s.snd_wnd, cwnd})
      flight  == U32(s.snd_nxt - s.snd_una)
      useable == IF flight < window THEN window - flight ELSE 0
      most    == IF s.sbuf.data_length < flight
                 THEN 0 ELSE Min({s.sbuf.data_length - flight, s.mss})
  IN  CASE most <= useable -> most
        [] most > useable /\ useable * 4 < window -> 0
        [] most > useable /\ useable * 4 >= window -> useable

\* Nagle: hold a short segment while other data is in flight.
Nagle(s, available) == s.snd_nxt > s.snd_una /\ available < s.mss

\* The segment to send next, cut to what the windows allow.
CutUnsent(s, i, available) ==
  LET g == s.slist[i]
  IN  IF g.len <= available
      THEN s
      ELSE [s EXCEPT !.slist =
              InsertAt([@ EXCEPT ![i].len = available], i + 1,
                       [g EXCEPT !.seq = U32(@ + available),
                                 !.len = @ - available])]

RECURSIVE SendLoop(_, _)

SendMore(s, flag) == IF s.ok THEN SendLoop(s, flag) ELSE s

\* attempt_send's loop.  flag says why it runs: "FIN" and "RST" send all there
\* is, "IMM" and "DEL" owe the peer an acknowledgement.
SendLoop(s, flag) ==
  LET n == Available(s)
      i == FirstUnsent(s)
  IN  CASE flag \in {"FIN", "RST"} ->
             IF i = 0 THEN s ELSE SendMore(transmit(s, i), flag)
        [] flag \notin {"FIN", "RST"} /\ n = 0 ->
             (CASE flag = "NONE" -> s
                [] flag = "IMM" \/ (flag = "DEL" /\ s.t_ack) ->
                     packet(s, s.snd_nxt, "NONE", 0, 0)
                [] flag = "DEL" /\ ~s.t_ack -> [s EXCEPT !.t_ack = TRUE])
        [] flag \notin {"FIN", "RST"} /\ n > 0 ->
             IF Nagle(s, n) \/ i = 0
             THEN s
             ELSE SendMore(transmit(CutUnsent(s, i, n), i), "NONE")

attempt_send(s, flag) ==
  SendLoop([s EXCEPT !.cwnd = IF s.idle THEN s.mss ELSE @], flag)

\* The states closedown walks through on its way to CLOSED.
WayToClosed(state) ==
  CASE state \in {"SYN_RECEIVED", "ESTABLISHED"} ->
         <<"FIN_WAIT_1", "FIN_WAIT_2", "TIME_WAIT">>
    [] state = "FIN_WAIT_1" -> <<"FIN_WAIT_2", "TIME_WAIT">>
    [] state \in {"FIN_WAIT_2", "CLOSING"} -> <<"TIME_WAIT">>
    [] state = "CLOSE_WAIT" -> <<"LAST_ACK">>
    [] OTHER -> <<>>

ThroughStates(s, err) ==
  set_state_closed(FoldLeft(set_state, s, WayToClosed(s.state)), err)

\* closedown: reset the peer, unless it was the peer that reset, and close.
closedown(s, err, source) ==
  ThroughStates(IF source = "LOCAL"
                THEN attempt_send(queue(s, <<>>, "RST"), "RST") ELSE s, err)

-----------------------------------------------------------------------------
(* Receiving: process, in the order of the code *)

\* Control data: the peer's connect message.
OnConnect(s, seg) ==
  CASE seg.flags = "CTL" /\ s.state = "LISTEN" ->
         queue_connect_message(set_state(s, "SYN_RECEIVED"))
    [] seg.flags = "CTL" /\ s.state = "SYN_SENT" -> set_state_established(s)
    [] OTHER -> s

RECURSIVE FreeAcked(_, _)

\* The loop that takes n acknowledged bytes off slist.  A segment freed while
\* it is still on unsent_slist is counted as a failed assertion.
FreeAcked(s, n) ==
  IF n = 0
  THEN s
  ELSE IF s.slist = <<>>
  THEN Assert_(s, FALSE)
  ELSE IF n < Head(s.slist).len
  THEN [s EXCEPT !.slist[1].len = @ - n, !.slist[1].seq = U32(@ + n)]
  ELSE FreeAcked([Assert_(s, Head(s.slist).xmit > 0) EXCEPT !.slist = Tail(@)],
                 n - Head(s.slist).len)

\* Congestion control after new data was acknowledged: leaving fast recovery,
\* retransmitting in it (NewReno), or slow start and congestion avoidance.
\* ok is FALSE when the retransmission failed.
AfterAck(s, acked) ==
  LET flight == U32(s.snd_nxt - s.snd_una)
      over == LARGER_OR_EQUAL(s.snd_una, s.recover)
  IN  CASE s.dup_acks >= 3 /\ over ->
             [s EXCEPT !.cwnd = CapCwnd(Min({s.ssthresh, flight + s.mss})),
                       !.dup_acks = 0]
        [] s.dup_acks >= 3 /\ ~over ->
             [transmit(s, 1) EXCEPT !.cwnd = CapCwnd(@ + s.mss - Min({acked, @}))]
        [] s.dup_acks < 3 ->
             [s EXCEPT
                !.dup_acks = 0,
                !.cwnd = CapCwnd(@ + IF @ < s.ssthresh THEN s.mss
                                     ELSE Max({1, (s.mss * s.mss) \div @}))]

\* Mutant: the acknowledgement of the FIN is counted as a byte.
NewAckCountsFin(s, seg) ==
  LET n == U32(seg.ack - s.snd_una)
      t == [Assert_(s, FifoCanConsume(s.sbuf, n)) EXCEPT
              !.snd_wnd = seg.wnd, !.snd_una = seg.ack,
              !.rto_base = seg.ack # s.snd_nxt,
              !.sbuf = FifoConsumeRead(@, n),
              !.fin_ack = n = s.sbuf.data_length + 1 /\ has_sent_fin(s.state)]
  IN  AfterAck(FreeAcked(t, n), n)

\* Mutant: any acknowledgement stops the retransmission timer.
NewAckStopsTimer(s, seg) ==
  LET nAcked == U32(seg.ack - s.snd_una)
      fin == nAcked = s.sbuf.data_length + 1 /\ has_sent_fin(s.state)
      n == IF fin THEN nAcked - 1 ELSE nAcked
  IN  AfterAck(FreeAcked([Assert_(s, FifoCanConsume(s.sbuf, n)) EXCEPT
                            !.snd_wnd = seg.wnd, !.snd_una = seg.ack,
                            !.rto_base = FALSE,
                            !.sbuf = FifoConsumeRead(@, n), !.fin_ack = fin], n), n)

NewAck(s, seg) ==
  LET nAcked == U32(seg.ack - s.snd_una)
      fin == nAcked = s.sbuf.data_length + 1 /\ has_sent_fin(s.state)
      n == IF fin THEN nAcked - 1 ELSE nAcked
      t == [Assert_(s, FifoCanConsume(s.sbuf, n)) EXCEPT
              !.snd_wnd = seg.wnd, !.snd_una = seg.ack,
              !.rto_base = seg.ack # s.snd_nxt,
              !.sbuf = FifoConsumeRead(@, n), !.fin_ack = fin]
  IN  AfterAck(FreeAcked(t, n), n)

\* ssthresh when a segment is taken for lost.
HalfFlight(s) == Max({U32(s.snd_nxt - s.snd_una) \div 2, 2 * s.mss})

EnterRecovery(s) ==
  [s EXCEPT !.recover = s.snd_nxt, !.ssthresh = HalfFlight(s),
            !.cwnd = CapCwnd(HalfFlight(s) + 3 * s.mss)]

\* The third duplicate starts fast recovery.
DupAck(s, seg) ==
  LET d == Min({s.dup_acks + 1, MaxDupAcks})
      w == [s EXCEPT !.snd_wnd = seg.wnd]
  IN  CASE seg.data # <<>> -> w
        [] seg.data = <<>> /\ s.snd_una = s.snd_nxt -> [w EXCEPT !.dup_acks = 0]
        [] seg.data = <<>> /\ s.snd_una # s.snd_nxt ->
             CASE d < 3 -> [w EXCEPT !.dup_acks = d]
               [] d = 3 -> EnterRecovery(transmit([w EXCEPT !.dup_acks = d], 1))
               [] d > 3 -> [w EXCEPT !.dup_acks = d, !.cwnd = CapCwnd(@ + s.mss)]

OnAck(s, seg) ==
  CASE LARGER(seg.ack, s.snd_una) /\ SMALLER_OR_EQUAL(seg.ack, s.snd_nxt) ->
         NewAck(s, seg)
    [] seg.ack = s.snd_una -> DupAck(s, seg)
    [] OTHER -> s


\* The states a FIN, or the acknowledgement of one, leads to.  A FIN counts as
\* soon as it arrives, in order or not.
OnFin(s, seg) ==
  LET fin == seg.flags = "FIN"
  IN  CASE s.state = "ESTABLISHED" /\ fin -> set_state(s, "CLOSE_WAIT")
        [] s.state = "CLOSING" /\ s.fin_ack -> set_state(s, "TIME_WAIT")
        [] s.state = "LAST_ACK" /\ s.fin_ack -> set_state_closed(s, "")
        [] s.state = "FIN_WAIT_1" /\ s.fin_ack ->
             set_state(s, IF fin THEN "TIME_WAIT" ELSE "FIN_WAIT_2")
        [] s.state = "FIN_WAIT_1" /\ ~s.fin_ack /\ fin -> set_state(s, "CLOSING")
        [] s.state = "FIN_WAIT_2" /\ fin -> set_state(s, "TIME_WAIT")
        [] OTHER -> s

\* The Writable callback.
OnWritable(s) ==
  IF s.bWriteEnable /\ s.sbuf.data_length < (SndBuf + RcvBuf) \div 2
  THEN [s EXCEPT !.bWriteEnable = FALSE] ELSE s

RECURSIVE Recover(_)

\* Segments saved earlier that the data now reaches.  recovered says that one
\* of them gave new bytes.
Recover(s) ==
  IF s.rlist = <<>> \/ ~SMALLER_OR_EQUAL(Head(s.rlist).seq, s.rcv_nxt)
  THEN s
  ELSE LET end == U32(Head(s.rlist).seq + Head(s.rlist).len)
           n == IF LARGER(end, s.rcv_nxt) THEN U32(end - s.rcv_nxt) ELSE 0
       IN  Recover([Assert_(s, FifoCanExtend(s.rbuf, n)) EXCEPT
                      !.rbuf = FifoConsumeWrite(@, n),
                      !.rcv_nxt = U32(@ + n), !.rcv_wnd = U32(@ - n),
                      !.recovered = @ \/ n > 0, !.rlist = Tail(@)])

\* Mutant: the window does not shrink as data arrives.
InOrderKeepsWindow(s, n) ==
  Recover([Assert_(s, FifoCanExtend(s.rbuf, n)) EXCEPT
             !.rbuf = FifoConsumeWrite(@, n), !.rcv_nxt = U32(@ + n)])

InOrder(s, n) ==
  Recover([Assert_(s, FifoCanExtend(s.rbuf, n)) EXCEPT
             !.rbuf = FifoConsumeWrite(@, n),
             !.rcv_nxt = U32(@ + n), !.rcv_wnd = U32(@ - n)])

Ahead(s, seq, n) ==
  LET before == Cardinality({i \in DOMAIN s.rlist : SMALLER(s.rlist[i].seq, seq)})
  IN  [s EXCEPT !.rlist = InsertAt(@, before + 1, [seq |-> seq, len |-> n])]

\* Mutant: a segment ahead of a gap is written where the gap begins.
WrittenInGap(s, seq, d) ==
  [Assert_(s, FifoWriteCount(s.rbuf, Len(d), 0) = Len(d)) EXCEPT
     !.rbuf = FifoWriteOffset(@, d, 0)]

Written(s, seq, d) ==
  LET offset == U32(seq - s.rcv_nxt)
  IN  [Assert_(s, FifoWriteCount(s.rbuf, Len(d), offset) = Len(d)) EXCEPT
         !.rbuf = FifoWriteOffset(@, d, offset)]

\* The bytes that are left of a segment: those of the connect message are only
\* counted, the others are stored, in order or ahead of a gap.
Store(s, new, flags) ==
  CASE new.data = <<>> \/ flags = "FIN" -> s
    [] new.data # <<>> /\ flags = "CTL" ->
         [s EXCEPT !.rcv_nxt = IF new.seq = @ THEN U32(@ + Len(new.data)) ELSE @]
    [] new.data # <<>> /\ flags = "NONE" ->
         IF new.seq = s.rcv_nxt
         THEN InOrder(Written(s, new.seq, new.data), Len(new.data))
         ELSE Ahead(Written(s, new.seq, new.data), new.seq, Len(new.data))

\* Why attempt_send runs after this segment.
AckFlag(s, seg) ==
  CASE seg.seq # s.rcv_nxt -> "IMM"
    [] seg.seq = s.rcv_nxt /\ seg.data # <<>> -> "DEL"
    [] seg.seq = s.rcv_nxt /\ seg.data = <<>> ->
         IF seg.flags = "FIN" THEN "IMM" ELSE "NONE"

\* The segment cut to what is new and to what the receive buffer can hold.
Trim(s, seg) ==
  LET old  == IF SMALLER(seg.seq, s.rcv_nxt) THEN U32(s.rcv_nxt - seg.seq) ELSE 0
      cut  == old < Len(seg.data)
      seq  == IF cut THEN U32(seg.seq + old) ELSE seg.seq
      data == IF cut THEN SubSeq(seg.data, old + 1, Len(seg.data)) ELSE <<>>
      end  == U32(seq + Len(data) - s.rcv_nxt)
      room == FifoWriteRemaining(s.rbuf)
      over == IF end > room THEN end - room ELSE 0
  IN  [seq |-> seq, data |-> SubSeq(data, 1, Max({0, Len(data) - over}))]

\* Mutant: a FIN counts each time it arrives.
CountFinAgain(s, seg) ==
  [s EXCEPT !.rcv_nxt = IF seg.flags = "FIN" THEN U32(@ + 1) ELSE @]

\* An empty FIN in order counts as a byte.
CountFin(s, seg) ==
  [s EXCEPT !.rcv_nxt = IF seg.flags = "FIN" /\ seg.seq = @ THEN U32(@ + 1) ELSE @]

Take(s, seg) == Store(s, Trim(s, seg), seg.flags)

Answer(s, flag) == attempt_send(s, IF s.recovered THEN "IMM" ELSE flag)

OnData(s, seg) == Answer(Take(CountFin(s, seg), seg), AckFlag(s, seg))

\* "A bit hacky": anything but a connect message completes the handshake.
OnEstablished(s, seg) ==
  IF s.state = "SYN_RECEIVED" /\ seg.flags # "CTL"
  THEN set_state_established(s) ELSE s

\* Mutant: the application is not told that there is room again.
AfterOnAckQuiet(s, seg) ==
  IF s.ok
  THEN [OnData(OnFin(OnEstablished(s, seg), seg), seg) EXCEPT !.ret = TRUE]
  ELSE closedown(s, "ECONNABORTED", "LOCAL")

\* process after the acknowledgement was looked at.  ret is its return value.
AfterOnAck(s, seg) ==
  IF s.ok
  THEN [OnData(OnWritable(OnFin(OnEstablished(s, seg), seg)), seg) EXCEPT
          !.ret = TRUE]
  ELSE closedown(s, "ECONNABORTED", "LOCAL")

process(s, seg) ==
  CASE s.state = "CLOSED" \/ (has_sent_fin(s.state) /\ seg.data # <<>>) ->
         IF seg.flags = "RST" THEN s ELSE closedown(s, "", "LOCAL")
    [] s.state # "CLOSED" /\ seg.flags = "RST" ->
         closedown(s, "ECONNRESET", "REMOTE")
    [] OTHER -> AfterOnAck(OnAck(OnConnect(s, seg), seg), seg)

-----------------------------------------------------------------------------
(* The calls *)

Local == [out |-> <<>>, ok |-> TRUE, ret |-> FALSE, adj |-> FALSE,
          fin_ack |-> FALSE, recovered |-> FALSE, idle |-> FALSE,
          writes |-> NoFail]

NewSocket ==
  Local @@
  [state |-> "LISTEN", err |-> "", bad |-> FALSE,
   slist |-> <<>>, sbuf |-> FifoInit(SndBuf, Junk), bWriteEnable |-> FALSE,
   snd_nxt |-> 0, snd_una |-> 0, snd_wnd |-> 1, mss |-> MinMss,
   cwnd |-> 2 * MinMss, ssthresh |-> RcvBuf, dup_acks |-> 0, recover |-> 0,
   rto_base |-> FALSE,
   rlist |-> <<>>, rbuf |-> FifoInit(RcvBuf, Junk), rcv_nxt |-> 0,
   rcv_wnd |-> RcvBuf, ts_lastack |-> 0, t_ack |-> FALSE,
   shutdown_reads |-> FALSE]

\* Nothing is read from or sent by a closed socket again, so that its buffers,
\* windows and timers, and the datagrams under way to it, are forgotten.
Forget(s) ==
  IF s.state # "CLOSED"
  THEN s
  ELSE [x \in {"state", "err", "bad", "shutdown_reads"} |-> s[x]] @@ NewSocket

Init ==
  /\ plan \in Plans
  /\ sock = [e \in Ends |-> NewSocket]
  /\ net = [e \in Ends |-> {}]
  /\ clk = [e \in Ends |-> FALSE]
  /\ sent = [e \in Ends |-> 0]
  /\ got = [e \in Ends |-> <<>>]
  /\ eof = [e \in Ends |-> FALSE]
  /\ dups = 0 /\ fails = 0 /\ lates = 0

Deadline(s) == s.rto_base \/ s.t_ack \/ s.snd_wnd = 0

\* What a call of e may meet: the socket was idle, sendto fails after so many
\* datagrams, a deadline is reached just as adjust_clock asks for it.
Luck(e) ==
  {c \in [idle : BOOLEAN, writes : {0, 1, NoFail}, late : BOOLEAN] :
     /\ c.idle => sock[e].cwnd # sock[e].mss
     /\ c.writes # NoFail => fails < plan.fails
     /\ c.late => lates < plan.late /\ clk[e] /\ Deadline(sock[e])}

Enter(e, c) == [sock[e] EXCEPT !.idle = c.idle, !.writes = c.writes]

\* A call ends: its datagrams join the others, of which the network keeps
\* MaxNet, and adjust_clock has set the timer.  When a deadline is just
\* reached the timeout it computes is 0, which disarms a POSIX timer.
Leave(e, s, others, armed, c) ==
  LET p == Peer(e)
      flight == [others EXCEPT ![e] = IF s.state = "CLOSED" THEN {} ELSE @]
      fits == {k \in SUBSET Range(s.out) :
                 Cardinality(flight[e]) + Cardinality(flight[p] \cup k) <= MaxNet}
      late == c.late /\ Deadline(s)
  IN  /\ sock' = [sock EXCEPT ![e] = Local @@ Forget(s)]
      /\ \E k \in fits : /\ \A o \in fits : Cardinality(o) <= Cardinality(k)
                         /\ net' = [flight EXCEPT ![p] = @ \cup k]
      /\ clk' = [clk EXCEPT ![e] =
                   IF (s.adj \/ s.ret) /\ s.state # "CLOSED" THEN ~late ELSE armed]
      /\ lates' = lates + IF c.late THEN 1 ELSE 0
      /\ fails' = fails + IF c.writes = NoFail THEN 0 ELSE 1

Connect(e) ==
  /\ e \in plan.connectors /\ sock[e].state = "LISTEN"
  /\ \E c \in Luck(e) :
       Leave(e, attempt_send(queue_connect_message(
                               set_state(Enter(e, c), "SYN_SENT")), "NONE"),
             net, clk[e], c)
  /\ UNCHANGED <<plan, sent, got, eof, dups>>

send(s, data) ==
  LET room == FifoWriteRemaining(s.sbuf)
  IN  [IF room = 0 THEN s ELSE attempt_send(queue(s, data, "NONE"), "NONE") EXCEPT
         !.bWriteEnable = @ \/ room < Len(data)]

\* pseudo_tcp_socket_send of n bytes.
Send(e) ==
  \E n \in 1..plan.bytes[e] - sent[e], c \in Luck(e) :
    /\ sock[e].state = "ESTABLISHED"
    /\ Leave(e, send(Enter(e, c), [i \in 1..n |-> sent[e] + i]), net, clk[e], c)
    /\ sent' = [sent EXCEPT
                  ![e] = @ + Min({n, FifoWriteRemaining(sock[e].sbuf)})]
    /\ UNCHANGED <<plan, got, eof, dups>>

\* After a read the window opens when it gains a segment or half the buffer;
\* one that was closed is announced.
OpenWindow(s) ==
  LET space == FifoWriteRemaining(s.rbuf)
      wide == \/ s.rcv_wnd > space
              \/ space - s.rcv_wnd >= Min({RcvBuf \div 2, s.mss})
  IN  CASE ~wide -> s
        [] wide /\ s.rcv_wnd > 0 -> [s EXCEPT !.rcv_wnd = space]
        [] wide /\ s.rcv_wnd = 0 ->
             attempt_send([s EXCEPT !.rcv_wnd = space], "IMM")

\* pseudo_tcp_socket_recv of at most n bytes.
Recv(e) ==
  \E n \in {1, RcvBuf}, c \in Luck(e) :
    LET ended == sock[e].shutdown_reads \/ has_received_fin(sock[e].state)
        data == IF ended THEN <<>> ELSE FifoRead(sock[e].rbuf, n)
    IN  /\ data # <<>> \/ (ended /\ ~eof[e])
        /\ Leave(e, IF data = <<>>
                    THEN sock[e]
                    ELSE OpenWindow([Enter(e, c) EXCEPT
                                       !.rbuf = FifoAfterRead(@, n)]),
                 net, clk[e], c)
        /\ got' = [got EXCEPT ![e] = @ \o data]
        /\ eof' = [eof EXCEPT ![e] = ended]
        /\ UNCHANGED <<plan, sent, dups>>

SendFin(s) == attempt_send(queue(s, <<>>, "FIN"), "FIN")

shutdown(s, how) ==
  CASE how = "RD" -> s
    [] how # "RD" /\ s.state \in {"LISTEN", "SYN_SENT"} -> set_state_closed(s, "")
    [] how # "RD" /\ s.state \in {"SYN_RECEIVED", "ESTABLISHED"} ->
         IF s.state = "ESTABLISHED" /\ s.rbuf.data_length > 0
         THEN closedown(s, "ECONNABORTED", "LOCAL")
         ELSE set_state(SendFin(s), "FIN_WAIT_1")
    [] how # "RD" /\ s.state = "CLOSE_WAIT" -> set_state(SendFin(s), "LAST_ACK")
    [] OTHER -> s

\* pseudo_tcp_socket_shutdown, and pseudo_tcp_socket_close (RDWR, or FORCE).
Shutdown(e) ==
  \E how \in plan.hows, c \in Luck(e) :
    /\ e \in plan.closers /\ sock[e].state # "CLOSED"
    /\ Leave(e, IF how = "FORCE"
                THEN closedown(Enter(e, c), "ECONNABORTED", "LOCAL")
                ELSE shutdown([Enter(e, c) EXCEPT
                                 !.shutdown_reads = @ \/ how # "WR"], how),
             net, clk[e], c)
    /\ UNCHANGED <<plan, sent, got, eof, dups>>

\* pseudo_tcp_socket_notify_packet: the event loop has read a datagram.  twice:
\* the network delivers it again.
NotifyPacket(e) ==
  \E d \in net[e], twice \in BOOLEAN, c \in Luck(e) :
    /\ twice => dups < plan.dup
    /\ Leave(e, process(Enter(e, c), d),
             IF twice THEN net ELSE [net EXCEPT ![e] = @ \ {d}], clk[e], c)
    /\ dups' = dups + IF twice THEN 1 ELSE 0
    /\ UNCHANGED <<plan, sent, got, eof>>

\* pseudo_tcp_socket_notify_clock, in the order of the code.  due: the timers
\* that have run out, with "dead" when nothing was received for 15 seconds.
ClockClose(s) ==
  CASE s.state = "TIME_WAIT" -> set_state_closed(s, "")
    [] s.state = "LAST_ACK" -> SendFin(s)
    [] OTHER -> s


ClockRto(s, due) ==
  LET Backoff(t) == [t EXCEPT !.cwnd = t.mss, !.rto_base = TRUE,
                              !.ssthresh = HalfFlight(t)]
  IN  IF "rto" \in due THEN Backoff(transmit(s, 1)) ELSE s

ClockProbe(s, due) ==
  IF "probe" \in due THEN packet(s, s.snd_nxt - 1, "NONE", 0, 0) ELSE s

ClockAck(s, due) ==
  IF s.t_ack /\ "ack" \in due THEN packet(s, s.snd_nxt, "NONE", 0, 0) ELSE s

AfterClockRto(s, due) ==
  IF ("rto" \in due /\ ~s.ok) \/ "dead" \in due
  THEN closedown(s, "ECONNABORTED", "LOCAL")
  ELSE ClockAck(ClockProbe(s, due), due)

notify_clock(s, due) == AfterClockRto(ClockRto(ClockClose(s), due), due)

\* The sets of timers that can have run out together.
Dues(s) ==
  {due \in SUBSET {"rto", "probe", "dead", "ack"} :
     /\ "rto" \in due => s.rto_base
     /\ "probe" \in due => s.snd_wnd = 0
     /\ "dead" \in due => "probe" \in due
     /\ "ack" \in due => s.t_ack}

\* The one-shot timer has run out and its thread calls notify_clock.
Clock(e, due) ==
  /\ clk[e] /\ sock[e].state # "CLOSED"
  /\ due # {} \/ sock[e].state \in {"TIME_WAIT", "LAST_ACK"}
  /\ Len(sock[e].slist) < MaxSegs \/ sock[e].state # "LAST_ACK" \/ "rto" \in due
  /\ \E c \in Luck(e) :
       Leave(e, [notify_clock(Enter(e, c), due) EXCEPT !.ret = TRUE], net, FALSE, c)
  /\ UNCHANGED <<plan, sent, got, eof, dups>>

NotifyClock(e) == \E due \in Dues(sock[e]) : Clock(e, due)

Lose(e) ==
  /\ \E d \in net[e] : net' = [net EXCEPT ![e] = @ \ {d}]
  /\ UNCHANGED <<plan, sock, clk, sent, got, eof, dups, fails, lates>>

Next ==
  \E e \in Ends :
    \/ Connect(e) \/ Send(e) \/ Recv(e) \/ Shutdown(e)
    \/ NotifyPacket(e) \/ NotifyClock(e) \/ Lose(e)

Spec == Init /\ [][Next]_vars

-----------------------------------------------------------------------------
(* Properties *)

Live(s) == s.state \notin {"LISTEN", "CLOSED"}

\* Types; no buffer holds more than it was made for, and no sequence number or
\* window leaves its 32 bits.
TypeOK ==
  /\ \A e \in Ends :
       LET s == sock[e]
       IN  /\ s.state \in States
           /\ s.slist \in Seq([seq : Nat, len : Nat, xmit : Nat,
                               flags : {"NONE", "CTL", "FIN", "RST"}])
           /\ s.sbuf.data_length \in 0..SndBuf /\ s.rbuf.data_length \in 0..RcvBuf
           /\ s.cwnd \in 1..MaxCwnd /\ s.dup_acks \in 0..MaxDupAcks
           /\ {s.snd_nxt, s.snd_una, s.rcv_nxt, s.rcv_wnd} \subseteq 0..SeqSpace - 1
  /\ plan \in Plan
  /\ clk \in [Ends -> BOOLEAN]
  /\ Cardinality(net["a"]) + Cardinality(net["b"]) <= MaxNet

\* The code's own assertions hold: every set_state is one of the transitions
\* it lists, no byte is read from or added to a buffer that is not there, a
\* segment transmitted for the first time heads unsent_slist, a retransmission
\* finds a segment, and an acknowledged segment is never one still to be sent.
AssertionsHold == \A e \in Ends : ~sock[e].bad

\* Whatever the network loses, duplicates and reorders, and whenever the
\* retransmission timer runs out, recv returns the bytes the peer's send took,
\* in that order, each once.
StreamPrefix ==
  \A e \in Ends :
    /\ Len(got[e]) <= sent[Peer(e)]
    /\ got[e] = [i \in 1..Len(got[e]) |-> i]

\* A socket never counts as acknowledged what the peer has not received, and
\* never receives what the peer has not sent: snd_una, the peer's rcv_nxt and
\* snd_nxt stay in this order through retransmissions and repeated FINs.
AckedReceived ==
  \A e \in Ends :
    sock[e].state # "CLOSED" /\ sock[Peer(e)].state # "CLOSED" =>
      /\ sock[e].snd_una <= sock[Peer(e)].rcv_nxt
      /\ sock[Peer(e)].rcv_nxt <= sock[e].snd_nxt

\* The window a socket advertises never promises more than its receive buffer
\* holds, and is never overrun, until the peer closes and sends all it has
\* regardless of the window (attempt_send with sfFin or sfRst).
WindowKept ==
  \A e \in Ends :
    has_sent_fin(sock[Peer(e)].state)
      \/ sock[e].rcv_wnd + sock[e].rbuf.data_length <= RcvBuf

\* As long as no write of a datagram failed, a socket with bytes to deliver, or
\* with a FIN that is not acknowledged, has a timer that will bring it back: the
\* retransmission timer, or the probe of a closed window.
TimerArmed ==
  \A e \in Ends :
    (Live(sock[e]) /\ fails = 0
       /\ (sock[e].sbuf.data_length > 0 \/ sock[e].snd_una # sock[e].snd_nxt))
      => sock[e].rto_base \/ sock[e].snd_wnd = 0

\* An application told that the send buffer is full is told when there is room:
\* bWriteEnable stays set only while bytes wait to be acknowledged, so that an
\* acknowledgement is still to come.
WritableWakes ==
  \A e \in Ends :
    (Live(sock[e]) /\ sock[e].bWriteEnable) => sock[e].sbuf.data_length > 0

\* A segment with data is acknowledged: by a datagram written since, or by a
\* delayed acknowledgement that is scheduled.
AckScheduled ==
  \A e \in Ends :
    Live(sock[e]) => sock[e].ts_lastack = sock[e].rcv_nxt \/ sock[e].t_ack

\* An end of file that no reset caused comes after every byte the peer sent.
EofAfterAll ==
  \A e \in Ends :
    (eof[e] /\ ~sock[e].shutdown_reads /\ \A o \in Ends : sock[o].err = "")
      => Len(got[e]) = sent[Peer(e)]



\* The timer is armed and has something to run out for.
Armed(e) ==
  /\ clk[e] /\ sock[e].state # "CLOSED"
  /\ sock[e].rto_base \/ sock[e].state = "TIME_WAIT"

RunsOut(e) ==
  \E due \in Dues(sock[e]) : (sock[e].rto_base => "rto" \in due) /\ Clock(e, due)

\* An armed timer runs out and its thread runs notify_clock: weak fairness of
\* RunsOut(e), which is enabled when Armed(e) and then changes sock[e].
Fairness == \A e \in Ends : []<>~Armed(e) \/ []<><<RunsOut(e)>>_vars

FairSpec == Spec /\ Fairness
=============================================================================
