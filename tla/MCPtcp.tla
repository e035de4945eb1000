------------------------------- MODULE MCPtcp -------------------------------
(* Small streams for the model of pseudo-TCP. *)
EXTENDS Ptcp

Bytes(m, n) == "a" :> m @@ "b" :> n

Calm == [connectors |-> {"a"}, bytes |-> Bytes(0, 0), closers |-> {}, hows |-> {},
         dup |-> 0, fails |-> 0, late |-> 0]

OneWay == [Calm EXCEPT !.bytes = Bytes(3, 0), !.dup = 1]
BothWays == [Calm EXCEPT !.bytes = Bytes(2, 1)]
SenderCloses == [Calm EXCEPT !.bytes = Bytes(1, 0), !.closers = {"a"},
                             !.hows = {"RDWR"}]
BothClose == [Calm EXCEPT !.closers = Ends, !.hows = {"RDWR"}]
Half == [Calm EXCEPT !.bytes = Bytes(0, 1), !.closers = {"a"},
                     !.hows = {"RD", "WR", "FORCE"}]
Failing == [Calm EXCEPT !.bytes = Bytes(2, 0), !.fails = 1]
BothConnect == [Calm EXCEPT !.connectors = Ends, !.bytes = Bytes(1, 0)]

Streams == {OneWay, SenderCloses, BothClose, Half, Failing, BothConnect}

\* For liveness, and for the claims that do not hold.
Short == [Calm EXCEPT !.bytes = Bytes(1, 0), !.fails = 1]
Late == [Calm EXCEPT !.late = 1]
\* close sends the last two bytes at once though the window has room for one.
Flush == [Calm EXCEPT !.bytes = Bytes(3, 0), !.closers = {"a"},
                      !.hows = {"RDWR"}, !.dup = 1]

ShortStreams == {Short, BothClose}
LateStreams == {Late}
TwoWayStreams == {BothWays}
FlushStreams == {Flush}
ClosedStreams == {SenderCloses}
=============================================================================
