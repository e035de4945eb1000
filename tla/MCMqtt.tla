------------------------------- MODULE MCMqtt -------------------------------
(***************************************************************************)
(* Instances of Mqtt for TLC.  MAX_PACKET_ID is small enough for the ids   *)
(* to wrap and MaxHandlers for the handler table to be full.               *)
(***************************************************************************)
EXTENDS Mqtt

a == <<"a">>
aPlus == <<"a", "/", "+">>
Hash == <<"#">>

Plan(filters, qos, n, inbox) ==
    [filters |-> filters, qos |-> qos, calls |-> n, inbox |-> inbox,
     alive |-> FALSE, clean |-> FALSE, faults |-> FALSE, splits |-> FALSE,
     tries |-> FALSE]

Inbox(n, q) == [n |-> n, q |-> q]

(* Publishing at every QoS to a broker that may refuse or fail.            *)
Publishes ==
    [Plan({}, {0, 1, 2}, 4, <<>>) EXCEPT !.faults = TRUE]

(* Subscribing to more filters than there are handlers.                    *)
Subscribes(clean) ==
    [Plan({a, aPlus, Hash}, {}, 4, <<>>) EXCEPT !.faults = TRUE, !.clean = clean]

(* A message that crosses the calls.                                       *)
Receives(q) == Plan({aPlus}, {1}, 4, <<Inbox(<<"a", "/", "b">>, q)>>)

(* A session that is kept alive and lost.                                  *)
Idles == [Plan({}, {0}, 2, <<>>) EXCEPT !.alive = TRUE, !.faults = TRUE]
Listens(q) == [Plan({a}, {}, 2, <<Inbox(a, q)>>) EXCEPT !.alive = TRUE, !.faults = TRUE]

(* Packets in two pieces.                                                  *)
Splits == [Plan({a}, {}, 2, <<Inbox(a, 1)>>) EXCEPT !.splits = TRUE]

(* Every well-formed filter of up to three characters, tried on every name *)
(* of up to four.                                                          *)
Strings(chars, n) == UNION {[1 .. k -> chars] : k \in 1 .. n}
Filters == {f \in Strings({"a", "b", "/", "+", "#"}, 3) : WellFormed(f)}
MCNames == Strings({"a", "b", "/"}, 4)
Tries(f) == [Plan({f}, {}, 2, <<>>) EXCEPT !.tries = TRUE]

MCPlans ==
    {Publishes, Subscribes(FALSE), Subscribes(TRUE), Receives(1), Receives(2),
     Idles, Listens(1), Splits} \cup {Tries(f) : f \in Filters}

AlivePlans == {[Plan({}, {}, 1, <<>>) EXCEPT !.alive = TRUE]}
YieldPlans == {Plan({a}, {}, 2, <<Inbox(a, 1)>>)}
SplitPlans == {Splits}
RetryPlans == {Plan({a}, {}, 2, <<Inbox(a, 2)>>)}
AgainPlans == {Plan({}, {}, 3, <<>>)}
TryPlans == {Tries(f) : f \in Filters}
=============================================================================
