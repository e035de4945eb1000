-------------------------------- MODULE Mqtt --------------------------------
(***************************************************************************)
(* The MQTT client of libmqttc (libmqttc.c) in the build the Makefile      *)
(* makes: no MQTT_TASK, so the application's thread makes every call, and  *)
(* SOCK_API 0, so packets are read straight from the socket.  A call sends *)
(* one packet and then runs cycle() until the packet it waits for has been *)
(* read or its timer has expired; whatever else is read meanwhile is       *)
(* handled in passing.  The broker and the TCP connection are external.    *)
(*                                                                         *)
(* A packet is a record with its type t and packet id; a PUBLISH adds its  *)
(* QoS q, its message m and its topic name n.  A timer is the fact that it *)
(* has expired.                                                            *)
(***************************************************************************)
EXTENDS TopicFilter, FiniteSets

CONSTANTS
    Plans,          \* what one client does and meets: see Init
    Names,          \* the topic names a filter is tried on
    MaxHandlers,    \* MAX_MESSAGE_HANDLERS
    MAX_PACKET_ID

VARIABLES
    plan,           \* the member of Plans this behaviour follows
    c,              \* mqtt_client: session, packet ids, handlers, timers
    link,           \* the TCP connection: its state and the packets in it
    pc,             \* where the client thread is in the call
    call,           \* the call in progress
    expired,        \* the timer of the call in progress
    rd,             \* the packet readPacket returned to cycle
    calls,          \* calls made so far, those to mqtt_yield not counted
    last,           \* how the last call ended
    handled,        \* deliveries of each message to a handler
    broker          \* the broker's session for this client

vars == <<plan, c, link, pc, call, expired, rd, calls, last, handled, broker>>

Pkt(t, id) == [t |-> t, id |-> id]
None == Pkt("NONE", 0)      \* readPacket returned 0: nothing was read
Error == Pkt("ERROR", 0)    \* readPacket returned a negative value
NoCall == [op |-> "none", want |-> "NONE", id |-> 0, arg |-> 0]
Acked == {"publish", "subscribe", "unsubscribe"}

(* A plan: the filters and QoS the application uses, how many calls it     *)
(* makes, the messages the broker has for it, whether a keepalive interval *)
(* is set, whether the session is clean, whether the broker may refuse and *)
(* the connection may fail, whether a packet may arrive in two pieces, and *)
(* whether the filters are tried on Names.                                 *)
Init ==
    /\ plan \in Plans
    /\ c = [isconnected |-> FALSE, ping_outstanding |-> FALSE,
            next_packetid |-> 1, handlers |-> {},
            last_sent |-> FALSE, last_received |-> FALSE]
    /\ link = [net |-> "new", in |-> <<>>, out |-> <<>>, part |-> "all"]
    /\ pc = "idle" /\ call = NoCall /\ expired = FALSE /\ rd = None
    /\ calls = 0
    /\ last = [op |-> "none", rc |-> "SUCCESS", id |-> 0, got |-> 0, arg |-> 0]
    /\ handled = [m \in DOMAIN plan.inbox |-> 0]
    /\ broker = [subs |-> {}, store |-> {}, accepted |-> {}, sent |-> 0,
                 unacked |-> {}, acked |-> {}]

-----------------------------------------------------------------------------
(* The helpers of a call, on the client's part s of the state: the client, *)
(* the connection and the code returned.                                   *)

getNextPacketId(id) == IF id = MAX_PACKET_ID THEN 1 ELSE id + 1

MQTTCloseSession(cl) ==
    [cl EXCEPT !.ping_outstanding = FALSE, !.isconnected = FALSE,
               !.handlers = IF plan.clean THEN {} ELSE @]

(* A write to a silent peer succeeds and is lost; the first write to a     *)
(* peer that has closed is answered by a reset.                            *)
sendPacket(s, p, late) ==
    IF late \/ s.link.net \in {"new", "reset"}
    THEN [s EXCEPT !.rc = "FAILURE"]
    ELSE [s EXCEPT !.rc = "SUCCESS", !.c.last_sent = FALSE,
            !.link.out = IF s.link.net = "up" THEN Append(@, p) ELSE @,
            !.link.net = IF @ = "closed" THEN "reset" ELSE @]

keepaliveForgives(s) ==
    IF plan.alive /\ (s.c.last_sent \/ s.c.last_received)
       /\ ~s.c.ping_outstanding
    THEN LET sent == sendPacket(s, Pkt("PINGREQ", 0), FALSE)
         IN  [sent EXCEPT !.c.ping_outstanding = sent.rc = "SUCCESS"]
    ELSE s

keepalive(s) ==
    IF ~plan.alive \/ ~(s.c.last_sent \/ s.c.last_received) THEN s
    ELSE IF s.c.ping_outstanding THEN [s EXCEPT !.rc = "FAILURE"]
    ELSE LET sent == sendPacket(s, Pkt("PINGREQ", 0), FALSE)
         IN  [sent EXCEPT !.c.ping_outstanding = sent.rc = "SUCCESS"]

(* What cycle sends in reply to the packet it has read.                    *)
Reply(p) ==
    CASE p.t = "PUBLISH" /\ p.q = 1 -> Pkt("PUBACK", p.id)
      [] p.t = "PUBLISH" /\ p.q = 2 -> Pkt("PUBREC", p.id)
      [] p.t = "PUBREC" -> Pkt("PUBREL", p.id)
      [] p.t = "PUBREL" -> Pkt("PUBCOMP", p.id)
      [] OTHER -> None

(* cycle, after readPacket has returned p.  The reply is sent under the    *)
(* timer of the call, the ping under a timer of its own.                   *)
cycle(p) ==
    LET s == [c |-> IF p.t = "PINGRESP"
                    THEN [c EXCEPT !.ping_outstanding = FALSE] ELSE c,
              link |-> link,
              rc |-> IF p = Error THEN "FAILURE" ELSE "SUCCESS"]
        replied == IF Reply(p) = None THEN s
                   ELSE sendPacket(s, Reply(p), expired)
        done == IF replied.rc = "FAILURE" THEN replied ELSE keepalive(replied)
    IN  IF done.rc = "FAILURE" /\ done.c.isconnected
        THEN [done EXCEPT !.c = MQTTCloseSession(@)]
        ELSE done

(* deliverMessage: every handler whose filter fits is called.              *)
deliverMessage(p) ==
    IF p.t = "PUBLISH" /\ \E f \in c.handlers : Delivers(f, p.n)
    THEN handled' = [handled EXCEPT ![p.m] = @ + 1]
    ELSE UNCHANGED handled

(* mqtt_set_msg_handler: an existing slot is reused, a new one must be     *)
(* free.                                                                   *)
HasSlot(f) == f \in c.handlers \/ Cardinality(c.handlers) < MaxHandlers

-----------------------------------------------------------------------------
(* The calls of the application.                                           *)

Returns(cl, rc, cll, got) ==
    /\ c' = cl /\ pc' = "idle" /\ call' = NoCall /\ expired' = FALSE
    /\ rd' = None
    /\ last' = [op |-> cll.op, rc |-> rc, id |-> cll.id, got |-> got,
                arg |-> cll.arg]

FailsOpen(cl, cll) == Returns(cl, "FAILURE", cll, 0)

(* Every call but mqtt_connect closes the session when it fails.           *)
Fails(cl, cll) ==
    Returns(IF cll.op = "connect" THEN cl ELSE MQTTCloseSession(cl),
            "FAILURE", cll, 0)

(* A call sends its packet p and then waits, or returns at once when it    *)
(* waits for nothing.                                                      *)
Sends(cl, net, p, cll) ==
    LET s == sendPacket([c |-> cl, link |-> [link EXCEPT !.net = net],
                         rc |-> "FAILURE"], p, FALSE)
    IN  /\ link' = s.link
        /\ \/ s.rc = "FAILURE" /\ Fails(s.c, cll)
           \/ s.rc = "SUCCESS" /\ cll.want = "NONE"
              /\ Returns(s.c, "SUCCESS", cll, cll.id)
           \/ /\ s.rc = "SUCCESS" /\ cll.want # "NONE"
              /\ c' = s.c /\ pc' = "loop" /\ call' = cll
              /\ UNCHANGED <<expired, rd, last>>

Calls == pc = "idle" /\ calls < plan.calls /\ calls' = calls + 1

(* connect() on a socket that has been connected once fails (EISCONN), and *)
(* an attempt that is refused leaves the socket as it was.                 *)
mqtt_connect ==
    LET cll == [op |-> "connect", want |-> "CONNACK", id |-> 0, arg |-> 0] IN
    /\ Calls /\ UNCHANGED <<plan, handled, broker>>
    /\ \/ /\ c.isconnected \/ link.net # "new" \/ plan.faults
          /\ Fails(c, cll) /\ UNCHANGED link
       \/ /\ link.net = "new"
          /\ Sends([c EXCEPT !.last_received = FALSE], "up",
                   Pkt("CONNECT", 0), cll)

(* The calls that need a session and take a packet id.                     *)
Request(op, want, arg, p, takes_id) ==
    LET id == IF takes_id THEN getNextPacketId(c.next_packetid) ELSE 0
        cll == [op |-> op, want |-> want, id |-> id, arg |-> arg]
    IN  /\ Calls /\ UNCHANGED <<plan, handled, broker>>
        /\ \/ ~c.isconnected /\ Fails(c, cll) /\ UNCHANGED link
           \/ /\ c.isconnected
              /\ Sends(IF takes_id THEN [c EXCEPT !.next_packetid = id] ELSE c,
                       link.net, [p EXCEPT !.id = id], cll)

WaitsForReceipt(q) ==
    CASE q = 0 -> "NONE" [] q = 1 -> "PUBACK" [] q = 2 -> "PUBREC"

WaitsFor(q) == CASE q = 0 -> "NONE" [] q = 1 -> "PUBACK" [] q = 2 -> "PUBCOMP"

mqtt_publish(q) ==
    Request("publish", WaitsFor(q), calls,
            [t |-> "PUBLISH", id |-> 0, q |-> q, m |-> calls], q > 0)

mqtt_subscribe(f) ==
    Request("subscribe", "SUBACK", f,
            [t |-> "SUBSCRIBE", id |-> 0, f |-> f], TRUE)


mqtt_unsubscribe(f) ==
    Request("unsubscribe", "UNSUBACK", f,
            [t |-> "UNSUBSCRIBE", id |-> 0, f |-> f], TRUE)

mqtt_disconnect ==
    LET s == sendPacket([c |-> c, link |-> link, rc |-> "FAILURE"],
                        Pkt("DISCONNECT", 0), FALSE)
    IN  /\ Calls /\ UNCHANGED <<plan, handled, broker>>
        /\ link' = s.link
        /\ Returns(MQTTCloseSession(s.c), s.rc,
                   [NoCall EXCEPT !.op = "disconnect"], 0)

(* mqtt_yield runs cycle at least once; the application yields while       *)
(* mqtt_is_connected, as test_libmqttc.c does.                             *)
mqtt_yield ==
    /\ pc = "idle" /\ c.isconnected
    /\ pc' = "read" /\ call' = [NoCall EXCEPT !.op = "yield"]
    /\ UNCHANGED <<plan, c, link, expired, rd, calls, last, handled, broker>>

-----------------------------------------------------------------------------
(* waitfor and mqtt_yield: the loop around cycle.                          *)

LoopStays ==
    /\ pc = "loop" /\ pc' = "read"
    /\ UNCHANGED <<plan, c, link, call, expired, rd, calls, last, handled,
                   broker>>

Loop ==
    /\ pc = "loop"
    /\ \/ /\ ~expired /\ pc' = "read"
          /\ UNCHANGED <<c, call, expired, rd, last>>
       \/ expired /\ call.op = "yield" /\ Returns(c, "SUCCESS", call, 0)
       \/ expired /\ call.op # "yield" /\ Fails(c, call)
    /\ UNCHANGED <<plan, link, calls, handled, broker>>

Whole == Len(link.in) > 1 \/ (Len(link.in) = 1 /\ link.part = "all")

(* readPacket.  recv() returns 0 at once when the peer has closed, which   *)
(* linux_read does not tell from a timeout; an error is reported once.     *)
readPacket ==
    /\ pc = "read" /\ pc' = "process"
    /\ \/ /\ Whole
          /\ rd' = Head(link.in) /\ link' = [link EXCEPT !.in = Tail(@)]
          /\ c' = [c EXCEPT !.last_received = @ /\ ~plan.alive]
       \/ /\ link.in = <<>> /\ (expired \/ link.net \in {"closed", "reset"})
          /\ rd' = None /\ UNCHANGED <<c, link>>
       \/ /\ link.in = <<>> /\ link.net = "reset"
          /\ rd' = Error /\ UNCHANGED <<c, link>>
    /\ UNCHANGED <<plan, call, expired, calls, last, handled, broker>>

(* The timer expires when only part of a packet has arrived.  The part is  *)
(* consumed and readPacket starts the next packet in the middle of this    *)
(* one; what it makes of the bytes is not modelled.                        *)
Tear ==
    /\ pc = "read" /\ Len(link.in) = 1 /\ link.part # "all"
    /\ expired \/ link.net # "up"
    /\ pc' = "torn"
    /\ UNCHANGED <<plan, c, link, call, expired, rd, calls, last, handled,
                   broker>>

(* What a call does with the packet it waited for.                         *)
AcceptConnack(cl) ==
    Returns(IF rd.id = 0
            THEN [cl EXCEPT !.isconnected = TRUE, !.ping_outstanding = FALSE]
            ELSE cl,
            IF rd.id = 0 THEN "SUCCESS" ELSE "REFUSED", call, 0)

AcceptPublished(cl) == Returns(cl, "SUCCESS", call, rd.id)

AcceptSubackRefusedToo(cl) ==
    Returns([cl EXCEPT !.handlers = @ \cup {call.arg}],
            "SUCCESS", call, rd.id)

AcceptSuback(cl) ==
    \/ ~rd.granted /\ Returns(cl, "SUCCESS", call, rd.id)
    \/ /\ rd.granted /\ HasSlot(call.arg)
       /\ Returns([cl EXCEPT !.handlers = @ \cup {call.arg}],
                  "SUCCESS", call, rd.id)
    \/ rd.granted /\ ~HasSlot(call.arg) /\ Fails(cl, call)

AcceptUnsuback(cl) ==
    Returns([cl EXCEPT !.handlers = @ \ {call.arg}], "SUCCESS", call, rd.id)

Accept(cl) ==
    CASE call.op = "connect"     -> AcceptConnack(cl)
      [] call.op = "publish"     -> AcceptPublished(cl)
      [] call.op = "subscribe"   -> AcceptSuback(cl)
      [] call.op = "unsubscribe" -> AcceptUnsuback(cl)

(* cycle, and what waitfor or mqtt_yield makes of its result.              *)
Process ==
    LET s == cycle(rd) IN
    /\ pc = "process"
    /\ link' = s.link
    /\ deliverMessage(rd)
    /\ \/ s.rc = "FAILURE" /\ Fails(s.c, call)
       \/ s.rc = "SUCCESS" /\ rd # None /\ rd.t = call.want /\ Accept(s.c)
       \/ /\ s.rc = "SUCCESS" /\ (rd = None \/ rd.t # call.want)
          /\ c' = s.c /\ pc' = "loop" /\ rd' = None
          /\ UNCHANGED <<call, expired, last>>
    /\ UNCHANGED <<plan, calls, broker>>

-----------------------------------------------------------------------------
(* Time: the timer of the call, and the two of the keepalive interval.     *)

TimerExpires ==
    /\ pc \in {"loop", "read", "process"} /\ ~expired /\ expired' = TRUE
    /\ UNCHANGED <<plan, c, link, pc, call, rd, calls, last, handled, broker>>

Counting == plan.alive /\ (c.isconnected \/ pc \notin {"idle", "torn"})

LastSentExpires ==
    /\ Counting /\ ~c.last_sent /\ c' = [c EXCEPT !.last_sent = TRUE]
    /\ UNCHANGED <<plan, link, pc, call, expired, rd, calls, last, handled,
                   broker>>

LastReceivedExpires ==
    /\ Counting /\ ~c.last_received /\ c' = [c EXCEPT !.last_received = TRUE]
    /\ UNCHANGED <<plan, link, pc, call, expired, rd, calls, last, handled,
                   broker>>

-----------------------------------------------------------------------------
(* The broker and the network.                                             *)

(* The broker sends a sequence of packets; the last may arrive in pieces.  *)
Arrives(l, ps) ==
    /\ link.part = "all" \/ link.in = <<>>
    /\ \/ link' = [l EXCEPT !.in = @ \o ps, !.part = "all"]
       \/ /\ plan.splits /\ ps # <<>>
          /\ link' = [l EXCEPT !.in = @ \o ps, !.part = "part"]

Answers(p, ok) ==
    CASE p.t = "CONNECT"     -> <<Pkt("CONNACK", IF ok THEN 0 ELSE 5)>>
      [] p.t = "PUBLISH"     -> IF p.q = 0 THEN <<>>
                                ELSE <<Pkt(IF p.q = 1 THEN "PUBACK" ELSE "PUBREC",
                                           p.id)>>
      [] p.t = "PUBREL"      -> <<Pkt("PUBCOMP", p.id)>>
      [] p.t = "PUBREC"      -> <<Pkt("PUBREL", p.id)>>
      [] p.t = "SUBSCRIBE"   -> <<[t |-> "SUBACK", id |-> p.id, granted |-> ok]>>
      [] p.t = "UNSUBSCRIBE" -> <<Pkt("UNSUBACK", p.id)>>
      [] p.t = "PINGREQ"     -> <<Pkt("PINGRESP", 0)>>
      [] OTHER               -> <<>>

(* The broker's session after a packet: a QoS 2 message is accepted when   *)
(* it is released.                                                         *)
Session(p, ok) ==
    CASE p.t = "PUBLISH" /\ p.q < 2 -> [broker EXCEPT !.accepted = @ \cup {p.m}]
      [] p.t = "PUBLISH" /\ p.q = 2 -> [broker EXCEPT !.store = @ \cup {<<p.id, p.m>>}]
      [] p.t = "PUBREL" ->
            [broker EXCEPT !.store = {x \in @ : x[1] # p.id},
                           !.accepted = @ \cup {x[2] : x \in {y \in broker.store : y[1] = p.id}}]
      [] p.t = "SUBSCRIBE" /\ ok    -> [broker EXCEPT !.subs = @ \cup {p.f}]
      [] p.t = "UNSUBSCRIBE"        -> [broker EXCEPT !.subs = @ \ {p.f}]
      [] p.t \in {"PUBACK", "PUBREC"} ->
            [broker EXCEPT !.acked = @ \cup {p.id}, !.unacked = @ \ {p.id}]
      [] OTHER -> broker

BrokerReceives ==
    /\ link.net = "up" /\ link.out # <<>>
    /\ \E ok \in BOOLEAN :
        LET p == Head(link.out)
            ends == p.t = "DISCONNECT" \/ (p.t = "CONNECT" /\ ~ok)
        IN  /\ ok \/ (plan.faults /\ p.t \in {"CONNECT", "SUBSCRIBE"})
            /\ broker' = Session(p, ok)
            /\ Arrives([link EXCEPT !.out = IF ends THEN <<>> ELSE Tail(@),
                                    !.net = IF ends THEN "closed" ELSE @],
                       Answers(p, ok))
    /\ UNCHANGED <<plan, c, pc, call, expired, rd, calls, last, handled>>

(* The broker sends its next message when a subscription asks for it, and  *)
(* may send it again while it is not acknowledged.  The packet id of the   *)
(* m-th message is m.                                                      *)
Message(m) == [t |-> "PUBLISH", id |-> m, q |-> plan.inbox[m].q, m |-> m,
               n |-> plan.inbox[m].n]

BrokerSends ==
    LET m == broker.sent + 1 IN
    /\ link.net = "up" /\ m \in DOMAIN plan.inbox
    /\ \E f \in broker.subs : Matches(f, plan.inbox[m].n)
    /\ Arrives(link, <<Message(m)>>)
    /\ broker' = [broker EXCEPT !.sent = m,
                    !.unacked = IF plan.inbox[m].q = 0 THEN @ ELSE @ \cup {m}]
    /\ UNCHANGED <<plan, c, pc, call, expired, rd, calls, last, handled>>

BrokerRetries ==
    /\ link.net = "up"
    /\ \E m \in broker.unacked :
        /\ Arrives(link, <<Message(m)>>)
        /\ broker' = [broker EXCEPT !.unacked = @ \ {m}]
    /\ UNCHANGED <<plan, c, pc, call, expired, rd, calls, last, handled>>

RestArrives ==
    /\ link.net = "up" /\ link.in # <<>> /\ link.part # "all"
    /\ link' = [link EXCEPT !.part = "all"]
    /\ UNCHANGED <<plan, c, pc, call, expired, rd, calls, last, handled, broker>>

(* The broker or the network fails: nothing more is heard from it, or the  *)
(* connection is closed or reset.  Packets on their way may be lost.       *)
Breaks ==
    /\ plan.faults /\ link.net = "up"
    /\ \E net \in {"silent", "closed", "reset"}, k \in 0 .. Len(link.in) :
        link' = [net |-> net, in |-> SubSeq(link.in, 1, k), out |-> <<>>,
                 part |-> IF k = Len(link.in) THEN link.part ELSE "all"]
    /\ UNCHANGED <<plan, c, pc, call, expired, rd, calls, last, handled, broker>>

-----------------------------------------------------------------------------
Client == Loop \/ readPacket \/ Tear \/ Process

Application ==
    \/ mqtt_connect \/ mqtt_disconnect \/ mqtt_yield
    \/ \E q \in plan.qos : mqtt_publish(q)
    \/ \E f \in plan.filters : mqtt_subscribe(f) \/ mqtt_unsubscribe(f)

Environment ==
    \/ TimerExpires \/ LastSentExpires \/ LastReceivedExpires
    \/ BrokerReceives \/ BrokerSends \/ BrokerRetries \/ RestArrives \/ Breaks

Next == Application \/ Client \/ Environment

Spec == Init /\ [][Next]_vars

(* The client's thread runs, its timers expire, and the application yields *)
(* for as long as the session is up.  Nothing is assumed of the broker.    *)
FairSpec ==
    /\ Spec
    /\ WF_vars(Client) /\ WF_vars(mqtt_yield)
    /\ WF_vars(TimerExpires)
    /\ WF_vars(LastSentExpires) /\ WF_vars(LastReceivedExpires)

-----------------------------------------------------------------------------
(* Properties                                                              *)

(* The fields of mqtt_client keep their ranges, the packet ids wrap before *)
(* MAX_PACKET_ID is exceeded, and the handler table never holds more than  *)
(* its MAX_MESSAGE_HANDLERS entries.                                       *)
TypeOK ==
    /\ c.isconnected \in BOOLEAN /\ c.ping_outstanding \in BOOLEAN
    /\ c.last_sent \in BOOLEAN /\ c.last_received \in BOOLEAN
    /\ c.next_packetid \in 1 .. MAX_PACKET_ID
    /\ c.handlers \subseteq plan.filters
    /\ Cardinality(c.handlers) <= MaxHandlers
    /\ link.net \in {"new", "up", "silent", "closed", "reset"}
    /\ link.part \in {"all", "part"}
    /\ pc \in {"idle", "loop", "read", "process", "torn"}
    /\ (call = NoCall) <=> (pc = "idle")
    /\ expired \in BOOLEAN /\ calls \in 0 .. plan.calls
    /\ \A m \in DOMAIN handled : handled[m] \in 0 .. 2

(* libmqttc.c:2178 says of the packet id in the acknowledgement that it    *)
(* "should be the same as the packetid above", and no call compares the    *)
(* two: mqtt_publish, mqtt_subscribe and mqtt_unsubscribe take the first   *)
(* packet of the type they wait for.  The acknowledgement a call succeeds  *)
(* on is nevertheless the answer to its own packet, because a call that    *)
(* gives up closes the session and the answer it missed is never read.     *)
AckMatches ==
    last.op \in Acked /\ last.rc = "SUCCESS" => last.got = last.id

(* mqtt_publish "wait[s] for all acks to complete for all QoSs"            *)
(* (libmqttc.h): when it has returned MQTT_SUCCESS for a QoS 1 or QoS 2    *)
(* message the broker has accepted that message.                           *)
PublishAccepted ==
    last.op = "publish" /\ last.rc = "SUCCESS" /\ last.id # 0
        => last.arg \in broker.accepted

(* Between two calls of a client whose session is up, the filters in the   *)
(* handler table are the subscriptions the broker holds: refused and lost  *)
(* SUBACKs, a full table and repeated or crossing calls leave no handler   *)
(* without a subscription and no subscription without a handler.  The      *)
(* handlers never outgrow their table.                                     *)
HandlersAgree ==
    /\ pc = "idle" /\ c.isconnected => c.handlers = broker.subs
    /\ Cardinality(c.handlers) <= MaxHandlers


(* The handler of a filter gets only topics of its filter, and it gets all *)
(* of them but the names with an empty level and the parent of a "#":      *)
(* isTopicMatched against the protocol's definition.                       *)
FilterMeans ==
    plan.tries /\ pc = "idle" => \A f \in c.handlers, n \in Names :
        /\ Delivers(f, n) => Matches(f, n)
        /\ Matches(f, n) /\ ~Narrower(f, n) => Delivers(f, n)

(* Every call returns, whatever the broker does: waitfor and mqtt_yield    *)
(* look at their timer before each cycle.                                  *)
CallReturns == pc \in {"loop", "read", "process"} ~> pc \in {"idle", "torn"}

(* A client that sets a keepalive interval and keeps yielding notices that *)
(* its broker has gone (test_libmqttc.c, test3: "wait for failure to be    *)
(* noticed by keepalive"), also when the connection just falls silent.     *)
LossNoticed ==
    plan.alive /\ link.net \in {"silent", "closed", "reset"}
        ~> ~c.isconnected \/ pc = "torn"

-----------------------------------------------------------------------------
(* Statements the code does not meet                                       *)

(* The comment at libmqttc.c:1878 on closing the session: "PINGRESP not    *)
(* received in keepalive interval".  When nothing is sent after the ping,  *)
(* a keepalive interval has passed since it was sent just when last_sent   *)
(* has expired.                                                            *)
PingGetsInterval ==
    [][c.ping_outstanding /\ c.isconnected /\ ~c'.isconnected
       /\ link.net = "up" /\ call.op = "yield" => c.last_sent]_vars

(* test_libmqttc.c, test2 and test3: after mqtt_disconnect, mqtt_connect   *)
(* on the same client has a "Good rc from connect".                        *)
ConnectsAgain ==
    [][call.op = "none" /\ calls' > calls /\ last.op = "disconnect"
       => last'.op # "connect" \/ last'.rc # "FAILURE"]_vars

(* A client that only yields to a broker that is up keeps its session.     *)
YieldKeepsSession ==
    [][call.op = "yield" /\ link.net = "up" /\ c.isconnected => c'.isconnected]_vars

(* readPacket always starts at the first byte of a packet.                 *)
InStep == pc # "torn"

(* A QoS 2 message is delivered once.                                      *)
DeliveredOnce ==
    \A m \in DOMAIN handled : plan.inbox[m].q = 2 => handled[m] <= 1

(* A handler gets every topic of its filter.                               *)
FilterComplete ==
    plan.tries /\ pc = "idle" => \A f \in c.handlers, n \in Names :
        Matches(f, n) => Delivers(f, n)
=============================================================================
