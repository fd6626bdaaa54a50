----------------------------- MODULE MqttClient -----------------------------
(***************************************************************************)
(* The gateway's one connection to the MQTT broker: PahoMqttMessageHandler,*)
(* the MQTT client it wraps (MQTTClient.h, changed for this gateway) and   *)
(* the socket below that (linux.cpp).                                      *)
(*                                                                         *)
(* Everything runs in the gateway's thread.  A call that needs an answer   *)
(* (connect, subscribe, unsubscribe, a publish of QoS 1) sends its packet  *)
(* and then reads and handles one packet after the other, whatever it is,  *)
(* until the answer comes or 30 seconds are over; loop() does the same for *)
(* 300 ms when there is nothing else to do.  One step of this module is    *)
(* one pass through cycle(), or the sending half of a call.  Time is not   *)
(* modelled: a timer may run out at any moment.                            *)
(*                                                                         *)
(* A packet fits the 512 byte buffers and is written whole or not at all:  *)
(* write blocks, and a broker that does not read for so long that the      *)
(* buffers of the socket are full is not modelled (MaxInFlight is a bound, *)
(* not a size of the code).  It may be read in two pieces, between which   *)
(* the time is over, if PacketsTorn.                                       *)
(* MQTTCLIENT_QOS2 is 0, and the session is clean, so nothing is in flight *)
(* across connections and QoS 2 packets have no handling of their own.     *)
(***************************************************************************)
EXTENDS Naturals, Sequences, FiniteSets

CONSTANTS
    Topics,         \* topics Core subscribes to, none of them with a wildcard
    LongTopics,     \* those of 254 bytes and more, too long for a handler's buffer
    NoTopic,        \* what a handler's buffer holds before its first use
    QoS,            \* qualities of service Core asks for
    MaxHandlers,    \* MAX_MESSAGE_HANDLERS
    MaxPacketId,    \* MAX_PACKET_ID
    MaxInFlight,    \* bound: packets on their way in one direction
    PeerCloses,     \* may the broker close the connection?
    PacketsTorn,    \* may the time of a call be over in the middle of a packet?
    CoreCounts      \* does Core subscribe a topic only if it is not subscribed?

ASSUME TopicAssumption == LongTopics \subseteq Topics /\ NoTopic \notin Topics
ASSUME QoSAssumption == QoS \subseteq 0..2
ASSUME SizeAssumption ==
    /\ MaxHandlers \in Nat \ {0} /\ MaxPacketId \in Nat \ {0} /\ MaxInFlight \in Nat \ {0}
    /\ PeerCloses \in BOOLEAN /\ PacketsTorn \in BOOLEAN /\ CoreCounts \in BOOLEAN

VARIABLES
    isconnected,        \* Client::isconnected
    attached,           \* messageHandlers[i].topicFilter # 0
    topicFilters,       \* topicFilters[i].topicName, the buffer of handler i
    ping_outstanding,   \* Client::ping_outstanding
    packetid,           \* PacketId::next
    call,               \* the call that is being executed
    link,               \* mysock: "none", "up", "lost" (silently) or "closed" by the broker
    toBroker, toClient, \* packets sent on mysock and not yet read
    subscribed,         \* the broker's subscriptions of the session on mysock
    wanted              \* topics whose subscribe succeeded since the connection
                        \* was made, and whose unsubscribe did not

session == <<isconnected, attached, ping_outstanding, wanted>>
network == <<link, toBroker, toClient, subscribed>>
vars    == <<session, topicFilters, packetid, call, network>>

Handlers == 1..MaxHandlers
Refused  == 128     \* the SUBACK return code 0x80

NoCall == [op |-> "idle", topic |-> NoTopic, qos |-> 0, id |-> 0]
Calls  == [op : {"idle", "yield", "yielding", "connect", "subscribe", "unsubscribe", "publish", "stuck"},
           topic : Topics \cup {NoTopic}, qos : QoS \cup {0}, id : 0..MaxPacketId]

\* code is the return code of a CONNACK or SUBACK and the QoS of the others.
Packet(type, id, topic, code) == [type |-> type, id |-> id, topic |-> topic, code |-> code]

Packets ==
    [type : {"CONNECT", "SUBSCRIBE", "UNSUBSCRIBE", "PUBLISH", "PUBACK", "PUBREC", "PINGREQ",
             "CONNACK", "SUBACK", "UNSUBACK", "PINGRESP"},
     id : 0..MaxPacketId, topic : Topics \cup {NoTopic}, code : 0..2 \cup {5, Refused}]

\* Types of all variables.
TypeOK ==
    /\ isconnected \in BOOLEAN
    /\ attached \in [Handlers -> BOOLEAN]
    /\ topicFilters \in [Handlers -> Topics \cup {NoTopic}]
    /\ ping_outstanding \in BOOLEAN
    /\ packetid \in 0..MaxPacketId
    /\ call \in Calls
    /\ link \in {"none", "up", "lost", "closed"}
    /\ toBroker \in Seq(Packets)
    /\ toClient \in Seq(Packets)
    /\ subscribed \subseteq Topics
    /\ wanted \subseteq Topics

\* begin() and the constructor of Client.
Init ==
    /\ isconnected = FALSE
    /\ attached = [i \in Handlers |-> FALSE]
    /\ topicFilters = [i \in Handlers |-> NoTopic]
    /\ ping_outstanding = FALSE
    /\ packetid = 0
    /\ call = NoCall
    /\ link = "none"
    /\ toBroker = <<>> /\ toClient = <<>>
    /\ subscribed = {} /\ wanted = {}

-----------------------------------------------------------------------------
(* The socket *)

\* The outcomes of sendPacket(p) when q is what is on its way already.  There is
\* none beyond the bound MaxInFlight.
sendPacket(q, p) ==
    CASE link = "up"     -> IF Len(q) < MaxInFlight THEN {[queue |-> Append(q, p), ok |-> TRUE]} ELSE {}
      [] link = "lost"   -> [queue : {q}, ok : BOOLEAN]
      [] link = "closed" -> {[queue |-> q, ok |-> TRUE]}
      [] link = "none"   -> {[queue |-> q, ok |-> FALSE]}

\* The outcomes of keepalive().  While connect waits for its CONNACK neither
\* timer can have run out: both were set to 60 s at most 30 s ago.
keepalive(q, ping) ==
    {[queue |-> q, ping |-> ping]} \cup
    IF ping \/ call.op = "connect" THEN {}
    ELSE {[queue |-> w.queue, ping |-> w.ok] : w \in sendPacket(q, Packet("PINGREQ", 0, NoTopic, 0))}

\* Mutants of cleanSession: one of its resets is missing.
cleanSessionButPing ==
    /\ isconnected' = FALSE
    /\ attached' = [i \in Handlers |-> FALSE]
    /\ wanted' = {}
    /\ UNCHANGED ping_outstanding
cleanSessionButHandlers ==
    /\ isconnected' = FALSE
    /\ ping_outstanding' = FALSE
    /\ wanted' = {}
    /\ UNCHANGED attached
cleanSessionButConnected ==
    /\ attached' = [i \in Handlers |-> FALSE]
    /\ ping_outstanding' = FALSE
    /\ wanted' = {}
    /\ UNCHANGED isconnected

cleanSession ==
    /\ isconnected' = FALSE
    /\ attached' = [i \in Handlers |-> FALSE]
    /\ ping_outstanding' = FALSE
    /\ wanted' = {}

\* Mutant of getNext: no wrap-around.
getNextForEver == packetid + 1

getNext == IF packetid = MaxPacketId THEN 1 ELSE packetid + 1

-----------------------------------------------------------------------------
(* Calls *)

\* loop() while connected: yield(300).
loop_yield ==
    /\ call = NoCall /\ isconnected
    /\ call' = [NoCall EXCEPT !.op = "yield"]
    /\ UNCHANGED <<session, topicFilters, packetid, network>>

\* Mutant of loop_connect: only a gateway that never had a socket connects.
loop_connect_once ==
    /\ call = NoCall /\ ~isconnected /\ link = "none"
    /\ link' = "up"
    /\ toBroker' = <<Packet("CONNECT", 0, NoTopic, 0)>>
    /\ toClient' = <<>>
    /\ subscribed' = {}
    /\ call' = [NoCall EXCEPT !.op = "connect"]
    /\ UNCHANGED <<session, topicFilters, packetid>>

\* loop() while not connected: ipstack.connect opens a new socket, and nobody
\* closes the old one; then CONNECT is sent.
loop_connect ==
    /\ call = NoCall /\ ~isconnected
    /\ link' = "up"
    /\ toBroker' = <<Packet("CONNECT", 0, NoTopic, 0)>>
    /\ toClient' = <<>>
    /\ subscribed' = {}
    /\ call' = [NoCall EXCEPT !.op = "connect"]
    /\ UNCHANGED <<session, topicFilters, packetid>>

loop_connect_fails ==
    /\ call = NoCall /\ ~isconnected
    /\ link' = "none"
    /\ toBroker' = <<>> /\ toClient' = <<>>
    /\ subscribed' = {}
    /\ UNCHANGED <<session, topicFilters, packetid, call>>

\* The sending half of subscribe, unsubscribe and publish: the packet p is sent
\* and the call waits, or the session is given up.  Without a connection nothing
\* happens (cleanSession has been there before).
Request(p, waiting) ==
    /\ call = NoCall /\ isconnected
    /\ packetid' = IF p.id = 0 THEN packetid ELSE p.id
    /\ \E w \in sendPacket(toBroker, p) :
          /\ toBroker' = w.queue
          /\ \/ w.ok /\ call' = waiting /\ UNCHANGED session
             \/ ~w.ok /\ cleanSession /\ UNCHANGED call
    /\ UNCHANGED <<topicFilters, link, toClient, subscribed>>

subscribe(t, q) ==
    /\ CoreCounts => t \notin wanted
    /\ Request(Packet("SUBSCRIBE", getNext, t, q),
               [op |-> "subscribe", topic |-> t, qos |-> q, id |-> getNext])

unsubscribe(t) ==
    Request(Packet("UNSUBSCRIBE", getNext, t, 0),
            [op |-> "unsubscribe", topic |-> t, qos |-> 0, id |-> getNext])

\* Only QoS 1 waits: "#elif MQTTCLIENT_QOS2" takes QoS 2 out.
publish(t, q) ==
    LET id == IF q = 0 THEN 0 ELSE getNext
    IN  Request(Packet("PUBLISH", id, t, q),
                IF q = 1 THEN [op |-> "publish", topic |-> t, qos |-> q, id |-> id] ELSE NoCall)

\* DISCONNECT is sent, or not, and the socket is closed.
disconnect ==
    /\ call = NoCall
    /\ cleanSession
    /\ link' = "none"
    /\ toBroker' = <<>> /\ toClient' = <<>>
    /\ subscribed' = {}
    /\ UNCHANGED <<topicFilters, packetid, call>>

-----------------------------------------------------------------------------
(* Reading: cycle, waitfor and what the waiting call does with its answer *)

Yields  == call.op \in {"yield", "yielding"}
Waiting == Yields \/ call.op \in {"connect", "subscribe", "unsubscribe", "publish"}

\* yield has been through cycle once, and may return when its time is over.
Handled == IF call.op = "yield" THEN [call EXCEPT !.op = "yielding"] ELSE call

\* The packet type waitfor looks for.
Awaited(op) ==
    CASE op = "connect"     -> "CONNACK"
      [] op = "subscribe"   -> "SUBACK"
      [] op = "unsubscribe" -> "UNSUBACK"
      [] op = "publish"     -> "PUBACK"
      [] OTHER              -> "none"

\* deliverMessage: the handlers a message for t is given to, each of which passes
\* it on to Core.
Matching(t) == {i \in Handlers : attached[i] /\ topicFilters[i] = t}

\* PUBLISH: delivered, acknowledged if its QoS asks for it, then keepalive; if the
\* acknowledgement cannot be sent keepalive is left out and yield ends.
cycle_publish ==
    LET p   == Head(toClient)
        ack == Packet(IF p.code = 1 THEN "PUBACK" ELSE "PUBREC", p.id, NoTopic, 0)
    IN
    /\ Waiting /\ toClient # <<>> /\ p.type = "PUBLISH"
    /\ \E a \in IF p.code = 0 THEN {[queue |-> toBroker, ok |-> TRUE]} ELSE sendPacket(toBroker, ack) :
          \/ /\ a.ok
             /\ \E k \in keepalive(a.queue, ping_outstanding) :
                   toBroker' = k.queue /\ ping_outstanding' = k.ping
             /\ call' = Handled
          \/ /\ ~a.ok
             /\ call' = IF Yields THEN NoCall ELSE call
             /\ UNCHANGED <<toBroker, ping_outstanding>>
    /\ toClient' = Tail(toClient)
    /\ UNCHANGED <<isconnected, attached, wanted, topicFilters, packetid, link, subscribed>>

\* Every other packet but the awaited one: PINGRESP ends the wait for it, the rest
\* has no case in the switch.
cycle_other ==
    LET p == Head(toClient) IN
    /\ Waiting /\ toClient # <<>> /\ p.type \notin {"PUBLISH", Awaited(call.op)}
    /\ \E k \in keepalive(toBroker, ping_outstanding /\ p.type # "PINGRESP") :
          toBroker' = k.queue /\ ping_outstanding' = k.ping
    /\ call' = Handled
    /\ toClient' = Tail(toClient)
    /\ UNCHANGED <<isconnected, attached, wanted, topicFilters, packetid, link, subscribed>>

\* subscribe after its SUBACK: the first free handler takes the topic; its buffer
\* keeps its old content if the topic is too long.  Without a free handler the
\* granted QoS is the return code, and only 0 is success.
suback(t, code, ping) ==
    \/ \E i \in Handlers :
          /\ code # Refused
          /\ ~attached[i] /\ \A j \in 1..i-1 : attached[j]
          /\ attached' = [attached EXCEPT ![i] = TRUE]
          /\ topicFilters' = IF t \in LongTopics THEN topicFilters
                             ELSE [topicFilters EXCEPT ![i] = t]
          /\ wanted' = wanted \cup {t}
          /\ ping_outstanding' = ping
          /\ UNCHANGED isconnected
    \/ /\ code = 0 /\ \A i \in Handlers : attached[i]
       /\ wanted' = wanted \cup {t}
       /\ ping_outstanding' = ping
       /\ UNCHANGED <<isconnected, attached, topicFilters>>
    \/ /\ code = Refused \/ (code # 0 /\ \A i \in Handlers : attached[i])
       /\ cleanSession
       /\ UNCHANGED topicFilters

\* Mutant of unsuback: the first handler is released, whatever its topic.
unsuback_first(t, ping) ==
    /\ attached' = [attached EXCEPT ![1] = FALSE]
    /\ wanted' = wanted \ {t}
    /\ ping_outstanding' = ping
    /\ UNCHANGED <<isconnected, topicFilters>>

\* unsubscribe after its UNSUBACK: the first handler of the topic is released.
unsuback(t, ping) ==
    /\ \/ Matching(t) = {} /\ UNCHANGED attached
       \/ \E i \in Matching(t) :
             /\ \A j \in Matching(t) : i <= j
             /\ attached' = [attached EXCEPT ![i] = FALSE]
    /\ wanted' = wanted \ {t}
    /\ ping_outstanding' = ping
    /\ UNCHANGED <<isconnected, topicFilters>>

\* waitfor has found its packet, after cycle has called keepalive.  Nobody
\* compares packet ids.
answered ==
    LET p == Head(toClient) IN
    /\ toClient # <<>> /\ p.type = Awaited(call.op)
    /\ \E k \in keepalive(toBroker, ping_outstanding) :
          /\ toBroker' = k.queue
          /\ \/ /\ call.op = "connect"
                /\ isconnected' = (p.code = 0)
                /\ UNCHANGED <<attached, ping_outstanding, wanted, topicFilters>>
             \/ call.op = "subscribe" /\ suback(call.topic, p.code, k.ping)
             \/ call.op = "unsubscribe" /\ unsuback(call.topic, k.ping)
             \/ /\ call.op = "publish"
                /\ ping_outstanding' = k.ping
                /\ UNCHANGED <<isconnected, attached, wanted, topicFilters>>
    /\ call' = NoCall
    /\ toClient' = Tail(toClient)
    /\ UNCHANGED <<packetid, link, subscribed>>

\* Mutant of timed_out: only connect looks at its timer.
timed_out_connect ==
    /\ call.op = "connect"
    /\ call' = NoCall
    /\ UNCHANGED <<session, topicFilters, packetid, network>>

\* The timer of the call has run out: connect fails, the other calls give the
\* session up.
timed_out ==
    /\ call.op \in {"connect", "subscribe", "unsubscribe", "publish"}
    /\ \/ call.op = "connect" /\ UNCHANGED session
       \/ call.op # "connect" /\ cleanSession
    /\ call' = NoCall
    /\ UNCHANGED <<topicFilters, packetid, network>>

\* yield returns SUCCESS: its 300 ms are over after a packet has been handled.
yield_done ==
    /\ call.op = "yielding"
    /\ call' = NoCall
    /\ UNCHANGED <<session, topicFilters, packetid, network>>

\* yield returns FAILURE, which loop() ignores: the first byte of a packet has not
\* come in time, or the read of it has failed.
yield_fails ==
    /\ Yields /\ link \in {"up", "lost"}
    /\ \E k \in keepalive(toBroker, ping_outstanding) :
          toBroker' = k.queue /\ ping_outstanding' = k.ping
    /\ call' = NoCall
    /\ UNCHANGED <<isconnected, attached, wanted, topicFilters, packetid, link, toClient, subscribed>>

\* The same while another call waits: only keepalive is done.
read_fails ==
    /\ Waiting /\ ~Yields /\ link \in {"up", "lost"}
    /\ \E k \in keepalive(toBroker, ping_outstanding) :
          toBroker' = k.queue /\ ping_outstanding' = k.ping
    /\ UNCHANGED <<isconnected, attached, wanted, topicFilters, packetid, call, link, toClient, subscribed>>

\* What the rest of a packet may be taken for, as far as cycle and the calls tell
\* packets apart.
Remains ==
    {Packet("PUBLISH", 0, t, q) : t \in Topics, q \in QoS} \cup
    {Packet(type, 0, NoTopic, code) :
        type \in {"CONNACK", "SUBACK", "UNSUBACK", "PUBACK", "PINGRESP"}, code \in {0, Refused}}

\* A read that fails in the middle of a packet has consumed what was there; nobody
\* disconnects, and the rest of the packet is taken for the beginning of the next
\* one, whatever cycle makes of it and however much of the stream it then swallows.
read_torn ==
    /\ PacketsTorn
    /\ Waiting /\ link \in {"up", "lost"} /\ toClient # <<>>
    /\ \E k \in keepalive(toBroker, ping_outstanding) :
          toBroker' = k.queue /\ ping_outstanding' = k.ping
    /\ call' = IF Yields THEN NoCall ELSE call
    /\ \E n \in 1..Len(toClient), p \in Remains :
          toClient' = <<p>> \o SubSeq(toClient, n + 1, Len(toClient))
    /\ UNCHANGED <<isconnected, attached, wanted, topicFilters, packetid, link, subscribed>>

\* IPStack::read: recv returns 0 for ever once the broker has closed.
read_stuck ==
    /\ Waiting /\ link = "closed" /\ toClient = <<>>
    /\ call' = [NoCall EXCEPT !.op = "stuck"]
    /\ UNCHANGED <<session, topicFilters, packetid, network>>

\* A write to a connection the broker has closed raises SIGPIPE, which nobody
\* handles; and read_stuck ends when somebody kills the gateway.  It starts anew.
killed ==
    /\ (link = "closed" /\ isconnected) \/ call.op = "stuck"
    /\ cleanSession
    /\ topicFilters' = [i \in Handlers |-> NoTopic]
    /\ packetid' = 0
    /\ call' = NoCall
    /\ link' = "none"
    /\ toBroker' = <<>> /\ toClient' = <<>>
    /\ subscribed' = {}

-----------------------------------------------------------------------------
(* The broker and the network, which are not part of the repository *)

\* The broker reads one packet and answers with the packets of the sequence s.
Answer(s) ==
    /\ Len(toClient) + Len(s) <= MaxInFlight
    /\ toBroker' = Tail(toBroker)
    /\ toClient' = toClient \o s
    /\ UNCHANGED <<session, topicFilters, packetid, call>>

Received(type) == link = "up" /\ toBroker # <<>> /\ Head(toBroker).type = type

BrokerAccepts ==
    /\ Received("CONNECT")
    /\ Answer(<<Packet("CONNACK", 0, NoTopic, 0)>>)
    /\ subscribed' = {}
    /\ UNCHANGED link

BrokerRefuses ==
    /\ PeerCloses
    /\ Received("CONNECT")
    /\ Answer(<<Packet("CONNACK", 0, NoTopic, 5)>>)
    /\ link' = "closed"
    /\ UNCHANGED subscribed

\* The granted QoS may be lower than the one that was asked for.
BrokerSubscribes ==
    LET p == Head(toBroker) IN
    /\ Received("SUBSCRIBE")
    /\ \E code \in 0..p.code \cup {Refused} :
          /\ Answer(<<Packet("SUBACK", p.id, NoTopic, code)>>)
          /\ subscribed' = IF code = Refused THEN subscribed ELSE subscribed \cup {p.topic}
    /\ UNCHANGED link

BrokerUnsubscribes ==
    LET p == Head(toBroker) IN
    /\ Received("UNSUBSCRIBE")
    /\ Answer(<<Packet("UNSUBACK", p.id, NoTopic, 0)>>)
    /\ subscribed' = subscribed \ {p.topic}
    /\ UNCHANGED link

BrokerReceives ==
    LET p == Head(toBroker) IN
    /\ Received("PUBLISH")
    /\ Answer(CASE p.code = 0 -> <<>>
                [] p.code = 1 -> <<Packet("PUBACK", p.id, NoTopic, 0)>>
                [] p.code = 2 -> <<Packet("PUBREC", p.id, NoTopic, 0)>>)
    /\ UNCHANGED <<link, subscribed>>

BrokerIsAcked ==
    /\ Received("PUBACK") \/ Received("PUBREC")
    /\ Answer(<<>>)
    /\ UNCHANGED <<link, subscribed>>

BrokerPongs ==
    /\ Received("PINGREQ")
    /\ Answer(<<Packet("PINGRESP", 0, NoTopic, 0)>>)
    /\ UNCHANGED <<link, subscribed>>

BrokerPublishes(t, q) ==
    /\ link = "up" /\ t \in subscribed
    /\ Len(toClient) < MaxInFlight
    /\ toClient' = Append(toClient, Packet("PUBLISH", 0, t, q))
    /\ UNCHANGED <<session, topicFilters, packetid, call, link, toBroker, subscribed>>

\* The broker closes: it reads nothing more, what it has sent still arrives.
BrokerCloses ==
    /\ PeerCloses
    /\ link = "up" /\ link' = "closed"
    /\ toBroker' = <<>>
    /\ UNCHANGED <<session, topicFilters, packetid, call, toClient, subscribed>>

\* The network fails without a word: what has not arrived never will.
LinkLost ==
    /\ link = "up" /\ link' = "lost"
    /\ toBroker' = <<>>
    /\ \E n \in 0..Len(toClient) : toClient' = SubSeq(toClient, 1, n)
    /\ UNCHANGED <<session, topicFilters, packetid, call, subscribed>>

-----------------------------------------------------------------------------
CoreCalls ==
    \/ \E t \in Topics, q \in QoS : subscribe(t, q)
    \/ \E t \in Topics : unsubscribe(t)
    \/ \E t \in Topics, q \in QoS : publish(t, q)
    \/ disconnect

Gateway ==
    \/ loop_yield \/ loop_connect \/ loop_connect_fails
    \/ cycle_publish \/ cycle_other \/ answered
    \/ timed_out \/ yield_done \/ yield_fails \/ read_fails \/ read_torn
    \/ read_stuck \/ killed

Broker ==
    \/ BrokerAccepts \/ BrokerRefuses \/ BrokerSubscribes \/ BrokerUnsubscribes
    \/ BrokerReceives \/ BrokerIsAcked \/ BrokerPongs
    \/ \E t \in Topics, q \in QoS : BrokerPublishes(t, q)
    \/ BrokerCloses

Next == CoreCalls \/ Gateway \/ Broker \/ LinkLost

Spec == Init /\ [][Next]_vars

\* The gateway's thread never stops: loop() is called again and again, and timers
\* run out.
ThreadFairness ==
    /\ WF_vars(loop_yield)
    /\ WF_vars(timed_out)
    /\ WF_vars(yield_done \/ yield_fails)

\* Of the connection attempts made again and again some reach the broker, are
\* accepted, and are answered in time.
ConnectFairness ==
    /\ SF_vars(loop_connect)
    /\ SF_vars(BrokerAccepts /\ call.op = "connect")
    /\ SF_vars(answered /\ call.op = "connect" /\ isconnected')

FairSpec == Spec /\ ThreadFairness /\ ConnectFairness

-----------------------------------------------------------------------------
(* Properties *)

\* The answer a call takes for its own is its own: "should be the same as the
\* packetid above", says unsubscribe of an id that nobody compares.  It is the
\* same because a call that gave up also gave up the socket its answer may still
\* arrive on.  After a torn packet it is not: what is left of it may be read as any
\* answer, for nobody disconnects.
AnswersBelong ==
    \A i \in DOMAIN toClient :
        toClient[i].type = Awaited(call.op) => toClient[i].id = call.id

\* Between two calls on a live connection Core, the handlers and the broker agree
\* on the subscriptions, and no topic has two handlers (every message is delivered
\* once): through refused, timed out and lost requests and reconnections.
SubscriptionsAgree ==
    isconnected /\ (call = NoCall \/ Yields) /\ link = "up" =>
        /\ subscribed = wanted
        /\ {topicFilters[i] : i \in {h \in Handlers : attached[h]}} = wanted
        /\ \A i, j \in Handlers : attached[i] /\ attached[j] /\ topicFilters[i] = topicFilters[j] => i = j

\* A message that is about to be read has its handler ("the callback function to be
\* invoked when a message is received for this subscription"), also when it was sent
\* just after the subscription was made or just before it was removed.  In a full
\* table it has none: subscribe succeeds without attaching one.
NextMessageHasHandler ==
    isconnected /\ toClient # <<>> /\ Head(toClient).type = "PUBLISH"
        => Matching(Head(toClient).topic) # {}

\* A ping the client waits for is on its way, so on a live connection the client
\* never waits for a PINGRESP that cannot come (it would never ping again).
PingOnItsWay ==
    ping_outstanding /\ link = "up" =>
        \/ \E i \in DOMAIN toBroker : toBroker[i].type = "PINGREQ"
        \/ \E i \in DOMAIN toClient : toClient[i].type = "PINGRESP"

\* Every call returns (readPacket: "the max time to wait for the packet read to
\* complete").
CallsReturn == call.op # "idle" ~> call.op = "idle"

\* A client that has given its session up (a call timed out, could not be sent, was
\* refused; disconnect) connects again, however many attempts fail.  loop() does not give
\* the session up when the connection is lost without a word: it ignores what yield returns.
Reconnects == ~isconnected ~> isconnected
=============================================================================
