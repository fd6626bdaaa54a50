-------------------------- MODULE MqttClientProofs --------------------------
(***************************************************************************)
(* Proofs about MqttClient, for every set of topics, table of handlers,    *)
(* range of packet ids and capacity of the connection.                     *)
(*                                                                         *)
(* That an answer belongs to the call that takes it rests on CallInv: as   *)
(* long as a session is alive at most one request is unanswered, and it is *)
(* the one of the call that is being executed.  What is left of a call     *)
(* that gave up lies in a session that is given up as well.                *)
(*                                                                         *)
(* The last part is about the subscriptions: Core, the handlers of the     *)
(* client and the broker agree on them.  That proof follows the messages:  *)
(* Seen gives the subscriptions the broker had when it sent the packet at  *)
(* a place of the queue to the client, in terms of those the client has    *)
(* now and of the answer it has not read.                                  *)
(***************************************************************************)
EXTENDS MqttClient, SequenceTheorems, FiniteSetTheorems, TLAPS

(* Queues *)

\* Reading takes the first packet and moves the others one place to the front.
LEMMA TailQueue ==
    ASSUME NEW S, NEW q \in Seq(S), q # <<>>
    PROVE  /\ Len(q) \in Nat /\ Len(q) > 0
           /\ Head(q) = q[1] /\ Head(q) \in S
           /\ Tail(q) \in Seq(S)
           /\ Len(Tail(q)) = Len(q) - 1
           /\ DOMAIN Tail(q) = 1..Len(q) - 1
           /\ DOMAIN q = 1..Len(q)
           /\ \A i \in 1..Len(q) - 1 : Tail(q)[i] = q[i + 1]
BY HeadTailProperties, EmptySeq, LenProperties

\* Sending adds a packet at the end.
LEMMA AppendQueue ==
    ASSUME NEW S, NEW q \in Seq(S), NEW p \in S
    PROVE  /\ Len(q) \in Nat
           /\ Append(q, p) \in Seq(S)
           /\ Append(q, p) # <<>>
           /\ Len(Append(q, p)) = Len(q) + 1
           /\ DOMAIN Append(q, p) = 1..Len(q) + 1
           /\ DOMAIN q = 1..Len(q)
           /\ \A i \in 1..Len(q) : Append(q, p)[i] = q[i]
           /\ Append(q, p)[Len(q) + 1] = p
BY AppendProperties, LenProperties

\* A connection that is lost keeps the first packets.
LEMMA PrefixQueue ==
    ASSUME NEW S, NEW q \in Seq(S), NEW n \in 0..Len(q)
    PROVE  /\ SubSeq(q, 1, n) \in Seq(S)
           /\ Len(SubSeq(q, 1, n)) = n
           /\ DOMAIN SubSeq(q, 1, n) = 1..n
           /\ DOMAIN q = 1..Len(q)
           /\ \A i \in 1..n : SubSeq(q, 1, n)[i] = q[i]
<1>1. Len(q) \in Nat /\ DOMAIN q = 1..Len(q)
  BY LenProperties
<1>2. \A i \in 1..n : q[i] \in S
  BY <1>1, ElementOfSeq
<1>3. /\ SubSeq(q, 1, n) \in Seq(S)
      /\ Len(SubSeq(q, 1, n)) = n
      /\ \A i \in 1..n : SubSeq(q, 1, n)[i] = q[i]
  BY <1>1, <1>2, SubSeqProperties
<1> QED
  BY <1>1, <1>3, LenProperties

\* The answers of the broker: nothing, or one packet.
LEMMA AnswerQueue ==
    ASSUME NEW S, NEW q \in Seq(S), NEW p \in S
    PROVE  q \o <<>> = q /\ q \o <<p>> = Append(q, p)
BY ConcatEmptySeq, AppendIsConcat

-----------------------------------------------------------------------------
(* Types *)

\* A packet the client sends: a SUBSCRIBE has a topic, and what the broker reads as
\* a QoS is one.
Sendable ==
    {p \in Packets : /\ p.type = "SUBSCRIBE" => p.topic \in Topics
                     /\ p.type \in {"SUBSCRIBE", "PUBLISH"} => p.code \in 0..2}

\* TypeOK is not inductive: the return code of a SUBACK comes from the QoS of the
\* SUBSCRIBE, and its topic from the call.
TypeInv ==
    /\ TypeOK
    /\ toBroker \in Seq(Sendable)
    /\ call.op = "subscribe" => call.topic \in Topics

\* The packets of the protocol are packets.
LEMMA PacketTyped ==
    ASSUME NEW type \in {"CONNECT", "SUBSCRIBE", "UNSUBSCRIBE", "PUBLISH", "PUBACK", "PUBREC",
                         "PINGREQ", "CONNACK", "SUBACK", "UNSUBACK", "PINGRESP"},
           NEW id \in 0..MaxPacketId, NEW topic \in Topics \cup {NoTopic},
           NEW code \in 0..2 \cup {5, Refused}
    PROVE  /\ Packet(type, id, topic, code) \in Packets
           /\ Packet(type, id, topic, code).type = type
           /\ Packet(type, id, topic, code).id = id
           /\ Packet(type, id, topic, code).topic = topic
           /\ Packet(type, id, topic, code).code = code
BY DEF Packet, Packets

\* So are the ones the client sends.
LEMMA SendableTyped ==
    ASSUME NEW type \in {"CONNECT", "SUBSCRIBE", "UNSUBSCRIBE", "PUBLISH", "PUBACK", "PUBREC", "PINGREQ"},
           NEW id \in 0..MaxPacketId, NEW topic \in Topics \cup {NoTopic}, NEW code \in 0..2,
           type = "SUBSCRIBE" => topic \in Topics
    PROVE  Packet(type, id, topic, code) \in Sendable
BY PacketTyped DEF Sendable

\* A packet is written on a live connection, and nowhere else.
LEMMA SendOutcomes ==
    ASSUME TypeOK, NEW q, NEW p, NEW w \in sendPacket(q, p)
    PROVE  \/ link = "up" /\ w.queue = Append(q, p) /\ w.ok = TRUE
           \/ link # "up" /\ w.queue = q /\ w.ok \in BOOLEAN
<1>1. CASE link = "up"
  <2>1. w \in IF Len(q) < MaxInFlight THEN {[queue |-> Append(q, p), ok |-> TRUE]} ELSE {}
    BY <1>1 DEF sendPacket
  <2>2. w = [queue |-> Append(q, p), ok |-> TRUE]
    BY <2>1
  <2> QED
    BY <1>1, <2>2
<1>2. CASE link = "lost"
  <2>1. w \in [queue : {q}, ok : BOOLEAN]
    BY <1>2 DEF sendPacket
  <2>2. w.queue \in {q} /\ w.ok \in BOOLEAN
    BY <2>1
  <2> QED
    BY <1>2, <2>2
<1>3. CASE link = "closed"
  <2>1. w = [queue |-> q, ok |-> TRUE]
    BY <1>3 DEF sendPacket
  <2>2. w.queue = q /\ w.ok = TRUE
    BY <2>1
  <2> QED
    BY <1>3, <2>2
<1>4. CASE link = "none"
  <2>1. w = [queue |-> q, ok |-> FALSE]
    BY <1>4 DEF sendPacket
  <2>2. w.queue = q /\ w.ok = FALSE
    BY <2>1
  <2> QED
    BY <1>4, <2>2
<1> QED
  BY <1>1, <1>2, <1>3, <1>4 DEF TypeOK

PingReq == Packet("PINGREQ", 0, NoTopic, 0)

\* keepalive sends a PINGREQ or nothing, and does not send it twice.
LEMMA KeepaliveOutcomes ==
    ASSUME TypeOK, NEW q, NEW ping, NEW k \in keepalive(q, ping)
    PROVE  \/ k.queue = q /\ k.ping = ping
           \/ /\ ~ping /\ call.op # "connect"
              /\ \/ link = "up" /\ k.queue = Append(q, PingReq) /\ k.ping = TRUE
                 \/ link # "up" /\ k.queue = q /\ k.ping \in BOOLEAN
<1>1. CASE k = [queue |-> q, ping |-> ping]
  BY <1>1
<1>2. CASE k # [queue |-> q, ping |-> ping]
  <2>1. /\ ~(ping \/ call.op = "connect")
        /\ k \in {[queue |-> w.queue, ping |-> w.ok] : w \in sendPacket(q, PingReq)}
    BY <1>2 DEF keepalive, PingReq
  <2>2. PICK w \in sendPacket(q, PingReq) : k = [queue |-> w.queue, ping |-> w.ok]
    BY <2>1
  <2>3. k.queue = w.queue /\ k.ping = w.ok
    BY <2>2
  <2> QED
    BY <2>1, <2>2, <2>3, SendOutcomes
<1> QED
  BY <1>1, <1>2

\* What keepalive sends may be sent.
LEMMA KeepaliveTyped ==
    ASSUME TypeInv, NEW q \in Seq(Sendable), NEW ping \in BOOLEAN, NEW k \in keepalive(q, ping)
    PROVE  k.queue \in Seq(Sendable) /\ k.ping \in BOOLEAN
<1>1. PingReq \in Sendable
  BY SendableTyped, SizeAssumption DEF PingReq
<1>2. Append(q, PingReq) \in Seq(Sendable)
  BY <1>1, AppendQueue
<1> QED
  BY <1>2, KeepaliveOutcomes DEF TypeInv

\* The packet ids go round.
LEMMA NextIdTyped ==
    ASSUME TypeOK
    PROVE  getNext \in 0..MaxPacketId /\ getNext # 0
BY SizeAssumption DEF TypeOK, getNext

\* The queues while the types hold.
LEMMA Queues ==
    ASSUME TypeInv
    PROVE  /\ toBroker \in Seq(Sendable) /\ toClient \in Seq(Packets)
           /\ DOMAIN toBroker = 1..Len(toBroker) /\ Len(toBroker) \in Nat
           /\ DOMAIN toClient = 1..Len(toClient) /\ Len(toClient) \in Nat
           /\ \A i \in DOMAIN toBroker : toBroker[i] \in Sendable
           /\ \A i \in DOMAIN toClient : toClient[i] \in Packets
<1>1. toBroker \in Seq(Sendable) /\ toClient \in Seq(Packets)
  BY DEF TypeInv, TypeOK
<1> QED
  BY <1>1, LenProperties, ElementOfSeq

\* A queue of packets that may be sent is a queue of packets.
LEMMA SendableQueue == \A q \in Seq(Sendable) : q \in Seq(Packets)
<1>1. Sendable \subseteq Packets
  BY DEF Sendable
<1> QED
  BY <1>1, SeqMonotonic

\* Init has the types.
LEMMA InitTyped == Init => TypeInv
<1> SUFFICES ASSUME Init PROVE TypeInv
  OBVIOUS
<1>1. call \in Calls
  BY SizeAssumption DEF Init, NoCall, Calls
<1>2. toBroker \in Seq(Sendable) /\ toClient \in Seq(Packets) /\ toBroker \in Seq(Packets)
  BY EmptySeq DEF Init
<1>3. call.op # "subscribe"
  BY DEF Init, NoCall
<1>4. attached \in [Handlers -> BOOLEAN] /\ topicFilters \in [Handlers -> Topics \cup {NoTopic}]
  BY DEF Init
<1>5. /\ isconnected \in BOOLEAN /\ ping_outstanding \in BOOLEAN
      /\ subscribed \subseteq Topics /\ wanted \subseteq Topics
      /\ link \in {"none", "up", "lost", "closed"}
  BY DEF Init
<1>6. packetid \in 0..MaxPacketId
  BY SizeAssumption DEF Init
<1> QED
  BY <1>1, <1>2, <1>3, <1>4, <1>5, <1>6 DEF TypeInv, TypeOK

\* Calls that are made have the types.
LEMMA CallTyped ==
    /\ NoCall \in Calls
    /\ \A o \in {"yield", "connect", "stuck"} : [NoCall EXCEPT !.op = o] \in Calls
    /\ \A o \in {"subscribe", "unsubscribe", "publish"}, t \in Topics, q \in QoS \cup {0}, i \in 0..MaxPacketId :
          [op |-> o, topic |-> t, qos |-> q, id |-> i] \in Calls
    /\ call \in Calls => Handled \in Calls
BY SizeAssumption DEF NoCall, Calls, Handled

\* The sending half of a call.
LEMMA RequestTyped ==
    ASSUME TypeInv, NEW p \in Sendable, NEW c \in Calls,
           c.op = "subscribe" => c.topic \in Topics,
           Request(p, c)
    PROVE  TypeInv'
<1>1. PICK w \in sendPacket(toBroker, p) :
          /\ toBroker' = w.queue
          /\ \/ w.ok /\ call' = c /\ UNCHANGED session
             \/ ~w.ok /\ cleanSession /\ UNCHANGED call
  BY DEF Request
<1>2. toBroker' \in Seq(Sendable)
  <2>1. Append(toBroker, p) \in Seq(Sendable) /\ toBroker \in Seq(Sendable)
    BY Queues, AppendQueue
  <2> QED
    BY <1>1, <2>1, SendOutcomes DEF TypeInv
<1>3. toBroker' \in Seq(Packets)
  BY <1>2, SendableQueue
<1>4. packetid' \in 0..MaxPacketId
  BY DEF Request, TypeInv, TypeOK, Sendable, Packets
<1>5. call' \in Calls /\ (call'.op = "subscribe" => call'.topic \in Topics)
  BY <1>1 DEF TypeInv, TypeOK
<1>6. /\ isconnected' \in BOOLEAN /\ ping_outstanding' \in BOOLEAN
      /\ attached' \in [Handlers -> BOOLEAN] /\ wanted' \subseteq Topics
  <2>1. CASE UNCHANGED session
    BY <2>1 DEF session, TypeInv, TypeOK
  <2>2. CASE cleanSession
    BY <2>2 DEF cleanSession
  <2> QED
    BY <1>1, <2>1, <2>2
<1>7. UNCHANGED <<topicFilters, link, toClient, subscribed>>
  BY DEF Request
<1> QED
  BY <1>2, <1>3, <1>4, <1>5, <1>6, <1>7 DEF TypeInv, TypeOK

\* The session after cleanSession.
LEMMA CleanTyped ==
    ASSUME cleanSession
    PROVE  /\ isconnected' \in BOOLEAN /\ ping_outstanding' \in BOOLEAN
           /\ attached' \in [Handlers -> BOOLEAN] /\ wanted' \subseteq Topics
BY DEF cleanSession

\* Core's calls.
LEMMA CoreCallsTyped ==
    ASSUME TypeInv, CoreCalls
    PROVE  TypeInv'
<1>0. getNext \in 0..MaxPacketId /\ TypeOK
  BY NextIdTyped DEF TypeInv
<1>1. ASSUME NEW t \in Topics, NEW q \in QoS, subscribe(t, q)
      PROVE  TypeInv'
  <2> DEFINE p == Packet("SUBSCRIBE", getNext, t, q)
             c == [op |-> "subscribe", topic |-> t, qos |-> q, id |-> getNext]
  <2>1. Request(p, c)
    BY <1>1 DEF subscribe
  <2>2. p \in Sendable
    BY <1>0, SendableTyped, QoSAssumption
  <2>3. c \in Calls /\ c.topic \in Topics
    BY <1>0, CallTyped
  <2> QED
    BY <2>1, <2>2, <2>3, RequestTyped
<1>2. ASSUME NEW t \in Topics, unsubscribe(t)
      PROVE  TypeInv'
  <2> DEFINE p == Packet("UNSUBSCRIBE", getNext, t, 0)
             c == [op |-> "unsubscribe", topic |-> t, qos |-> 0, id |-> getNext]
  <2>1. Request(p, c)
    BY <1>2 DEF unsubscribe
  <2>2. p \in Sendable
    BY <1>0, SendableTyped
  <2>3. c \in Calls /\ c.topic \in Topics
    BY <1>0, CallTyped
  <2> QED
    BY <2>1, <2>2, <2>3, RequestTyped
<1>3. ASSUME NEW t \in Topics, NEW q \in QoS, publish(t, q)
      PROVE  TypeInv'
  <2> DEFINE id == IF q = 0 THEN 0 ELSE getNext
             p  == Packet("PUBLISH", id, t, q)
             w  == [op |-> "publish", topic |-> t, qos |-> q, id |-> id]
             c  == IF q = 1 THEN w ELSE NoCall
  <2>1. Request(p, c)
    BY <1>3 DEF publish
  <2>0. id \in 0..MaxPacketId
    BY <1>0, SizeAssumption
  <2> HIDE DEF id
  <2>2. p \in Sendable
    BY <2>0, SendableTyped, QoSAssumption
  <2>3. w \in Calls /\ NoCall \in Calls
    BY <2>0, CallTyped
  <2>4. w.op # "subscribe" /\ NoCall.op # "subscribe"
    BY DEF NoCall
  <2>5. c \in Calls /\ c.op # "subscribe"
    BY <2>3, <2>4
  <2> QED
    BY <2>1, <2>2, <2>5, RequestTyped
<1>4. ASSUME disconnect
      PROVE  TypeInv'
  <2>1. /\ toBroker' \in Seq(Sendable) /\ toBroker' \in Seq(Packets) /\ toClient' \in Seq(Packets)
    BY <1>4, EmptySeq DEF disconnect
  <2>2. link' \in {"none", "up", "lost", "closed"} /\ subscribed' \subseteq Topics
    BY <1>4 DEF disconnect
  <2>3. UNCHANGED <<topicFilters, packetid, call>> /\ cleanSession
    BY <1>4 DEF disconnect
  <2> QED
    BY <2>1, <2>2, <2>3, CleanTyped DEF TypeInv, TypeOK
<1> QED
  BY <1>1, <1>2, <1>3, <1>4 DEF CoreCalls

\* The packet that is read, and what is left behind it.
LEMMA Reading ==
    ASSUME TypeInv, toClient # <<>>
    PROVE  /\ Len(toClient) > 0
           /\ Head(toClient) = toClient[1] /\ Head(toClient) \in Packets
           /\ Tail(toClient) \in Seq(Packets)
           /\ DOMAIN Tail(toClient) = 1..Len(toClient) - 1
           /\ Len(Tail(toClient)) = Len(toClient) - 1
           /\ \A i \in 1..Len(toClient) - 1 : Tail(toClient)[i] = toClient[i + 1]
BY Queues, TailQueue

\* The packet the broker reads.
LEMMA Receiving ==
    ASSUME TypeInv, toBroker # <<>>
    PROVE  /\ Len(toBroker) > 0
           /\ Head(toBroker) = toBroker[1] /\ Head(toBroker) \in Sendable
           /\ Tail(toBroker) \in Seq(Sendable)
           /\ DOMAIN Tail(toBroker) = 1..Len(toBroker) - 1
           /\ Len(Tail(toBroker)) = Len(toBroker) - 1
           /\ \A i \in 1..Len(toBroker) - 1 : Tail(toBroker)[i] = toBroker[i + 1]
BY Queues, TailQueue

\* The acknowledgement of a PUBLISH.
Ack(p) == Packet(IF p.code = 1 THEN "PUBACK" ELSE "PUBREC", p.id, NoTopic, 0)

\* It may be sent.
LEMMA AckTyped == \A p \in Packets : Ack(p) \in Sendable /\ Ack(p).type \in {"PUBACK", "PUBREC"}
<1> SUFFICES ASSUME NEW p \in Packets
             PROVE  Ack(p) \in Sendable /\ Ack(p).type \in {"PUBACK", "PUBREC"}
  OBVIOUS
<1>1. p.id \in 0..MaxPacketId
  BY DEF Packets
<1> DEFINE type == IF p.code = 1 THEN "PUBACK" ELSE "PUBREC"
<1>2. type \in {"PUBACK", "PUBREC"}
  OBVIOUS
<1> HIDE DEF type
<1>3. Packet(type, p.id, NoTopic, 0) \in Sendable
  BY <1>1, <1>2, SendableTyped
<1>4. Packet(type, p.id, NoTopic, 0).type = type
  BY DEF Packet
<1> QED
  BY <1>2, <1>3, <1>4 DEF Ack, type

\* cycle with a PUBLISH: what is sent, and what becomes of the call.
CyclePublishSteps ==
    /\ \E a : /\ \/ a = toBroker
                 \/ link = "up" /\ a = Append(toBroker, Ack(Head(toClient)))
              /\ \/ call' = Handled /\ \E k \in keepalive(a, ping_outstanding) :
                                          toBroker' = k.queue /\ ping_outstanding' = k.ping
                 \/ /\ call' = (IF Yields THEN NoCall ELSE call)
                    /\ UNCHANGED <<toBroker, ping_outstanding>>

\* It is one of these.
LEMMA CyclePublish ==
    ASSUME TypeInv, cycle_publish
    PROVE  CyclePublishSteps
<1> DEFINE p == Head(toClient)
           nothing == [queue |-> toBroker, ok |-> TRUE]
           out == IF p.code = 0 THEN {nothing} ELSE sendPacket(toBroker, Ack(p))
<1>1. PICK a \in out :
          \/ /\ a.ok
             /\ \E k \in keepalive(a.queue, ping_outstanding) :
                   toBroker' = k.queue /\ ping_outstanding' = k.ping
             /\ call' = Handled
          \/ /\ ~a.ok
             /\ call' = IF Yields THEN NoCall ELSE call
             /\ UNCHANGED <<toBroker, ping_outstanding>>
  BY DEF cycle_publish, Ack
<1>2. \/ a.queue = toBroker
      \/ link = "up" /\ a.queue = Append(toBroker, Ack(p))
  <2>1. CASE p.code = 0
    BY <2>1
  <2>2. CASE p.code # 0
    BY <2>2, SendOutcomes DEF TypeInv
  <2> QED
    BY <2>1, <2>2
<1> HIDE DEF p, out
<1>3. CASE a.ok
  <2>1. call' = Handled /\ \E k \in keepalive(a.queue, ping_outstanding) :
                              toBroker' = k.queue /\ ping_outstanding' = k.ping
    BY <1>1, <1>3
  <2> QED
    BY <2>1, <1>2 DEF CyclePublishSteps, p
<1>4. CASE ~a.ok
  <2>1. call' = (IF Yields THEN NoCall ELSE call) /\ UNCHANGED <<toBroker, ping_outstanding>>
    BY <1>1, <1>4
  <2> QED
    BY <2>1 DEF CyclePublishSteps
<1> QED
  BY <1>3, <1>4

\* cycle and read keep the call, or end it.
LEMMA KeptCallTyped ==
    ASSUME TypeInv, call' \in {call, Handled, NoCall}
    PROVE  call' \in Calls /\ (call'.op = "subscribe" => call'.topic \in Topics)
<1>1. call \in Calls /\ NoCall \in Calls /\ Handled \in Calls
  BY CallTyped DEF TypeInv, TypeOK
<1>2. NoCall.op # "subscribe"
  BY DEF NoCall
<1>3. Handled.op = "subscribe" => Handled = call
  BY <1>1 DEF Handled, Calls
<1> QED
  BY <1>1, <1>2, <1>3 DEF TypeInv

\* A step that reads at most one packet, sends at most a PINGREQ and keeps the rest.
LEMMA QuietTyped ==
    ASSUME TypeInv,
           call' \in {call, Handled, NoCall},
           toBroker' \in Seq(Sendable), toClient' \in Seq(Packets), ping_outstanding' \in BOOLEAN,
           UNCHANGED <<isconnected, attached, wanted, topicFilters, packetid, link, subscribed>>
    PROVE  TypeInv'
<1>1. call' \in Calls /\ (call'.op = "subscribe" => call'.topic \in Topics)
  BY KeptCallTyped
<1>2. toBroker' \in Seq(Packets)
  BY SendableQueue
<1> QED
  BY <1>1, <1>2 DEF TypeInv, TypeOK

\* The sessions an answer leaves behind.
LEMMA AnsweredTyped ==
    ASSUME TypeInv, answered
    PROVE  TypeInv'
<1> DEFINE p == Head(toClient)
<1>1. toClient # <<>> /\ p.type = Awaited(call.op) /\ call' = NoCall /\ toClient' = Tail(toClient)
      /\ UNCHANGED <<packetid, link, subscribed>>
  BY DEF answered
<1>2. PICK k \in keepalive(toBroker, ping_outstanding) :
          /\ toBroker' = k.queue
          /\ \/ /\ call.op = "connect"
                /\ isconnected' = (p.code = 0)
                /\ UNCHANGED <<attached, ping_outstanding, wanted, topicFilters>>
             \/ call.op = "subscribe" /\ suback(call.topic, p.code, k.ping)
             \/ call.op = "unsubscribe" /\ unsuback(call.topic, k.ping)
             \/ /\ call.op = "publish"
                /\ ping_outstanding' = k.ping
                /\ UNCHANGED <<isconnected, attached, wanted, topicFilters>>
  BY DEF answered
<1>3. k.queue \in Seq(Sendable) /\ k.ping \in BOOLEAN
  BY Queues, KeepaliveTyped DEF TypeInv, TypeOK
<1>4. toBroker' \in Seq(Sendable) /\ toBroker' \in Seq(Packets) /\ toClient' \in Seq(Packets)
  BY <1>1, <1>2, <1>3, Reading, SendableQueue
<1>5. call' \in Calls /\ call'.op # "subscribe"
  BY <1>1, CallTyped DEF NoCall
<1>6. /\ isconnected' \in BOOLEAN /\ ping_outstanding' \in BOOLEAN
      /\ attached' \in [Handlers -> BOOLEAN] /\ wanted' \subseteq Topics
      /\ topicFilters' \in [Handlers -> Topics \cup {NoTopic}]
  <2>1. CASE call.op = "connect"
    BY <1>2, <2>1 DEF TypeInv, TypeOK
  <2>2. CASE call.op = "publish"
    BY <1>2, <1>3, <2>2 DEF TypeInv, TypeOK
  <2>3. CASE call.op = "subscribe"
    <3>0. call.topic \in Topics /\ suback(call.topic, p.code, k.ping)
      BY <1>2, <2>3 DEF TypeInv
    <3>1. CASE cleanSession /\ UNCHANGED topicFilters
      BY <3>1, CleanTyped DEF TypeInv, TypeOK
    <3>2. ASSUME NEW i \in Handlers,
                 attached' = [attached EXCEPT ![i] = TRUE],
                 topicFilters' = IF call.topic \in LongTopics THEN topicFilters
                                 ELSE [topicFilters EXCEPT ![i] = call.topic],
                 wanted' = wanted \cup {call.topic}, ping_outstanding' = k.ping, UNCHANGED isconnected
          PROVE  /\ isconnected' \in BOOLEAN /\ ping_outstanding' \in BOOLEAN
                 /\ attached' \in [Handlers -> BOOLEAN] /\ wanted' \subseteq Topics
                 /\ topicFilters' \in [Handlers -> Topics \cup {NoTopic}]
      BY <3>0, <3>2, <1>3 DEF TypeInv, TypeOK
    <3>3. CASE wanted' = wanted \cup {call.topic} /\ ping_outstanding' = k.ping
               /\ UNCHANGED <<isconnected, attached, topicFilters>>
      BY <3>0, <3>3, <1>3 DEF TypeInv, TypeOK
    <3> QED
      BY <3>0, <3>1, <3>2, <3>3 DEF suback
  <2>4. CASE call.op = "unsubscribe"
    <3>0. unsuback(call.topic, k.ping)
      BY <1>2, <2>4
    <3>1. attached' \in [Handlers -> BOOLEAN]
      <4>1. CASE UNCHANGED attached
        BY <4>1 DEF TypeInv, TypeOK
      <4>2. CASE \E i \in Matching(call.topic) : attached' = [attached EXCEPT ![i] = FALSE]
        BY <4>2 DEF TypeInv, TypeOK, Matching
      <4> QED
        BY <3>0, <4>1, <4>2 DEF unsuback
    <3>2. wanted' = wanted \ {call.topic} /\ ping_outstanding' = k.ping
          /\ UNCHANGED <<isconnected, topicFilters>>
      BY <3>0 DEF unsuback
    <3> QED
      BY <3>1, <3>2, <1>3 DEF TypeInv, TypeOK
  <2> QED
    BY <1>2, <2>1, <2>2, <2>3, <2>4
<1> QED
  BY <1>1, <1>4, <1>5, <1>6 DEF TypeInv, TypeOK

\* The rest of a torn packet is taken for a packet.
LEMMA RemainsTyped == Remains \subseteq Packets
<1>0. 0 \in 0..MaxPacketId
  BY SizeAssumption
<1>1. ASSUME NEW t \in Topics, NEW q \in QoS
      PROVE  Packet("PUBLISH", 0, t, q) \in Packets
  BY <1>0, PacketTyped, QoSAssumption
<1>2. ASSUME NEW type \in {"CONNACK", "SUBACK", "UNSUBACK", "PUBACK", "PINGRESP"}, NEW code \in {0, Refused}
      PROVE  Packet(type, 0, NoTopic, code) \in Packets
  BY <1>0 DEF Packet, Packets
<1> QED
  BY <1>1, <1>2 DEF Remains

\* The steps of the gateway's thread.
LEMMA GatewayTyped ==
    ASSUME TypeInv, Gateway
    PROVE  TypeInv'
<1>0. /\ toBroker \in Seq(Sendable) /\ toBroker \in Seq(Packets) /\ toClient \in Seq(Packets)
      /\ ping_outstanding \in BOOLEAN
  BY DEF TypeInv, TypeOK
<1>1. CASE loop_yield
  <2>1. call' \in Calls /\ call'.op # "subscribe"
    BY <1>1, CallTyped DEF loop_yield, NoCall
  <2>2. UNCHANGED <<session, topicFilters, packetid, network>>
    BY <1>1 DEF loop_yield
  <2> QED
    BY <2>1, <2>2 DEF TypeInv, TypeOK, session, network
<1>2. CASE loop_connect
  <2> DEFINE p == Packet("CONNECT", 0, NoTopic, 0)
  <2>1. call' \in Calls /\ call'.op # "subscribe"
    BY <1>2, CallTyped DEF loop_connect, NoCall
  <2>2. p \in Sendable /\ p \in Packets
    BY SendableTyped, SizeAssumption DEF Sendable
  <2> HIDE DEF p
  <2>3. <<p>> \in Seq(Sendable) /\ <<p>> \in Seq(Packets)
    BY <2>2
  <2>4. toBroker' \in Seq(Sendable) /\ toBroker' \in Seq(Packets) /\ toClient' \in Seq(Packets)
    BY <1>2, <2>3, EmptySeq DEF loop_connect, p
  <2>5. link' \in {"none", "up", "lost", "closed"} /\ subscribed' \subseteq Topics
    BY <1>2 DEF loop_connect
  <2>6. UNCHANGED <<session, topicFilters, packetid>>
    BY <1>2 DEF loop_connect
  <2> QED
    BY <2>1, <2>4, <2>5, <2>6 DEF TypeInv, TypeOK, session
<1>3. CASE loop_connect_fails
  <2>1. toBroker' \in Seq(Sendable) /\ toBroker' \in Seq(Packets) /\ toClient' \in Seq(Packets)
    BY <1>3, EmptySeq DEF loop_connect_fails
  <2>2. link' \in {"none", "up", "lost", "closed"} /\ subscribed' \subseteq Topics
    BY <1>3 DEF loop_connect_fails
  <2>3. UNCHANGED <<session, topicFilters, packetid, call>>
    BY <1>3 DEF loop_connect_fails
  <2> QED
    BY <2>1, <2>2, <2>3 DEF TypeInv, TypeOK, session
<1>4. CASE cycle_publish
  <2>1. /\ toClient # <<>> /\ toClient' = Tail(toClient)
        /\ UNCHANGED <<isconnected, attached, wanted, topicFilters, packetid, link, subscribed>>
    BY <1>4 DEF cycle_publish
  <2>2. toClient' \in Seq(Packets) /\ Head(toClient) \in Packets
    BY <2>1, Reading
  <2>3. PICK a : /\ \/ a = toBroker
                    \/ link = "up" /\ a = Append(toBroker, Ack(Head(toClient)))
                 /\ \/ call' = Handled /\ \E k \in keepalive(a, ping_outstanding) :
                                             toBroker' = k.queue /\ ping_outstanding' = k.ping
                    \/ /\ call' = (IF Yields THEN NoCall ELSE call)
                       /\ UNCHANGED <<toBroker, ping_outstanding>>
    BY <1>4, CyclePublish DEF CyclePublishSteps
  <2>4. Append(toBroker, Ack(Head(toClient))) \in Seq(Sendable)
    BY <1>0, <2>2, AckTyped, AppendQueue
  <2>5. a \in Seq(Sendable)
    BY <1>0, <2>3, <2>4
  <2>6. toBroker' \in Seq(Sendable) /\ ping_outstanding' \in BOOLEAN
    BY <1>0, <2>3, <2>5, KeepaliveTyped
  <2>7. call' \in {call, Handled, NoCall}
    BY <2>3
  <2> QED
    BY <2>1, <2>2, <2>6, <2>7, QuietTyped
<1>5. CASE cycle_other
  <2>1. /\ toClient # <<>> /\ toClient' = Tail(toClient) /\ call' = Handled
        /\ UNCHANGED <<isconnected, attached, wanted, topicFilters, packetid, link, subscribed>>
    BY <1>5 DEF cycle_other
  <2> DEFINE ping == ping_outstanding /\ Head(toClient).type # "PINGRESP"
  <2>2. PICK k \in keepalive(toBroker, ping) : toBroker' = k.queue /\ ping_outstanding' = k.ping
    BY <1>5 DEF cycle_other
  <2>3. ping \in BOOLEAN
    OBVIOUS
  <2> HIDE DEF ping
  <2>4. toBroker' \in Seq(Sendable) /\ ping_outstanding' \in BOOLEAN
    BY <1>0, <2>2, <2>3, KeepaliveTyped
  <2>5. toClient' \in Seq(Packets)
    BY <2>1, Reading
  <2> QED
    BY <2>1, <2>4, <2>5, QuietTyped
<1>6. CASE answered
  BY <1>6, AnsweredTyped
<1>7. CASE timed_out
  <2>1. call' = NoCall /\ UNCHANGED <<topicFilters, packetid, network>>
    BY <1>7 DEF timed_out
  <2>2. call' \in Calls /\ call'.op # "subscribe"
    BY <2>1, CallTyped DEF NoCall
  <2>3. /\ isconnected' \in BOOLEAN /\ ping_outstanding' \in BOOLEAN
        /\ attached' \in [Handlers -> BOOLEAN] /\ wanted' \subseteq Topics
    <3>1. CASE UNCHANGED session
      BY <3>1 DEF session, TypeInv, TypeOK
    <3>2. CASE cleanSession
      BY <3>2, CleanTyped
    <3> QED
      BY <1>7, <3>1, <3>2 DEF timed_out
  <2> QED
    BY <2>1, <2>2, <2>3 DEF TypeInv, TypeOK, network
<1>8. CASE yield_done
  <2>1. call' = NoCall /\ UNCHANGED <<session, topicFilters, packetid, network>>
    BY <1>8 DEF yield_done
  <2> QED
    BY <1>0, <2>1, QuietTyped DEF session, network
<1>9. CASE yield_fails \/ read_fails
  <2>1. /\ call' \in {call, NoCall}
        /\ UNCHANGED <<isconnected, attached, wanted, topicFilters, packetid, link, toClient, subscribed>>
    BY <1>9 DEF yield_fails, read_fails
  <2>2. PICK k \in keepalive(toBroker, ping_outstanding) : toBroker' = k.queue /\ ping_outstanding' = k.ping
    BY <1>9 DEF yield_fails, read_fails
  <2>3. toBroker' \in Seq(Sendable) /\ ping_outstanding' \in BOOLEAN
    BY <1>0, <2>2, KeepaliveTyped
  <2> QED
    BY <1>0, <2>1, <2>3, QuietTyped
<1>10. CASE read_stuck
  <2>1. call' \in Calls /\ call'.op # "subscribe"
    BY <1>10, CallTyped DEF read_stuck, NoCall
  <2>2. UNCHANGED <<session, topicFilters, packetid, network>>
    BY <1>10 DEF read_stuck
  <2> QED
    BY <2>1, <2>2 DEF TypeInv, TypeOK, session, network
<1>11. CASE killed
  <2>1. cleanSession /\ call' = NoCall
    BY <1>11 DEF killed
  <2>2. call' \in Calls /\ call'.op # "subscribe"
    BY <2>1, CallTyped DEF NoCall
  <2>3. toBroker' \in Seq(Sendable) /\ toBroker' \in Seq(Packets) /\ toClient' \in Seq(Packets)
    BY <1>11, EmptySeq DEF killed
  <2>4. /\ link' \in {"none", "up", "lost", "closed"} /\ subscribed' \subseteq Topics
        /\ topicFilters' \in [Handlers -> Topics \cup {NoTopic}]
    BY <1>11 DEF killed
  <2>5. packetid' \in 0..MaxPacketId
    BY <1>11, SizeAssumption DEF killed
  <2> QED
    BY <2>1, <2>2, <2>3, <2>4, <2>5, CleanTyped DEF TypeInv, TypeOK
<1>12. CASE read_torn
  <2>1. /\ call' \in {call, NoCall}
        /\ UNCHANGED <<isconnected, attached, wanted, topicFilters, packetid, link, subscribed>>
    BY <1>12 DEF read_torn
  <2>2. PICK k \in keepalive(toBroker, ping_outstanding) : toBroker' = k.queue /\ ping_outstanding' = k.ping
    BY <1>12 DEF read_torn
  <2>3. toBroker' \in Seq(Sendable) /\ ping_outstanding' \in BOOLEAN
    BY <1>0, <2>2, KeepaliveTyped
  <2>4. PICK n \in 1..Len(toClient), p \in Remains :
           toClient' = <<p>> \o SubSeq(toClient, n + 1, Len(toClient))
    BY <1>12 DEF read_torn
  <2>5. p \in Packets
    BY <2>4, RemainsTyped
  <2>6. toClient' \in Seq(Packets)
    <3>1. Len(toClient) \in Nat /\ n + 1 \in 1..Len(toClient) + 1
      BY <1>0, LenProperties
    <3>2. SubSeq(toClient, n + 1, Len(toClient)) \in Seq(Packets)
      BY <1>0, <3>1, SubSeqProperties
    <3>3. <<p>> \in Seq(Packets)
      BY <2>5
    <3> QED
      BY <2>4, <3>2, <3>3, ConcatProperties
  <2> QED
    BY <2>1, <2>3, <2>6, QuietTyped
<1> QED
  BY <1>1, <1>2, <1>3, <1>4, <1>5, <1>6, <1>7, <1>8, <1>9, <1>10, <1>11, <1>12 DEF Gateway

\* The broker has read a packet, and sends nothing or p.
LEMMA AnswerSent ==
    ASSUME TypeInv, NEW p \in Packets,
           Answer(<<>>) \/ Answer(<<p>>)
    PROVE  /\ toBroker' = Tail(toBroker)
           /\ Answer(<<>>) => toClient' = toClient
           /\ Answer(<<p>>) => toClient' = Append(toClient, p)
           /\ UNCHANGED <<isconnected, attached, ping_outstanding, wanted, topicFilters, packetid, call>>
<1>1. toClient \o <<>> = toClient /\ toClient \o <<p>> = Append(toClient, p)
  BY Queues, AnswerQueue
<1> QED
  BY <1>1 DEF Answer, session

\* Such a step keeps the types.
LEMMA AnswerTyped ==
    ASSUME TypeInv, toBroker # <<>>, NEW p \in Packets,
           Answer(<<>>) \/ Answer(<<p>>),
           link' \in {"none", "up", "lost", "closed"}, subscribed' \subseteq Topics
    PROVE  TypeInv'
<1>1. toBroker' \in Seq(Sendable)
  BY AnswerSent, Receiving
<1>2. toBroker' \in Seq(Packets)
  BY <1>1, SendableQueue
<1>3. Append(toClient, p) \in Seq(Packets) /\ toClient \in Seq(Packets)
  BY Queues, AppendQueue
<1>4. toClient' \in Seq(Packets)
  BY <1>3, AnswerSent
<1>5. UNCHANGED <<isconnected, attached, ping_outstanding, wanted, topicFilters, packetid, call>>
  BY AnswerSent
<1> QED
  BY <1>1, <1>2, <1>4, <1>5 DEF TypeInv, TypeOK

\* The broker's answers, packet by packet: which packet it has read, which it sends
\* and what becomes of its subscriptions.
Served(p, r) ==
    \/ /\ p.type = "CONNECT" /\ r = Packet("CONNACK", 0, NoTopic, 0)
       /\ Answer(<<r>>) /\ subscribed' = {} /\ UNCHANGED link
    \/ /\ p.type = "CONNECT" /\ r = Packet("CONNACK", 0, NoTopic, 5)
       /\ Answer(<<r>>) /\ link' = "closed" /\ UNCHANGED subscribed
    \/ /\ p.type = "SUBSCRIBE" /\ UNCHANGED link
       /\ r.type = "SUBACK" /\ r.id = p.id /\ r.topic = NoTopic
       /\ Answer(<<r>>)
       /\ subscribed' = IF r.code = Refused THEN subscribed ELSE subscribed \cup {p.topic}
    \/ /\ p.type = "UNSUBSCRIBE" /\ r = Packet("UNSUBACK", p.id, NoTopic, 0)
       /\ Answer(<<r>>) /\ subscribed' = subscribed \ {p.topic} /\ UNCHANGED link
    \/ /\ p.type = "PUBLISH" /\ p.code = 1 /\ r = Packet("PUBACK", p.id, NoTopic, 0)
       /\ Answer(<<r>>) /\ UNCHANGED <<link, subscribed>>
    \/ /\ p.type = "PUBLISH" /\ p.code = 2 /\ r = Packet("PUBREC", p.id, NoTopic, 0)
       /\ Answer(<<r>>) /\ UNCHANGED <<link, subscribed>>
    \/ /\ \/ p.type = "PUBLISH" /\ p.code = 0
          \/ p.type \in {"PUBACK", "PUBREC"}
       /\ Answer(<<>>) /\ UNCHANGED <<link, subscribed>>
    \/ /\ p.type = "PINGREQ" /\ r = Packet("PINGRESP", 0, NoTopic, 0)
       /\ Answer(<<r>>) /\ UNCHANGED <<link, subscribed>>

\* Every step in which the broker reads is one of them.
LEMMA BrokerServes ==
    ASSUME TypeInv,
           \/ BrokerAccepts \/ BrokerRefuses \/ BrokerSubscribes \/ BrokerUnsubscribes
           \/ BrokerReceives \/ BrokerIsAcked \/ BrokerPongs
    PROVE  /\ link = "up" /\ toBroker # <<>>
           /\ \E r \in Packets : Served(Head(toBroker), r)
<1> DEFINE p == Head(toBroker)
<1>0. link = "up" /\ toBroker # <<>>
  BY DEF BrokerAccepts, BrokerRefuses, BrokerSubscribes, BrokerUnsubscribes, BrokerReceives,
         BrokerIsAcked, BrokerPongs, Received
<1>1. p \in Sendable
  BY <1>0, Receiving
<1>2. /\ p.id \in 0..MaxPacketId
      /\ p.type \in {"SUBSCRIBE", "PUBLISH"} => p.code \in 0..2
      /\ 0 \in 0..MaxPacketId
  BY <1>1, SizeAssumption DEF Sendable, Packets
<1>3. /\ Packet("CONNACK", 0, NoTopic, 0) \in Packets
      /\ Packet("CONNACK", 0, NoTopic, 5) \in Packets
      /\ Packet("UNSUBACK", p.id, NoTopic, 0) \in Packets
      /\ Packet("PUBACK", p.id, NoTopic, 0) \in Packets
      /\ Packet("PUBREC", p.id, NoTopic, 0) \in Packets
      /\ Packet("PINGRESP", 0, NoTopic, 0) \in Packets
  BY <1>2, PacketTyped
<1>4. CASE BrokerAccepts
  BY <1>3, <1>4 DEF BrokerAccepts, Received, Served
<1>5. CASE BrokerRefuses
  BY <1>3, <1>5 DEF BrokerRefuses, Received, Served
<1>6. CASE BrokerSubscribes
  <2>1. p.type = "SUBSCRIBE" /\ UNCHANGED link
    BY <1>6 DEF BrokerSubscribes, Received
  <2>2. PICK code \in 0..p.code \cup {Refused} :
            /\ Answer(<<Packet("SUBACK", p.id, NoTopic, code)>>)
            /\ subscribed' = IF code = Refused THEN subscribed ELSE subscribed \cup {p.topic}
    BY <1>6 DEF BrokerSubscribes
  <2>3. code \in 0..2 \cup {5, Refused}
    BY <1>2, <2>1, <2>2
  <2> DEFINE r == Packet("SUBACK", p.id, NoTopic, code)
  <2>4. r \in Packets /\ r.type = "SUBACK" /\ r.id = p.id /\ r.topic = NoTopic /\ r.code = code
    BY <1>2, <2>3, PacketTyped
  <2>5. Answer(<<r>>)
    BY <2>2
  <2> HIDE DEF r
  <2>6. Served(p, r)
    BY <2>1, <2>2, <2>4, <2>5 DEF Served
  <2> QED
    BY <1>0, <2>4, <2>6
<1>7. CASE BrokerUnsubscribes
  BY <1>3, <1>7 DEF BrokerUnsubscribes, Received, Served
<1>8. CASE BrokerReceives
  <2>1. p.type = "PUBLISH" /\ UNCHANGED <<link, subscribed>> /\ p.code \in {0, 1, 2}
    BY <1>2, <1>8 DEF BrokerReceives, Received
  <2>2. CASE p.code = 0
    <3>1. Answer(<<>>)
      BY <1>8, <2>2 DEF BrokerReceives
    <3> QED
      BY <1>0, <1>3, <2>1, <2>2, <3>1 DEF Served
  <2>3. CASE p.code = 1
    <3>1. Answer(<<Packet("PUBACK", p.id, NoTopic, 0)>>)
      BY <1>8, <2>3 DEF BrokerReceives
    <3> QED
      BY <1>0, <1>3, <2>1, <2>3, <3>1 DEF Served
  <2>4. CASE p.code = 2
    <3>1. Answer(<<Packet("PUBREC", p.id, NoTopic, 0)>>)
      BY <1>8, <2>4 DEF BrokerReceives
    <3> QED
      BY <1>0, <1>3, <2>1, <2>4, <3>1 DEF Served
  <2> QED
    BY <2>1, <2>2, <2>3, <2>4
<1>9. CASE BrokerIsAcked
  BY <1>0, <1>3, <1>9 DEF BrokerIsAcked, Received, Served
<1>10. CASE BrokerPongs
  BY <1>3, <1>10 DEF BrokerPongs, Received, Served
<1> QED
  BY <1>4, <1>5, <1>6, <1>7, <1>8, <1>9, <1>10

\* The steps of the broker and of the network.
LEMMA BrokerTyped ==
    ASSUME TypeInv, Broker \/ LinkLost
    PROVE  TypeInv'
<1>1. CASE \/ BrokerAccepts \/ BrokerRefuses \/ BrokerSubscribes \/ BrokerUnsubscribes
           \/ BrokerReceives \/ BrokerIsAcked \/ BrokerPongs
  <2>1. toBroker # <<>> /\ \E r \in Packets : Served(Head(toBroker), r)
    BY <1>1, BrokerServes
  <2>2. PICK r \in Packets : Served(Head(toBroker), r)
    BY <2>1
  <2>3. Answer(<<>>) \/ Answer(<<r>>)
    BY <2>2 DEF Served
  <2>4. link' \in {"none", "up", "lost", "closed"}
    BY <2>2 DEF Served, TypeInv, TypeOK
  <2>5. Head(toBroker).type = "SUBSCRIBE" => Head(toBroker).topic \in Topics
    BY <2>1, Receiving DEF Sendable
  <2>6. subscribed' \subseteq Topics
    BY <2>2, <2>5 DEF Served, TypeInv, TypeOK
  <2> QED
    BY <2>1, <2>3, <2>4, <2>6, AnswerTyped
<1>2. ASSUME NEW t \in Topics, NEW q \in QoS, BrokerPublishes(t, q)
      PROVE  TypeInv'
  <2> DEFINE p == Packet("PUBLISH", 0, t, q)
  <2>1. p \in Packets
    BY PacketTyped, QoSAssumption, SizeAssumption
  <2> HIDE DEF p
  <2>2. Append(toClient, p) \in Seq(Packets)
    BY <2>1, Queues, AppendQueue
  <2>3. /\ toClient' = Append(toClient, p)
        /\ UNCHANGED <<session, topicFilters, packetid, call, link, toBroker, subscribed>>
    BY <1>2 DEF BrokerPublishes, p
  <2> QED
    BY <2>2, <2>3 DEF TypeInv, TypeOK, session
<1>3. CASE BrokerCloses
  <2>1. toBroker' \in Seq(Sendable) /\ toBroker' \in Seq(Packets)
    BY <1>3, EmptySeq DEF BrokerCloses
  <2>2. /\ link' = "closed"
        /\ UNCHANGED <<session, topicFilters, packetid, call, toClient, subscribed>>
    BY <1>3 DEF BrokerCloses
  <2> QED
    BY <2>1, <2>2 DEF TypeInv, TypeOK, session
<1>4. CASE LinkLost
  <2>1. toBroker' \in Seq(Sendable) /\ toBroker' \in Seq(Packets)
    BY <1>4, EmptySeq DEF LinkLost
  <2>2. PICK n \in 0..Len(toClient) : toClient' = SubSeq(toClient, 1, n)
    BY <1>4 DEF LinkLost
  <2>3. toClient' \in Seq(Packets)
    BY <2>2, Queues, PrefixQueue
  <2>4. link' = "lost" /\ UNCHANGED <<session, topicFilters, packetid, call, subscribed>>
    BY <1>4 DEF LinkLost
  <2> QED
    BY <2>1, <2>3, <2>4 DEF TypeInv, TypeOK, session
<1> QED
  BY <1>1, <1>2, <1>3, <1>4 DEF Broker

\* Every step keeps the types.
LEMMA NextTyped == TypeInv /\ [Next]_vars => TypeInv'
<1> SUFFICES ASSUME TypeInv, [Next]_vars PROVE TypeInv'
  OBVIOUS
<1>1. CASE UNCHANGED vars
  BY <1>1 DEF vars, session, network, TypeInv, TypeOK
<1> QED
  BY <1>1, CoreCallsTyped, GatewayTyped, BrokerTyped DEF Next

\* The variables have their types in every reachable state.
THEOREM TypeCorrect == Spec => []TypeOK
<1>1. TypeInv => TypeOK
  BY DEF TypeInv
<1> QED
  BY <1>1, InitTyped, NextTyped, PTL DEF Spec

-----------------------------------------------------------------------------
(* What the steps of the thread do to the queues *)

\* r is q with acknowledgements and pings behind it.
Extended(q, r) ==
    /\ DOMAIN q \subseteq DOMAIN r
    /\ \A i \in DOMAIN q : r[i] = q[i]
    /\ \A i \in DOMAIN r \ DOMAIN q : r[i].type \in {"PUBACK", "PUBREC", "PINGREQ"}

\* One packet more.
LEMMA ExtendedAppend ==
    ASSUME NEW q \in Seq(Sendable), NEW r \in Seq(Sendable), NEW p \in Sendable,
           Extended(q, r), p.type \in {"PUBACK", "PUBREC", "PINGREQ"}
    PROVE  Extended(q, Append(r, p))
<1> DEFINE s == Append(r, p)
<1>1. /\ DOMAIN r = 1..Len(r) /\ Len(r) \in Nat
      /\ DOMAIN s = 1..Len(r) + 1
      /\ \A i \in 1..Len(r) : s[i] = r[i]
      /\ s[Len(r) + 1] = p
  BY AppendQueue
<1> HIDE DEF s
<1>2. DOMAIN q \subseteq DOMAIN s /\ \A i \in DOMAIN q : s[i] = q[i]
  BY <1>1 DEF Extended
<1>3. ASSUME NEW i \in DOMAIN s \ DOMAIN q
      PROVE  s[i].type \in {"PUBACK", "PUBREC", "PINGREQ"}
  <2>1. CASE i \in DOMAIN r
    BY <1>1, <1>3, <2>1 DEF Extended
  <2>2. CASE i = Len(r) + 1
    BY <1>1, <2>2
  <2> QED
    BY <1>1, <2>1, <2>2
<1> QED
  BY <1>2, <1>3 DEF Extended, s

\* A packet of the type is in the queue q.
Carries(q, type) == \E i \in DOMAIN q : q[i].type = type

\* keepalive, called with ping and the queue a.
LEMMA KeepaliveExtends ==
    ASSUME TypeInv, NEW a \in Seq(Sendable), Extended(toBroker, a), NEW ping \in BOOLEAN,
           NEW k \in keepalive(a, ping)
    PROVE  /\ Extended(toBroker, k.queue)
           /\ k.ping => ping \/ (call.op # "connect" /\ (link = "up" => Carries(k.queue, "PINGREQ")))
<1>1. PingReq \in Sendable /\ PingReq.type = "PINGREQ"
  <2>1. 0 \in 0..MaxPacketId
    BY SizeAssumption
  <2> QED
    BY <2>1, SendableTyped, PacketTyped DEF PingReq
<1>2. Extended(toBroker, Append(a, PingReq))
  BY <1>1, ExtendedAppend, Queues
<1>3. Carries(Append(a, PingReq), "PINGREQ")
  BY <1>1, AppendQueue DEF Carries
<1> QED
  BY <1>2, <1>3, KeepaliveOutcomes DEF TypeInv

\* The steps of a call that is not at its end, and of yield.
Quiet == cycle_publish \/ cycle_other \/ yield_done \/ yield_fails \/ read_fails

\* They keep the call, move on in yield or end it, read at most one packet, which is
\* not the awaited one, and send acknowledgements and pings.
QuietSteps ==
    /\ Waiting
    /\ \/ ~Yields /\ call' = call
       \/ Yields /\ call'.op \in {"idle", "yield", "yielding"}
    /\ UNCHANGED <<isconnected, attached, wanted, topicFilters, packetid, link, subscribed>>
    /\ \/ UNCHANGED toClient
       \/ /\ toClient # <<>> /\ toClient' = Tail(toClient)
          /\ Head(toClient).type # Awaited(call.op)
    /\ Extended(toBroker, toBroker')
    /\ ping_outstanding' =>
          \/ ping_outstanding /\ (UNCHANGED toClient \/ Head(toClient).type # "PINGRESP")
          \/ call.op # "connect" /\ (link = "up" => Carries(toBroker', "PINGREQ"))

\* What becomes of the call.
LEMMA HandledCall ==
    ASSUME TypeInv, Waiting,
           call' = Handled \/ call' = (IF Yields THEN NoCall ELSE call)
    PROVE  \/ ~Yields /\ call' = call
           \/ Yields /\ call'.op \in {"idle", "yield", "yielding"}
<1>1. call \in Calls /\ NoCall.op = "idle"
  BY DEF TypeInv, TypeOK, NoCall
<1>2. CASE call.op = "yield"
  <2>1. [call EXCEPT !.op = "yielding"].op = "yielding"
    BY <1>1 DEF Calls
  <2> QED
    BY <1>1, <1>2, <2>1 DEF Handled, Yields
<1>3. CASE call.op # "yield"
  BY <1>1, <1>3 DEF Handled, Yields
<1> QED
  BY <1>2, <1>3

\* Every step of them does.
LEMMA QuietFacts ==
    ASSUME TypeInv, Quiet
    PROVE  QuietSteps
<1>0. /\ toBroker \in Seq(Sendable) /\ ping_outstanding \in BOOLEAN
      /\ Extended(toBroker, toBroker)
  BY DEF TypeInv, TypeOK, Extended
<1>1. CASE cycle_publish
  <2>1. /\ Waiting /\ toClient # <<>> /\ Head(toClient).type = "PUBLISH" /\ toClient' = Tail(toClient)
        /\ UNCHANGED <<isconnected, attached, wanted, topicFilters, packetid, link, subscribed>>
    BY <1>1 DEF cycle_publish
  <2>2. PICK a : /\ \/ a = toBroker
                    \/ link = "up" /\ a = Append(toBroker, Ack(Head(toClient)))
                 /\ \/ call' = Handled /\ \E k \in keepalive(a, ping_outstanding) :
                                             toBroker' = k.queue /\ ping_outstanding' = k.ping
                    \/ /\ call' = (IF Yields THEN NoCall ELSE call)
                       /\ UNCHANGED <<toBroker, ping_outstanding>>
    BY <1>1, CyclePublish DEF CyclePublishSteps
  <2>3. Ack(Head(toClient)) \in Sendable /\ Ack(Head(toClient)).type \in {"PUBACK", "PUBREC"}
    BY <2>1, Reading, AckTyped
  <2>4. a \in Seq(Sendable) /\ Extended(toBroker, a)
    <3>1. Append(toBroker, Ack(Head(toClient))) \in Seq(Sendable)
      BY <1>0, <2>3, AppendQueue
    <3>2. Extended(toBroker, Append(toBroker, Ack(Head(toClient))))
      BY <1>0, <2>3, ExtendedAppend
    <3> QED
      BY <1>0, <2>2, <3>1, <3>2
  <2>5. /\ Extended(toBroker, toBroker')
        /\ ping_outstanding' =>
              ping_outstanding \/ (call.op # "connect" /\ (link = "up" => Carries(toBroker', "PINGREQ")))
    BY <1>0, <2>2, <2>4, KeepaliveExtends
  <2>6. \/ ~Yields /\ call' = call
        \/ Yields /\ call'.op \in {"idle", "yield", "yielding"}
    BY <2>1, <2>2, HandledCall
  <2>7. "PUBLISH" # Awaited(call.op)
    BY DEF Awaited
  <2> QED
    BY <2>1, <2>5, <2>6, <2>7 DEF QuietSteps
<1>2. CASE cycle_other
  <2>1. /\ Waiting /\ toClient # <<>> /\ toClient' = Tail(toClient) /\ call' = Handled
        /\ Head(toClient).type # Awaited(call.op)
        /\ UNCHANGED <<isconnected, attached, wanted, topicFilters, packetid, link, subscribed>>
    BY <1>2 DEF cycle_other
  <2> DEFINE ping == ping_outstanding /\ Head(toClient).type # "PINGRESP"
  <2>2. PICK k \in keepalive(toBroker, ping) : toBroker' = k.queue /\ ping_outstanding' = k.ping
    BY <1>2 DEF cycle_other
  <2>3. ping \in BOOLEAN
    OBVIOUS
  <2> HIDE DEF ping
  <2>4. /\ Extended(toBroker, toBroker')
        /\ ping_outstanding' => ping \/ (call.op # "connect" /\ (link = "up" => Carries(toBroker', "PINGREQ")))
    BY <1>0, <2>2, <2>3, KeepaliveExtends
  <2>5. \/ ~Yields /\ call' = call
        \/ Yields /\ call'.op \in {"idle", "yield", "yielding"}
    BY <2>1, HandledCall
  <2> QED
    BY <2>1, <2>4, <2>5 DEF QuietSteps, ping
<1>3. CASE yield_done
  <2>1. /\ Waiting /\ Yields /\ call'.op = "idle"
        /\ UNCHANGED <<session, topicFilters, packetid, network>>
    BY <1>3 DEF yield_done, Yields, Waiting, NoCall
  <2>2. UNCHANGED <<toBroker, toClient, ping_outstanding>>
    BY <2>1 DEF session, network
  <2>3. UNCHANGED <<isconnected, attached, wanted, topicFilters, packetid, link, subscribed>>
    BY <2>1 DEF session, network
  <2>4. Extended(toBroker, toBroker')
    BY <1>0, <2>2
  <2> QED
    BY <2>1, <2>2, <2>3, <2>4 DEF QuietSteps
<1>4. CASE yield_fails \/ read_fails
  <2>1. /\ Waiting
        /\ \/ ~Yields /\ call' = call
           \/ Yields /\ call'.op \in {"idle", "yield", "yielding"}
        /\ UNCHANGED <<isconnected, attached, wanted, topicFilters, packetid, link, toClient, subscribed>>
    BY <1>4 DEF yield_fails, read_fails, Waiting, NoCall
  <2>2. PICK k \in keepalive(toBroker, ping_outstanding) : toBroker' = k.queue /\ ping_outstanding' = k.ping
    BY <1>4 DEF yield_fails, read_fails
  <2>3. /\ Extended(toBroker, toBroker')
        /\ ping_outstanding' =>
              ping_outstanding \/ (call.op # "connect" /\ (link = "up" => Carries(toBroker', "PINGREQ")))
    BY <1>0, <2>2, KeepaliveExtends
  <2> QED
    BY <2>1, <2>3 DEF QuietSteps
<1> QED
  BY <1>1, <1>2, <1>3, <1>4 DEF Quiet

\* waitfor returns to the call: the session goes on, or is given up.
AnsweredSteps ==
    /\ toClient # <<>> /\ Head(toClient).type = Awaited(call.op)
    /\ call.op \in {"connect", "subscribe", "unsubscribe", "publish"}
    /\ call' = NoCall /\ toClient' = Tail(toClient)
    /\ UNCHANGED <<packetid, link, subscribed>>
    /\ Extended(toBroker, toBroker')
    /\ \/ /\ call.op = "connect"
          /\ UNCHANGED <<attached, ping_outstanding, wanted, topicFilters>>
          /\ isconnected' \in BOOLEAN
       \/ call.op # "connect" /\ cleanSession
       \/ /\ call.op # "connect" /\ UNCHANGED isconnected
          /\ ping_outstanding' => ping_outstanding \/ (link = "up" => Carries(toBroker', "PINGREQ"))

\* It is one of these.
LEMMA AnsweredFacts ==
    ASSUME TypeInv, answered
    PROVE  AnsweredSteps
<1> DEFINE p == Head(toClient)
<1>0. /\ toBroker \in Seq(Sendable) /\ ping_outstanding \in BOOLEAN
      /\ Extended(toBroker, toBroker)
  BY DEF TypeInv, TypeOK, Extended
<1>1. toClient # <<>> /\ p.type = Awaited(call.op) /\ call' = NoCall /\ toClient' = Tail(toClient)
      /\ UNCHANGED <<packetid, link, subscribed>>
  BY DEF answered
<1>2. PICK k \in keepalive(toBroker, ping_outstanding) :
          /\ toBroker' = k.queue
          /\ \/ /\ call.op = "connect"
                /\ isconnected' = (p.code = 0)
                /\ UNCHANGED <<attached, ping_outstanding, wanted, topicFilters>>
             \/ call.op = "subscribe" /\ suback(call.topic, p.code, k.ping)
             \/ call.op = "unsubscribe" /\ unsuback(call.topic, k.ping)
             \/ /\ call.op = "publish"
                /\ ping_outstanding' = k.ping
                /\ UNCHANGED <<isconnected, attached, wanted, topicFilters>>
  BY DEF answered
<1>3. /\ Extended(toBroker, toBroker')
      /\ k.ping => ping_outstanding \/ (call.op # "connect" /\ (link = "up" => Carries(toBroker', "PINGREQ")))
  BY <1>0, <1>2, KeepaliveExtends
<1>4. \/ /\ call.op = "connect"
         /\ UNCHANGED <<attached, ping_outstanding, wanted, topicFilters>>
         /\ isconnected' \in BOOLEAN
      \/ call.op # "connect" /\ cleanSession
      \/ call.op # "connect" /\ UNCHANGED isconnected /\ ping_outstanding' = k.ping
  <2>1. CASE call.op = "connect"
    BY <1>2, <2>1
  <2>2. CASE call.op = "subscribe"
    BY <1>2, <2>2 DEF suback
  <2>3. CASE call.op = "unsubscribe"
    BY <1>2, <2>3 DEF unsuback
  <2>4. CASE call.op = "publish"
    BY <1>2, <2>4
  <2> QED
    BY <1>2, <2>1, <2>2, <2>3, <2>4
<1>5. call.op \in {"connect", "subscribe", "unsubscribe", "publish"}
  BY <1>2
<1> QED
  BY <1>1, <1>3, <1>4, <1>5 DEF AnsweredSteps

-----------------------------------------------------------------------------
(* The session and the call *)

\* A call other than connect has a connection, connect has none, and a gateway
\* without a connection has no subscription and awaits no PINGRESP.
SessionInv ==
    /\ call.op \in {"yield", "yielding", "subscribe", "unsubscribe", "publish"} => isconnected
    /\ call.op = "connect" => ~isconnected /\ call.id = 0
    /\ call.op = "stuck" => link = "closed" /\ toClient = <<>>
    /\ ~isconnected => ~ping_outstanding /\ wanted = {}

\* The sending half of a call: p is sent, or the session given up.
RequestSteps(p, c) ==
    /\ call = NoCall /\ isconnected
    /\ UNCHANGED <<topicFilters, link, toClient, subscribed>>
    /\ \/ link = "up" /\ toBroker' = Append(toBroker, p)
       \/ link # "up" /\ UNCHANGED toBroker
    /\ \/ call' = c /\ UNCHANGED session
       \/ UNCHANGED call /\ cleanSession

\* It does.
LEMMA RequestFacts ==
    ASSUME TypeInv, NEW p, NEW c, Request(p, c)
    PROVE  RequestSteps(p, c)
<1>1. PICK w \in sendPacket(toBroker, p) :
          /\ toBroker' = w.queue
          /\ \/ w.ok /\ call' = c /\ UNCHANGED session
             \/ ~w.ok /\ cleanSession /\ UNCHANGED call
  BY DEF Request
<1>2. \/ link = "up" /\ toBroker' = Append(toBroker, p)
      \/ link # "up" /\ UNCHANGED toBroker
  BY <1>1, SendOutcomes DEF TypeInv
<1>3. /\ call = NoCall /\ isconnected
      /\ UNCHANGED <<topicFilters, link, toClient, subscribed>>
  BY DEF Request
<1>4. \/ call' = c /\ UNCHANGED session
      \/ UNCHANGED call /\ cleanSession
  BY <1>1
<1> QED
  BY <1>2, <1>3, <1>4 DEF RequestSteps


\* The packet p Core's call sends, and the call c that waits for the answer, if one
\* does.
Asked(p, c) ==
    \/ /\ \/ p.type = "SUBSCRIBE" /\ c.op = "subscribe" /\ (CoreCounts => c.topic \notin wanted)
          \/ p.type = "UNSUBSCRIBE" /\ c.op = "unsubscribe"
          \/ p.type = "PUBLISH" /\ p.code = 1 /\ c.op = "publish"
       /\ p.id = c.id /\ p.topic = c.topic
    \/ p.type = "PUBLISH" /\ p.code # 1 /\ c = NoCall

\* Core's calls are such requests, and disconnect.
LEMMA CoreRequests ==
    ASSUME TypeInv, CoreCalls
    PROVE  disconnect \/ \E p \in Sendable, c \in Calls : RequestSteps(p, c) /\ Asked(p, c)
<1>0. getNext \in 0..MaxPacketId /\ TypeOK
  BY NextIdTyped DEF TypeInv
<1>1. ASSUME NEW t \in Topics, NEW q \in QoS, subscribe(t, q)
      PROVE  \E p \in Sendable, c \in Calls : RequestSteps(p, c) /\ Asked(p, c)
  <2> DEFINE p == Packet("SUBSCRIBE", getNext, t, q)
             c == [op |-> "subscribe", topic |-> t, qos |-> q, id |-> getNext]
  <2>1. Request(p, c) /\ (CoreCounts => t \notin wanted)
    BY <1>1 DEF subscribe
  <2>2. p \in Sendable /\ p.type = "SUBSCRIBE" /\ p.id = getNext /\ p.topic = t
    BY <1>0, SendableTyped, PacketTyped, QoSAssumption
  <2>3. c \in Calls /\ c.op = "subscribe" /\ c.topic = t /\ c.id = getNext
    BY <1>0, CallTyped
  <2> HIDE DEF p, c
  <2>4. RequestSteps(p, c)
    BY <2>1, RequestFacts
  <2>5. Asked(p, c)
    BY <2>1, <2>2, <2>3 DEF Asked
  <2> QED
    BY <2>2, <2>3, <2>4, <2>5
<1>2. ASSUME NEW t \in Topics, unsubscribe(t)
      PROVE  \E p \in Sendable, c \in Calls : RequestSteps(p, c) /\ Asked(p, c)
  <2> DEFINE p == Packet("UNSUBSCRIBE", getNext, t, 0)
             c == [op |-> "unsubscribe", topic |-> t, qos |-> 0, id |-> getNext]
  <2>1. Request(p, c)
    BY <1>2 DEF unsubscribe
  <2>2. p \in Sendable /\ p.type = "UNSUBSCRIBE" /\ p.id = getNext /\ p.topic = t
    BY <1>0, SendableTyped, PacketTyped
  <2>3. c \in Calls /\ c.op = "unsubscribe" /\ c.topic = t /\ c.id = getNext
    BY <1>0, CallTyped
  <2> HIDE DEF p, c
  <2>4. RequestSteps(p, c)
    BY <2>1, RequestFacts
  <2>5. Asked(p, c)
    BY <2>2, <2>3 DEF Asked
  <2> QED
    BY <2>2, <2>3, <2>4, <2>5
<1>3. ASSUME NEW t \in Topics, NEW q \in QoS, publish(t, q)
      PROVE  \E p \in Sendable, c \in Calls : RequestSteps(p, c) /\ Asked(p, c)
  <2> DEFINE id == IF q = 0 THEN 0 ELSE getNext
             p  == Packet("PUBLISH", id, t, q)
             w  == [op |-> "publish", topic |-> t, qos |-> q, id |-> id]
             c  == IF q = 1 THEN w ELSE NoCall
  <2>1. Request(p, c)
    BY <1>3 DEF publish
  <2>0. id \in 0..MaxPacketId
    BY <1>0, SizeAssumption
  <2> HIDE DEF id
  <2>2. p \in Sendable /\ p.type = "PUBLISH" /\ p.id = id /\ p.topic = t /\ p.code = q
    BY <2>0, SendableTyped, PacketTyped, QoSAssumption
  <2>3. w \in Calls /\ NoCall \in Calls /\ w.op = "publish" /\ w.topic = t /\ w.id = id
    BY <2>0, CallTyped
  <2> HIDE DEF p, w
  <2>4. c \in Calls /\ Asked(p, c)
    BY <2>2, <2>3 DEF Asked
  <2>5. RequestSteps(p, c)
    BY <2>1, RequestFacts
  <2> QED
    BY <2>2, <2>4, <2>5
<1> QED
  BY <1>1, <1>2, <1>3 DEF CoreCalls

\* Every step keeps SessionInv.
LEMMA SessionNext ==
    ASSUME ~PacketsTorn
    PROVE  TypeInv /\ SessionInv /\ [Next]_vars => SessionInv'
<1> SUFFICES ASSUME TypeInv, SessionInv, [Next]_vars PROVE SessionInv'
  OBVIOUS
<1>0. NoCall.op = "idle" /\ NoCall.id = 0
  BY DEF NoCall
<1>1. CASE CoreCalls
  <2>1. CASE disconnect
    BY <1>0, <2>1 DEF disconnect, cleanSession, SessionInv
  <2>2. ASSUME NEW p \in Sendable, NEW c \in Calls, RequestSteps(p, c), Asked(p, c)
        PROVE  SessionInv'
    BY <1>0, <2>2 DEF RequestSteps, Asked, SessionInv, cleanSession, session
  <2> QED
    BY <1>1, <2>1, <2>2, CoreRequests
<1>2. CASE Quiet
  <2>1. QuietSteps
    BY <1>2, QuietFacts
  <2>2. call.op # "stuck" /\ call.op # "idle"
    BY <2>1 DEF QuietSteps, Waiting, Yields
  <2>3. call'.op = "connect" => call.op = "connect" /\ call' = call
    BY <2>1 DEF QuietSteps
  <2>4. ~isconnected => ~ping_outstanding' /\ wanted' = {}
    BY <2>1, <2>2 DEF QuietSteps, SessionInv, Waiting, Yields
  <2> QED
    BY <2>1, <2>2, <2>3, <2>4 DEF QuietSteps, SessionInv, Yields
<1>3. CASE answered
  <2>1. AnsweredSteps
    BY <1>3, AnsweredFacts
  <2> QED
    BY <1>0, <2>1 DEF AnsweredSteps, SessionInv, cleanSession
<1>4. CASE loop_yield \/ read_stuck
  <2>1. /\ call' = [NoCall EXCEPT !.op = "yield"] \/ call' = [NoCall EXCEPT !.op = "stuck"]
        /\ UNCHANGED <<session, network>>
        /\ call' = [NoCall EXCEPT !.op = "yield"] => isconnected
        /\ call' = [NoCall EXCEPT !.op = "stuck"] => link = "closed" /\ toClient = <<>>
    BY <1>4 DEF loop_yield, read_stuck, NoCall
  <2>2. /\ [NoCall EXCEPT !.op = "yield"].op = "yield"
        /\ [NoCall EXCEPT !.op = "stuck"].op = "stuck"
    BY DEF NoCall
  <2> QED
    BY <2>1, <2>2 DEF SessionInv, session, network
<1>5. CASE loop_connect
  <2>1. [NoCall EXCEPT !.op = "connect"].op = "connect" /\ [NoCall EXCEPT !.op = "connect"].id = 0
    BY DEF NoCall
  <2>2. /\ ~isconnected /\ call' = [NoCall EXCEPT !.op = "connect"] /\ UNCHANGED session
    BY <1>5 DEF loop_connect
  <2> QED
    BY <2>1, <2>2 DEF SessionInv, session
<1>6. CASE loop_connect_fails
  BY <1>0, <1>6 DEF loop_connect_fails, SessionInv, session
<1>7. CASE timed_out
  BY <1>0, <1>7 DEF timed_out, SessionInv, session, cleanSession
<1>8. CASE killed
  BY <1>0, <1>8 DEF killed, SessionInv, cleanSession
<1>9. CASE \/ BrokerAccepts \/ BrokerRefuses \/ BrokerSubscribes \/ BrokerUnsubscribes
           \/ BrokerReceives \/ BrokerIsAcked \/ BrokerPongs
  <2>1. link = "up"
    BY <1>9, BrokerServes
  <2>2. UNCHANGED <<session, call>>
    BY <1>9 DEF BrokerAccepts, BrokerRefuses, BrokerSubscribes, BrokerUnsubscribes, BrokerReceives,
                BrokerIsAcked, BrokerPongs, Answer
  <2> QED
    BY <2>1, <2>2 DEF SessionInv, session
<1>10. CASE (\E t \in Topics, q \in QoS : BrokerPublishes(t, q)) \/ BrokerCloses \/ LinkLost
  <2>1. link = "up" /\ UNCHANGED <<session, call>>
    BY <1>10 DEF BrokerPublishes, BrokerCloses, LinkLost
  <2> QED
    BY <2>1 DEF SessionInv, session
<1>11. CASE UNCHANGED vars
  BY <1>11 DEF vars, session, network, SessionInv
<1> QED
  BY <1>1, <1>2, <1>3, <1>4, <1>5, <1>6, <1>7, <1>8, <1>9, <1>10, <1>11
     DEF Next, Gateway, Broker, Quiet, read_torn

-----------------------------------------------------------------------------
(* The ping *)

\* Only the packet that is read leaves a queue.
LEMMA CarriesTail ==
    ASSUME NEW S, NEW q \in Seq(S), q # <<>>, NEW type, Carries(q, type), Head(q).type # type
    PROVE  Carries(Tail(q), type)
<1>1. PICK i \in DOMAIN q : q[i].type = type
  BY DEF Carries
<1>2. i \in 2..Len(q) /\ Len(q) \in Nat
  BY <1>1, TailQueue
<1>3. i - 1 \in 1..Len(q) - 1 /\ Tail(q)[i - 1] = q[(i - 1) + 1] /\ (i - 1) + 1 = i
      /\ DOMAIN Tail(q) = 1..Len(q) - 1
  BY <1>2, TailQueue
<1> QED
  BY <1>1, <1>3 DEF Carries

\* What is sent is there, and what was there still is.
LEMMA CarriesAppend ==
    ASSUME NEW S, NEW q \in Seq(S), NEW p \in S
    PROVE  /\ Carries(Append(q, p), p.type)
           /\ \A type : Carries(q, type) => Carries(Append(q, p), type)
<1> DEFINE r == Append(q, p)
<1>1. /\ DOMAIN q = 1..Len(q) /\ Len(q) \in Nat /\ DOMAIN r = 1..Len(q) + 1
      /\ \A i \in 1..Len(q) : r[i] = q[i]
      /\ r[Len(q) + 1] = p
  BY AppendQueue
<1> HIDE DEF r
<1>2. Carries(r, p.type)
  BY <1>1 DEF Carries
<1>3. ASSUME NEW type, Carries(q, type)
      PROVE  Carries(r, type)
  BY <1>1, <1>3 DEF Carries
<1> QED
  BY <1>2, <1>3 DEF r

\* Every step keeps PingOnItsWay: the ping a client waits for is sent on the
\* connection it waits on, becomes an answer there, and is waited for until that
\* answer is read.
LEMMA PingNext ==
    ASSUME ~PacketsTorn
    PROVE  TypeInv /\ SessionInv /\ PingOnItsWay /\ [Next]_vars => PingOnItsWay'
<1> DEFINE P == ping_outstanding /\ link = "up" => Carries(toBroker, "PINGREQ") \/ Carries(toClient, "PINGRESP")
<1> SUFFICES ASSUME TypeInv, SessionInv, P, [Next]_vars PROVE P'
  BY DEF PingOnItsWay, Carries
<1>0. toBroker \in Seq(Sendable) /\ toClient \in Seq(Packets)
  BY Queues
<1>1. CASE CoreCalls
  <2>1. CASE disconnect
    BY <2>1 DEF disconnect
  <2>2. ASSUME NEW p \in Sendable, NEW c \in Calls, RequestSteps(p, c)
        PROVE  P'
    <3>1. CASE cleanSession
      BY <3>1 DEF cleanSession
    <3>2. CASE UNCHANGED session
      <4>1. UNCHANGED <<ping_outstanding, link, toClient>>
        BY <2>2, <3>2 DEF RequestSteps, session
      <4>2. Carries(toBroker, "PINGREQ") => Carries(toBroker', "PINGREQ")
        BY <1>0, <2>2, CarriesAppend DEF RequestSteps
      <4> QED
        BY <4>1, <4>2
    <3> QED
      BY <2>2, <3>1, <3>2 DEF RequestSteps
  <2> QED
    BY <1>1, <2>1, <2>2, CoreRequests
<1>2. CASE Quiet
  <2>1. QuietSteps
    BY <1>2, QuietFacts
  <2>2. Carries(toBroker, "PINGREQ") => Carries(toBroker', "PINGREQ")
    BY <2>1 DEF QuietSteps, Extended, Carries
  <2>3. CASE UNCHANGED toClient
    BY <2>1, <2>2, <2>3 DEF QuietSteps
  <2>4. CASE toClient' # toClient
    <3>1. toClient # <<>> /\ toClient' = Tail(toClient)
      BY <2>1, <2>4 DEF QuietSteps
    <3>2. Head(toClient).type # "PINGRESP" /\ Carries(toClient, "PINGRESP") => Carries(toClient', "PINGRESP")
      BY <1>0, <3>1, CarriesTail
    <3> QED
      BY <2>1, <2>2, <2>4, <3>2 DEF QuietSteps
  <2> QED
    BY <2>3, <2>4
<1>3. CASE answered
  <2>1. AnsweredSteps
    BY <1>3, AnsweredFacts
  <2>2. Carries(toBroker, "PINGREQ") => Carries(toBroker', "PINGREQ")
    BY <2>1 DEF AnsweredSteps, Extended, Carries
  <2>3. Head(toClient).type # "PINGRESP" /\ toClient # <<>> /\ toClient' = Tail(toClient)
    BY <2>1 DEF AnsweredSteps, Awaited
  <2>4. Carries(toClient, "PINGRESP") => Carries(toClient', "PINGRESP")
    BY <1>0, <2>3, CarriesTail
  <2> QED
    BY <2>1, <2>2, <2>4 DEF AnsweredSteps, cleanSession
<1>4. CASE loop_yield \/ read_stuck
  BY <1>4 DEF loop_yield, read_stuck, session, network
<1>5. CASE loop_connect \/ loop_connect_fails
  BY <1>5 DEF loop_connect, loop_connect_fails, SessionInv, session
<1>6. CASE timed_out
  BY <1>6 DEF timed_out, session, network, cleanSession
<1>7. CASE killed
  BY <1>7 DEF killed, cleanSession
<1>8. CASE \/ BrokerAccepts \/ BrokerRefuses \/ BrokerSubscribes \/ BrokerUnsubscribes
           \/ BrokerReceives \/ BrokerIsAcked \/ BrokerPongs
  <2>1. link = "up" /\ toBroker # <<>> /\ \E r \in Packets : Served(Head(toBroker), r)
    BY <1>8, BrokerServes
  <2>2. PICK r \in Packets : Served(Head(toBroker), r)
    BY <2>1
  <2>3. Answer(<<>>) \/ Answer(<<r>>)
    BY <2>2 DEF Served
  <2>4. toBroker' = Tail(toBroker) /\ UNCHANGED ping_outstanding
        /\ (toClient' = toClient \/ toClient' = Append(toClient, r))
    BY <2>3, AnswerSent
  <2>5. Carries(toClient, "PINGRESP") => Carries(toClient', "PINGRESP")
    BY <1>0, <2>4, CarriesAppend
  <2>6. CASE Head(toBroker).type = "PINGREQ"
    <3>1. r = Packet("PINGRESP", 0, NoTopic, 0) /\ Answer(<<r>>)
      BY <2>2, <2>6 DEF Served
    <3>2. r.type = "PINGRESP" /\ toClient' = Append(toClient, r)
      BY <3>1, AnswerSent DEF Packet
    <3>3. Carries(toClient', "PINGRESP")
      BY <1>0, <3>2, CarriesAppend
    <3> QED
      BY <3>3
  <2>7. CASE Head(toBroker).type # "PINGREQ"
    <3>1. Carries(toBroker, "PINGREQ") => Carries(toBroker', "PINGREQ")
      BY <1>0, <2>1, <2>4, <2>7, CarriesTail
    <3> QED
      BY <2>1, <2>4, <2>5, <3>1
  <2> QED
    BY <2>6, <2>7
<1>9. ASSUME NEW t \in Topics, NEW q \in QoS, BrokerPublishes(t, q)
      PROVE  P'
  <2> DEFINE p == Packet("PUBLISH", 0, t, q)
  <2>1. p \in Packets
    BY PacketTyped, QoSAssumption, SizeAssumption
  <2> HIDE DEF p
  <2>2. toClient' = Append(toClient, p) /\ UNCHANGED <<ping_outstanding, toBroker, link>>
    BY <1>9 DEF BrokerPublishes, p, session
  <2>3. Carries(toClient, "PINGRESP") => Carries(toClient', "PINGRESP")
    BY <1>0, <2>1, <2>2, CarriesAppend
  <2> QED
    BY <2>2, <2>3
<1>10. CASE BrokerCloses \/ LinkLost
  BY <1>10 DEF BrokerCloses, LinkLost
<1>11. CASE UNCHANGED vars
  BY <1>11 DEF vars, session, network
<1> QED
  BY <1>1, <1>2, <1>3, <1>4, <1>5, <1>6, <1>7, <1>8, <1>9, <1>10, <1>11
     DEF Next, Gateway, Broker, Quiet, read_torn

\* A ping the client waits for on a live connection is on its way: the client
\* never waits for a PINGRESP that cannot come, after which keepalive would never
\* ping again.
THEOREM PingCorrect ==
    ASSUME ~PacketsTorn
    PROVE  Spec => []PingOnItsWay
<1>1. Init => TypeInv /\ SessionInv /\ PingOnItsWay
  <2>1. Init => SessionInv /\ PingOnItsWay
    BY DEF Init, SessionInv, PingOnItsWay, NoCall
  <2> QED
    BY <2>1, InitTyped
<1>2. TypeInv /\ SessionInv /\ PingOnItsWay /\ [Next]_vars => (TypeInv /\ SessionInv /\ PingOnItsWay)'
  BY NextTyped, SessionNext, PingNext
<1> QED
  BY <1>1, <1>2, PTL DEF Spec

-----------------------------------------------------------------------------
(* Requests and answers *)

IsRequest(p) == p.type \in {"CONNECT", "SUBSCRIBE", "UNSUBSCRIBE"} \/ (p.type = "PUBLISH" /\ p.code = 1)
IsAnswer(p)  == p.type \in {"CONNACK", "SUBACK", "UNSUBACK", "PUBACK"}

\* The packet type a call sends.
RequestType(op) ==
    CASE op = "connect"     -> "CONNECT"
      [] op = "subscribe"   -> "SUBSCRIBE"
      [] op = "unsubscribe" -> "UNSUBSCRIBE"
      [] op = "publish"     -> "PUBLISH"
      [] OTHER              -> "none"

\* Nothing is asked and nothing is answered on the way to (B) and from the broker (C).
Free(B, C) ==
    /\ \A i \in DOMAIN B : ~IsRequest(B[i])
    /\ \A i \in DOMAIN C : ~IsAnswer(C[i])

\* At most one request or answer is on its way, and it is the one of the call c.
Outstanding(B, C, c) ==
    /\ \A i \in DOMAIN B : IsRequest(B[i]) =>
          B[i].type = RequestType(c.op) /\ B[i].id = c.id /\ B[i].topic = c.topic
    /\ \A i \in DOMAIN C : IsAnswer(C[i]) => C[i].type = Awaited(c.op) /\ C[i].id = c.id
    /\ \A i, j \in DOMAIN B : IsRequest(B[i]) /\ IsRequest(B[j]) => i = j
    /\ \A i, j \in DOMAIN C : IsAnswer(C[i]) /\ IsAnswer(C[j]) => i = j
    /\ \A i \in DOMAIN B, j \in DOMAIN C : ~(IsRequest(B[i]) /\ IsAnswer(C[j]))

\* The session can still be used, or is being set up.
Live == call.op # "stuck" /\ (isconnected \/ call.op = "connect")

OutstandingInv == Live => Outstanding(toBroker, toClient, call)

\* Without a call that waits nothing is on its way.
LEMMA OutstandingFree ==
    ASSUME NEW B, NEW C, NEW c
    PROVE  /\ Free(B, C) => Outstanding(B, C, c)
           /\ Outstanding(B, C, c) /\ c.op \notin {"connect", "subscribe", "unsubscribe", "publish"}
                 => Free(B, C)
<1>1. Free(B, C) => Outstanding(B, C, c)
  BY DEF Free, Outstanding
<1>2. ASSUME Outstanding(B, C, c), c.op \notin {"connect", "subscribe", "unsubscribe", "publish"}
      PROVE  Free(B, C)
  <2>1. RequestType(c.op) = "none" /\ Awaited(c.op) = "none"
    BY <1>2 DEF RequestType, Awaited
  <2> QED
    BY <1>2, <2>1 DEF Outstanding, Free, IsRequest, IsAnswer
<1> QED
  BY <1>1, <1>2

\* Acknowledgements and pings are no requests.
LEMMA OutstandingExtended ==
    ASSUME NEW B, NEW D, NEW C, NEW c, Extended(B, D)
    PROVE  /\ Outstanding(B, C, c) => Outstanding(D, C, c)
           /\ Free(B, C) => Free(D, C)
<1>1. \A i \in DOMAIN D : IsRequest(D[i]) => i \in DOMAIN B /\ D[i] = B[i]
  BY DEF Extended, IsRequest
<1> QED
  BY <1>1 DEF Outstanding, Free

\* Reading a packet does no harm, and reading the awaited one ends the wait.
LEMMA OutstandingRead ==
    ASSUME NEW B, NEW C \in Seq(Packets), NEW c, C # <<>>, Outstanding(B, C, c)
    PROVE  /\ Outstanding(B, Tail(C), c)
           /\ IsAnswer(Head(C)) => Free(B, Tail(C))
<1> DEFINE T == Tail(C)
<1>1. /\ Len(C) \in Nat /\ Len(C) > 0 /\ Head(C) = C[1] /\ DOMAIN C = 1..Len(C)
      /\ DOMAIN T = 1..Len(C) - 1
      /\ \A i \in 1..Len(C) - 1 : T[i] = C[i + 1]
  BY TailQueue
<1> HIDE DEF T
<1>2. \A i \in DOMAIN T : i + 1 \in DOMAIN C /\ T[i] = C[i + 1] /\ i + 1 # 1
  BY <1>1
<1>3. \A i \in DOMAIN T : IsAnswer(T[i]) => T[i].type = Awaited(c.op) /\ T[i].id = c.id
  BY <1>2 DEF Outstanding
<1>4. \A i, j \in DOMAIN T : IsAnswer(T[i]) /\ IsAnswer(T[j]) => i = j
  <2> SUFFICES ASSUME NEW i \in DOMAIN T, NEW j \in DOMAIN T, IsAnswer(T[i]), IsAnswer(T[j])
               PROVE  i = j
    OBVIOUS
  <2>1. i + 1 = j + 1
    BY <1>2 DEF Outstanding
  <2> QED
    BY <1>1, <2>1
<1>5. \A i \in DOMAIN B, j \in DOMAIN T : ~(IsRequest(B[i]) /\ IsAnswer(T[j]))
  BY <1>2 DEF Outstanding
<1>6. Outstanding(B, T, c)
  BY <1>3, <1>4, <1>5 DEF Outstanding
<1>7. ASSUME IsAnswer(Head(C))
      PROVE  Free(B, T)
  <2>1. 1 \in DOMAIN C /\ IsAnswer(C[1])
    BY <1>1, <1>7
  <2>2. \A i \in DOMAIN T : ~IsAnswer(T[i])
    BY <1>2, <2>1 DEF Outstanding
  <2>3. \A i \in DOMAIN B : ~IsRequest(B[i])
    BY <2>1 DEF Outstanding
  <2> QED
    BY <2>2, <2>3 DEF Free
<1> QED
  BY <1>6, <1>7 DEF T

\* A call sends its request when nothing is on its way.
LEMMA OutstandingSent ==
    ASSUME NEW B \in Seq(Sendable), NEW C, Free(B, C), NEW p \in Sendable, NEW c
    PROVE  /\ p.type = RequestType(c.op) /\ p.id = c.id /\ p.topic = c.topic
                 => Outstanding(Append(B, p), C, c)
           /\ ~IsRequest(p) => Free(Append(B, p), C)
<1> DEFINE D == Append(B, p)
<1>1. /\ Len(B) \in Nat /\ DOMAIN B = 1..Len(B) /\ DOMAIN D = 1..Len(B) + 1
      /\ \A i \in 1..Len(B) : D[i] = B[i]
      /\ D[Len(B) + 1] = p
  BY AppendQueue
<1> HIDE DEF D
<1>2. \A i \in DOMAIN D : IsRequest(D[i]) => i = Len(B) + 1 /\ D[i] = p
  BY <1>1 DEF Free
<1>3. \A i \in DOMAIN C : ~IsAnswer(C[i])
  BY DEF Free
<1>4. ASSUME p.type = RequestType(c.op), p.id = c.id, p.topic = c.topic
      PROVE  Outstanding(D, C, c)
  BY <1>2, <1>3, <1>4 DEF Outstanding
<1>5. ASSUME ~IsRequest(p)
      PROVE  Free(D, C)
  BY <1>2, <1>3, <1>5 DEF Free
<1> QED
  BY <1>4, <1>5 DEF D

\* The broker reads a packet, and answers a request with its answer, r, and the
\* others with what is none.
LEMMA OutstandingServed ==
    ASSUME NEW B \in Seq(Sendable), B # <<>>, NEW C \in Seq(Packets), NEW c, Outstanding(B, C, c),
           NEW r \in Packets
    PROVE  /\ Outstanding(Tail(B), C, c)
           /\ ~IsAnswer(r) => Outstanding(Tail(B), Append(C, r), c)
           /\ IsRequest(Head(B)) /\ r.type = Awaited(c.op) /\ r.id = c.id
                 => Outstanding(Tail(B), Append(C, r), c)
<1> DEFINE T == Tail(B)
           D == Append(C, r)
<1>1. /\ Len(B) \in Nat /\ Len(B) > 0 /\ Head(B) = B[1] /\ DOMAIN B = 1..Len(B)
      /\ DOMAIN T = 1..Len(B) - 1
      /\ \A i \in 1..Len(B) - 1 : T[i] = B[i + 1]
  BY TailQueue
<1>2. /\ Len(C) \in Nat /\ DOMAIN C = 1..Len(C) /\ DOMAIN D = 1..Len(C) + 1
      /\ \A i \in 1..Len(C) : D[i] = C[i]
      /\ D[Len(C) + 1] = r
  BY AppendQueue
<1> HIDE DEF T, D
<1>3. \A i \in DOMAIN T : i + 1 \in DOMAIN B /\ T[i] = B[i + 1] /\ i + 1 # 1
  BY <1>1
<1>4. \A i \in DOMAIN T : IsRequest(T[i]) =>
         T[i].type = RequestType(c.op) /\ T[i].id = c.id /\ T[i].topic = c.topic
  BY <1>3 DEF Outstanding
<1>5. \A i, j \in DOMAIN T : IsRequest(T[i]) /\ IsRequest(T[j]) => i = j
  <2> SUFFICES ASSUME NEW i \in DOMAIN T, NEW j \in DOMAIN T, IsRequest(T[i]), IsRequest(T[j])
               PROVE  i = j
    OBVIOUS
  <2>1. i + 1 = j + 1
    BY <1>3 DEF Outstanding
  <2> QED
    BY <1>1, <2>1
<1>6. \A i \in DOMAIN T, j \in DOMAIN C : ~(IsRequest(T[i]) /\ IsAnswer(C[j]))
  BY <1>3 DEF Outstanding
<1>7. Outstanding(T, C, c)
  BY <1>4, <1>5, <1>6 DEF Outstanding
<1>8. ASSUME ~IsAnswer(r)
      PROVE  Outstanding(T, D, c)
  <2>1. \A i \in DOMAIN D : IsAnswer(D[i]) => i \in DOMAIN C /\ D[i] = C[i]
    BY <1>2, <1>8
  <2> QED
    BY <1>7, <2>1 DEF Outstanding
<1>9. ASSUME IsRequest(Head(B)), r.type = Awaited(c.op), r.id = c.id
      PROVE  Outstanding(T, D, c)
  <2>1. 1 \in DOMAIN B /\ IsRequest(B[1])
    BY <1>1, <1>9
  <2>2. \A i \in DOMAIN T : ~IsRequest(T[i])
    BY <1>3, <2>1 DEF Outstanding
  <2>3. \A i \in DOMAIN C : ~IsAnswer(C[i])
    BY <2>1 DEF Outstanding
  <2>4. \A i \in DOMAIN D : IsAnswer(D[i]) => i = Len(C) + 1 /\ D[i] = r
    BY <1>2, <2>3
  <2> QED
    BY <1>9, <2>2, <2>4 DEF Outstanding
<1> QED
  BY <1>7, <1>8, <1>9 DEF T, D

\* What is lost with the connection was all of it, or its last part.
LEMMA OutstandingLost ==
    ASSUME NEW B, NEW C \in Seq(Packets), NEW c, Outstanding(B, C, c), NEW n \in 0..Len(C)
    PROVE  Outstanding(<<>>, SubSeq(C, 1, n), c) /\ Outstanding(<<>>, C, c)
<1> DEFINE D == SubSeq(C, 1, n)
<1>1. \A i \in DOMAIN D : i \in DOMAIN C /\ D[i] = C[i]
  <2>1. Len(C) \in Nat
    BY LenProperties
  <2> QED
    BY <2>1, PrefixQueue
<1> HIDE DEF D
<1>2. DOMAIN <<>> = {}
  OBVIOUS
<1> DEFINE E == <<>>
<1> HIDE DEF E
<1>3. Outstanding(E, D, c) /\ Outstanding(E, C, c)
  BY <1>1, <1>2 DEF Outstanding, E
<1> QED
  BY <1>3 DEF D, E

\* The broker's answer to a request is the answer to that call, and it sends no
\* other answers.
LEMMA ServedMatches ==
    ASSUME TypeInv, SessionInv, toBroker # <<>>, NEW r \in Packets, Served(Head(toBroker), r),
           Outstanding(toBroker, toClient, call)
    PROVE  \/ toClient' = toClient
           \/ toClient' = Append(toClient, r) /\ ~IsAnswer(r)
           \/ /\ toClient' = Append(toClient, r) /\ IsRequest(Head(toBroker))
              /\ r.type = Awaited(call.op) /\ r.id = call.id
<1> DEFINE p == Head(toBroker)
<1>0. /\ 1 \in DOMAIN toBroker /\ p = toBroker[1]
  BY Queues, Receiving
<1>1. IsRequest(p) => p.type = RequestType(call.op) /\ p.id = call.id
  BY <1>0 DEF Outstanding
<1>2. /\ Answer(<<>>) => toClient' = toClient
      /\ Answer(<<r>>) => toClient' = Append(toClient, r)
  BY AnswerSent
<1>3. CASE p.type = "CONNECT"
  <2>1. call.op = "connect" /\ p.id = 0 /\ call.id = 0
    BY <1>1, <1>3 DEF IsRequest, RequestType, SessionInv
  <2>2. Answer(<<r>>) /\ r.type = "CONNACK" /\ r.id = 0
    BY <1>3 DEF Served, Packet
  <2> QED
    BY <1>2, <1>3, <2>1, <2>2 DEF IsRequest, Awaited
<1>4. CASE p.type = "SUBSCRIBE"
  <2>1. call.op = "subscribe" /\ p.id = call.id
    BY <1>1, <1>4 DEF IsRequest, RequestType
  <2>2. Answer(<<r>>) /\ r.type = "SUBACK" /\ r.id = p.id
    BY <1>4 DEF Served
  <2> QED
    BY <1>2, <1>4, <2>1, <2>2 DEF IsRequest, Awaited
<1>5. CASE p.type = "UNSUBSCRIBE"
  <2>1. call.op = "unsubscribe" /\ p.id = call.id
    BY <1>1, <1>5 DEF IsRequest, RequestType
  <2>2. Answer(<<r>>) /\ r.type = "UNSUBACK" /\ r.id = p.id
    BY <1>5 DEF Served, Packet
  <2> QED
    BY <1>2, <1>5, <2>1, <2>2 DEF IsRequest, Awaited
<1>6. CASE p.type = "PUBLISH" /\ p.code = 1
  <2>1. call.op = "publish" /\ p.id = call.id
    BY <1>1, <1>6 DEF IsRequest, RequestType
  <2>2. Answer(<<r>>) /\ r.type = "PUBACK" /\ r.id = p.id
    BY <1>6 DEF Served, Packet
  <2> QED
    BY <1>2, <1>6, <2>1, <2>2 DEF IsRequest, Awaited
<1>7. CASE ~IsRequest(p)
  <2>1. Answer(<<>>) \/ (Answer(<<r>>) /\ r.type \in {"PUBREC", "PINGRESP"})
    BY <1>7 DEF Served, IsRequest, Packet
  <2> QED
    BY <1>2, <2>1 DEF IsAnswer
<1> QED
  BY <1>3, <1>4, <1>5, <1>6, <1>7 DEF IsRequest

\* Every step keeps OutstandingInv.
LEMMA OutstandingNext ==
    ASSUME ~PacketsTorn
    PROVE  TypeInv /\ SessionInv /\ OutstandingInv /\ [Next]_vars => OutstandingInv'
<1> SUFFICES ASSUME TypeInv, SessionInv, OutstandingInv, [Next]_vars PROVE OutstandingInv'
  OBVIOUS
<1>0. /\ toBroker \in Seq(Sendable) /\ toClient \in Seq(Packets)
      /\ NoCall.op = "idle"
  BY Queues DEF NoCall
<1>1. CASE CoreCalls
  <2>1. CASE disconnect
    BY <1>0, <2>1 DEF disconnect, cleanSession, OutstandingInv, Live
  <2>2. ASSUME NEW p \in Sendable, NEW c \in Calls, RequestSteps(p, c), Asked(p, c)
        PROVE  OutstandingInv'
    <3>1. CASE cleanSession /\ UNCHANGED call
      BY <1>0, <2>2, <3>1 DEF cleanSession, OutstandingInv, Live, RequestSteps
    <3>2. CASE call' = c /\ UNCHANGED session
      <4>1. Free(toBroker, toClient)
        BY <1>0, <2>2, OutstandingFree DEF RequestSteps, OutstandingInv, Live
      <4>2. \/ p.type = RequestType(c.op) /\ p.id = c.id /\ p.topic = c.topic
            \/ ~IsRequest(p)
        BY <2>2 DEF Asked, RequestType, IsRequest
      <4>3. Outstanding(Append(toBroker, p), toClient, c) /\ Outstanding(toBroker, toClient, c)
        BY <1>0, <4>1, <4>2, OutstandingSent, OutstandingFree
      <4>4. toClient' = toClient /\ (toBroker' = toBroker \/ toBroker' = Append(toBroker, p))
        BY <2>2 DEF RequestSteps
      <4>5. Outstanding(toBroker', toClient', call')
        BY <3>2, <4>3, <4>4
      <4> QED
        BY <4>5 DEF OutstandingInv
    <3> QED
      BY <2>2, <3>1, <3>2 DEF RequestSteps
  <2> QED
    BY <1>1, <2>1, <2>2, CoreRequests
<1>2. CASE Quiet
  <2>1. QuietSteps
    BY <1>2, QuietFacts
  <2>2. Live
    BY <2>1 DEF QuietSteps, Waiting, Yields, SessionInv, Live
  <2>3. Outstanding(toBroker', toClient, call)
    BY <2>1, <2>2, OutstandingExtended DEF QuietSteps, OutstandingInv
  <2>4. Outstanding(toBroker', toClient', call)
    BY <1>0, <2>1, <2>3, OutstandingRead DEF QuietSteps
  <2>5. Outstanding(toBroker', toClient', call')
    <3>1. CASE call' = call
      BY <2>4, <3>1
    <3>2. CASE Yields
      <4>1. Free(toBroker', toClient')
        BY <2>4, <3>2, OutstandingFree DEF Yields
      <4> QED
        BY <4>1, OutstandingFree
    <3> QED
      BY <2>1, <3>1, <3>2 DEF QuietSteps
  <2> QED
    BY <2>5 DEF OutstandingInv
<1>3. CASE answered
  <2>1. AnsweredSteps
    BY <1>3, AnsweredFacts
  <2>2. Live
    BY <2>1 DEF AnsweredSteps, SessionInv, Live
  <2>3. Outstanding(toBroker', toClient, call)
    BY <2>1, <2>2, OutstandingExtended DEF AnsweredSteps, OutstandingInv
  <2>4. IsAnswer(Head(toClient))
    BY <2>1 DEF AnsweredSteps, Awaited, IsAnswer
  <2>5. Free(toBroker', toClient')
    BY <1>0, <2>1, <2>3, <2>4, OutstandingRead DEF AnsweredSteps
  <2> QED
    BY <2>5, OutstandingFree DEF OutstandingInv
<1>4. CASE loop_yield
  <2>1. /\ call = NoCall /\ isconnected
        /\ UNCHANGED <<toBroker, toClient>>
    BY <1>4 DEF loop_yield, network
  <2>2. Free(toBroker, toClient)
    BY <1>0, <2>1, OutstandingFree DEF OutstandingInv, Live
  <2>3. Outstanding(toBroker', toClient', call')
    BY <2>1, <2>2, OutstandingFree
  <2> QED
    BY <2>3 DEF OutstandingInv
<1>5. CASE read_stuck
  <2>1. call'.op = "stuck"
    BY <1>5 DEF read_stuck, NoCall
  <2> QED
    BY <2>1 DEF OutstandingInv, Live
<1>6. CASE loop_connect
  <2> DEFINE p == Packet("CONNECT", 0, NoTopic, 0)
             c == [NoCall EXCEPT !.op = "connect"]
             E == <<>>
  <2>1. p \in Sendable /\ p.type = "CONNECT" /\ p.id = 0 /\ p.topic = NoTopic
    <3>1. 0 \in 0..MaxPacketId
      BY SizeAssumption
    <3> QED
      BY <3>1, SendableTyped, PacketTyped
  <2>2. c.op = "connect" /\ c.id = 0 /\ c.topic = NoTopic
    BY DEF NoCall
  <2>3. E \in Seq(Sendable) /\ DOMAIN E = {}
    BY EmptySeq
  <2>4. <<p>> = Append(E, p)
    OBVIOUS
  <2>5. toBroker' = <<p>> /\ toClient' = E /\ call' = c
    BY <1>6 DEF loop_connect
  <2> HIDE DEF p, c, E
  <2>6. Free(E, E)
    BY <2>3 DEF Free
  <2>7. Outstanding(Append(E, p), E, c)
    BY <2>1, <2>2, <2>3, <2>6, OutstandingSent DEF RequestType
  <2>8. Outstanding(toBroker', toClient', call')
    BY <2>4, <2>5, <2>7
  <2> QED
    BY <2>8 DEF OutstandingInv
<1>7. CASE loop_connect_fails
  BY <1>0, <1>7 DEF loop_connect_fails, OutstandingInv, Live, session
<1>8. CASE timed_out
  BY <1>0, <1>8 DEF timed_out, OutstandingInv, Live, session, cleanSession, SessionInv
<1>9. CASE killed
  BY <1>0, <1>9 DEF killed, OutstandingInv, Live, cleanSession
<1>10. CASE \/ BrokerAccepts \/ BrokerRefuses \/ BrokerSubscribes \/ BrokerUnsubscribes
            \/ BrokerReceives \/ BrokerIsAcked \/ BrokerPongs
  <2>1. link = "up" /\ toBroker # <<>> /\ \E r \in Packets : Served(Head(toBroker), r)
    BY <1>10, BrokerServes
  <2>2. PICK r \in Packets : Served(Head(toBroker), r)
    BY <2>1
  <2>3. Answer(<<>>) \/ Answer(<<r>>)
    BY <2>2 DEF Served
  <2>4. toBroker' = Tail(toBroker) /\ UNCHANGED <<call, isconnected>>
    BY <2>3, AnswerSent
  <2>5. ASSUME Live
        PROVE  Outstanding(toBroker', toClient', call')
    <3>1. Outstanding(toBroker, toClient, call)
      BY <2>5 DEF OutstandingInv
    <3>2. \/ toClient' = toClient
          \/ toClient' = Append(toClient, r) /\ ~IsAnswer(r)
          \/ /\ toClient' = Append(toClient, r) /\ IsRequest(Head(toBroker))
             /\ r.type = Awaited(call.op) /\ r.id = call.id
      BY <2>1, <2>2, <3>1, ServedMatches
    <3>3. Outstanding(Tail(toBroker), toClient', call)
      BY <1>0, <2>1, <3>1, <3>2, OutstandingServed
    <3> QED
      BY <2>4, <3>3
  <2> QED
    BY <2>4, <2>5 DEF OutstandingInv, Live
<1>11. ASSUME NEW t \in Topics, NEW q \in QoS, BrokerPublishes(t, q)
       PROVE  OutstandingInv'
  <2> DEFINE p == Packet("PUBLISH", 0, t, q)
             D == Append(toClient, p)
  <2>1. p \in Packets /\ p.type = "PUBLISH"
    BY PacketTyped, QoSAssumption, SizeAssumption
  <2>2. toClient' = D /\ UNCHANGED <<isconnected, call, toBroker>>
    BY <1>11 DEF BrokerPublishes, session
  <2> HIDE DEF p
  <2>3. /\ DOMAIN toClient = 1..Len(toClient) /\ Len(toClient) \in Nat
        /\ DOMAIN D = 1..Len(toClient) + 1
        /\ \A i \in 1..Len(toClient) : D[i] = toClient[i]
        /\ D[Len(toClient) + 1] = p
    BY <1>0, <2>1, AppendQueue
  <2> HIDE DEF D
  <2>4. \A i \in DOMAIN D : IsAnswer(D[i]) => i \in DOMAIN toClient /\ D[i] = toClient[i]
    BY <2>1, <2>3 DEF IsAnswer
  <2>5. Outstanding(toBroker, toClient, call) => Outstanding(toBroker, D, call)
    BY <2>4 DEF Outstanding
  <2> QED
    BY <2>2, <2>5 DEF OutstandingInv, Live
<1>12. CASE BrokerCloses \/ LinkLost
  <2>1. /\ toBroker' = <<>> /\ UNCHANGED <<isconnected, call>>
        /\ toClient' = toClient \/ \E n \in 0..Len(toClient) : toClient' = SubSeq(toClient, 1, n)
    BY <1>12 DEF BrokerCloses, LinkLost, session
  <2>2. 0 \in 0..Len(toClient)
    BY Queues
  <2>3. Outstanding(toBroker, toClient, call) => Outstanding(toBroker', toClient', call)
    BY <1>0, <2>1, <2>2, OutstandingLost
  <2> QED
    BY <2>1, <2>3 DEF OutstandingInv, Live
<1>13. CASE UNCHANGED vars
  BY <1>13 DEF vars, session, network, OutstandingInv, Live
<1> QED
  BY <1>1, <1>2, <1>3, <1>4, <1>5, <1>6, <1>7, <1>8, <1>9, <1>10, <1>11, <1>12, <1>13
     DEF Next, Gateway, Broker, Quiet, read_torn

\* The invariant of the calls: types, session, and the one request on its way.
CallInv == TypeInv /\ SessionInv /\ OutstandingInv

\* It holds always.
THEOREM CallCorrect ==
    ASSUME ~PacketsTorn
    PROVE  Spec => []CallInv
<1>1. Init => CallInv
  <2>1. Init => SessionInv /\ OutstandingInv
    BY DEF Init, SessionInv, OutstandingInv, Live, NoCall
  <2> QED
    BY <2>1, InitTyped DEF CallInv
<1>2. CallInv /\ [Next]_vars => CallInv'
  BY NextTyped, SessionNext, OutstandingNext DEF CallInv
<1> QED
  BY <1>1, <1>2, PTL DEF Spec

\* The answer a call takes for its own, by its type alone, carries the call's
\* packet id: what waitfor never compares is always equal.
THEOREM AnswersCorrect ==
    ASSUME ~PacketsTorn
    PROVE  Spec => []AnswersBelong
<1>1. CallInv => AnswersBelong
  <2> SUFFICES ASSUME CallInv, NEW i \in DOMAIN toClient, toClient[i].type = Awaited(call.op)
               PROVE  toClient[i].id = call.id
    BY DEF AnswersBelong
  <2>1. toClient[i] \in Packets
    BY Queues DEF CallInv
  <2>2. call.op \in {"connect", "subscribe", "unsubscribe", "publish"}
    BY <2>1 DEF Awaited, Packets
  <2>3. Live /\ IsAnswer(toClient[i])
    BY <2>2 DEF CallInv, SessionInv, Live, IsAnswer, Awaited
  <2> QED
    BY <2>3 DEF CallInv, OutstandingInv, Outstanding
<1> QED
  BY <1>1, CallCorrect, PTL

-----------------------------------------------------------------------------
(* Subscriptions *)

\* What the theorems about subscriptions assume: Core subscribes a topic only if it is
\* not subscribed, no topic is too long for a handler's buffer, there is a handler for
\* each topic, and no packet is torn.
HandlersSuffice ==
    /\ ~PacketsTorn
    /\ CoreCounts /\ LongTopics = {}
    /\ IsFiniteSet(Topics) /\ Cardinality(Topics) <= MaxHandlers

\* The handlers of the client serve the topics Core wants, each one of them.
HandlersInv ==
    /\ \A i \in Handlers : attached[i] => topicFilters[i] \in wanted
    /\ \A t \in wanted : \E i \in Handlers : attached[i] /\ topicFilters[i] = t
    /\ \A i, j \in Handlers : attached[i] /\ attached[j] /\ topicFilters[i] = topicFilters[j] => i = j

\* A SUBACK that grants the subscription, or an UNSUBACK, comes before place i of C.
GrantedBefore(C, i) == \E j \in 1..i - 1 : C[j].type = "SUBACK" /\ C[j].code # Refused
RemovedBefore(C, i) == \E j \in 1..i - 1 : C[j].type = "UNSUBACK"

\* The broker's subscriptions when it sent the packet at place i of C to a client
\* which has the subscriptions W, and whose call is about the topic x.
Seen(C, x, W, i) ==
    {t \in Topics : /\ t \in W \/ (t = x /\ GrantedBefore(C, i))
                    /\ ~(t = x /\ RemovedBefore(C, i))}

SubscriptionInv ==
    Live =>
        /\ link = "up" => subscribed = Seen(toClient, call.topic, wanted, Len(toClient) + 1)
        /\ \A i \in DOMAIN toClient : toClient[i].type = "PUBLISH" =>
              toClient[i].topic \in Seen(toClient, call.topic, wanted, i)
        /\ call.op = "subscribe" => call.topic \notin wanted

-----------------------------------------------------------------------------
(* Queues *)

\* Without an answer on its way the broker has what the client has.
LEMMA SeenFree ==
    ASSUME NEW C \in Seq(Packets), \A i \in DOMAIN C : ~IsAnswer(C[i]),
           NEW W \in SUBSET Topics, NEW x, NEW n \in 1..Len(C) + 1
    PROVE  Seen(C, x, W, n) = W
<1>1. \A j \in 1..n - 1 : j \in DOMAIN C
  BY LenProperties
<1>2. ~GrantedBefore(C, n) /\ ~RemovedBefore(C, n)
  BY <1>1 DEF GrantedBefore, RemovedBefore, IsAnswer
<1> QED
  BY <1>2 DEF Seen

\* What is sent later changes nothing for the packets before it.
LEMMA SeenAppend ==
    ASSUME NEW C \in Seq(Packets), NEW p \in Packets, NEW W, NEW x, NEW n \in 1..Len(C) + 1
    PROVE  Seen(Append(C, p), x, W, n) = Seen(C, x, W, n)
<1> DEFINE D == Append(C, p)
<1>1. \A j \in 1..n - 1 : D[j] = C[j]
  BY AppendQueue
<1> HIDE DEF D
<1>2. GrantedBefore(D, n) = GrantedBefore(C, n) /\ RemovedBefore(D, n) = RemovedBefore(C, n)
  BY <1>1 DEF GrantedBefore, RemovedBefore
<1>3. Seen(D, x, W, n) = Seen(C, x, W, n)
  BY <1>2 DEF Seen
<1> QED
  BY <1>3 DEF D

\* Behind a packet p the broker has what p says.
LEMMA SeenBehind ==
    ASSUME NEW C \in Seq(Packets), NEW p \in Packets, NEW W \in SUBSET Topics, NEW x
    PROVE  LET D == Append(C, p)
               n == Len(C) + 1
           IN  /\ p.type \notin {"SUBACK", "UNSUBACK"} => Seen(D, x, W, n + 1) = Seen(C, x, W, n)
               /\ p.type = "SUBACK" /\ p.code = Refused => Seen(D, x, W, n + 1) = Seen(C, x, W, n)
               /\ p.type = "SUBACK" /\ p.code # Refused /\ x \in Topics /\ ~RemovedBefore(C, n)
                     => Seen(D, x, W, n + 1) = Seen(C, x, W, n) \cup {x}
               /\ p.type = "UNSUBACK" => Seen(D, x, W, n + 1) = Seen(C, x, W, n) \ {x}
<1> DEFINE D == Append(C, p)
           n == Len(C) + 1
<1>1. Len(C) \in Nat /\ (\A j \in 1..n - 1 : D[j] = C[j]) /\ D[n] = p
  BY AppendQueue
<1>2. n \in Nat /\ n > 0
  BY <1>1
<1> HIDE DEF D, n
<1>3. 1..(n + 1) - 1 = (1..n - 1) \cup {n}
  BY <1>2
<1>4. /\ GrantedBefore(D, n + 1) <=> GrantedBefore(C, n) \/ (p.type = "SUBACK" /\ p.code # Refused)
      /\ RemovedBefore(D, n + 1) <=> RemovedBefore(C, n) \/ p.type = "UNSUBACK"
  BY <1>1, <1>3 DEF GrantedBefore, RemovedBefore
<1>5. /\ p.type \notin {"SUBACK", "UNSUBACK"} => Seen(D, x, W, n + 1) = Seen(C, x, W, n)
      /\ p.type = "SUBACK" /\ p.code = Refused => Seen(D, x, W, n + 1) = Seen(C, x, W, n)
  BY <1>4 DEF Seen
<1>6. p.type = "SUBACK" /\ p.code # Refused /\ x \in Topics /\ ~RemovedBefore(C, n)
         => Seen(D, x, W, n + 1) = Seen(C, x, W, n) \cup {x}
  BY <1>4 DEF Seen
<1>7. p.type = "UNSUBACK" => Seen(D, x, W, n + 1) = Seen(C, x, W, n) \ {x}
  BY <1>4 DEF Seen
<1> QED
  BY <1>5, <1>6, <1>7 DEF D, n

\* Reading a packet that is no answer changes nothing for those behind it.
LEMMA SeenTail ==
    ASSUME NEW C \in Seq(Packets), C # <<>>, ~IsAnswer(Head(C)), NEW W, NEW x, NEW n \in 1..Len(C)
    PROVE  Seen(Tail(C), x, W, n) = Seen(C, x, W, n + 1)
<1> DEFINE T == Tail(C)
<1>1. /\ Len(C) \in Nat /\ Head(C) = C[1]
      /\ \A i \in 1..Len(C) - 1 : T[i] = C[i + 1]
  BY TailQueue
<1> HIDE DEF T
<1>2. /\ \A j \in 1..n - 1 : j + 1 \in 1..(n + 1) - 1 /\ T[j] = C[j + 1]
      /\ \A j \in 1..(n + 1) - 1 : j = 1 \/ (j - 1 \in 1..n - 1 /\ T[j - 1] = C[(j - 1) + 1] /\ (j - 1) + 1 = j)
  BY <1>1
<1>3. C[1].type \notin {"SUBACK", "UNSUBACK"}
  BY <1>1 DEF IsAnswer
<1>4. GrantedBefore(T, n) <=> GrantedBefore(C, n + 1)
  <2>1. ASSUME NEW j \in 1..n - 1, T[j].type = "SUBACK", T[j].code # Refused
        PROVE  GrantedBefore(C, n + 1)
    BY <1>2, <2>1 DEF GrantedBefore
  <2>2. ASSUME NEW j \in 1..(n + 1) - 1, C[j].type = "SUBACK", C[j].code # Refused
        PROVE  GrantedBefore(T, n)
    <3>1. j - 1 \in 1..n - 1 /\ T[j - 1] = C[j]
      BY <1>2, <1>3, <2>2
    <3> QED
      BY <2>2, <3>1 DEF GrantedBefore
  <2> QED
    BY <2>1, <2>2 DEF GrantedBefore
<1>5. RemovedBefore(T, n) <=> RemovedBefore(C, n + 1)
  BY <1>2, <1>3 DEF RemovedBefore
<1>6. Seen(T, x, W, n) = Seen(C, x, W, n + 1)
  BY <1>4, <1>5 DEF Seen
<1> QED
  BY <1>6 DEF T

\* What is behind the answer was sent with the subscriptions that the client has
\* once it has read the answer.
LEMMA SeenAnswer ==
    ASSUME NEW C \in Seq(Packets), C # <<>>, IsAnswer(Head(C)),
           \A i, j \in DOMAIN C : IsAnswer(C[i]) /\ IsAnswer(C[j]) => i = j,
           NEW W \in SUBSET Topics, NEW x, NEW n \in 1..Len(C)
    PROVE  /\ Head(C).type \in {"CONNACK", "PUBACK"} => Seen(C, x, W, n + 1) = W
           /\ Head(C).type = "SUBACK" /\ Head(C).code # Refused /\ x \in Topics
                 => Seen(C, x, W, n + 1) = W \cup {x}
           /\ Head(C).type = "UNSUBACK" => Seen(C, x, W, n + 1) = W \ {x}
<1>1. /\ Len(C) \in Nat /\ Head(C) = C[1] /\ DOMAIN C = 1..Len(C)
  BY TailQueue
<1>2. \A j \in 1..(n + 1) - 1 : j \in DOMAIN C /\ (IsAnswer(C[j]) => j = 1)
  BY <1>1
<1>3. 1 \in 1..(n + 1) - 1
  BY <1>1
<1>4. GrantedBefore(C, n + 1) <=> C[1].type = "SUBACK" /\ C[1].code # Refused
  BY <1>2, <1>3 DEF GrantedBefore, IsAnswer
<1>5. RemovedBefore(C, n + 1) <=> C[1].type = "UNSUBACK"
  BY <1>2, <1>3 DEF RemovedBefore, IsAnswer
<1> QED
  BY <1>1, <1>4, <1>5 DEF Seen

\* What a lost connection leaves is as it was.
LEMMA SeenPrefix ==
    ASSUME NEW C \in Seq(Packets), NEW m \in 0..Len(C), NEW W, NEW x, NEW n \in 1..m
    PROVE  Seen(SubSeq(C, 1, m), x, W, n) = Seen(C, x, W, n)
<1> DEFINE D == SubSeq(C, 1, m)
<1>1. Len(C) \in Nat /\ \A i \in 1..m : D[i] = C[i]
  BY PrefixQueue, LenProperties
<1> HIDE DEF D
<1>2. \A i \in 1..n - 1 : D[i] = C[i]
  BY <1>1
<1>3. (GrantedBefore(D, n) <=> GrantedBefore(C, n)) /\ (RemovedBefore(D, n) <=> RemovedBefore(C, n))
  BY <1>2 DEF GrantedBefore, RemovedBefore
<1>4. Seen(D, x, W, n) = Seen(C, x, W, n)
  BY <1>3 DEF Seen
<1> QED
  BY <1>4 DEF D

-----------------------------------------------------------------------------
(* Handlers *)

\* There is a handler for a topic that is not subscribed.
LEMMA FreeHandler ==
    ASSUME HandlersSuffice, TypeOK, HandlersInv, NEW t \in Topics, t \notin wanted
    PROVE  \E i \in Handlers : ~attached[i]
<1> SUFFICES ASSUME \A i \in Handlers : attached[i] PROVE FALSE
  OBVIOUS
<1> DEFINE T == Topics \ {t}
<1>1. IsFiniteSet(Topics) /\ Cardinality(Topics) <= MaxHandlers /\ Cardinality(Topics) \in Nat
  BY FS_CardinalityType DEF HandlersSuffice
<1>2. IsFiniteSet(T) /\ Cardinality(T) = Cardinality(Topics) - 1
  BY <1>1, FS_RemoveElement
<1>3. IsFiniteSet(Handlers) /\ Cardinality(Handlers) = MaxHandlers
  <2>1. MaxHandlers \in Nat /\ MaxHandlers > 0
    BY SizeAssumption
  <2> QED
    BY <2>1, FS_Interval DEF Handlers
<1>4. topicFilters \in [Handlers -> T]
  BY DEF TypeOK, HandlersInv
<1>5. Cardinality(T) < Cardinality(Handlers)
  BY <1>1, <1>2, <1>3, SizeAssumption
<1> HIDE DEF T
<1>6. \E i, j \in Handlers : i # j /\ topicFilters[i] = topicFilters[j]
  BY <1>2, <1>3, <1>4, <1>5, FS_PigeonHole
<1> QED
  BY <1>6 DEF HandlersInv

\* A session that is given up has no handlers.
LEMMA CleanHandlers ==
    ASSUME cleanSession
    PROVE  HandlersInv'
BY DEF cleanSession, HandlersInv

\* The SUBACK of a call for a topic that is not subscribed.
LEMMA SubackHandlers ==
    ASSUME HandlersSuffice, TypeOK, HandlersInv, NEW t \in Topics, t \notin wanted,
           NEW code, NEW ping, suback(t, code, ping)
    PROVE  /\ HandlersInv'
           /\ isconnected' => /\ code # Refused /\ wanted' = wanted \cup {t}
                              /\ \E i \in Handlers : attached'[i] /\ topicFilters'[i] = t
<1>1. CASE cleanSession
  BY <1>1, CleanHandlers DEF cleanSession
<1>2. ASSUME NEW i \in Handlers, code # Refused, ~attached[i],
             attached' = [attached EXCEPT ![i] = TRUE],
             topicFilters' = IF t \in LongTopics THEN topicFilters ELSE [topicFilters EXCEPT ![i] = t],
             wanted' = wanted \cup {t}
      PROVE  /\ HandlersInv'
             /\ code # Refused /\ wanted' = wanted \cup {t}
             /\ \E h \in Handlers : attached'[h] /\ topicFilters'[h] = t
  <2>1. topicFilters' = [topicFilters EXCEPT ![i] = t]
    BY <1>2 DEF HandlersSuffice
  <2>2. /\ attached'[i] = TRUE /\ topicFilters'[i] = t
        /\ \A h \in Handlers : h # i => attached'[h] = attached[h] /\ topicFilters'[h] = topicFilters[h]
    BY <1>2, <2>1 DEF TypeOK
  <2>3. \A h \in Handlers : attached'[h] => topicFilters'[h] \in wanted'
    BY <1>2, <2>2 DEF HandlersInv
  <2>4. \A u \in wanted' : \E h \in Handlers : attached'[h] /\ topicFilters'[h] = u
    BY <1>2, <2>2 DEF HandlersInv
  <2>5. \A h, j \in Handlers : attached'[h] /\ attached'[j] /\ topicFilters'[h] = topicFilters'[j] => h = j
    BY <2>2 DEF HandlersInv
  <2> QED
    BY <1>2, <2>2, <2>3, <2>4, <2>5 DEF HandlersInv
<1>3. \E i \in Handlers : ~attached[i]
  BY FreeHandler
<1> QED
  BY <1>1, <1>2, <1>3 DEF suback

\* The UNSUBACK: the one handler of the topic is released.
LEMMA UnsubackHandlers ==
    ASSUME TypeOK, HandlersInv, NEW t, NEW ping, unsuback(t, ping)
    PROVE  HandlersInv' /\ wanted' = wanted \ {t}
<1>1. wanted' = wanted \ {t} /\ UNCHANGED topicFilters
  BY DEF unsuback
<1>2. CASE Matching(t) = {} /\ UNCHANGED attached
  <2>1. t \notin wanted
    BY <1>2 DEF Matching, HandlersInv
  <2> QED
    BY <1>1, <1>2, <2>1 DEF HandlersInv
<1>3. ASSUME NEW i \in Matching(t), attached' = [attached EXCEPT ![i] = FALSE]
      PROVE  HandlersInv'
  <2>1. i \in Handlers /\ attached[i] /\ topicFilters[i] = t
    BY DEF Matching
  <2>2. /\ attached'[i] = FALSE
        /\ \A h \in Handlers : h # i => attached'[h] = attached[h]
    BY <1>3, <2>1 DEF TypeOK
  <2>3. \A h \in Handlers : attached'[h] => topicFilters'[h] \in wanted'
    BY <1>1, <2>1, <2>2 DEF HandlersInv
  <2>4. \A u \in wanted' : \E h \in Handlers : attached'[h] /\ topicFilters'[h] = u
    BY <1>1, <2>1, <2>2 DEF HandlersInv
  <2>5. \A h, j \in Handlers : attached'[h] /\ attached'[j] /\ topicFilters'[h] = topicFilters'[j] => h = j
    BY <1>1, <2>2 DEF HandlersInv
  <2> QED
    BY <2>3, <2>4, <2>5 DEF HandlersInv
<1> QED
  BY <1>1, <1>2, <1>3 DEF unsuback

\* What an answer does to the subscriptions, when the session goes on.
Settled ==
    LET p == Head(toClient) IN
    \/ call.op \in {"connect", "publish"} /\ wanted' = wanted
    \/ /\ call.op = "subscribe" /\ p.code # Refused /\ wanted' = wanted \cup {call.topic}
       /\ \E i \in Handlers : attached'[i] /\ topicFilters'[i] = call.topic
    \/ call.op = "unsubscribe" /\ wanted' = wanted \ {call.topic}

\* It does.
LEMMA AnsweredHandlers ==
    ASSUME HandlersSuffice, CallInv, HandlersInv, SubscriptionInv, answered
    PROVE  HandlersInv' /\ (isconnected' => Settled)
<1> DEFINE p == Head(toClient)
<1>0. TypeOK /\ TypeInv
  BY DEF CallInv, TypeInv
<1>1. PICK k \in keepalive(toBroker, ping_outstanding) :
          \/ /\ call.op = "connect"
             /\ UNCHANGED <<attached, ping_outstanding, wanted, topicFilters>>
          \/ call.op = "subscribe" /\ suback(call.topic, p.code, k.ping)
          \/ call.op = "unsubscribe" /\ unsuback(call.topic, k.ping)
          \/ call.op = "publish" /\ UNCHANGED <<isconnected, attached, wanted, topicFilters>>
  BY DEF answered
<1>2. CASE call.op \in {"connect", "publish"}
  BY <1>1, <1>2 DEF HandlersInv, Settled
<1>3. CASE call.op = "subscribe"
  <2>1. suback(call.topic, p.code, k.ping)
    BY <1>1, <1>3
  <2>2. Live
    BY <1>3 DEF CallInv, SessionInv, Live
  <2>3. call.topic \in Topics /\ call.topic \notin wanted
    BY <1>0, <1>3, <2>2 DEF TypeInv, SubscriptionInv
  <2> HIDE DEF p
  <2>4. HandlersInv' /\ (isconnected' => /\ p.code # Refused /\ wanted' = wanted \cup {call.topic}
                                          /\ \E i \in Handlers : attached'[i] /\ topicFilters'[i] = call.topic)
    BY <1>0, <2>1, <2>3, SubackHandlers
  <2> QED
    BY <1>3, <2>4 DEF Settled, p
<1>4. CASE call.op = "unsubscribe"
  <2>1. unsuback(call.topic, k.ping)
    BY <1>1, <1>4
  <2>2. HandlersInv' /\ wanted' = wanted \ {call.topic}
    BY <1>0, <2>1, UnsubackHandlers
  <2> QED
    BY <1>4, <2>2 DEF Settled
<1> QED
  BY <1>1, <1>2, <1>3, <1>4

\* Every step keeps HandlersInv.
LEMMA HandlersNext ==
    ASSUME HandlersSuffice, CallInv, HandlersInv, SubscriptionInv, [Next]_vars
    PROVE  HandlersInv'
<1>0. TypeInv
  BY DEF CallInv
<1>1. CASE UNCHANGED <<attached, topicFilters, wanted>>
  BY <1>1 DEF HandlersInv
<1>2. CASE cleanSession
  BY <1>2, CleanHandlers
<1>3. CASE answered
  BY <1>3, AnsweredHandlers
<1>4. CASE CoreCalls
  <2>1. CASE disconnect
    BY <2>1, <1>2 DEF disconnect
  <2>2. ASSUME NEW p \in Sendable, NEW c \in Calls, RequestSteps(p, c)
        PROVE  HandlersInv'
    BY <2>2, <1>1, <1>2 DEF RequestSteps, session
  <2> QED
    BY <1>0, <1>4, <2>1, <2>2, CoreRequests
<1>5. CASE Quiet
  <2>1. UNCHANGED <<attached, topicFilters, wanted>>
    BY <1>0, <1>5, QuietFacts DEF QuietSteps
  <2> QED
    BY <2>1, <1>1
<1>6. CASE loop_yield \/ loop_connect \/ loop_connect_fails \/ read_stuck
  <2>1. UNCHANGED <<attached, topicFilters, wanted>>
    BY <1>6 DEF loop_yield, loop_connect, loop_connect_fails, read_stuck, session
  <2> QED
    BY <2>1, <1>1
<1>7. CASE timed_out \/ killed
  <2>1. UNCHANGED <<attached, topicFilters, wanted>> \/ cleanSession
    BY <1>7 DEF timed_out, killed, session
  <2> QED
    BY <2>1, <1>1, <1>2
<1>8. CASE Broker \/ LinkLost
  <2>1. UNCHANGED <<attached, topicFilters, wanted>>
    BY <1>8 DEF Broker, LinkLost, BrokerAccepts, BrokerRefuses, BrokerSubscribes, BrokerUnsubscribes,
                BrokerReceives, BrokerIsAcked, BrokerPongs, BrokerPublishes, BrokerCloses, Answer, session
  <2> QED
    BY <2>1, <1>1
<1>9. CASE UNCHANGED vars
  <2>1. UNCHANGED <<attached, topicFilters, wanted>>
    BY <1>9 DEF vars, session
  <2> QED
    BY <2>1, <1>1
<1> QED
  BY <1>3, <1>4, <1>5, <1>6, <1>7, <1>8, <1>9 DEF Next, Gateway, Quiet, HandlersSuffice, read_torn

-----------------------------------------------------------------------------
(* Subscriptions *)

\* While nothing is answered, the broker and all messages on their way agree with
\* the client, whatever the call is about.
AllAgree(C, W) ==
    /\ link = "up" => subscribed = W
    /\ \A i \in DOMAIN C : C[i].type = "PUBLISH" => C[i].topic \in W

\* They do.
LEMMA AgreeFree ==
    ASSUME TypeInv, Live, SubscriptionInv, \A i \in DOMAIN toClient : ~IsAnswer(toClient[i])
    PROVE  AllAgree(toClient, wanted)
<1>1. toClient \in Seq(Packets) /\ DOMAIN toClient = 1..Len(toClient) /\ Len(toClient) \in Nat
      /\ wanted \in SUBSET Topics
  BY Queues DEF TypeInv, TypeOK
<1>2. \A n \in 1..Len(toClient) + 1 : Seen(toClient, call.topic, wanted, n) = wanted
  BY <1>1, SeenFree
<1> QED
  BY <1>1, <1>2 DEF AllAgree, SubscriptionInv

\* And SubscriptionInv follows, for any call.
LEMMA FreeAgree ==
    ASSUME NEW C \in Seq(Packets), \A i \in DOMAIN C : ~IsAnswer(C[i]),
           NEW W \in SUBSET Topics, NEW x, AllAgree(C, W)
    PROVE  /\ link = "up" => subscribed = Seen(C, x, W, Len(C) + 1)
           /\ \A i \in DOMAIN C : C[i].type = "PUBLISH" => C[i].topic \in Seen(C, x, W, i)
<1>1. DOMAIN C = 1..Len(C) /\ Len(C) \in Nat
  BY LenProperties
<1>2. \A n \in 1..Len(C) + 1 : Seen(C, x, W, n) = W
  BY <1>1, SeenFree
<1> QED
  BY <1>1, <1>2 DEF AllAgree

\* A new request.
LEMMA RequestSubscriptions ==
    ASSUME HandlersSuffice, CallInv, SubscriptionInv, NEW p \in Sendable, NEW c \in Calls,
           RequestSteps(p, c), Asked(p, c)
    PROVE  SubscriptionInv'
<1>0. TypeInv /\ toClient \in Seq(Packets) /\ wanted \in SUBSET Topics
  BY Queues DEF CallInv, TypeInv, TypeOK
<1>1. NoCall.op = "idle"
  BY DEF NoCall
<1>2. CASE cleanSession /\ UNCHANGED call
  BY <1>1, <1>2 DEF cleanSession, SubscriptionInv, Live, RequestSteps
<1>3. CASE call' = c /\ UNCHANGED session
  <2>1. Live /\ Outstanding(toBroker, toClient, call)
    BY <1>1 DEF Live, RequestSteps, CallInv, OutstandingInv
  <2>2. \A i \in DOMAIN toClient : ~IsAnswer(toClient[i])
    BY <1>1, <2>1, OutstandingFree DEF RequestSteps, Free
  <2>3. AllAgree(toClient, wanted)
    BY <1>0, <2>1, <2>2, AgreeFree
  <2>4. /\ link = "up" => subscribed = Seen(toClient, c.topic, wanted, Len(toClient) + 1)
        /\ \A i \in DOMAIN toClient : toClient[i].type = "PUBLISH" =>
              toClient[i].topic \in Seen(toClient, c.topic, wanted, i)
    BY <1>0, <2>2, <2>3, FreeAgree
  <2>5. c.op = "subscribe" => c.topic \notin wanted
    BY <1>1 DEF Asked, HandlersSuffice
  <2>6. UNCHANGED <<link, subscribed, toClient, wanted>>
    BY <1>3 DEF RequestSteps, session
  <2> QED
    BY <1>3, <2>4, <2>5, <2>6 DEF SubscriptionInv
<1> QED
  BY <1>2, <1>3 DEF RequestSteps

\* A step that reads a packet which is not the awaited one, or none.
LEMMA QuietSubscriptions ==
    ASSUME CallInv, SubscriptionInv, Quiet
    PROVE  SubscriptionInv'
<1>0. /\ TypeInv /\ toClient \in Seq(Packets) /\ wanted \in SUBSET Topics
      /\ DOMAIN toClient = 1..Len(toClient) /\ Len(toClient) \in Nat
  BY Queues DEF CallInv, TypeInv, TypeOK
<1>1. QuietSteps
  BY <1>0, QuietFacts
<1>2. UNCHANGED <<wanted, link, subscribed>>
  BY <1>1 DEF QuietSteps
<1>3. Live
  BY <1>1 DEF QuietSteps, Waiting, Yields, CallInv, SessionInv, Live
<1>4. Outstanding(toBroker, toClient, call)
  BY <1>3 DEF CallInv, OutstandingInv
<1>5. /\ link = "up" => subscribed = Seen(toClient', call.topic, wanted, Len(toClient') + 1)
      /\ \A i \in DOMAIN toClient' : toClient'[i].type = "PUBLISH" =>
            toClient'[i].topic \in Seen(toClient', call.topic, wanted, i)
  <2>1. CASE UNCHANGED toClient
    BY <1>3, <2>1 DEF SubscriptionInv
  <2>2. CASE /\ toClient # <<>> /\ toClient' = Tail(toClient)
             /\ Head(toClient).type # Awaited(call.op)
    <3>1. /\ Head(toClient) = toClient[1] /\ 1 \in DOMAIN toClient
          /\ DOMAIN toClient' = 1..Len(toClient) - 1
          /\ Len(toClient') = Len(toClient) - 1
          /\ \A i \in 1..Len(toClient) - 1 : toClient'[i] = toClient[i + 1]
      BY <1>0, <2>2, Reading
    <3>2. ~IsAnswer(Head(toClient))
      BY <1>4, <2>2, <3>1 DEF Outstanding
    <3>3. \A n \in 1..Len(toClient) :
             Seen(toClient', call.topic, wanted, n) = Seen(toClient, call.topic, wanted, n + 1)
      BY <1>0, <2>2, <3>2, SeenTail
    <3>4. link = "up" => subscribed = Seen(toClient', call.topic, wanted, Len(toClient') + 1)
      <4>1. Len(toClient') + 1 \in 1..Len(toClient) /\ (Len(toClient') + 1) + 1 = Len(toClient) + 1
        BY <1>0, <3>1
      <4> QED
        BY <1>3, <3>3, <4>1 DEF SubscriptionInv
    <3>5. ASSUME NEW i \in DOMAIN toClient', toClient'[i].type = "PUBLISH"
          PROVE  toClient'[i].topic \in Seen(toClient', call.topic, wanted, i)
      <4>1. i \in 1..Len(toClient) /\ i + 1 \in DOMAIN toClient /\ toClient'[i] = toClient[i + 1]
        BY <1>0, <3>1
      <4> QED
        BY <1>3, <3>3, <3>5, <4>1 DEF SubscriptionInv
    <3> QED
      BY <3>4, <3>5
  <2> QED
    BY <1>1, <2>1, <2>2 DEF QuietSteps
<1>6. CASE call' = call
  BY <1>2, <1>3, <1>5, <1>6 DEF SubscriptionInv
<1>7. CASE Yields /\ call'.op \in {"idle", "yield", "yielding"}
  <2>1. Outstanding(toBroker, toClient', call)
    BY <1>0, <1>1, <1>4, OutstandingRead DEF QuietSteps
  <2>2. \A i \in DOMAIN toClient' : ~IsAnswer(toClient'[i])
    BY <1>7, <2>1, OutstandingFree DEF Free, Yields
  <2>3. toClient' \in Seq(Packets) /\ Len(toClient') \in Nat /\ DOMAIN toClient' = 1..Len(toClient')
    <3>1. toClient' \in Seq(Packets)
      BY <1>0, <1>1, Reading DEF QuietSteps
    <3> QED
      BY <3>1, LenProperties
  <2>4. \A n \in 1..Len(toClient') + 1 : Seen(toClient', call.topic, wanted, n) = wanted
    BY <1>0, <2>2, <2>3, SeenFree
  <2>5. AllAgree(toClient', wanted)
    BY <1>5, <2>3, <2>4 DEF AllAgree
  <2>6. /\ link = "up" => subscribed = Seen(toClient', call'.topic, wanted, Len(toClient') + 1)
        /\ \A i \in DOMAIN toClient' : toClient'[i].type = "PUBLISH" =>
              toClient'[i].topic \in Seen(toClient', call'.topic, wanted, i)
    BY <1>0, <2>2, <2>3, <2>5, FreeAgree
  <2> QED
    BY <1>2, <1>7, <2>6 DEF SubscriptionInv
<1> QED
  BY <1>1, <1>6, <1>7 DEF QuietSteps

\* The awaited answer: what is behind it agrees with what it has settled.
LEMMA AnsweredSubscriptions ==
    ASSUME HandlersSuffice, CallInv, HandlersInv, SubscriptionInv, answered
    PROVE  SubscriptionInv'
<1>0. /\ TypeInv /\ toClient \in Seq(Packets) /\ wanted \in SUBSET Topics
      /\ DOMAIN toClient = 1..Len(toClient) /\ Len(toClient) \in Nat
  BY Queues DEF CallInv, TypeInv, TypeOK
<1>1. AnsweredSteps
  BY <1>0, AnsweredFacts
<1>2. /\ toClient # <<>> /\ toClient' = Tail(toClient) /\ call' = NoCall
      /\ Head(toClient).type = Awaited(call.op) /\ UNCHANGED <<link, subscribed>>
  BY <1>1 DEF AnsweredSteps
<1>3. NoCall.op = "idle"
  BY DEF NoCall
<1> SUFFICES ASSUME isconnected'
             PROVE  SubscriptionInv'
  BY <1>2, <1>3 DEF SubscriptionInv, Live
<1>4. Settled
  BY AnsweredHandlers
<1>5. Live /\ Outstanding(toBroker, toClient, call)
  BY <1>1 DEF AnsweredSteps, CallInv, SessionInv, OutstandingInv, Live
<1>6. IsAnswer(Head(toClient))
  BY <1>1 DEF AnsweredSteps, Awaited, IsAnswer
<1>7. \A i \in DOMAIN toClient' : ~IsAnswer(toClient'[i])
  BY <1>0, <1>2, <1>5, <1>6, OutstandingRead DEF Free
<1>8. wanted' \in SUBSET Topics
  BY <1>0, <1>4 DEF Settled, TypeInv
<1>9. \A n \in 1..Len(toClient) : Seen(toClient, call.topic, wanted, n + 1) = wanted'
  <2> SUFFICES ASSUME NEW n \in 1..Len(toClient)
               PROVE  Seen(toClient, call.topic, wanted, n + 1) = wanted'
    OBVIOUS
  <2>1. \A i, j \in DOMAIN toClient : IsAnswer(toClient[i]) /\ IsAnswer(toClient[j]) => i = j
    BY <1>5 DEF Outstanding
  <2>2. /\ Head(toClient).type \in {"CONNACK", "PUBACK"} => Seen(toClient, call.topic, wanted, n + 1) = wanted
        /\ Head(toClient).type = "SUBACK" /\ Head(toClient).code # Refused /\ call.topic \in Topics
              => Seen(toClient, call.topic, wanted, n + 1) = wanted \cup {call.topic}
        /\ Head(toClient).type = "UNSUBACK"
              => Seen(toClient, call.topic, wanted, n + 1) = wanted \ {call.topic}
    BY <1>0, <1>2, <1>6, <2>1, SeenAnswer
  <2>3. CASE call.op \in {"connect", "publish"}
    BY <1>2, <1>4, <2>2, <2>3 DEF Settled, Awaited
  <2>4. CASE call.op = "subscribe"
    <3>1. call.topic \in Topics
      BY <1>0, <2>4 DEF TypeInv
    <3> QED
      BY <1>2, <1>4, <2>2, <2>4, <3>1 DEF Settled, Awaited
  <2>5. CASE call.op = "unsubscribe"
    BY <1>2, <1>4, <2>2, <2>5 DEF Settled, Awaited
  <2> QED
    BY <1>1, <2>3, <2>4, <2>5 DEF AnsweredSteps
<1>10. /\ toClient' \in Seq(Packets)
       /\ DOMAIN toClient' = 1..Len(toClient) - 1 /\ Len(toClient) > 0
       /\ \A i \in 1..Len(toClient) - 1 : toClient'[i] = toClient[i + 1]
  BY <1>0, <1>2, Reading
<1>11. AllAgree(toClient', wanted')
  <2>1. link = "up" => subscribed = wanted'
    BY <1>0, <1>5, <1>9, <1>10 DEF SubscriptionInv
  <2>2. ASSUME NEW i \in DOMAIN toClient', toClient'[i].type = "PUBLISH"
        PROVE  toClient'[i].topic \in wanted'
    <3>1. i \in 1..Len(toClient) /\ i + 1 \in DOMAIN toClient /\ toClient'[i] = toClient[i + 1]
      BY <1>0, <1>10
    <3> QED
      BY <1>5, <1>9, <2>2, <3>1 DEF SubscriptionInv
  <2> QED
    BY <2>1, <2>2 DEF AllAgree
<1>12. /\ link = "up" => subscribed = Seen(toClient', call'.topic, wanted', Len(toClient') + 1)
       /\ \A i \in DOMAIN toClient' : toClient'[i].type = "PUBLISH" =>
             toClient'[i].topic \in Seen(toClient', call'.topic, wanted', i)
  BY <1>7, <1>8, <1>10, <1>11, FreeAgree
<1> QED
  BY <1>2, <1>3, <1>12 DEF SubscriptionInv

\* The messages on their way do not notice a packet sent after them.
LEMMA MessagesBefore ==
    ASSUME TypeInv, Live, SubscriptionInv, NEW r \in Packets,
           toClient' = toClient \/ (toClient' = Append(toClient, r) /\ r.type # "PUBLISH"),
           UNCHANGED <<call, wanted>>
    PROVE  \A i \in DOMAIN toClient' : toClient'[i].type = "PUBLISH" =>
              toClient'[i].topic \in Seen(toClient', call.topic, wanted, i)
<1>0. toClient \in Seq(Packets) /\ DOMAIN toClient = 1..Len(toClient) /\ Len(toClient) \in Nat
  BY Queues
<1>1. CASE toClient' = toClient
  BY <1>1 DEF SubscriptionInv
<1>2. CASE toClient' = Append(toClient, r) /\ r.type # "PUBLISH"
  <2> DEFINE D == Append(toClient, r)
  <2>0. toClient' = D
    BY <1>2
  <2>1. /\ DOMAIN D = 1..Len(toClient) + 1
        /\ \A i \in 1..Len(toClient) : D[i] = toClient[i]
        /\ D[Len(toClient) + 1] = r
    BY <1>0, AppendQueue
  <2>2. \A n \in 1..Len(toClient) + 1 :
           Seen(D, call.topic, wanted, n) = Seen(toClient, call.topic, wanted, n)
    BY <1>0, SeenAppend
  <2> HIDE DEF D
  <2>3. ASSUME NEW i \in DOMAIN D, D[i].type = "PUBLISH"
        PROVE  D[i].topic \in Seen(D, call.topic, wanted, i)
    <3>0. i # Len(toClient) + 1
      BY <1>2, <2>1, <2>3
    <3>1. i \in DOMAIN toClient /\ i \in 1..Len(toClient) + 1 /\ D[i] = toClient[i]
      BY <1>0, <2>1, <2>3, <3>0
    <3> QED
      BY <2>2, <2>3, <3>1 DEF SubscriptionInv
  <2> QED
    BY <2>0, <2>3
<1> QED
  BY <1>1, <1>2

\* The broker has read a packet: its subscriptions are what the client will see
\* behind the answer.
LEMMA ServedSubscriptions ==
    ASSUME CallInv, SubscriptionInv, link = "up", toBroker # <<>>, NEW r \in Packets,
           Served(Head(toBroker), r)
    PROVE  SubscriptionInv'
<1> DEFINE p == Head(toBroker)
           x == call.topic
           n == Len(toClient) + 1
<1>0. /\ TypeInv /\ toClient \in Seq(Packets) /\ wanted \in SUBSET Topics /\ n \in Nat
      /\ Len(toClient) \in Nat
  BY Queues DEF CallInv, TypeInv, TypeOK
<1>1. Answer(<<>>) \/ Answer(<<r>>)
  BY DEF Served
<1>2. /\ Answer(<<>>) => toClient' = toClient
      /\ Answer(<<r>>) => toClient' = Append(toClient, r)
      /\ UNCHANGED <<isconnected, call, wanted>>
  BY <1>0, <1>1, AnswerSent
<1> SUFFICES ASSUME Live
             PROVE  SubscriptionInv'
  BY <1>2 DEF SubscriptionInv, Live
<1>3. Outstanding(toBroker, toClient, call)
  BY DEF CallInv, OutstandingInv
<1>4. subscribed = Seen(toClient, x, wanted, n)
  BY DEF SubscriptionInv
<1>5. r.type # "PUBLISH" \/ toClient' = toClient
  BY <1>1, <1>2 DEF Served, Packet
<1>6. \A i \in DOMAIN toClient' : toClient'[i].type = "PUBLISH" =>
         toClient'[i].topic \in Seen(toClient', x, wanted, i)
  BY <1>0, <1>1, <1>2, <1>5, MessagesBefore
<1>7. 1 \in DOMAIN toBroker /\ p = toBroker[1]
  BY <1>0, Queues, Receiving
<1>8. IsRequest(p) => /\ p.type = RequestType(call.op) /\ p.topic = x
                      /\ \A i \in DOMAIN toClient : ~IsAnswer(toClient[i])
  BY <1>3, <1>7 DEF Outstanding
<1>9. IsRequest(p) => Seen(toClient, x, wanted, n) = wanted /\ ~RemovedBefore(toClient, n)
  <2> SUFFICES ASSUME IsRequest(p)
               PROVE  Seen(toClient, x, wanted, n) = wanted /\ ~RemovedBefore(toClient, n)
    OBVIOUS
  <2>1. n \in 1..Len(toClient) + 1 /\ \A j \in 1..n - 1 : j \in DOMAIN toClient
    BY <1>0, Queues
  <2>2. \A i \in DOMAIN toClient : ~IsAnswer(toClient[i])
    BY <1>8
  <2>3. Seen(toClient, x, wanted, n) = wanted
    BY <1>0, <2>1, <2>2, SeenFree
  <2>4. ~RemovedBefore(toClient, n)
    BY <2>1, <2>2 DEF RemovedBefore, IsAnswer
  <2> QED
    BY <2>3, <2>4
<1> DEFINE D == Append(toClient, r)
<1>10. Len(D) + 1 = n + 1
  BY <1>0, AppendQueue
<1>11. /\ r.type \notin {"SUBACK", "UNSUBACK"} => Seen(D, x, wanted, n + 1) = Seen(toClient, x, wanted, n)
       /\ r.type = "SUBACK" /\ r.code = Refused => Seen(D, x, wanted, n + 1) = Seen(toClient, x, wanted, n)
       /\ r.type = "SUBACK" /\ r.code # Refused /\ x \in Topics /\ ~RemovedBefore(toClient, n)
             => Seen(D, x, wanted, n + 1) = Seen(toClient, x, wanted, n) \cup {x}
       /\ r.type = "UNSUBACK" => Seen(D, x, wanted, n + 1) = Seen(toClient, x, wanted, n) \ {x}
  BY <1>0, SeenBehind
<1> HIDE DEF D, n
<1>12. link' = "up" => subscribed' = Seen(toClient', x, wanted, Len(toClient') + 1)
  <2>1. CASE p.type = "CONNECT"
    <3>1. call.op = "connect"
      BY <1>8, <2>1 DEF IsRequest, RequestType
    <3>2. wanted = {}
      BY <3>1 DEF CallInv, SessionInv
    <3>3. r.type = "CONNACK" /\ toClient' = D /\ (link' = "up" => subscribed' = {})
      BY <1>2, <2>1 DEF Served, Packet, D
    <3>4. Seen(D, x, wanted, n + 1) = {}
      BY <1>9, <1>11, <2>1, <3>2, <3>3 DEF IsRequest
    <3> QED
      BY <1>10, <3>3, <3>4
  <2>2. CASE p.type = "SUBSCRIBE"
    <3>1. call.op = "subscribe" /\ p.topic = x
      BY <1>8, <2>2 DEF IsRequest, RequestType
    <3>2. x \in Topics
      BY <1>0, <3>1 DEF TypeInv
    <3>3. /\ r.type = "SUBACK" /\ toClient' = D
          /\ subscribed' = IF r.code = Refused THEN subscribed ELSE subscribed \cup {x}
      BY <1>2, <2>2, <3>1 DEF Served, D
    <3>4. ~RemovedBefore(toClient, n)
      BY <1>9, <2>2 DEF IsRequest
    <3>5. Seen(D, x, wanted, n + 1) = subscribed'
      BY <1>4, <1>11, <3>2, <3>3, <3>4 DEF n
    <3> QED
      BY <1>10, <3>3, <3>5
  <2>3. CASE p.type = "UNSUBSCRIBE"
    <3>1. p.topic = x
      BY <1>8, <2>3 DEF IsRequest, RequestType
    <3>2. r.type = "UNSUBACK" /\ toClient' = D /\ subscribed' = subscribed \ {x}
      BY <1>2, <2>3, <3>1 DEF Served, Packet, D
    <3> QED
      BY <1>4, <1>10, <1>11, <3>2 DEF n
  <2>4. CASE p.type \notin {"CONNECT", "SUBSCRIBE", "UNSUBSCRIBE"}
    <3>1. subscribed' = subscribed
      BY <2>4 DEF Served
    <3>2. CASE toClient' = toClient
      BY <1>4, <3>1, <3>2 DEF n
    <3>3. CASE toClient' # toClient
      <4>1. r.type \in {"PUBACK", "PUBREC", "PINGRESP"} /\ toClient' = D
        BY <1>2, <2>4, <3>3 DEF Served, Packet, D
      <4> QED
        BY <1>4, <1>10, <1>11, <3>1, <4>1 DEF n
    <3> QED
      BY <3>2, <3>3
  <2> QED
    BY <2>1, <2>2, <2>3, <2>4
<1> QED
  BY <1>2, <1>6, <1>12 DEF SubscriptionInv

\* A message of the broker is for a topic it has just then.
LEMMA PublishesSubscriptions ==
    ASSUME CallInv, SubscriptionInv, NEW t \in Topics, NEW q \in QoS, BrokerPublishes(t, q)
    PROVE  SubscriptionInv'
<1> DEFINE p == Packet("PUBLISH", 0, t, q)
           D == Append(toClient, p)
           x == call.topic
<1>0. /\ TypeInv /\ toClient \in Seq(Packets) /\ wanted \in SUBSET Topics
      /\ DOMAIN toClient = 1..Len(toClient) /\ Len(toClient) \in Nat
  BY Queues DEF CallInv, TypeInv, TypeOK
<1>1. p \in Packets /\ p.type = "PUBLISH" /\ p.topic = t
  BY PacketTyped, QoSAssumption, SizeAssumption
<1>2. /\ link = "up" /\ t \in subscribed /\ toClient' = D
      /\ UNCHANGED <<isconnected, call, wanted, link, subscribed>>
  BY DEF BrokerPublishes, session
<1> HIDE DEF p
<1>3. /\ DOMAIN D = 1..Len(toClient) + 1 /\ Len(D) = Len(toClient) + 1
      /\ \A i \in 1..Len(toClient) : D[i] = toClient[i]
      /\ D[Len(toClient) + 1] = p
  BY <1>0, <1>1, AppendQueue
<1>4. \A n \in 1..Len(toClient) + 1 : Seen(D, x, wanted, n) = Seen(toClient, x, wanted, n)
  BY <1>0, <1>1, SeenAppend
<1>5. Seen(D, x, wanted, (Len(toClient) + 1) + 1) = Seen(toClient, x, wanted, Len(toClient) + 1)
  BY <1>0, <1>1, SeenBehind
<1> HIDE DEF D
<1> SUFFICES ASSUME Live
             PROVE  SubscriptionInv'
  BY <1>2 DEF SubscriptionInv, Live
<1>6. subscribed = Seen(D, x, wanted, Len(D) + 1)
  BY <1>2, <1>3, <1>5 DEF SubscriptionInv
<1>7. ASSUME NEW i \in DOMAIN D, D[i].type = "PUBLISH"
      PROVE  D[i].topic \in Seen(D, x, wanted, i)
  <2>1. CASE i = Len(toClient) + 1
    <3>1. D[i].topic = t /\ t \in Seen(toClient, x, wanted, Len(toClient) + 1)
      BY <1>1, <1>2, <1>3, <2>1 DEF SubscriptionInv
    <3>2. Len(toClient) + 1 \in 1..Len(toClient) + 1
      BY <1>0
    <3> QED
      BY <1>4, <2>1, <3>1, <3>2
  <2>2. CASE i # Len(toClient) + 1
    <3>1. i \in DOMAIN toClient /\ i \in 1..Len(toClient) + 1 /\ D[i] = toClient[i]
      BY <1>0, <1>3, <2>2
    <3> QED
      BY <1>4, <1>7, <3>1 DEF SubscriptionInv
  <2> QED
    BY <2>1, <2>2
<1> QED
  BY <1>2, <1>6, <1>7 DEF SubscriptionInv

\* A connection that is closed or lost brings the messages that are still to come.
LEMMA LostSubscriptions ==
    ASSUME CallInv, SubscriptionInv, BrokerCloses \/ LinkLost
    PROVE  SubscriptionInv'
<1> DEFINE x == call.topic
<1>0. /\ toClient \in Seq(Packets) /\ DOMAIN toClient = 1..Len(toClient) /\ Len(toClient) \in Nat
  BY Queues DEF CallInv
<1>1. link' # "up" /\ UNCHANGED <<isconnected, call, wanted>>
  BY DEF BrokerCloses, LinkLost, session
<1>2. CASE toClient' = toClient
  BY <1>1, <1>2 DEF SubscriptionInv, Live
<1>3. ASSUME NEW m \in 0..Len(toClient), toClient' = SubSeq(toClient, 1, m)
      PROVE  SubscriptionInv'
  <2> DEFINE D == SubSeq(toClient, 1, m)
  <2>1. DOMAIN D = 1..m /\ \A i \in 1..m : D[i] = toClient[i]
    BY <1>0, PrefixQueue
  <2>2. \A n \in 1..m : Seen(D, x, wanted, n) = Seen(toClient, x, wanted, n)
    BY <1>0, SeenPrefix
  <2>3. toClient' = D
    BY <1>3
  <2> HIDE DEF D
  <2>4. \A i \in DOMAIN D : i \in DOMAIN toClient
    BY <1>0, <2>1
  <2>5. ASSUME Live, NEW i \in DOMAIN D, D[i].type = "PUBLISH"
        PROVE  D[i].topic \in Seen(D, x, wanted, i)
    BY <2>1, <2>2, <2>4, <2>5 DEF SubscriptionInv
  <2>6. Live => (call.op = "subscribe" => call.topic \notin wanted)
    BY DEF SubscriptionInv
  <2> QED
    BY <1>1, <2>3, <2>5, <2>6 DEF SubscriptionInv, Live
<1> QED
  BY <1>2, <1>3 DEF BrokerCloses, LinkLost

\* Every step keeps SubscriptionInv.
LEMMA SubscriptionNext ==
    ASSUME HandlersSuffice, CallInv, HandlersInv, SubscriptionInv, [Next]_vars
    PROVE  SubscriptionInv'
<1>0. /\ TypeInv /\ toClient \in Seq(Packets) /\ wanted \in SUBSET Topics
      /\ NoCall.op = "idle"
  BY Queues DEF CallInv, TypeInv, TypeOK, NoCall
<1>1. CASE CoreCalls
  <2>1. CASE disconnect
    BY <1>0, <2>1 DEF disconnect, cleanSession, SubscriptionInv, Live
  <2> QED
    BY <1>0, <1>1, <2>1, CoreRequests, RequestSubscriptions
<1>2. CASE Quiet
  BY <1>2, QuietSubscriptions
<1>3. CASE answered
  BY <1>3, AnsweredSubscriptions
<1>4. CASE loop_yield
  <2>1. /\ call = NoCall /\ isconnected /\ UNCHANGED <<toClient, wanted, link, subscribed>>
        /\ call'.op = "yield"
    BY <1>4 DEF loop_yield, session, network, NoCall
  <2>2. Live /\ Outstanding(toBroker, toClient, call)
    BY <1>0, <2>1 DEF Live, CallInv, OutstandingInv
  <2>3. \A i \in DOMAIN toClient : ~IsAnswer(toClient[i])
    BY <1>0, <2>1, <2>2, OutstandingFree DEF Free
  <2>4. AllAgree(toClient, wanted)
    BY <1>0, <2>2, <2>3, AgreeFree
  <2>5. /\ link = "up" => subscribed = Seen(toClient, call'.topic, wanted, Len(toClient) + 1)
        /\ \A i \in DOMAIN toClient : toClient[i].type = "PUBLISH" =>
              toClient[i].topic \in Seen(toClient, call'.topic, wanted, i)
    BY <1>0, <2>3, <2>4, FreeAgree
  <2> QED
    BY <2>1, <2>5 DEF SubscriptionInv
<1>5. CASE read_stuck
  <2>1. call'.op = "stuck"
    BY <1>5 DEF read_stuck, NoCall
  <2> QED
    BY <2>1 DEF SubscriptionInv, Live
<1>6. CASE loop_connect
  <2>1. /\ ~isconnected /\ toClient' = <<>> /\ subscribed' = {} /\ UNCHANGED wanted /\ call'.op = "connect"
    BY <1>6 DEF loop_connect, session, NoCall
  <2>2. wanted' = {}
    BY <2>1 DEF CallInv, SessionInv
  <2>3. DOMAIN toClient' = {} /\ Len(toClient') = 0
    BY <2>1, EmptySeq
  <2>4. Seen(toClient', call'.topic, wanted', Len(toClient') + 1) = {}
    <3>1. 1..(Len(toClient') + 1) - 1 = {}
      BY <2>3
    <3>2. ~GrantedBefore(toClient', Len(toClient') + 1)
      BY <3>1 DEF GrantedBefore
    <3> QED
      BY <2>2, <3>2 DEF Seen
  <2> QED
    BY <2>1, <2>2, <2>3, <2>4 DEF SubscriptionInv
<1>7. CASE loop_connect_fails
  BY <1>0, <1>7 DEF loop_connect_fails, SubscriptionInv, Live, session
<1>8. CASE timed_out
  BY <1>0, <1>8 DEF timed_out, SubscriptionInv, Live, session, cleanSession, CallInv, SessionInv
<1>9. CASE killed
  BY <1>0, <1>9 DEF killed, SubscriptionInv, Live, cleanSession
<1>10. CASE \/ BrokerAccepts \/ BrokerRefuses \/ BrokerSubscribes \/ BrokerUnsubscribes
            \/ BrokerReceives \/ BrokerIsAcked \/ BrokerPongs
  BY <1>0, <1>10, BrokerServes, ServedSubscriptions
<1>11. ASSUME NEW t \in Topics, NEW q \in QoS, BrokerPublishes(t, q)
       PROVE  SubscriptionInv'
  BY <1>11, PublishesSubscriptions
<1>12. CASE BrokerCloses \/ LinkLost
  BY <1>12, LostSubscriptions
<1>13. CASE UNCHANGED vars
  BY <1>13 DEF vars, session, network, SubscriptionInv, Live
<1> QED
  BY <1>1, <1>2, <1>3, <1>4, <1>5, <1>6, <1>7, <1>8, <1>9, <1>10, <1>11, <1>12, <1>13
     DEF Next, Gateway, Broker, Quiet, read_torn, HandlersSuffice

-----------------------------------------------------------------------------
(* Theorems *)

\* The inductive invariant of the subscriptions.
AgreeInv == CallInv /\ HandlersInv /\ SubscriptionInv

\* It holds always, when the handlers suffice.
LEMMA AgreeCorrect ==
    ASSUME HandlersSuffice
    PROVE  Spec => []AgreeInv
<1>1. Init => AgreeInv
  <2>1. Init => HandlersInv
    BY DEF Init, HandlersInv
  <2>2. Init => SubscriptionInv
    BY DEF Init, SubscriptionInv, Live, NoCall
  <2>3. Init => CallInv
    <3>1. Init => SessionInv /\ OutstandingInv
      BY DEF Init, SessionInv, OutstandingInv, Live, NoCall
    <3> QED
      BY <3>1, InitTyped DEF CallInv
  <2> QED
    BY <2>1, <2>2, <2>3 DEF AgreeInv
<1>2. AgreeInv /\ [Next]_vars => AgreeInv'
  <2>1. CallInv /\ [Next]_vars => CallInv'
    BY NextTyped, SessionNext, OutstandingNext DEF CallInv, HandlersSuffice
  <2> QED
    BY <2>1, HandlersNext, SubscriptionNext DEF AgreeInv
<1> QED
  BY <1>1, <1>2, PTL DEF Spec

\* Between two calls on a live connection what Core wants, the handlers of the
\* client and the subscriptions of the broker are the same, with one handler for
\* each topic: after refused and timed out requests, lost connections and new ones.
THEOREM SubscriptionsCorrect ==
    ASSUME HandlersSuffice
    PROVE  Spec => []SubscriptionsAgree
<1>1. AgreeInv => SubscriptionsAgree
  <2> SUFFICES ASSUME AgreeInv, isconnected, call = NoCall \/ Yields, link = "up"
               PROVE  /\ subscribed = wanted
                      /\ {topicFilters[i] : i \in {h \in Handlers : attached[h]}} = wanted
                      /\ \A i, j \in Handlers :
                            attached[i] /\ attached[j] /\ topicFilters[i] = topicFilters[j] => i = j
    BY DEF SubscriptionsAgree
  <2>1. call.op \in {"idle", "yield", "yielding"}
    BY DEF NoCall, Yields
  <2>2. Live /\ Outstanding(toBroker, toClient, call) /\ TypeInv /\ SubscriptionInv /\ HandlersInv
    BY <2>1 DEF AgreeInv, CallInv, OutstandingInv, Live
  <2>3. \A i \in DOMAIN toClient : ~IsAnswer(toClient[i])
    BY <2>1, <2>2, OutstandingFree DEF Free
  <2>4. subscribed = wanted
    BY <2>2, <2>3, AgreeFree DEF AllAgree
  <2>5. {topicFilters[i] : i \in {h \in Handlers : attached[h]}} = wanted
    BY <2>2 DEF HandlersInv
  <2> QED
    BY <2>2, <2>4, <2>5 DEF HandlersInv
<1> QED
  BY <1>1, AgreeCorrect, PTL

\* A message that is about to be read has its handler, also when the broker sent it
\* right behind the SUBACK or just before it took the subscription away.
THEOREM MessagesCorrect ==
    ASSUME HandlersSuffice
    PROVE  Spec => []NextMessageHasHandler
<1>1. AgreeInv => NextMessageHasHandler
  <2> SUFFICES ASSUME AgreeInv, isconnected, toClient # <<>>, Head(toClient).type = "PUBLISH"
               PROVE  Matching(Head(toClient).topic) # {}
    BY DEF NextMessageHasHandler
  <2>1. TypeInv /\ Live
    BY DEF AgreeInv, CallInv, SessionInv, Live
  <2>2. Head(toClient) = toClient[1] /\ 1 \in DOMAIN toClient
    BY <2>1, Reading, Queues
  <2>3. toClient[1].topic \in Seen(toClient, call.topic, wanted, 1)
    BY <2>1, <2>2 DEF AgreeInv, SubscriptionInv
  <2>4. ~GrantedBefore(toClient, 1)
    BY DEF GrantedBefore
  <2>5. toClient[1].topic \in wanted
    BY <2>3, <2>4 DEF Seen
  <2> QED
    BY <2>2, <2>5 DEF AgreeInv, HandlersInv, Matching
<1> QED
  BY <1>1, AgreeCorrect, PTL
=============================================================================
