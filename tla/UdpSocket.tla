------------------------------ MODULE UdpSocket ------------------------------
(***************************************************************************)
(* LinuxUdpSocket: a datagram socket for the clients and a second one for  *)
(* the multicast group.  A descriptor is "none" (-1), "open" (created),    *)
(* "bound" (to its port, but a receive on it blocks) or "ready" (with a    *)
(* receive timeout); socket_descriptor is "zero" until it is first set,    *)
(* for the gateway is a static object.                                     *)
(*                                                                         *)
(* Core is external.  It answers while it handles a message and sends when *)
(* it likes between two calls of loop(); whether it goes on after a        *)
(* begin() that failed is left open, as loop() is prepared for both.       *)
(***************************************************************************)
EXTENDS Naturals, Sequences, SequencesExt

CONSTANTS
    Hosts, Ports,       \* clients are pairs of a host and a port
    PORT,               \* 8888, in the byte order it is stored in
    MaxDatagrams        \* bound: datagrams waiting at a descriptor

VARIABLES
    gateway, core,
    udp_socket, socket_descriptor,
    arrived,            \* senders of the datagrams waiting at each descriptor
    si_other,           \* the last address received from or sent to
    at,                 \* where loop() is
    client,             \* the address Core was handed last
    reply               \* the last answer: where it went, and whom it was meant for

vars == <<gateway, core, udp_socket, socket_descriptor, arrived, si_other, at, client, reply>>

NoAddress   == <<"none", 0>>
Own         == <<"own", PORT>>
Endpoints   == Hosts \X Ports
Descriptors == {"none", "open", "bound", "ready"}

TypeOK ==
    /\ udp_socket \in Descriptors /\ socket_descriptor \in Descriptors \cup {"zero"}
    /\ \A d \in DOMAIN arrived : Range(arrived[d]) \subseteq Endpoints \cup {Own}
    /\ at \in {"idle", "unicast", "multicast", "end"}

Init ==
    /\ gateway = "starting" /\ core = "unknown"
    /\ udp_socket = "none" /\ socket_descriptor = "zero"
    /\ arrived = [unicast |-> <<>>, multicast |-> <<>>]
    /\ si_other = NoAddress /\ at = "idle" /\ client = NoAddress
    /\ reply = [to |-> NoAddress, meant |-> NoAddress]

-----------------------------------------------------------------------------
(* Addresses *)

\* Mutant of getDevice_address: the port is not part of the address.
getDevice_addressHost(addr) == <<addr[1], PORT>>

\* A port of 0 becomes PORT.
getDevice_address(addr) == <<addr[1], IF addr[2] = 0 THEN PORT ELSE addr[2]>>

getIp_address(address) == address[1]
getPort(address)       == address[2]

\* The clients' addresses that Core may send to.
Destinations == {getDevice_address(e) : e \in Endpoints \cup {Own}}

-----------------------------------------------------------------------------
(* Opening the sockets *)

\* The descriptors initUdpSocket may leave, and whether it returns true.
initUdpSocket ==
    {[fd |-> d, ok |-> FALSE] : d \in Descriptors} \cup {[fd |-> "ready", ok |-> TRUE]}

\* Mutant of initMulticastUdpSocket: the result of the last setsockopt is ignored.
initMulticastUdpSocketIgnored ==
    {[fd |-> "bound", ok |-> TRUE, exits |-> FALSE], [fd |-> "ready", ok |-> TRUE, exits |-> FALSE]}

\* A failing SO_REUSEADDR ends the process, any other step makes it return false.
initMulticastUdpSocket ==
    {[fd |-> d, ok |-> FALSE, exits |-> FALSE] : d \in {"none", "open", "bound"}}
    \cup {[fd |-> "open", ok |-> FALSE, exits |-> TRUE], [fd |-> "ready", ok |-> TRUE, exits |-> FALSE]}

\* Its result is ok, or it ends the process (exits).
begin(ok, exits) ==
    \E u \in initUdpSocket, m \in initMulticastUdpSocket :
        /\ udp_socket' = u.fd
        /\ socket_descriptor' = IF u.ok THEN m.fd ELSE socket_descriptor
        /\ ok = (u.ok /\ m.ok) /\ exits = (u.ok /\ m.exits)

\* Gateway::begin (external) calls begin, which tells Core when it has succeeded.
Started(ok, exits) ==
    /\ core' = IF ok THEN "connected" ELSE core
    /\ gateway' \in IF ok THEN {"running"} ELSE IF exits THEN {"failed"} ELSE {"failed", "running"}

start ==
    /\ gateway = "starting"
    /\ \E ok, exits \in BOOLEAN : begin(ok, exits) /\ Started(ok, exits)
    /\ UNCHANGED <<arrived, si_other, at, client, reply>>

Reopened(ok, exits) ==
    /\ core' = IF ok THEN "connected" ELSE "disconnected"
    /\ gateway' = IF exits THEN "failed" ELSE gateway

loop_reopen ==
    /\ gateway = "running" /\ at = "idle" /\ udp_socket = "none"
    /\ \E ok, exits \in BOOLEAN : begin(ok, exits) /\ Reopened(ok, exits)
    /\ UNCHANGED <<arrived, si_other, at, client, reply>>

-----------------------------------------------------------------------------
(* loop() *)

sockets == <<gateway, core, udp_socket, socket_descriptor>>
Fd(which) == IF which = "unicast" THEN udp_socket ELSE socket_descriptor

loop_enter ==
    /\ gateway = "running" /\ at = "idle" /\ udp_socket # "none"
    /\ at' = "unicast"
    /\ UNCHANGED <<sockets, arrived, si_other, client, reply>>

After(which) == IF which = "unicast" THEN "multicast" ELSE "end"

\* send() to one client.
SendTo(destination) == <<getIp_address(destination), getPort(destination)>>

\* The datagram is handed to Core, which may send to anybody, and answer, before loop()
\* goes on; si_other is left with the destination of the last of these sends.
receive(which) ==
    /\ at = which /\ arrived[which] # <<>>
    /\ arrived' = [arrived EXCEPT ![which] = Tail(@)]
    /\ LET sender == Head(arrived[which])
       IN  /\ client' = getDevice_address(sender)
           /\ \/ si_other' = sender /\ UNCHANGED reply
              \/ /\ si_other' \in {SendTo(d) : d \in Destinations}
                 /\ \/ UNCHANGED reply
                    \/ reply' = [to |-> SendTo(client'), meant |-> sender]
    /\ at' = After(which)
    /\ UNCHANGED sockets

\* recvfrom returns -1: after the timeout, or at once for a descriptor that is no socket.
receive_nothing(which) ==
    /\ at = which /\ Fd(which) \in {"ready", "none", "zero"}
    /\ at' = After(which)
    /\ UNCHANGED <<sockets, arrived, si_other, client, reply>>

loop_return ==
    /\ at = "end" /\ at' = "idle"
    /\ UNCHANGED <<sockets, arrived, si_other, client, reply>>

-----------------------------------------------------------------------------
(* send() between two calls of loop(), and the network *)

send ==
    /\ gateway = "running" /\ at = "idle"
    /\ si_other' \in {SendTo(d) : d \in Destinations}
    /\ UNCHANGED <<sockets, arrived, at, client, reply>>

Room(which) == Fd(which) \in {"bound", "ready"} /\ Len(arrived[which]) < MaxDatagrams

\* IP_MULTICAST_LOOP: what the gateway sends to the group comes back to it.
send_broadcast ==
    /\ gateway = "running" /\ at = "idle" /\ Room("multicast")
    /\ arrived' = [arrived EXCEPT !.multicast = Append(@, Own)]
    /\ UNCHANGED <<sockets, si_other, at, client, reply>>

datagram(which) ==
    /\ Room(which)
    /\ \E sender \in Endpoints : arrived' = [arrived EXCEPT ![which] = Append(@, sender)]
    /\ UNCHANGED <<sockets, si_other, at, client, reply>>

Loop == \E which \in {"unicast", "multicast"} : receive(which) \/ receive_nothing(which)
Next ==
    \/ start \/ loop_reopen \/ loop_enter \/ Loop \/ loop_return
    \/ send \/ send_broadcast \/ datagram("unicast") \/ datagram("multicast")

-----------------------------------------------------------------------------
(* Properties *)

\* Core counts on the socket only while both descriptors can be used and no receive on
\* them blocks: a begin() that fails half-way has not reported it as connected.
Usable == core = "connected" => udp_socket = "ready" /\ socket_descriptor = "ready"

\* What Core answers goes to the client that sent the message, although si_other is
\* shared by the receives and the sends, whatever else Core sends meanwhile; a client on port 0 has no such address.
RepliesReachSender == reply.to = reply.meant \/ reply.meant[2] = 0

\* A pass of loop() ends, as long as Core was told that the socket is connected.
LoopReturns == at # "idle" /\ core = "connected" ~> at = "idle"
==============================================================================
