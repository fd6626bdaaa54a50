------------------------------ MODULE Transports ------------------------------
(***************************************************************************)
(* The gateway's process with the transport it is built with: one of the   *)
(* GATEWAY_TRANSMISSION_PROTOCOLs that LinuxGateway.h selects, or          *)
(* TcpSocket, which it announces.  The parts share what the rest of the    *)
(* process sees of a transport: whether the gateway runs (gateway) and     *)
(* what Core was told of the socket last (core).                           *)
(*                                                                         *)
(* "process" is the process itself: main, LinuxGateway's thread and the    *)
(* clock, none of which looks at the transport.                            *)
(***************************************************************************)
EXTENDS Integers, Sequences, FiniteSets, SequencesExt

CONSTANTS
    Builds,                                                            \* the builds to look at
    Addresses, Radio, MaxLineFaults,                                   \* SerialSocket, TelnetSocket
    Hosts, Ports, PORT, MaxDatagrams,                                  \* UdpSocket
    Clients,                                                           \* SingleTcpSocket
    Peers, MaxReceived, MaxSent,                                       \* TcpSocket
    Macs, Slots, None, Expired, FaultLimit, FaultyPeriod, MaxAge, MaxQueue,
    MacVanishes,                                                       \* BleSocket
    Wrap, DefaultPeriod, Periods, MaxTicks                                            \* GatewayProcess

VARIABLES
    build, gateway, core,
    fd, script, toBridge, toGateway, ownAddress, broadcastAddress, maximumMessageLength,
    from_address, data, handed, bridge, faults, hungUp,
    udp_socket, socket_descriptor, arrived, si_other, at, client, reply,
    tcp_socket, connection_socket, peer, sent, served,
    tcp_listens, conn, gone, deviceAddress, sends, receiver_queue, tcp_loop,
    stopped, acceptor, todo, devices, statistics, thread, bleConnections, bleMessageQueue, threw,
    dispatch, loopStopped, stopping, millis, heartbeat_period, heartbeat_current,
    elapsed_current, sinceBeat, sinceAsked, asked

Serial  == INSTANCE SerialSocket
Telnet  == INSTANCE TelnetSocket
Udp     == INSTANCE UdpSocket
Single  == INSTANCE SingleTcpSocket
Tcp     == INSTANCE TcpSocket
Ble     == INSTANCE BleSocket
Process == INSTANCE GatewayProcess

ASSUME ConstantsAssumption ==
    Serial!ConstantsOK /\ Single!ConstantsOK /\ Tcp!ConstantsOK /\ Ble!ConstantsOK /\ Process!ConstantsOK

lineVars    == <<fd, script, toBridge, toGateway, ownAddress, broadcastAddress, maximumMessageLength,
                 from_address, data, handed, bridge, faults, hungUp>>
udpVars     == <<udp_socket, socket_descriptor, arrived, si_other, at, client, reply>>
singleVars  == <<tcp_socket, connection_socket, peer, sent, served>>
tcpVars     == <<tcp_listens, conn, gone, deviceAddress, sends, receiver_queue, tcp_loop>>
bleVars     == <<stopped, acceptor, todo, devices, statistics, thread, bleConnections, bleMessageQueue, threw>>
processVars == <<dispatch, loopStopped, stopping, millis, heartbeat_period, heartbeat_current,
                 elapsed_current, sinceBeat, sinceAsked, asked>>
vars == <<build, gateway, core, lineVars, udpVars, singleVars, tcpVars, bleVars, processVars>>

Init ==
    /\ build \in Builds
    /\ Telnet!Init /\ Udp!Init /\ Single!Init /\ Tcp!Init /\ Ble!Init /\ Process!Init

\* A build takes its own steps; the variables of the others are not there.
SerialStep  == /\ build = "serial" /\ Serial!Next
               /\ UNCHANGED <<build, hungUp, udpVars, singleVars, tcpVars, bleVars, processVars>>
TelnetStep  == /\ build = "telnet" /\ Telnet!Next
               /\ UNCHANGED <<build, udpVars, singleVars, tcpVars, bleVars, processVars>>
UdpStep     == /\ build = "udp" /\ Udp!Next
               /\ UNCHANGED <<build, lineVars, singleVars, tcpVars, bleVars, processVars>>
SingleStep  == /\ build = "single_tcp" /\ Single!Next
               /\ UNCHANGED <<build, lineVars, udpVars, tcpVars, bleVars, processVars>>
TcpStep     == /\ build = "tcp" /\ Tcp!Next
               /\ UNCHANGED <<build, lineVars, udpVars, singleVars, bleVars, processVars>>
BleStep     == /\ build = "ble" /\ Ble!Next
               /\ UNCHANGED <<build, lineVars, udpVars, singleVars, tcpVars, processVars>>
ProcessStep == /\ build = "process" /\ Process!Next
               /\ UNCHANGED <<build, core, lineVars, udpVars, singleVars, tcpVars, bleVars>>

Next == SerialStep \/ TelnetStep \/ UdpStep \/ SingleStep \/ TcpStep \/ BleStep \/ ProcessStep

\* The process is scheduled, the bridge answers what reaches it, calls of the Bluetooth
\* library return, and the system calls with a timeout do.
Fairness ==
    /\ WF_vars(build = "serial" /\ Serial!Steps /\ UNCHANGED <<build, hungUp, udpVars, singleVars, tcpVars, bleVars, processVars>>)
    /\ WF_vars(build = "serial" /\ Serial!bridge_answers /\ UNCHANGED <<build, hungUp, udpVars, singleVars, tcpVars, bleVars, processVars>>)
    /\ WF_vars(build = "telnet" /\ Telnet!Steps /\ UNCHANGED <<build, udpVars, singleVars, tcpVars, bleVars, processVars>>)
    /\ WF_vars(build = "telnet" /\ Telnet!bridge_answers /\ UNCHANGED <<build, udpVars, singleVars, tcpVars, bleVars, processVars>>)
    /\ WF_vars(build = "ble" /\ Ble!Acceptor /\ UNCHANGED <<build, lineVars, udpVars, singleVars, tcpVars, processVars>>)
    /\ \A t \in Slots : WF_vars(build = "ble" /\ Ble!Progress(t) /\ UNCHANGED <<build, lineVars, udpVars, singleVars, tcpVars, processVars>>)
    /\ WF_vars(build = "process" /\ Process!dispatch_loop /\ UNCHANGED <<build, core, lineVars, udpVars, singleVars, tcpVars, bleVars>>)
    /\ WF_vars(build = "process" /\ Process!stop_loop_joined /\ UNCHANGED <<build, core, lineVars, udpVars, singleVars, tcpVars, bleVars>>)
    /\ WF_vars(build = "udp" /\ (Udp!Loop \/ Udp!loop_return) /\ UNCHANGED <<build, lineVars, singleVars, tcpVars, bleVars, processVars>>)

Spec == Init /\ [][Next]_vars /\ Fairness

-----------------------------------------------------------------------------
(* Properties of all builds *)

\* Types of the shared variables and of every part.
TypeOK ==
    /\ build \in Builds
    /\ gateway \in {"starting", "running", "failed", "killed", "stopping", "stopped"}
    /\ core \in {"unknown", "connected", "disconnected"}
    /\ Telnet!TypeOK /\ Udp!TypeOK /\ Single!TypeOK /\ Tcp!TypeOK /\ Ble!TypeOK /\ Process!TypeOK

\* notify_socket_connected promises Core a transport that works: the bridge has told an
\* address of its own, both UDP sockets are bound and cannot block, the TCP socket is
\* there, an adapter has been found.  A begin() that fails half-way has not said so, and
\* one that is repeated by loop() has taken it back.  Of the maximum message length and
\* of listen() it promises nothing: a length of 0 is accepted, and a failing listen is
\* not noticed.
ConnectedMeansUsable ==
    /\ build = "serial" => Serial!Configured
    /\ build = "telnet" => Telnet!Configured
    /\ build = "udp" => Udp!Usable
    /\ build = "single_tcp" => Single!Usable
    /\ build = "ble" /\ core = "connected" => acceptor \notin {"start", "wait", "crashed"}

\* A payload is handed to Core with the address it came from, and an answer reaches it:
\* whatever lines are lost, garbled or left over from a bridge that restarts or hangs up,
\* whatever Core sends while it is called, and although SingleTcpSocket gives all its
\* clients one address.
Attributed == Serial!Attributed /\ Udp!RepliesReachSender /\ Single!OneClientServed

\* A call that returns leaves nothing on the line that the next could take for its answer.
InStep == (build = "serial" => Serial!InStep) /\ (build = "telnet" => Telnet!InStep)

\* Two threads are never at work on the same device, and the statistic they share is
\* never read by one while the other writes it.
OneConnection == Ble!OneConnection /\ Ble!StatisticsExclusive

\* A device that has been added to bleConnections and not removed is found by send(),
\* unless an earlier disconnect of it has thrown.
Reachable == Ble!Reachable

\* A device is given up after a bounded number of failures, and one that is marked as in
\* progress has a thread that will take the mark back, unless its address has vanished.
InProgressHasThread == Ble!FailuresStop /\ Ble!InProgressHasThread

\* The heartbeat and the elapsed time are right across the wraparound of millis().
TimeAcrossWrap == Process!TimeAcrossWrap

\* Every call of the transport returns while the peer does its part: a script of the
\* serial line or the connection as long as the bridge answers (no wait has a timeout),
\* a pass of the UDP loop as long as Core was told the socket is connected; stop_loop does.
CallsReturn ==
    /\ script # <<>> ~> script = <<>> \/ faults > 0
    /\ Udp!LoopReturns
    /\ Process!StopReturns

\* A device the adapter keeps listing is tried, unless it is faulty or the socket stops.
DeviceIsTried == Ble!DeviceIsTried

-----------------------------------------------------------------------------
(* What a comment in the code says; it does not hold *)

\* isFaulty's criteria: a device is faulty for five minutes after its last failure.
FaultyExpires == Ble!FaultyExpires
===============================================================================
