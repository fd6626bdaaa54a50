------------------------------ MODULE TcpSocket ------------------------------
(***************************************************************************)
(* TcpSocket with its ConnectionAcceptor, a TcpConnection and its thread   *)
(* for every client, and the Queue between the threads and loop().         *)
(* LinuxGateway does not use it yet (it refuses to be built with it).      *)
(*                                                                         *)
(* The acceptor passes accept an uninitialized pointer: the call fails, or *)
(* the client's address ends up wherever the pointer points.  The last two *)
(* bytes of a connection's address are never written (memcmp for memcpy).  *)
(***************************************************************************)
EXTENDS Naturals, Sequences, SequencesExt

CONSTANTS
    Peers,              \* clients
    MaxReceived,        \* bound: messages in receiver_queue
    MaxSent             \* bound: messages a client sends

VARIABLES
    gateway, core,
    tcp_listens,        \* is tcp_socket open and listening?
    conn,               \* a client's connection: "none", "waiting", "accepted", "added", "refused"
    gone,               \* clients that have closed their end
    deviceAddress,      \* the address a connection has been given
    sends,              \* messages the client has sent, and how many of them are received
    receiver_queue,     \* <<client, number>> of the messages received, 0 for what is none
    tcp_loop            \* loop(): "idle", or "pop" once it has found the queue not empty

vars == <<gateway, core, tcp_listens, conn, gone, deviceAddress, sends, receiver_queue, tcp_loop>>

ConstantsOK == MaxSent \in Nat

Garbage == {"g1", "g2"}     \* what two uninitialized bytes may hold

TypeOK ==
    /\ tcp_listens \in BOOLEAN
    /\ conn \in [Peers -> {"none", "waiting", "accepted", "added", "refused"}]
    /\ deviceAddress \in [Peers -> Garbage]
    /\ sends \in [Peers -> [sent : 0..MaxSent, received : 0..MaxSent]]
    /\ gone \subseteq Peers
    /\ Range(receiver_queue) \subseteq Peers \X (0..MaxSent)
    /\ tcp_loop \in {"idle", "pop"}

Init ==
    /\ gateway = "starting" /\ core = "unknown"
    /\ tcp_listens = FALSE
    /\ conn = [c \in Peers |-> "none"] /\ deviceAddress = [c \in Peers |-> "g1"]
    /\ gone = {}
    /\ sends = [c \in Peers |-> [sent |-> 0, received |-> 0]]
    /\ receiver_queue = <<>> /\ tcp_loop = "idle"

-----------------------------------------------------------------------------
\* begin: initTcpSocket fails, or starts the acceptor's thread; listen may fail unnoticed.
begin ==
    /\ gateway = "starting"
    /\ \/ tcp_listens' \in BOOLEAN /\ core' = "connected" /\ gateway' = "running"
       \/ gateway' = "failed" /\ UNCHANGED <<tcp_listens, core>>
    /\ UNCHANGED <<conn, gone, deviceAddress, sends, receiver_queue, tcp_loop>>

connects(c) ==
    /\ tcp_listens /\ conn[c] = "none"
    /\ conn' = [conn EXCEPT ![c] = "waiting"]
    /\ UNCHANGED <<gateway, core, tcp_listens, gone, deviceAddress, sends, receiver_queue, tcp_loop>>

\* ConnectionAcceptor::loop: the connection's thread runs before start_loop has added it.
accept(c) ==
    /\ conn[c] = "waiting"
    /\ \/ conn' = [conn EXCEPT ![c] = "accepted"] /\ \E g \in Garbage : deviceAddress' = [deviceAddress EXCEPT ![c] = g]
       \/ conn' = [conn EXCEPT ![c] = "refused"] /\ UNCHANGED deviceAddress
    /\ UNCHANGED <<gateway, core, tcp_listens, gone, sends, receiver_queue, tcp_loop>>

addTcpConnection(c) ==
    /\ conn[c] = "accepted"
    /\ conn' = [conn EXCEPT ![c] = "added"]
    /\ UNCHANGED <<gateway, core, tcp_listens, gone, deviceAddress, sends, receiver_queue, tcp_loop>>

writes(c) ==
    /\ conn[c] \in {"waiting", "accepted", "added"} /\ c \notin gone /\ sends[c].sent < MaxSent
    /\ sends' = [sends EXCEPT ![c].sent = @ + 1]
    /\ UNCHANGED <<gateway, core, tcp_listens, conn, gone, deviceAddress, receiver_queue, tcp_loop>>

\* TcpConnection::loop has received exactly one message and pushes it; two messages that
\* came at once are dropped, and the end of one that came in two parts is pushed when its
\* first byte happens to be its length.
receive_message(c) ==
    /\ conn[c] \in {"accepted", "added"} /\ sends[c].received < sends[c].sent
    /\ \/ /\ Len(receiver_queue) < MaxReceived
          /\ sends' = [sends EXCEPT ![c].received = @ + 1]
          /\ receiver_queue' \in {Append(receiver_queue, <<c, sends[c].received + 1>>),
                                 Append(receiver_queue, <<c, 0>>), receiver_queue}
       \/ /\ sends[c].sent - sends[c].received > 1
          /\ sends' = [sends EXCEPT ![c].received = sends[c].sent]
          /\ UNCHANGED receiver_queue
    /\ UNCHANGED <<gateway, core, tcp_listens, conn, gone, deviceAddress, tcp_loop>>

closes(c) ==
    /\ conn[c] \in {"waiting", "accepted", "added"} /\ c \notin gone
    /\ gone' = gone \cup {c}
    /\ UNCHANGED <<gateway, core, tcp_listens, conn, deviceAddress, sends, receiver_queue, tcp_loop>>

\* recv returns 0 again and again, and a buffer that has received nothing starts with 0: an
\* empty message is pushed each time.
receive_empty(c) ==
    /\ conn[c] \in {"accepted", "added"} /\ c \in gone
    /\ sends[c] = [sent |-> 0, received |-> 0] /\ Len(receiver_queue) < MaxReceived
    /\ receiver_queue' = Append(receiver_queue, <<c, 0>>)
    /\ UNCHANGED <<gateway, core, tcp_listens, conn, gone, deviceAddress, sends, tcp_loop>>

\* loop() asks the queue, without its mutex, whether it is empty ...
loop_empty ==
    /\ gateway = "running" /\ tcp_loop = "idle" /\ receiver_queue # <<>>
    /\ tcp_loop' = "pop"
    /\ UNCHANGED <<gateway, core, tcp_listens, conn, gone, deviceAddress, sends, receiver_queue>>

\* ... and then takes a message, waiting for one if there is none, and deletes it.
loop_pop ==
    /\ tcp_loop = "pop" /\ receiver_queue # <<>>
    /\ receiver_queue' = Tail(receiver_queue) /\ tcp_loop' = "idle"
    /\ UNCHANGED <<gateway, core, tcp_listens, conn, gone, deviceAddress, sends>>

Next ==
    \/ begin \/ loop_empty \/ loop_pop
    \/ \E c \in Peers : connects(c) \/ accept(c) \/ addTcpConnection(c) \/ writes(c)
                        \/ receive_message(c) \/ closes(c) \/ receive_empty(c)

==============================================================================
