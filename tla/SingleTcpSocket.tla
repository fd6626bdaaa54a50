--------------------------- MODULE SingleTcpSocket ---------------------------
(***************************************************************************)
(* SingleTcpSocket: one TCP client at a time, polled by loop().  The       *)
(* socket hands every message to Core under its own listening address.     *)
(* Descriptors are "none" (-1), "open", "listening"; connection_socket is  *)
(* "zero" (never accepted), "none" (the last accept found nobody) or the   *)
(* client it is connected to.                                              *)
(***************************************************************************)
EXTENDS Naturals, FiniteSets

CONSTANTS Clients

VARIABLES
    gateway, core,
    tcp_socket, connection_socket,
    peer,               \* what a client does: "away", "waiting", "connected", "closed"
    sent,               \* clients of which bytes are waiting to be received
    served              \* clients whose bytes Core was handed, all under one address

ConstantsOK == Clients \cap {"zero", "none"} = {}

vars == <<gateway, core, tcp_socket, connection_socket, peer, sent, served>>

TypeOK ==
    /\ tcp_socket \in {"none", "open", "listening"}
    /\ connection_socket \in {"zero", "none"} \cup Clients
    /\ peer \in [Clients -> {"away", "waiting", "connected", "closed"}]
    /\ sent \subseteq Clients /\ served \subseteq Clients

Init ==
    /\ gateway = "starting" /\ core = "unknown"
    /\ tcp_socket = "none" /\ connection_socket = "zero"
    /\ peer = [c \in Clients |-> "away"] /\ sent = {} /\ served = {}

-----------------------------------------------------------------------------
\* socket() may fail, or bind(), which leaves the descriptor open; so does a listen() that
\* fails, which nobody looks at.
initTcpSocket(ok) ==
    \/ ~ok /\ tcp_socket' \in {"none", "open"} /\ UNCHANGED connection_socket
    \/ ok /\ tcp_socket' \in {"listening", "open"} /\ connection_socket' = "zero"

begin(ok) == core' = IF ok THEN "connected" ELSE core

Started(ok)  == begin(ok) /\ gateway' \in IF ok THEN {"running"} ELSE {"failed", "running"}

start ==
    /\ gateway = "starting"
    /\ \E ok \in BOOLEAN : initTcpSocket(ok) /\ Started(ok)
    /\ UNCHANGED <<peer, sent, served>>

Reopened(ok) == core' = (IF ok THEN "connected" ELSE "disconnected") /\ UNCHANGED gateway

loop_reopen ==
    /\ gateway = "running" /\ tcp_socket = "none"
    /\ \E ok \in BOOLEAN : initTcpSocket(ok) /\ Reopened(ok)
    /\ UNCHANGED <<peer, sent, served>>

\* accept on the descriptor, which does not block.
loop_accept ==
    /\ gateway = "running" /\ tcp_socket # "none" /\ connection_socket \in {"zero", "none"}
    /\ \/ \E c \in Clients :
            /\ tcp_socket = "listening" /\ peer[c] = "waiting"
            /\ connection_socket' = c /\ peer' = [peer EXCEPT ![c] = "connected"]
       \/ /\ \A c \in Clients : peer[c] # "waiting"
          /\ connection_socket' = "none" /\ UNCHANGED peer
    /\ UNCHANGED <<gateway, core, tcp_socket, sent, served>>

\* Mutant of loop_receive: a recv of 0 ends the connection.
loop_receive_close ==
    /\ gateway = "running" /\ tcp_socket # "none" /\ connection_socket \in Clients
    /\ IF connection_socket \in sent
       THEN served' = served \cup {connection_socket} /\ sent' = sent \ {connection_socket} /\ UNCHANGED connection_socket
       ELSE peer[connection_socket] = "closed" /\ connection_socket' = "zero" /\ UNCHANGED <<served, sent>>
    /\ UNCHANGED <<gateway, core, tcp_socket, peer>>

\* recv takes what there is; a 0 that tells of the end of the connection is not looked at.
loop_receive ==
    /\ gateway = "running" /\ tcp_socket # "none" /\ connection_socket \in sent
    /\ served' = served \cup {connection_socket} /\ sent' = sent \ {connection_socket}
    /\ UNCHANGED <<gateway, core, tcp_socket, connection_socket, peer>>

\* A write to a client that has closed its end raises SIGPIPE, which nobody handles.
send_closed ==
    /\ gateway = "running" /\ connection_socket \in Clients /\ peer[connection_socket] = "closed"
    /\ gateway' = "killed"
    /\ UNCHANGED <<core, tcp_socket, connection_socket, peer, sent, served>>

client_connects(c) ==
    /\ tcp_socket = "listening" /\ peer[c] = "away"
    /\ peer' = [peer EXCEPT ![c] = "waiting"]
    /\ UNCHANGED <<gateway, core, tcp_socket, connection_socket, sent, served>>

client_sends(c) ==
    /\ peer[c] \in {"waiting", "connected"}
    /\ sent' = sent \cup {c}
    /\ UNCHANGED <<gateway, core, tcp_socket, connection_socket, peer, served>>

client_closes(c) ==
    /\ peer[c] = "connected"
    /\ peer' = [peer EXCEPT ![c] = "closed"]
    /\ UNCHANGED <<gateway, core, tcp_socket, connection_socket, sent, served>>

Next ==
    \/ start \/ loop_reopen \/ loop_accept \/ loop_receive \/ send_closed
    \/ \E c \in Clients : client_connects(c) \/ client_sends(c) \/ client_closes(c)

-----------------------------------------------------------------------------
(* Properties *)

\* Core counts on the socket only while there is one.
Usable == core = "connected" => tcp_socket # "none"

\* All messages bear the same address, so Core takes them for one client's: that is
\* right because no second client is ever accepted, not even when the first has gone.
OneClientServed == Cardinality(served) <= 1
==============================================================================
