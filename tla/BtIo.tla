---------------------------------- MODULE BtIo ----------------------------------
(***************************************************************************)
(* The Bluetooth sockets of bluez5 (btio/btio.c): connecting, listening    *)
(* and accepting, each with a watch of the glib main loop that calls back  *)
(* and is gone.  The user has no handle on the watch: to give up it shuts  *)
(* the channel down, and the watch finds out by itself (check_nval).       *)
(*                                                                         *)
(* glib is external: a watch holds a reference to its channel, a channel   *)
(* without references is closed, and a turn of the loop first collects     *)
(* what is ready and then calls one watch after the other.  A descriptor   *)
(* is the lowest number that is free, and a channel remembers its number   *)
(* after it was closed.  What a callback does, the user does after it.     *)
(***************************************************************************)
EXTENDS Integers, Sequences, FiniteSets

CONSTANTS MaxChannels, MaxWaiting   \* bounds: channels, and clients that wait to be accepted

VARIABLES
    channels,       \* what is known of every channel, see Unused
    bt_ready,       \* the watches this turn of the loop still has to call, with their condition
    bt_reused       \* has the number of a channel that is watched been given to another?

btioVars == <<channels, bt_ready, bt_reused>>

ConstantsOK == MaxChannels \in Nat \ {0} /\ MaxWaiting \in Nat

Channels == 1..MaxChannels

\* held: does the user hold a reference?  waiting: the clients that wait at a listening
\* socket.  calls: what the user's functions were called with.
Unused == [watch |-> "none", held |-> FALSE, open |-> FALSE, fd |-> 0, socket |-> "none", waiting |-> 0,
           calls |-> <<>>, aborted |-> FALSE]

Init == channels = [c \in Channels |-> Unused] /\ bt_ready = {} /\ bt_reused = FALSE

-----------------------------------------------------------------------------
New  == 1 + Cardinality({c \in Channels : channels[c].fd # 0})
Open == {c \in Channels : channels[c].open}
Lowest == CHOOSE n \in 1..MaxChannels :
            n \notin {channels[c].fd : c \in Open} /\ \A m \in 1..n-1 : m \in {channels[c].fd : c \in Open}
Reuses == \E c \in Channels : channels[c].watch # "none" /\ ~channels[c].open /\ channels[c].fd = Lowest

\* The channels that share a number: who it belongs to now, if anybody.
Owner(fd) == {c \in Open : channels[c].fd = fd}

\* g_io_channel_set_close_on_unref: the last reference closes the socket.  How many clients
\* wait at it does not matter any more.
Released(r) == IF ~r.held /\ r.watch = "none" THEN [r EXCEPT !.open = FALSE, !.waiting = 0] ELSE r

\* server_add, connect_add and accept_add: the socket is watched from now on.
Add(r, watch) == [r EXCEPT !.watch = watch]

\* A socket is created, bound and configured; one for which that fails is closed again and
\* there is no channel.
create_io(socket) == [Unused EXCEPT !.held = TRUE, !.open = TRUE, !.fd = Lowest, !.socket = socket]

Opens(watch, socket) ==
    /\ New \in Channels
    /\ channels' = [channels EXCEPT ![New] = Add(create_io(socket), watch)]
    /\ bt_reused' = (bt_reused \/ Reuses)
    /\ UNCHANGED bt_ready

\* The connection is on its way, unless connect fails at once: then nothing is left of it.
bt_io_connect == Opens("connect", "pending")
bt_io_listen  == Opens("server", "listening")

\* A client that was not yet confirmed is let in, which takes a read; if that fails
\* nothing has changed.
bt_io_accept(c) ==
    LET r == channels[c]
        socket == IF r.socket = "deferred" THEN "pending" ELSE r.socket
    IN
    /\ r.held /\ r.open /\ r.watch = "none"
    /\ r.socket \in {"deferred", "hup"} /\ r.calls = <<>>
    /\ channels' = [channels EXCEPT ![c] = Add([r EXCEPT !.socket = socket], "accept")]
    /\ UNCHANGED <<bt_ready, bt_reused>>

\* The user gives up or is done, and drops its reference.
g_io_channel_shutdown(c) ==
    /\ channels[c].held /\ channels[c].open
    /\ channels' = [channels EXCEPT ![c].open = FALSE, ![c].waiting = 0, ![c].aborted = @ \/ channels[c].watch # "none"]
    /\ UNCHANGED <<bt_ready, bt_reused>>
g_io_channel_unref(c) ==
    /\ channels[c].held
    /\ channels' = [channels EXCEPT ![c] = Released([@ EXCEPT !.held = FALSE])]
    /\ UNCHANGED <<bt_ready, bt_reused>>

-----------------------------------------------------------------------------
(* The main loop *)

\* What poll says of the number of a channel: nobody has it, or how its owner is.
Condition(c) ==
    LET o == Owner(channels[c].fd) IN
    IF o = {} THEN "nval" ELSE channels[CHOOSE x \in o : TRUE].socket
\* (A watch for clients on a socket that does not listen calls accept in vain.)
IsReady(c) ==
    /\ channels[c].watch # "none"
    /\ IF channels[c].watch = "server"
       THEN Condition(c) = "nval" \/ \E o \in Owner(channels[c].fd) : channels[o].waiting > 0
       ELSE Condition(c) \notin {"pending", "deferred", "listening"}

poll ==
    /\ bt_ready = {} /\ \E c \in Channels : IsReady(c)
    /\ bt_ready' = {<<c, Condition(c) = "nval">> : c \in {x \in Channels : IsReady(x)}}
    /\ UNCHANGED <<channels, bt_reused>>

\* Mutant of check_nval: only the condition is looked at.
check_nval_skipped(c) == FALSE
\* The descriptor is looked at again: a callback before this one may have closed it.
check_nval(c) == Owner(channels[c].fd) = {}

\* The watch ends: connect_remove, accept_remove and server_remove call the user's destroy.
Removed(c, calls) ==
    LET r == channels[c] IN
    [channels EXCEPT ![c] = Released([r EXCEPT !.watch = "none", !.calls = r.calls \o calls \o <<"destroy">>])]

\* A connection that was made and lost again may have left an error.
Told(c) == CASE Condition(c) = "failed" -> {"error"} [] Condition(c) = "hup" -> {"connected", "error"} [] OTHER -> {"connected"}

\* connect_cb, and accept_cb which differs in when it asks for the error.
connect_cb(e) ==
    LET c == e[1] IN
    /\ e \in bt_ready /\ channels[c].watch \in {"connect", "accept"}
    /\ IF e[2] \/ check_nval(c) THEN channels' = Removed(c, <<>>)
       ELSE \E told \in Told(c) : channels' = Removed(c, <<told>>)
    /\ bt_ready' = bt_ready \ {e}
    /\ UNCHANGED bt_reused

\* A client is accepted and handed to confirm or connect, which may take a reference to its
\* channel; the watch stays.  accept fails if the client has left.
server_cb(e) ==
    LET c == e[1]  from == {o \in Owner(channels[c].fd) : channels[o].waiting > 0} IN
    /\ e \in bt_ready /\ channels[c].watch = "server" /\ bt_ready' = bt_ready \ {e}
    /\ IF e[2] \/ check_nval(c) THEN channels' = Removed(c, <<>>) /\ UNCHANGED bt_reused
       ELSE \/ from = {} /\ UNCHANGED <<channels, bt_reused>>
            \/ /\ New \in Channels /\ bt_reused' = (bt_reused \/ Reuses)
               /\ \E o \in from, keeps \in BOOLEAN, socket \in {"deferred", "connected"} :
                     channels' = [channels EXCEPT
                         ![o].waiting = @ - 1,
                         ![New] = Released([Unused EXCEPT !.held = keeps, !.open = TRUE, !.fd = Lowest, !.socket = socket])]

-----------------------------------------------------------------------------
(* The peers *)

peer(c) ==
    /\ channels[c].open
    /\ \/ channels[c].socket = "pending" /\ \E s \in {"connected", "failed"} : channels' = [channels EXCEPT ![c].socket = s]
       \/ channels[c].socket \in {"connected", "deferred"} /\ channels' = [channels EXCEPT ![c].socket = "hup"]
       \/ channels[c].socket = "listening" /\ \E n \in 0..MaxWaiting \ {channels[c].waiting} : channels' = [channels EXCEPT ![c].waiting = n]
    /\ UNCHANGED <<bt_ready, bt_reused>>

Next ==
    \/ bt_io_connect \/ bt_io_listen \/ poll
    \/ \E c \in Channels : bt_io_accept(c) \/ g_io_channel_shutdown(c) \/ g_io_channel_unref(c) \/ peer(c)
    \/ \E e \in bt_ready : connect_cb(e) \/ server_cb(e)

-----------------------------------------------------------------------------
(* Properties *)

\* The watches the loop still has to call are there.
TypeOK == \A e \in bt_ready : channels[e[1]].watch # "none"

\* Whoever connects or accepts is called back once, and its data destroyed once, after that;
\* who has given up is not called back, although its watch stays until the loop has looked
\* at it.  The exception: the number of the closed descriptor was given to another socket,
\* whose fate the watch then takes for that of its own.
CompletedOnce ==
    \A c \in Channels :
        LET r == channels[c] IN
        /\ r.calls \in {<<>>, <<"destroy">>, <<"connected", "destroy">>, <<"error", "destroy">>}
        /\ r.watch # "none" => r.calls = <<>>
        /\ r.aborted /\ ~bt_reused => r.calls \in {<<>>, <<"destroy">>}
        /\ r.calls = <<"destroy">> => r.aborted

\* What it is called back with is the fate of its own socket, but for the same exception.
OwnFate ==
    ~bt_reused => \A c \in Channels :
        /\ Head(channels[c].calls \o <<"none">>) = "connected" => channels[c].socket \in {"connected", "hup"}
        /\ Head(channels[c].calls \o <<"none">>) = "error" => channels[c].socket \in {"failed", "hup"}

\* A socket is open as long as somebody has its channel, and no two have the same number:
\* the clients nobody took and the attempts nobody waits for are closed.
SocketsHeld ==
    /\ \A c \in Open : channels[c].held \/ channels[c].watch # "none"
    /\ \A c, d \in Open : channels[c].fd = channels[d].fd => c = d
=============================================================================
