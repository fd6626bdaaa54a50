---------------------------- MODULE TelnetSocket ----------------------------
(***************************************************************************)
(* LinuxTelnetSocket: the bridge of SerialSocket behind a TCP connection.  *)
(* The scripts and the parsers are those of the serial line.  What differs *)
(* is the connection: it loses no line, but the bridge may close it.  Then *)
(* read returns 0 and the code goes on with the character it has, so a     *)
(* wait fails after 1024 characters or never, a read sees an empty line or *)
(* runs over its buffer, and the second write kills the process (SIGPIPE). *)
(***************************************************************************)
EXTENDS Naturals, Sequences, SequencesExt

CONSTANTS Addresses, Radio, MaxLineFaults

VARIABLES
    gateway, core,
    fd,                 \* sock: is it not -1?
    script, toBridge, toGateway, ownAddress, broadcastAddress, maximumMessageLength,
    from_address, data, handed, bridge, faults,
    hungUp              \* the bridge has closed the connection

Serial == INSTANCE SerialSocket

line   == <<toBridge, toGateway, bridge, faults, hungUp>>
config == <<ownAddress, broadcastAddress, maximumMessageLength>>
read   == <<config, from_address, data>>
vars   == <<gateway, core, fd, script, line, read, handed>>

Init == Serial!Init /\ hungUp = FALSE

-----------------------------------------------------------------------------
(* The scripts and the parsers, which repeat those of LinuxSerialSocket *)

readStatus(l)               == Serial!readStatus(l)
readOwnAddress(l)           == Serial!readOwnAddress(l)
readBroadcastAddress(l)     == Serial!readBroadcastAddress(l)
readMaximumMessageLength(l) == Serial!readMaximumMessageLength(l)
readSerialBufferSize(l)     == Serial!readSerialBufferSize(l)
readSendAddress(l)          == Serial!readSendAddress(l)
readData(l)                 == Serial!readData(l)
updateConfiguration         == Serial!updateConfiguration
SendScript(destination, bytes) == Serial!SendScript(destination, bytes)
LoopScript                  == Serial!LoopScript

Step    == Head(script)
Returns == script' = Tail(script)
\* updateConfiguration returns false: to begin(), or to getMaximumMessageLength, which
\* gives its default and leaves the connection open.
Fails   == script' = <<>> /\ gateway' = IF Last(script) = <<"close">> THEN gateway ELSE "failed"

-----------------------------------------------------------------------------
(* The calls *)

\* initTelnetPort: a new connection, with nothing of an earlier one on it, or none.
initTelnetPort(connected) ==
    /\ fd' = TRUE
    /\ hungUp' = ~connected
    /\ toBridge' = <<>> /\ toGateway' = <<>> /\ bridge' = "idle"

begin ==
    /\ gateway = "starting" /\ script = <<>>
    /\ \/ /\ initTelnetPort(TRUE)
          /\ script' = Append(updateConfiguration, <<"notify">>)
          /\ UNCHANGED gateway
       \/ /\ initTelnetPort(FALSE)
          /\ gateway' = "failed" /\ UNCHANGED script
    /\ ownAddress' = Serial!Zero /\ broadcastAddress' = Serial!Zero
    /\ UNCHANGED <<core, maximumMessageLength, from_address, data, handed, faults>>

\* Before begin() it connects, asks for the configuration and closes the connection.
getMaximumMessageLength ==
    /\ gateway = "starting" /\ ~fd
    /\ \/ initTelnetPort(TRUE) /\ script' = Append(updateConfiguration, <<"close">>)
       \/ initTelnetPort(FALSE) /\ UNCHANGED script
    /\ UNCHANGED <<gateway, core, read, handed, faults>>

send == Serial!send /\ UNCHANGED hungUp
loop == Serial!loop /\ UNCHANGED hungUp

-----------------------------------------------------------------------------
(* The steps of a script *)

write_line == Serial!write_line /\ ~hungUp /\ UNCHANGED hungUp

\* The first write on a closed connection is lost, the next raises SIGPIPE.
write_closed ==
    /\ script # <<>> /\ Step[1] = "write" /\ hungUp
    /\ \/ Returns /\ UNCHANGED gateway
       \/ gateway' = "killed" /\ script' = <<>>
    /\ UNCHANGED <<core, fd, line, read, handed>>

wait_line == Serial!wait_line /\ UNCHANGED hungUp

\* waitFor returns false, which only updateConfiguration looks at.
wait_gives_up ==
    /\ script # <<>> /\ Step[1] = "wait" /\ toGateway = <<>> /\ hungUp
    /\ IF Last(script) \in {<<"notify">>, <<"close">>} THEN Fails ELSE Returns /\ UNCHANGED gateway
    /\ UNCHANGED <<core, fd, line, read, handed>>

\* A read of the configuration that fails ends the call, as in LinuxSerialSocket.
read_line ==
    /\ script # <<>> /\ Step[1] = "read" /\ toGateway # <<>>
    /\ toGateway' = Tail(toGateway)
    /\ IF Step[2] \in {"ADDRESS", "DATA"} THEN Serial!ReadMessage(Step[2], Head(toGateway))
       ELSE Serial!ReadParts(Step[2], Head(toGateway))
            /\ IF Serial!ReadOK(Step[2], Head(toGateway)) THEN Returns /\ UNCHANGED gateway ELSE Fails
    /\ UNCHANGED <<core, fd, toBridge, bridge, faults, hungUp, handed>>

\* The character is a '\n' that is left from the line before, or the buffer overflows.
read_closed ==
    /\ script # <<>> /\ Step[1] = "read" /\ toGateway = <<>> /\ hungUp
    /\ \/ IF Step[2] \in {"ADDRESS", "DATA"} THEN Serial!ReadMessage(Step[2], <<"?", Serial!Bad>>)
          ELSE Fails /\ Serial!ReadParts(Step[2], <<"?", Serial!Bad>>)
       \/ gateway' = "killed" /\ script' = <<>> /\ UNCHANGED read
    /\ UNCHANGED <<core, fd, line, handed>>

receiveData == Serial!receiveData /\ UNCHANGED hungUp
notify_socket_connected == Serial!notify_socket_connected /\ UNCHANGED hungUp

\* The end of getMaximumMessageLength: the connection is closed.
close_sock ==
    /\ script # <<>> /\ Step[1] = "close"
    /\ fd' = FALSE
    /\ toBridge' = <<>> /\ toGateway' = <<>>
    /\ Returns
    /\ UNCHANGED <<gateway, core, bridge, faults, hungUp, read, handed>>

-----------------------------------------------------------------------------
(* The bridge *)

bridge_answers == ~hungUp /\ Serial!bridge_answers /\ UNCHANGED hungUp

\* What the bridge has sent before it closed the connection can still be read.
bridge_hangs_up ==
    /\ fd /\ ~hungUp /\ faults < MaxLineFaults
    /\ hungUp' = TRUE /\ toBridge' = <<>> /\ faults' = faults + 1
    /\ UNCHANGED <<gateway, core, fd, script, toGateway, bridge, read, handed>>

Steps ==
    \/ write_line \/ write_closed \/ wait_line \/ read_line \/ read_closed
    \/ receiveData \/ notify_socket_connected \/ close_sock

Next ==
    \/ begin \/ getMaximumMessageLength \/ send \/ loop \/ Steps \/ wait_gives_up
    \/ bridge_answers \/ bridge_hangs_up

-----------------------------------------------------------------------------
(* Properties; see SerialSocket *)

TypeOK     == Serial!TypeOK /\ hungUp \in BOOLEAN
Configured == Serial!Configured
Attributed == Serial!Attributed
InStep     == hungUp \/ Serial!InStep
=============================================================================
