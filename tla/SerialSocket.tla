---------------------------- MODULE SerialSocket ----------------------------
(***************************************************************************)
(* LinuxSerialSocket: the gateway's conversation with a radio modem (the   *)
(* UART bridge) on a serial line.  Every call is a fixed script of steps:  *)
(* write a line, wait for a line (other lines are skipped) or read the     *)
(* next line, whatever it is, and parse it.  No wait has a timeout.        *)
(*                                                                         *)
(* A line is a keyword with an argument: an address, a payload, a number   *)
(* or one of NA ("N/A"), Bad (no number, or one that is out of range) and  *)
(* Short (fewer bytes than an address has).  The bridge is external; it    *)
(* answers as the scripts expect.  The line may lose or garble lines.      *)
(***************************************************************************)
EXTENDS Naturals, Sequences, SequencesExt

CONSTANTS
    Addresses,          \* addresses of devices, first byte not 0
    Radio,              \* messages on the radio: <<address, payload>>
    MaxLineFaults       \* bound: lines lost or garbled

VARIABLES
    gateway,            \* LinuxGateway: "starting", "running", "failed" or "killed"
    core,               \* what Core was told last: "unknown", "connected", "disconnected"
    fd,                 \* is the port open?
    script,             \* what is left to do of the call being executed
    toBridge, toGateway,\* lines on their way
    ownAddress, broadcastAddress, maximumMessageLength,
    from_address, data, \* what the last RECEIVE has read
    handed,             \* what Core was handed last, as <<address, payload>>
    bridge,             \* state of the bridge
    faults              \* lines lost or garbled so far

ConstantsOK == Radio \subseteq Addresses \X {m[2] : m \in Radio} /\ MaxLineFaults \in Nat

line   == <<toBridge, toGateway, bridge, faults>>
config == <<ownAddress, broadcastAddress, maximumMessageLength>>
read   == <<config, from_address, data>>
vars   == <<gateway, core, fd, script, line, read, handed>>

NA    == "N/A"
Bad   == "bad"
Short == "short"
Zero   == "0.0.0.0.0.0"      \* an address of zeros, also what a failed read leaves
NoData == "no data"          \* an empty payload, also what a failed read leaves
Parsed(value, ok) == [value |-> value, ok |-> ok]
Says(keyword, arg) == <<keyword, arg>>
OK(what) == <<"OK", what>>

TypeOK ==
    /\ fd \in BOOLEAN
    /\ \A i \in DOMAIN script : script[i][1] \in {"write", "wait", "read", "receiveData", "notify", "close"}
    /\ {ownAddress, broadcastAddress, from_address} \subseteq Addresses \cup {Zero, Short}
    /\ maximumMessageLength \in 0..255
    /\ bridge \in {"idle", "await_address", "await_data"}
    /\ faults \in 0..MaxLineFaults

-----------------------------------------------------------------------------
(* Parsing a line *)

\* A STATUS line without an argument is accepted; the status itself goes to a local variable.
readStatus(l) == l[1] = "STATUS" /\ l[2] # Bad

readOwnAddress(l) ==
    IF l[1] # "OWN_ADDRESS" \/ l[2] \in {NA, Bad} THEN Parsed(Zero, FALSE)
    ELSE Parsed(l[2], l[2] # Short)

readBroadcastAddress(l) ==
    IF l[1] # "BROADCAST_ADDRESS" \/ l[2] \in {Bad, Short} THEN Parsed(Zero, FALSE)
    ELSE Parsed(IF l[2] = NA THEN Zero ELSE l[2], TRUE)

\* Mutant of readMaximumMessageLength: the number is not compared with UINT8_MAX.
readMaximumMessageLengthAny(l) ==
    IF l[1] # "MAXIMUM_MESSAGE_LENGTH" THEN Parsed(0, FALSE) ELSE Parsed(IF l[2] = Bad THEN 256 ELSE 20, TRUE)

\* A line without a number counts as 0, which is accepted.
readMaximumMessageLength(l) ==
    IF l[1] # "MAXIMUM_MESSAGE_LENGTH" \/ l[2] = Bad THEN Parsed(0, FALSE)
    ELSE Parsed(IF l[2] = "0" THEN 0 ELSE 20, TRUE)

readSerialBufferSize(l) == l[1] = "SERIAL_BUFFER_SIZE" /\ l[2] # Bad

readSendAddress(l) == IF l[1] # "ADDRESS" \/ l[2] \in {Bad, Short} THEN Zero ELSE l[2]

readData(l) == IF l[1] # "DATA" \/ l[2] = Bad THEN NoData ELSE l[2]

-----------------------------------------------------------------------------
(* Scripts *)

Write(l)     == <<"write", l[1], l[2]>>
waitFor(what) == <<"wait", "OK", what>>
Read(what)   == <<"read", what>>

waitForOKIdle   == waitFor("IDLE")
resetController == <<Write(<<"RESET", "">>), waitForOKIdle>>

updateConfiguration ==
    << Write(<<"CONFIGURATION", "">>),
       waitFor("SEND_STATUS"),                 Read("STATUS"),
       waitFor("SEND_OWN_ADDRESS"),            Read("OWN_ADDRESS"),
       waitFor("SEND_BROADCAST_ADDRESS"),      Read("BROADCAST_ADDRESS"),
       waitFor("SEND_MAXIMUM_MESSAGE_LENGTH"), Read("MAXIMUM_MESSAGE_LENGTH"),
       waitFor("SEND_SERIAL_BUFFER_SIZE"),     Read("SERIAL_BUFFER_SIZE"),
       waitForOKIdle >>

\* Mutant of SendScript: the call returns once the data is written.
SendScriptReturnsEarly(destination, bytes) ==
    << Write(<<"SEND", "">>), waitFor("AWAIT_ADDRESS"),
       Write(<<"ADDRESS", destination>>), waitFor("AWAIT_DATA"),
       Write(<<"DATA", bytes>>) >>

SendScript(destination, bytes) ==
    << Write(<<"SEND", "">>),             waitFor("AWAIT_ADDRESS"),
       Write(<<"ADDRESS", destination>>), waitFor("AWAIT_DATA"),
       Write(<<"DATA", bytes>>),          waitFor("SENDING"),
       waitForOKIdle >>

LoopScript ==
    << Write(<<"RECEIVE", "">>),
       waitFor("SEND_ADDRESS"), Read("ADDRESS"),
       waitFor("SEND_DATA"),    Read("DATA"),
       waitForOKIdle, <<"receiveData">> >>

Step    == Head(script)
Returns == script' = Tail(script)

-----------------------------------------------------------------------------
(* The calls *)

Init ==
    /\ gateway = "starting" /\ core = "unknown"
    /\ fd = FALSE /\ script = <<>>
    /\ toBridge = <<>> /\ toGateway = <<>> /\ bridge = "idle" /\ faults = 0
    /\ ownAddress = Zero /\ broadcastAddress = Zero /\ maximumMessageLength = 0
    /\ from_address = Zero /\ data = NoData /\ handed = <<Zero, NoData>>

\* initSerialPort may fail; otherwise the controller is reset and asked for its configuration.
begin ==
    /\ gateway = "starting" /\ ~fd
    /\ \/ fd' = TRUE /\ script' = Append(resetController \o updateConfiguration, <<"notify">>) /\ UNCHANGED gateway
       \/ gateway' = "failed" /\ UNCHANGED <<fd, script>>
    /\ UNCHANGED <<core, line, read, handed>>

send ==
    /\ gateway = "running" /\ script = <<>>
    /\ \E a \in Addresses, m \in Radio : script' = SendScript(a, m[2])
    /\ UNCHANGED <<gateway, core, fd, line, read, handed>>

loop ==
    /\ gateway = "running" /\ script = <<>> /\ fd
    /\ script' = LoopScript
    /\ UNCHANGED <<gateway, core, fd, line, read, handed>>

-----------------------------------------------------------------------------
(* The steps of a script *)

write_line ==
    /\ script # <<>> /\ Step[1] = "write"
    /\ toBridge' = Append(toBridge, Tail(Step))
    /\ Returns
    /\ UNCHANGED <<gateway, core, fd, toGateway, bridge, faults, read, handed>>

wait_line ==
    /\ script # <<>> /\ Step[1] = "wait" /\ toGateway # <<>>
    /\ toGateway' = Tail(toGateway)
    /\ IF Head(toGateway) = Tail(Step) THEN Returns ELSE UNCHANGED script
    /\ UNCHANGED <<gateway, core, fd, toBridge, bridge, faults, read, handed>>

\* What a read of the configuration leaves behind.
ReadParts(what, l) ==
    /\ ownAddress' = IF what = "OWN_ADDRESS" THEN readOwnAddress(l).value ELSE ownAddress
    /\ broadcastAddress' = IF what = "BROADCAST_ADDRESS" THEN readBroadcastAddress(l).value ELSE broadcastAddress
    /\ maximumMessageLength' = IF what = "MAXIMUM_MESSAGE_LENGTH" THEN readMaximumMessageLength(l).value
                                                                  ELSE maximumMessageLength
    /\ from_address' = IF what = "STATUS" \/ (what = "OWN_ADDRESS" /\ l[2] = Short) THEN Zero ELSE from_address
    /\ UNCHANGED data

\* Does updateConfiguration go on?
ReadOK(what, l) ==
    CASE what = "STATUS"                 -> readStatus(l)
      [] what = "OWN_ADDRESS"            -> readOwnAddress(l).ok
      [] what = "BROADCAST_ADDRESS"      -> readBroadcastAddress(l).ok
      [] what = "MAXIMUM_MESSAGE_LENGTH" -> readMaximumMessageLength(l).ok
      [] what = "SERIAL_BUFFER_SIZE"     -> readSerialBufferSize(l)

ReadConfig(what, l) ==
    /\ ReadParts(what, l)
    /\ IF ReadOK(what, l) THEN Returns /\ UNCHANGED gateway
                          ELSE script' = <<>> /\ gateway' = "failed"

ReadMessage(what, l) ==
    /\ from_address' = IF what = "ADDRESS" THEN readSendAddress(l) ELSE from_address
    /\ data' = IF what = "DATA" THEN readData(l) ELSE data
    /\ Returns
    /\ UNCHANGED <<gateway, config>>

read_line ==
    /\ script # <<>> /\ Step[1] = "read" /\ toGateway # <<>>
    /\ toGateway' = Tail(toGateway)
    /\ IF Step[2] \in {"ADDRESS", "DATA"} THEN ReadMessage(Step[2], Head(toGateway))
                                          ELSE ReadConfig(Step[2], Head(toGateway))
    /\ UNCHANGED <<core, fd, toBridge, bridge, faults, handed>>

\* The end of loop(): an address that starts with 0 is nobody's.
receiveData ==
    /\ script # <<>> /\ Step[1] = "receiveData"
    /\ handed' = IF from_address = Zero THEN handed ELSE <<from_address, data>>
    /\ Returns
    /\ UNCHANGED <<gateway, core, fd, line, read>>

\* The end of begin().
notify_socket_connected ==
    /\ script # <<>> /\ Step[1] = "notify"
    /\ core' = "connected" /\ gateway' = "running"
    /\ Returns
    /\ UNCHANGED <<fd, line, read, handed>>

-----------------------------------------------------------------------------
(* The bridge and the line *)

\* The bridge knows its address or not, and has a maximum length or reports something else.
Configuration(own, broadcast, length) ==
    << OK("SEND_STATUS"), Says("STATUS", "IDLE"),
       OK("SEND_OWN_ADDRESS"), Says("OWN_ADDRESS", own),
       OK("SEND_BROADCAST_ADDRESS"), Says("BROADCAST_ADDRESS", broadcast),
       OK("SEND_MAXIMUM_MESSAGE_LENGTH"), Says("MAXIMUM_MESSAGE_LENGTH", length),
       OK("SEND_SERIAL_BUFFER_SIZE"), Says("SERIAL_BUFFER_SIZE", "64"),
       OK("IDLE") >>

Received(a, d) ==
    << OK("SEND_ADDRESS"), Says("ADDRESS", a), OK("SEND_DATA"), Says("DATA", d), OK("IDLE") >>

\* What the bridge may answer to line l, and the state it is in then.
Answers(l) ==
    CASE l[1] = "RESET" -> {[lines |-> <<OK("IDLE")>>, state |-> "idle"]}
      [] bridge = "idle" /\ l[1] = "CONFIGURATION" ->
            {[lines |-> Configuration(own, broadcast, length), state |-> "idle"] :
                own \in Addresses \cup {NA, Short}, broadcast \in Addresses \cup {NA}, length \in {"20", "0", Bad}}
      [] bridge = "idle" /\ l[1] = "SEND" -> {[lines |-> <<OK("AWAIT_ADDRESS")>>, state |-> "await_address"]}
      [] bridge = "idle" /\ l[1] = "RECEIVE" ->
            {[lines |-> Received(m[1], m[2]), state |-> "idle"] : m \in Radio \cup {<<Zero, NoData>>}}
      [] bridge = "await_address" /\ l[1] = "ADDRESS" ->
            {[lines |-> <<OK("AWAIT_DATA")>>, state |-> "await_data"]}
      [] bridge = "await_data" /\ l[1] = "DATA" ->
            {[lines |-> <<OK("SENDING"), OK("IDLE")>>, state |-> "idle"]}
      [] OTHER -> {[lines |-> <<>>, state |-> bridge]}

bridge_answers ==
    /\ toBridge # <<>>
    /\ toBridge' = Tail(toBridge)
    /\ \E a \in Answers(Head(toBridge)) : toGateway' = toGateway \o a.lines /\ bridge' = a.state
    /\ UNCHANGED <<gateway, core, fd, script, faults, read, handed>>

\* The bridge restarts and forgets what it was doing.
bridge_restarts ==
    /\ faults < MaxLineFaults /\ fd
    /\ faults' = faults + 1
    /\ toBridge' = <<>> /\ bridge' = "idle"
    /\ toGateway' = Append(toGateway, OK("IDLE"))
    /\ UNCHANGED <<gateway, core, fd, script, read, handed>>

\* A line is lost or becomes something that cannot be parsed.
line_fault ==
    /\ faults < MaxLineFaults
    /\ faults' = faults + 1
    /\ \/ /\ toBridge # <<>> /\ UNCHANGED toGateway
          /\ toBridge' \in {Tail(toBridge), [toBridge EXCEPT ![1] = <<"?", Bad>>]}
       \/ /\ UNCHANGED toBridge
          /\ \E i \in DOMAIN toGateway :
                toGateway' \in {RemoveAt(toGateway, i), [toGateway EXCEPT ![i] = <<"?", Bad>>],
                                [toGateway EXCEPT ![i] = <<@[1], Bad>>]}
    /\ UNCHANGED <<gateway, core, fd, script, bridge, read, handed>>

Steps == write_line \/ wait_line \/ read_line \/ receiveData \/ notify_socket_connected
Next  == begin \/ send \/ loop \/ Steps \/ bridge_answers \/ bridge_restarts \/ line_fault

-----------------------------------------------------------------------------
(* Properties *)

\* Once begin() has reported the socket as connected its own address is known, whatever
\* lines were lost.
Configured == core = "connected" => fd /\ ownAddress \in Addresses

\* Core is handed the payload that came with the address, or none: a lost line never
\* pairs the address of one message with the payload of another.
Attributed == handed \in Radio \cup {<<a, NoData>> : a \in Addresses \cup {Zero}}

\* A call that returns leaves no line behind that the next call could take for the
\* answer to its own command (what a restart says is skipped by its first wait), and no
\* bridge in the middle of an earlier one.
InStep ==
    gateway = "running" /\ script = <<>> =>
        toBridge = <<>> /\ bridge = "idle" /\ \A l \in Range(toGateway) : l = OK("IDLE") \/ l[2] = Bad

\* While the line loses nothing every call returns, although no wait has a timeout.
CallsReturn == script # <<>> ~> script = <<>> \/ faults > 0
=============================================================================
