-------------------------- MODULE BluetoothLowEnergy --------------------------
(***************************************************************************)
(* The first Bluetooth transport (Ble_old): Scanner and its thread,        *)
(* Connector and its thread, and Connection, whose state is driven by an   *)
(* observer (the connector's thread, which joins it) and by the callbacks  *)
(* of the glib main loop it starts.  The gateway's thread sends.           *)
(*                                                                         *)
(* conn_state is not protected by a lock.  What is sent and received is    *)
(* left out: a notification only puts a message into receiver_queue.       *)
(* Connector::close, Connector::stop and free_connections have no caller.  *)
(***************************************************************************)
EXTENDS Integers, Sequences, FiniteSets, Functions, Lists

CONSTANTS
    BleDevices,             \* addresses that advertise
    MaxConnections          \* bound: Connection objects that are made

VARIABLES
    ble_process,            \* "up", "exited" (exit(1)) or "terminated" (a joinable thread is destroyed)
    scan_thread,            \* "none", "started", "scanning", "delivers" (it holds list_mutex) or "ended"
    scan_stopped,           \* Scanner::stopped
    scanner_results,        \* Scanner::scanResults, called the blacklist by Connector
    delivering,             \* the address that is handed to onScanReceive
    connector,              \* where the connector's thread is
    scanner_status,         \* was the scanner running?
    connector_results,      \* Connector::scanResults
    connections,            \* the Connection objects made so far
    active_connections      \* their numbers

bleScanner  == <<scan_thread, scan_stopped, scanner_results, delivering>>
bleOldVars  == <<ble_process, bleScanner, connector, scanner_status, connector_results, connections, active_connections>>

ConstantsOK == MaxConnections \in Nat

Cur == Len(connections)     \* the one that the connector's thread made last
ConnectionState == {"DISCONNECTED", "CONNECTED", "HANDLE_READY", "TX_VALUE_SAVED", "RX_NOTIFY_ENABLED", "NUS_READY",
                    "PENDING_CHANGE", "CLOSED", "ERROR"}

\* BluetoothLowEnergySocket::begin
Init ==
    /\ ble_process = "up"
    /\ scan_thread = "started" /\ scan_stopped = FALSE /\ scanner_results = <<>> /\ delivering = "none"
    /\ connector = "idle" /\ scanner_status = FALSE /\ connector_results = <<>>
    /\ connections = <<>> /\ active_connections = <<>>

Up == ble_process = "up"

-----------------------------------------------------------------------------
(* Scanner *)

scanWithCallback ==
    /\ Up /\ scan_thread = "started"
    /\ scan_thread' = "scanning" /\ scan_stopped' = FALSE
    /\ UNCHANGED <<ble_process, scanner_results, delivering, connector, scanner_status, connector_results, connections, active_connections>>

\* The device cannot be opened, set up or read: exit(1).
lescan_fails ==
    /\ Up /\ scan_thread = "scanning" /\ ble_process' = "exited"
    /\ UNCHANGED <<bleScanner, connector, scanner_status, connector_results, connections, active_connections>>

\* A report of a device that is not in the list; list_mutex is locked until it is delivered.
advertised(d) ==
    /\ Up /\ scan_thread = "scanning" /\ d \notin Range(scanner_results)
    /\ scanner_results' = <<d>> \o scanner_results
    /\ delivering' = d /\ scan_thread' = "delivers"
    /\ UNCHANGED <<ble_process, scan_stopped, connector, scanner_status, connector_results, connections, active_connections>>

\* stopped is looked at after every report.
ScanGoesOn == scan_thread' = (IF scan_stopped THEN "ended" ELSE "scanning") /\ UNCHANGED scan_stopped

\* The connector has scanResult_mutex, from the end of the join to the end of the round.
HoldsResults == connector \in {"connect", "connecting", "command", "connected", "refused", "remove", "activate", "restart", "unlock"}

\* Connector::onScanReceive waits for scanResult_mutex.
onScanReceive ==
    /\ Up /\ scan_thread = "delivers" /\ ~HoldsResults
    /\ connector_results' = Append(connector_results, delivering)
    /\ delivering' = "none" /\ ScanGoesOn
    /\ UNCHANGED <<ble_process, scanner_results, connector, scanner_status, connections, active_connections>>

\* A report of a device that is known.
advertised_again ==
    /\ Up /\ scan_thread = "scanning" /\ scan_stopped /\ ScanGoesOn
    /\ UNCHANGED <<ble_process, scanner_results, delivering, connector, scanner_status, connector_results, connections, active_connections>>

\* Another event than an advertising report ends the scan.
scan_ends ==
    /\ Up /\ scan_thread = "scanning" /\ scan_thread' = "ended" /\ scan_stopped' = TRUE
    /\ UNCHANGED <<ble_process, scanner_results, delivering, connector, scanner_status, connector_results, connections, active_connections>>

-----------------------------------------------------------------------------
(* Connector::connect_loop *)

connect_loop ==
    /\ Up /\ connector = "idle" /\ connector_results # <<>> /\ Len(connections) < MaxConnections
    /\ scanner_status' = ~scan_stopped
    /\ scan_stopped' = TRUE /\ connector' = "join"          \* scanner->stop()
    /\ UNCHANGED <<ble_process, scan_thread, scanner_results, delivering, connector_results, connections, active_connections>>

\* Mutant of Joined: the scanner is not waited for.
JoinedNever(thread) == TRUE

Joined(thread) == thread \in {"none", "ended"}

\* The scanner's thread is joined, scanResult_mutex is locked and a Connection is made.
connect_loop_connect ==
    /\ Up /\ connector = "join" /\ Joined(scan_thread)
    /\ connector' = "connect"
    /\ connections' = Append(connections, [dev |-> Head(connector_results), state |-> "DISCONNECTED", refused |-> FALSE,
                                           loop |-> "running", io |-> "none", waits |-> "none", exists |-> TRUE])
    /\ UNCHANGED <<ble_process, bleScanner, scanner_status, connector_results, active_connections>>

\* ConnectionRefused: the result stays on the blacklist.  close joins the thread of the main loop.
connect_loop_refused ==
    /\ Up /\ connector = "refused" /\ connector' = "restart"
    /\ connector_results' = Filter(connector_results, BleDevices \ {connections[Cur].dev})
    /\ connections' = [connections EXCEPT ![Cur].state = "CLOSED", ![Cur].loop = "quit", ![Cur].exists = FALSE]
    /\ UNCHANGED <<ble_process, bleScanner, scanner_status, active_connections>>

\* Mutant of Forget: the connector keeps the result that is deleted.
ForgetLate(results, d) == results

\* scanResults.remove
Forget(results, d) == Filter(results, BleDevices \ {d})

\* Any other outcome, a failure too, is handled as a success.
connect_loop_connected ==
    /\ Up /\ connector = "connected"
    /\ connector' = IF connections[Cur].refused /\ connections[Cur].state # "NUS_READY" THEN "refused" ELSE "remove"
    /\ UNCHANGED <<ble_process, bleScanner, scanner_status, connector_results, connections, active_connections>>

\* Scanner::removeScanResult waits for list_mutex.
removeScanResult ==
    /\ Up /\ connector = "remove" /\ scan_thread # "delivers"
    /\ connector_results' = Forget(connector_results, connections[Cur].dev)
    /\ scanner_results' = Filter(scanner_results, BleDevices \ {connections[Cur].dev})
    /\ connector' = "activate"
    /\ UNCHANGED <<ble_process, scan_thread, scan_stopped, delivering, scanner_status, connections, active_connections>>

\* closeIfStateError; then remove_if with a predicate that is always true: all leave the
\* list, and those that are closed are deleted, which terminates the process if the thread
\* of the main loop was not joined.
connect_loop_activate ==
    LET listed == Range(active_connections)
        closed == [c \in DOMAIN connections |->
                     IF c \in listed /\ connections[c].state = "ERROR"
                     THEN [connections[c] EXCEPT !.state = "CLOSED", !.loop = "quit"] ELSE connections[c]]
        deleted == {c \in listed : closed[c].state = "CLOSED"}
    IN
    /\ Up /\ connector = "activate" /\ connector' = "restart"
    /\ active_connections' = <<Cur>>
    /\ connections' = [c \in DOMAIN connections |-> [closed[c] EXCEPT !.exists = @ /\ c \notin deleted]]
    /\ ble_process' = IF \E c \in deleted : closed[c].loop = "running" THEN "terminated" ELSE ble_process
    /\ UNCHANGED <<bleScanner, scanner_status, connector_results>>

\* The scanner is started if it ran before, with scanResult_mutex still locked.
connect_loop_restart ==
    /\ Up /\ connector = "restart" /\ connector' = "unlock"
    /\ IF scanner_status THEN scan_stopped' = FALSE /\ scan_thread' = "started" ELSE UNCHANGED <<scan_stopped, scan_thread>>
    /\ UNCHANGED <<ble_process, scanner_results, delivering, scanner_status, connector_results, connections, active_connections>>

\* scanResult_mutex is unlocked, and the loop begins again.
connect_loop_unlock ==
    /\ Up /\ connector = "unlock" /\ connector' = "idle"
    /\ UNCHANGED <<ble_process, bleScanner, scanner_status, connector_results, connections, active_connections>>

-----------------------------------------------------------------------------
(* Connection::call_observe_state_loop, for the connection that is made *)

setState(c, state) == connections' = [connections EXCEPT ![c].state = state]
Observes(state) == Up /\ connector = "connect" /\ connections[Cur].state = state
ObserverOnly == UNCHANGED <<ble_process, bleScanner, scanner_status, connector_results, active_connections>>

observe_end ==
    /\ Observes("CLOSED") \/ Observes("ERROR")
    /\ connector' = "connected" /\ UNCHANGED connections /\ ObserverOnly

\* cmd_connect: gatt_connect has started the connection, or cannot.
cmd_connect ==
    /\ Observes("DISCONNECTED")
    /\ \/ setState(Cur, "ERROR") /\ UNCHANGED connector
       \/ /\ connections' = [connections EXCEPT ![Cur].io = "open", ![Cur].waits = "connect"]
          /\ connector' = "connecting"
    /\ ObserverOnly

\* The state is set after the channel has been watched, whatever has happened on it since.
cmd_connect_pending ==
    /\ Up /\ connector = "connecting" /\ connector' = "connect" /\ setState(Cur, "PENDING_CHANGE") /\ ObserverOnly

cmd_check_characteristic_descriptors ==
    /\ Observes("CONNECTED") /\ UNCHANGED connector /\ ObserverOnly
    /\ connections' = [connections EXCEPT ![Cur].state = "PENDING_CHANGE", ![Cur].waits = "descriptors"]

cmd_read_tx_buffer ==
    /\ Observes("HANDLE_READY") /\ UNCHANGED connector /\ ObserverOnly
    /\ connections' = [connections EXCEPT ![Cur].state = "PENDING_CHANGE", ![Cur].waits = "read"]

\* The command is sent, then the state is set.
cmd_write_tx_notify_hnd ==
    /\ Observes("TX_VALUE_SAVED") /\ connector' = "command" /\ UNCHANGED connections /\ ObserverOnly
cmd_write_tx_notify_hnd_sent ==
    /\ Up /\ connector = "command" /\ connector' = "connect" /\ setState(Cur, "RX_NOTIFY_ENABLED") /\ ObserverOnly

\* The connect message that tx_buffer may hold is received; the observer ends.
cmd_set_nus_ready ==
    /\ Observes("RX_NOTIFY_ENABLED") /\ connector' = "connected" /\ setState(Cur, "NUS_READY") /\ ObserverOnly

-----------------------------------------------------------------------------
(* The callbacks of a connection, in the thread of its main loop *)

Called(c, waits) == Up /\ connections[c].exists /\ connections[c].loop = "running" /\ connections[c].waits = waits
CallbackOnly == UNCHANGED <<ble_process, bleScanner, connector, scanner_status, connector_results, active_connections>>
Becomes(c, state) == connections' = [connections EXCEPT ![c].state = state, ![c].waits = "none"]

connect_cb(c) ==
    /\ Called(c, "connect") /\ CallbackOnly
    /\ \/ Becomes(c, "CONNECTED")
       \/ \E refused \in BOOLEAN :
             connections' = [connections EXCEPT ![c].state = "ERROR", ![c].waits = "none", ![c].refused = refused]

\* An error, or handles that are missing or there twice, change nothing.
check_characteristic_descriptors(c) ==
    /\ Called(c, "descriptors") /\ CallbackOnly
    /\ Becomes(c, "HANDLE_READY") \/ Becomes(c, connections[c].state)

cmd_read_tx_buffer_cb(c) ==
    /\ Called(c, "read") /\ CallbackOnly
    /\ Becomes(c, "TX_VALUE_SAVED") \/ Becomes(c, connections[c].state)

char_write_req_raw_cb(c) ==
    /\ Called(c, "write") /\ CallbackOnly
    /\ Becomes(c, "NUS_READY") \/ Becomes(c, "ERROR")

\* channel_watcher: disconnect_io does nothing if the connection is closed.
channel_watcher(c) ==
    /\ Up /\ connections[c].exists /\ connections[c].loop = "running" /\ connections[c].io = "open"
    /\ connections' = [connections EXCEPT ![c].state = "CLOSED", ![c].waits = "none", ![c].io = "released"]
    /\ CallbackOnly

-----------------------------------------------------------------------------
(* BluetoothLowEnergySocket::send: isConnected, then Connector::send *)

Active(d) == Filter(active_connections, {c \in DOMAIN connections : connections[c].dev = d})

\* A write is started, one at a time.  On a connection whose HUP was overlooked there is no
\* attrib to write to.
send(d) ==
    /\ Up /\ Active(d) # <<>> /\ connections[Head(Active(d))].state = "NUS_READY"
    /\ connections[Head(Active(d))].io = "open" /\ connections[Head(Active(d))].waits = "none"
    /\ connections' = [connections EXCEPT ![Head(Active(d))].waits = "write"]
    /\ CallbackOnly

\* close: the state is set first, so disconnect_io does not release the channel.
close(d) ==
    /\ Up /\ Active(d) # <<>> /\ connections[Head(Active(d))].state = "ERROR"
    /\ connections' = [connections EXCEPT ![Head(Active(d))].state = "CLOSED", ![Head(Active(d))].loop = "quit"]
    /\ CallbackOnly

-----------------------------------------------------------------------------
Next ==
    \/ scanWithCallback \/ lescan_fails \/ onScanReceive \/ advertised_again \/ scan_ends
    \/ \E d \in BleDevices : advertised(d) \/ send(d) \/ close(d)
    \/ connect_loop \/ connect_loop_connect \/ connect_loop_refused \/ connect_loop_connected
    \/ removeScanResult \/ connect_loop_activate \/ connect_loop_restart \/ connect_loop_unlock
    \/ observe_end \/ cmd_connect \/ cmd_connect_pending \/ cmd_check_characteristic_descriptors
    \/ cmd_read_tx_buffer \/ cmd_write_tx_notify_hnd \/ cmd_write_tx_notify_hnd_sent \/ cmd_set_nus_ready
    \/ \E c \in DOMAIN connections :
          \/ connect_cb(c) \/ check_characteristic_descriptors(c) \/ cmd_read_tx_buffer_cb(c)
          \/ char_write_req_raw_cb(c) \/ channel_watcher(c)

-----------------------------------------------------------------------------
(* Properties *)

\* The threads and the connections are in states the code has.
TypeOK ==
    /\ ble_process \in {"up", "exited", "terminated"}
    /\ scan_thread \in {"none", "started", "scanning", "delivers", "ended"}
    /\ Range(connector_results) \cup Range(scanner_results) \subseteq BleDevices
    /\ \A c \in DOMAIN connections : connections[c].state \in ConnectionState

\* "if you do not stop the scann first, we provoke a deadlock": the scanner never waits
\* for scanResult_mutex with list_mutex locked while the connector has it the other way round.
\* Once the connector has started the scanner again it locks nothing before it unlocks.
NoDeadlock == ~(scan_thread = "delivers" /\ HoldsResults /\ connector # "unlock")

\* A result that the connector holds is one that the scanner has not deleted, is there
\* once, and belongs to no device the connector waits for already; active connections exist.
ResultsLive ==
    ble_process # "terminated" =>
        /\ Range(connector_results) \subseteq Range(scanner_results)
        /\ IsInjective(connector_results) /\ IsInjective(scanner_results)
        /\ \A i \in DOMAIN active_connections : connections[active_connections[i]].exists

\* A device that has refused the connection is never tried again.
RefusedOnce ==
    \A b, c \in DOMAIN connections : b < c /\ connections[b].refused /\ ~connections[b].exists => connections[b].dev # connections[c].dev
=============================================================================
