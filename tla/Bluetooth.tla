------------------------------ MODULE Bluetooth -------------------------------
(***************************************************************************)
(* Ble_old's own scanner, connector and connections, and the parts of      *)
(* BlueZ below and beside the attribute protocol (see Gatt): the hands-    *)
(* free profile, the interfaces to the kernel's management and to the      *)
(* controller, the sockets, and the main loop, ring buffer and queue they  *)
(* are built on.  A behaviour is one of one part (engine), with what it    *)
(* knows of its neighbours.                                                *)
(***************************************************************************)
EXTENDS Integers, Sequences, FiniteSets

CONSTANTS
    Engines,                                    \* the parts to look at
    MaxCommands, BufSize, MaxNoise,             \* Hfp
    MaxRequests, MaxNotifiers,                  \* Mgmt
    MaxHciCommands, Credits,                    \* Hci
    RingSizes, MaxIn,                           \* Ringbuf
    MaxEntries,                                 \* PtrQueue
    MaxFds, MaxWatches,                         \* Mainloop
    BleDevices, MaxConnections,                 \* BluetoothLowEnergy
    MaxChannels, MaxWaiting                     \* BtIo

VARIABLES
    engine,
    hf_life, hf_sent, cmd_queue, hf_write_buf, hf_writer_active, hf_told, gw_life,
    cmd_handlers, command_callback, gw_read_buf, gw_reads, gw_write_buf, gw_writer_active,
    result_pending, gw_again, gw_at, gw_handled, hf_line, gw_line, noise, hfp_slip,
    request_queue, reply_queue, pending_list, mgmt_writer, mgmt_kernel, mgmt_log, mgmt_told,
    mgmt_notifiers, mgmt_registered, need_notify_cleanup, mgmt_cb, mgmt_asleep, mgmt_crossed,
    hci_cmds, hci_rsps, num_cmds, hci_writer, controller, hci_log, hci_told, evt_list,
    hci_cb, hci_crossed, hci_failed,
    ring_size, ring_in, ring_out, ring_mem, ring_data,
    queue_head, queue_tail, queue_next, queue_entries, queue_data,
    mainloop_list, watches, batch, loop_cb, loop_state,
    ble_process, scan_thread, scan_stopped, scanner_results, delivering, connector,
    scanner_status, connector_results, connections, active_connections,
    channels, bt_ready, bt_reused

Hfp   == INSTANCE Hfp
Mgmt  == INSTANCE Mgmt
Hci   == INSTANCE Hci
Ring  == INSTANCE Ringbuf
Queue == INSTANCE PtrQueue
Loop  == INSTANCE Mainloop
Old   == INSTANCE BluetoothLowEnergy
BtIo  == INSTANCE BtIo

ASSUME ConstantsAssumption ==
    /\ Hfp!ConstantsOK /\ Mgmt!ConstantsOK /\ Hci!ConstantsOK /\ Ring!ConstantsOK
    /\ Queue!ConstantsOK /\ Loop!ConstantsOK /\ Old!ConstantsOK /\ BtIo!ConstantsOK

hfpVars    == <<hf_life, hf_sent, cmd_queue, hf_write_buf, hf_writer_active, hf_told,
                gw_life, cmd_handlers, command_callback, gw_read_buf, gw_reads,
                gw_write_buf, gw_writer_active, result_pending, gw_again, gw_at, gw_handled,
                hf_line, gw_line, noise, hfp_slip>>
mgmtVars   == <<request_queue, reply_queue, pending_list, mgmt_writer, mgmt_kernel,
                mgmt_log, mgmt_told, mgmt_notifiers, mgmt_registered, need_notify_cleanup,
                mgmt_cb, mgmt_asleep, mgmt_crossed>>
hciVars    == <<hci_cmds, hci_rsps, num_cmds, hci_writer, controller, hci_log, hci_told,
                evt_list, hci_cb, hci_crossed, hci_failed>>
ringVars   == <<ring_size, ring_in, ring_out, ring_mem, ring_data>>
queueVars  == <<queue_head, queue_tail, queue_next, queue_entries, queue_data>>
loopVars   == <<mainloop_list, watches, batch, loop_cb, loop_state>>
bleOldVars == <<ble_process, scan_thread, scan_stopped, scanner_results, delivering,
                connector, scanner_status, connector_results, connections,
                active_connections>>
btioVars   == <<channels, bt_ready, bt_reused>>
vars == <<engine, hfpVars, mgmtVars, hciVars, ringVars, queueVars, loopVars, bleOldVars, btioVars>>

\* The part that runs is in one of its initial states, the others in a fixed one.
Init ==
    /\ engine \in Engines
    /\ Hfp!Init /\ (engine # "hfp" => command_callback)
    /\ Mgmt!Init /\ Hci!Init /\ Queue!Init /\ Loop!Init /\ Old!Init /\ BtIo!Init
    /\ Ring!Init /\ (engine # "ringbuf" => \A u \in RingSizes : ring_size <= Ring!align_power2(u))

HfpStep   == /\ engine = "hfp" /\ Hfp!Next
             /\ UNCHANGED <<engine, mgmtVars, hciVars, ringVars, queueVars, loopVars, bleOldVars, btioVars>>
MgmtStep  == /\ engine = "mgmt" /\ Mgmt!Next
             /\ UNCHANGED <<engine, hfpVars, hciVars, ringVars, queueVars, loopVars, bleOldVars, btioVars>>
HciStep   == /\ engine = "hci" /\ Hci!Next
             /\ UNCHANGED <<engine, hfpVars, mgmtVars, ringVars, queueVars, loopVars, bleOldVars, btioVars>>
RingStep  == /\ engine = "ringbuf" /\ Ring!Next
             /\ UNCHANGED <<engine, hfpVars, mgmtVars, hciVars, queueVars, loopVars, bleOldVars, btioVars>>
QueueStep == /\ engine = "queue" /\ Queue!Next
             /\ UNCHANGED <<engine, hfpVars, mgmtVars, hciVars, ringVars, loopVars, bleOldVars, btioVars>>
LoopStep  == /\ engine = "mainloop" /\ Loop!Next
             /\ UNCHANGED <<engine, hfpVars, mgmtVars, hciVars, ringVars, queueVars, bleOldVars, btioVars>>
OldStep   == /\ engine = "ble_old" /\ Old!Next
             /\ UNCHANGED <<engine, hfpVars, mgmtVars, hciVars, ringVars, queueVars, loopVars, btioVars>>
BtIoStep  == /\ engine = "btio" /\ BtIo!Next
             /\ UNCHANGED <<engine, hfpVars, mgmtVars, hciVars, ringVars, queueVars, loopVars, bleOldVars>>

Next == HfpStep \/ MgmtStep \/ HciStep \/ RingStep \/ QueueStep \/ LoopStep \/ OldStep \/ BtIoStep

Spec == Init /\ [][Next]_vars

-----------------------------------------------------------------------------
(* Properties of all parts *)

\* Types of every part.
TypeOK ==
    /\ engine \in Engines
    /\ engine = "hfp" => Hfp!TypeOK
    /\ engine = "mgmt" => Mgmt!TypeOK
    /\ engine = "hci" => Hci!TypeOK
    /\ engine = "ringbuf" => Ring!TypeOK
    /\ engine = "queue" => Queue!TypeOK
    /\ engine = "mainloop" => Loop!TypeOK
    /\ engine = "ble_old" => Old!TypeOK
    /\ engine = "btio" => BtIo!TypeOK

\* The parts are within their types.  A request is called back at most once and freed once,
\* whether it is answered, fails or is cancelled, a handler that was removed is not called
\* any more, a watch is destroyed once and a socket nobody has is closed; the controller is
\* sent no more than it takes; and what the connector keeps of a scan exists as long as it
\* keeps it.
CompletedOnce ==
    /\ TypeOK
    /\ engine = "hfp" => Hfp!FreedLast
    /\ engine = "mgmt" => Mgmt!CompletedOnce /\ Mgmt!HandlersLive
    /\ engine = "hci" => Hci!CompletedOnce /\ Hci!WindowKept
    /\ engine = "mainloop" => Loop!DestroyedOnce
    /\ engine = "ble_old" => Old!ResultsLive /\ Old!RefusedOnce
    /\ engine = "btio" => BtIo!CompletedOnce /\ BtIo!SocketsHeld

\* An answer is given to the request it belongs to, and what is taken from a buffer or a
\* queue is what was put into it, in order.
AnswersBelong ==
    /\ engine = "hfp" => Hfp!ResultsBelong
    /\ engine = "mgmt" => Mgmt!AnswersBelong
    /\ engine = "hci" => Hci!AnswersBelong
    /\ engine = "ringbuf" => Ring!DataKept
    /\ engine = "queue" => Queue!ListWhole
    /\ engine = "btio" => BtIo!OwnFate

\* No wake-up is lost and nobody waits for ever: what can be sent has a writer, or an
\* answer will start one, and the threads of the scanner and of the connector do not each
\* hold the lock the other waits for.
NothingWaits ==
    /\ engine = "hfp" => Hfp!NothingWaits
    /\ engine = "mgmt" => Mgmt!NothingWaits
    /\ engine = "hci" => Hci!NothingWaits
    /\ engine = "ble_old" => Old!NoDeadlock
===============================================================================
