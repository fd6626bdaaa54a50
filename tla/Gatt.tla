--------------------------------- MODULE Gatt ---------------------------------
(***************************************************************************)
(* The attribute protocol stack that Ble_old brings along: bt_att, the     *)
(* procedures of gatt-helpers.c, the client, the database and the server   *)
(* on top of it, and the two GAttribs with the procedures of gatt.c.  Each *)
(* is a part of its own with callbacks above and a queue or a peer below;  *)
(* a behaviour is one of one of them (engine), with what the part knows of *)
(* its neighbours, and the properties are stated for all.                  *)
(***************************************************************************)
EXTENDS Integers, Sequences, FiniteSets, SequencesExt

CONSTANTS
    Engines,                                            \* the parts to look at
    MaxOps, MaxHandlers,                                \* Att
    MaxHandle, Databases, StrictPeers,                  \* GattHelpers
    MaxRequests, MaxChunks,                             \* GattClientWrites
    MaxNotify,                                          \* GattClientNotify
    Slots, Services, Peers, MaxChanges, LinkTypes,      \* GattClient
    LastHandle, ServiceKinds, MaxServices, MaxAccess,   \* GattDb
    MaxPrep, MaxData, MaxPdu,                           \* GattServer
    MaxGCommands,                                       \* GAttrib4
    MaxGCalls, MaxMtu,                                  \* GAttrib
    LastProcHandle, ProcMtu, MaxLength                  \* GattProcedures

VARIABLES
    engine,
    io, refs, req_queue, ind_queue, write_queue, pending_req, pending_ind, writer_active, in_req,
    security, io_on_l2cap, notify_list, disconn_list, att_timers, att_cb, att_log,
    database, strict, kind, start_handle, end_handle, first_handle, results, asked_from, toRead,
    att_holds, op_id, ref_count, caller_ref, outcome, calls, cancelled, att_mtu,
    reqs, pending_requests, long_write_queue, in_long_write, session, att_ops, att_up,
    peer_prepared, peer_written, slips,
    has_ccc, can_notify, in_changed, notify_data, client_notify_list, notify_count, ccc_write_id,
    reg_notify_queue, ccc_ops, ccc_value, notify_up, notified, notify_slips,
    peer_db, client_db, stage, disc_op, pending_svcs, svcs, cur_svc, pending_chrcs, ext_prop_desc,
    in_init, ready, ready_told, in_svc_chngd, svc_chngd_queue, registered, indicated, changed_told,
    client_up, primary_failed,
    services, next_handle, notify_id, observed, access, enclosed, wrapped, stray,
    server, outstanding, answers, listed, response, pending_read_op, pending_write_op, exec_op,
    prep_queue, prepared, session_written, link_security, server_mtu, link_mtu, indication,
    ga_requests, ga_responses, ga_writer, ga_timer, ga_stale, ga_user, ga_freed, ga_call, ga_log,
    ga_told, ga_peer, ga_asleep,
    gb_callbacks, gb_track, gb_requests, gb_handlers, gb_call, gb_log, gb_freed, gb_mtu, gb_buflen,
    gb_alloc,
    gp_kind, gp_peer, gp_len, gp_start, gp_end, gp_asked, gp_found, gp_size, gp_requests, gp_err,
    gp_told, gp_cancelled, gp_cut, gp_prepared, gp_written

Bearer  == INSTANCE Att
Helpers == INSTANCE GattHelpers
Writes  == INSTANCE GattClientWrites
Notify  == INSTANCE GattClientNotify WITH notify_list <- client_notify_list
Client  == INSTANCE GattClient
Db      == INSTANCE GattDb WITH MaxHandle <- LastHandle
Server  == INSTANCE GattServer
Attrib4 == INSTANCE GAttrib4
Attrib  == INSTANCE GAttrib
Procs   == INSTANCE GattProcedures

ASSUME ConstantsAssumption ==
    /\ Bearer!ConstantsOK /\ Helpers!ConstantsOK /\ Writes!ConstantsOK /\ Notify!ConstantsOK /\ Client!ConstantsOK
    /\ Db!ConstantsOK /\ Server!ConstantsOK /\ Attrib4!ConstantsOK /\ Attrib!ConstantsOK /\ Procs!ConstantsOK

attVars      == <<io, refs, req_queue, ind_queue, write_queue, pending_req, pending_ind,
                  writer_active, in_req, security, io_on_l2cap, notify_list, disconn_list,
                  att_timers, att_cb, att_log>>
helperVars   == <<database, strict, kind, start_handle, end_handle, first_handle, results,
                  asked_from, toRead, att_holds, op_id, ref_count, caller_ref, outcome, calls,
                  cancelled, att_mtu>>
writeVars    == <<reqs, pending_requests, long_write_queue, in_long_write, session, att_ops,
                  att_up, peer_prepared, peer_written, slips>>
notifyVars   == <<has_ccc, can_notify, in_changed, notify_data, client_notify_list, notify_count,
                  ccc_write_id, reg_notify_queue, ccc_ops, ccc_value, notify_up, notified,
                  notify_slips>>
clientVars   == <<peer_db, client_db, stage, disc_op, pending_svcs, svcs, cur_svc,
                  pending_chrcs, ext_prop_desc, in_init, ready, ready_told, in_svc_chngd,
                  svc_chngd_queue, registered, indicated, changed_told, client_up,
                  primary_failed>>
dbVars       == <<services, next_handle, notify_id, observed, access, enclosed, wrapped, stray>>
serverVars   == <<server, outstanding, answers, listed, response, pending_read_op,
                  pending_write_op, exec_op, prep_queue, prepared, session_written,
                  link_security, server_mtu, link_mtu, indication>>
gattrib4Vars == <<ga_requests, ga_responses, ga_writer, ga_timer, ga_stale, ga_user, ga_freed,
                  ga_call, ga_log, ga_told, ga_peer, ga_asleep>>
gattribVars  == <<gb_callbacks, gb_track, gb_requests, gb_handlers, gb_call, gb_log, gb_freed,
                  gb_mtu, gb_buflen, gb_alloc>>
procVars     == <<gp_kind, gp_peer, gp_len, gp_start, gp_end, gp_asked, gp_found, gp_size,
                  gp_requests, gp_err, gp_told, gp_cancelled, gp_cut, gp_prepared, gp_written>>
vars == <<engine, attVars, helperVars, writeVars, notifyVars, clientVars, dbVars, serverVars, gattrib4Vars, gattribVars,
          procVars>>

\* The part that runs is in one of its initial states, the others in a fixed one.
Init ==
    /\ engine \in Engines
    /\ Bearer!Init /\ (engine # "att" => io_on_l2cap)
    /\ Helpers!Init /\ (engine # "helpers" => database = CHOOSE d \in Databases : TRUE)
    /\ Writes!Init
    /\ Notify!Init /\ (engine # "notify" => has_ccc /\ can_notify)
    /\ Client!Init /\ (engine # "client" => peer_db = (CHOOSE p \in Peers : TRUE) /\ stage = "primary")
    /\ Db!Init
    /\ Server!Init /\ (engine # "server" => server_mtu = 1)
    /\ Attrib4!Init
    /\ Attrib!Init /\ (engine # "gattrib" => gb_mtu = MaxMtu)
    /\ Procs!Init

BearerStep   == /\ engine = "att" /\ Bearer!Next
                /\ UNCHANGED <<engine, helperVars, writeVars, notifyVars, clientVars, dbVars, serverVars, gattrib4Vars, gattribVars, procVars>>
HelpersStep  == /\ engine = "helpers" /\ Helpers!Next
                /\ UNCHANGED <<engine, attVars, writeVars, notifyVars, clientVars, dbVars, serverVars, gattrib4Vars, gattribVars, procVars>>
WritesStep   == /\ engine = "writes" /\ Writes!Next
                /\ UNCHANGED <<engine, attVars, helperVars, notifyVars, clientVars, dbVars, serverVars, gattrib4Vars, gattribVars, procVars>>
NotifyStep   == /\ engine = "notify" /\ Notify!Next
                /\ UNCHANGED <<engine, attVars, helperVars, writeVars, clientVars, dbVars, serverVars, gattrib4Vars, gattribVars, procVars>>
ClientStep   == /\ engine = "client" /\ Client!Next
                /\ UNCHANGED <<engine, attVars, helperVars, writeVars, notifyVars, dbVars, serverVars, gattrib4Vars, gattribVars, procVars>>
DbStep       == /\ engine = "db" /\ Db!Next
                /\ UNCHANGED <<engine, attVars, helperVars, writeVars, notifyVars, clientVars, serverVars, gattrib4Vars, gattribVars, procVars>>
ServerStep   == /\ engine = "server" /\ Server!Next
                /\ UNCHANGED <<engine, attVars, helperVars, writeVars, notifyVars, clientVars, dbVars, gattrib4Vars, gattribVars, procVars>>
Attrib4Step  == /\ engine = "gattrib4" /\ Attrib4!Next
                /\ UNCHANGED <<engine, attVars, helperVars, writeVars, notifyVars, clientVars, dbVars, serverVars, gattribVars, procVars>>
AttribStep   == /\ engine = "gattrib" /\ Attrib!Next
                /\ UNCHANGED <<engine, attVars, helperVars, writeVars, notifyVars, clientVars, dbVars, serverVars, gattrib4Vars, procVars>>
ProcsStep    == /\ engine = "procedures" /\ Procs!Next
                /\ UNCHANGED <<engine, attVars, helperVars, writeVars, notifyVars, clientVars, dbVars, serverVars, gattrib4Vars, gattribVars>>

Next == \/ BearerStep \/ HelpersStep \/ WritesStep \/ NotifyStep \/ ClientStep \/ DbStep \/ ServerStep
        \/ Attrib4Step \/ AttribStep \/ ProcsStep

Spec == Init /\ [][Next]_vars

-----------------------------------------------------------------------------
(* Properties of all parts *)

\* Types of every part.
TypeOK ==
    /\ engine \in Engines
    /\ CASE engine = "att" -> Bearer!TypeOK [] engine = "helpers" -> Helpers!TypeOK
         [] engine = "writes" -> Writes!TypeOK [] engine = "notify" -> Notify!TypeOK
         [] engine = "client" -> Client!TypeOK [] engine = "db" -> Db!TypeOK
         [] engine = "server" -> Server!TypeOK [] engine = "gattrib4" -> Attrib4!TypeOK
         [] engine = "gattrib" -> Attrib!TypeOK [] engine = "procedures" -> Procs!TypeOK

\* Whoever asked for something is told once how it went and what was kept for it is freed
\* once, whether it is answered, fails, times out, is cancelled or the link is lost, and in
\* whatever order that happens; in callbacks as well.
CompletedOnce ==
    /\ engine = "att" => Bearer!CompletedOnce
    /\ engine = "helpers" => Helpers!CompletedOnce
    /\ engine = "writes" => Writes!CompletedOnce
    /\ engine = "notify" => Notify!CompletedOnce
    /\ engine = "client" => Client!ToldOnce
    /\ engine = "db" => Db!CompletedOnce
    /\ engine = "server" => Server!AnsweredOnce /\ Server!IndicationTold
    /\ engine = "gattrib4" => Attrib4!CompletedOnce
    /\ engine = "gattrib" => Attrib!CompletedOnce
    /\ engine = "procedures" => Procs!CompletedOnce

\* No wake-up is lost: what can be sent has a writer that will send it, what was sent has a
\* timer that runs, and what waits for something else waits for something that is there.
NothingWaits ==
    /\ engine = "att" => Bearer!NothingWaits
    /\ engine = "writes" => Writes!NothingWaits
    /\ engine = "notify" => Notify!NothingWaits
    /\ engine = "gattrib4" => Attrib4!NothingWaits

\* However a list is divided into answers, who asked for it gets all of it, in order and
\* once: the procedures, whose requests each start behind what was found, the client that
\* reports that it is ready or what has changed, and whoever asks the server.  An answer is
\* given to the request it belongs to.
ListsWhole ==
    /\ engine = "helpers" => Helpers!FoundAll /\ Helpers!SearchAdvances
    /\ engine = "client" => Client!ReadyMeansDiscovered /\ Client!ChangesReported
    /\ engine = "server" => Server!ListsWhole
    /\ engine = "gattrib4" => Attrib4!AnswersBelong
    /\ engine = "procedures" => Procs!FoundAll /\ Procs!SearchAdvances

\* A value that is written in several parts and reported as written was written once and
\* whole; one that has failed was written at most in part, from its beginning: by the
\* clients that prepare and execute it, and by the server that is told to.  One that is
\* read in several parts without an error is the whole value.
WritesWhole ==
    /\ engine = "writes" => Writes!LongWritesWhole
    /\ engine = "server" => Server!PreparedWritesWhole
    /\ engine = "procedures" => Procs!WriteWhole /\ Procs!ReadWhole

\* The parts are within their types.  What two places keep about the same thing agrees: the handlers and the CCC of the peer,
\* the services and their handles, the attributes and what the queries find, the observers
\* and what they were told, and GAttrib's structures and those that bt_att holds.
RecordsAgree ==
    /\ TypeOK
    /\ engine = "notify" => Notify!NotificationsAgree
    /\ engine = "db" => Db!ServicesApart /\ Db!QueriesAgree /\ Db!ObserversAgree
    /\ engine = "gattrib" => Attrib!HandlersLive /\ Attrib!BufferFits

-----------------------------------------------------------------------------
(* What a comment says and the code does not keep up *)

\* "we avoid interleaving prepared writes": exec_write_cb starts a long write that is not
\* marked, and the next one is prepared at the same time.
PreparedApart == engine = "writes" => Writes!NotInterleaved
===============================================================================
