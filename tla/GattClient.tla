----------------------------- MODULE GattClient ------------------------------
(***************************************************************************)
(* How struct bt_gatt_client of bluez5 (src/shared/gatt-client.c) fills    *)
(* its database: MTU exchange, primary and secondary services, included    *)
(* services, characteristics and descriptors, one service after the other, *)
(* at the start and again for every range of handles that the peer says    *)
(* has changed.  Each search is one procedure of GattHelpers, which        *)
(* returns all there is in the range, nothing, or an error; reads and the  *)
(* registration for Service Changed are the other two client modules.      *)
(*                                                                         *)
(* A service lies in one of the slots 1..Slots, which stand for disjoint   *)
(* ranges of handles in order.                                             *)
(***************************************************************************)
EXTENDS Integers, Sequences, FiniteSets, SequencesExt

CONSTANTS
    Slots,
    Services,       \* [uuid, primary, single, incl, chrcs]: incl is the slot it includes or 0
    Peers,          \* what a peer may hold: functions from slots to services or NoService
    MaxChanges,     \* bound: changes of the services of the peer
    LinkTypes       \* subset of {"LE", "BREDR"}

NoService == [uuid |-> "none", primary |-> FALSE, single |-> FALSE, incl |-> 0, chrcs |-> <<>>]
Absent    == [svc |-> NoService, active |-> FALSE, incl |-> FALSE, chrcs |-> 0, descs |-> 0]
NoOp      == [kind |-> "none", start |-> 0, end |-> 0, last |-> 0, success |-> FALSE]

VARIABLES
    peer_db,
    client_db,              \* the services of struct gatt_db, by slot
    stage,                  \* the procedure that is out
    disc_op,                \* struct discovery_op: kind is "init" or "changed"
    pending_svcs, svcs, cur_svc, pending_chrcs, ext_prop_desc,
    in_init, ready, ready_told,
    in_svc_chngd, svc_chngd_queue,
    registered,             \* the handler of Service Changed: "no", "asked" or, once its CCC was
                            \* written, "yes" (svc_chngd_ind_id and svc_chngd_registered)
    indicated,              \* Service Changed indications received, in order
    changed_told,           \* ranges reported to the upper layer, in order
    client_up, primary_failed

work       == <<pending_svcs, svcs, cur_svc, pending_chrcs, ext_prop_desc>>
flags      == <<in_init, ready, ready_told>>
changes    == <<in_svc_chngd, svc_chngd_queue, indicated, changed_told>>
clientVars == <<peer_db, client_db, stage, disc_op, work, flags, changes, registered, client_up, primary_failed>>

ConstantsOK == Slots \in Nat \ {0} /\ MaxChanges \in Nat /\ Peers \subseteq [1..Slots -> Services \cup {NoService}]

Cleared(db, from, to) == [s \in 1..Slots |-> IF s \in from..to THEN Absent ELSE db[s]]

\* gatt_client_init: the exchange of the MTU is only for LE links, and only for another MTU.
Init ==
    /\ peer_db \in Peers /\ client_db = [s \in 1..Slots |-> Absent]
    /\ \E type \in LinkTypes, default \in BOOLEAN : stage = IF type = "BREDR" \/ default THEN "primary" ELSE "mtu"
    /\ disc_op = [NoOp EXCEPT !.kind = "init", !.start = 1, !.end = Slots]
    /\ pending_svcs = <<>> /\ svcs = <<>> /\ cur_svc = 0 /\ pending_chrcs = <<>> /\ ext_prop_desc = 0
    /\ in_init = TRUE /\ ready = FALSE /\ ready_told = <<>>
    /\ in_svc_chngd = FALSE /\ svc_chngd_queue = <<>> /\ indicated = <<>> /\ changed_told = <<>>
    /\ registered = "no" /\ client_up = TRUE /\ primary_failed = FALSE

-----------------------------------------------------------------------------
(* The end of a discovery *)

\* notify_client_ready: a client that is ready is not told again.
Tells(success) ==
    IF ready THEN UNCHANGED <<ready, ready_told>>
    ELSE ready' = success /\ ready_told' = Append(ready_told, success)

HasServiceChanged(db) == \E s \in 1..Slots : db[s].active /\ db[s].svc.uuid = "gatt"

\* register_service_changed: with the characteristic in the database and no handler yet, the
\* registration of one is started; without a link it cannot be.
RegisterFails(db)  == registered = "no" /\ HasServiceChanged(db) /\ ~client_up
NowRegistered(db)  == IF registered = "no" /\ HasServiceChanged(db) /\ client_up THEN "asked" ELSE registered

StartChanged(range) ==
    /\ disc_op' = [NoOp EXCEPT !.kind = "changed", !.start = range[1], !.end = range[2]]
    /\ stage' = "primary" /\ in_svc_chngd' = TRUE
    /\ pending_svcs' = <<>> /\ svcs' = <<>> /\ cur_svc' = 0 /\ pending_chrcs' = <<>> /\ ext_prop_desc' = 0

NoWork ==
    /\ disc_op' = NoOp /\ stage' = "idle"
    /\ pending_svcs' = <<>> /\ svcs' = <<>> /\ cur_svc' = 0 /\ pending_chrcs' = <<>> /\ ext_prop_desc' = 0

\* That the client is ready is reported at once, before the registration is answered.
init_complete(db, success) ==
    /\ client_db' = IF success /\ ~RegisterFails(db) THEN db ELSE Cleared(db, 1, Slots)
    /\ in_init' = FALSE /\ Tells(success /\ ~RegisterFails(db))
    /\ registered' = IF success THEN NowRegistered(db) ELSE registered
    /\ NoWork
    /\ UNCHANGED changes

\* The upper layer is told; then the next change is processed, if there is one.
service_changed_complete(db, success, ecode) ==
    LET after == IF success THEN db ELSE Cleared(db, disc_op.start, disc_op.end)
        queue == svc_chngd_queue
    IN
    /\ client_db' = after
    /\ changed_told' = Append(changed_told, <<disc_op.start, disc_op.end>>)
    /\ IF queue # <<>> /\ client_up
       THEN StartChanged(Head(queue)) /\ svc_chngd_queue' = Tail(queue) /\ UNCHANGED registered
       ELSE /\ NoWork /\ in_svc_chngd' = FALSE
            /\ svc_chngd_queue' = IF queue = <<>> THEN queue ELSE Tail(queue)
            /\ registered' = IF queue = <<>> THEN NowRegistered(after) ELSE registered
    /\ UNCHANGED <<flags, indicated>>

\* Reset remaining range: on success what lies behind the last service found is removed, up
\* to the end of the database; on failure all of it is.
discovery_op_complete(db, last, success, ecode) ==
    LET rest == IF success THEN Cleared(db, last + 1, Slots) ELSE Cleared(db, 1, Slots) IN
    /\ IF disc_op.kind = "init" THEN init_complete(rest, success) ELSE service_changed_complete(rest, success, ecode)
    /\ UNCHANGED <<peer_db, client_up>>

-----------------------------------------------------------------------------
(* The steps from one procedure to the next *)

\* The next procedure is out, unless the link is gone.
Proceed(st, db, op, pend, todo, cur, chrcs, ext) ==
    IF client_up
    THEN /\ stage' = st /\ client_db' = db /\ disc_op' = op /\ pending_svcs' = pend /\ svcs' = todo
         /\ cur_svc' = cur /\ pending_chrcs' = chrcs /\ ext_prop_desc' = ext
         /\ UNCHANGED <<peer_db, flags, changes, registered, client_up>>
    ELSE discovery_op_complete(db, op.last, FALSE, "none")

\* Mutant of NextService: the service that is done is not made active.
NextServiceInactive(db, todo) ==
    LET rest == SelectSeq(todo, LAMBDA s : ~db[s].svc.single) IN
    IF rest = <<>> THEN discovery_op_complete(db, disc_op.last, TRUE, "none")
    ELSE Proceed("chrcs", db, disc_op, <<>>, Tail(rest), Head(rest), <<>>, 0)

\* The service is done; services of a single handle are passed over.
NextService(db, todo) ==
    LET done == [db EXCEPT ![cur_svc].active = TRUE]
        rest == SelectSeq(todo, LAMBDA s : ~db[s].svc.single)
    IN
    IF rest = <<>> THEN discovery_op_complete(done, disc_op.last, TRUE, "none")
    ELSE Proceed("chrcs", done, disc_op, <<>>, Tail(rest), Head(rest), <<>>, 0)

\* Characteristics are inserted up to the first that has room for descriptors.
discover_descs(db, chrcs) ==
    LET plain == SelectInSeq(chrcs, LAMBDA c : c # "plain")
        n     == IF plain = 0 THEN Len(chrcs) ELSE plain
        more  == [db EXCEPT ![cur_svc].chrcs = @ + n]
    IN
    IF plain = 0 THEN NextService(more, svcs)
    ELSE Proceed("descs", more, disc_op, <<>>, svcs, cur_svc, SubSeq(chrcs, plain, Len(chrcs)), 0)

\* Included services first, for every service; services of one handle are passed over.
NextIncluded(db, pend, todo) ==
    LET i    == SelectInSeq(pend, LAMBDA s : ~db[s].svc.single)
        all  == todo \o (IF i = 0 THEN pend ELSE SubSeq(pend, 1, i))
    IN
    IF i # 0 THEN Proceed("included", db, disc_op, SubSeq(pend, i + 1, Len(pend)), all, pend[i], <<>>, 0)
    ELSE Proceed("chrcs", db, disc_op, <<>>, Tail(all), Head(all), <<>>, 0)

-----------------------------------------------------------------------------
(* The callbacks.  answer: "found", "not_found", "error" (a link that is gone included)     *)

Peer(answer) == answer # "error" => client_up
\* Does the peer answer so, given whether it has what it is asked for?
Answers(answer, there) == Peer(answer) /\ (answer = "error" \/ (answer = "found") = there)

exchange_mtu_cb(answer) ==
    /\ stage = "mtu" /\ Peer(answer)
    /\ IF answer = "found" \/ (answer = "unsupported" /\ client_up)
       THEN Proceed("primary", client_db, disc_op, <<>>, <<>>, 0, <<>>, 0)
       ELSE /\ in_init' = FALSE /\ Tells(FALSE) /\ NoWork /\ client_db' = Cleared(client_db, 1, Slots)
            /\ UNCHANGED <<peer_db, changes, registered, client_up>>
    /\ UNCHANGED primary_failed

\* The services of a kind that the peer has in the range of the operation.
Found(primary) == {s \in disc_op.start..disc_op.end : peer_db[s] # NoService /\ peer_db[s].primary = primary}
\* gatt_db_insert_service keeps a service of the same identity, and what overlaps is removed.
Inserted(found) ==
    [s \in 1..Slots |-> IF s \in found /\ (client_db[s].svc.uuid # peer_db[s].uuid \/ client_db[s].svc.primary # peer_db[s].primary)
                        THEN [Absent EXCEPT !.svc = peer_db[s]] ELSE client_db[s]]
\* Services that are active already are not discovered again.
ToDiscover(found)  == SelectSeq(SetToSortSeq(found, <), LAMBDA s : ~Inserted(found)[s].active)
LastOf(found)      == CHOOSE n \in found \cup {disc_op.last} : \A s \in found \cup {disc_op.last} : s <= n

\* Any error counts as an empty answer.
discover_primary_cb(answer) ==
    LET found == IF answer = "found" THEN Found(TRUE) ELSE {}
        pend  == pending_svcs \o ToDiscover(found)
        op    == [disc_op EXCEPT !.last = LastOf(found)]
    IN
    /\ stage = "primary" /\ Answers(answer, Found(TRUE) # {})
    /\ IF pend = <<>> THEN discovery_op_complete(Inserted(found), op.last, TRUE, "none")
       ELSE Proceed("secondary", Inserted(found), op, pend, <<>>, 0, <<>>, 0)
    /\ primary_failed' = (primary_failed \/ answer = "error")

discover_secondary_cb(answer) ==
    LET found == IF answer = "found" THEN Found(FALSE) ELSE {}
        pend  == pending_svcs \o ToDiscover(found)
        op    == [disc_op EXCEPT !.last = LastOf(found)]
        db    == Inserted(found)
    IN
    /\ stage = "secondary" /\ Answers(answer, Found(FALSE) # {})
    /\ IF answer = "error" THEN discovery_op_complete(client_db, disc_op.last, FALSE, "other")
       ELSE Proceed("included", db, op, Tail(pend), <<Head(pend)>>, Head(pend), <<>>, 0)
    /\ UNCHANGED primary_failed

\* The service that is included has to be in the database.
discover_incl_cb(answer) ==
    LET incl == client_db[cur_svc].svc.incl
        db   == IF answer = "found" THEN [client_db EXCEPT ![cur_svc].incl = TRUE] ELSE client_db
    IN
    /\ stage = "included" /\ Answers(answer, incl # 0)
    /\ IF answer = "error" \/ (answer = "found" /\ client_db[incl] = Absent)
       THEN discovery_op_complete(client_db, disc_op.last, FALSE, "other")
       ELSE NextIncluded(db, pending_svcs, svcs)
    /\ UNCHANGED primary_failed

discover_chrcs_cb(answer) ==
    LET chrcs == client_db[cur_svc].svc.chrcs IN
    /\ stage = "chrcs" /\ Answers(answer, chrcs # <<>>)
    /\ CASE answer = "error"     -> discovery_op_complete(client_db, disc_op.last, FALSE, "other")
         [] answer = "not_found" -> NextService(client_db, svcs)
         [] answer = "found"     -> discover_descs(client_db, chrcs)
    /\ UNCHANGED primary_failed

\* An extended properties descriptor is read before the next characteristic.
discover_descs_cb(answer) ==
    LET db == IF answer = "found" THEN [client_db EXCEPT ![cur_svc].descs = @ + 1] ELSE client_db IN
    /\ stage = "descs" /\ Answers(answer, Head(pending_chrcs) # "room")
    /\ IF answer = "error" THEN discovery_op_complete(client_db, disc_op.last, FALSE, "other")
       ELSE IF Head(pending_chrcs) = "ext" /\ client_up
       THEN Proceed("ext", db, disc_op, <<>>, svcs, cur_svc, pending_chrcs, 1)
       ELSE discover_descs(db, Tail(pending_chrcs))
    /\ UNCHANGED primary_failed

\* The callback reads the value before anything else; when the read has failed there is none
\* and the process ends.
ext_prop_read_cb ==
    /\ stage = "ext"
    /\ \/ client_up /\ discover_descs(client_db, Tail(pending_chrcs))
       \/ stage' = "crashed" /\ UNCHANGED <<peer_db, client_db, disc_op, work, flags, changes, registered, client_up>>
    /\ UNCHANGED primary_failed

-----------------------------------------------------------------------------
(* Service Changed, and the link *)

PeerChange(slot, svc) ==
    /\ client_up /\ ~in_init /\ stage # "crashed" /\ Len(indicated) < MaxChanges /\ peer_db[slot] # svc
    /\ peer_db' = [peer_db EXCEPT ![slot] = svc]

\* Mutant of service_changed_cb: a search that is out is not waited for.
service_changed_cb_at_once(slot, svc, start) ==
    /\ PeerChange(slot, svc) /\ registered # "no" /\ start <= slot
    /\ indicated' = Append(indicated, <<start, slot>>)
    /\ StartChanged(<<start, slot>>)
    /\ UNCHANGED <<svc_chngd_queue, client_db, flags, registered, changed_told, client_up, primary_failed>>

\* The indication of a change of the range that ends in the slot.
service_changed_cb(slot, svc, start) ==
    /\ PeerChange(slot, svc) /\ registered # "no" /\ start <= slot
    /\ indicated' = Append(indicated, <<start, slot>>)
    /\ IF ~in_svc_chngd THEN StartChanged(<<start, slot>>) /\ UNCHANGED svc_chngd_queue
       ELSE /\ svc_chngd_queue' = Append(svc_chngd_queue, <<start, slot>>)
            /\ UNCHANGED <<disc_op, stage, work, in_svc_chngd>>
    /\ UNCHANGED <<client_db, flags, registered, changed_told, client_up, primary_failed>>

\* The write of the CCC is answered: an error takes the handler back; a client that was
\* already reported as ready is not told.
service_changed_register_cb(ok) ==
    /\ registered = "asked" /\ stage # "crashed" /\ (ok => client_up)
    /\ registered' = IF ok THEN "yes" ELSE "no"
    /\ Tells(ok)
    /\ UNCHANGED <<peer_db, client_db, stage, disc_op, work, in_init, changes, client_up, primary_failed>>

\* Att answers what is out with errors, and then calls att_disconnect_cb.
LinkLost ==
    /\ client_up /\ stage # "crashed" /\ client_up' = FALSE
    /\ UNCHANGED <<peer_db, client_db, stage, disc_op, work, flags, changes, registered, primary_failed>>

att_disconnect_cb ==
    /\ ~client_up /\ stage = "idle" /\ registered # "asked" /\ (ready \/ in_init)
    /\ in_init' = FALSE /\ ready' = FALSE
    /\ ready_told' = IF in_init THEN Append(ready_told, FALSE) ELSE ready_told
    /\ UNCHANGED <<peer_db, client_db, stage, disc_op, work, changes, registered, client_up, primary_failed>>

Next ==
    \/ \E answer \in {"found", "unsupported", "error"} : exchange_mtu_cb(answer)
    \/ \E answer \in {"found", "not_found", "error"} :
          \/ discover_primary_cb(answer) \/ discover_secondary_cb(answer) \/ discover_incl_cb(answer)
          \/ discover_chrcs_cb(answer) \/ discover_descs_cb(answer)
    \/ ext_prop_read_cb
    \/ \E slot, start \in 1..Slots, svc \in Services \cup {NoService} : service_changed_cb(slot, svc, start)
    \/ \E ok \in BOOLEAN : service_changed_register_cb(ok)
    \/ LinkLost \/ att_disconnect_cb

-----------------------------------------------------------------------------
(* Properties *)

\* The database has the slots of the peer, and what is still to be searched is one of them.
TypeOK ==
    /\ DOMAIN client_db = 1..Slots /\ cur_svc \in 0..Slots
    /\ stage \in {"idle", "mtu", "primary", "secondary", "included", "chrcs", "descs", "ext", "crashed"}
    /\ registered \in {"no", "asked", "yes"}
    /\ pending_svcs \in Seq(1..Slots) /\ svcs \in Seq(1..Slots)
    /\ ready_told \in Seq(BOOLEAN)

Whole(slot) ==
    LET svc == peer_db[slot] IN
    client_db[slot] = [svc |-> svc, active |-> TRUE, incl |-> svc.incl # 0, chrcs |-> Len(svc.chrcs),
                       descs |-> Len(SelectSeq(svc.chrcs, LAMBDA c : c \in {"desc", "ext"}))]

Discovered(slot) ==
    /\ peer_db[slot] = NoService => client_db[slot] = Absent
    /\ peer_db[slot] # NoService /\ ~peer_db[slot].single /\ (\E s \in 1..Slots : peer_db[s].primary) => Whole(slot)

\* A client that reports that it is ready has found every service of the peer with all its
\* included services, characteristics and descriptors.  Services of a single handle are
\* stored and may stay inactive.  It is not so after an error in the search for primary
\* services, which discover_primary_cb takes for an empty answer, and after a change of the
\* services, for which discovery_op_complete forgets services outside the range as well.
ReadyMeansDiscovered ==
    ready /\ indicated = <<>> /\ ~primary_failed => \A slot \in 1..Slots : Discovered(slot)

\* The changes that were indicated are reported to the upper layer, each once and in the order
\* they came, those that came during the search for another one included.
ChangesReported ==
    client_up => indicated = changed_told \o (IF in_svc_chngd THEN <<<<disc_op.start, disc_op.end>>>> ELSE <<>>) \o svc_chngd_queue

\* The caller of bt_gatt_client_new is told once how the start went, and not before its end,
\* which is the sending of the registration for Service Changed and not the answer to it.
ToldOnce ==
    /\ Len(ready_told) <= 1
    /\ in_init => ready_told = <<>>
    /\ ~in_init => ready_told # <<>>
=============================================================================
