-------------------------- MODULE GattClientNotify ---------------------------
(***************************************************************************)
(* Notifications in struct bt_gatt_client of bluez5                        *)
(* (src/shared/gatt-client.c): handlers registered for one characteristic, *)
(* the writes of its client configuration (CCC) that turn notifications on *)
(* for the first handler and off after the last, and the registrations     *)
(* that wait for such a write.  Att answers the writes in order.           *)
(***************************************************************************)
EXTENDS Integers, Sequences, FiniteSets, SequencesExt

CONSTANT MaxNotify          \* bound: calls of register_notify

VARIABLES
    has_ccc,                \* does the characteristic have a CCC descriptor?
    can_notify,             \* do its properties allow notifications or indications?
    in_changed,             \* in_svc_chngd: services are being discovered again
    notify_data,            \* struct notify_data, by id
    notify_list,            \* ids, in the order they registered
    notify_count, ccc_write_id, reg_notify_queue,       \* struct notify_chrc
    ccc_ops,                \* writes of the CCC that Att holds, in order
    ccc_value,              \* the CCC of the peer
    notify_up,
    notified,               \* per id, notifications that reached its handler
    notify_slips            \* what has happened that the client does not undo

notifyVars == <<has_ccc, can_notify, in_changed, notify_data, notify_list, notify_count, ccc_write_id, reg_notify_queue,
                ccc_ops, ccc_value, notify_up, notified, notify_slips>>

Ids  == 1..MaxNotify
None == [known |-> FALSE, ref |-> 0, att_id |-> 0, told |-> <<>>, registered |-> FALSE, destroyed |-> 0]
ConstantsOK == MaxNotify \in Nat

Init ==
    /\ has_ccc \in BOOLEAN /\ can_notify \in BOOLEAN /\ in_changed = FALSE
    /\ notify_data = [i \in Ids |-> None] /\ notify_list = <<>>
    /\ notify_count = 0 /\ ccc_write_id = 0 /\ reg_notify_queue = <<>>
    /\ ccc_ops = <<>> /\ ccc_value = FALSE /\ notify_up = TRUE
    /\ notified = [i \in Ids |-> 0] /\ notify_slips = {}

-----------------------------------------------------------------------------
(* The client while a function runs *)

Client == [data |-> notify_data, list |-> notify_list, count |-> notify_count, writing |-> ccc_write_id,
           queue |-> reg_notify_queue, ops |-> ccc_ops]
Becomes(c) ==
    /\ notify_data' = c.data /\ notify_list' = c.list /\ notify_count' = c.count
    /\ ccc_write_id' = c.writing /\ reg_notify_queue' = c.queue /\ ccc_ops' = c.ops

notify_data_unref(c, id) ==
    IF c.data[id].ref > 1 THEN [c EXCEPT !.data[id].ref = @ - 1]
    ELSE [c EXCEPT !.data[id] = [@ EXCEPT !.ref = 0, !.destroyed = @ + 1]]

\* Does notify_data_write_ccc return true?
WritesCcc(enable) == notify_up /\ (enable => can_notify)

\* What the characteristic cannot do is not asked for.  Without a link the write cannot be
\* sent, and the ids are 0.
notify_data_write_ccc(c, id, enable) ==
    IF enable /\ ~can_notify THEN c
    ELSE IF notify_up
    THEN [c EXCEPT !.ops = Append(@, [id |-> id, enable |-> enable]),
                   !.data[id] = [@ EXCEPT !.ref = @ + 1, !.att_id = 1], !.writing = 1]
    ELSE [c EXCEPT !.data[id] = [@ EXCEPT !.ref = @ + 1, !.att_id = 0], !.writing = 0]

complete_notify_request(c, id) ==
    [c EXCEPT !.data[id] = [@ EXCEPT !.att_id = 0, !.told = Append(@, "success")]]

Removed(s, id) == SelectSeq(s, LAMBDA i : i # id)

-----------------------------------------------------------------------------
(* Registering *)

NewId == 1 + Cardinality({i \in Ids : notify_data[i].known})

\* The rest of register_notify once the handler is counted, which it stays if the CCC is not
\* written.
Registers(c, id) ==
    IF c.writing # 0 THEN [c EXCEPT !.queue = Append(@, id)]
    ELSE IF c.count > 1 \/ ~has_ccc THEN complete_notify_request(c, id)
    ELSE IF WritesCcc(TRUE) THEN notify_data_write_ccc(c, id, TRUE)
    ELSE [c EXCEPT !.data[id] = [@ EXCEPT !.registered = FALSE, !.ref = 0], !.list = Removed(@, id)]

register_notify ==
    LET id == NewId
        c  == [Client EXCEPT !.data[id] = [None EXCEPT !.known = TRUE, !.ref = 1, !.registered = TRUE],
                             !.list = Append(@, id), !.count = @ + 1]
    IN
    /\ NewId \in Ids /\ ~in_changed
    /\ Becomes(Registers(c, id))
    /\ notify_slips' = notify_slips
         \cup (IF ccc_write_id # 0 /\ ccc_ops # <<>> /\ ~Head(ccc_ops).enable THEN {"registered_while_disabling"} ELSE {})
         \cup (IF ~WritesCcc(TRUE) /\ has_ccc THEN {"not_sent"} ELSE {})
    /\ UNCHANGED <<has_ccc, can_notify, in_changed, ccc_value, notify_up, notified>>

-----------------------------------------------------------------------------
(* Unregistering *)

\* bt_att_cancel destroys the operation that is out, which drops its reference.
bt_att_cancel(c, id) ==
    IF \E o \in Range(c.ops) : o.id = id
    THEN notify_data_unref([c EXCEPT !.ops = SelectSeq(@, LAMBDA o : o.id # id)], id) ELSE c

\* Mutant of complete_unregister_notify: the CCC is written for the last but one.
complete_unregister_notify_early(c, id) ==
    IF c.data[id].att_id # 0
    THEN notify_data_unref([bt_att_cancel(c, id) EXCEPT !.data[id].att_id = 0], id)
    ELSE LET d == [c EXCEPT !.count = @ - 1] IN
         notify_data_unref(IF d.count > 1 \/ ~has_ccc THEN d ELSE notify_data_write_ccc(d, id, FALSE), id)

complete_unregister_notify(c, id) ==
    IF c.data[id].att_id # 0
    THEN notify_data_unref([bt_att_cancel(c, id) EXCEPT !.data[id].att_id = 0], id)
    ELSE LET d == [c EXCEPT !.count = @ - 1] IN
         notify_data_unref(IF d.count # 0 \/ ~has_ccc THEN d ELSE notify_data_write_ccc(d, id, FALSE), id)

bt_gatt_client_unregister_notify(id) ==
    LET c == [Client EXCEPT !.list = Removed(@, id), !.queue = Removed(@, id), !.data[id].registered = FALSE] IN
    /\ id \in Range(notify_list)
    /\ Becomes(complete_unregister_notify(c, id))
    /\ notify_slips' = IF notify_data[id].att_id # 0 THEN notify_slips \cup {"cancelled_enable"} ELSE notify_slips
    /\ UNCHANGED <<has_ccc, can_notify, in_changed, ccc_value, notify_up, notified>>

-----------------------------------------------------------------------------
(* The answers to the writes of the CCC *)

\* The registrations that wait are tried one after the other, until one is written.
enable_ccc_callback_error(c, id) ==
    LET d == [c EXCEPT !.writing = 0, !.list = Removed(@, id),
                       !.data[id] = [@ EXCEPT !.told = Append(@, "error"), !.registered = FALSE]] IN
    IF d.queue = <<>> THEN d
    ELSE IF WritesCcc(TRUE) THEN notify_data_write_ccc([d EXCEPT !.queue = Tail(@)], Head(d.queue), TRUE)
    ELSE FoldLeft(LAMBDA e, i : notify_data_write_ccc(e, i, TRUE), [d EXCEPT !.queue = <<>>], d.queue)

enable_ccc_callback(c, id) ==
    FoldLeft(complete_notify_request, complete_notify_request([c EXCEPT !.writing = 0, !.queue = <<>>], id), c.queue)

\* The first registration that waits is dropped, and the CCC is written for the handler
\* that has unregistered.
disable_ccc_callback(c, id) ==
    LET d == [c EXCEPT !.writing = 0] IN
    IF d.queue = <<>> THEN d
    ELSE IF WritesCcc(TRUE) THEN notify_data_write_ccc([d EXCEPT !.queue = Tail(@)], id, TRUE)
    ELSE FoldLeft(LAMBDA e, i : notify_data_write_ccc(e, id, TRUE), [d EXCEPT !.queue = <<>>], d.queue)

\* ok: the peer has written it; with no link Att answers with an error.
handle_rsp(ok) ==
    LET op == Head(ccc_ops)
        c  == [Client EXCEPT !.ops = Tail(@)]
    IN
    /\ ccc_ops # <<>> /\ (ok => notify_up)
    /\ Becomes(notify_data_unref(IF ~op.enable THEN disable_ccc_callback(c, op.id)
                                 ELSE IF ok THEN enable_ccc_callback(c, op.id)
                                 ELSE enable_ccc_callback_error(c, op.id), op.id))
    /\ ccc_value' = IF ok THEN op.enable ELSE ccc_value
    /\ notify_slips' = IF op.enable /\ ~ok THEN notify_slips \cup {"enable_failed"}
                       ELSE IF ~ok THEN notify_slips \cup {"disable_failed"} ELSE notify_slips
    /\ UNCHANGED <<has_ccc, can_notify, in_changed, notify_up, notified>>

-----------------------------------------------------------------------------
(* Notifications, discovery and the link *)

\* Handlers are called although the write of the CCC is not answered yet.
notify_cb ==
    /\ notify_up /\ (ccc_value \/ ~has_ccc) /\ notify_list # <<>>
    /\ \A id \in Range(notify_list) : notified[id] = 0          \* bound
    /\ notified' = [id \in Ids |-> IF id \in Range(notify_list) THEN 1 ELSE notified[id]]
    /\ UNCHANGED <<has_ccc, can_notify, in_changed, notify_data, notify_list, notify_count, ccc_write_id, reg_notify_queue, ccc_ops, ccc_value, notify_up, notify_slips>>

service_changed ==
    /\ notify_up /\ in_changed' = ~in_changed
    /\ UNCHANGED <<has_ccc, can_notify, notify_data, notify_list, notify_count, ccc_write_id, reg_notify_queue, ccc_ops, ccc_value, notify_up, notified, notify_slips>>

att_disconnect_cb ==
    /\ notify_up /\ notify_up' = FALSE
    /\ UNCHANGED <<has_ccc, can_notify, in_changed, notify_data, notify_list, notify_count, ccc_write_id, reg_notify_queue, ccc_ops, ccc_value, notified, notify_slips>>

Next ==
    \/ register_notify
    \/ \E id \in Ids : bt_gatt_client_unregister_notify(id)
    \/ \E ok \in BOOLEAN : handle_rsp(ok)
    \/ notify_cb \/ service_changed \/ att_disconnect_cb

-----------------------------------------------------------------------------
(* Properties *)

\* References are within their bounds, and what is queued is a registration.
TypeOK ==
    /\ \A i \in Ids : notify_data[i].ref \in 0..4 /\ notify_data[i].destroyed \in 0..1
    /\ notify_list \in Seq(Ids) /\ reg_notify_queue \in Seq(Ids)
    /\ notify_count \in Int /\ ccc_write_id \in 0..1

\* The registered handlers that were told that notifications are on.
Enabled == {id \in Range(notify_list) : notify_data[id].told # <<>> /\ Last(notify_data[id].told) = "success"}

\* While no write of the CCC is out, the peer notifies exactly if a handler was told so,
\* however registrations, their answers and the end of others are interleaved, until one of
\* the things has happened that the client does not undo.  A registration whose write is
\* refused or cannot be made leaves notify_count raised, and the next one is told that
\* notifications are on; one that is unregistered before its write is answered, and one made
\* while the CCC is turned off, see below.
NotificationsAgree ==
    notify_slips = {} /\ has_ccc /\ ccc_ops = <<>> /\ notify_up => (ccc_value <=> Enabled # {})

\* A handler that was told something was told once, and no registration is left waiting for
\* a write that is not out: while none was unregistered before its own write was answered,
\* or registered while the CCC is turned off (disable_ccc_callback takes it out of the queue
\* and writes the CCC for the one that was unregistered), and the link is there (those that
\* wait behind a write are not told that it is lost).
CompletedOnce ==
    notify_up /\ notify_slips \subseteq {"enable_failed", "disable_failed"} =>
        /\ \A id \in Ids : Len(notify_data[id].told) <= 1
        /\ \A id \in Range(notify_list) : notify_data[id].told = <<>> =>
              \/ id \in Range(reg_notify_queue) \/ \E o \in Range(ccc_ops) : o.id = id

\* A registration that waits for the write of the CCC by another one waits for a write that is
\* out, unless the one that wrote was unregistered: complete_unregister_notify cancels the
\* write and leaves the queue as it is.
NothingWaits == "cancelled_enable" \notin notify_slips => (reg_notify_queue # <<>> => ccc_ops # <<>>)
=============================================================================
