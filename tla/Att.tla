--------------------------------- MODULE Att ---------------------------------
(***************************************************************************)
(* struct bt_att of bluez5 (src/shared/att.c): the attribute protocol on   *)
(* one link.  Requests and indications wait in queues of their own, one of *)
(* each may be unanswered, everything else goes through write_queue; a     *)
(* watch on the socket writes and is there only while there is something   *)
(* to write.                                                               *)
(*                                                                         *)
(* All of it runs in the one thread of the main loop.  A handler that      *)
(* calls back has the callback in cb until it returns: the functions of    *)
(* the interface are called from there as well as from the main loop,      *)
(* which takes the next event only when no callback runs.                  *)
(*                                                                         *)
(* Assumed of the callbacks: one that a handler calls without holding a    *)
(* reference does not drop the last one, and one that is called for an     *)
(* entry of a list does not remove the entry that follows it unless the    *)
(* list stays empty.                                                       *)
(***************************************************************************)
EXTENDS Integers, Sequences, FiniteSets, SequencesExt

CONSTANTS
    MaxOps,         \* bound: operations sent
    MaxHandlers     \* bound: handlers in notify_list and disconn_list

VARIABLES
    io,                                     \* "up", "shut" by io_shutdown, "gone": att->io is NULL, "freed"
    refs,                                   \* references of the users
    req_queue, ind_queue, write_queue, pending_req, pending_ind,
    writer_active, in_req,
    security, io_on_l2cap,                  \* level of the link; is it L2CAP?
    notify_list, disconn_list,
    att_timers,                             \* timers that run, as <<operation, number of the timer>>
    att_cb,                                 \* the callback that runs
    att_log                                 \* per operation, calls of its callback and its destroy

queues   == <<req_queue, ind_queue, write_queue>>
pending  == <<pending_req, pending_ind>>
lists    == <<notify_list, disconn_list>>
link     == <<security, io_on_l2cap>>
attVars  == <<io, refs, queues, pending, writer_active, in_req, link, lists, att_timers, att_cb, att_log>>

ConstantsOK == MaxOps \in Nat /\ MaxHandlers \in Nat

-----------------------------------------------------------------------------
(* Operations *)

Requests  == {"MTU_REQ", "READ_REQ"}
Responses == {"MTU_RSP", "READ_RSP", "ERROR_RSP"}

get_op_type(opcode) ==
    CASE opcode \in Requests  -> "REQ"
      [] opcode \in Responses -> "RSP"
      [] opcode = "WRITE_CMD" -> "CMD"
      [] opcode = "VAL_IND"   -> "IND"
      [] opcode = "VAL_NOT"   -> "NOT"
      [] opcode = "VAL_CONF"  -> "CONF"
      [] OTHER                -> "UNKNOWN"

get_req_opcode(rsp) == CASE rsp = "MTU_RSP" -> "MTU_REQ" [] rsp = "READ_RSP" -> "READ_REQ"

\* handlers: the callback and destroy are still set; timer: the timer timeout_id names, 0 for none.
NoOp   == [id |-> 0, opcode |-> "", handlers |-> FALSE, timer |-> 0]
Op     == [id : 1..MaxOps, opcode : Requests \cup {"VAL_IND", "WRITE_CMD", "READ_RSP", "ERROR_RSP"},
           handlers : BOOLEAN, timer : 0..4]
Sent   == Cardinality({i \in 1..MaxOps : att_log[i] # <<"unused">>})
create_att_send_op(opcode) == [id |-> Sent + 1, opcode |-> opcode, handlers |-> TRUE, timer |-> 0]

Elicits(op) == get_op_type(op.opcode) \in {"REQ", "IND"}

\* What the handlers of op still have to be called for, as it is destroyed.
Destroyed(log, op)  == IF op.handlers THEN [log EXCEPT ![op.id] = Append(@, "destroy")] ELSE log
CalledBack(log, op) == IF op.handlers /\ Elicits(op) THEN [log EXCEPT ![op.id] = Append(@, "callback")] ELSE log
DestroyedAll(log, s) == FoldLeft(LAMBDA l, op : Destroyed(l, op), log, s)

TimersWithout(op)   == att_timers \ {<<op.id, op.timer>>}
\* Mutant of cancel_att_send_op: the handlers stay.
cancel_att_send_op_keeps(op) == op

cancel_att_send_op(op) == IF op = NoOp THEN NoOp ELSE [op EXCEPT !.handlers = FALSE]

Init ==
    /\ io = "up" /\ refs = 1
    /\ req_queue = <<>> /\ ind_queue = <<>> /\ write_queue = <<>>
    /\ pending_req = NoOp /\ pending_ind = NoOp
    /\ writer_active = FALSE /\ in_req = FALSE
    /\ security = 1 /\ io_on_l2cap \in BOOLEAN
    /\ notify_list = <<>> /\ disconn_list = <<>>
    /\ att_timers = {} /\ att_cb = [kind |-> "none"]
    /\ att_log = [i \in 1..MaxOps |-> <<"unused">>]

Idle == refs > 0 /\ att_cb.kind = "none"
User == refs > 0                    \* the main loop or a callback of a user that has a reference

-----------------------------------------------------------------------------
(* The writer *)

\* Mutant of wakeup_writer's condition: a pending request stops indications as well.
CanSendNoIndications(req, ind, write, preq, pind) == write # <<>> \/ (preq = NoOp /\ (req # <<>> \/ (pind = NoOp /\ ind # <<>>)))

CanSend(req, ind, write, preq, pind) ==
    write # <<>> \/ (preq = NoOp /\ req # <<>>) \/ (pind = NoOp /\ ind # <<>>)

\* The state of the watch after wakeup_writer.
wakeup_writer(req, ind, write, preq, pind) ==
    writer_active \/ (io # "gone" /\ CanSend(req, ind, write, preq, pind))

pick_next_send_op ==
    IF write_queue # <<>> THEN Head(write_queue)
    ELSE IF pending_req = NoOp /\ req_queue # <<>> THEN Head(req_queue)
    ELSE IF pending_ind = NoOp /\ ind_queue # <<>> THEN Head(ind_queue)
    ELSE NoOp

PopNext ==
    LET op == pick_next_send_op IN
    /\ write_queue' = SelectSeq(write_queue, LAMBDA o : o # op)
    /\ req_queue' = SelectSeq(req_queue, LAMBDA o : o # op)
    /\ ind_queue' = SelectSeq(ind_queue, LAMBDA o : o # op)

\* There is nothing to send: the watch goes and write_watch_destroy notes it.
can_write_data_nothing ==
    /\ Idle /\ writer_active /\ io # "gone" /\ pick_next_send_op = NoOp
    /\ writer_active' = FALSE
    /\ UNCHANGED <<io, refs, queues, pending, in_req, link, lists, att_timers, att_cb, att_log>>

\* A timer no operation of this id has had.
NewTimer(op) == op.timer + 1

can_write_data ==
    LET op == pick_next_send_op  type == get_op_type(op.opcode)
        armed == [op EXCEPT !.timer = NewTimer(op)]
    IN
    /\ Idle /\ writer_active /\ io = "up" /\ op # NoOp
    /\ PopNext
    /\ pending_req' = IF type = "REQ" THEN armed ELSE pending_req
    /\ pending_ind' = IF type = "IND" THEN armed ELSE pending_ind
    /\ att_timers' = IF Elicits(op) THEN att_timers \cup {<<op.id, armed.timer>>} ELSE att_timers
    /\ in_req' = (in_req /\ type # "RSP")
    /\ att_log' = IF Elicits(op) THEN att_log ELSE Destroyed(att_log, op)
    /\ UNCHANGED <<io, refs, writer_active, link, lists, att_cb>>

\* io_send fails: the callback is told, and no reference is held meanwhile.
can_write_data_fails ==
    LET op == pick_next_send_op IN
    /\ Idle /\ writer_active /\ io # "gone" /\ op # NoOp
    /\ PopNext
    /\ att_log' = CalledBack(att_log, op)
    /\ att_cb' = [kind |-> "send_failed", op |-> op]
    /\ UNCHANGED <<io, refs, pending, writer_active, in_req, link, lists, att_timers>>

can_write_data_failed ==
    /\ att_cb.kind = "send_failed"
    /\ att_log' = Destroyed(att_log, att_cb.op)
    /\ att_timers' = TimersWithout(att_cb.op)
    /\ att_cb' = [kind |-> "none"]
    /\ UNCHANGED <<io, refs, queues, pending, writer_active, in_req, link, lists>>

-----------------------------------------------------------------------------
(* Sending and cancelling *)

\* att_log once op, which has not been sent before, is in a queue.
Submit(op) == att_log' = [att_log EXCEPT ![op.id] = <<>>]

\* Puts an operation in the queue of its type.
Queue(op) ==
    LET type == get_op_type(op.opcode) IN
    /\ req_queue' = IF type = "REQ" THEN Append(req_queue, op) ELSE req_queue
    /\ ind_queue' = IF type = "IND" THEN Append(ind_queue, op) ELSE ind_queue
    /\ write_queue' = IF type \notin {"REQ", "IND"} THEN Append(write_queue, op) ELSE write_queue
    /\ Submit(op)
    /\ writer_active' = wakeup_writer(req_queue', ind_queue', write_queue', pending_req, pending_ind)

\* att->io is NULL once the link is gone: nothing is sent.  A PDU longer than the MTU is
\* refused as well, before anything has changed.
bt_att_send(opcode) ==
    /\ User /\ io # "gone" /\ Sent < MaxOps
    /\ Queue(create_att_send_op(opcode))
    /\ UNCHANGED <<io, refs, pending, in_req, link, lists, att_timers, att_cb>>

bt_att_cancel_pending(id) ==
    LET op == IF pending_req.id = id THEN pending_req ELSE pending_ind IN
    /\ User /\ op.id = id
    /\ pending_req' = IF pending_req.id = id THEN cancel_att_send_op(op) ELSE pending_req
    /\ pending_ind' = IF pending_req.id # id THEN cancel_att_send_op(op) ELSE pending_ind
    /\ att_log' = Destroyed(att_log, op)
    /\ UNCHANGED <<io, refs, queues, writer_active, in_req, link, lists, att_timers, att_cb>>

bt_att_cancel_queued(id) ==
    LET Others(q) == SelectSeq(q, LAMBDA o : o.id # id) IN
    /\ User
    /\ \E op \in Range(req_queue) \cup Range(ind_queue) \cup Range(write_queue) :
          /\ op.id = id
          /\ att_log' = Destroyed(att_log, op)
          /\ att_timers' = TimersWithout(op)
    /\ req_queue' = Others(req_queue) /\ ind_queue' = Others(ind_queue) /\ write_queue' = Others(write_queue)
    /\ writer_active' = wakeup_writer(req_queue', ind_queue', write_queue', pending_req, pending_ind)
    /\ UNCHANGED <<io, refs, pending, in_req, link, lists, att_cb>>

bt_att_cancel(id) == bt_att_cancel_pending(id) \/ bt_att_cancel_queued(id)

Queued == req_queue \o ind_queue \o write_queue

bt_att_cancel_all ==
    /\ User /\ (Queued # <<>> \/ pending_req.handlers \/ pending_ind.handlers)
    /\ req_queue' = <<>> /\ ind_queue' = <<>> /\ write_queue' = <<>>
    /\ pending_req' = cancel_att_send_op(pending_req)
    /\ pending_ind' = cancel_att_send_op(pending_ind)
    /\ att_log' = Destroyed(Destroyed(DestroyedAll(att_log, Queued), pending_req), pending_ind)
    /\ att_timers' = att_timers \ {<<op.id, op.timer>> : op \in Range(Queued)}
    /\ UNCHANGED <<io, refs, writer_active, in_req, link, lists, att_cb>>

-----------------------------------------------------------------------------
(* Handlers of the users; an entry is the opcode it is registered for *)

\* The entry that follows the one whose callback runs.
Following == IF "next" \in DOMAIN att_cb THEN att_cb.next ELSE "end"

bt_att_register(opcode) ==
    /\ User /\ io # "gone" /\ Len(notify_list \o disconn_list) < MaxHandlers /\ opcode \notin Range(notify_list)
    /\ att_cb.kind = "notify" => Following \in Range(notify_list) \cup {"end"}
    /\ notify_list' = Append(notify_list, opcode)
    /\ UNCHANGED <<io, refs, queues, pending, writer_active, in_req, link, disconn_list, att_timers, att_cb, att_log>>

bt_att_unregister(opcode) ==
    /\ User /\ opcode \in Range(notify_list)
    /\ att_cb.kind = "notify" => (opcode # Following \/ Len(notify_list) = 1)
    /\ notify_list' = Remove(notify_list, opcode)
    /\ UNCHANGED <<io, refs, queues, pending, writer_active, in_req, link, disconn_list, att_timers, att_cb, att_log>>

bt_att_unregister_all ==
    /\ User /\ (notify_list # <<>> \/ disconn_list # <<>>)
    /\ notify_list' = <<>> /\ disconn_list' = <<>>
    /\ UNCHANGED <<io, refs, queues, pending, writer_active, in_req, link, att_timers, att_cb, att_log>>

bt_att_register_disconnect(h) ==
    /\ User /\ io # "gone" /\ Len(notify_list \o disconn_list) < MaxHandlers /\ h \notin Range(disconn_list)
    /\ disconn_list' = Append(disconn_list, h)
    /\ UNCHANGED <<io, refs, queues, pending, writer_active, in_req, link, notify_list, att_timers, att_cb, att_log>>

bt_att_unregister_disconnect(h) ==
    /\ User /\ h \in Range(disconn_list)
    /\ att_cb.kind = "disconn" => (h # Following \/ Len(disconn_list) = 1)
    /\ disconn_list' = Remove(disconn_list, h)
    /\ UNCHANGED <<io, refs, queues, pending, writer_active, in_req, link, notify_list, att_timers, att_cb, att_log>>

-----------------------------------------------------------------------------
(* Security *)

\* setsockopt may fail; what is not L2CAP only notes the level.  Users are assumed to raise it.
bt_att_set_security(level) ==
    /\ User /\ level > security
    /\ security' = level
    /\ UNCHANGED <<io, refs, queues, pending, writer_active, in_req, io_on_l2cap, lists, att_timers, att_cb, att_log>>

\* The level an error asks for, or the present one if nothing can be done about it.
\* io_sec_level is AUTO on L2CAP, where nobody sets it.
change_security(ecode) ==
    CASE ~io_on_l2cap                                             -> security
      [] ecode = "INSUFFICIENT_ENCRYPTION" /\ security < 2        -> 2
      [] ecode = "AUTHENTICATION" /\ security < 2                 -> 2
      [] ecode = "AUTHENTICATION" /\ security \in 2..3           -> security + 1
      [] OTHER                                                    -> security

-----------------------------------------------------------------------------
(* Reading: the peer sends whatever it likes *)

Ecodes == {"AUTHENTICATION", "INSUFFICIENT_ENCRYPTION", "OTHER"}

io_shutdown == io' = "shut"

\* A request is answered and nothing is unanswered: the link is shut down.
handle_rsp_unexpected ==
    /\ Idle /\ io = "up" /\ pending_req = NoOp
    /\ io_shutdown
    /\ UNCHANGED <<refs, queues, pending, writer_active, in_req, link, lists, att_timers, att_cb, att_log>>

\* An error that better security may cure: the request is first in the queue again.
handle_error_rsp ==
    \E e \in Ecodes :
    /\ Idle /\ io = "up" /\ pending_req # NoOp /\ change_security(e) # security
    /\ security' = change_security(e)
    /\ pending_req' = NoOp
    /\ req_queue' = <<pending_req>> \o req_queue
    /\ writer_active' = wakeup_writer(req_queue', ind_queue, write_queue, NoOp, pending_ind)
    /\ UNCHANGED <<io, refs, ind_queue, write_queue, pending_ind, in_req, io_on_l2cap, lists, att_timers, att_cb, att_log>>

\* A response, also one to another request, which is reported as an error.
handle_rsp ==
    /\ Idle /\ io = "up" /\ pending_req # NoOp
    /\ att_log' = CalledBack(att_log, pending_req)
    /\ att_cb' = [kind |-> "rsp"]
    /\ UNCHANGED <<io, refs, queues, pending, writer_active, in_req, link, lists, att_timers>>

handle_rsp_done ==
    /\ att_cb.kind = "rsp"
    /\ att_log' = Destroyed(att_log, pending_req)
    /\ att_timers' = TimersWithout(pending_req)
    /\ pending_req' = NoOp
    /\ writer_active' = wakeup_writer(req_queue, ind_queue, write_queue, NoOp, pending_ind)
    /\ att_cb' = [kind |-> "none"]
    /\ UNCHANGED <<io, refs, queues, pending_ind, in_req, link, lists>>

handle_conf_unexpected ==
    /\ Idle /\ io = "up"                \* no indication is unanswered, or it has a payload
    /\ io_shutdown
    /\ UNCHANGED <<refs, queues, pending, writer_active, in_req, link, lists, att_timers, att_cb, att_log>>

handle_conf ==
    /\ Idle /\ io = "up" /\ pending_ind # NoOp
    /\ att_log' = CalledBack(att_log, pending_ind)
    /\ att_cb' = [kind |-> "conf"]
    /\ UNCHANGED <<io, refs, queues, pending, writer_active, in_req, link, lists, att_timers>>

\* Mutant of handle_conf_done: nobody wakes the writer up.
handle_conf_asleep ==
    /\ att_cb.kind = "conf"
    /\ att_log' = Destroyed(att_log, pending_ind)
    /\ att_timers' = TimersWithout(pending_ind)
    /\ pending_ind' = NoOp
    /\ att_cb' = [kind |-> "none"]
    /\ UNCHANGED <<io, refs, queues, writer_active, pending_req, in_req, link, lists>>

handle_conf_done ==
    /\ att_cb.kind = "conf"
    /\ att_log' = Destroyed(att_log, pending_ind)
    /\ att_timers' = TimersWithout(pending_ind)
    /\ pending_ind' = NoOp
    /\ writer_active' = wakeup_writer(req_queue, ind_queue, write_queue, pending_req, NoOp)
    /\ att_cb' = [kind |-> "none"]
    /\ UNCHANGED <<io, refs, queues, pending_req, in_req, link, lists>>

\* A second request before the first was answered.
can_read_data_again ==
    /\ Idle /\ io = "up" /\ in_req
    /\ io_shutdown
    /\ UNCHANGED <<refs, queues, pending, writer_active, in_req, link, lists, att_timers, att_cb, att_log>>

opcode_match(h, opcode) == h = opcode \/ (h = "ALL_REQUESTS" /\ get_op_type(opcode) \in {"REQ", "CMD"})

Nth(list, i) == IF i > Len(list) THEN "end" ELSE list[i]

\* The first entry from number i on that opcode is for, and the one that follows it.
Notify(opcode, i) ==
    LET found == {j \in i..Len(notify_list) : opcode_match(notify_list[j], opcode)} IN
    IF found = {} THEN [kind |-> "none"]
    ELSE LET j == CHOOSE j \in found : \A k \in found : j <= k IN
         [kind |-> "notify", opcode |-> opcode, next |-> Nth(notify_list, j + 1)]

\* A request, command, notification or indication, or an opcode nobody knows.  A request
\* nobody is registered for is answered here.  (A command whose signature is wrong ends here.)
handle_notify(opcode) ==
    LET request == get_op_type(opcode) = "REQ" IN
    /\ Idle /\ io = "up" /\ ~(request /\ in_req)
    /\ in_req' = (in_req \/ request)
    /\ att_cb' = Notify(opcode, 1)
    /\ IF request /\ att_cb'.kind = "none"
       THEN Sent < MaxOps /\ Queue(create_att_send_op("ERROR_RSP"))
       ELSE UNCHANGED <<queues, writer_active, att_log>>
    /\ UNCHANGED <<io, refs, pending, link, lists, att_timers>>

handle_notify_next ==
    /\ att_cb.kind = "notify"
    /\ att_cb' = IF notify_list = <<>> \/ att_cb.next = "end" THEN [kind |-> "none"]
                 ELSE Notify(att_cb.opcode, CHOOSE i \in DOMAIN notify_list : notify_list[i] = att_cb.next)
    /\ UNCHANGED <<io, refs, queues, pending, writer_active, in_req, link, lists, att_timers, att_log>>

-----------------------------------------------------------------------------
(* Timeouts *)

\* A timer runs out.  One that belongs to no unanswered operation does nothing.
timeout_cb_stale(t) ==
    /\ Idle /\ t \in att_timers /\ t[1] \notin {pending_req.id, pending_ind.id}
    /\ att_timers' = att_timers \ {t}
    /\ UNCHANGED <<io, refs, queues, pending, writer_active, in_req, link, lists, att_cb, att_log>>

\* timeout_callback is called, not the operation's own, and no reference is held.
timeout_cb(t) ==
    /\ Idle /\ t \in att_timers
    /\ \/ /\ pending_req.id = t[1] /\ pending_req' = NoOp /\ UNCHANGED pending_ind
          /\ att_cb' = [kind |-> "timeout", op |-> pending_req]
       \/ /\ pending_req.id # t[1] /\ pending_ind.id = t[1] /\ pending_ind' = NoOp /\ UNCHANGED pending_req
          /\ att_cb' = [kind |-> "timeout", op |-> pending_ind]
    /\ att_timers' = att_timers \ {t}
    /\ UNCHANGED <<io, refs, queues, writer_active, in_req, link, lists, att_log>>

timeout_cb_done ==
    /\ att_cb.kind = "timeout"
    /\ att_log' = Destroyed(att_log, att_cb.op)
    /\ att_cb' = [kind |-> "none"]
    /\ io' = IF io = "up" THEN "shut" ELSE io
    /\ UNCHANGED <<refs, queues, pending, writer_active, in_req, link, lists, att_timers>>

-----------------------------------------------------------------------------
(* The end *)


\* Nothing is queued any more once att->io is NULL, so what disconnect_cb calls back next is
\* the next operation it took out of a queue (left), the next queue that is not empty, the
\* pending request, the pending indication and at last the disconnect handlers, for which
\* it holds a reference.
disconnect_next(left, log, preq, pind) ==
    LET queue == IF req_queue # <<>> THEN req_queue ELSE IF ind_queue # <<>> THEN ind_queue ELSE write_queue IN
    /\ IF left # <<>> \/ queue = <<>> THEN UNCHANGED queues
       ELSE /\ req_queue' = <<>>
            /\ ind_queue' = IF req_queue = <<>> THEN <<>> ELSE ind_queue
            /\ write_queue' = IF req_queue = <<>> /\ ind_queue = <<>> THEN <<>> ELSE write_queue
    /\ att_cb' = CASE left # <<>>                    -> [kind |-> "disc", left |-> left]
                   [] left = <<>> /\ queue # <<>>    -> [kind |-> "disc", left |-> queue]
                   [] left \o queue = <<>> /\ preq # NoOp -> [kind |-> "disc_req"]
                   [] left \o queue = <<>> /\ preq = NoOp /\ pind # NoOp -> [kind |-> "disc_ind"]
                   [] OTHER -> [kind |-> "disconn", next |-> Nth(disconn_list, 1)]
    /\ att_log' = CASE att_cb'.kind = "disc"     -> CalledBack(log, Head(att_cb'.left))
                    [] att_cb'.kind = "disc_req" -> CalledBack(log, preq)
                    [] att_cb'.kind = "disc_ind" -> CalledBack(log, pind)
                    [] OTHER                     -> log

\* The peer closes the link, the link is lost, or it was shut down.
disconnect_cb ==
    /\ Idle /\ io \in {"up", "shut"}
    /\ io' = "gone" /\ writer_active' = FALSE
    /\ disconnect_next(<<>>, att_log, pending_req, pending_ind)
    /\ UNCHANGED <<refs, pending, in_req, link, lists, att_timers>>

disc_att_send_op ==
    LET op == CASE att_cb.kind = "disc"     -> Head(att_cb.left)
                [] att_cb.kind = "disc_req" -> pending_req
                [] att_cb.kind = "disc_ind" -> pending_ind
        left == IF att_cb.kind = "disc" THEN Tail(att_cb.left) ELSE <<>>
    IN
    /\ att_cb.kind \in {"disc", "disc_req", "disc_ind"}
    /\ pending_req' = IF att_cb.kind = "disc_req" THEN NoOp ELSE pending_req
    /\ pending_ind' = IF att_cb.kind = "disc_ind" THEN NoOp ELSE pending_ind
    /\ att_timers' = TimersWithout(op)
    /\ disconnect_next(left, Destroyed(att_log, op), pending_req', pending_ind')
    /\ UNCHANGED <<io, refs, writer_active, in_req, link, lists>>

\* disconn_handler is called for the next handler; after the last all are unregistered.
disconn_handler ==
    /\ att_cb.kind = "disconn"
    /\ IF att_cb.next = "end" \/ disconn_list = <<>>
       THEN /\ att_cb' = [kind |-> "none"]
            /\ notify_list' = <<>> /\ disconn_list' = <<>>
       ELSE /\ att_cb' = [att_cb EXCEPT !.next = Nth(disconn_list, 1 + CHOOSE i \in DOMAIN disconn_list : disconn_list[i] = att_cb.next)]
            /\ UNCHANGED lists
    /\ UNCHANGED <<io, refs, queues, pending, writer_active, in_req, link, att_timers, att_log>>

\* Handlers that hold a reference of their own while they call back.
Protected == {"none", "rsp", "conf", "notify", "disconn"}

bt_att_unref ==
    /\ User /\ att_cb.kind \in Protected
    /\ refs' = 0
    /\ UNCHANGED <<io, queues, pending, writer_active, in_req, link, lists, att_timers, att_cb, att_log>>

\* The rest of bt_att_unref, once no handler holds a reference: bt_att_unregister_all,
\* bt_att_cancel_all and bt_att_free.
bt_att_free ==
    /\ refs = 0 /\ att_cb.kind = "none" /\ io # "freed"
    /\ io' = "freed" /\ writer_active' = FALSE
    /\ notify_list' = <<>> /\ disconn_list' = <<>>
    /\ req_queue' = <<>> /\ ind_queue' = <<>> /\ write_queue' = <<>>
    /\ pending_req' = NoOp /\ pending_ind' = NoOp
    /\ att_log' = Destroyed(Destroyed(DestroyedAll(att_log, Queued), pending_req), pending_ind)
    /\ att_timers' = att_timers \ {<<op.id, op.timer>> : op \in Range(Queued) \cup {pending_req, pending_ind}}
    /\ UNCHANGED <<refs, in_req, link, att_cb>>

-----------------------------------------------------------------------------
Calls ==
    \/ \E opcode \in Requests \cup {"VAL_IND", "WRITE_CMD", "READ_RSP"} : bt_att_send(opcode)
    \/ \E id \in 1..MaxOps : bt_att_cancel(id)
    \/ bt_att_cancel_all
    \/ \E opcode \in {"ALL_REQUESTS", "READ_REQ"} : bt_att_register(opcode) \/ bt_att_unregister(opcode)
    \/ bt_att_unregister_all
    \/ \E h \in {"client"} : bt_att_register_disconnect(h) \/ bt_att_unregister_disconnect(h)
    \/ bt_att_set_security(3)
    \/ bt_att_unref

Returns ==
    \/ can_write_data_failed \/ handle_rsp_done \/ handle_conf_done \/ handle_notify_next
    \/ timeout_cb_done \/ disc_att_send_op \/ disconn_handler \/ bt_att_free

Writes == can_write_data_nothing \/ can_write_data \/ can_write_data_fails

Reads ==
    \/ handle_rsp_unexpected \/ handle_error_rsp \/ handle_rsp
    \/ handle_conf_unexpected \/ handle_conf
    \/ can_read_data_again
    \/ \E opcode \in {"READ_REQ", "WRITE_CMD", "VAL_NOT", "VAL_IND", "UNKNOWN"} : handle_notify(opcode)

Timeouts == \E t \in att_timers : timeout_cb_stale(t) \/ timeout_cb(t)

Next == Calls \/ Returns \/ Writes \/ Reads \/ Timeouts \/ disconnect_cb

-----------------------------------------------------------------------------
(* Properties *)

\* The queues hold operations, and timers belong to operations.
TypeOK ==
    /\ io \in {"up", "shut", "gone", "freed"} /\ refs \in {0, 1}
    /\ {req_queue, ind_queue, write_queue} \subseteq Seq(Op)
    /\ {pending_req, pending_ind} \subseteq Op \cup {NoOp}
    /\ writer_active \in BOOLEAN /\ in_req \in BOOLEAN
    /\ security \in 1..4 /\ io_on_l2cap \in BOOLEAN
    /\ att_timers \subseteq (1..MaxOps) \X (1..4)

\* The operations that are somewhere: in a queue, pending, or in a handler that calls back.
Held == Queued \o SelectSeq(<<pending_req, pending_ind>>, LAMBDA o : o # NoOp)
        \o (IF "op" \in DOMAIN att_cb THEN <<att_cb.op>> ELSE <<>>)
        \o (IF "left" \in DOMAIN att_cb THEN att_cb.left ELSE <<>>)

\* An operation is called back at most once and before it is destroyed, it is destroyed
\* once, and as long as it is not it is held in exactly one place.
CompletedOnce ==
    /\ \A id \in 1..MaxOps : att_log[id] \in {<<"unused">>, <<>>, <<"callback">>, <<"destroy">>, <<"callback", "destroy">>}
    /\ \A id \in 1..MaxOps :
          Cardinality({i \in DOMAIN Held : Held[i].id = id /\ Held[i].handlers})
            = IF att_log[id] \in {<<>>, <<"callback">>} THEN 1 ELSE 0

\* What can be sent has a writer that will send it, and what was sent and is not answered
\* has a timer that runs.
NothingWaits ==
    io = "up" /\ att_cb.kind = "none" =>
        /\ write_queue # <<>> => writer_active
        /\ req_queue # <<>> /\ pending_req = NoOp => writer_active
        /\ ind_queue # <<>> /\ pending_ind = NoOp => writer_active
        /\ \A op \in {pending_req, pending_ind} \ {NoOp} : <<op.id, op.timer>> \in att_timers
=============================================================================
