-------------------------- MODULE GattClientWrites ---------------------------
(***************************************************************************)
(* The reads and writes of struct bt_gatt_client of bluez5                 *)
(* (src/shared/gatt-client.c): requests of one PDU, reads and writes of    *)
(* values that do not fit one, and reliable sessions.  Att sends what it   *)
(* is given in order, one request at a time, and calls back and then       *)
(* destroys each; its own detail is in Att.  A peer keeps what was         *)
(* prepared until it is told to write or to forget it.                     *)
(*                                                                         *)
(* All of it runs in the one thread of the main loop.  A call made from a  *)
(* callback finds the flags as the call made just before it does.          *)
(*                                                                         *)
(* Assumed of the callers: the next call of a reliable session is made     *)
(* when the one before is answered (get_reliable_request replaces the      *)
(* data the answer is compared with and called back through).              *)
(***************************************************************************)
EXTENDS Integers, Sequences, FiniteSets, SequencesExt

CONSTANTS
    MaxRequests,    \* bound: requests created, those of one PDU and long reads counted twice
    MaxChunks       \* PDUs that the longest value takes (BT_ATT_MAX_VALUE_LEN over the MTU)

VARIABLES
    reqs,                   \* struct request, by id
    pending_requests,
    long_write_queue, in_long_write,
    session,                \* reliable_write_session_id
    att_ops,                \* what Att has to send or has unanswered, in order
    att_up,
    peer_prepared,          \* the queue of prepared writes of the peer, as <<request, chunk>>
    peer_written,           \* what it was told to write, in order
    slips                   \* what has happened that the client does not undo

writeVars == <<reqs, pending_requests, long_write_queue, in_long_write, session, att_ops, att_up, peer_prepared, peer_written, slips>>

Ids  == 1..MaxRequests
Free == [kind |-> "free", ref |-> 0, att_id |-> FALSE, removed |-> FALSE, chunk |-> 0, chunks |-> 0,
         reliable |-> FALSE, success |-> FALSE, operations |-> 0, destroy |-> FALSE, calls |-> 0, result |-> FALSE, destroyed |-> 0]
Op   == [pdu : {"READ", "BLOB", "WRITE", "CMD", "PREP", "EXEC", "CANCEL"}, req : Ids, chunk : 0..MaxChunks,
         cb : {"none", "read_cb", "read_long_cb", "write_cb", "prepare_write_cb", "execute_write_cb", "cancel_long_write_cb",
               "prep_write_cb", "exec_write_cb", "cancel_prep_write_cb"}, owns : BOOLEAN]
NewId == 1 + Cardinality({i \in Ids : reqs[i].kind # "free"})
Plain       == {i \in Ids : reqs[i].kind \in {"read", "read_long", "write", "cmd"}}
CanAsk      == NewId + Cardinality(Plain) <= MaxRequests
CanAskPlain == NewId + Cardinality(Plain) < MaxRequests
ConstantsOK == MaxRequests \in Nat /\ MaxChunks \in Nat \ {0}

Init ==
    /\ reqs = [i \in Ids |-> Free] /\ pending_requests = {}
    /\ long_write_queue = <<>> /\ in_long_write = FALSE /\ session = 0
    /\ att_ops = <<>> /\ att_up = TRUE /\ peer_prepared = <<>> /\ peer_written = <<>> /\ slips = {}

-----------------------------------------------------------------------------
(* The client while a function runs: a record of what the functions change *)

Client == [reqs |-> reqs, pending |-> pending_requests, queue |-> long_write_queue, in_long |-> in_long_write,
           session |-> session, ops |-> att_ops]
Becomes(c) ==
    /\ reqs' = c.reqs /\ pending_requests' = c.pending /\ long_write_queue' = c.queue
    /\ in_long_write' = c.in_long /\ session' = c.session /\ att_ops' = c.ops

bt_att_send(c, pdu, id, chunk, cb, owns) ==
    [c EXCEPT !.ops = Append(@, [pdu |-> pdu, req |-> id, chunk |-> chunk, cb |-> cb, owns |-> owns]),
              !.reqs[id].att_id = TRUE]

request_ref(c, id) == [c EXCEPT !.reqs[id].ref = @ + 1]
request_unref(c, id) ==
    IF c.reqs[id].ref > 1 THEN [c EXCEPT !.reqs[id].ref = @ - 1]
    ELSE [c EXCEPT !.reqs[id] = [@ EXCEPT !.ref = 0, !.chunk = 0, !.reliable = FALSE, !.success = FALSE,
                                          !.destroyed = @ + (IF c.reqs[id].destroy THEN 1 ELSE 0)],
                   !.pending = IF c.reqs[id].removed THEN @ ELSE @ \ {id}]

Callback(c, id, ok) == [c EXCEPT !.reqs[id] = [@ EXCEPT !.calls = @ + 1, !.result = ok]]

request_create(kind, chunks, reliable) ==
    [Client EXCEPT !.reqs[NewId] = [Free EXCEPT !.kind = kind, !.ref = 1, !.chunk = 1, !.chunks = chunks, !.reliable = reliable,
                                          !.operations = 1, !.destroy = TRUE],
                   !.pending = @ \cup {NewId}]
\* The request could not be sent: it is dropped, and the caller is told by 0.
NotSent(c, id) == request_unref([c EXCEPT !.reqs[id].destroy = FALSE], id)

-----------------------------------------------------------------------------
(* Long writes *)

\* Without a link every queued write ends as it is started, and so does the next.
Drained(c) ==
    FoldLeft(LAMBDA d, id : request_unref(Callback(d, id, FALSE), id), [c EXCEPT !.queue = <<>>, !.in_long = FALSE], c.queue)

start_next_long_write(c) ==
    IF c.queue = <<>> THEN [c EXCEPT !.in_long = FALSE]
    ELSE IF att_up THEN bt_att_send([c EXCEPT !.queue = Tail(@)], "PREP", Head(c.queue), 1, "prepare_write_cb", TRUE)
    ELSE Drained(c)

complete_write_long_op(c, id, success) ==
    LET d == [c EXCEPT !.reqs[id].success = success] IN
    IF att_up THEN bt_att_send(request_ref(d, id), IF success THEN "EXEC" ELSE "CANCEL", id, 0, "execute_write_cb", TRUE)
    ELSE start_next_long_write(Callback(d, id, FALSE))

handle_next_prep_write(c, id) ==
    IF att_up THEN bt_att_send(request_ref(c, id), "PREP", id, c.reqs[id].chunk, "prepare_write_cb", TRUE)
    ELSE complete_write_long_op(c, id, FALSE)

\* answer: "ok"; "bad" for an error or a response of another kind; "other" for one that does
\* not echo what a reliable write has sent, which nobody looks at for any other.
prepare_write_cb(c, id, answer) ==
    LET ok == answer = "ok" IN
    IF ok /\ c.reqs[id].chunk < c.reqs[id].chunks
    THEN handle_next_prep_write([c EXCEPT !.reqs[id].chunk = @ + 1], id)
    ELSE complete_write_long_op(c, id, ok)

execute_write_cb(c, id, answer) ==
    start_next_long_write(Callback(c, id, answer = "ok" /\ c.reqs[id].success))

bt_gatt_client_write_long_value(chunks, reliable) ==
    LET c == request_create("long", chunks, reliable) IN
    /\ CanAsk
    /\ Becomes(IF in_long_write \/ session > 0 THEN [c EXCEPT !.queue = Append(@, NewId)]
               ELSE IF att_up THEN [bt_att_send(c, "PREP", NewId, 1, "prepare_write_cb", TRUE) EXCEPT !.in_long = TRUE]
               ELSE NotSent(c, NewId))
    /\ UNCHANGED <<att_up, peer_prepared, peer_written, slips>>

-----------------------------------------------------------------------------
(* Requests of one PDU, and long reads *)

\* bt_gatt_client_read_value and bt_gatt_client_read_multiple differ in the PDU.
bt_gatt_client_read_value ==
    /\ CanAskPlain
    /\ Becomes(IF att_up THEN bt_att_send(request_create("read", 1, FALSE), "READ", NewId, 0, "read_cb", TRUE)
               ELSE NotSent(request_create("read", 1, FALSE), NewId))
    /\ UNCHANGED <<att_up, peer_prepared, peer_written, slips>>

bt_gatt_client_read_long_value(from) ==
    LET c == [request_create("read_long", MaxChunks, FALSE) EXCEPT !.reqs[NewId].chunk = from] IN
    /\ CanAskPlain
    /\ Becomes(IF att_up THEN bt_att_send(c, IF from = 0 THEN "READ" ELSE "BLOB", NewId, from, "read_long_cb", TRUE)
               ELSE NotSent(c, NewId))
    /\ UNCHANGED <<att_up, peer_prepared, peer_written, slips>>

\* A value that does not fit the PDU is not sent either.
bt_gatt_client_write_value(fits) ==
    /\ CanAskPlain
    /\ Becomes(IF att_up /\ fits THEN bt_att_send(request_create("write", 1, FALSE), "WRITE", NewId, 0, "write_cb", TRUE)
               ELSE NotSent(request_create("write", 1, FALSE), NewId))
    /\ UNCHANGED <<att_up, peer_prepared, peer_written, slips>>

bt_gatt_client_write_without_response ==
    /\ CanAskPlain
    /\ Becomes(IF att_up THEN bt_att_send([request_create("cmd", 1, FALSE) EXCEPT !.reqs[NewId].destroy = FALSE], "CMD", NewId, 0, "none", TRUE)
               ELSE NotSent(request_create("cmd", 1, FALSE), NewId))
    /\ UNCHANGED <<att_up, peer_prepared, peer_written, slips>>

\* A full chunk is followed by a request for the next, up to the longest value there is.
read_long_cb(c, id, answer, full) ==
    IF answer # "ok" \/ ~full THEN Callback(c, id, answer = "ok")
    ELSE IF c.reqs[id].chunk + 1 >= MaxChunks THEN Callback(c, id, TRUE)
    ELSE IF att_up
         THEN LET d == [c EXCEPT !.reqs[id].chunk = @ + 1] IN
              bt_att_send(request_ref(d, id), "BLOB", id, d.reqs[id].chunk, "read_long_cb", TRUE)
         ELSE Callback(c, id, FALSE)

-----------------------------------------------------------------------------
(* Reliable sessions *)

SessionWaits == \E i \in DOMAIN att_ops : att_ops[i].req = session

\* The request of a session is given the data of its next operation: those of the one before
\* are neither freed nor is their destroy called.
NextOperation(id) == [Client EXCEPT !.reqs[id] = [@ EXCEPT !.operations = @ + 1, !.destroy = TRUE]]

\* An operation of the session is sent; if it cannot be, the request is dropped and the
\* session keeps its id.
SendInSession(c, pdu, id, chunk, cb, owns) ==
    IF att_up
    THEN Becomes([bt_att_send(c, pdu, id, chunk, cb, owns) EXCEPT !.session = id]) /\ UNCHANGED slips
    ELSE Becomes(NotSent(c, id)) /\ slips' = IF id = session THEN slips \cup {"session_dropped"} ELSE slips

\* The first request of a session lives until the session is executed.
bt_gatt_client_prepare_write(id) ==
    /\ ~in_long_write /\ id = session /\ ~SessionWaits
    /\ IF id = 0
       THEN CanAsk /\ SendInSession(request_create("prep", 1, TRUE), "PREP", NewId, 1, "prep_write_cb", FALSE)
       ELSE /\ id \in pending_requests /\ reqs[id].chunk < MaxChunks
            /\ SendInSession([NextOperation(id) EXCEPT !.reqs[id].chunk = @ + 1], "PREP", id, reqs[id].chunk + 1, "prep_write_cb", FALSE)
    /\ UNCHANGED <<att_up, peer_prepared, peer_written>>

bt_gatt_client_write_execute ==
    /\ ~in_long_write /\ session \in pending_requests /\ ~SessionWaits
    /\ SendInSession(NextOperation(session), "EXEC", session, 0, "exec_write_cb", TRUE)
    /\ UNCHANGED <<att_up, peer_prepared, peer_written>>

prep_write_cb(c, id, answer) == Callback(c, id, answer = "ok")

\* Mutant of exec_write_cb: long writes that wait for the session are not started.
exec_write_cb_keeps(c, id, answer) == [Callback(c, id, answer = "ok") EXCEPT !.session = 0]

exec_write_cb(c, id, answer) == start_next_long_write([Callback(c, id, answer = "ok") EXCEPT !.session = 0])

-----------------------------------------------------------------------------
(* Cancelling *)

Without(ops, id) == SelectSeq(ops, LAMBDA o : o.req # id)

\* A long write that runs is not stopped: the peer is told to forget what is prepared, and
\* the answers to what is out go on with it.  One that waits leaves its queue, and nobody
\* drops its reference.
cancel_request(c, id) ==
    LET d == [c EXCEPT !.reqs[id].removed = TRUE] IN
    CASE c.reqs[id].kind = "long" /\ ~c.reqs[id].att_id -> [d EXCEPT !.queue = SelectSeq(@, LAMBDA i : i # id)]
      [] c.reqs[id].kind = "long" /\ c.reqs[id].att_id  -> bt_att_send(d, "CANCEL", id, 0, "cancel_long_write_cb", FALSE)
      [] c.reqs[id].kind = "prep"                       -> bt_att_send(d, "CANCEL", id, 0, "cancel_prep_write_cb", TRUE)
      [] OTHER -> request_unref([d EXCEPT !.ops = Without(@, id)], id)      \* bt_att_cancel

Slip(c, id) ==
    IF c.reqs[id].kind = "long" THEN IF c.reqs[id].att_id THEN {"cancelled_running"} ELSE {"cancelled_waiting"}
    ELSE IF c.reqs[id].kind # "prep" THEN {}
    ELSE {"cancelled_session"} \cup {"cancelled_executing" : o \in {o \in Range(c.ops) : o.req = id /\ o.pdu = "EXEC"}}

bt_gatt_client_cancel(id) ==
    /\ att_up /\ id \in pending_requests /\ (Slip(Client, id) # {} => slips = {})
    /\ Becomes(cancel_request([Client EXCEPT !.pending = @ \ {id}], id))
    /\ slips' = slips \cup Slip(Client, id)
    /\ UNCHANGED <<att_up, peer_prepared, peer_written>>

bt_gatt_client_cancel_all ==
    LET ids == SetToSortSeq(pending_requests, <) IN
    /\ att_up /\ pending_requests # {} /\ slips = {}
    /\ Becomes(FoldLeft(LAMBDA c, id : cancel_request(c, id), [Client EXCEPT !.pending = {}], ids))
    /\ slips' = slips \cup UNION {Slip(Client, id) : id \in pending_requests}
    /\ UNCHANGED <<att_up, peer_prepared, peer_written>>

cancel_long_write_cb(c) == IF c.queue = <<>> THEN [c EXCEPT !.in_long = FALSE] ELSE c
cancel_prep_write_cb(c) == [c EXCEPT !.session = 0]

-----------------------------------------------------------------------------
(* The peer and Att *)

\* Att calls back and then destroys the operation that was first.
Called(c, op, answer, full) ==
    CASE op.cb \in {"read_cb", "write_cb"}  -> Callback(c, op.req, answer = "ok")
      [] op.cb = "read_long_cb"             -> read_long_cb(c, op.req, answer, full)
      [] op.cb = "prepare_write_cb"         -> prepare_write_cb(c, op.req, answer)
      [] op.cb = "execute_write_cb"         -> execute_write_cb(c, op.req, answer)
      [] op.cb = "prep_write_cb"            -> prep_write_cb(c, op.req, answer)
      [] op.cb = "exec_write_cb"            -> exec_write_cb(c, op.req, answer)
      [] op.cb = "cancel_long_write_cb"     -> cancel_long_write_cb(c)
      [] op.cb = "cancel_prep_write_cb"     -> cancel_prep_write_cb(c)
      [] op.cb = "none"                     -> c

handle_rsp(answer, full) ==
    LET op == Head(att_ops)
        d  == Called([Client EXCEPT !.ops = Tail(@)], op, answer, full)
    IN
    /\ att_ops # <<>>
    /\ op.cb = "none" => answer = "ok"
    /\ full => op.cb = "read_long_cb" /\ answer = "ok"
    /\ answer = "other" => op.pdu = "PREP" /\ reqs[op.req].reliable
    /\ Becomes(IF op.owns THEN request_unref(d, op.req) ELSE d)
    /\ slips' = IF op.cb = "exec_write_cb" /\ long_write_queue # <<>> THEN slips \cup {"started_unmarked"} ELSE slips
    /\ UNCHANGED att_up

\* What the peer may have done with the request when it is answered so.  "other": it has
\* prepared the chunk and echoes something else.  A peer that fails to execute may have
\* written some of the chunks before.
PeerDoes(op, answer) ==
    CASE op.pdu = "PREP" ->
           /\ peer_prepared' = IF answer \in {"ok", "other"} THEN Append(peer_prepared, <<op.req, op.chunk>>) ELSE peer_prepared
           /\ UNCHANGED peer_written
      [] op.pdu = "EXEC" ->
           /\ peer_prepared' = <<>>
           /\ \/ answer = "ok" /\ peer_written' = Append(peer_written, peer_prepared)
              \/ answer # "ok" /\ UNCHANGED peer_written
              \/ /\ answer # "ok"
                 /\ \E n \in 1..Len(peer_prepared) : peer_written' = Append(peer_written, SubSeq(peer_prepared, 1, n))
      [] op.pdu = "CANCEL" -> peer_prepared' = <<>> /\ UNCHANGED peer_written
      [] OTHER -> UNCHANGED <<peer_prepared, peer_written>>

Answer(answer, full) == att_up /\ handle_rsp(answer, full) /\ PeerDoes(Head(att_ops), answer)

\* The link is gone: disconnect_cb of Att answers what is out with an error, the peer may have
\* seen it or not.
att_disconnect_cb ==
    /\ att_up /\ att_up' = FALSE
    /\ UNCHANGED <<reqs, pending_requests, long_write_queue, in_long_write, session, att_ops, peer_prepared, peer_written, slips>>
Disconnected == ~att_up /\ handle_rsp("bad", FALSE) /\ PeerDoes(Head(att_ops), "bad")
\* A command is destroyed unanswered.
DisconnectedCommand == ~att_up /\ att_ops # <<>> /\ Head(att_ops).cb = "none" /\ handle_rsp("ok", FALSE) /\ UNCHANGED <<peer_prepared, peer_written>>

Next ==
    \/ \E chunks \in 1..MaxChunks, r \in BOOLEAN : bt_gatt_client_write_long_value(chunks, r)
    \/ bt_gatt_client_read_value \/ bt_gatt_client_write_without_response
    \/ \E fits \in BOOLEAN : bt_gatt_client_write_value(fits)
    \/ \E from \in 0..1 : bt_gatt_client_read_long_value(from)
    \/ \E id \in Ids \cup {0} : bt_gatt_client_prepare_write(id)
    \/ bt_gatt_client_write_execute
    \/ \E id \in Ids : bt_gatt_client_cancel(id)
    \/ bt_gatt_client_cancel_all
    \/ \E answer \in {"ok", "bad", "other"}, full \in BOOLEAN : Answer(answer, full)
    \/ att_disconnect_cb \/ Disconnected \/ DisconnectedCommand

-----------------------------------------------------------------------------
(* Properties *)

\* References and chunks are within their bounds, and what is queued is a request.
TypeOK ==
    /\ \A i \in Ids : reqs[i].ref \in 0..4 /\ reqs[i].chunk \in 0..MaxChunks /\ reqs[i].operations \in 0..MaxChunks + 1
    /\ pending_requests \subseteq Ids /\ long_write_queue \in Seq(Ids) /\ session \in Ids \cup {0}
    /\ att_ops \in Seq(Op)

\* Is anything going to happen to the request?
Held(id) == \/ id = session /\ id \in pending_requests
            \/ id \in Range(long_write_queue) \/ \E i \in DOMAIN att_ops : att_ops[i].req = id

\* Every operation is called back once, when Att, the queue and the session have let go of its
\* request, and not at all if it was cancelled or could not be sent; then the data of the
\* request are freed, once.  The exceptions: a long write that was cancelled is not freed if
\* it waited, and called back if it ran; a session cancelled while it is executed has its
\* request dropped twice; and of the operations of a session only the last is ever freed.
CompletedOnce ==
  "cancelled_executing" \notin slips =>
    /\ \A id \in Ids : reqs[id].destroyed <= 1
    /\ \A id \in Ids : reqs[id].calls <= reqs[id].operations
    /\ \A id \in Ids : reqs[id].kind = "prep" /\ reqs[id].calls < reqs[id].operations - 1 => reqs[id].removed
    /\ \A id \in Ids : reqs[id].kind # "free" /\ ~Held(id) =>
          /\ reqs[id].ref = 0 \/ (reqs[id].removed /\ reqs[id].kind = "long" /\ ~reqs[id].att_id)
          /\ reqs[id].ref = 0 /\ reqs[id].destroy => reqs[id].destroyed = 1
          /\ reqs[id].kind # "cmd" /\ ~reqs[id].removed /\ reqs[id].destroy => reqs[id].calls = reqs[id].operations
    /\ \A id \in Ids : reqs[id].removed /\ reqs[id].kind \notin {"long", "prep"} => reqs[id].calls = 0

\* A long write that waits has somebody to start it, unless a session was cancelled or dropped
\* because the link is gone: nothing starts what waited for it.
NothingWaits ==
    long_write_queue # <<>> /\ slips \cap {"cancelled_session", "cancelled_running", "session_dropped"} = {} =>
        session \in pending_requests \/ \E i \in DOMAIN att_ops : att_ops[i].req = session \/ reqs[att_ops[i].req].kind = "long"

Whole(id) == [i \in 1..reqs[id].chunks |-> <<id, i>>]
\* "We avoid interleaving prepared writes" (struct bt_gatt_client): the queue of the peer
\* holds the chunks of one write, as long as nothing was cancelled.
NotInterleaved ==
    slips \subseteq {"started_unmarked", "session_dropped"} =>
        \A i, j \in DOMAIN peer_prepared : peer_prepared[i][1] = peer_prepared[j][1]

\* A long write that is reported as done was written by the peer once, whole and alone; one
\* that is reported as failed was written at most in part, from its beginning and not mixed
\* with another one, whatever errors the peer answers and however many writes and sessions
\* are asked for meanwhile.  The client does not keep this up once a running write or
\* session was cancelled, or an executed session has started a long write (NotInterleaved).
LongWritesWhole ==
    slips \cap {"cancelled_running", "started_unmarked", "cancelled_session"} = {} =>
        /\ NotInterleaved
        /\ \A id \in Ids : reqs[id].kind = "long" /\ reqs[id].calls = 1 /\ reqs[id].result => Whole(id) \in Range(peer_written)
        /\ \A i \in DOMAIN peer_written : \A entry \in Range(peer_written[i]) :
              reqs[entry[1]].kind = "long" =>
                  /\ IsPrefix(peer_written[i], Whole(entry[1]))
                  /\ \A j \in DOMAIN peer_written : entry \in Range(peer_written[j]) => j = i
=============================================================================
