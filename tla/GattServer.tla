------------------------------ MODULE GattServer ------------------------------
(***************************************************************************)
(* struct bt_gatt_server of bluez5 (src/shared/gatt-server.c): it answers  *)
(* the requests of the peer from the database.  The owner of an attribute  *)
(* may answer a read or a write at once or later, or let the database time *)
(* it out; prepared writes wait in prep_queue for the execute request.     *)
(*                                                                         *)
(* bt_att lets the peer have one request without an answer, and any number *)
(* of commands.  Assumed of the owners and the users: an attribute that is *)
(* read by a Read Multiple Request answers at once (its operation lives on *)
(* the stack of read_multiple_cb), and the server is not dropped while it  *)
(* executes prepared writes (their callback holds no reference).           *)
(***************************************************************************)
EXTENDS Integers, Sequences, FiniteSets, SequencesExt

CONSTANTS
    MaxPrep,            \* max_prep_queue_len
    MaxData,            \* bound: prepared writes of one session
    MaxPdu              \* values that fit one PDU

VARIABLES
    server,             \* "up" or "freed"
    outstanding,        \* the request of the peer that has no answer, "" for none
    answers,            \* answers sent since the peer's last request
    listed, response,   \* the attributes the last request for a list was about, and its answer
    pending_read_op, pending_write_op, exec_op,
    prep_queue,
    prepared,           \* the units <<handle, position>> the peer prepared and was told so
    session_written,    \* the units the execute request has written
    link_security,
    server_mtu, link_mtu,
    indication          \* handlers called for the indication that was sent

serverVars == <<server, outstanding, answers, listed, response, pending_read_op, pending_write_op, exec_op, prep_queue,
                prepared, session_written, link_security, server_mtu, link_mtu, indication>>
list       == <<listed, response>>
ops        == <<pending_read_op, pending_write_op, exec_op>>
prepVars   == <<prep_queue, prepared, session_written>>
mtus       == <<server_mtu, link_mtu>>

ConstantsOK == {MaxPrep, MaxData, MaxPdu} \subseteq Nat

\* The attributes: does the owner answer at once, is the characteristic's reliable write
\* property set, what do the permissions allow, and how long is the value?
Attr == <<[prompt |-> TRUE,  reliable |-> TRUE,  perm |-> {"READ", "WRITE"}, len |-> 1],
          [prompt |-> FALSE, reliable |-> TRUE,  perm |-> {"READ", "WRITE"}, len |-> 1],
          [prompt |-> FALSE, reliable |-> FALSE, perm |-> {"READ", "WRITE", "ENCRYPT"}, len |-> 2],
          [prompt |-> TRUE,  reliable |-> FALSE, perm |-> {"READ"}, len |-> 1]>>
\* gatt_db_get_attribute: is there an attribute with the handle?
Found(h)  == h \in DOMAIN Attr
Founds    == {<<1>>, <<1, 2>>, <<2, 3, 4>>, <<1, 2, 4>>}
Handles   == 1..Len(Attr) + 1
NoServerOp == [opcode |-> ""]

Init ==
    /\ server = "up" /\ outstanding = "" /\ answers = 1 /\ listed = <<>> /\ response = <<>>
    /\ pending_read_op = NoServerOp /\ pending_write_op = NoServerOp /\ exec_op = NoServerOp
    /\ prep_queue = <<>> /\ prepared = <<>> /\ session_written = <<>>
    /\ link_security = 1 /\ server_mtu \in {1, 2} /\ link_mtu = 1 /\ indication = <<>>

-----------------------------------------------------------------------------
(* Requests and answers *)

\* The peer's request reaches its handler, which answers it at once or leaves it waiting.
Received(opcode, answered) ==
    /\ server = "up" /\ outstanding = ""
    /\ outstanding' = IF answered THEN "" ELSE opcode
    /\ answers' = IF answered THEN 1 ELSE 0
\* Something is sent for the request that waits.
Sent    == answers' = answers + 1 /\ outstanding' = ""
Quiet   == UNCHANGED <<outstanding, answers>>
NoList  == listed' = <<>> /\ response' = <<>>

check_permissions(h, access) ==
    /\ access \in Attr[h].perm
    /\ "ENCRYPT" \in Attr[h].perm => link_security >= 2

\* Nothing but an answer: the error for a PDU that is malformed or asks for nothing that
\* is there, and a read of several values.
Answered(opcode) ==
    /\ Received(opcode, TRUE)
    /\ NoList /\ UNCHANGED <<server, ops, prepVars, link_security, mtus, indication>>

Lists(opcode, found, answer) ==
    /\ Received(opcode, TRUE)
    /\ listed' = found /\ response' = answer
    /\ UNCHANGED <<server, ops, prepVars, link_security, mtus, indication>>

-----------------------------------------------------------------------------
(* Requests that are answered from the database alone.  found is what it holds of the       *)
(* range, in the order of the handles; some have values or UUIDs of other lengths.          *)

\* The first unit determines the length of each; the list stops at another length or at a
\* unit that would surpass the MTU.
SameLength(found) == {n \in 1..Len(found) : \A i \in 1..n : Attr[found[i]].len = Attr[found[1]].len}
Encoded(found)    == SubSeq(found, 1, CHOOSE n \in {k \in SameLength(found) : k <= MaxPdu} :
                                         \A k \in SameLength(found) : k <= n \/ k > MaxPdu)

read_by_grp_type_cb(found)  == Lists("READ_BY_GRP_TYPE_REQ", found, Encoded(found))
find_info_cb(found)         == Lists("FIND_INFO_REQ", found, Encoded(found))
\* All units have the same length.
find_by_type_val_cb(found)  == Lists("FIND_BY_TYPE_VAL_REQ", found, SubSeq(found, 1, IF Len(found) < MaxPdu THEN Len(found) ELSE MaxPdu))

\* The answer tells the MTU of the server; what is used is kept as the server's from then on.
exchange_mtu_cb(client_rx_mtu) ==
    /\ Received("MTU_REQ", TRUE)
    /\ server_mtu' = IF client_rx_mtu < server_mtu THEN client_rx_mtu ELSE server_mtu
    /\ link_mtu' = server_mtu'
    /\ NoList /\ UNCHANGED <<server, ops, prepVars, link_security, indication>>

-----------------------------------------------------------------------------
(* Reads *)

\* read_cb and read_blob_cb
handle_read_req(opcode, h) ==
    LET refused == ~Found(h) \/ ~check_permissions(h, "READ") \/ pending_read_op # NoServerOp
        waits   == ~refused /\ ~Attr[h].prompt
    IN
    /\ Received(opcode, ~waits)
    /\ pending_read_op' = IF waits THEN [opcode |-> opcode, left |-> <<h>>, pdu |-> <<>>] ELSE pending_read_op
    /\ NoList /\ UNCHANGED <<server, pending_write_op, exec_op, prepVars, link_security, mtus, indication>>

\* Mutant of read_by_type_read_complete_cb: a value of another length is left out.
read_by_type_read_complete_cb_skips(op, h) ==
    LET fits == op.pdu = <<>> \/ (Attr[h].len = Attr[op.pdu[1]].len /\ Len(op.pdu) < MaxPdu) IN
    [op EXCEPT !.left = Tail(@), !.pdu = IF fits THEN Append(@, h) ELSE @, !.done = fits /\ Len(op.pdu) + 1 = MaxPdu]

\* The value of handle h joins the response, unless its length differs or there is no room.
read_by_type_read_complete_cb(op, h) ==
    LET fits == op.pdu = <<>> \/ (Attr[h].len = Attr[op.pdu[1]].len /\ Len(op.pdu) < MaxPdu) IN
    [op EXCEPT !.left = Tail(@), !.pdu = IF fits THEN Append(@, h) ELSE @, !.done = ~fits \/ Len(op.pdu) + 1 = MaxPdu]

\* One turn of process_read_by_type, if the operation has got to handle h.
ReadNext(op, h) ==
    CASE op.done \/ op.opcode = "ERROR_RSP" \/ Head(op.left) # h -> op
      [] OTHER -> IF ~check_permissions(h, "READ") THEN [op EXCEPT !.opcode = "ERROR_RSP"]
                  ELSE IF ~Attr[h].prompt THEN op
                  ELSE read_by_type_read_complete_cb(op, h)

\* Goes on with the values that are there at once, until the response or an error is sent.
process_read_by_type(op) ==
    LET next == FoldLeft(ReadNext, op, op.left) IN
    IF next.opcode # "ERROR_RSP" /\ (next.done \/ next.left = <<>>) THEN [next EXCEPT !.opcode = "READ_BY_TYPE_RSP"] ELSE next

\* What has become of the operation of a Read By Type Request.
ReadByType(op, answered) ==
    /\ pending_read_op' = IF answered THEN NoServerOp ELSE op
    /\ response' = IF op.opcode = "READ_BY_TYPE_RSP" THEN op.pdu ELSE <<>>

read_by_type_cb(found) ==
    LET op == process_read_by_type([opcode |-> "READ_BY_TYPE_REQ", left |-> found, pdu |-> <<>>, done |-> FALSE])
        answered == op.opcode # "READ_BY_TYPE_REQ" IN
    /\ pending_read_op = NoServerOp /\ found # <<>>
    /\ Received("READ_BY_TYPE_REQ", answered)
    /\ ReadByType(op, answered) /\ listed' = IF op.opcode = "ERROR_RSP" THEN <<>> ELSE found
    /\ UNCHANGED <<server, pending_write_op, exec_op, prepVars, link_security, mtus, indication>>

\* The owner answers, fails or is too late.  The server may be gone by then.
read_complete_cb(err) ==
    LET op == pending_read_op IN
    /\ op # NoServerOp
    /\ IF server = "up" /\ ~err /\ op.opcode = "READ_BY_TYPE_REQ"
       THEN LET next == process_read_by_type(read_by_type_read_complete_cb(op, Head(op.left)))
                answered == next.opcode # "READ_BY_TYPE_REQ" IN
            /\ ReadByType(next, answered) /\ listed' = IF next.opcode = "ERROR_RSP" THEN <<>> ELSE listed
            /\ IF answered THEN Sent ELSE Quiet
       ELSE /\ pending_read_op' = NoServerOp /\ listed' = <<>> /\ response' = <<>>
            /\ IF server = "up" THEN Sent ELSE Quiet
    /\ UNCHANGED <<server, pending_write_op, exec_op, prepVars, link_security, mtus, indication>>

\* Attributes that answer at once are read one after the other; the permissions of one are
\* looked at after it has been read.  Whatever happens there is one answer.
read_multiple_cb(hs) ==
    /\ \A i \in DOMAIN hs : Found(hs[i]) => Attr[hs[i]].prompt
    /\ Answered("READ_MULT_REQ")

-----------------------------------------------------------------------------
(* Writes *)

\* A command that cannot be done is dropped, and so is one that finds a write waiting.
write_cb(opcode, h) ==
    LET refused == ~Found(h) \/ ~check_permissions(h, "WRITE") \/ pending_write_op # NoServerOp
        waits   == ~refused /\ ~Attr[h].prompt
    IN
    /\ IF opcode = "WRITE_CMD" THEN server = "up" /\ waits /\ Quiet /\ UNCHANGED list ELSE Received(opcode, ~waits) /\ NoList
    /\ pending_write_op' = IF waits THEN [opcode |-> opcode] ELSE pending_write_op
    /\ UNCHANGED <<server, pending_read_op, exec_op, prepVars, link_security, mtus, indication>>

\* Mutant of write_complete_cb: a command is answered as well.
write_complete_cb_answers ==
    /\ pending_write_op # NoServerOp
    /\ IF server = "up" THEN Sent ELSE Quiet
    /\ pending_write_op' = NoServerOp
    /\ UNCHANGED <<server, list, pending_read_op, exec_op, prepVars, link_security, mtus, indication>>

write_complete_cb ==
    /\ pending_write_op # NoServerOp
    /\ IF server = "up" /\ pending_write_op.opcode # "WRITE_CMD" THEN Sent ELSE Quiet
    /\ pending_write_op' = NoServerOp
    /\ UNCHANGED <<server, list, pending_read_op, exec_op, prepVars, link_security, mtus, indication>>

-----------------------------------------------------------------------------
(* Prepared writes *)

Units(d) == [i \in 1..d.length |-> <<d.handle, d.offset + i - 1>>]
AllUnits(q) == FlattenSeq([i \in DOMAIN q |-> Units(q[i])])

\* Mutant of Continues: any offset continues the write.
Anywhere(d, h, offset) == d.handle = h

Continues(d, h, offset) == d.handle = h /\ offset = d.length + d.offset

\* A write that continues the last one is aggregated with it.
store_prep_data(h, offset, length) ==
    IF prep_queue # <<>> /\ Continues(Last(prep_queue), h, offset)
    THEN [prep_queue EXCEPT ![Len(prep_queue)].length = @ + length]
    ELSE Append(prep_queue, [handle |-> h, offset |-> offset, length |-> length, reliable |-> Attr[h].reliable])

prep_write_cb(h, offset, length) ==
    LET refused == Len(prep_queue) >= MaxPrep \/ ~Found(h) \/ ~check_permissions(h, "WRITE") IN
    /\ Len(prepared) < MaxData
    /\ Received("PREP_WRITE_REQ", TRUE)
    /\ prep_queue' = IF refused THEN prep_queue ELSE store_prep_data(h, offset, length)
    /\ prepared' = IF refused THEN prepared
                   ELSE prepared \o Units([handle |-> h, offset |-> offset, length |-> length])
    /\ NoList /\ UNCHANGED <<server, ops, session_written, link_security, mtus, indication>>

\* Mutant of ClearQueue: what an error leaves behind stays.
KeepQueue(q) == q
ClearQueue(q) == <<>>

\* Writes the head of the queue, and goes on with the next one while the owners answer at once.
exec_next_prep_write(queue, done) ==
    LET slow == {i \in DOMAIN queue : ~Attr[queue[i].handle].prompt}  k == Min(slow) IN
    IF slow = {} THEN [queue |-> <<>>, done |-> done \o AllUnits(queue), op |-> NoServerOp]
    ELSE [queue |-> SubSeq(queue, k + 1, Len(queue)), done |-> done \o AllUnits(SubSeq(queue, 1, k - 1)),
          op |-> [opcode |-> "EXEC_WRITE_REQ", data |-> queue[k]]]

\* Flags of 2 stand for a PDU of another length or with flags that are not known.
exec_write_cb(flags) ==
    LET unreliable == Len(prep_queue) > 1 /\ \E d \in Range(prep_queue) : ~d.reliable IN
    /\ exec_op = NoServerOp
    /\ CASE flags = 0 ->
              /\ Received("EXEC_WRITE_REQ", TRUE)
              /\ prep_queue' = <<>> /\ prepared' = <<>> /\ session_written' = <<>> /\ exec_op' = exec_op
         [] flags = 2 \/ (flags = 1 /\ unreliable) ->
              /\ Received("EXEC_WRITE_REQ", TRUE)
              /\ prep_queue' = ClearQueue(prep_queue) /\ prepared' = <<>> /\ session_written' = <<>> /\ exec_op' = exec_op
         [] flags = 1 /\ ~unreliable ->
              LET r == exec_next_prep_write(prep_queue, <<>>)  over == r.op = NoServerOp IN
              /\ Received("EXEC_WRITE_REQ", over)
              /\ prep_queue' = r.queue /\ exec_op' = r.op
              /\ prepared' = IF over THEN <<>> ELSE prepared
              /\ session_written' = IF over THEN <<>> ELSE r.done
    /\ NoList /\ UNCHANGED <<server, pending_read_op, pending_write_op, link_security, mtus, indication>>

\* The owner has taken the data, or refuses or is too late, which ends the session: what
\* was written before stays written.
exec_write_complete_cb(err) ==
    LET r == exec_next_prep_write(prep_queue, session_written \o Units(exec_op.data))
        over == err \/ r.op = NoServerOp
    IN
    /\ exec_op # NoServerOp
    /\ IF over THEN Sent ELSE Quiet
    /\ prep_queue' = IF err THEN ClearQueue(prep_queue) ELSE r.queue
    /\ exec_op' = IF over THEN NoServerOp ELSE r.op
    /\ prepared' = IF over THEN <<>> ELSE prepared
    /\ session_written' = IF over THEN <<>> ELSE r.done
    /\ UNCHANGED <<server, list, pending_read_op, pending_write_op, link_security, mtus, indication>>

-----------------------------------------------------------------------------
(* The interface *)

\* bt_gatt_server_send_notification changes nothing here; the confirmation of an indication
\* calls back, and destroy is called after it, or without it when the link goes.
bt_gatt_server_send_indication ==
    /\ server = "up" /\ indication = <<>> /\ indication' = <<"sent">>
    /\ UNCHANGED <<server, list, outstanding, answers, ops, prepVars, link_security, mtus>>

conf_cb ==
    /\ indication = <<"sent">> /\ indication' = Append(indication, "callback")
    /\ UNCHANGED <<server, list, outstanding, answers, ops, prepVars, link_security, mtus>>

destroy_ind_data ==
    /\ indication # <<>> /\ Last(indication) # "destroy" /\ indication' = Append(indication, "destroy")
    /\ UNCHANGED <<server, list, outstanding, answers, ops, prepVars, link_security, mtus>>

\* Pending operations stay with the database, without a server.
bt_gatt_server_unref ==
    /\ server = "up" /\ exec_op = NoServerOp
    /\ server' = "freed" /\ prep_queue' = <<>>
    /\ UNCHANGED <<outstanding, answers, list, ops, prepared, session_written, link_security, mtus, indication>>

\* The link is encrypted.
encrypted ==
    /\ link_security = 1 /\ link_security' = 2
    /\ UNCHANGED <<server, list, outstanding, answers, ops, prepVars, mtus, indication>>

-----------------------------------------------------------------------------
Next ==
    \/ Answered("READ_BY_GRP_TYPE_REQ")
    \/ \E found \in Founds : read_by_grp_type_cb(found) \/ find_info_cb(found) \/ find_by_type_val_cb(found) \/ read_by_type_cb(found)
    \/ \E mtu \in 1..2 : exchange_mtu_cb(mtu)
    \/ \E h \in Handles : \E opcode \in {"READ_REQ", "READ_BLOB_REQ"} : handle_read_req(opcode, h)
    \/ \E err \in BOOLEAN : read_complete_cb(err) \/ exec_write_complete_cb(err)
    \/ \E hs \in {<<1, 4>>, <<1, 5>>} : read_multiple_cb(hs)
    \/ \E h \in Handles, opcode \in {"WRITE_REQ", "WRITE_CMD"} : write_cb(opcode, h)
    \/ write_complete_cb
    \/ \E h \in Handles, offset \in 0..1, length \in 1..2 : prep_write_cb(h, offset, length)
    \/ \E flags \in 0..2 : exec_write_cb(flags)
    \/ bt_gatt_server_send_indication \/ conf_cb \/ destroy_ind_data
    \/ bt_gatt_server_unref \/ encrypted

-----------------------------------------------------------------------------
(* Properties *)

\* The queue of prepared writes is within its limit.
TypeOK ==
    /\ server \in {"up", "freed"} /\ answers \in 0..1
    /\ Len(prep_queue) <= MaxPrep /\ link_security \in 1..2 /\ {server_mtu, link_mtu} \subseteq 1..2

\* A request is answered once, by whatever it waits for: as long as it has no answer there
\* is an operation that will answer it, and a command that waits answers nothing.
AnsweredOnce ==
    server = "up" =>
        /\ answers = (IF outstanding = "" THEN 1 ELSE 0)
        /\ (outstanding = "") <=> (pending_read_op = NoServerOp /\ exec_op = NoServerOp /\ pending_write_op.opcode # "WRITE_REQ")

\* A list is answered with as many of its first attributes as fit, and at least one: the
\* peer that goes on behind the last handle it got misses none.
ListsWhole ==
    (outstanding = "" \/ response # <<>>) =>
        /\ IsPrefix(response, listed)
        /\ listed # <<>> => response # <<>>

\* What the peer has prepared is what the execute request writes: once, in order, at the
\* offsets it gave, and nothing of an earlier session that was cancelled or failed.  A session
\* that fails half-way leaves the first part of it written.
PreparedWritesWhole ==
    server = "up" =>
        prepared = session_written \o (IF exec_op = NoServerOp THEN <<>> ELSE Units(exec_op.data)) \o AllUnits(prep_queue)

\* What an indication's sender is told: the confirmation at most once, the end after it.
IndicationTold == indication \in {<<>>, <<"sent">>, <<"sent", "callback">>, <<"sent", "destroy">>, <<"sent", "callback", "destroy">>}
===============================================================================
