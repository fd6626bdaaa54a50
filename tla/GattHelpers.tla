----------------------------- MODULE GattHelpers -----------------------------
(***************************************************************************)
(* The discovery procedures of bluez5 (src/shared/gatt-helpers.c): a       *)
(* search of a range of handles, one request after the other, each from    *)
(* the handle after the last one found.  One procedure at a time; the      *)
(* requests go through Att, of which only this is used: bt_att_send may    *)
(* fail, and an operation is called back once and then destroyed.          *)
(*                                                                         *)
(* A handle is a number up to MaxHandle, which stands for 0xffff: handles  *)
(* are 16 bits wide and the one after it is 0.                             *)
(***************************************************************************)
EXTENDS Integers, Sequences, FiniteSets, SequencesExt

CONSTANTS
    MaxHandle,
    Databases,      \* what a peer may hold: sequences of attributes in the order of their handles
    StrictPeers     \* {TRUE}: peers answer what they are asked; {FALSE}: with any handles

VARIABLES
    database, strict,
    kind,           \* the procedure: its first request, or "idle"
    start_handle, end_handle, first_handle,
    results,        \* the list result_head points to: per PDU its opcode and elements
    asked_from,     \* where the request that is out starts
    toRead,         \* included services of the last answer whose UUID has still to be read
    att_holds,      \* does Att hold an operation with a reference to the request?
    op_id,          \* op->id: "set" to the operation Att holds, "old" or "0"
    ref_count, caller_ref,
    outcome,        \* "none", what the callback was told, or "crashed"
    calls,
    cancelled,      \* "no", "yes", or "missed": op->id was not the operation that was out
    att_mtu

helperVars == <<database, strict, kind, start_handle, end_handle, first_handle, asked_from, results, toRead, att_holds, op_id,
                ref_count, caller_ref, outcome, calls, cancelled, att_mtu>>
peer       == <<database, strict, att_mtu>>

Handles == 0..MaxHandle
Kinds   == {"primary", "secondary", "by_uuid", "included", "chrcs", "read_by_type", "descs"}

\* An attribute: its handle, the last handle of its group or of itself, and its type.
Attribute == [handle : 1..MaxHandle, end : 1..MaxHandle, type : Kinds, long : BOOLEAN]
Plus1(h)  == (h + 1) % (MaxHandle + 1)

ConstantsOK == MaxHandle \in Nat \ {0} /\ Databases \subseteq Seq(Attribute) /\ StrictPeers \subseteq BOOLEAN

Init ==
    /\ database \in Databases /\ strict \in StrictPeers
    /\ kind = "idle" /\ start_handle = 0 /\ end_handle = 0 /\ first_handle = 0
    /\ asked_from = 0 /\ results = <<>> /\ toRead = 0 /\ att_holds = FALSE /\ op_id = "0"
    /\ ref_count = 0 /\ caller_ref = FALSE /\ outcome = "none" /\ calls = 0 /\ cancelled = "no"
    /\ att_mtu = 23

-----------------------------------------------------------------------------
(* Starting *)

\* The request is sent, or it cannot be and nothing is left of it.
Start(k, from, to, returned) ==
    /\ kind = "idle" /\ from <= to
    /\ kind' = k /\ first_handle' = from /\ start_handle' = from /\ end_handle' = to
    /\ asked_from' = from /\ results' = <<>> /\ toRead' = 0
    /\ att_holds' = TRUE /\ op_id' = "set"
    /\ caller_ref' = returned /\ ref_count' = IF returned THEN 2 ELSE 1
    /\ outcome' = "none" /\ calls' = 0 /\ cancelled' = "no"
    /\ UNCHANGED peer

discover_services(from, to)    == Start("primary", from, to, TRUE) \/ Start("secondary", from, to, TRUE) \/ Start("by_uuid", from, to, TRUE)
bt_gatt_discover_included_services(from, to) == Start("included", from, to, TRUE)
bt_gatt_discover_characteristics(from, to)   == Start("chrcs", from, to, TRUE)
bt_gatt_discover_descriptors(from, to)       == Start("descs", from, to, TRUE)
bt_gatt_read_by_type(from, to)               == Start("read_by_type", from, to, FALSE)

-----------------------------------------------------------------------------
(* The answers of the peer *)

Matches(from) == SelectSeq(database, LAMBDA a : a.type = kind /\ a.handle \in from..end_handle)

\* An answer holds attributes of one size, as many of them as fit and there are.
Answers ==
    IF strict
    THEN {SubSeq(Matches(asked_from), 1, n) : n \in 1..Len(Matches(asked_from))}
    ELSE {<<a>> : a \in {b \in Attribute : b.type = kind}}
SameSize(answer) == \A a, b \in Range(answer) : a.long = b.long

NotFound == strict => Matches(asked_from) = <<>>

-----------------------------------------------------------------------------
(* The results, and the iterators that read them *)

result_append(opcode, elements) == Append(results, [opcode |-> opcode, elements |-> elements])
LastElement == Last(Last(SelectSeq(results, LAMBDA r : r.opcode # "READ_RSP")).elements)

\* bt_gatt_result_service_count and the others: an answer to a read is no element.
result_element_count == FoldSeq(LAMBDA r, n : IF r.opcode = "READ_RSP" THEN n ELSE n + Len(r.elements), 0, results)

\* An element as the iterators return it; uuid is the attribute the UUID was taken from.
Element(a, end, uuid) == [handle |-> a.handle, end |-> end, uuid |-> uuid]

\* Mutant of UuidResult: the first answer that follows.
UuidFirst(i, k) == i + 1

\* The k-th element of result i has no room for its UUID: it is in the k-th PDU behind it.
UuidResult(i, k) == i + k

bt_gatt_iter_next_included_service ==
    LET walk[i \in 1..(Len(results) + 1)] ==
            IF i > Len(results) THEN <<>>
            ELSE LET e == results[i].elements  n == Len(e)  there == Len(results) - i IN
                 IF ~e[1].long THEN [k \in 1..n |-> Element(e[k], e[k].end, e[k].handle)] \o walk[i + 1]
                 ELSE [k \in 1..(IF n < there THEN n ELSE there) |->
                          Element(e[k], e[k].end, results[UuidResult(i, k)].elements[1].handle)]
                      \o (IF n <= there THEN walk[i + n + 1] ELSE <<>>)
    IN walk[1]

Elements == FlattenSeq([i \in DOMAIN results |-> results[i].elements])

\* bt_gatt_iter_next_service, bt_gatt_iter_next_descriptor, bt_gatt_iter_next_read_by_type
bt_gatt_iter_next == [i \in DOMAIN Elements |-> Element(Elements[i], Elements[i].end, Elements[i].handle)]

\* A characteristic ends before the next one, the last one at the end of the range.
bt_gatt_iter_next_characteristic ==
    [i \in DOMAIN Elements |->
        Element(Elements[i], IF i = Len(Elements) THEN end_handle ELSE Elements[i + 1].handle - 1, Elements[i].handle)]

Iterated == CASE kind = "included" -> bt_gatt_iter_next_included_service
              [] kind = "chrcs" -> bt_gatt_iter_next_characteristic
              [] OTHER -> bt_gatt_iter_next

-----------------------------------------------------------------------------
(* References *)

\* discovery_op_complete: the callback; a request that is not out any more loses the
\* reference its operation would have dropped.  The operation that is answered drops its
\* own when Att destroys it.
Complete(success, ecode, sent) ==
    /\ outcome' = IF success \/ (ecode = "NOT_FOUND" /\ results' # <<>>) THEN "success" ELSE "failure"
    /\ calls' = calls + 1
    /\ op_id' = "0"
    /\ ref_count' = ref_count - 1 + (IF sent THEN 1 ELSE 0) - (IF op_id = "0" \/ sent THEN 1 ELSE 0)
    /\ att_holds' = FALSE /\ toRead' = 0
    /\ UNCHANGED <<kind, end_handle, first_handle, asked_from, caller_ref, cancelled, peer>>

\* The next request is out; it has a reference, and the one that was answered drops its own.
Again(from) ==
    /\ asked_from' = from /\ op_id' = "set" /\ toRead' = 0
    /\ UNCHANGED <<kind, end_handle, first_handle, att_holds, ref_count, caller_ref, outcome, calls, cancelled, peer>>

Asked == kind # "idle" /\ att_holds /\ toRead = 0 /\ outcome # "crashed"

-----------------------------------------------------------------------------
(* The callbacks *)

\* An error, a link that is gone or an answer that is malformed end the search.
AnswerError(k) ==
    /\ Asked /\ kind \in k
    /\ \E ecode \in {"NOT_FOUND", "OTHER"} :
          /\ ecode = "NOT_FOUND" => NotFound
          /\ UNCHANGED <<start_handle, results>>
          /\ Complete(FALSE, ecode, FALSE)

\* Mutant of Search: the next request starts at the last handle found.
SearchSame(last, more) ==
    IF last < start_handle THEN UNCHANGED start_handle /\ Complete(FALSE, "none", FALSE)
    ELSE /\ start_handle' = last
         /\ IF more THEN Again(last) \/ Complete(FALSE, "none", TRUE) ELSE Complete(TRUE, "none", FALSE)

\* What all of them do with the last handle of an answer: a handle before the one asked
\* for ends the search, and if there is more the next request is sent, or cannot be.
Search(last, more) ==
    IF last < start_handle THEN UNCHANGED start_handle /\ Complete(FALSE, "none", FALSE)
    ELSE /\ start_handle' = Plus1(last)
         /\ IF more THEN Again(Plus1(last)) \/ Complete(FALSE, "none", TRUE) ELSE Complete(TRUE, "none", FALSE)

\* Groups of handles.  Some devices say that the last group ends at 0xffff.
read_by_grp_type_cb(answer) ==
    LET last == Last(answer).end
        cut  == IF last = MaxHandle /\ last # end_handle
                THEN [answer EXCEPT ![Len(answer)].end = end_handle] ELSE answer IN
    /\ Asked /\ kind \in {"primary", "secondary"} /\ SameSize(answer)
    /\ results' = result_append("READ_BY_GRP_TYPE_RSP", IF last < start_handle \/ last < end_handle THEN answer ELSE cut)
    /\ Search(last, last < end_handle)

find_by_type_val_cb(answer) ==
    /\ Asked /\ kind = "by_uuid"
    /\ results' = result_append("FIND_BY_TYPE_RSP", answer)
    /\ Search(Last(answer).end, Last(answer).end < end_handle)

discover_chrcs_cb(answer) ==
    /\ Asked /\ kind = "chrcs" /\ SameSize(answer)
    /\ results' = result_append("READ_BY_TYPE_RSP", answer)
    /\ Search(Last(answer).handle, Last(answer).handle # end_handle)

read_by_type_cb(answer) ==
    /\ Asked /\ kind = "read_by_type" /\ SameSize(answer)
    /\ results' = result_append("READ_BY_TYPE_RSP", answer)
    /\ Search(Last(answer).handle, Last(answer).handle # end_handle)

\* Elements of length 0: the length of the answer is divided by it, and the process dies.
read_by_type_zero ==
    /\ Asked /\ kind = "read_by_type"
    /\ outcome' = "crashed"
    /\ UNCHANGED <<kind, start_handle, end_handle, first_handle, asked_from, results, toRead, att_holds, op_id, ref_count, caller_ref, calls, cancelled, peer>>

discover_descs_cb(answer) ==
    /\ Asked /\ kind = "descs" /\ SameSize(answer)
    /\ results' = result_append("FIND_INFO_RSP", answer)
    /\ Search(Last(answer).handle, Last(answer).handle # end_handle)

\* Included services that bear their UUID.
discover_included_cb(answer) ==
    /\ Asked /\ kind = "included" /\ SameSize(answer) /\ ~Last(answer).long
    /\ results' = result_append("READ_BY_TYPE_RSP", answer)
    /\ Search(Last(answer).handle, Last(answer).handle # end_handle)

\* Included services whose UUID does not fit: it is read, one after the other.  op->id
\* keeps the operation that was answered, and start_handle stays.
read_included(answer) ==
    /\ Asked /\ kind = "included" /\ SameSize(answer) /\ Last(answer).long
    /\ results' = result_append("READ_BY_TYPE_RSP", answer)
    /\ \/ /\ toRead' = Len(answer) /\ op_id' = "old"
          /\ UNCHANGED <<kind, start_handle, end_handle, first_handle, asked_from, att_holds, ref_count, caller_ref, outcome, calls, cancelled, peer>>
       \/ /\ outcome' = "failure" /\ calls' = calls + 1 /\ op_id' = "old"
          /\ att_holds' = FALSE /\ ref_count' = ref_count - 1
          /\ UNCHANGED <<kind, start_handle, end_handle, first_handle, asked_from, toRead, caller_ref, cancelled, peer>>

\* The UUID is stored behind the answer it belongs to.
read_included_cb ==
    LET asked == Last(SelectSeq(results, LAMBDA r : r.opcode # "READ_RSP")).elements
        last  == LastElement.handle
        stored == results' = result_append("READ_RSP", <<asked[Len(asked) - toRead + 1]>>)
    IN
    /\ toRead > 0
    /\ UNCHANGED start_handle
    /\ \/ /\ toRead > 1 /\ toRead' = toRead - 1 /\ stored
          /\ UNCHANGED <<kind, end_handle, first_handle, asked_from, att_holds, op_id, ref_count, caller_ref, outcome, calls, cancelled, peer>>
       \/ UNCHANGED results /\ Complete(FALSE, "none", FALSE)         \* an error
       \/ stored /\ toRead > 1 /\ Complete(FALSE, "none", FALSE)     \* the next read cannot be sent
       \/ stored /\ toRead = 1 /\ last = end_handle /\ Complete(TRUE, "none", FALSE)
       \/ stored /\ toRead = 1 /\ last # end_handle /\ (Again(Plus1(last)) \/ Complete(FALSE, "none", TRUE))

\* A procedure is out: Att holds one operation for it.
Answered ==
    \/ \E answer \in Answers :
          \/ read_by_grp_type_cb(answer) \/ find_by_type_val_cb(answer) \/ discover_chrcs_cb(answer)
          \/ read_by_type_cb(answer) \/ discover_descs_cb(answer) \/ discover_included_cb(answer) \/ read_included(answer)
    \/ read_included_cb
    \/ read_by_type_zero
    \/ AnswerError(Kinds)

-----------------------------------------------------------------------------
(* The caller.  After a cancel that missed, the request may be freed under the caller's      *)
(* reference; what then happens when it uses the request again is not followed.              *)

\* Att destroys the operation, which drops its reference, if op->id is the one that is out.
bt_gatt_request_cancel ==
    /\ ref_count > 0 /\ caller_ref /\ op_id # "0"
    /\ op_id' = "0"
    /\ IF op_id = "set" /\ att_holds
       THEN cancelled' = "yes" /\ att_holds' = FALSE /\ ref_count' = ref_count - 1
       ELSE cancelled' = (IF att_holds THEN "missed" ELSE cancelled) /\ UNCHANGED <<att_holds, ref_count>>
    /\ UNCHANGED <<kind, start_handle, end_handle, first_handle, asked_from, results, toRead, caller_ref, outcome, calls, peer>>

bt_gatt_request_unref ==
    /\ ref_count > 0 /\ caller_ref
    /\ caller_ref' = FALSE /\ ref_count' = ref_count - 1
    /\ UNCHANGED <<kind, start_handle, end_handle, first_handle, asked_from, results, toRead, att_holds, op_id, outcome, calls, cancelled, peer>>

\* bt_gatt_exchange_mtu and its answer: the smaller of both sides, if bt_att_set_mtu takes it.
mtu_cb(client_rx_mtu, server_rx_mtu) ==
    LET mtu == IF client_rx_mtu < server_rx_mtu THEN client_rx_mtu ELSE server_rx_mtu IN
    /\ kind = "idle" /\ att_mtu' = IF mtu < 23 THEN att_mtu ELSE mtu
    /\ UNCHANGED <<database, strict, kind, start_handle, end_handle, first_handle, asked_from, results, toRead, att_holds, op_id,
                   ref_count, caller_ref, outcome, calls, cancelled>>

Next ==
    \/ \E from, to \in 1..MaxHandle :
          \/ discover_services(from, to) \/ bt_gatt_discover_included_services(from, to)
          \/ bt_gatt_discover_characteristics(from, to) \/ bt_gatt_discover_descriptors(from, to)
          \/ bt_gatt_read_by_type(from, to)
    \/ Answered
    \/ bt_gatt_request_cancel \/ bt_gatt_request_unref
    \/ \E c, s \in {22, 23, 64} : mtu_cb(c, s)

-----------------------------------------------------------------------------
(* Properties *)

\* The handles are within the range, and no PDU of the results is empty.
TypeOK ==
    /\ kind \in Kinds \cup {"idle"}
    /\ {start_handle, end_handle, first_handle, asked_from} \subseteq Handles
    /\ \A i \in DOMAIN results : results[i].elements \in Seq(Attribute) /\ results[i].elements # <<>>
    /\ toRead \in Nat
    /\ op_id \in {"set", "old", "0"}
    /\ ref_count \in -1..2     \* -1: dropped after it was freed
    /\ outcome \in {"none", "success", "failure", "crashed"} /\ cancelled \in {"no", "yes", "missed"}

\* A search that reports success has found every attribute of its type in its range once,
\* in order, however the peer divides them into answers, and this is what the iterators read
\* from the answers: each with its own UUID, and with its own end except that a
\* characteristic reaches to the next and the last group may be brought back into the range.
FoundAll ==
    strict /\ outcome = "success" =>
        LET all == Matches(first_handle) IN
        /\ result_element_count = Len(all) /\ Len(Iterated) = Len(all)
        /\ \A i \in DOMAIN all :
              /\ Iterated[i].handle = all[i].handle /\ Iterated[i].uuid = all[i].handle
              /\ Iterated[i].end \in (IF kind = "chrcs" THEN {IF i = Len(all) THEN end_handle ELSE all[i + 1].handle - 1}
                                     ELSE {all[i].end, end_handle})

\* The callback is called once, never after the request was cancelled, and the request
\* lives exactly as long as Att or its caller holds it, unless it was cancelled while
\* UUIDs of included services are read, which misses the operation that is out.
CompletedOnce ==
    cancelled # "missed" =>
        /\ calls <= 1 /\ (cancelled = "yes" => calls = 0)
        /\ ref_count = (IF att_holds THEN 1 ELSE 0) + (IF caller_ref THEN 1 ELSE 0)
        /\ kind # "idle" /\ ~att_holds /\ cancelled = "no" => calls = 1

\* With a peer that answers what it was asked, a further request starts behind all that was
\* found, so that the search ends.
SearchAdvances ==
    strict /\ att_holds /\ toRead = 0 => \A i \in DOMAIN Elements : Elements[i].handle < asked_from
=============================================================================
