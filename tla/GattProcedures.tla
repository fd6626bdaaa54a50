---------------------------- MODULE GattProcedures ----------------------------
(***************************************************************************)
(* The procedures of attrib/gatt.c on top of GAttrib, which Connection of  *)
(* Ble_old uses: discovering services, included services, characteristics  *)
(* and descriptors, and reading and writing values that may need several   *)
(* requests.  One procedure at a time.                                     *)
(*                                                                         *)
(* GAttrib is external here (see GAttrib): it takes every request while    *)
(* the link is up, calls it back in the order it was sent and then calls   *)
(* its destroy function; a cancelled one is only destroyed.  A handle is a *)
(* number up to LastProcHandle, which stands for 0xffff; a value is its    *)
(* length.  UUIDs are compared by mark: is it the one that is looked for,  *)
(* or, of an included service, one of 128 bits?                            *)
(***************************************************************************)
EXTENDS Integers, Sequences, FiniteSets, SequencesExt

CONSTANTS LastProcHandle,
          ProcMtu,              \* the length of a PDU, buflen
          MaxLength             \* bound: the length of a value

VARIABLES
    gp_kind,        \* the procedure, or "idle" before it is called
    gp_peer,        \* what the peer has: a sequence of [handle, to, mark]
    gp_len,         \* the length of the value that is read or written
    gp_start, gp_end,
    gp_asked,       \* the handles that requests of a search have started from
    gp_found,       \* primaries, includes, characteristics or descriptors
    gp_size,        \* size or offset: how much of the value has been transferred
    gp_requests,    \* the requests GAttrib holds, with the element that a UUID is read for
    gp_err,         \* isd->err
    gp_told,        \* what the caller's function was called with
    gp_cancelled,
    gp_cut,         \* has something that is no error for the caller ended it before its end?
    gp_prepared, gp_written     \* the parts of the value the peer has queued, and has written

procVars == <<gp_kind, gp_peer, gp_len, gp_start, gp_end, gp_asked, gp_found, gp_size, gp_requests, gp_err, gp_told,
              gp_cancelled, gp_cut, gp_prepared, gp_written>>

ConstantsOK == LastProcHandle \in Nat \ {0} /\ ProcMtu \in Nat /\ ProcMtu > 5 /\ MaxLength \in Nat

Handles   == 1..LastProcHandle
Primaries == {"primary", "primary_uuid"}
Chars     == {"char", "char_uuid"}
Descs     == {"desc", "desc_uuid"}
Searches  == Primaries \cup Chars \cup Descs \cup {"included"}
ByUuid    == {"primary_uuid", "char_uuid", "desc_uuid"}

Request(type, item) == [type |-> type, item |-> item]
NoItem == [handle |-> 0, to |-> 0, mark |-> FALSE]

Init ==
    /\ gp_kind = "idle" /\ gp_peer = <<>> /\ gp_len = 0 /\ gp_start = 0 /\ gp_end = 0 /\ gp_asked = <<>>
    /\ gp_found = <<>> /\ gp_size = 0 /\ gp_requests = <<>> /\ gp_err = "" /\ gp_told = <<>>
    /\ gp_cancelled = FALSE /\ gp_cut = FALSE /\ gp_prepared = <<>> /\ gp_written = <<>>

-----------------------------------------------------------------------------
(* The peer *)

\* The last handle of an element: a service ends at its first handle or before the next
\* service, and the value of a characteristic is behind its declaration.
End(k, h, used, grown) ==
    IF k \in Chars THEN h + 1
    ELSE IF k \in Primaries /\ grown
         THEN CHOOSE e \in h..LastProcHandle : h+1..e \cap used = {} /\ (e = LastProcHandle \/ e + 1 \in used)
         ELSE h

Elements(k, used, marked, grown) ==
    SelectSeq([h \in Handles |-> [handle |-> h, to |-> IF h \in used THEN End(k, h, used, grown) ELSE h, mark |-> h \in marked]],
              LAMBDA e : e.handle \in used)

PeersFor(k) ==
    UNION {{Elements(k, used, marked, grown) : marked \in SUBSET used, grown \in BOOLEAN} :
              used \in {u \in SUBSET Handles : k \in Chars => \A h \in u : h < LastProcHandle /\ h + 1 \notin u}}

\* What an answer to the search may hold: as many elements as the peer likes, of one size.
Within == SelectSeq(gp_peer, LAMBDA e : e.handle \in gp_start..gp_end /\ (gp_kind = "primary_uuid" => e.mark))
Answers ==
    {SubSeq(Within, 1, n) : n \in {m \in 1..Len(Within) :
        gp_kind = "included" => \A i \in 1..m : Within[i].mark = Within[1].mark}}

\* A peer that sends what it was not asked for.
Behind == {<<e>> : e \in {f \in Range(gp_peer) : f.to < gp_start}}

-----------------------------------------------------------------------------
(* Starting a procedure *)

Begins(k, type) ==
    /\ gp_kind = "idle" /\ gp_kind' = k /\ gp_requests' = <<Request(type, NoItem)>>
    /\ UNCHANGED <<gp_found, gp_size, gp_err, gp_told, gp_cancelled, gp_cut, gp_prepared, gp_written>>

Searched(k, from, to) ==
    /\ Begins(k, "find") /\ gp_peer' \in PeersFor(k)
    /\ gp_start' = from /\ gp_end' = to /\ gp_asked' = <<from>> /\ UNCHANGED gp_len

gatt_discover_primary == \E k \in Primaries : Searched(k, 1, LastProcHandle)
gatt_find_included    == \E to \in {LastProcHandle - 1, LastProcHandle} : Searched("included", 1, to)
\* No characteristic lies on the edge of the service.
gatt_discover_char ==
    \E k \in Chars, to \in {LastProcHandle - 1, LastProcHandle} :
        Searched(k, 1, to) /\ \A e \in Range(gp_peer') : e.handle # to
gatt_discover_desc == \E k \in Descs, from \in 1..2, to \in {LastProcHandle - 1, LastProcHandle} : Searched(k, from, to)

Transferred(k, type) ==
    /\ Begins(k, type) /\ gp_len' \in 0..MaxLength
    /\ UNCHANGED <<gp_peer, gp_start, gp_end, gp_asked>>

gatt_read_char == Transferred("read", "read")
\* A value that fits goes in one request.
gatt_write_char == Transferred("write", "write") /\ gp_len' <= ProcMtu - 3
gatt_write_char_long == Transferred("write", "prepare") /\ gp_len' > ProcMtu - 3
\* The requests and the commands whose function GAttrib calls itself.
gatt_exchange_mtu == Transferred("plain", "plain")
gatt_write_cmd    == Transferred("command", "command")

-----------------------------------------------------------------------------
(* The callbacks: GAttrib destroys the request after them *)

CalledFor(type) == gp_requests # <<>> /\ Head(gp_requests).type = type

\* The request is over, more are sent behind the others that wait.
Sends(more) == gp_requests' = Tail(gp_requests) \o more
Tells(result) == gp_told' = Append(gp_told, result)

Over(result) == Sends(<<>>) /\ Tells(result)
OnlySearch   == UNCHANGED <<gp_kind, gp_peer, gp_len, gp_end, gp_size, gp_err, gp_cancelled, gp_prepared, gp_written>>

\* Mutant of Follows: the search starts again at the last handle.
FollowsSame(last) == last
\* The handle the search goes on from.
Follows(last) == last + 1

\* Mutant of Advances: an answer is not compared with what was asked for.
AdvancesAlways(last) == TRUE
Advances(last) == last >= gp_start

\* Elements of an answer are kept and the search goes on behind the last one.
Search(kept, last, more) ==
    /\ gp_found' = gp_found \o kept
    /\ IF ~Advances(last) THEN Over("error") /\ UNCHANGED <<gp_start, gp_asked>>
       ELSE /\ gp_start' = Follows(last)
            /\ IF more THEN /\ Sends(<<Request("find", NoItem)>>) /\ gp_asked' = Append(gp_asked, gp_start')
                            /\ UNCHANGED gp_told
               ELSE Over("success") /\ UNCHANGED gp_asked
    /\ UNCHANGED gp_cut /\ OnlySearch

\* An error, ATTR_NOT_FOUND among them, or an answer that cannot be decoded.
Fails(not_found) ==
    /\ \/ Within = <<>> /\ Over(not_found)
       \/ Over("error")
    /\ UNCHANGED <<gp_start, gp_asked, gp_found, gp_cut>> /\ OnlySearch

\* Only here an answer that cannot be decoded ends the search without an error.
primary_by_uuid_cb ==
    /\ CalledFor("find") /\ gp_kind = "primary_uuid"
    /\ \/ \E a \in Answers \cup Behind : Search(a, Last(a).to, Last(a).to # LastProcHandle)
       \/ Fails("success")
       \/ /\ Over("success") /\ gp_cut' = (Within # <<>>)
          /\ UNCHANGED <<gp_start, gp_asked, gp_found>> /\ OnlySearch

primary_all_cb ==
    /\ CalledFor("find") /\ gp_kind = "primary"
    /\ \/ \E a \in Answers \cup Behind : Search(a, Last(a).to, Last(a).to # LastProcHandle)
       \/ Fails("success")

\* ATTR_NOT_FOUND is an error if nothing has been found.
NotFound == IF gp_found = <<>> THEN "not_found" ELSE "success"
Wanted(a) == SelectSeq(a, LAMBDA e : gp_kind \in ByUuid => e.mark)

char_discovered_cb ==
    /\ CalledFor("find") /\ gp_kind \in Chars
    /\ \/ \E a \in Answers \cup Behind : Search(Wanted(a), Last(a).handle, Last(a).handle + 1 < gp_end)
       \/ Fails(NotFound)

\* With a UUID the search ends at the first descriptor that has it.
UpToUuid(a) ==
    LET hits == {i \in DOMAIN a : a[i].mark} IN
    IF gp_kind = "desc_uuid" /\ hits # {} THEN SubSeq(a, 1, CHOOSE i \in hits : \A j \in hits : i <= j) ELSE a

desc_discovered_cb ==
    /\ CalledFor("find") /\ gp_kind \in Descs
    /\ \/ \E a \in Answers \cup Behind :
             LET b == UpToUuid(a) IN
             Search(Wanted(b), Last(b).handle, Last(b).handle < gp_end /\ (gp_kind = "desc_uuid" => Wanted(b) = <<>>))
       \/ Fails(NotFound)

-----------------------------------------------------------------------------
(* Included services: the caller is told when the last reference goes *)

IncludedVars == UNCHANGED <<gp_kind, gp_peer, gp_len, gp_end, gp_size, gp_cancelled, gp_cut, gp_prepared, gp_written>>

\* Mutant of isd_unref: the caller is told when the search has ended.
isd_unref_early(err) == IF gp_requests' = <<>> \/ CalledFor("find") THEN Tells(IF err = "" THEN "success" ELSE err) ELSE UNCHANGED gp_told

\* Every request holds a reference.
isd_unref(err) == IF gp_requests' = <<>> THEN Tells(IF err = "" THEN "success" ELSE err) ELSE UNCHANGED gp_told

FirstError(err) == gp_err' = (IF gp_err = "" THEN err ELSE gp_err)

\* UUIDs of 128 bits are read, each with a request that holds a reference; the search goes
\* on behind them.
find_included_cb ==
    /\ CalledFor("find") /\ gp_kind = "included" /\ IncludedVars
    /\ \/ \E a \in Answers \cup Behind :
             LET last == Last(a).handle
                 queries == IF a[1].mark THEN [i \in DOMAIN a |-> Request("resolve", a[i])] ELSE <<>> IN
             /\ gp_found' = IF a[1].mark THEN gp_found ELSE gp_found \o a
             /\ IF ~Advances(last)
                THEN gp_err' = "error" /\ Sends(queries) /\ UNCHANGED <<gp_start, gp_asked>>
                ELSE /\ gp_start' = Follows(last) /\ UNCHANGED gp_err
                     /\ IF last < gp_end
                        THEN Sends(Append(queries, Request("find", NoItem))) /\ gp_asked' = Append(gp_asked, gp_start')
                        ELSE Sends(queries) /\ UNCHANGED gp_asked
             /\ isd_unref(gp_err')
       \/ \E err \in (IF Within = <<>> THEN {"", "error"} ELSE {"error"}) :
             /\ FirstError(err) /\ Sends(<<>>) /\ isd_unref(gp_err')
             /\ UNCHANGED <<gp_start, gp_asked, gp_found>>

resolve_included_uuid_cb ==
    /\ CalledFor("resolve") /\ IncludedVars
    /\ \E err \in {"", "error"} :
          /\ FirstError(err)
          /\ gp_found' = IF err = "" THEN Append(gp_found, Head(gp_requests).item) ELSE gp_found
    /\ Sends(<<>>) /\ isd_unref(gp_err')
    /\ UNCHANGED <<gp_start, gp_asked>>

-----------------------------------------------------------------------------
(* Values *)

OnlyValue == UNCHANGED <<gp_kind, gp_peer, gp_len, gp_start, gp_end, gp_asked, gp_found, gp_err, gp_cancelled>>
Smaller(a, b) == IF a < b THEN a ELSE b
Payload == ProcMtu - 1

\* Mutant of Full: the last part of a value is one that fills more than a PDU.
FullNever(n) == n > Payload
\* Does the answer fill the PDU, so that there may be more?
Full(n) == n >= Payload

read_char_helper ==
    LET n == Smaller(Payload, gp_len) IN
    /\ CalledFor("read") /\ OnlyValue /\ UNCHANGED <<gp_cut, gp_prepared, gp_written>>
    /\ \/ Over("error") /\ UNCHANGED gp_size
       \/ /\ gp_size' = n
          /\ IF Full(n) THEN Sends(<<Request("blob", NoItem)>>) /\ UNCHANGED gp_told ELSE Over("success")

\* Any error is taken for the end of the value.
read_blob_helper ==
    LET n == Smaller(Payload, gp_len - gp_size) IN
    /\ CalledFor("blob") /\ OnlyValue /\ UNCHANGED <<gp_prepared, gp_written>>
    /\ \/ Over("success") /\ gp_cut' = (gp_size < gp_len) /\ UNCHANGED gp_size
       \/ /\ gp_size' = gp_size + n /\ UNCHANGED gp_cut
          /\ IF Full(n) THEN Sends(<<Request("blob", NoItem)>>) /\ UNCHANGED gp_told ELSE Over("success")

\* The value is written in one request; GAttrib calls the caller's function.
write_done ==
    /\ CalledFor("write") /\ OnlyValue /\ UNCHANGED <<gp_size, gp_cut, gp_prepared>>
    /\ \/ Over("error") /\ UNCHANGED gp_written
       \/ Over("success") /\ gp_written' = <<[from |-> 0, to |-> gp_len]>>

\* Mutant of Part: the part is as long as a PDU, of which the header takes some.
PartLong == Smaller(ProcMtu, gp_len - gp_size)
\* prepare_write: how much of the value goes into the next request.
Part == Smaller(ProcMtu - 5, gp_len - gp_size)

\* The peer queues what fits into a PDU; the answer repeats it.  An error ends the
\* procedure and leaves the parts with the peer.
prepare_write_cb ==
    LET n == Smaller(Part, ProcMtu - 5) IN
    /\ CalledFor("prepare") /\ OnlyValue /\ UNCHANGED <<gp_cut, gp_written>>
    /\ \/ Over("error") /\ UNCHANGED <<gp_size, gp_prepared>>
       \/ /\ gp_size' = gp_size + Part
          /\ gp_prepared' = Append(gp_prepared, [from |-> gp_size, to |-> gp_size + n])
          /\ Sends(<<Request(IF gp_size' = gp_len THEN "execute" ELSE "prepare", NoItem)>>)
          /\ UNCHANGED gp_told

\* execute_write has been answered.  A peer that fails may have written some parts before.
execute_write ==
    /\ CalledFor("execute") /\ OnlyValue /\ UNCHANGED <<gp_size, gp_cut>>
    /\ gp_prepared' = <<>>
    /\ \/ Over("error") /\ \E n \in 0..Len(gp_prepared) : gp_written' = SubSeq(gp_prepared, 1, n)
       \/ Over("success") /\ gp_written' = gp_prepared

plain_done == CalledFor("plain") /\ (Over("success") \/ Over("error")) /\ OnlyValue /\ UNCHANGED <<gp_size, gp_cut, gp_prepared, gp_written>>
command_done == CalledFor("command") /\ Sends(<<>>) /\ OnlyValue /\ UNCHANGED <<gp_told, gp_size, gp_cut, gp_prepared, gp_written>>

\* g_attrib_cancel with the id the procedure returned, which is that of the first prepared
\* write only: one request is destroyed and not called back.  With several of the id it is
\* the first, and of an included search the caller is told all the same.
g_attrib_cancel ==
    /\ gp_requests # <<>> /\ (CalledFor("prepare") => gp_size = 0) /\ ~CalledFor("execute")
    /\ gp_cancelled' = TRUE /\ Sends(<<>>)
    /\ IF gp_kind = "included" THEN isd_unref(gp_err) ELSE UNCHANGED gp_told
    /\ UNCHANGED <<gp_kind, gp_peer, gp_len, gp_start, gp_end, gp_asked, gp_found, gp_size, gp_err, gp_cut, gp_prepared, gp_written>>

-----------------------------------------------------------------------------
Next ==
    \/ gatt_discover_primary \/ gatt_find_included \/ gatt_discover_char \/ gatt_discover_desc
    \/ gatt_read_char \/ gatt_write_char \/ gatt_write_char_long \/ gatt_exchange_mtu \/ gatt_write_cmd
    \/ primary_by_uuid_cb \/ primary_all_cb \/ char_discovered_cb \/ desc_discovered_cb
    \/ find_included_cb \/ resolve_included_uuid_cb
    \/ read_char_helper \/ read_blob_helper \/ write_done \/ prepare_write_cb \/ execute_write
    \/ plain_done \/ command_done \/ g_attrib_cancel

-----------------------------------------------------------------------------
(* Properties *)

\* What is asked for and found are handles and elements of the peer.
TypeOK ==
    /\ gp_kind \in Searches \cup {"idle", "read", "write", "plain", "command"}
    /\ Range(gp_asked) \subseteq 1..LastProcHandle
    /\ gp_size \in 0..MaxLength

\* The caller is told once, and not before the last request that refers to the structure is
\* over: of an included search that is the one after which the UUIDs have been read.  Only
\* who has cancelled may not be told.
CompletedOnce ==
    /\ Len(gp_told) <= 1 /\ (gp_told # <<>> => gp_requests = <<>>)
    /\ gp_kind \notin {"idle", "command"} /\ gp_requests = <<>> => gp_cancelled \/ Len(gp_told) = 1

\* What a search that was not cancelled reports without an error is all that the peer has
\* in the range, once and in order, however it is divided into answers; with a UUID it is
\* all that has it, or the first descriptor.  A search for primary services by UUID reports
\* what it has so far, without an error, if an answer cannot be decoded (gp_cut).
Expected == SelectSeq(gp_peer, LAMBDA e : e.handle \in gp_asked[1]..gp_end /\ (gp_kind \in ByUuid => e.mark))
FoundAll ==
    gp_kind \in Searches /\ gp_told \in {<<"success">>, <<"not_found">>} /\ ~gp_cancelled /\ ~gp_cut =>
        gp_found = IF gp_kind = "desc_uuid" THEN SubSeq(Expected, 1, Smaller(1, Len(Expected))) ELSE Expected

\* "otherwise we might enter infinite loop": each request of a search starts behind the one
\* before, whatever the peer answers.
SearchAdvances == \A i \in 1..Len(gp_asked) - 1 : gp_asked[i] < gp_asked[i + 1]

\* A value that is read without an error is the whole value, also when it fills its last PDU.
ReadWhole == gp_kind = "read" /\ gp_told = <<"success">> /\ ~gp_cut => gp_size = gp_len

\* What the peer writes are parts of the value that follow each other from its beginning; it
\* is the whole value when the caller is told that it was written, and nothing when a part
\* was not prepared.
WriteWhole ==
    /\ gp_written # <<>> => gp_written[1].from = 0
    /\ \A i \in 1..Len(gp_written) - 1 : gp_written[i].to = gp_written[i + 1].from
    /\ gp_kind = "write" /\ gp_told = <<"success">> => gp_written # <<>> /\ Last(gp_written).to = gp_len
    /\ gp_written # <<>> => gp_told # <<>> /\ (gp_size = gp_len \/ gp_len <= ProcMtu - 3)
=============================================================================
