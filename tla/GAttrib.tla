-------------------------------- MODULE GAttrib --------------------------------
(***************************************************************************)
(* GAttrib of bluez5 (attrib/gattrib.c): the older interface on top of     *)
(* bt_att.  Each request and each notification handler has a structure in  *)
(* the queue callbacks, which bt_att is given and whose destroy function   *)
(* removes it; track_ids pairs the id that the caller knows with that of   *)
(* bt_att, so that g_attrib_cancel finds the request.                      *)
(*                                                                         *)
(* bt_att is external here (Att models it): it holds requests and          *)
(* handlers, calls them and, once, their destroy function.  Assumed: no    *)
(* other owner holds bt_att, an id is given only in the callback of the    *)
(* request that has it, as gatt.c does, destroy functions call nothing     *)
(* back and the last reference is not dropped in a callback.               *)
(***************************************************************************)
EXTENDS Integers, Sequences, FiniteSets, SequencesExt

CONSTANTS MaxGCalls,        \* bound: requests and handlers
          MaxMtu            \* bound: an MTU; the smallest that bt_att takes is 2

VARIABLES
    gb_callbacks,           \* the structures in the queue callbacks
    gb_track,               \* track_ids: pairs of ids, and the structure each is for
    gb_requests,            \* requests that bt_att holds
    gb_handlers,            \* handlers that bt_att holds
    gb_call,                \* the request whose result_func runs, or 0
    gb_log,                 \* per structure, the functions that were called
    gb_freed,
    gb_mtu, gb_buflen, gb_alloc     \* bt_att's MTU, buflen and the size of buf

bufferVars  == <<gb_mtu, gb_buflen, gb_alloc>>
gattribVars == <<gb_callbacks, gb_track, gb_requests, gb_handlers, gb_call, gb_log, gb_freed, bufferVars>>

ConstantsOK == MaxGCalls \in Nat /\ MaxMtu \in Nat

GCalls == 1..MaxGCalls
Mtus   == 1..MaxMtu
MinMtu == 2                 \* BT_ATT_DEFAULT_LE_MTU
Made   == {i \in GCalls : gb_log[i] # <<"unused">>}
NewId  == Cardinality(Made) + 1

\* g_attrib_new
Init ==
    /\ gb_callbacks = {} /\ gb_track = <<>> /\ gb_requests = {} /\ gb_handlers = {} /\ gb_call = 0
    /\ gb_log = [i \in GCalls |-> <<"unused">>] /\ gb_freed = FALSE
    /\ gb_mtu \in {m \in Mtus : m >= MinMtu} /\ gb_buflen = gb_mtu /\ gb_alloc = gb_mtu

Called(log, ids, entry) == [i \in GCalls |-> IF i \in ids THEN Append(log[i], entry) ELSE log[i]]

\* Mutant of attrib_callbacks_destroy: the pair of ids stays.
attrib_callbacks_destroy_keeps(ids) == gb_log' = Called(gb_log, ids, "destroy") /\ UNCHANGED gb_track

\* The caller's destroy function is called and the pair of ids freed, if it is still there.
attrib_callbacks_destroy(ids) ==
    /\ gb_log' = Called(gb_log, ids, "destroy")
    /\ gb_track' = SelectSeq(gb_track, LAMBDA p : p.cb \notin ids)

\* The destroy function that bt_att calls: only what is in callbacks is destroyed.
attrib_callbacks_remove(ids) ==
    /\ gb_callbacks' = gb_callbacks \ ids
    /\ attrib_callbacks_destroy(ids \cap gb_callbacks)

-----------------------------------------------------------------------------
(* Requests *)

\* bt_att takes the request or does not: the structure stays in callbacks either way.
g_attrib_send(id) ==
    LET i == NewId IN
    /\ ~gb_freed /\ i \in GCalls
    /\ \E taken \in BOOLEAN :
          /\ gb_requests' = IF taken THEN gb_requests \cup {i} ELSE gb_requests
          /\ LET pend_id == IF taken THEN i ELSE 0 IN
             gb_track' = Append(gb_track, [org |-> IF id = 0 THEN pend_id ELSE id, pend |-> pend_id, cb |-> i])
    /\ gb_callbacks' = gb_callbacks \cup {i} /\ gb_log' = [gb_log EXCEPT ![i] = <<>>]
    /\ UNCHANGED <<gb_handlers, gb_call, gb_freed, bufferVars>>

\* The id of the running request, which its callback may give.
GivenIds == {0} \cup {p.org : p \in {q \in Range(gb_track) : q.cb = gb_call}}

\* bt_att has an answer, an error or a timeout for the request.
attrib_callback_result(i) ==
    /\ ~gb_freed /\ gb_call = 0 /\ i \in gb_requests
    /\ gb_call' = i /\ gb_log' = Called(gb_log, {i}, "func")
    /\ UNCHANGED <<gb_callbacks, gb_track, gb_requests, gb_handlers, gb_freed, bufferVars>>

\* The function has returned, and bt_att destroys the request if it was not cancelled in it.
ResultDone ==
    /\ gb_call # 0 /\ gb_call' = 0 /\ gb_requests' = gb_requests \ {gb_call}
    /\ attrib_callbacks_remove(gb_requests \cap {gb_call})
    /\ UNCHANGED <<gb_handlers, gb_freed, bufferVars>>

\* The first pair with this id is freed; then bt_att's cancel calls the destroy function.
g_attrib_cancel(id) ==
    /\ ~gb_freed
    /\ \E k \in DOMAIN gb_track :
          /\ gb_track[k].org = id /\ \A j \in 1..(k-1) : gb_track[j].org # id
          /\ LET done == gb_requests \cap {gb_track[k].pend} IN
             /\ gb_requests' = gb_requests \ done /\ gb_callbacks' = gb_callbacks \ done
             /\ gb_log' = Called(gb_log, done \cap gb_callbacks, "destroy")
          /\ gb_track' = RemoveAt(gb_track, k)
    /\ UNCHANGED <<gb_handlers, gb_call, gb_freed, bufferVars>>

\* Every tracked request is cancelled; the pairs that are left are freed.
g_attrib_cancel_all ==
    LET done == gb_requests \cap {p.pend : p \in Range(gb_track)} IN
    /\ ~gb_freed /\ gb_track # <<>>
    /\ gb_requests' = gb_requests \ done /\ gb_callbacks' = gb_callbacks \ done
    /\ gb_log' = Called(gb_log, done \cap gb_callbacks, "destroy")
    /\ gb_track' = <<>>
    /\ UNCHANGED <<gb_handlers, gb_call, gb_freed, bufferVars>>

-----------------------------------------------------------------------------
(* Notifications *)

g_attrib_register ==
    LET i == NewId IN
    /\ ~gb_freed /\ i \in GCalls
    /\ \E taken \in BOOLEAN : gb_handlers' = IF taken THEN gb_handlers \cup {i} ELSE gb_handlers
    /\ gb_callbacks' = gb_callbacks \cup {i} /\ gb_log' = [gb_log EXCEPT ![i] = <<>>]
    /\ UNCHANGED <<gb_track, gb_requests, gb_call, gb_freed, bufferVars>>

\* The handlers that bt_att destroys: one, or all of them.
Unregister(ids) ==
    /\ ~gb_freed /\ ids # {}
    /\ gb_handlers' = gb_handlers \ ids /\ attrib_callbacks_remove(ids)
    /\ UNCHANGED <<gb_requests, gb_call, gb_freed, bufferVars>>
g_attrib_unregister(i)  == Unregister(gb_handlers \cap {i})
g_attrib_unregister_all == Unregister(gb_handlers)

-----------------------------------------------------------------------------
(* The buffer, and the end *)

\* Mutant of Resized: the new length is taken whatever the buffer has room for.
ResizedNever(mtu) == gb_buflen' = mtu /\ UNCHANGED gb_alloc

\* The buffer grows with its length, and keeps its room when the length is reduced.
Resized(mtu) ==
    /\ gb_alloc' = IF mtu > gb_buflen THEN mtu ELSE gb_alloc
    /\ gb_buflen' = mtu

g_attrib_get_buffer ==
    /\ ~gb_freed /\ Resized(gb_mtu)
    /\ UNCHANGED <<gb_callbacks, gb_track, gb_requests, gb_handlers, gb_call, gb_log, gb_freed, gb_mtu>>

\* bt_att refuses an MTU that is too small after the length was set.
g_attrib_set_mtu(mtu) ==
    /\ ~gb_freed /\ Resized(mtu)
    /\ gb_mtu' = IF mtu >= MinMtu THEN mtu ELSE gb_mtu
    /\ UNCHANGED <<gb_callbacks, gb_track, gb_requests, gb_handlers, gb_call, gb_log, gb_freed>>

\* The last reference: bt_att destroys all it holds, then what is left in callbacks goes.
g_attrib_unref ==
    /\ ~gb_freed /\ gb_call = 0
    /\ gb_freed' = TRUE /\ gb_requests' = {} /\ gb_handlers' = {} /\ gb_callbacks' = {} /\ gb_track' = <<>>
    /\ gb_log' = Called(gb_log, gb_callbacks, "destroy")
    /\ UNCHANGED <<gb_call, bufferVars>>

-----------------------------------------------------------------------------
Next ==
    \/ \E id \in GivenIds : g_attrib_send(id)
    \/ \E i \in GCalls : attrib_callback_result(i) \/ g_attrib_cancel(i) \/ g_attrib_unregister(i)
    \/ ResultDone \/ g_attrib_cancel_all \/ g_attrib_register \/ g_attrib_unregister_all
    \/ g_attrib_get_buffer \/ \E mtu \in Mtus : g_attrib_set_mtu(mtu)
    \/ g_attrib_unref

-----------------------------------------------------------------------------
(* Properties *)

\* The queues hold structures that were made.
TypeOK == gb_callbacks \subseteq Made /\ gb_requests \cup gb_handlers \subseteq Made /\ {p.cb : p \in Range(gb_track)} \subseteq Made

\* Every structure is destroyed once, after its function and by g_attrib_unref at the latest.
CompletedOnce ==
    \A i \in Made :
        /\ gb_log[i] \in {<<>>, <<"func">>, <<"destroy">>, <<"func", "destroy">>}
        /\ i \in gb_callbacks <=> gb_log[i] \in {<<>>, <<"func">>}

\* bt_att never holds a structure that was freed, and a request it holds can be cancelled:
\* it has a pair, and a pair without a request is one that bt_att did not take.
HandlersLive ==
    /\ gb_requests \cup gb_handlers \subseteq gb_callbacks
    /\ gb_requests = {p.pend : p \in Range(gb_track)} \ {0}

\* The length that callers are given is one the buffer has room for.
BufferFits == gb_buflen <= gb_alloc
=============================================================================
