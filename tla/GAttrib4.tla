------------------------------- MODULE GAttrib4 -------------------------------
(***************************************************************************)
(* GAttrib of bluez4 (attrib/gattrib.c): requests wait in a queue, one at  *)
(* a time is sent and stays at its head until it is answered; responses    *)
(* have a queue of their own and go first.  A request that is not answered *)
(* in time makes the connection stale.                                     *)
(*                                                                         *)
(* ga_call is the callback that runs, from which the interface is called   *)
(* as well.  Assumed: the peer answers what it was sent; the id of an      *)
(* earlier request is given only in the callback of that request, which    *)
(* is how gatt.c continues reading a long value (such a request is queued  *)
(* in front, even of one that was sent); and the last reference is not     *)
(* dropped in a callback, since that of a response holds none.  The        *)
(* handlers of events are left out.                                        *)
(***************************************************************************)
EXTENDS Integers, Sequences, FiniteSets, SequencesExt

CONSTANTS MaxGCommands      \* bound: commands that are sent

VARIABLES
    ga_requests, ga_responses,      \* queues of commands
    ga_writer,                      \* is write_watch set?  It holds a reference.
    ga_timer,                       \* timeout_watch
    ga_stale,
    ga_user,                        \* does the user hold a reference?
    ga_freed,
    ga_call,
    ga_log,                         \* per command, the functions called for it
    ga_told,                        \* per command, the one whose answer it was given
    ga_peer,                        \* requests that the peer has not answered
    ga_asleep                       \* has a write failed since the sender was woken up?

gaQueues  == <<ga_requests, ga_responses>>
gattrib4Vars == <<gaQueues, ga_writer, ga_timer, ga_stale, ga_user, ga_freed, ga_call, ga_log, ga_told, ga_peer, ga_asleep>>

ConstantsOK == MaxGCommands \in Nat

GIds    == 1..MaxGCommands
NoGCall == [kind |-> "none", id |-> 0, wakes |-> FALSE]
GSent   == Cardinality({i \in GIds : ga_log[i] # <<"unused">>})

\* g_attrib_new
Init ==
    /\ ga_requests = <<>> /\ ga_responses = <<>> /\ ga_writer = FALSE /\ ga_timer = FALSE
    /\ ga_stale = FALSE /\ ga_user = TRUE /\ ga_freed = FALSE /\ ga_call = NoGCall
    /\ ga_log = [i \in GIds |-> <<"unused">>] /\ ga_told = [i \in GIds |-> 0] /\ ga_peer = <<>> /\ ga_asleep = FALSE

GUser == ga_user /\ ~ga_freed
GLoop == ga_call = NoGCall /\ ~ga_freed

Logged(log, i, entry) == [log EXCEPT ![i] = Append(@, entry)]
command_destroy(log, i) == Logged(log, i, "destroy")
DestroyAll(log, cmds) == [i \in GIds |-> IF \E c \in cmds : c.id = i THEN Append(log[i], "destroy") ELSE log[i]]

wake_up_sender == ga_writer' = TRUE /\ ga_asleep' = FALSE

-----------------------------------------------------------------------------
(* The interface *)

\* Mutant of Wakes: the sender is woken up for the first request only.
WakesFirst(queue) == FALSE

\* g_attrib_send wakes the sender if the queue was empty.
Wakes(queue) == Len(queue) = 1

Queued(kind, front, i) ==
    LET c == [id |-> i, expects |-> kind = "request", sent |-> FALSE, func |-> TRUE] IN
    /\ ga_log' = [ga_log EXCEPT ![i] = <<>>]
    /\ IF kind = "response"
       THEN ga_responses' = Append(ga_responses, c) /\ UNCHANGED ga_requests
       ELSE ga_requests' = (IF front THEN <<c>> \o ga_requests ELSE Append(ga_requests, c)) /\ UNCHANGED ga_responses
    /\ IF Wakes(IF kind = "response" THEN ga_responses' ELSE ga_requests') THEN wake_up_sender ELSE UNCHANGED <<ga_writer, ga_asleep>>

g_attrib_send(kind) ==
    /\ GUser /\ ~ga_stale /\ GSent < MaxGCommands
    /\ Queued(kind, FALSE, GSent + 1)
    /\ UNCHANGED <<ga_timer, ga_stale, ga_user, ga_freed, ga_call, ga_told, ga_peer>>

\* The callback of a response sends on with the id it was called for.
g_attrib_send_again ==
    /\ GUser /\ ~ga_stale /\ GSent < MaxGCommands /\ ga_call.kind = "response" /\ ga_call.id # 0
    /\ Queued("request", TRUE, GSent + 1)
    /\ ga_call' = [ga_call EXCEPT !.id = 0]
    /\ UNCHANGED <<ga_timer, ga_stale, ga_user, ga_freed, ga_told, ga_peer>>

\* Mutant of Cancelled: a request that was sent leaves the queue too.
CancelledSent(queue, ids) == SelectSeq(queue, LAMBDA c : c.id \notin ids)

\* A command that was sent stays at the head of the queue without its function.
Cancelled(queue, ids) ==
    SelectSeq([k \in DOMAIN queue |-> IF queue[k].id \in ids THEN [queue[k] EXCEPT !.func = FALSE] ELSE queue[k]],
              LAMBDA c : c.id \notin ids \/ c.sent)

Cancel(ids) ==
    /\ ga_requests' = Cancelled(ga_requests, ids) /\ ga_responses' = Cancelled(ga_responses, ids)
    /\ ga_log' = DestroyAll(ga_log, {c \in Range(ga_requests) \cup Range(ga_responses) :
                                        c.id \in ids /\ \A d \in Range(ga_requests') : d.id # c.id})
    /\ UNCHANGED <<ga_writer, ga_timer, ga_stale, ga_user, ga_freed, ga_call, ga_told, ga_peer, ga_asleep>>

InQueues == {c.id : c \in Range(ga_requests) \cup Range(ga_responses)}
g_attrib_cancel(i)  == GUser /\ i \in InQueues /\ Cancel({i})
g_attrib_cancel_all == GUser /\ InQueues # {} /\ Cancel(InQueues)

\* attrib_destroy, when neither the user nor the sender holds a reference.
Release ==
    IF ga_user' \/ ga_writer' THEN UNCHANGED <<ga_freed, ga_log, ga_requests, ga_responses, ga_timer>>
    ELSE /\ ga_freed' = TRUE /\ ga_requests' = <<>> /\ ga_responses' = <<>> /\ ga_timer' = FALSE
         /\ ga_log' = DestroyAll(ga_log, Range(ga_requests) \cup Range(ga_responses))

g_attrib_unref ==
    /\ GUser /\ ga_call = NoGCall
    /\ ga_user' = FALSE /\ UNCHANGED ga_writer /\ Release
    /\ UNCHANGED <<ga_stale, ga_call, ga_told, ga_peer, ga_asleep>>

-----------------------------------------------------------------------------
(* The main loop *)

NothingToWrite == ga_responses = <<>> /\ (IF ga_requests = <<>> THEN TRUE ELSE Head(ga_requests).sent)
NextCommand == IF ga_responses # <<>> THEN Head(ga_responses) ELSE Head(ga_requests)

\* can_write_data returns FALSE: the watch is destroyed and its reference dropped.
Asleep(failed) ==
    /\ ga_writer' = FALSE /\ ga_asleep' = (ga_asleep \/ failed) /\ UNCHANGED ga_user /\ Release
    /\ UNCHANGED <<ga_stale, ga_call, ga_told, ga_peer>>

\* Nothing is left to write, it was written before, or it cannot be written.
can_write_data_stops ==
    /\ GLoop /\ ga_writer
    /\ \/ (ga_stale \/ NothingToWrite) /\ Asleep(FALSE)
       \/ Asleep(TRUE)

\* A response, or a command that needs no answer.
can_write_data ==
    LET c == NextCommand IN
    /\ GLoop /\ ga_writer /\ ~ga_stale /\ ~NothingToWrite /\ ~c.expects
    /\ ga_responses' = IF ga_responses # <<>> THEN Tail(ga_responses) ELSE ga_responses
    /\ ga_requests' = IF ga_responses # <<>> THEN ga_requests ELSE Tail(ga_requests)
    /\ ga_log' = command_destroy(ga_log, c.id)
    /\ UNCHANGED <<ga_writer, ga_timer, ga_stale, ga_user, ga_freed, ga_call, ga_told, ga_peer, ga_asleep>>

\* A request: it stays at the head and the watch is destroyed.
can_write_data_request ==
    LET c == NextCommand IN
    /\ GLoop /\ ga_writer /\ ~ga_stale /\ ~NothingToWrite /\ c.expects
    /\ ga_writer' = FALSE /\ ga_peer' = Append(ga_peer, c.id)
    /\ IF ga_user
       THEN /\ ga_requests' = [ga_requests EXCEPT ![1].sent = TRUE] /\ ga_timer' = TRUE
            /\ UNCHANGED <<ga_log, ga_responses, ga_freed>>
       ELSE /\ ga_freed' = TRUE /\ ga_requests' = <<>> /\ ga_timer' = FALSE /\ UNCHANGED ga_responses
            /\ ga_log' = DestroyAll(ga_log, Range(ga_requests))
    /\ UNCHANGED <<ga_stale, ga_user, ga_call, ga_told, ga_asleep>>

\* A response or an error: the head of the queue gets it.
received_data ==
    LET c == Head(ga_requests) IN
    /\ GLoop /\ ~ga_stale /\ ga_peer # <<>> /\ ga_requests # <<>>
    /\ ga_timer' = FALSE /\ ga_requests' = Tail(ga_requests) /\ ga_peer' = Tail(ga_peer)
    /\ ga_told' = [ga_told EXCEPT ![c.id] = Head(ga_peer)]
    /\ ga_log' = IF c.func THEN Logged(ga_log, c.id, "func") ELSE ga_log
    /\ ga_call' = [kind |-> "response", id |-> c.id, wakes |-> Tail(ga_requests) # <<>> \/ ga_responses # <<>>]
    /\ UNCHANGED <<ga_responses, ga_writer, ga_stale, ga_user, ga_freed, ga_asleep>>

\* The read has failed: nobody is told, what is queued is tried again.
received_data_fails ==
    /\ GLoop /\ ~ga_stale /\ InQueues # {}
    /\ wake_up_sender
    /\ UNCHANGED <<gaQueues, ga_timer, ga_stale, ga_user, ga_freed, ga_call, ga_log, ga_told, ga_peer>>

\* The command whose function has returned: id is 0 if its id has been used again.
CallOf == CHOOSE i \in GIds : ga_log[i] # <<"unused">> /\ i \notin InQueues /\ (ga_log[i] = <<>> \/ Last(ga_log[i]) # "destroy")

\* The function has returned; what was queued before it was called is sent now.
received_data_done ==
    /\ ga_call.kind = "response" /\ ~ga_freed
    /\ ga_log' = command_destroy(ga_log, CallOf)
    /\ IF ga_call.wakes THEN wake_up_sender ELSE UNCHANGED <<ga_writer, ga_asleep>>
    /\ ga_call' = NoGCall
    /\ UNCHANGED <<gaQueues, ga_timer, ga_stale, ga_user, ga_freed, ga_told, ga_peer>>

\* The next request is taken from the queue and its function called; after the last one the
\* connection is stale.
TimeoutNext(log) ==
    IF ga_requests = <<>>
    THEN ga_stale' = TRUE /\ ga_call' = NoGCall /\ ga_log' = log /\ UNCHANGED ga_requests
    ELSE /\ ga_requests' = Tail(ga_requests) /\ UNCHANGED ga_stale
         /\ ga_call' = [kind |-> "timeout", id |-> Head(ga_requests).id, wakes |-> FALSE]
         /\ ga_log' = IF Head(ga_requests).func THEN Logged(log, Head(ga_requests).id, "func") ELSE log

\* The request at the head has timed out, and the others are aborted.
disconnect_timeout ==
    /\ GLoop /\ ga_timer /\ ga_timer' = FALSE
    /\ TimeoutNext(ga_log)
    /\ UNCHANGED <<ga_responses, ga_writer, ga_user, ga_freed, ga_told, ga_peer, ga_asleep>>

disconnect_timeout_next ==
    /\ ga_call.kind = "timeout"
    /\ TimeoutNext(command_destroy(ga_log, ga_call.id))
    /\ UNCHANGED <<ga_responses, ga_writer, ga_timer, ga_user, ga_freed, ga_told, ga_peer, ga_asleep>>

-----------------------------------------------------------------------------
Next ==
    \/ \E kind \in {"request", "command", "response"} : g_attrib_send(kind)
    \/ g_attrib_send_again
    \/ \E i \in GIds : g_attrib_cancel(i)
    \/ g_attrib_cancel_all \/ g_attrib_unref
    \/ can_write_data_stops \/ can_write_data \/ can_write_data_request
    \/ received_data \/ received_data_fails \/ received_data_done
    \/ disconnect_timeout \/ disconnect_timeout_next

-----------------------------------------------------------------------------
(* Properties *)

\* The queues hold commands that were made.
TypeOK == InQueues \subseteq GIds /\ \A i \in GIds : ga_told[i] \in 0..MaxGCommands

\* Every command is destroyed once and last, its function called at most once before; what
\* is not in a queue and not being called is destroyed.
CompletedOnce ==
    \A i \in GIds :
        /\ ga_log[i] \in {<<"unused">>, <<>>, <<"func">>, <<"destroy">>, <<"func", "destroy">>}
        /\ i \in InQueues => ga_log[i] = <<>>
        /\ ga_call = NoGCall /\ i \notin InQueues => ga_log[i] \in {<<"unused">>, <<"destroy">>, <<"func", "destroy">>}

\* The answer that a request is given is its own, through cancels, requests that are queued
\* in front and ones that were cancelled after they were sent.
AnswersBelong == \A i \in GIds : ga_told[i] \in {0, i}

\* What can be sent has a sender, or a callback runs after which one is woken up, unless a
\* write has failed; a request that was sent has a timeout.
NothingWaits ==
    ~ga_freed /\ ~ga_stale =>
        /\ ga_responses # <<>> \/ (ga_requests # <<>> /\ ~Head(ga_requests).sent)
              => ga_writer \/ ga_asleep \/ ga_call.wakes \/ ga_call.kind = "timeout"
        /\ \A k \in DOMAIN ga_requests : ga_requests[k].sent => k = 1 /\ (ga_timer \/ ga_call.kind = "timeout")
=============================================================================
