--------------------------------- MODULE Mgmt ---------------------------------
(***************************************************************************)
(* struct mgmt of bluez5 (src/shared/mgmt.c): requests to the kernel's     *)
(* management interface.  One request at a time is without an answer,      *)
(* except that replies and requests sent with mgmt_send_nowait do not wait *)
(* for it; an answer is matched by opcode and index.  Events are handed to *)
(* the handlers that are registered for them.                              *)
(*                                                                         *)
(* mgmt_cb is the callback that runs, from which the interface is called   *)
(* as well.  Assumed: the kernel answers requests of the same opcode and   *)
(* index in order, a handler does not unregister the one that follows it   *)
(* by its id (queue_foreach holds on to it), and the last reference is not *)
(* dropped in a callback that holds none.                                  *)
(***************************************************************************)
EXTENDS Integers, Sequences, FiniteSets, Functions, Lists

CONSTANTS
    MaxRequests,        \* bound: requests made
    MaxNotifiers        \* bound: handlers registered

VARIABLES
    request_queue, reply_queue, pending_list,      \* numbers of requests
    mgmt_writer,
    mgmt_kernel,        \* requests the kernel has not answered
    mgmt_log,           \* per request, the handlers called
    mgmt_told,          \* per request, the one whose answer it was given
    mgmt_notifiers,     \* notify_list: <<number, is it marked removed?>>
    mgmt_registered,    \* per handler: "no", "yes", "gone" for its user, "destroyed", "leaked"
    need_notify_cleanup,
    mgmt_cb,
    mgmt_asleep,        \* did mgmt_cancel_index leave requests that nobody sends?
    mgmt_crossed        \* has a request been cancelled that the kernel was still to answer?

mgmtQueues == <<request_queue, reply_queue, pending_list>>
mgmtEvents == <<mgmt_notifiers, mgmt_registered, need_notify_cleanup>>
mgmtVars   == <<mgmtQueues, mgmt_writer, mgmt_kernel, mgmt_log, mgmt_told, mgmtEvents, mgmt_cb, mgmt_asleep, mgmt_crossed>>

ConstantsOK == MaxRequests \in Nat /\ MaxNotifiers \in Nat

Ids       == 1..MaxRequests
Notifiers == 1..MaxNotifiers
Index(i)  == i % 2              \* of a request; all have the same opcode
NotifyIndex(n) == n % 3         \* of a handler
MGMT_INDEX_NONE == 2            \* as a handler's: any index
Alike(i)  == {j \in Ids : Index(j) = Index(i)}
NotifyEntries == Notifiers \X BOOLEAN
NoCall    == [kind |-> "none"]
Freed     == [kind |-> "freed"]

Init ==
    /\ request_queue = <<>> /\ reply_queue = <<>> /\ pending_list = <<>> /\ mgmt_writer = FALSE
    /\ mgmt_kernel = <<>> /\ mgmt_log = [i \in Ids |-> <<"unused">>] /\ mgmt_told = [i \in Ids |-> 0]
    /\ mgmt_notifiers = <<>> /\ mgmt_registered = [n \in Notifiers |-> "no"] /\ need_notify_cleanup = FALSE
    /\ mgmt_cb = NoCall /\ mgmt_asleep = FALSE /\ mgmt_crossed = FALSE

User == mgmt_cb # Freed
Loop == mgmt_cb = NoCall

-----------------------------------------------------------------------------
(* The writer *)

\* Mutant of Wakes: a pending request stops replies as well.
WakesLate(reply, pending) == pending = <<>>

Wakes(reply, pending) == pending = <<>> \/ reply # <<>>

wakeup_writer ==
    /\ mgmt_writer' = (mgmt_writer \/ Wakes(reply_queue', pending_list'))
    /\ mgmt_asleep' = (mgmt_asleep /\ ~mgmt_writer')

\* The request that goes next; only replies go while an answer is pending.
NextRequest ==
    IF reply_queue # <<>> THEN Head(reply_queue)
    ELSE IF pending_list = <<>> /\ request_queue # <<>> THEN Head(request_queue) ELSE 0

\* send_request
Sends(i) ==
    /\ pending_list' = Append(pending_list, i)
    /\ mgmt_kernel' = Append(mgmt_kernel, i)

Popped(i) ==
    /\ request_queue' = Filter(request_queue, Ids \ {i})
    /\ reply_queue' = Filter(reply_queue, Ids \ {i})

\* The watch stays only for further replies.
can_write_data ==
    /\ Loop /\ mgmt_writer
    /\ IF NextRequest = 0 THEN UNCHANGED <<mgmtQueues, mgmt_kernel>> ELSE Popped(NextRequest) /\ Sends(NextRequest)
    /\ mgmt_writer' = (reply_queue # <<>> /\ reply_queue' # <<>>)
    /\ UNCHANGED <<mgmt_log, mgmt_told, mgmtEvents, mgmt_cb, mgmt_asleep, mgmt_crossed>>

\* The write fails: the request is told so, and the watch stays.
can_write_data_fails ==
    /\ Loop /\ mgmt_writer /\ NextRequest # 0
    /\ Popped(NextRequest)
    /\ mgmt_log' = [mgmt_log EXCEPT ![NextRequest] = Append(@, "callback")]
    /\ mgmt_cb' = [kind |-> "failed", id |-> NextRequest]
    /\ UNCHANGED <<pending_list, mgmt_writer, mgmt_kernel, mgmt_told, mgmtEvents, mgmt_asleep, mgmt_crossed>>

-----------------------------------------------------------------------------
(* Requests *)

Made     == Cardinality({i \in Ids : mgmt_log[i] # <<"unused">>})
Fresh(i) == User /\ Made < MaxRequests /\ i = Made + 1
New(i)   == Fresh(i) /\ mgmt_log' = [mgmt_log EXCEPT ![i] = <<>>]

mgmt_send(i) ==
    /\ New(i) /\ request_queue' = Append(request_queue, i)
    /\ UNCHANGED <<reply_queue, pending_list>> /\ wakeup_writer
    /\ UNCHANGED <<mgmt_kernel, mgmt_told, mgmtEvents, mgmt_cb, mgmt_crossed>>

mgmt_reply(i) ==
    /\ New(i) /\ reply_queue' = Append(reply_queue, i)
    /\ UNCHANGED <<request_queue, pending_list>> /\ wakeup_writer
    /\ UNCHANGED <<mgmt_kernel, mgmt_told, mgmtEvents, mgmt_cb, mgmt_crossed>>

mgmt_send_nowait(i) ==
    /\ New(i) /\ Sends(i)
    /\ UNCHANGED <<request_queue, reply_queue, mgmt_writer, mgmt_told, mgmtEvents, mgmt_cb, mgmt_asleep, mgmt_crossed>>

\* The write fails: the request is called back and destroyed before the call returns 0.  A
\* callback that runs inside another one is assumed to call nothing.
mgmt_send_nowait_fails(i) ==
    /\ Fresh(i)
    /\ mgmt_log' = [mgmt_log EXCEPT ![i] = IF Loop THEN <<"callback">> ELSE <<"callback", "destroy">>]
    /\ mgmt_cb' = IF Loop THEN [kind |-> "failed", id |-> i] ELSE mgmt_cb
    /\ UNCHANGED <<mgmtQueues, mgmt_writer, mgmt_kernel, mgmt_told, mgmtEvents, mgmt_asleep, mgmt_crossed>>

DestroyAll(ids) == mgmt_log' = [i \in Ids |-> IF i \in ids THEN Append(mgmt_log[i], "destroy") ELSE mgmt_log[i]]
Without(q, ids) == Filter(q, Ids \ ids)
Held            == Range(request_queue) \cup Range(reply_queue) \cup Range(pending_list)

RemoveAll(ids) ==
    /\ request_queue' = Without(request_queue, ids) /\ reply_queue' = Without(reply_queue, ids)
    /\ pending_list' = Without(pending_list, ids)
    /\ DestroyAll(ids)
    /\ mgmt_crossed' = (mgmt_crossed \/ \E i \in ids : i \in Range(mgmt_kernel))

mgmt_cancel(i) ==
    /\ User /\ i \in Held /\ RemoveAll({i}) /\ wakeup_writer
    /\ UNCHANGED <<mgmt_kernel, mgmt_told, mgmtEvents, mgmt_cb>>

\* Nobody wakes the writer for the requests that are left.
mgmt_cancel_index(index) ==
    LET ids == {i \in Held : Index(i) = index} IN
    /\ User /\ ids # {} /\ RemoveAll(ids)
    /\ mgmt_asleep' = (mgmt_asleep \/ (~mgmt_writer /\ pending_list' = <<>> /\ request_queue' # <<>>))
    /\ UNCHANGED <<mgmt_writer, mgmt_kernel, mgmt_told, mgmtEvents, mgmt_cb>>

mgmt_cancel_all ==
    /\ User /\ Held # {} /\ RemoveAll(Held)
    /\ UNCHANGED <<mgmt_writer, mgmt_kernel, mgmt_told, mgmtEvents, mgmt_cb, mgmt_asleep>>

\* Mutant of Matched: the newest request of the index is answered.
MatchedLast(answer) ==
    LET s == Filter(pending_list, Alike(answer)) IN IF s = <<>> THEN 0 ELSE s[Len(s)]

\* The first pending request with the opcode and index of the answer.
Matched(answer) ==
    LET s == Filter(pending_list, Alike(answer)) IN IF s = <<>> THEN 0 ELSE Head(s)

\* The kernel has answered: the request is taken off the list before it is called back.
request_complete(answer) ==
    LET i == Matched(answer) IN
    /\ Loop /\ answer \in Range(mgmt_kernel)
    /\ answer = Head(Filter(mgmt_kernel, Alike(answer)))
    /\ mgmt_kernel' = Filter(mgmt_kernel, Ids \ {answer})
    /\ pending_list' = Filter(pending_list, Ids \ {i})
    /\ UNCHANGED <<request_queue, reply_queue>>
    /\ IF i = 0
       THEN wakeup_writer /\ UNCHANGED <<mgmt_log, mgmt_told, mgmt_cb>>
       ELSE /\ mgmt_log' = [mgmt_log EXCEPT ![i] = Append(@, "callback")]
            /\ mgmt_told' = [mgmt_told EXCEPT ![i] = answer]
            /\ mgmt_cb' = [kind |-> "complete", id |-> i]
            /\ UNCHANGED <<mgmt_writer, mgmt_asleep>>
    /\ UNCHANGED <<mgmtEvents, mgmt_crossed>>

\* The callback of a request returns.
request_done ==
    /\ mgmt_cb.kind \in {"failed", "complete"}
    /\ mgmt_log' = [mgmt_log EXCEPT ![mgmt_cb.id] = Append(@, "destroy")]
    /\ mgmt_cb' = NoCall
    /\ UNCHANGED mgmtQueues
    /\ IF mgmt_cb.kind = "complete" THEN wakeup_writer ELSE UNCHANGED <<mgmt_writer, mgmt_asleep>>
    /\ UNCHANGED <<mgmt_kernel, mgmt_told, mgmtEvents, mgmt_crossed>>

-----------------------------------------------------------------------------
(* Events *)

InNotify  == mgmt_cb.kind = "notify"
Following == IF InNotify THEN mgmt_cb.next ELSE 0

mgmt_register(n) ==
    /\ User /\ mgmt_registered[n] = "no" /\ (n > 1 => mgmt_registered[n - 1] # "no")
    /\ mgmt_registered' = [mgmt_registered EXCEPT ![n] = "yes"]
    /\ mgmt_notifiers' = Append(mgmt_notifiers, <<n, FALSE>>)
    /\ UNCHANGED <<mgmtQueues, mgmt_writer, mgmt_kernel, mgmt_log, mgmt_told, need_notify_cleanup, mgmt_cb, mgmt_asleep, mgmt_crossed>>

\* In a handler the entry has left the list that is cleaned up later: nobody destroys it.
mgmt_unregister(n) ==
    /\ User /\ n # Following /\ \E e \in Range(mgmt_notifiers) : e[1] = n
    /\ mgmt_notifiers' = Filter(mgmt_notifiers, {e \in NotifyEntries : e[1] # n})
    /\ mgmt_registered' = [mgmt_registered EXCEPT ![n] = IF InNotify THEN "leaked" ELSE "destroyed"]
    /\ need_notify_cleanup' = (need_notify_cleanup \/ InNotify)
    /\ UNCHANGED <<mgmtQueues, mgmt_writer, mgmt_kernel, mgmt_log, mgmt_told, mgmt_cb, mgmt_asleep, mgmt_crossed>>

\* mgmt_unregister_index, and mgmt_unregister_all for all of them.  In a handler
\* MGMT_INDEX_NONE stands for every index, elsewhere only for itself.
UnregisterAll(indexes) ==
    LET gone(n) == NotifyIndex(n) \in indexes \/ (InNotify /\ MGMT_INDEX_NONE \in indexes)
        there(n) == \E e \in Range(mgmt_notifiers) : e[1] = n
    IN
    /\ User /\ \E n \in Notifiers : there(n) /\ gone(n)
    /\ mgmt_notifiers' = IF InNotify
                         THEN [i \in DOMAIN mgmt_notifiers |-> <<mgmt_notifiers[i][1], mgmt_notifiers[i][2] \/ gone(mgmt_notifiers[i][1])>>]
                         ELSE Filter(mgmt_notifiers, {e \in NotifyEntries : ~gone(e[1])})
    /\ mgmt_registered' = [n \in Notifiers |-> IF there(n) /\ gone(n) THEN (IF InNotify THEN "gone" ELSE "destroyed") ELSE mgmt_registered[n]]
    /\ need_notify_cleanup' = (need_notify_cleanup \/ InNotify)
    /\ UNCHANGED <<mgmtQueues, mgmt_writer, mgmt_kernel, mgmt_log, mgmt_told, mgmt_cb, mgmt_asleep, mgmt_crossed>>

\* Mutant of Listens: a handler that was removed is called.
ListensRemoved(e, index) == NotifyIndex(e[1]) \in {index, MGMT_INDEX_NONE}

Listens(e, index) == ~e[2] /\ NotifyIndex(e[1]) \in {index, MGMT_INDEX_NONE}

\* The handlers from position k on that the event is for: the first is called, and the entry
\* behind it is noted.  After the last the removed ones are destroyed.
NotifyFrom(k, index) ==
    LET due == {i \in k..Len(mgmt_notifiers) : Listens(mgmt_notifiers[i], index)} IN
    IF due # {}
    THEN LET i == CHOOSE x \in due : \A y \in due : x <= y IN
         /\ mgmt_cb' = [kind |-> "notify", index |-> index, id |-> mgmt_notifiers[i][1],
                        live |-> mgmt_registered[mgmt_notifiers[i][1]] = "yes",
                        next |-> IF i = Len(mgmt_notifiers) THEN 0 ELSE mgmt_notifiers[i + 1][1]]
         /\ UNCHANGED mgmtEvents
    ELSE /\ mgmt_cb' = NoCall
         /\ need_notify_cleanup' = FALSE
         /\ mgmt_notifiers' = IF need_notify_cleanup THEN Filter(mgmt_notifiers, {e \in NotifyEntries : ~e[2]}) ELSE mgmt_notifiers
         /\ mgmt_registered' = [n \in Notifiers |-> IF need_notify_cleanup /\ <<n, TRUE>> \in Range(mgmt_notifiers)
                                                    THEN "destroyed" ELSE mgmt_registered[n]]

process_notify(index) ==
    /\ Loop /\ mgmt_notifiers # <<>> /\ NotifyFrom(1, index)
    /\ UNCHANGED <<mgmtQueues, mgmt_writer, mgmt_kernel, mgmt_log, mgmt_told, mgmt_asleep, mgmt_crossed>>

\* A handler returns.
notify_handler ==
    /\ InNotify
    /\ NotifyFrom(IF mgmt_cb.next = 0 THEN Len(mgmt_notifiers) + 1
                  ELSE CHOOSE i \in DOMAIN mgmt_notifiers : mgmt_notifiers[i][1] = mgmt_cb.next, mgmt_cb.index)
    /\ UNCHANGED <<mgmtQueues, mgmt_writer, mgmt_kernel, mgmt_log, mgmt_told, mgmt_asleep, mgmt_crossed>>

\* The last reference goes: mgmt_unregister_all and mgmt_cancel_all.
mgmt_unref ==
    /\ Loop
    /\ RemoveAll(Held)
    /\ mgmt_notifiers' = <<>>
    /\ mgmt_registered' = [n \in Notifiers |-> IF mgmt_registered[n] = "yes" THEN "destroyed" ELSE mgmt_registered[n]]
    /\ mgmt_cb' = Freed /\ mgmt_writer' = FALSE
    /\ UNCHANGED <<mgmt_kernel, mgmt_told, need_notify_cleanup, mgmt_asleep>>

Next ==
    \/ can_write_data \/ can_write_data_fails \/ mgmt_cancel_all \/ request_done \/ notify_handler \/ mgmt_unref
    \/ \E i \in Ids : mgmt_send(i) \/ mgmt_reply(i) \/ mgmt_send_nowait(i) \/ mgmt_send_nowait_fails(i)
                     \/ mgmt_cancel(i) \/ request_complete(i)
    \/ \E index \in 0..1 : mgmt_cancel_index(index)
    \/ \E index \in 0..2 : process_notify(index)
    \/ \E n \in Notifiers : mgmt_register(n) \/ mgmt_unregister(n)
    \/ \E indexes \in {{0}, {1}, {MGMT_INDEX_NONE}, 0..2} : UnregisterAll(indexes)

-----------------------------------------------------------------------------
(* Properties *)

\* The lists hold requests that were made.
TypeOK ==
    /\ Held \subseteq Ids /\ Range(mgmt_kernel) \subseteq Ids /\ mgmt_told \in [Ids -> 0..MaxRequests]
    /\ mgmt_cb.kind \in {"none", "freed", "failed", "complete", "notify"}

\* A request is called back at most once, before it is destroyed, and destroyed once, and
\* it is in one list as long as nothing has been called.
CompletedOnce ==
    /\ \A i \in Ids : mgmt_log[i] \in {<<"unused">>, <<>>, <<"callback">>, <<"destroy">>, <<"callback", "destroy">>}
    /\ \A i \in Ids : (mgmt_log[i] = <<>>) = (i \in Held)
    /\ Len(request_queue) + Len(reply_queue) + Len(pending_list) = Cardinality(Held)

\* A request is given its own answer, unless another one was cancelled while the kernel was
\* at work on it: its answer is taken for that of the next request like it.
AnswersBelong == ~mgmt_crossed => \A i \in Ids : mgmt_told[i] \in {0, i}

\* Whatever may be sent has a writer, unless mgmt_cancel_index left it behind.
NothingWaits ==
    /\ mgmt_cb.kind = "none" /\ ~mgmt_asleep
    /\ reply_queue # <<>> \/ (pending_list = <<>> /\ request_queue # <<>>)
    => mgmt_writer

\* A handler that is unregistered is not called any more, not even for the event that is
\* being handed out, and whoever was marked is destroyed when the event has been.
HandlersLive ==
    /\ InNotify => mgmt_cb.live
    /\ mgmt_cb.kind \notin {"notify", "freed"} => \A n \in Notifiers : mgmt_registered[n] # "gone"
===============================================================================
