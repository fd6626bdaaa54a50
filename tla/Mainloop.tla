-------------------------------- MODULE Mainloop --------------------------------
(***************************************************************************)
(* The main loop of bluez5 (src/shared/mainloop.c) and its timers          *)
(* (src/shared/timeout-mainloop.c).  epoll hands out a batch of events,    *)
(* each with a pointer to the data of its descriptor; the callbacks are    *)
(* called one after the other and add, modify and remove descriptors.      *)
(*                                                                         *)
(* Assumed of the callbacks: none removes a descriptor that another event  *)
(* of the batch is for (the loop would call through freed memory), and     *)
(* the function of a timer does not remove its own timer.                  *)
(***************************************************************************)
EXTENDS Integers, Sequences, FiniteSets, SequencesExt

CONSTANTS
    MaxFds,         \* MAX_MAINLOOP_ENTRIES
    MaxWatches      \* bound: descriptors added

VARIABLES
    mainloop_list,      \* per descriptor, the number of its data, 0 for none
    watches,            \* per data: [kind, fd, armed, destroyed]
    batch,              \* the data of the events that are still to be served
    loop_cb,            \* the data whose callback runs, 0 for none
    loop_state          \* "run", "quit" once epoll_terminate is set, "over"

loopVars == <<mainloop_list, watches, batch, loop_cb, loop_state>>

ConstantsOK == MaxFds \in Nat /\ MaxWatches \in Nat

Fds     == 1..MaxFds
Data    == 1..Len(watches)

Init ==
    /\ mainloop_list = [fd \in Fds |-> 0] /\ watches = <<>> /\ batch = <<>>
    /\ loop_cb = 0 /\ loop_state = "run"

\* A callback, or the program before it runs the loop or between two batches.
Usable == loop_state # "over" /\ (loop_cb # 0 \/ batch = <<>>)

-----------------------------------------------------------------------------
\* epoll_ctl refuses a descriptor that is there; a timer has a descriptor of its own.
mainloop_add_fd(fd, kind, armed) ==
    /\ Usable /\ Len(watches) < MaxWatches /\ mainloop_list[fd] = 0
    /\ watches' = Append(watches, [kind |-> kind, fd |-> fd, armed |-> armed, destroyed |-> 0])
    /\ mainloop_list' = [mainloop_list EXCEPT ![fd] = Len(watches')]
    /\ UNCHANGED <<batch, loop_cb, loop_state>>

\* Without a time the timer is there and does not run.
mainloop_add_timeout(fd, msec) == mainloop_add_fd(fd, "timer", msec > 0)

Fired(w) == IF w.kind = "timer" THEN [w EXCEPT !.armed = FALSE] ELSE w

\* It runs again: mainloop_modify_fd sets EPOLLONESHOT anew.
mainloop_modify_timeout(d) ==
    /\ Usable /\ loop_cb # d /\ watches[d].kind = "timer" /\ watches[d].destroyed = 0
    /\ watches' = [watches EXCEPT ![d].armed = TRUE]
    /\ UNCHANGED <<mainloop_list, batch, loop_cb, loop_state>>

\* The function of a timer returns and wants to be called again.
timeout_callback_again ==
    /\ loop_cb # 0 /\ watches[loop_cb].kind = "timer" /\ watches[loop_cb].destroyed = 0
    /\ watches' = [watches EXCEPT ![loop_cb].armed = TRUE]
    /\ loop_cb' = 0
    /\ UNCHANGED <<mainloop_list, batch, loop_state>>

\* Mutant of mainloop_remove_fd: the list keeps the data.
mainloop_remove_fd_keeps(fd) ==
    LET d == mainloop_list[fd] IN
    /\ Usable /\ d # 0 /\ d \notin Range(batch) /\ (watches[d].kind = "timer" => loop_cb # d)
    /\ watches' = [watches EXCEPT ![d].destroyed = @ + 1]
    /\ UNCHANGED <<mainloop_list, batch, loop_cb, loop_state>>

\* mainloop_remove_timeout as well
mainloop_remove_fd(fd) ==
    LET d == mainloop_list[fd] IN
    /\ Usable /\ d # 0 /\ d \notin Range(batch) /\ (watches[d].kind = "timer" => loop_cb # d)
    /\ mainloop_list' = [mainloop_list EXCEPT ![fd] = 0]
    /\ watches' = [watches EXCEPT ![d].destroyed = @ + 1]
    /\ UNCHANGED <<batch, loop_cb, loop_state>>

-----------------------------------------------------------------------------
(* mainloop_run *)

Ready == {d \in Data : watches[d].destroyed = 0 /\ watches[d].armed}

\* epoll_wait: a one-shot timer is disarmed as it is reported.
epoll_wait(ready) ==
    /\ loop_state = "run" /\ batch = <<>> /\ loop_cb = 0
    /\ ready \subseteq Ready /\ ready # {}
    /\ batch' = SetToSeq(ready)
    /\ watches' = [d \in Data |-> IF d \in ready THEN Fired(watches[d]) ELSE watches[d]]
    /\ UNCHANGED <<mainloop_list, loop_cb, loop_state>>

\* The rest of a batch is served even when a callback has called mainloop_quit.
mainloop_callback ==
    LET d == Head(batch) IN
    /\ loop_state # "over" /\ batch # <<>> /\ loop_cb = 0
    /\ batch' = Tail(batch) /\ loop_cb' = d
    /\ UNCHANGED <<mainloop_list, watches, loop_state>>

\* A callback returns; a timer's function that does not want to be called again has its
\* timer removed.
mainloop_return ==
    /\ loop_cb # 0 /\ loop_cb' = 0
    /\ IF watches[loop_cb].kind = "timer" /\ watches[loop_cb].destroyed = 0
       THEN /\ mainloop_list' = [mainloop_list EXCEPT ![watches[loop_cb].fd] = 0]
            /\ watches' = [watches EXCEPT ![loop_cb].destroyed = @ + 1]
       ELSE UNCHANGED <<mainloop_list, watches>>
    /\ UNCHANGED <<batch, loop_state>>

mainloop_quit ==
    /\ loop_state = "run" /\ loop_state' = "quit"
    /\ UNCHANGED <<mainloop_list, watches, batch, loop_cb>>

\* What is still in the list is destroyed.
mainloop_over ==
    /\ loop_state = "quit" /\ batch = <<>> /\ loop_cb = 0
    /\ loop_state' = "over"
    /\ mainloop_list' = [fd \in Fds |-> 0]
    /\ watches' = [d \in Data |-> IF \E fd \in Fds : mainloop_list[fd] = d THEN [watches[d] EXCEPT !.destroyed = @ + 1] ELSE watches[d]]
    /\ UNCHANGED <<batch, loop_cb>>

Next ==
    \/ \E fd \in Fds : mainloop_add_fd(fd, "fd", TRUE) \/ mainloop_remove_fd(fd)
    \/ \E fd \in Fds, msec \in 0..1 : mainloop_add_timeout(fd, msec)
    \/ \E d \in Data : mainloop_modify_timeout(d)
    \/ \E ready \in SUBSET Data : epoll_wait(ready)
    \/ timeout_callback_again \/ mainloop_callback \/ mainloop_return \/ mainloop_quit \/ mainloop_over

-----------------------------------------------------------------------------
(* Properties *)

\* The list holds the data of watches that were added.
TypeOK ==
    /\ mainloop_list \in [Fds -> 0..MaxWatches] /\ Len(watches) <= MaxWatches
    /\ loop_cb \in 0..MaxWatches /\ loop_state \in {"run", "quit", "over"}

\* Whatever was added is destroyed once: when it is removed, or when the loop ends; until
\* then it is in the list under its descriptor, and no event is served for it afterwards.
DestroyedOnce ==
    /\ \A d \in Data : watches[d].destroyed = (IF mainloop_list[watches[d].fd] = d THEN 0 ELSE 1)
    /\ \A d \in Range(batch) : watches[d].destroyed = 0
    /\ loop_state = "over" => \A d \in Data : watches[d].destroyed = 1
===============================================================================
