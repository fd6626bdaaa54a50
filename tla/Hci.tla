---------------------------------- MODULE Hci ----------------------------------
(***************************************************************************)
(* struct bt_hci of bluez5 (src/shared/hci.c): commands to a controller,   *)
(* which tells with every answer how many more it takes.  Each wake-up of  *)
(* the writer sends one command; an answer is matched by its opcode.       *)
(*                                                                         *)
(* Events other than answers go to the handlers of their code.  Assumed:   *)
(* the controller answers commands of one opcode in order and takes a      *)
(* command at least when it has none, and a handler of an event does not   *)
(* unregister the one behind it.                                           *)
(***************************************************************************)
EXTENDS Integers, Sequences, FiniteSets, Functions, Lists

CONSTANTS
    MaxHciCommands,     \* bound: commands
    Credits             \* commands a controller takes at a time, at most

VARIABLES
    hci_cmds, hci_rsps,     \* cmd_queue and rsp_queue, numbers of commands
    num_cmds, hci_writer,
    controller,             \* commands it has taken and not answered
    hci_log, hci_told,      \* per command: the handlers called, and the command whose answer it was given
    evt_list,               \* events somebody listens to
    hci_cb,
    hci_crossed,            \* has a command been dropped that the controller was still to answer?
    hci_failed              \* has a command not been sent that waits for an answer all the same?

hciVars == <<hci_cmds, hci_rsps, num_cmds, hci_writer, controller, hci_log, hci_told, evt_list, hci_cb,
             hci_crossed, hci_failed>>
hciHandlers == <<evt_list>>

ConstantsOK == MaxHciCommands \in Nat /\ Credits \in Nat \ {0}

Cmds      == 1..MaxHciCommands
Opcode(i) == i % 2
OfOpcode(opcode) == {i \in Cmds : Opcode(i) = opcode}
Evts      == {"disconnected", "advertising"}

Init ==
    /\ hci_cmds = <<>> /\ hci_rsps = <<>> /\ num_cmds = 1 /\ hci_writer = FALSE /\ controller = <<>>
    /\ hci_log = [i \in Cmds |-> <<"unused">>] /\ hci_told = [i \in Cmds |-> 0]
    /\ evt_list = {} /\ hci_cb = 0
    /\ hci_crossed = FALSE /\ hci_failed = FALSE

Alive == hci_cb # -1
Loop  == hci_cb = 0

\* Mutant of CanSend: the last credit is not used.
CanSendKeepsOne(cmds, n) == n > 1 /\ cmds # <<>>

CanSend(cmds, n) == n >= 1 /\ cmds # <<>>

wakeup_writer == hci_writer' = (hci_writer \/ CanSend(hci_cmds', num_cmds'))

-----------------------------------------------------------------------------
\* One command is sent, or is not because the controller takes none or the write fails: it
\* waits for its answer in either case.  The watch goes, whatever is left in the queue.
io_write_callback(fails) ==
    LET i == Head(hci_cmds)  sent == num_cmds >= 1 /\ ~fails IN
    /\ Loop /\ hci_writer
    /\ hci_writer' = FALSE
    /\ IF hci_cmds = <<>> THEN ~fails /\ UNCHANGED <<hci_cmds, hci_rsps, num_cmds, controller, hci_failed>>
       ELSE /\ hci_cmds' = Tail(hci_cmds) /\ hci_rsps' = Append(hci_rsps, i)
            /\ num_cmds' = IF sent THEN num_cmds - 1 ELSE num_cmds
            /\ controller' = IF sent THEN Append(controller, i) ELSE controller
            /\ hci_failed' = (hci_failed \/ ~sent)
    /\ UNCHANGED <<hci_log, hci_told, hciHandlers, hci_cb, hci_crossed>>

Made == Cardinality({i \in Cmds : hci_log[i] # <<"unused">>})

bt_hci_send ==
    /\ Alive /\ Made < MaxHciCommands
    /\ hci_log' = [hci_log EXCEPT ![Made + 1] = <<>>]
    /\ hci_cmds' = Append(hci_cmds, Made + 1)
    /\ num_cmds' = num_cmds /\ wakeup_writer
    /\ UNCHANGED <<hci_rsps, controller, hci_told, hciHandlers, hci_cb, hci_crossed, hci_failed>>

\* cmd_free for all of them
Drop(ids) ==
    /\ hci_cmds' = Filter(hci_cmds, Cmds \ ids)
    /\ hci_rsps' = Filter(hci_rsps, Cmds \ ids)
    /\ hci_log' = [i \in Cmds |-> IF i \in ids THEN Append(hci_log[i], "destroy") ELSE hci_log[i]]
    /\ hci_crossed' = (hci_crossed \/ \E i \in ids : i \in Range(controller))
    /\ hci_failed' = hci_failed

bt_hci_cancel(i) ==
    /\ Alive /\ i \in Range(hci_cmds) \cup Range(hci_rsps)
    /\ Drop({i}) /\ num_cmds' = num_cmds /\ wakeup_writer
    /\ UNCHANGED <<controller, hci_told, hciHandlers, hci_cb>>

bt_hci_flush ==
    /\ Alive /\ (hci_cmds # <<>> \/ hci_rsps # <<>>)
    /\ Drop(Range(hci_cmds) \cup Range(hci_rsps))
    /\ hci_writer' = FALSE
    /\ UNCHANGED <<num_cmds, controller, hci_told, hciHandlers, hci_cb>>

bt_hci_unref ==
    /\ Loop
    /\ Drop(Range(hci_cmds) \cup Range(hci_rsps))
    /\ evt_list' = {} /\ hci_cb' = -1 /\ hci_writer' = FALSE
    /\ UNCHANGED <<num_cmds, controller, hci_told>>

-----------------------------------------------------------------------------
(* Answers and events *)

\* Mutant of Matched: the newest command of the opcode is answered.
MatchedLast(opcode) == LET s == Filter(hci_rsps, OfOpcode(opcode)) IN IF s = <<>> THEN 0 ELSE s[Len(s)]

Matched(opcode) == LET s == Filter(hci_rsps, OfOpcode(opcode)) IN IF s = <<>> THEN 0 ELSE Head(s)

\* process_event for Command Complete and Command Status, and process_response.  An answer
\* nobody waits for is dropped, and with it the wake-up for what may be sent now.
process_response(answer, n) ==
    LET i == Matched(Opcode(answer)) IN
    /\ Loop /\ answer \in Range(controller)
    /\ answer = Head(Filter(controller, OfOpcode(Opcode(answer))))
    /\ controller' = Filter(controller, Cmds \ {answer})
    /\ n <= Credits - Len(controller') /\ (controller' = <<>> => n >= 1)
    /\ num_cmds' = n
    /\ hci_rsps' = Filter(hci_rsps, Cmds \ {i})
    /\ IF i = 0 THEN UNCHANGED <<hci_log, hci_told, hci_cb>>
       ELSE /\ hci_log' = [hci_log EXCEPT ![i] = Append(@, "callback")]
            /\ hci_told' = [hci_told EXCEPT ![i] = answer]
            /\ hci_cb' = i
    /\ UNCHANGED <<hci_cmds, hci_writer, hciHandlers, hci_crossed, hci_failed>>

\* The callback returns.
process_response_done ==
    /\ hci_cb > 0
    /\ hci_log' = [hci_log EXCEPT ![hci_cb] = Append(@, "destroy")]
    /\ hci_cb' = 0
    /\ UNCHANGED <<hci_cmds, num_cmds>> /\ wakeup_writer
    /\ UNCHANGED <<hci_rsps, controller, hci_told, hciHandlers, hci_crossed, hci_failed>>

\* The controller takes more commands: an answer to BT_HCI_CMD_NOP.
process_response_nop(n) ==
    /\ Loop /\ n > num_cmds /\ n <= Credits - Len(controller)
    /\ num_cmds' = n /\ hci_cmds' = hci_cmds /\ wakeup_writer
    /\ UNCHANGED <<hci_rsps, controller, hci_log, hci_told, hciHandlers, hci_cb, hci_crossed, hci_failed>>

bt_hci_register(e) ==
    /\ Alive /\ e \notin evt_list /\ evt_list' = evt_list \cup {e}
    /\ UNCHANGED <<hci_cmds, hci_rsps, num_cmds, hci_writer, controller, hci_log, hci_told, hci_cb, hci_crossed, hci_failed>>

bt_hci_unregister(e) ==
    /\ Alive /\ e \in evt_list /\ evt_list' = evt_list \ {e}
    /\ UNCHANGED <<hci_cmds, hci_rsps, num_cmds, hci_writer, controller, hci_log, hci_told, hci_cb, hci_crossed, hci_failed>>

Next ==
    \/ \E fails \in BOOLEAN : io_write_callback(fails)
    \/ bt_hci_send \/ bt_hci_flush \/ bt_hci_unref \/ process_response_done
    \/ \E i \in Cmds : bt_hci_cancel(i)
    \/ \E i \in Cmds, n \in 0..Credits : process_response(i, n)
    \/ \E n \in 1..Credits : process_response_nop(n)
    \/ \E e \in Evts : bt_hci_register(e) \/ bt_hci_unregister(e)

-----------------------------------------------------------------------------
(* Properties *)

\* The credits are within what a controller gives, and the queues hold commands.
TypeOK ==
    /\ num_cmds \in 0..Credits /\ hci_cb \in -1..MaxHciCommands
    /\ Range(hci_cmds) \cup Range(hci_rsps) \subseteq Cmds /\ evt_list \subseteq Evts

\* The controller is never sent more than it said it takes.
WindowKept == Len(controller) + num_cmds <= Credits

\* A command is called back at most once, before it is destroyed, and destroyed once, and it
\* is in a queue as long as nothing has been called.
CompletedOnce ==
    /\ \A i \in Cmds : hci_log[i] \in {<<"unused">>, <<>>, <<"callback">>, <<"destroy">>, <<"callback", "destroy">>}
    /\ \A i \in Cmds : (hci_log[i] = <<>>) = (i \in Range(hci_cmds) \cup Range(hci_rsps))

\* A command gets its own answer, unless one was cancelled that the controller had, or one
\* was never sent: the next like it is given the answer.
AnswersBelong == ~hci_crossed /\ ~hci_failed => \A i \in Cmds : hci_told[i] \in {0, i}

\* A command that may be sent has a writer, or the answer to another will wake it: unless
\* a command was dropped, whose answer wakes nobody, or one was taken off the queue and not
\* sent (its write failed, or its credit had gone), which waits for an answer that never comes.
NothingWaits ==
    /\ Loop /\ hci_cmds # <<>> /\ num_cmds >= 1 /\ ~hci_crossed /\ ~hci_failed
    => hci_writer \/ Range(controller) \cap Range(hci_rsps) # {}
================================================================================
