--------------------------------- MODULE Hfp ---------------------------------
(***************************************************************************)
(* struct hfp_gw and struct hfp_hf of bluez5 (src/shared/hfp.c), the two   *)
(* ends of a hands-free link: hf sends commands and matches the results    *)
(* that come back with them in the order they were sent, gw hands one      *)
(* command at a time to its handlers and reads on when it has a result.    *)
(*                                                                         *)
(* A line is one unit: a command is its number, which is also what a       *)
(* result stands for, and every line has the same length.  Both ends run   *)
(* in main loops of their own.  Not followed: lines that wrap around the   *)
(* end of a ring buffer, and callbacks that drop the last reference while  *)
(* the input is processed.                                                 *)
(***************************************************************************)
EXTENDS Integers, Sequences, FiniteSets, Lists

CONSTANTS
    MaxCommands,        \* bound: commands sent
    BufSize,            \* lines that fit a ring buffer
    MaxNoise            \* bound: events and lines that are no command

VARIABLES
    hf_life, hf_sent, cmd_queue, hf_write_buf, hf_writer_active, hf_told,
    gw_life, cmd_handlers, command_callback, gw_read_buf, gw_reads, gw_write_buf, gw_writer_active,
    result_pending, gw_again, gw_at, gw_handled,
    hf_line, gw_line,   \* what is on the way to gw and to hf
    noise,              \* events and other lines sent so far
    hfp_slip            \* "none" or what went wrong that the code does not notice

hfVars   == <<hf_life, hf_sent, cmd_queue, hf_write_buf, hf_writer_active, hf_told>>
gwInput  == <<gw_read_buf, gw_reads, result_pending, gw_again, gw_at, gw_handled>>
gwOutput == <<gw_write_buf, gw_writer_active>>
gwUsers  == <<gw_life, cmd_handlers, command_callback>>
hfpVars  == <<hfVars, gwInput, gwOutput, gwUsers, hf_line, gw_line, noise, hfp_slip>>

ConstantsOK == {MaxCommands, BufSize, MaxNoise} \subseteq Nat

Commands == 1..MaxCommands
Trash    == 0                       \* a line that is not an AT command
Event(e) == -1
Prefix(c) == IF c % 2 = 1 THEN "odd" ELSE "even"
IsResult(l) == l > 0

hfp_hf_new ==
    /\ hf_life = "up" /\ hf_sent = 0 /\ cmd_queue = <<>> /\ hf_write_buf = <<>> /\ hf_writer_active = FALSE
    /\ hf_told = <<>>

hfp_gw_new ==
    /\ gw_life = "up" /\ cmd_handlers = {} /\ command_callback \in BOOLEAN
    /\ gw_read_buf = <<>> /\ gw_reads = TRUE /\ gw_write_buf = <<>> /\ gw_writer_active = FALSE
    /\ result_pending = FALSE /\ gw_again = FALSE /\ gw_at = 0 /\ gw_handled = <<>>

Init ==
    /\ hfp_hf_new /\ hfp_gw_new
    /\ hf_line = <<>> /\ gw_line = <<>> /\ noise = 0 /\ hfp_slip = "none"

GwIdle == gw_life = "up" /\ ~gw_again /\ hfp_slip = "none"
HfIdle == hf_life = "up" /\ hfp_slip = "none"

-----------------------------------------------------------------------------
(* The hands-free end *)

\* hf_wakeup_writer
Awake(buf, active) == active \/ buf # <<>>

hfp_hf_send_command ==
    /\ HfIdle /\ hf_sent < MaxCommands /\ Len(hf_write_buf) < BufSize
    /\ hf_sent' = hf_sent + 1
    /\ hf_write_buf' = Append(hf_write_buf, hf_sent')
    /\ cmd_queue' = Append(cmd_queue, hf_sent')
    /\ hf_writer_active' = Awake(hf_write_buf', hf_writer_active)
    /\ UNCHANGED <<hf_life, hf_told, gwInput, gwOutput, gwUsers, hf_line, gw_line, noise, hfp_slip>>

\* writev takes some of the lines; the watch goes when all are written.
hf_can_write_data(n) ==
    /\ HfIdle /\ hf_writer_active /\ n <= Len(hf_write_buf)
    /\ hf_line' = hf_line \o SubSeq(hf_write_buf, 1, n)
    /\ hf_write_buf' = SubSeq(hf_write_buf, n + 1, Len(hf_write_buf))
    /\ hf_writer_active' = (hf_write_buf' # <<>>)
    /\ UNCHANGED <<hf_life, hf_sent, cmd_queue, hf_told, gwInput, gwOutput, gwUsers, gw_line, noise, hfp_slip>>

\* Mutant: a result goes to the last command that was sent.
TakesLast(q) == IF q = <<>> THEN 0 ELSE q[Len(q)]
Takes(q)     == IF q = <<>> THEN 0 ELSE Head(q)

\* A result is for the command that has waited longest, and dropped if none does; anything
\* else is for the handler of its prefix.
hf_call_prefix_handler ==
    LET line == Head(gw_line)  cmd == Takes(cmd_queue) IN
    /\ HfIdle /\ gw_line # <<>>
    /\ gw_line' = Tail(gw_line)
    /\ hf_told' = IF IsResult(line) /\ cmd # 0 THEN Append(hf_told, <<cmd, line>>) ELSE hf_told
    /\ cmd_queue' = IF IsResult(line) THEN Filter(cmd_queue, Commands \ {cmd}) ELSE cmd_queue
    /\ hf_writer_active' = (IF IsResult(line) /\ cmd # 0 THEN Awake(hf_write_buf, hf_writer_active) ELSE hf_writer_active)
    /\ UNCHANGED <<hf_life, hf_sent, hf_write_buf, gwInput, gwOutput, gwUsers, hf_line, noise, hfp_slip>>

-----------------------------------------------------------------------------
(* The gateway *)

\* ringbuf_read reads what there is room for; without room the watch is removed for good.
\* A result that is pending leaves the lines in the buffer.
can_read_data(n) ==
    /\ GwIdle /\ gw_reads /\ n \in 1..Len(hf_line)
    /\ n <= BufSize - Len(gw_read_buf) \/ (n = 1 /\ Len(gw_read_buf) = BufSize)
    /\ IF Len(gw_read_buf) = BufSize
       THEN gw_reads' = FALSE /\ UNCHANGED <<gw_read_buf, hf_line>>
       ELSE /\ gw_read_buf' = gw_read_buf \o SubSeq(hf_line, 1, n)
            /\ hf_line' = SubSeq(hf_line, n + 1, Len(hf_line))
            /\ gw_reads' = gw_reads
    /\ gw_again' = ~result_pending
    /\ UNCHANGED <<hfVars, gwOutput, gwUsers, result_pending, gw_at, gw_handled, gw_line, noise, hfp_slip>>

HasHandler(c) == Prefix(c) \in cmd_handlers \/ command_callback

\* process_input finds no more lines.
process_input_done ==
    /\ gw_again /\ gw_read_buf = <<>>
    /\ gw_again' = FALSE
    /\ UNCHANGED <<hfVars, gwOutput, gwUsers, gw_read_buf, gw_reads, result_pending, gw_at, gw_handled, hf_line, gw_line, noise, hfp_slip>>

\* Lines that are no command are skipped; a command without a handler is answered with an
\* error, if that fits the buffer.
process_input_skip ==
    LET c == Head(gw_read_buf)
        answered == c # Trash /\ Len(gw_write_buf) < BufSize
    IN
    /\ gw_again /\ gw_read_buf # <<>> /\ (c # Trash => ~HasHandler(c))
    /\ gw_read_buf' = Tail(gw_read_buf)
    /\ gw_write_buf' = IF answered THEN Append(gw_write_buf, c) ELSE gw_write_buf
    /\ gw_writer_active' = (IF answered THEN TRUE ELSE gw_writer_active)
    /\ hfp_slip' = IF c # Trash /\ ~answered THEN "unanswered" ELSE hfp_slip
    /\ gw_handled' = IF c = Trash THEN gw_handled ELSE Append(gw_handled, c)
    /\ UNCHANGED <<hfVars, gwUsers, gw_reads, result_pending, gw_again, gw_at, hf_line, gw_line, noise>>

\* handle_at_command calls the handler, which will send the result later.
handle_at_command ==
    LET c == Head(gw_read_buf) IN
    /\ gw_again /\ gw_read_buf # <<>> /\ c # Trash /\ HasHandler(c)
    /\ result_pending' = TRUE /\ gw_at' = c /\ gw_again' = FALSE
    /\ gw_handled' = Append(gw_handled, c)
    /\ gw_read_buf' = Tail(gw_read_buf)
    /\ UNCHANGED <<hfVars, gwOutput, gwUsers, gw_reads, hf_line, gw_line, noise, hfp_slip>>

\* The handler sends the result before it returns: hfp_gw_send_result processes the input,
\* which still has the command in it.  It is handled a second time if a line follows it
\* (its end has been overwritten, so the line is found to reach as far as the next).
handle_at_command_at_once ==
    LET c == Head(gw_read_buf)  twice == Len(gw_read_buf) > 1 IN
    /\ gw_again /\ gw_read_buf # <<>> /\ c # Trash /\ HasHandler(c) /\ Len(gw_write_buf) < BufSize
    /\ gw_write_buf' = Append(gw_write_buf, c) /\ gw_writer_active' = TRUE
    /\ gw_handled' = gw_handled \o (IF twice THEN <<c, c>> ELSE <<c>>)
    /\ gw_read_buf' = Tail(gw_read_buf)
    /\ hfp_slip' = IF twice THEN "handled twice" ELSE hfp_slip
    /\ UNCHANGED <<hfVars, gwUsers, gw_reads, result_pending, gw_again, gw_at, hf_line, gw_line, noise>>

\* Mutant of hfp_gw_send_result: what is in the buffer waits for more to come.
hfp_gw_send_result_waits ==
    /\ GwIdle /\ result_pending /\ Len(gw_write_buf) < BufSize
    /\ gw_write_buf' = Append(gw_write_buf, gw_at)
    /\ gw_writer_active' = Awake(gw_write_buf', gw_writer_active)
    /\ result_pending' = FALSE /\ gw_at' = 0
    /\ UNCHANGED <<hfVars, gwUsers, gw_again, gw_read_buf, gw_reads, gw_handled, hf_line, gw_line, noise, hfp_slip>>

\* hfp_gw_send_result and hfp_gw_send_error; without room nothing changes.
hfp_gw_send_result ==
    /\ GwIdle /\ result_pending /\ Len(gw_write_buf) < BufSize
    /\ gw_write_buf' = Append(gw_write_buf, gw_at)
    /\ gw_writer_active' = Awake(gw_write_buf', gw_writer_active)
    /\ result_pending' = FALSE /\ gw_at' = 0
    /\ gw_again' = TRUE                 \* process_input
    /\ UNCHANGED <<hfVars, gwUsers, gw_read_buf, gw_reads, gw_handled, hf_line, gw_line, noise, hfp_slip>>

\* An event waits for the result, if one is pending.
hfp_gw_send_info ==
    /\ GwIdle /\ noise < MaxNoise /\ Len(gw_write_buf) < BufSize
    /\ gw_write_buf' = Append(gw_write_buf, Event(0))
    /\ gw_writer_active' = IF result_pending THEN gw_writer_active ELSE Awake(gw_write_buf', gw_writer_active)
    /\ noise' = noise + 1
    /\ UNCHANGED <<hfVars, gwInput, gwUsers, hf_line, gw_line, hfp_slip>>

can_write_data(n) ==
    /\ GwIdle /\ gw_writer_active /\ n <= Len(gw_write_buf)
    /\ gw_line' = gw_line \o SubSeq(gw_write_buf, 1, n)
    /\ gw_write_buf' = SubSeq(gw_write_buf, n + 1, Len(gw_write_buf))
    /\ gw_writer_active' = (gw_write_buf' # <<>>)
    /\ UNCHANGED <<hfVars, gwInput, gwUsers, hf_line, noise, hfp_slip>>

\* writev fails: the watch goes, and what is in the buffer waits for the next line.
can_write_data_fails ==
    /\ GwIdle /\ gw_writer_active
    /\ gw_writer_active' = FALSE /\ hfp_slip' = "write failed"
    /\ UNCHANGED <<hfVars, gwInput, gwUsers, gw_write_buf, hf_line, gw_line, noise>>

hfp_gw_register(p) ==
    /\ GwIdle /\ p \notin cmd_handlers /\ cmd_handlers' = cmd_handlers \cup {p}
    /\ UNCHANGED <<hfVars, gwInput, gwOutput, gw_life, command_callback, hf_line, gw_line, noise, hfp_slip>>

hfp_gw_unregister(p) ==
    /\ GwIdle /\ p \in cmd_handlers /\ cmd_handlers' = cmd_handlers \ {p}
    /\ UNCHANGED <<hfVars, gwInput, gwOutput, gw_life, command_callback, hf_line, gw_line, noise, hfp_slip>>

\* Something that is no command comes down the line.
garbled ==
    /\ noise < MaxNoise /\ noise' = noise + 1
    /\ hf_line' = Append(hf_line, Trash)
    /\ UNCHANGED <<hfVars, gwInput, gwOutput, gwUsers, gw_line, hfp_slip>>

-----------------------------------------------------------------------------
(* Disconnecting, the same at both ends; "used after free" is what must not happen *)

\* Mutant of Unref: it frees whatever goes on.
UnrefAlways(life) == IF life = "disconnect" THEN "freed early" ELSE "freed"

\* hfp_gw_unref, hfp_hf_unref: io_disconnected still uses it, disconnect_watch_destroy frees it.
Unref(life) == IF life = "disconnect" THEN "destroyed" ELSE "freed"
\* io_disconnected has returned and disconnect_watch_destroy is called.
Returned(life) == CASE life = "destroyed" -> "freed" [] life = "freed early" -> "used after free" [] OTHER -> "down"

gw_lives(life) ==
    /\ gw_life' = life /\ ~gw_again
    /\ gw_writer_active' = (gw_writer_active /\ life \notin {"freed", "destroyed"})
    /\ UNCHANGED <<hfVars, gwInput, cmd_handlers, command_callback, gw_write_buf, hf_line, gw_line, noise, hfp_slip>>

io_disconnected ==
    \/ gw_life = "up" /\ gw_lives("disconnect")
    \/ gw_life \in {"disconnect", "destroyed", "freed early"} /\ gw_lives(Returned(gw_life))
hfp_gw_unref == gw_life \in {"up", "disconnect"} /\ gw_lives(Unref(gw_life))

hf_lives(life) ==
    /\ hf_life' = life
    /\ cmd_queue' = IF life \in {"destroyed", "freed"} THEN <<>> ELSE cmd_queue
    /\ hf_writer_active' = (hf_writer_active /\ life \notin {"freed", "destroyed"})
    /\ UNCHANGED <<hf_sent, hf_write_buf, hf_told, gwInput, gwOutput, gwUsers, hf_line, gw_line, noise, hfp_slip>>

hf_io_disconnected ==
    \/ hf_life = "up" /\ hf_lives("disconnect")
    \/ hf_life \in {"disconnect", "destroyed", "freed early"} /\ hf_lives(Returned(hf_life))
hfp_hf_unref == hf_life \in {"up", "disconnect"} /\ hf_lives(Unref(hf_life))

-----------------------------------------------------------------------------
Next ==
    \/ hfp_hf_send_command \/ hf_call_prefix_handler
    \/ \E n \in 1..BufSize : hf_can_write_data(n) \/ can_read_data(n) \/ can_write_data(n)
    \/ process_input_done \/ process_input_skip \/ handle_at_command \/ handle_at_command_at_once
    \/ hfp_gw_send_result \/ hfp_gw_send_info \/ can_write_data_fails
    \/ \E p \in {"odd", "even"} : hfp_gw_register(p) \/ hfp_gw_unregister(p)
    \/ garbled
    \/ io_disconnected \/ hfp_gw_unref \/ hf_io_disconnected \/ hfp_hf_unref

-----------------------------------------------------------------------------
(* Properties *)

\* No buffer is overrun, and gw waits for a result exactly while its handler has a command.
TypeOK ==
    /\ {Len(hf_write_buf), Len(gw_write_buf), Len(gw_read_buf)} \subseteq 0..BufSize
    /\ gw_at \in 0..MaxCommands /\ (gw_at # 0 <=> result_pending)

\* The commands that hf waits for are, in this order, those whose result is on its way, the
\* one that gw's handler has, and those that wait in a buffer or on the line: none is lost,
\* repeated or overtaken, each is handled once and in its turn, and each result is told for
\* the command it belongs to.
ResultsBelong ==
    hfp_slip = "none" /\ hf_life = "up" =>
        /\ cmd_queue = Filter(gw_line \o gw_write_buf \o <<gw_at>> \o gw_read_buf \o hf_line \o hf_write_buf, Commands)
        /\ \A i \in DOMAIN hf_told : hf_told[i] = <<i, i>>
        /\ \A i \in DOMAIN gw_handled : gw_handled[i] = i

\* What is in a write buffer has a writer, except events that wait for a result; what is in
\* gw's read buffer is processed now or when the pending result is there.
NothingWaits ==
    hfp_slip = "none" =>
        /\ hf_life = "up" /\ hf_write_buf # <<>> => hf_writer_active
        /\ gw_life = "up" /\ gw_write_buf # <<>> => gw_writer_active \/ (result_pending /\ ~\E i \in DOMAIN gw_write_buf : IsResult(gw_write_buf[i]))
        /\ gw_life = "up" /\ gw_read_buf # <<>> => result_pending \/ gw_again

\* Neither end is used after it was freed: not even when the last reference is dropped while
\* the disconnect callback runs.
FreedLast == {hf_life, gw_life} \subseteq {"up", "disconnect", "destroyed", "down", "freed"}
=============================================================================
