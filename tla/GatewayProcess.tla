--------------------------- MODULE GatewayProcess ---------------------------
(***************************************************************************)
(* The process around the transports: main() and setup(), the thread that  *)
(* LinuxGateway runs Core's loop in, and the clock of LinuxSystem, whose   *)
(* uint32_t milliseconds wrap around after 49 days.                        *)
(***************************************************************************)
EXTENDS Integers

CONSTANTS
    Wrap,               \* 2^32: values of a uint32_t
    DefaultPeriod,      \* 10000
    Periods,            \* heartbeat periods that are set
    MaxTicks            \* bound: ticks since the last beat or question, beyond Wrap

VARIABLES
    gateway,            \* "starting", "running" or "failed"
    dispatch,           \* LinuxGateway's thread: "none", "check", "loop", "ended"
    loopStopped,        \* LinuxGateway::stopped
    stopping,           \* stop_loop: "no", "join", "returned"
    millis, heartbeat_period, heartbeat_current, elapsed_current,
    sinceBeat, sinceAsked,  \* the ticks that really passed since the last beat and the last question
    asked               \* the last answers of has_beaten and get_elapsed_time, with the true times

vars == <<gateway, dispatch, loopStopped, stopping, millis, heartbeat_period, heartbeat_current,
          elapsed_current, sinceBeat, sinceAsked, asked>>
loopVars  == <<gateway, dispatch, loopStopped, stopping>>
clockVars == <<millis, heartbeat_period, heartbeat_current, elapsed_current, sinceBeat, sinceAsked, asked>>

ConstantsOK == Wrap \in Nat \ {0} /\ Periods \cup {DefaultPeriod} \subseteq 0..(Wrap - 1) /\ MaxTicks \in Nat

TypeOK ==
    /\ dispatch \in {"none", "check", "loop", "ended"}
    /\ loopStopped \in BOOLEAN /\ stopping \in {"no", "join", "returned"}
    /\ {millis, heartbeat_period, heartbeat_current, elapsed_current} \subseteq 0..(Wrap - 1)
    /\ {sinceBeat, sinceAsked} \subseteq 0..MaxTicks

Init ==
    /\ gateway = "starting" /\ dispatch = "none" /\ loopStopped = FALSE /\ stopping = "no"
    /\ millis = 0 /\ heartbeat_period = DefaultPeriod
    /\ heartbeat_current = 0 /\ elapsed_current = 0 /\ sinceBeat = 0 /\ sinceAsked = 0
    /\ asked = [beat |-> FALSE, after |-> 0, period |-> 0, elapsed |-> 0, real |-> 0]

-----------------------------------------------------------------------------
(* main, setup and LinuxGateway *)

\* begin() fails and the process exits, or main starts the loop.
setup ==
    /\ gateway = "starting"
    /\ \/ gateway' = "failed" /\ UNCHANGED dispatch
       \/ gateway' = "running" /\ dispatch' = "check"
    /\ UNCHANGED <<loopStopped, stopping, clockVars>>

\* Mutant of dispatch_loop: the flag is read once.
dispatch_loop_once ==
    /\ \/ dispatch = "check" /\ dispatch' = "loop"
       \/ dispatch = "loop" /\ dispatch' = "check"
    /\ UNCHANGED <<gateway, loopStopped, stopping, clockVars>>

\* The flag is read between two calls of Core's loop.
dispatch_loop ==
    /\ \/ dispatch = "check" /\ dispatch' = IF loopStopped THEN "ended" ELSE "loop"
       \/ dispatch = "loop" /\ dispatch' = "check"
    /\ UNCHANGED <<gateway, loopStopped, stopping, clockVars>>

stop_loop ==
    /\ dispatch # "none" /\ stopping = "no"
    /\ loopStopped' = TRUE /\ stopping' = "join"
    /\ UNCHANGED <<gateway, dispatch, clockVars>>

stop_loop_joined ==
    /\ stopping = "join" /\ dispatch = "ended"
    /\ stopping' = "returned"
    /\ UNCHANGED <<gateway, dispatch, loopStopped, clockVars>>

-----------------------------------------------------------------------------
(* LinuxSystem, called by Core from its loop *)

set_heartbeat ==
    /\ dispatch = "loop"
    /\ heartbeat_period' \in Periods
    /\ UNCHANGED <<loopVars, millis, heartbeat_current, elapsed_current, sinceBeat, sinceAsked, asked>>

\* Mutant of Difference: the difference is not one of unsigned numbers.
DifferenceSigned(a, b) == IF a < b THEN 0 ELSE a - b

\* The difference of two uint32_t.
Difference(a, b) == (a - b) % Wrap

has_beaten ==
    /\ dispatch = "loop"
    /\ LET beat == Difference(millis, heartbeat_current) > heartbeat_period
       IN  /\ heartbeat_current' = IF beat THEN millis ELSE heartbeat_current
           /\ sinceBeat' = IF beat THEN 0 ELSE sinceBeat
           /\ asked' = [asked EXCEPT !.beat = beat, !.after = sinceBeat, !.period = heartbeat_period]
    /\ UNCHANGED <<loopVars, millis, heartbeat_period, elapsed_current, sinceAsked>>

get_elapsed_time ==
    /\ dispatch = "loop"
    /\ asked' = [asked EXCEPT !.elapsed = Difference(millis, elapsed_current), !.real = sinceAsked]
    /\ elapsed_current' = millis /\ sinceAsked' = 0
    /\ UNCHANGED <<loopVars, millis, heartbeat_period, heartbeat_current, sinceBeat>>

tick ==
    /\ sinceBeat < MaxTicks /\ sinceAsked < MaxTicks
    /\ millis' = (millis + 1) % Wrap
    /\ sinceBeat' = sinceBeat + 1 /\ sinceAsked' = sinceAsked + 1
    /\ UNCHANGED <<loopVars, heartbeat_period, heartbeat_current, elapsed_current, asked>>

Next ==
    \/ setup \/ dispatch_loop \/ stop_loop \/ stop_loop_joined
    \/ set_heartbeat \/ has_beaten \/ get_elapsed_time \/ tick

-----------------------------------------------------------------------------
(* Properties *)

\* The heartbeat comes when more than its period has really passed and not before, and
\* the elapsed time is what has really passed, also across the wraparound of the clock,
\* provided Core asks at least once in 2^32 ms.
TimeAcrossWrap ==
    /\ asked.after < Wrap => (asked.beat <=> asked.after > asked.period)
    /\ asked.real < Wrap => asked.elapsed = asked.real

\* stop_loop returns, given that Core's loop() does, and no loop() runs after that.
StopReturns == stopping = "join" ~> stopping = "returned" /\ dispatch = "ended"
=============================================================================
