-------------------------- MODULE TransportsProofs --------------------------
(***************************************************************************)
(* Proofs about the builds of the gateway: the clock across its wraparound *)
(* (GatewayProcess), the queue between the threads of TcpSocket and its    *)
(* loop, and the threads of the Bluetooth LE transport, each for every     *)
(* number of clients, devices and threads and every length of a queue.     *)
(*                                                                         *)
(* The variables of a build change by its own steps only, so each          *)
(* invariant is about one part; the frame lemmas say so once.              *)
(***************************************************************************)
EXTENDS Transports, TLAPS

-----------------------------------------------------------------------------
(* The clock: LinuxSystem *)

\* A remainder is between 0 and the divisor (a uint32_t of LinuxSystem).
LEMMA RemainderType == ASSUME NEW w \in Nat \ {0}, NEW a \in Int PROVE a % w \in 0..(w - 1)
  OBVIOUS

\* A number below the divisor is its own remainder: a uint32_t that has not wrapped around.
LEMMA RemainderSmall == ASSUME NEW w \in Nat \ {0}, NEW a \in 0..(w - 1) PROVE a % w = a
  OBVIOUS

\* Quotient and remainder.
LEMMA Division ==
  ASSUME NEW w \in Nat \ {0}, NEW a \in Int
  PROVE  a \div w \in Int /\ a % w \in 0..(w - 1) /\ a = w * (a \div w) + (a % w)
<1>0. w \in Nat /\ w > 0
  OBVIOUS
<1>1. a \div w \in Int
  BY <1>0
<1>2. a % w \in 0..(w - 1)
  BY <1>0
<1>3. a = w * (a \div w) + (a % w)
  BY <1>0
<1> QED  BY <1>1, <1>2, <1>3

\* A number has one remainder.
LEMMA RemainderUnique ==
  ASSUME NEW w \in Nat \ {0}, NEW q \in Int, NEW p \in Int,
         NEW r \in 0..(w - 1), NEW s \in 0..(w - 1), w * q + r = w * p + s
  PROVE  r = s
<1>1. ASSUME q > p PROVE FALSE
  <2>1. w * (q - p) >= w
    BY <1>1
  <2> QED  BY <2>1
<1>2. ASSUME p > q PROVE FALSE
  <2>1. w * (p - q) >= w
    BY <1>2
  <2> QED  BY <2>1
<1>3. q = p
  BY <1>1, <1>2
<1> QED  BY <1>3

\* Counting by one: the remainder is counted too, and wraps around after the last (millis()).
LEMMA RemainderStep ==
  ASSUME NEW w \in Nat \ {0}, NEW a \in Nat
  PROVE  (a + 1) % w = IF a % w = w - 1 THEN 0 ELSE (a % w) + 1
<1> DEFINE q == a \div w
           r == a % w
           p == (a + 1) \div w
           s == (a + 1) % w
<1>1. q \in Int /\ r \in 0..(w - 1) /\ a = w * q + r
  BY Division
<1>2. p \in Int /\ s \in 0..(w - 1) /\ a + 1 = w * p + s
  BY Division
<1> HIDE DEF q, r, p, s
<1>3. CASE r = w - 1
  <2>1. w * (q + 1) + 0 = w * p + s
    <3>1. w * (q + 1) = w * q + w
      BY <1>1
    <3> QED  BY <1>1, <1>2, <1>3, <3>1
  <2>2. q + 1 \in Int /\ 0 \in 0..(w - 1)
    BY <1>1
  <2> QED  BY <1>1, <1>2, <1>3, <2>1, <2>2, RemainderUnique DEF r, s
<1>4. CASE r # w - 1
  <2>1. w * q + (r + 1) = w * p + s
    BY <1>1, <1>2
  <2>2. r + 1 \in 0..(w - 1)
    BY <1>1, <1>4
  <2> QED  BY <1>1, <1>2, <1>4, <2>1, <2>2, RemainderUnique DEF r, s
<1> QED  BY <1>3, <1>4

\* The difference of two uint32_t, as LinuxSystem computes it.
LEMMA RemainderDifference ==
  ASSUME NEW w \in Nat \ {0}, NEW a \in 0..(w - 1), NEW b \in 0..(w - 1)
  PROVE  (a - b) % w = IF a >= b THEN a - b ELSE a - b + w
  OBVIOUS

\* A tick of the clock, wrapped around or not, adds one to the difference from an earlier
\* reading of it, modulo 2^32: the fact has_beaten and get_elapsed_time rest on.
LEMMA DifferenceStep ==
  ASSUME NEW m \in 0..(Wrap - 1), NEW b \in 0..(Wrap - 1), NEW s \in Nat,
         Process!Difference(m, b) = s % Wrap
  PROVE  Process!Difference((m + 1) % Wrap, b) = (s + 1) % Wrap
<1>w. Wrap \in Nat \ {0}
  BY ConstantsAssumption DEF Process!ConstantsOK
<1>d. (m - b) % Wrap = s % Wrap
  BY DEF Process!Difference
<1>1. (m + 1) % Wrap = IF m = Wrap - 1 THEN 0 ELSE m + 1
  <2>1. m % Wrap = m
    BY <1>w, RemainderSmall
  <2>2. (m + 1) % Wrap = IF m % Wrap = Wrap - 1 THEN 0 ELSE (m % Wrap) + 1
    <3>1. m \in Nat
      OBVIOUS
    <3> QED  BY <3>1, <1>w, RemainderStep
  <2> QED  BY <2>1, <2>2
<1>2. (m - b) % Wrap = IF m >= b THEN m - b ELSE m - b + Wrap
  BY <1>w, RemainderDifference
<1>3. (s + 1) % Wrap = IF s % Wrap = Wrap - 1 THEN 0 ELSE (s % Wrap) + 1
  BY <1>w, RemainderStep
<1>4. PICK n \in 0..(Wrap - 1) : n = (m + 1) % Wrap
  BY <1>1, <1>w
<1>5. (n - b) % Wrap = IF n >= b THEN n - b ELSE n - b + Wrap
  BY <1>w, RemainderDifference
<1>6. (n - b) % Wrap = (s + 1) % Wrap
  <2>1. CASE m = Wrap - 1
    BY <2>1, <1>w, <1>d, <1>1, <1>2, <1>3, <1>4, <1>5
  <2>2. CASE m # Wrap - 1
    BY <2>2, <1>w, <1>d, <1>1, <1>2, <1>3, <1>4, <1>5
  <2> QED  BY <2>1, <2>2
<1> QED  BY <1>4, <1>6 DEF Process!Difference

\* What has_beaten and get_elapsed_time last answered, with the true times.
Answers == [beat : BOOLEAN, after : Nat, period : 0..(Wrap - 1), elapsed : Nat, real : Nat]

\* The clock's own variables are uint32_t, and the distance of millis() from the last beat
\* and from the last question is the time that really passed, modulo 2^32.
ClockInv ==
    /\ millis \in 0..(Wrap - 1) /\ heartbeat_period \in 0..(Wrap - 1)
    /\ heartbeat_current \in 0..(Wrap - 1) /\ elapsed_current \in 0..(Wrap - 1)
    /\ sinceBeat \in Nat /\ sinceAsked \in Nat
    /\ Process!Difference(millis, heartbeat_current) = sinceBeat % Wrap
    /\ Process!Difference(millis, elapsed_current) = sinceAsked % Wrap
    /\ asked \in Answers
    /\ TimeAcrossWrap

\* The clock starts at 0, and so do the times since the last beat and question.
LEMMA ClockInit == Init => ClockInv
<1> SUFFICES ASSUME Process!Init PROVE ClockInv  BY DEF Init
<1>w. Wrap \in Nat \ {0} /\ DefaultPeriod \in 0..(Wrap - 1)
  BY ConstantsAssumption DEF Process!ConstantsOK
<1>z. 0 \in 0..(Wrap - 1) /\ 0 % Wrap = 0 /\ (0 - 0) % Wrap = 0
  BY <1>w, RemainderSmall
<1>1. asked \in Answers
  BY <1>z DEF Process!Init, Answers
<1>2. TimeAcrossWrap
  BY DEF Process!Init, TimeAcrossWrap, Process!TimeAcrossWrap
<1> QED  BY <1>w, <1>z, <1>1, <1>2 DEF Process!Init, ClockInv, Process!Difference

\* The other builds have no clock: only ProcessStep changes it.
LEMMA ClockFrame == [Next]_vars => Process!Next \/ UNCHANGED processVars
  BY DEF Next, vars, SerialStep, TelnetStep, UdpStep, SingleStep, TcpStep, BleStep, ProcessStep

\* has_beaten: the answer is right if less than 2^32 ms have passed since the last beat, and
\* a beat puts both the clock's and the true distance to 0.
LEMMA ClockBeaten == ClockInv /\ Process!has_beaten => ClockInv'
<1> SUFFICES ASSUME ClockInv, Process!has_beaten PROVE ClockInv'  OBVIOUS
<1>w. Wrap \in Nat \ {0}
  BY ConstantsAssumption DEF Process!ConstantsOK
<1> DEFINE beat == Process!Difference(millis, heartbeat_current) > heartbeat_period
<1>t. /\ millis \in 0..(Wrap - 1) /\ heartbeat_period \in 0..(Wrap - 1)
      /\ heartbeat_current \in 0..(Wrap - 1) /\ elapsed_current \in 0..(Wrap - 1)
      /\ sinceBeat \in Nat /\ sinceAsked \in Nat
      /\ Process!Difference(millis, heartbeat_current) = sinceBeat % Wrap
      /\ Process!Difference(millis, elapsed_current) = sinceAsked % Wrap
      /\ asked \in Answers
  BY DEF ClockInv
<1>s. /\ heartbeat_current' = IF beat THEN millis ELSE heartbeat_current
      /\ sinceBeat' = IF beat THEN 0 ELSE sinceBeat
      /\ asked' = [asked EXCEPT !.beat = beat, !.after = sinceBeat, !.period = heartbeat_period]
      /\ UNCHANGED <<millis, heartbeat_period, elapsed_current, sinceAsked>>
  BY DEF Process!has_beaten
<1>z. Process!Difference(millis, millis) = 0 % Wrap
  BY <1>t, <1>w, RemainderDifference DEF Process!Difference
<1>b. beat \in BOOLEAN /\ (beat <=> sinceBeat % Wrap > heartbeat_period)
  BY <1>t
<1> HIDE DEF beat
<1>1. Process!Difference(millis, heartbeat_current)' = (sinceBeat % Wrap)'
  <2>1. CASE beat
    BY <2>1, <1>s, <1>z DEF Process!Difference
  <2>2. CASE ~beat
    BY <2>2, <1>s, <1>t DEF Process!Difference
  <2> QED  BY <2>1, <2>2
<1>2. Process!Difference(millis, elapsed_current)' = (sinceAsked % Wrap)'
  BY <1>s, <1>t DEF Process!Difference
<1>3. /\ asked'.beat = beat /\ asked'.after = sinceBeat /\ asked'.period = heartbeat_period
      /\ asked'.elapsed = asked.elapsed /\ asked'.real = asked.real
  BY <1>s, <1>t DEF Answers
<1>4. asked' \in Answers
  BY <1>s, <1>t, <1>b DEF Answers
<1>5. TimeAcrossWrap'
  <2>1. sinceBeat < Wrap => (beat <=> sinceBeat > heartbeat_period)
    <3> SUFFICES ASSUME sinceBeat < Wrap PROVE beat <=> sinceBeat > heartbeat_period
      OBVIOUS
    <3>1. sinceBeat % Wrap = sinceBeat
      BY <1>t, <1>w, RemainderSmall
    <3> QED  BY <1>b, <3>1
  <2>2. asked.real < Wrap => asked.elapsed = asked.real
    BY DEF ClockInv, TimeAcrossWrap, Process!TimeAcrossWrap
  <2> QED  BY <2>1, <2>2, <1>3 DEF TimeAcrossWrap, Process!TimeAcrossWrap
<1>6. heartbeat_current' \in 0..(Wrap - 1) /\ sinceBeat' \in Nat
  BY <1>s, <1>t
<1> QED  BY <1>s, <1>t, <1>1, <1>2, <1>4, <1>5, <1>6 DEF ClockInv

\* get_elapsed_time: the answer is right if less than 2^32 ms have passed since the last one.
LEMMA ClockElapsed == ClockInv /\ Process!get_elapsed_time => ClockInv'
<1> SUFFICES ASSUME ClockInv, Process!get_elapsed_time PROVE ClockInv'  OBVIOUS
<1>w. Wrap \in Nat \ {0}
  BY ConstantsAssumption DEF Process!ConstantsOK
<1>t. /\ millis \in 0..(Wrap - 1) /\ heartbeat_period \in 0..(Wrap - 1)
      /\ heartbeat_current \in 0..(Wrap - 1) /\ elapsed_current \in 0..(Wrap - 1)
      /\ sinceBeat \in Nat /\ sinceAsked \in Nat
      /\ Process!Difference(millis, heartbeat_current) = sinceBeat % Wrap
      /\ Process!Difference(millis, elapsed_current) = sinceAsked % Wrap
      /\ asked \in Answers
  BY DEF ClockInv
<1>s. /\ asked' = [asked EXCEPT !.elapsed = sinceAsked % Wrap, !.real = sinceAsked]
      /\ elapsed_current' = millis /\ sinceAsked' = 0
      /\ UNCHANGED <<millis, heartbeat_period, heartbeat_current, sinceBeat>>
  BY <1>t DEF Process!get_elapsed_time
<1>r. sinceAsked % Wrap \in Nat
  BY <1>t, <1>w, RemainderType
<1>1. Process!Difference(millis, heartbeat_current)' = (sinceBeat % Wrap)'
  BY <1>s, <1>t DEF Process!Difference
<1>2. Process!Difference(millis, elapsed_current)' = (sinceAsked % Wrap)'
  BY <1>s, <1>t, <1>w, RemainderDifference DEF Process!Difference
<1>3. /\ asked'.beat = asked.beat /\ asked'.after = asked.after /\ asked'.period = asked.period
      /\ asked'.elapsed = sinceAsked % Wrap /\ asked'.real = sinceAsked
  BY <1>s, <1>t DEF Answers
<1>4. asked' \in Answers
  BY <1>s, <1>t, <1>r DEF Answers
<1>5. TimeAcrossWrap'
  <2>1. sinceAsked < Wrap => sinceAsked % Wrap = sinceAsked
    BY <1>t, <1>w, RemainderSmall
  <2>2. asked.after < Wrap => (asked.beat <=> asked.after > asked.period)
    BY DEF ClockInv, TimeAcrossWrap, Process!TimeAcrossWrap
  <2> QED  BY <2>1, <2>2, <1>3 DEF TimeAcrossWrap, Process!TimeAcrossWrap
<1> QED  BY <1>s, <1>t, <1>1, <1>2, <1>4, <1>5 DEF ClockInv

\* A tick of the clock.
LEMMA ClockTick == ClockInv /\ Process!tick => ClockInv'
<1> SUFFICES ASSUME ClockInv, Process!tick PROVE ClockInv'  OBVIOUS
<1>w. Wrap \in Nat \ {0}
  BY ConstantsAssumption DEF Process!ConstantsOK
<1>s. /\ millis' = (millis + 1) % Wrap /\ sinceBeat' = sinceBeat + 1 /\ sinceAsked' = sinceAsked + 1
      /\ UNCHANGED <<heartbeat_period, heartbeat_current, elapsed_current, asked>>
  BY DEF Process!tick
<1>1. Process!Difference(millis', heartbeat_current) = (sinceBeat + 1) % Wrap
  BY <1>s, DifferenceStep DEF ClockInv
<1>2. Process!Difference(millis', elapsed_current) = (sinceAsked + 1) % Wrap
  BY <1>s, DifferenceStep DEF ClockInv
<1>3. /\ Process!Difference(millis, heartbeat_current)' = (sinceBeat % Wrap)'
      /\ Process!Difference(millis, elapsed_current)' = (sinceAsked % Wrap)'
  BY <1>s, <1>1, <1>2 DEF Process!Difference
<1>4. millis' \in 0..(Wrap - 1) /\ sinceBeat' \in Nat /\ sinceAsked' \in Nat
  BY <1>s, <1>w, RemainderType DEF ClockInv
<1>5. TimeAcrossWrap'
  BY <1>s DEF ClockInv, TimeAcrossWrap, Process!TimeAcrossWrap
<1> QED  BY <1>s, <1>3, <1>4, <1>5 DEF ClockInv

\* Every step of a build keeps the clock's invariant.
LEMMA ClockNext == ClockInv /\ [Next]_vars => ClockInv'
<1> SUFFICES ASSUME ClockInv, [Next]_vars PROVE ClockInv'  OBVIOUS
<1>1. CASE UNCHANGED <<millis, heartbeat_period, heartbeat_current, elapsed_current,
                       sinceBeat, sinceAsked, asked>>
  BY <1>1 DEF ClockInv, TimeAcrossWrap, Process!TimeAcrossWrap, Process!Difference
<1>2. CASE Process!set_heartbeat
  <2>1. heartbeat_period' \in 0..(Wrap - 1)
    BY <1>2, ConstantsAssumption DEF Process!set_heartbeat, Process!ConstantsOK
  <2>2. UNCHANGED <<millis, heartbeat_current, elapsed_current, sinceBeat, sinceAsked, asked>>
    BY <1>2 DEF Process!set_heartbeat
  <2> QED  BY <2>1, <2>2 DEF ClockInv, TimeAcrossWrap, Process!TimeAcrossWrap, Process!Difference
<1>3. Process!Next =>
          \/ Process!set_heartbeat \/ Process!has_beaten \/ Process!get_elapsed_time \/ Process!tick
          \/ UNCHANGED <<millis, heartbeat_period, heartbeat_current, elapsed_current,
                         sinceBeat, sinceAsked, asked>>
  BY DEF Process!Next, Process!setup, Process!dispatch_loop, Process!stop_loop,
         Process!stop_loop_joined, Process!clockVars
<1>4. UNCHANGED processVars =>
          UNCHANGED <<millis, heartbeat_period, heartbeat_current, elapsed_current,
                      sinceBeat, sinceAsked, asked>>
  BY DEF processVars
<1> QED  BY <1>1, <1>2, <1>3, <1>4, ClockFrame, ClockBeaten, ClockElapsed, ClockTick

\* The heartbeat and the elapsed time of LinuxSystem are right across the wraparound of
\* millis(), whatever the width of the clock and the period.
THEOREM TimeCorrect == Spec => []TimeAcrossWrap
<1>1. ClockInv => TimeAcrossWrap
  BY DEF ClockInv
<1> QED  BY <1>1, ClockInit, ClockNext, PTL DEF Spec

-----------------------------------------------------------------------------
(* The queue of TcpSocket *)

\* What Append does to a queue (Queue::push, addBLEMessage).
LEMMA QueueAppend ==
  ASSUME NEW S, NEW q \in Seq(S), NEW e \in S
  PROVE  /\ Append(q, e) \in Seq(S) /\ Append(q, e) # <<>>
         /\ Len(Append(q, e)) = Len(q) + 1 /\ Len(q) \in Nat
         /\ \A i \in 1..Len(q) : Append(q, e)[i] = q[i]
         /\ Append(q, e)[Len(q) + 1] = e
  OBVIOUS

\* What Head and Tail do to a queue (Queue::pop).
LEMMA QueueTail ==
  ASSUME NEW S, NEW q \in Seq(S), q # <<>>
  PROVE  /\ Tail(q) \in Seq(S) /\ Head(q) = q[1] /\ q[1] \in S
         /\ Len(Tail(q)) = Len(q) - 1 /\ Len(q) \in Nat /\ Len(q) >= 1
         /\ \A i \in 1..(Len(q) - 1) : Tail(q)[i] = q[i + 1]
  OBVIOUS

\* Counts of a client's messages; messages in the queue.
Counts == [sent : Nat, received : Nat]
Received == Peers \X Nat

\* Types; no client has more messages received than it has sent.
CountsInv ==
    /\ sends \in [Peers -> Counts]
    /\ receiver_queue \in Seq(Received)
    /\ \A c \in Peers : sends[c].received <= sends[c].sent

\* The queue holds messages that have been received, or pieces, which are numbered 0.
QueueInv ==
    /\ CountsInv
    /\ \A i \in 1..Len(receiver_queue) :
          receiver_queue[i][2] <= sends[receiver_queue[i][1]].received

\* Nothing is sent or received at first.
LEMMA QueueInit == Init => QueueInv
<1> SUFFICES ASSUME Tcp!Init PROVE QueueInv  BY DEF Init
<1>1. receiver_queue = <<>> /\ Len(receiver_queue) = 0
  BY DEF Tcp!Init
<1>2. sends = [c \in Peers |-> [sent |-> 0, received |-> 0]]
  BY DEF Tcp!Init
<1>3. CountsInv
  BY <1>1, <1>2 DEF CountsInv, Counts
<1> QED  BY <1>1, <1>3 DEF QueueInv

\* The other builds have no queue: only TcpStep changes it.
LEMMA QueueFrame == [Next]_vars => Tcp!Next \/ UNCHANGED tcpVars
  BY DEF Next, vars, SerialStep, TelnetStep, UdpStep, SingleStep, TcpStep, BleStep, ProcessStep

\* Messages are sent, or received and dropped: the counts only grow.
LEMMA QueueGrows ==
  ASSUME QueueInv, UNCHANGED receiver_queue,
         sends' \in [Peers -> Counts],
         \A p \in Peers : sends'[p].received >= sends[p].received /\ sends'[p].received <= sends'[p].sent
  PROVE  QueueInv'
<1>c. sends \in [Peers -> Counts] /\ receiver_queue \in Seq(Received)
  BY DEF QueueInv, CountsInv
<1>t. \A p \in Peers : sends[p].received \in Nat /\ sends'[p].received \in Nat
  BY <1>c DEF Counts
<1>m. \A i \in 1..Len(receiver_queue) : receiver_queue[i][1] \in Peers /\ receiver_queue[i][2] \in Nat
  BY <1>c DEF Received
<1>1. CountsInv'
  BY <1>c DEF CountsInv
<1>2. \A i \in 1..Len(receiver_queue) : receiver_queue[i][2] <= sends'[receiver_queue[i][1]].received
  BY <1>m, <1>t DEF QueueInv
<1> QED  BY <1>1, <1>2 DEF QueueInv

\* What is pushed has a number that is received then (receive_message, receive_empty).
LEMMA QueuePush ==
  ASSUME QueueInv, NEW c \in Peers, NEW n \in Nat,
         receiver_queue' = Append(receiver_queue, <<c, n>>),
         sends' \in [Peers -> Counts],
         \A p \in Peers : sends'[p].received >= sends[p].received /\ sends'[p].received <= sends'[p].sent,
         n <= sends'[c].received
  PROVE  QueueInv'
<1> DEFINE D == Append(receiver_queue, <<c, n>>)
           k == Len(receiver_queue)
<1>e. <<c, n>> \in Received
  BY DEF Received
<1>q. receiver_queue \in Seq(Received) /\ sends \in [Peers -> Counts]
  BY DEF QueueInv, CountsInv
<1>d. /\ D \in Seq(Received) /\ Len(D) = k + 1 /\ k \in Nat
      /\ \A i \in 1..k : D[i] = receiver_queue[i]
      /\ D[k + 1] = <<c, n>>
  BY <1>e, <1>q, QueueAppend
<1>D. receiver_queue' = D
  OBVIOUS
<1>m. \A i \in 1..k : receiver_queue[i] \in Received
  BY <1>q
<1> HIDE DEF D
<1>t. \A p \in Peers : sends[p].received \in Nat /\ sends'[p].received \in Nat
  BY <1>q DEF Counts
<1>1. CountsInv'
  BY <1>d, <1>D DEF CountsInv
<1>i. \A i \in 1..k : /\ D[i][1] \in Peers /\ D[i][2] \in Nat
                      /\ D[i][2] <= sends[D[i][1]].received
  BY <1>d, <1>m DEF QueueInv, Received
<1>l. D[k + 1][1] = c /\ D[k + 1][2] = n
  BY <1>d
<1>s. \A i \in 1..Len(D) : i \in 1..k \/ i = k + 1
  BY <1>d
<1>2. \A i \in 1..Len(D) : D[i][2] <= sends'[D[i][1]].received
  <2> SUFFICES ASSUME NEW i \in 1..Len(D) PROVE D[i][2] <= sends'[D[i][1]].received
    OBVIOUS
  <2>1. CASE i \in 1..k
    <3>1. PICK p \in Peers : p = D[i][1]
      BY <2>1, <1>i
    <3>2. D[i][2] \in Nat /\ D[i][2] <= sends[p].received
      BY <2>1, <3>1, <1>i
    <3>3. sends[p].received <= sends'[p].received /\ sends[p].received \in Nat /\ sends'[p].received \in Nat
      BY <1>t
    <3> QED  BY <3>1, <3>2, <3>3
  <2>2. CASE i = k + 1
    BY <2>2, <1>l
  <2> QED  BY <2>1, <2>2, <1>s
<1> QED  BY <1>1, <1>2, <1>D DEF QueueInv

\* TcpSocket::loop takes the first message.
LEMMA QueuePop == QueueInv /\ Tcp!loop_pop => QueueInv'
<1> SUFFICES ASSUME QueueInv, Tcp!loop_pop PROVE QueueInv'  OBVIOUS
<1> DEFINE D == Tail(receiver_queue)
           k == Len(receiver_queue)
<1>a. receiver_queue # <<>> /\ receiver_queue' = D /\ sends' = sends
  BY DEF Tcp!loop_pop
<1>c. receiver_queue \in Seq(Received)
  BY DEF QueueInv, CountsInv
<1>d. /\ D \in Seq(Received) /\ Len(D) = k - 1 /\ k \in Nat /\ k >= 1
      /\ \A i \in 1..(k - 1) : D[i] = receiver_queue[i + 1]
  BY <1>a, <1>c, QueueTail
<1> HIDE DEF D
<1>x. \A i \in 1..Len(D) : i + 1 \in 1..k /\ D[i] = receiver_queue[i + 1]
  BY <1>d
<1>1. CountsInv'
  BY <1>a, <1>d DEF QueueInv, CountsInv
<1>2. \A i \in 1..Len(D) : D[i][2] <= sends[D[i][1]].received
  BY <1>x DEF QueueInv
<1> QED  BY <1>1, <1>2, <1>a DEF QueueInv

\* A client writes: one more message is sent.
LEMMA QueueWrites == ASSUME NEW c \in Peers PROVE QueueInv /\ Tcp!writes(c) => QueueInv'
<1> SUFFICES ASSUME QueueInv, Tcp!writes(c) PROVE QueueInv'  OBVIOUS
<1>c. sends \in [Peers -> Counts] /\ \A p \in Peers : sends[p].received <= sends[p].sent
  BY DEF QueueInv, CountsInv
<1>1. sends' = [sends EXCEPT ![c].sent = @ + 1] /\ UNCHANGED receiver_queue
  BY DEF Tcp!writes
<1>2. sends' \in [Peers -> Counts]
  BY <1>c, <1>1 DEF Counts
<1>3. \A p \in Peers : sends'[p].received >= sends[p].received /\ sends'[p].received <= sends'[p].sent
  BY <1>c, <1>1 DEF Counts
<1> QED  BY <1>1, <1>2, <1>3, QueueGrows

\* TcpConnection::loop receives a message, in one part or in two, or several that it drops.
LEMMA QueueReceives == ASSUME NEW c \in Peers PROVE QueueInv /\ Tcp!receive_message(c) => QueueInv'
<1> SUFFICES ASSUME QueueInv, Tcp!receive_message(c) PROVE QueueInv'  OBVIOUS
<1>c. sends \in [Peers -> Counts] /\ \A p \in Peers : sends[p].received <= sends[p].sent
  BY DEF QueueInv, CountsInv
<1>u. sends[c].received < sends[c].sent
  BY DEF Tcp!receive_message
<1>1. CASE /\ sends' = [sends EXCEPT ![c].received = @ + 1]
           /\ receiver_queue' \in {Append(receiver_queue, <<c, sends[c].received + 1>>),
                                  Append(receiver_queue, <<c, 0>>), receiver_queue}
  <2> DEFINE n == sends[c].received + 1
  <2>1. sends' \in [Peers -> Counts]
    BY <1>c, <1>1 DEF Counts
  <2>2. \A p \in Peers : sends'[p].received >= sends[p].received /\ sends'[p].received <= sends'[p].sent
    BY <1>c, <1>1, <1>u DEF Counts
  <2>3. n \in Nat /\ n <= sends'[c].received /\ 0 <= sends'[c].received
    BY <1>c, <1>1 DEF Counts
  <2>4. \/ receiver_queue' = Append(receiver_queue, <<c, n>>)
        \/ receiver_queue' = Append(receiver_queue, <<c, 0>>)
        \/ UNCHANGED receiver_queue
    BY <1>1
  <2> HIDE DEF n
  <2>5. CASE receiver_queue' = Append(receiver_queue, <<c, n>>)
    BY <2>1, <2>2, <2>3, <2>5, QueuePush
  <2>6. CASE receiver_queue' = Append(receiver_queue, <<c, 0>>)
    BY <2>1, <2>2, <2>3, <2>6, QueuePush
  <2>7. CASE UNCHANGED receiver_queue
    BY <2>1, <2>2, <2>7, QueueGrows
  <2> QED  BY <2>4, <2>5, <2>6, <2>7
<1>2. CASE /\ sends' = [sends EXCEPT ![c].received = sends[c].sent]
           /\ UNCHANGED receiver_queue
  <2>1. sends' \in [Peers -> Counts]
    BY <1>c, <1>2 DEF Counts
  <2>2. \A p \in Peers : sends'[p].received >= sends[p].received /\ sends'[p].received <= sends'[p].sent
    BY <1>c, <1>2, <1>u DEF Counts
  <2> QED  BY <2>1, <2>2, <1>2, QueueGrows
<1> QED  BY <1>1, <1>2 DEF Tcp!receive_message

\* The end of the stream is taken for an empty message of a client that has sent nothing.
LEMMA QueueEmpty == ASSUME NEW c \in Peers PROVE QueueInv /\ Tcp!receive_empty(c) => QueueInv'
<1> SUFFICES ASSUME QueueInv, Tcp!receive_empty(c) PROVE QueueInv'  OBVIOUS
<1>c. sends \in [Peers -> Counts] /\ \A p \in Peers : sends[p].received <= sends[p].sent
  BY DEF QueueInv, CountsInv
<1>1. sends' = sends /\ receiver_queue' = Append(receiver_queue, <<c, 0>>)
  BY DEF Tcp!receive_empty
<1>2. sends' \in [Peers -> Counts] /\ 0 <= sends'[c].received
  BY <1>c, <1>1 DEF Counts
<1>3. \A p \in Peers : sends'[p].received >= sends[p].received /\ sends'[p].received <= sends'[p].sent
  BY <1>c, <1>1 DEF Counts
<1> QED  BY <1>1, <1>2, <1>3, QueuePush

\* Every step of a build keeps the queue's invariant, for any number of clients and any
\* length of the queue.
LEMMA QueueNext == QueueInv /\ [Next]_vars => QueueInv'
<1> SUFFICES ASSUME QueueInv, [Next]_vars PROVE QueueInv'  OBVIOUS
<1>1. CASE UNCHANGED <<sends, receiver_queue>>
  BY <1>1 DEF QueueInv, CountsInv
<1>2. Tcp!Next =>
          \/ Tcp!loop_pop
          \/ \E c \in Peers : Tcp!writes(c) \/ Tcp!receive_message(c) \/ Tcp!receive_empty(c)
          \/ UNCHANGED <<sends, receiver_queue>>
  BY DEF Tcp!Next, Tcp!begin, Tcp!connects, Tcp!accept, Tcp!addTcpConnection, Tcp!closes, Tcp!loop_empty
<1>3. UNCHANGED tcpVars => UNCHANGED <<sends, receiver_queue>>
  BY DEF tcpVars
<1> QED  BY <1>1, <1>2, <1>3, QueueFrame, QueuePop, QueueWrites, QueueReceives, QueueEmpty

-----------------------------------------------------------------------------
(* The threads of BLESocket *)

\* A connection thread that has marked its device and not taken the mark back: it is inside
\* handleConnection, or has left it by the return for an empty address.
Working(t) == thread[t].at \notin {"free", "return"}

\* Between addBLEConnection and removeBLEConnection.
Open == {"up", "disconnect", "erase"}

BleTypes ==
    /\ acceptor \in {"start", "wait", "scan", "crashed", "ended"} \cup Macs
    /\ statistics \in [Macs -> Ble!Statistic]
    /\ thread \in [Slots -> [at : Ble!Points, mac : Macs \cup {None}]]
    /\ bleConnections \in [Macs -> Slots \cup {None, Expired}]
    /\ threw \subseteq Macs

\* A device is marked as in progress exactly while a thread works on it, which is one only;
\* the acceptor decides on a device that is not marked.
ThreadsInv ==
    /\ \A t \in Slots : Working(t) =>
          /\ thread[t].mac \in Macs
          /\ statistics[thread[t].mac].known /\ statistics[thread[t].mac].inProgress
    /\ \A t, u \in Slots : Working(t) /\ Working(u) /\ thread[t].mac = thread[u].mac => t = u
    /\ acceptor \in Macs => statistics[acceptor].known /\ ~statistics[acceptor].inProgress
    /\ \A m \in Macs : statistics[m].inProgress => \E t \in Slots : Working(t) /\ thread[t].mac = m

\* A device that is tried is not yet faulty.
FailuresInv ==
    /\ \A m \in Macs : /\ statistics[m].connectFailed <= FaultLimit + 1
                       /\ statistics[m].serviceFailed <= FaultLimit + 1
    /\ \A t \in Slots : thread[t].at = "connect" => statistics[thread[t].mac].connectFailed <= FaultLimit
    /\ \A t \in Slots : thread[t].at \in {"connect", "service"} =>
          statistics[thread[t].mac].serviceFailed <= FaultLimit

\* Unless a disconnect of the device has thrown, its entry in bleConnections is the thread
\* between addBLEConnection and removeBLEConnection, and there is no entry if there is none.
EntriesInv ==
    /\ \A m \in Macs \ threw : bleConnections[m] # None =>
          /\ bleConnections[m] \in Slots
          /\ thread[bleConnections[m]].mac = m /\ thread[bleConnections[m]].at \in Open
    /\ \A t \in Slots : thread[t].at \in Open =>
          bleConnections[thread[t].mac] = t \/ thread[t].mac \in threw

BleInv == BleTypes /\ ThreadsInv /\ FailuresInv /\ EntriesInv

\* What the constants are assumed to be.
LEMMA BleConstants ==
  /\ FaultLimit \in Nat /\ FaultyPeriod \in Nat /\ MaxAge \in Nat
  /\ None \notin Slots /\ Expired \notin Slots /\ None # Expired
  /\ \A m \in Macs : m \notin {"start", "wait", "scan", "crashed", "ended"}
  BY ConstantsAssumption DEF Ble!ConstantsOK

\* The fields of a BLEDeviceStatistic: its counters are uint8_t.
LEMMA StatisticFields ==
  ASSUME NEW s \in Ble!Statistic
  PROVE  /\ s.connectFailed \in 0..255 /\ s.serviceFailed \in 0..255
         /\ s.connectFailed \in Nat /\ s.serviceFailed \in Nat
         /\ s.known \in BOOLEAN /\ s.inProgress \in BOOLEAN /\ s.age \in 0..MaxAge
<1>1. s.connectFailed \in 0..255 /\ s.serviceFailed \in 0..255
  BY DEF Ble!Statistic
<1>2. s.known \in BOOLEAN /\ s.inProgress \in BOOLEAN /\ s.age \in 0..MaxAge
  BY DEF Ble!Statistic
<1> QED  BY <1>1, <1>2

\* begin() has started the acceptor's thread; there is no device and no connection.
LEMMA BleInit == Init => BleInv
<1> SUFFICES ASSUME Ble!Init PROVE BleInv  BY DEF Init
<1>s. Ble!Unknown \in Ble!Statistic /\ Ble!NoThread \in [at : Ble!Points, mac : Macs \cup {None}]
  BY BleConstants DEF Ble!Unknown, Ble!Statistic, Ble!NoThread, Ble!Points
<1>i. /\ acceptor = "start" /\ threw = {}
      /\ statistics = [m \in Macs |-> Ble!Unknown] /\ thread = [t \in Slots |-> Ble!NoThread]
      /\ bleConnections = [m \in Macs |-> None]
  BY DEF Ble!Init
<1>1. BleTypes
  BY <1>s, <1>i DEF BleTypes
<1>2. \A t \in Slots : thread[t].at = "free"
  BY <1>i DEF Ble!NoThread
<1>3. \A m \in Macs : /\ ~statistics[m].inProgress
                      /\ statistics[m].connectFailed = 0 /\ statistics[m].serviceFailed = 0
  BY <1>i DEF Ble!Unknown
<1>4. ThreadsInv
  BY <1>2, <1>3, <1>i, BleConstants DEF ThreadsInv, Working
<1>5. FailuresInv
  BY <1>2, <1>3, BleConstants DEF FailuresInv
<1>6. EntriesInv
  BY <1>2, <1>i DEF EntriesInv, Open
<1> QED  BY <1>1, <1>4, <1>5, <1>6 DEF BleInv

\* The other builds have no Bluetooth: only BleStep changes its variables.
LEMMA BleFrame == [Next]_vars => Ble!Next \/ UNCHANGED bleVars
  BY DEF Next, vars, SerialStep, TelnetStep, UdpStep, SingleStep, TcpStep, BleStep, ProcessStep

-----------------------------------------------------------------------------
(* What a step must leave alone for each part of the invariant to be kept *)

\* The same threads are at work, the same devices marked, and no device is decided on.
SameWork ==
    /\ \A t \in Slots : /\ thread'[t].mac = thread[t].mac
                        /\ thread'[t].at \in {"free", "return"} <=> thread[t].at \in {"free", "return"}
    /\ \A m \in Macs : /\ statistics'[m].known = statistics[m].known
                       /\ statistics'[m].inProgress = statistics[m].inProgress
    /\ acceptor' = acceptor \/ acceptor' \notin Macs

\* No failure is counted, and no thread starts to connect.
NoFailure ==
    /\ \A m \in Macs : /\ statistics'[m].connectFailed \in Nat /\ statistics'[m].serviceFailed \in Nat
                       /\ statistics'[m].connectFailed <= statistics[m].connectFailed
                       /\ statistics'[m].serviceFailed <= statistics[m].serviceFailed
    /\ \A t \in Slots :
          /\ thread'[t].at = "connect" => thread[t].at = "connect" /\ thread'[t].mac = thread[t].mac
          /\ thread'[t].at = "service" => /\ thread[t].at \in {"connect", "service"}
                                          /\ thread'[t].mac = thread[t].mac

\* The same connections are open, under the same entries.
SameEntries ==
    /\ UNCHANGED <<bleConnections, threw>>
    /\ \A t \in Slots : /\ thread'[t].at \in Open <=> thread[t].at \in Open
                        /\ thread[t].at \in Open => thread'[t].mac = thread[t].mac

\* A step that starts and ends no work keeps what is known of the threads.
LEMMA ThreadsKept == ThreadsInv /\ SameWork => ThreadsInv'
<1> SUFFICES ASSUME ThreadsInv, SameWork PROVE ThreadsInv'  OBVIOUS
<1>w. \A t \in Slots : thread'[t].mac = thread[t].mac /\ (Working(t)' <=> Working(t))
  BY DEF SameWork, Working
<1>f. \A m \in Macs : /\ statistics'[m].known = statistics[m].known
                      /\ statistics'[m].inProgress = statistics[m].inProgress
  BY DEF SameWork
<1>1. \A t \in Slots : Working(t)' =>
          /\ thread'[t].mac \in Macs
          /\ statistics'[thread'[t].mac].known /\ statistics'[thread'[t].mac].inProgress
  BY <1>w, <1>f DEF ThreadsInv
<1>2. \A t, u \in Slots : Working(t)' /\ Working(u)' /\ thread'[t].mac = thread'[u].mac => t = u
  BY <1>w DEF ThreadsInv
<1>3. acceptor' \in Macs => statistics'[acceptor'].known /\ ~statistics'[acceptor'].inProgress
  BY <1>f DEF ThreadsInv, SameWork
<1>4. \A m \in Macs : statistics'[m].inProgress => \E t \in Slots : Working(t)' /\ thread'[t].mac = m
  BY <1>w, <1>f DEF ThreadsInv
<1> QED  BY <1>1, <1>2, <1>3, <1>4 DEF ThreadsInv

\* A step that counts no failure keeps the bounds; threads that connect have a device.
LEMMA FailuresKept == BleTypes /\ ThreadsInv /\ FailuresInv /\ NoFailure => FailuresInv'
<1> SUFFICES ASSUME BleTypes, ThreadsInv, FailuresInv, NoFailure PROVE FailuresInv'  OBVIOUS
<1>t. \A m \in Macs : statistics[m].connectFailed \in Nat /\ statistics[m].serviceFailed \in Nat
  BY StatisticFields DEF BleTypes
<1>m. \A t \in Slots : thread[t].at \in {"connect", "service"} => thread[t].mac \in Macs
  BY DEF ThreadsInv, Working
<1>1. \A m \in Macs : /\ statistics'[m].connectFailed <= FaultLimit + 1
                      /\ statistics'[m].serviceFailed <= FaultLimit + 1
  BY <1>t, BleConstants DEF FailuresInv, NoFailure
<1>2. \A t \in Slots : thread'[t].at = "connect" => statistics'[thread'[t].mac].connectFailed <= FaultLimit
  <2> SUFFICES ASSUME NEW t \in Slots, thread'[t].at = "connect"
               PROVE  statistics'[thread'[t].mac].connectFailed <= FaultLimit
    OBVIOUS
  <2>1. thread[t].at = "connect" /\ thread'[t].mac = thread[t].mac
    BY DEF NoFailure
  <2>2. PICK m \in Macs : m = thread[t].mac
    BY <2>1, <1>m
  <2>3. statistics[m].connectFailed <= FaultLimit
    BY <2>1, <2>2 DEF FailuresInv
  <2>4. statistics'[m].connectFailed <= statistics[m].connectFailed /\ statistics'[m].connectFailed \in Nat
    BY DEF NoFailure
  <2> QED  BY <2>1, <2>2, <2>3, <2>4, <1>t, BleConstants
<1>3. \A t \in Slots : thread'[t].at \in {"connect", "service"} =>
          statistics'[thread'[t].mac].serviceFailed <= FaultLimit
  <2> SUFFICES ASSUME NEW t \in Slots, thread'[t].at \in {"connect", "service"}
               PROVE  statistics'[thread'[t].mac].serviceFailed <= FaultLimit
    OBVIOUS
  <2>1. thread[t].at \in {"connect", "service"} /\ thread'[t].mac = thread[t].mac
    BY DEF NoFailure
  <2>2. PICK m \in Macs : m = thread[t].mac
    BY <2>1, <1>m
  <2>3. statistics[m].serviceFailed <= FaultLimit
    BY <2>1, <2>2 DEF FailuresInv
  <2>4. statistics'[m].serviceFailed <= statistics[m].serviceFailed /\ statistics'[m].serviceFailed \in Nat
    BY DEF NoFailure
  <2> QED  BY <2>1, <2>2, <2>3, <2>4, <1>t, BleConstants
<1> QED  BY <1>1, <1>2, <1>3 DEF FailuresInv

\* A step that opens and closes no connection keeps the entries.
LEMMA EntriesKept == EntriesInv /\ SameEntries => EntriesInv'
<1> SUFFICES ASSUME EntriesInv, SameEntries PROVE EntriesInv'  OBVIOUS
<1>1. \A m \in Macs \ threw : bleConnections[m] # None =>
          /\ bleConnections[m] \in Slots
          /\ thread'[bleConnections[m]].mac = m /\ thread'[bleConnections[m]].at \in Open
  BY DEF EntriesInv, SameEntries
<1>2. \A t \in Slots : thread'[t].at \in Open =>
          bleConnections[thread'[t].mac] = t \/ thread'[t].mac \in threw
  BY DEF EntriesInv, SameEntries
<1> QED  BY <1>1, <1>2 DEF EntriesInv, SameEntries

\* What Goes does: one thread moves on, and keeps its device.
LEMMA Moved ==
  ASSUME BleTypes, NEW t \in Slots, NEW from, NEW to \in Ble!Points, Ble!Goes(t, from, to)
  PROVE  /\ thread' \in [Slots -> [at : Ble!Points, mac : Macs \cup {None}]]
         /\ thread[t].at = from /\ thread'[t].at = to /\ thread'[t].mac = thread[t].mac
         /\ \A u \in Slots : u # t => thread'[u] = thread[u]
         /\ \A u \in Slots : thread'[u].mac = thread[u].mac
<1>1. thread \in [Slots -> [at : Ble!Points, mac : Macs \cup {None}]]
  BY DEF BleTypes
<1>2. thread[t].at = from /\ thread' = [thread EXCEPT ![t].at = to]
  BY DEF Ble!Goes
<1>3. thread' \in [Slots -> [at : Ble!Points, mac : Macs \cup {None}]]
  BY <1>1, <1>2
<1>4. thread'[t].at = to /\ thread'[t].mac = thread[t].mac
  BY <1>1, <1>2
<1>5. \A u \in Slots : u # t => thread'[u] = thread[u]
  BY <1>1, <1>2
<1> QED  BY <1>2, <1>3, <1>4, <1>5

\* A thread that works on a device moves on from one point of handleConnection to another.
LEMMA MovedWorking ==
  ASSUME BleTypes, ThreadsInv, NEW t \in Slots,
         NEW from \in Ble!Points \ {"free", "return"}, NEW to \in Ble!Points \ {"free", "return"},
         Ble!Goes(t, from, to), acceptor' = acceptor,
         \A m \in Macs : /\ statistics'[m].known = statistics[m].known
                         /\ statistics'[m].inProgress = statistics[m].inProgress
  PROVE  ThreadsInv' /\ thread[t].mac \in Macs
<1>1. /\ thread[t].at = from /\ thread'[t].at = to
      /\ \A u \in Slots : u # t => thread'[u] = thread[u]
      /\ \A u \in Slots : thread'[u].mac = thread[u].mac
  BY Moved
<1>2. SameWork
  BY <1>1 DEF SameWork
<1>3. thread[t].mac \in Macs
  BY <1>1 DEF ThreadsInv, Working
<1> QED  BY <1>2, <1>3, ThreadsKept

\* One statistic changes.
LEMMA StatisticChanged ==
  ASSUME BleTypes, NEW a \in Macs, NEW s \in Ble!Statistic,
         statistics' = [statistics EXCEPT ![a] = s]
  PROVE  /\ statistics' \in [Macs -> Ble!Statistic] /\ statistics'[a] = s
         /\ \A m \in Macs : m # a => statistics'[m] = statistics[m]
  BY DEF BleTypes

\* What the operations of BLEDeviceStatistic do to its fields.
LEMMA StatisticOperations ==
  ASSUME NEW s \in Ble!Statistic
  PROVE  /\ Ble!IncrementConnectFailed(s) \in Ble!Statistic
         /\ Ble!IncrementConnectFailed(s).connectFailed = (s.connectFailed + 1) % 256
         /\ Ble!IncrementConnectFailed(s).serviceFailed = s.serviceFailed
         /\ Ble!IncrementConnectFailed(s).known = s.known
         /\ Ble!IncrementConnectFailed(s).inProgress = s.inProgress
         /\ Ble!IncrementServiceFailed(s) \in Ble!Statistic
         /\ Ble!IncrementServiceFailed(s).serviceFailed = (s.serviceFailed + 1) % 256
         /\ Ble!IncrementServiceFailed(s).connectFailed = s.connectFailed
         /\ Ble!IncrementServiceFailed(s).known = s.known
         /\ Ble!IncrementServiceFailed(s).inProgress = s.inProgress
         /\ Ble!ResetStatistic(s) \in Ble!Statistic
         /\ Ble!ResetStatistic(s).connectFailed = 0 /\ Ble!ResetStatistic(s).serviceFailed = 0
         /\ Ble!ResetStatistic(s).known = s.known /\ Ble!ResetStatistic(s).inProgress = s.inProgress
<1>0. 0 \in 0..MaxAge /\ 0 \in 0..255
  BY BleConstants
<1>c. (s.connectFailed + 1) % 256 \in 0..255 /\ (s.serviceFailed + 1) % 256 \in 0..255
  <2>1. ASSUME NEW n \in 0..255 PROVE (n + 1) % 256 \in 0..255
    OBVIOUS
  <2>2. s.connectFailed \in 0..255 /\ s.serviceFailed \in 0..255
    BY StatisticFields
  <2> QED  BY <2>1, <2>2
<1>1. /\ Ble!IncrementConnectFailed(s) \in Ble!Statistic
      /\ Ble!IncrementConnectFailed(s).connectFailed = (s.connectFailed + 1) % 256
      /\ Ble!IncrementConnectFailed(s).serviceFailed = s.serviceFailed
      /\ Ble!IncrementConnectFailed(s).known = s.known
      /\ Ble!IncrementConnectFailed(s).inProgress = s.inProgress
  BY <1>0, <1>c DEF Ble!Statistic, Ble!IncrementConnectFailed
<1>2. /\ Ble!IncrementServiceFailed(s) \in Ble!Statistic
      /\ Ble!IncrementServiceFailed(s).serviceFailed = (s.serviceFailed + 1) % 256
      /\ Ble!IncrementServiceFailed(s).connectFailed = s.connectFailed
      /\ Ble!IncrementServiceFailed(s).known = s.known
      /\ Ble!IncrementServiceFailed(s).inProgress = s.inProgress
  BY <1>0, <1>c DEF Ble!Statistic, Ble!IncrementServiceFailed
<1>3. /\ Ble!ResetStatistic(s) \in Ble!Statistic
      /\ Ble!ResetStatistic(s).connectFailed = 0 /\ Ble!ResetStatistic(s).serviceFailed = 0
      /\ Ble!ResetStatistic(s).known = s.known /\ Ble!ResetStatistic(s).inProgress = s.inProgress
  BY <1>0 DEF Ble!Statistic, Ble!ResetStatistic
<1> QED  BY <1>1, <1>2, <1>3

-----------------------------------------------------------------------------
(* The steps of BLESocket *)

\* A step of the acceptor, the gateway or the surroundings that touches no thread, statistic
\* or entry.
LEMMA BleQuiet ==
  ASSUME BleInv, UNCHANGED <<thread, statistics, bleConnections, threw>>,
         acceptor' = acceptor \/ acceptor' \in {"wait", "scan", "crashed", "ended"}
  PROVE  BleInv'
<1>0. acceptor' = acceptor \/ acceptor' \notin Macs
  BY BleConstants
<1>1. BleTypes'
  BY DEF BleInv, BleTypes
<1>2. SameWork
  BY <1>0 DEF SameWork
<1>3. NoFailure
  <2>1. \A m \in Macs : statistics[m].connectFailed \in Nat /\ statistics[m].serviceFailed \in Nat
    BY StatisticFields DEF BleInv, BleTypes
  <2> QED  BY <2>1 DEF NoFailure
<1>4. SameEntries
  BY DEF SameEntries
<1> QED  BY <1>1, <1>2, <1>3, <1>4, ThreadsKept, FailuresKept, EntriesKept DEF BleInv

\* BLEConnectionAcceptor::loop looks at a device: it gets its statistic, is passed over
\* while it is in progress, or is decided on.
LEMMA BleDevice == ASSUME NEW a \in Macs PROVE BleInv /\ Ble!loop_device(a) => BleInv'
<1> SUFFICES ASSUME BleInv, Ble!loop_device(a) PROVE BleInv'  OBVIOUS
<1>u. UNCHANGED <<thread, bleConnections, threw>> /\ acceptor = "scan"
  BY DEF Ble!loop_device, Ble!socket
<1>t. BleTypes /\ ThreadsInv /\ FailuresInv /\ EntriesInv
  BY DEF BleInv
<1>e. EntriesInv'
  <2>1. SameEntries
    BY <1>u DEF SameEntries
  <2> QED  BY <2>1, <1>t, EntriesKept
<1>f. \A m \in Macs : /\ statistics[m] \in Ble!Statistic
                      /\ statistics[m].connectFailed \in Nat /\ statistics[m].serviceFailed \in Nat
                      /\ statistics[m].known \in BOOLEAN /\ statistics[m].inProgress \in BOOLEAN
  BY <1>t, StatisticFields DEF BleTypes
<1>1. CASE ~statistics[a].known
  <2> DEFINE s == [Ble!Unknown EXCEPT !.known = TRUE]
  <2>4. \A t \in Slots : Working(t) => thread[t].mac # a
    BY <1>1, <1>t DEF ThreadsInv
  <2>5. ~statistics[a].inProgress
    BY <2>4, <1>t, <1>f DEF ThreadsInv
  <2>0. acceptor' = acceptor /\ statistics' = [statistics EXCEPT ![a] = s]
    BY <1>1, <2>5 DEF Ble!loop_device
  <2>1. /\ s \in Ble!Statistic /\ s.known /\ s.inProgress = FALSE
        /\ s.connectFailed = 0 /\ s.serviceFailed = 0
    <3>1. 0 \in 0..MaxAge /\ 0 \in 0..255 /\ TRUE \in BOOLEAN /\ FALSE \in BOOLEAN
      BY BleConstants
    <3>2. Ble!Unknown \in Ble!Statistic
      BY <3>1 DEF Ble!Unknown, Ble!Statistic
    <3>3. s \in Ble!Statistic
      BY <3>1, <3>2 DEF Ble!Statistic
    <3>4. s.known
      BY <3>2 DEF Ble!Statistic
    <3>5. s.inProgress = FALSE
      BY DEF Ble!Unknown
    <3>6. s.connectFailed = 0 /\ s.serviceFailed = 0
      BY DEF Ble!Unknown
    <3> QED  BY <3>3, <3>4, <3>5, <3>6
  <2> HIDE DEF s
  <2>2. /\ statistics' \in [Macs -> Ble!Statistic] /\ statistics'[a] = s
        /\ \A m \in Macs : m # a => statistics'[m] = statistics[m]
    BY <2>0, <2>1, <1>t, StatisticChanged
  <2>3. BleTypes'
    BY <2>0, <2>2, <1>t, <1>u DEF BleTypes
  <2>6. ThreadsInv'
    <3>1. \A t \in Slots : Working(t)' <=> Working(t)
      BY <1>u DEF Working
    <3>2. \A t \in Slots : Working(t) =>
              /\ thread[t].mac \in Macs
              /\ statistics'[thread[t].mac].known /\ statistics'[thread[t].mac].inProgress
      BY <2>2, <2>4, <1>t DEF ThreadsInv
    <3>3. \A t, u \in Slots : Working(t) /\ Working(u) /\ thread[t].mac = thread[u].mac => t = u
      BY <1>t DEF ThreadsInv
    <3>4. acceptor' \notin Macs
      BY <1>u, <2>0, BleConstants
    <3>5. \A m \in Macs : statistics'[m].inProgress => \E t \in Slots : Working(t) /\ thread[t].mac = m
      BY <2>1, <2>2, <1>t DEF ThreadsInv
    <3> QED  BY <3>1, <3>2, <3>3, <3>4, <3>5, <1>u DEF ThreadsInv
  <2>7. NoFailure
    <3>1. \A m \in Macs : /\ statistics'[m].connectFailed \in Nat /\ statistics'[m].serviceFailed \in Nat
                          /\ statistics'[m].connectFailed <= statistics[m].connectFailed
                          /\ statistics'[m].serviceFailed <= statistics[m].serviceFailed
      BY <2>1, <2>2, <1>f
    <3> QED  BY <3>1, <1>u DEF NoFailure
  <2> QED  BY <2>3, <2>6, <2>7, <1>t, <1>e, FailuresKept DEF BleInv
<1>2. CASE statistics[a].known /\ statistics[a].inProgress
  BY <1>2, <1>u, BleQuiet DEF Ble!loop_device
<1>3. CASE statistics[a].known /\ ~statistics[a].inProgress
  <2>1. acceptor' = a /\ statistics' = statistics
    BY <1>3 DEF Ble!loop_device
  <2>2. BleTypes'
    BY <2>1, <1>t, <1>u DEF BleTypes
  <2>3. ThreadsInv'
    BY <2>1, <1>3, <1>t, <1>u DEF ThreadsInv, Working
  <2>4. NoFailure
    BY <2>1, <1>f, <1>u DEF NoFailure
  <2> QED  BY <2>2, <2>3, <2>4, <1>t, <1>e, FailuresKept DEF BleInv
<1> QED  BY <1>1, <1>2, <1>3

\* isFaulty looks at the counters only: the difference it takes is never positive.
LEMMA Faulty ==
  ASSUME NEW s \in Ble!Statistic
  PROVE  Ble!isFaulty(s) <=> s.connectFailed > FaultLimit \/ s.serviceFailed > FaultLimit
<1>1. s.age \in Nat /\ FaultyPeriod \in Nat
  BY StatisticFields, BleConstants
<1>2. ~(0 - s.age > FaultyPeriod)
  BY <1>1
<1> QED  BY <1>2 DEF Ble!isFaulty

\* BLEConnection::connect: the device is marked and a thread starts to work on it.
LEMMA BleConnect == ASSUME NEW a \in Macs PROVE BleInv /\ Ble!connect(a) => BleInv'
<1> SUFFICES ASSUME BleInv, Ble!connect(a) PROVE BleInv'  OBVIOUS
<1>t. BleTypes /\ ThreadsInv /\ FailuresInv /\ EntriesInv
  BY DEF BleInv
<1>f. \A m \in Macs : /\ statistics[m] \in Ble!Statistic
                      /\ statistics[m].connectFailed \in Nat /\ statistics[m].serviceFailed \in Nat
                      /\ statistics[m].known \in BOOLEAN /\ statistics[m].inProgress \in BOOLEAN
  BY <1>t, StatisticFields DEF BleTypes
<1>a. /\ acceptor = a /\ acceptor' = "scan" /\ UNCHANGED <<bleConnections, threw>>
      /\ statistics' = [statistics EXCEPT ![a].inProgress = TRUE]
  BY DEF Ble!connect, Ble!socket
<1>p. PICK n \in Slots : /\ thread[n] = Ble!NoThread
                         /\ thread' = [thread EXCEPT ![n] = [at |-> "connect", mac |-> a]]
  BY DEF Ble!connect
<1>0. "connect" \in Ble!Points /\ thread \in [Slots -> [at : Ble!Points, mac : Macs \cup {None}]]
  BY <1>t DEF Ble!Points, BleTypes
<1>h. /\ thread' \in [Slots -> [at : Ble!Points, mac : Macs \cup {None}]]
      /\ thread[n].at = "free" /\ thread'[n].at = "connect" /\ thread'[n].mac = a
      /\ \A u \in Slots : u # n => thread'[u] = thread[u]
  <2>1. thread'[n] = [at |-> "connect", mac |-> a] /\ \A u \in Slots : u # n => thread'[u] = thread[u]
    BY <1>p, <1>0
  <2>2. thread' \in [Slots -> [at : Ble!Points, mac : Macs \cup {None}]]
    BY <1>p, <1>0
  <2> QED  BY <2>1, <2>2, <1>p DEF Ble!NoThread
<1> DEFINE s == [statistics[a] EXCEPT !.inProgress = TRUE]
<1>s. /\ s \in Ble!Statistic /\ s.known = statistics[a].known /\ s.inProgress = TRUE
      /\ s.connectFailed = statistics[a].connectFailed /\ s.serviceFailed = statistics[a].serviceFailed
  <2>1. statistics[a] \in Ble!Statistic /\ TRUE \in BOOLEAN
    BY <1>f
  <2>2. s \in Ble!Statistic
    BY <2>1 DEF Ble!Statistic
  <2>3. s.inProgress = TRUE
    BY <2>1 DEF Ble!Statistic
  <2>4. s.known = statistics[a].known
    BY <2>1 DEF Ble!Statistic
  <2>5. s.connectFailed = statistics[a].connectFailed /\ s.serviceFailed = statistics[a].serviceFailed
    BY <2>1 DEF Ble!Statistic
  <2> QED  BY <2>2, <2>3, <2>4, <2>5
<1>e. statistics' = [statistics EXCEPT ![a] = s]
  BY <1>a
<1> HIDE DEF s
<1>c. /\ statistics' \in [Macs -> Ble!Statistic] /\ statistics'[a] = s
      /\ \A m \in Macs : m # a => statistics'[m] = statistics[m]
  BY <1>e, <1>s, <1>t, StatisticChanged
<1>n. /\ \A t \in Slots : Working(t) => thread[t].mac # a
      /\ statistics[a].known /\ ~statistics[a].inProgress
  BY <1>a, <1>t DEF ThreadsInv
<1>w. /\ ~Working(n) /\ Working(n)'
      /\ \A u \in Slots : u # n => (Working(u)' <=> Working(u))
  BY <1>h DEF Working
<1>1. BleTypes'
  BY <1>a, <1>c, <1>h, <1>t DEF BleTypes
<1>2. ThreadsInv'
  <2>1. \A t \in Slots : Working(t)' =>
            /\ thread'[t].mac \in Macs
            /\ statistics'[thread'[t].mac].known /\ statistics'[thread'[t].mac].inProgress
    <3> SUFFICES ASSUME NEW t \in Slots, Working(t)'
                 PROVE  /\ thread'[t].mac \in Macs
                        /\ statistics'[thread'[t].mac].known /\ statistics'[thread'[t].mac].inProgress
      OBVIOUS
    <3>1. CASE t = n
      BY <3>1, <1>c, <1>h, <1>n, <1>s
    <3>2. CASE t # n
      <4>1. Working(t) /\ thread'[t] = thread[t]
        BY <3>2, <1>h, <1>w
      <4>2. /\ thread[t].mac \in Macs /\ thread[t].mac # a
            /\ statistics[thread[t].mac].known /\ statistics[thread[t].mac].inProgress
        BY <4>1, <1>n, <1>t DEF ThreadsInv
      <4> QED  BY <4>1, <4>2, <1>c
    <3> QED  BY <3>1, <3>2
  <2>2. \A t, u \in Slots : Working(t)' /\ Working(u)' /\ thread'[t].mac = thread'[u].mac => t = u
    BY <1>h, <1>n, <1>t, <1>w DEF ThreadsInv
  <2>3. acceptor' \notin Macs
    BY <1>a, BleConstants
  <2>4. \A m \in Macs : statistics'[m].inProgress => \E t \in Slots : Working(t)' /\ thread'[t].mac = m
    <3> SUFFICES ASSUME NEW m \in Macs, statistics'[m].inProgress
                 PROVE  \E t \in Slots : Working(t)' /\ thread'[t].mac = m
      OBVIOUS
    <3>1. CASE m = a
      BY <3>1, <1>h, <1>w
    <3>2. CASE m # a
      <4>1. PICK t \in Slots : Working(t) /\ thread[t].mac = m
        BY <3>2, <1>c, <1>t DEF ThreadsInv
      <4> QED  BY <4>1, <1>h, <1>w
    <3> QED  BY <3>1, <3>2
  <2> QED  BY <2>1, <2>2, <2>3, <2>4 DEF ThreadsInv
<1>3. FailuresInv'
  <2>0. statistics[a].connectFailed <= FaultLimit /\ statistics[a].serviceFailed <= FaultLimit
    <3>1. ~Ble!isFaulty(statistics[a])
      BY DEF Ble!connect
    <3> QED  BY <3>1, <1>f, Faulty, BleConstants
  <2>1. \A m \in Macs : /\ statistics'[m].connectFailed = statistics[m].connectFailed
                        /\ statistics'[m].serviceFailed = statistics[m].serviceFailed
    BY <1>c, <1>s
  <2>2. \A t \in Slots : thread'[t].at \in {"connect", "service"} =>
            thread'[t].mac = a \/ (thread'[t] = thread[t] /\ thread[t].mac \in Macs)
    BY <1>h, <1>t DEF ThreadsInv, Working
  <2> QED  BY <2>0, <2>1, <2>2, <1>t DEF FailuresInv
<1>4. EntriesInv'
  <2>1. SameEntries
    BY <1>a, <1>h DEF SameEntries, Open
  <2> QED  BY <2>1, <1>t, EntriesKept
<1> QED  BY <1>1, <1>2, <1>3, <1>4 DEF BleInv

\* Time passes for the statistics.
LEMMA BleTick == BleInv /\ Ble!tick => BleInv'
<1> SUFFICES ASSUME BleInv, Ble!tick PROVE BleInv'  OBVIOUS
<1>t. BleTypes /\ ThreadsInv /\ FailuresInv /\ EntriesInv
  BY DEF BleInv
<1>u. UNCHANGED <<acceptor, thread, bleConnections, threw>>
  BY DEF Ble!tick, Ble!others, Ble!socket
<1>s. statistics' = [m \in Macs |-> IF statistics[m].known /\ statistics[m].age < MaxAge
                                    THEN [statistics[m] EXCEPT !.age = @ + 1] ELSE statistics[m]]
  BY DEF Ble!tick
<1>f. \A m \in Macs : /\ statistics'[m] \in Ble!Statistic
                      /\ statistics'[m].known = statistics[m].known
                      /\ statistics'[m].inProgress = statistics[m].inProgress
                      /\ statistics'[m].connectFailed = statistics[m].connectFailed
                      /\ statistics'[m].serviceFailed = statistics[m].serviceFailed
                      /\ statistics[m].connectFailed \in Nat /\ statistics[m].serviceFailed \in Nat
  <2> SUFFICES ASSUME NEW m \in Macs
               PROVE  /\ statistics'[m] \in Ble!Statistic
                      /\ statistics'[m].known = statistics[m].known
                      /\ statistics'[m].inProgress = statistics[m].inProgress
                      /\ statistics'[m].connectFailed = statistics[m].connectFailed
                      /\ statistics'[m].serviceFailed = statistics[m].serviceFailed
                      /\ statistics[m].connectFailed \in Nat /\ statistics[m].serviceFailed \in Nat
    OBVIOUS
  <2>0. statistics[m] \in Ble!Statistic
    BY <1>t DEF BleTypes
  <2>1. CASE statistics[m].known /\ statistics[m].age < MaxAge
    <3>1. statistics'[m] = [statistics[m] EXCEPT !.age = @ + 1]
      BY <2>1, <1>s
    <3>2. statistics[m].age + 1 \in 0..MaxAge
      BY <2>0, <2>1, StatisticFields, BleConstants
    <3> QED  BY <2>0, <3>1, <3>2, StatisticFields DEF Ble!Statistic
  <2>2. CASE ~(statistics[m].known /\ statistics[m].age < MaxAge)
    BY <2>0, <2>2, <1>s, StatisticFields
  <2> QED  BY <2>1, <2>2
<1>1. BleTypes'
  <2>1. statistics' \in [Macs -> Ble!Statistic]
    BY <1>s, <1>f
  <2> QED  BY <2>1, <1>t, <1>u DEF BleTypes
<1>2. SameWork
  BY <1>f, <1>u DEF SameWork
<1>3. NoFailure
  BY <1>f, <1>u DEF NoFailure
<1>4. SameEntries
  BY <1>u DEF SameEntries
<1> QED  BY <1>1, <1>2, <1>3, <1>4, <1>t, ThreadsKept, FailuresKept, EntriesKept DEF BleInv

\* A thread moves on and changes nothing that is shared: connect_succeeds, service_found,
\* mac_empty, link_down, disconnects and removeBLEDevice.
LEMMA BlePasses ==
  ASSUME BleInv, NEW t \in Slots,
         NEW from \in Ble!Points \ {"free", "return"}, NEW to \in Ble!Points \ {"free", "return", "connect"},
         Ble!Goes(t, from, to), UNCHANGED <<acceptor, statistics, bleConnections, threw>>,
         from \in Open <=> to \in Open, to = "service" => from = "connect"
  PROVE  BleInv'
<1>t. BleTypes /\ ThreadsInv /\ FailuresInv /\ EntriesInv
  BY DEF BleInv
<1>m. /\ thread' \in [Slots -> [at : Ble!Points, mac : Macs \cup {None}]]
      /\ thread[t].at = from /\ thread'[t].at = to
      /\ \A u \in Slots : u # t => thread'[u] = thread[u]
      /\ \A u \in Slots : thread'[u].mac = thread[u].mac
  BY <1>t, Moved
<1>1. BleTypes'
  BY <1>t, <1>m DEF BleTypes
<1>2. ThreadsInv'
  BY <1>t, MovedWorking
<1>3. NoFailure
  <2>1. \A m \in Macs : statistics[m].connectFailed \in Nat /\ statistics[m].serviceFailed \in Nat
    BY <1>t, StatisticFields DEF BleTypes
  <2> QED  BY <2>1, <1>m DEF NoFailure
<1>4. SameEntries
  BY <1>m DEF SameEntries
<1> QED  BY <1>1, <1>2, <1>3, <1>4, <1>t, FailuresKept, EntriesKept DEF BleInv

\* A thread changes the counters of its device and is not about to connect any more:
\* connect_fails, service_fails and nus_connect.
LEMMA BleCounts ==
  ASSUME BleInv, NEW t \in Slots,
         NEW from \in {"connect", "service", "mac"}, NEW to \in {"remove", "add"},
         Ble!Goes(t, from, to), UNCHANGED <<acceptor, bleConnections, threw>>,
         NEW s \in Ble!Statistic, statistics' = [statistics EXCEPT ![thread[t].mac] = s],
         s.known = statistics[thread[t].mac].known, s.inProgress = statistics[thread[t].mac].inProgress,
         s.connectFailed <= FaultLimit + 1, s.serviceFailed <= FaultLimit + 1
  PROVE  BleInv'
<1>t. BleTypes /\ ThreadsInv /\ FailuresInv /\ EntriesInv
  BY DEF BleInv
<1>p. from \in Ble!Points \ {"free", "return"} /\ to \in Ble!Points \ {"free", "return"}
  BY DEF Ble!Points
<1>m. /\ thread' \in [Slots -> [at : Ble!Points, mac : Macs \cup {None}]]
      /\ thread[t].at = from /\ thread'[t].at = to
      /\ \A u \in Slots : u # t => thread'[u] = thread[u]
      /\ \A u \in Slots : thread'[u].mac = thread[u].mac
  BY <1>t, <1>p, Moved
<1>w. Working(t)
  BY <1>m DEF Working
<1>a. PICK a \in Macs : a = thread[t].mac
  BY <1>w, <1>t DEF ThreadsInv
<1>c. /\ statistics' \in [Macs -> Ble!Statistic] /\ statistics'[a] = s
      /\ \A m \in Macs : m # a => statistics'[m] = statistics[m]
  BY <1>a, <1>t, StatisticChanged
<1>1. BleTypes'
  BY <1>c, <1>m, <1>t DEF BleTypes
<1>2. ThreadsInv'
  <2>1. \A m \in Macs : /\ statistics'[m].known = statistics[m].known
                        /\ statistics'[m].inProgress = statistics[m].inProgress
    BY <1>a, <1>c
  <2> QED  BY <2>1, <1>p, <1>t, MovedWorking
<1>3. FailuresInv'
  <2>1. \A m \in Macs : /\ statistics'[m].connectFailed <= FaultLimit + 1
                        /\ statistics'[m].serviceFailed <= FaultLimit + 1
    BY <1>c, <1>t DEF FailuresInv
  <2>2. \A u \in Slots : thread'[u].at \in {"connect", "service"} =>
            /\ thread'[u] = thread[u] /\ thread[u].mac \in Macs
            /\ statistics'[thread[u].mac] = statistics[thread[u].mac]
    <3> SUFFICES ASSUME NEW u \in Slots, thread'[u].at \in {"connect", "service"}
                 PROVE  /\ thread'[u] = thread[u] /\ thread[u].mac \in Macs
                        /\ statistics'[thread[u].mac] = statistics[thread[u].mac]
      OBVIOUS
    <3>1. u # t
      BY <1>m
    <3>2. thread'[u] = thread[u] /\ Working(u)
      BY <3>1, <1>m DEF Working
    <3>3. thread[u].mac \in Macs /\ thread[u].mac # a
      BY <3>1, <3>2, <1>a, <1>t, <1>w DEF ThreadsInv
    <3> QED  BY <3>2, <3>3, <1>c
  <2> QED  BY <2>1, <2>2, <1>t DEF FailuresInv
<1>4. SameEntries
  BY <1>m DEF SameEntries, Open
<1> QED  BY <1>1, <1>2, <1>3, <1>4, <1>t, EntriesKept DEF BleInv

\* A thread opens or closes its connection: addBLEConnection, removeBLEConnection and
\* disconnect_throws.  Its device's entry is the only one it changes.
LEMMA BleOpens ==
  ASSUME BleInv, NEW t \in Slots,
         NEW from \in Ble!Points \ {"free", "return"}, NEW to \in Ble!Points \ {"free", "return", "connect", "service"},
         Ble!Goes(t, from, to), UNCHANGED <<acceptor, statistics>>,
         bleConnections' \in [Macs -> Slots \cup {None, Expired}], threw' \subseteq Macs, threw \subseteq threw',
         \A m \in Macs : m # thread[t].mac =>
             bleConnections'[m] = bleConnections[m] /\ (m \in threw' => m \in threw),
         \/ thread[t].mac \in threw'
         \/ to \in Open /\ bleConnections'[thread[t].mac] = t
         \/ to \notin Open /\ bleConnections'[thread[t].mac] = None
  PROVE  BleInv'
<1>t. BleTypes /\ ThreadsInv /\ FailuresInv /\ EntriesInv
  BY DEF BleInv
<1>m. /\ thread' \in [Slots -> [at : Ble!Points, mac : Macs \cup {None}]]
      /\ thread[t].at = from /\ thread'[t].at = to
      /\ \A u \in Slots : u # t => thread'[u] = thread[u]
      /\ \A u \in Slots : thread'[u].mac = thread[u].mac
  BY <1>t, Moved
<1>w. Working(t)
  BY <1>m DEF Working
<1>a. PICK a \in Macs : a = thread[t].mac
  BY <1>w, <1>t DEF ThreadsInv
<1>o. \A u \in Slots : u # t /\ thread[u].at \in Open => thread[u].mac \in Macs /\ thread[u].mac # a
  BY <1>a, <1>t, <1>w DEF ThreadsInv, Working, Open
<1>1. BleTypes'
  BY <1>m, <1>t DEF BleTypes
<1>2. ThreadsInv'
  BY <1>t, MovedWorking
<1>3. NoFailure
  <2>1. \A m \in Macs : statistics[m].connectFailed \in Nat /\ statistics[m].serviceFailed \in Nat
    BY <1>t, StatisticFields DEF BleTypes
  <2> QED  BY <2>1, <1>m DEF NoFailure
<1>4. EntriesInv'
  <2>1. \A m \in Macs \ threw' : bleConnections'[m] # None =>
            /\ bleConnections'[m] \in Slots
            /\ thread'[bleConnections'[m]].mac = m /\ thread'[bleConnections'[m]].at \in Open
    <3> SUFFICES ASSUME NEW m \in Macs \ threw', bleConnections'[m] # None
                 PROVE  /\ bleConnections'[m] \in Slots
                        /\ thread'[bleConnections'[m]].mac = m /\ thread'[bleConnections'[m]].at \in Open
      OBVIOUS
    <3>1. CASE m = a
      BY <3>1, <1>a, <1>m
    <3>2. CASE m # a
      <4>1. bleConnections'[m] = bleConnections[m] /\ m \notin threw
        BY <3>2, <1>a
      <4>2. PICK u \in Slots : u = bleConnections[m] /\ thread[u].mac = m /\ thread[u].at \in Open
        BY <4>1, <1>t DEF EntriesInv
      <4>3. u # t
        BY <4>2, <3>2, <1>a
      <4> QED  BY <4>1, <4>2, <4>3, <1>m
    <3> QED  BY <3>1, <3>2
  <2>2. \A u \in Slots : thread'[u].at \in Open =>
            bleConnections'[thread'[u].mac] = u \/ thread'[u].mac \in threw'
    <3> SUFFICES ASSUME NEW u \in Slots, thread'[u].at \in Open
                 PROVE  bleConnections'[thread'[u].mac] = u \/ thread'[u].mac \in threw'
      OBVIOUS
    <3>1. CASE u = t
      BY <3>1, <1>m
    <3>2. CASE u # t
      <4>1. thread'[u] = thread[u] /\ thread[u].at \in Open
        BY <3>2, <1>m
      <4>2. thread[u].mac \in Macs /\ thread[u].mac # a
        BY <4>1, <3>2, <1>o
      <4>3. bleConnections[thread[u].mac] = u \/ thread[u].mac \in threw
        BY <4>1, <1>t DEF EntriesInv
      <4> QED  BY <4>1, <4>2, <4>3, <1>a
    <3> QED  BY <3>1, <3>2
  <2> QED  BY <2>1, <2>2 DEF EntriesInv
<1> QED  BY <1>1, <1>2, <1>3, <1>4, <1>t, FailuresKept DEF BleInv

\* The moves of a thread that change nothing shared.
LEMMA BlePassing ==
  ASSUME NEW t \in Slots
  PROVE  BleInv /\ (\/ Ble!connect_succeeds(t) \/ Ble!service_found(t) \/ Ble!mac_empty(t)
                    \/ Ble!link_down(t) \/ Ble!disconnects(t) \/ Ble!removeBLEDevice(t))
             => BleInv'
<1>p. {"connect", "service", "mac", "lost", "up", "disconnect", "erase", "remove", "unset"}
          \subseteq Ble!Points \ {"free", "return"}
  BY DEF Ble!Points
<1> SUFFICES ASSUME BleInv PROVE
         (\/ Ble!connect_succeeds(t) \/ Ble!service_found(t) \/ Ble!mac_empty(t)
          \/ Ble!link_down(t) \/ Ble!disconnects(t) \/ Ble!removeBLEDevice(t)) => BleInv'
  OBVIOUS
<1>1. CASE Ble!connect_succeeds(t)
  <2>1. Ble!Goes(t, "connect", "service") /\ UNCHANGED <<acceptor, statistics, bleConnections, threw>>
    BY <1>1 DEF Ble!connect_succeeds, Ble!others, Ble!socket
  <2> QED  BY <2>1, <1>p, BlePasses DEF Open
<1>2. CASE Ble!service_found(t)
  <2>1. Ble!Goes(t, "service", "mac") /\ UNCHANGED <<acceptor, statistics, bleConnections, threw>>
    BY <1>2 DEF Ble!service_found, Ble!others, Ble!socket
  <2> QED  BY <2>1, <1>p, BlePasses DEF Open
<1>3. CASE Ble!mac_empty(t)
  <2>1. Ble!Goes(t, "mac", "lost") /\ UNCHANGED <<acceptor, statistics, bleConnections, threw>>
    BY <1>3 DEF Ble!mac_empty, Ble!others, Ble!socket
  <2> QED  BY <2>1, <1>p, BlePasses DEF Open
<1>4. CASE Ble!link_down(t)
  <2>1. Ble!Goes(t, "up", "disconnect") /\ UNCHANGED <<acceptor, statistics, bleConnections, threw>>
    BY <1>4 DEF Ble!link_down, Ble!others, Ble!socket
  <2> QED  BY <2>1, <1>p, BlePasses DEF Open
<1>5. CASE Ble!disconnects(t)
  <2>1. Ble!Goes(t, "disconnect", "erase") /\ UNCHANGED <<acceptor, statistics, bleConnections, threw>>
    BY <1>5 DEF Ble!disconnects, Ble!others, Ble!socket
  <2> QED  BY <2>1, <1>p, BlePasses DEF Open
<1>6. CASE Ble!removeBLEDevice(t)
  <2>1. Ble!Goes(t, "remove", "unset") /\ UNCHANGED <<acceptor, statistics, bleConnections, threw>>
    BY <1>6 DEF Ble!removeBLEDevice, Ble!others, Ble!socket
  <2> QED  BY <2>1, <1>p, BlePasses DEF Open
<1> QED  BY <1>1, <1>2, <1>3, <1>4, <1>5, <1>6

\* A failure is counted for a device that was not faulty when its thread was started; a
\* connection that is made resets the counters.
LEMMA BleCounting ==
  ASSUME NEW t \in Slots
  PROVE  BleInv /\ (Ble!connect_fails(t) \/ Ble!service_fails(t) \/ Ble!nus_connect(t)) => BleInv'
<1> SUFFICES ASSUME BleInv, Ble!connect_fails(t) \/ Ble!service_fails(t) \/ Ble!nus_connect(t)
             PROVE  BleInv'
  OBVIOUS
<1>t. BleTypes /\ ThreadsInv /\ FailuresInv
  BY DEF BleInv
<1> DEFINE o == statistics[thread[t].mac]
<1>w. Working(t)
  BY DEF Working, Ble!connect_fails, Ble!service_fails, Ble!nus_connect, Ble!Goes
<1>m. thread[t].mac \in Macs
  BY <1>w, <1>t DEF ThreadsInv
<1>o. o \in Ble!Statistic /\ o.connectFailed <= FaultLimit + 1 /\ o.serviceFailed <= FaultLimit + 1
  BY <1>m, <1>t DEF BleTypes, FailuresInv
<1>u. UNCHANGED <<acceptor, bleConnections, threw>>
  BY DEF Ble!connect_fails, Ble!service_fails, Ble!nus_connect, Ble!others, Ble!socket
<1>n. \A n \in 0..255 : n <= FaultLimit => (n + 1) % 256 <= FaultLimit + 1
  BY BleConstants
<1>1. CASE Ble!connect_fails(t)
  <2> DEFINE s == Ble!IncrementConnectFailed(o)
  <2>1. /\ Ble!Goes(t, "connect", "remove")
        /\ statistics' = [statistics EXCEPT ![thread[t].mac] = s]
    BY <1>1 DEF Ble!connect_fails
  <2>2. o.connectFailed <= FaultLimit /\ o.connectFailed \in 0..255
    BY <2>1, <1>t, <1>o, StatisticFields DEF FailuresInv, Ble!Goes
  <2>3. /\ s \in Ble!Statistic /\ s.known = o.known /\ s.inProgress = o.inProgress
        /\ s.connectFailed = (o.connectFailed + 1) % 256 /\ s.serviceFailed = o.serviceFailed
    BY <1>o, StatisticOperations
  <2>4. s.connectFailed <= FaultLimit + 1 /\ s.serviceFailed <= FaultLimit + 1
    BY <2>2, <2>3, <1>n, <1>o
  <2> HIDE DEF s
  <2> QED  BY <2>1, <2>3, <2>4, <1>u, BleCounts
<1>2. CASE Ble!service_fails(t)
  <2> DEFINE s == Ble!IncrementServiceFailed(o)
  <2>1. /\ Ble!Goes(t, "service", "remove")
        /\ statistics' = [statistics EXCEPT ![thread[t].mac] = s]
    BY <1>2 DEF Ble!service_fails
  <2>2. o.serviceFailed <= FaultLimit /\ o.serviceFailed \in 0..255
    BY <2>1, <1>t, <1>o, StatisticFields DEF FailuresInv, Ble!Goes
  <2>3. /\ s \in Ble!Statistic /\ s.known = o.known /\ s.inProgress = o.inProgress
        /\ s.serviceFailed = (o.serviceFailed + 1) % 256 /\ s.connectFailed = o.connectFailed
    BY <1>o, StatisticOperations
  <2>4. s.connectFailed <= FaultLimit + 1 /\ s.serviceFailed <= FaultLimit + 1
    BY <2>2, <2>3, <1>n, <1>o
  <2> HIDE DEF s
  <2> QED  BY <2>1, <2>3, <2>4, <1>u, BleCounts
<1>3. CASE Ble!nus_connect(t)
  <2> DEFINE s == Ble!ResetStatistic(o)
  <2>1. /\ Ble!Goes(t, "mac", "add")
        /\ statistics' = [statistics EXCEPT ![thread[t].mac] = s]
    BY <1>3 DEF Ble!nus_connect
  <2>3. /\ s \in Ble!Statistic /\ s.known = o.known /\ s.inProgress = o.inProgress
        /\ s.serviceFailed = 0 /\ s.connectFailed = 0
    BY <1>o, StatisticOperations
  <2>4. s.connectFailed <= FaultLimit + 1 /\ s.serviceFailed <= FaultLimit + 1
    BY <2>3, BleConstants
  <2> HIDE DEF s
  <2> QED  BY <2>1, <2>3, <2>4, <1>u, BleCounts
<1> QED  BY <1>1, <1>2, <1>3

\* The entry of a device is made, removed, or left behind when the disconnect throws.
LEMMA BleOpening ==
  ASSUME NEW t \in Slots
  PROVE  BleInv /\ (Ble!addBLEConnection(t) \/ Ble!removeBLEConnection(t) \/ Ble!disconnect_throws(t))
             => BleInv'
<1> SUFFICES ASSUME BleInv, Ble!addBLEConnection(t) \/ Ble!removeBLEConnection(t) \/ Ble!disconnect_throws(t)
             PROVE  BleInv'
  OBVIOUS
<1>t. BleTypes /\ ThreadsInv /\ EntriesInv
  BY DEF BleInv
<1>p. {"add", "up", "disconnect", "erase", "remove", "unset"} \subseteq Ble!Points \ {"free", "return", "connect", "service"}
  BY DEF Ble!Points
<1>w. Working(t)
  BY DEF Working, Ble!addBLEConnection, Ble!removeBLEConnection, Ble!disconnect_throws, Ble!Goes
<1>a. PICK a \in Macs : a = thread[t].mac
  BY <1>w, <1>t DEF ThreadsInv
<1>u. UNCHANGED <<acceptor, statistics>>
  BY DEF Ble!addBLEConnection, Ble!removeBLEConnection, Ble!disconnect_throws, Ble!others, Ble!socket
<1>b. bleConnections \in [Macs -> Slots \cup {None, Expired}] /\ threw \subseteq Macs
  BY <1>t DEF BleTypes
<1>1. CASE Ble!addBLEConnection(t)
  <2>1. /\ Ble!Goes(t, "add", "up") /\ threw' = threw
        /\ bleConnections' = [bleConnections EXCEPT ![a] = IF @ = None THEN t ELSE @]
    BY <1>1, <1>a DEF Ble!addBLEConnection
  <2>2. /\ bleConnections' \in [Macs -> Slots \cup {None, Expired}]
        /\ \A m \in Macs : m # a => bleConnections'[m] = bleConnections[m]
        /\ bleConnections'[a] = IF bleConnections[a] = None THEN t ELSE bleConnections[a]
    BY <2>1, <1>b
  <2>3. a \in threw \/ bleConnections[a] = None
    <3> SUFFICES ASSUME a \notin threw, bleConnections[a] # None PROVE FALSE
      OBVIOUS
    <3>1. PICK u \in Slots : thread[u].mac = a /\ thread[u].at \in Open
      BY <1>t DEF EntriesInv
    <3>2. Working(u)
      BY <3>1 DEF Working, Open
    <3>3. u = t
      BY <3>1, <3>2, <1>a, <1>w, <1>t DEF ThreadsInv
    <3> QED  BY <3>1, <3>3, <2>1 DEF Ble!Goes, Open
  <2>4. "up" \in Open
    BY DEF Open
  <2> QED  BY <2>1, <2>2, <2>3, <2>4, <1>a, <1>b, <1>p, <1>u, BleOpens
<1>2. CASE Ble!removeBLEConnection(t)
  <2>1. /\ Ble!Goes(t, "erase", "remove") /\ threw' = threw
        /\ bleConnections' = [bleConnections EXCEPT ![a] = None]
    BY <1>2, <1>a DEF Ble!removeBLEConnection
  <2>2. /\ bleConnections' \in [Macs -> Slots \cup {None, Expired}]
        /\ \A m \in Macs : m # a => bleConnections'[m] = bleConnections[m]
        /\ bleConnections'[a] = None
    BY <2>1, <1>b
  <2>4. "remove" \notin Open
    BY DEF Open
  <2> QED  BY <2>1, <2>2, <2>4, <1>a, <1>b, <1>p, <1>u, BleOpens
<1>3. CASE Ble!disconnect_throws(t)
  <2>1. /\ Ble!Goes(t, "disconnect", "unset") /\ threw' = threw \cup {a} /\ bleConnections' = bleConnections
    BY <1>3, <1>a DEF Ble!disconnect_throws
  <2>2. threw' \subseteq Macs /\ threw \subseteq threw' /\ a \in threw' /\ \A m \in Macs : m # a /\ m \in threw' => m \in threw
    BY <2>1, <1>b
  <2> QED  BY <2>1, <2>2, <1>a, <1>b, <1>p, <1>u, BleOpens
<1> QED  BY <1>1, <1>2, <1>3

\* unsetConnectionInProgress: the mark is taken back and the thread works no more.
LEMMA BleUnset == ASSUME NEW t \in Slots PROVE BleInv /\ Ble!unsetConnectionInProgress(t) => BleInv'
<1> SUFFICES ASSUME BleInv, Ble!unsetConnectionInProgress(t) PROVE BleInv'  OBVIOUS
<1>t. BleTypes /\ ThreadsInv /\ FailuresInv /\ EntriesInv
  BY DEF BleInv
<1>g. Ble!Goes(t, "unset", "return") /\ UNCHANGED <<acceptor, bleConnections, threw>>
  BY DEF Ble!unsetConnectionInProgress, Ble!others, Ble!socket
<1>m. /\ thread' \in [Slots -> [at : Ble!Points, mac : Macs \cup {None}]]
      /\ thread[t].at = "unset" /\ thread'[t].at = "return"
      /\ \A u \in Slots : u # t => thread'[u] = thread[u]
      /\ \A u \in Slots : thread'[u].mac = thread[u].mac
  <2>1. "return" \in Ble!Points
    BY DEF Ble!Points
  <2> QED  BY <2>1, <1>g, <1>t, Moved
<1>w. /\ Working(t) /\ ~Working(t)'
      /\ \A u \in Slots : u # t => (Working(u)' <=> Working(u))
  BY <1>m DEF Working
<1>a. PICK a \in Macs : a = thread[t].mac
  BY <1>w, <1>t DEF ThreadsInv
<1>f. \A m \in Macs : /\ statistics[m] \in Ble!Statistic
                      /\ statistics[m].connectFailed \in Nat /\ statistics[m].serviceFailed \in Nat
  BY <1>t, StatisticFields DEF BleTypes
<1> DEFINE s == [statistics[a] EXCEPT !.inProgress = FALSE]
<1>s. /\ s \in Ble!Statistic /\ s.known = statistics[a].known /\ s.inProgress = FALSE
      /\ s.connectFailed = statistics[a].connectFailed /\ s.serviceFailed = statistics[a].serviceFailed
  <2>1. statistics[a] \in Ble!Statistic /\ FALSE \in BOOLEAN
    BY <1>f
  <2>2. s \in Ble!Statistic
    BY <2>1 DEF Ble!Statistic
  <2>3. s.inProgress = FALSE
    BY <2>1 DEF Ble!Statistic
  <2>4. s.known = statistics[a].known
    BY <2>1 DEF Ble!Statistic
  <2>5. s.connectFailed = statistics[a].connectFailed /\ s.serviceFailed = statistics[a].serviceFailed
    BY <2>1 DEF Ble!Statistic
  <2> QED  BY <2>2, <2>3, <2>4, <2>5
<1>e. statistics' = [statistics EXCEPT ![a] = s]
  BY <1>a DEF Ble!unsetConnectionInProgress
<1> HIDE DEF s
<1>c. /\ statistics' \in [Macs -> Ble!Statistic] /\ statistics'[a] = s
      /\ \A m \in Macs : m # a => statistics'[m] = statistics[m]
  BY <1>e, <1>s, <1>t, StatisticChanged
<1>1. BleTypes'
  BY <1>c, <1>g, <1>m, <1>t DEF BleTypes
<1>2. ThreadsInv'
  <2>1. \A u \in Slots : Working(u)' => u # t /\ Working(u) /\ thread'[u] = thread[u] /\ thread[u].mac # a
    BY <1>a, <1>m, <1>t, <1>w DEF ThreadsInv
  <2>2. \A u \in Slots : Working(u)' =>
            /\ thread'[u].mac \in Macs
            /\ statistics'[thread'[u].mac].known /\ statistics'[thread'[u].mac].inProgress
    BY <2>1, <1>c, <1>t DEF ThreadsInv
  <2>3. \A u, v \in Slots : Working(u)' /\ Working(v)' /\ thread'[u].mac = thread'[v].mac => u = v
    BY <2>1, <1>t DEF ThreadsInv
  <2>4. acceptor' \in Macs => statistics'[acceptor'].known /\ ~statistics'[acceptor'].inProgress
    <3> SUFFICES ASSUME acceptor \in Macs
                 PROVE  statistics'[acceptor].known /\ ~statistics'[acceptor].inProgress
      BY <1>g
    <3>1. statistics[acceptor].known /\ ~statistics[acceptor].inProgress
      BY <1>t DEF ThreadsInv
    <3>2. CASE acceptor = a
      BY <3>1, <3>2, <1>c, <1>s
    <3>3. CASE acceptor # a
      BY <3>1, <3>3, <1>c
    <3> QED  BY <3>2, <3>3
  <2>5. \A m \in Macs : statistics'[m].inProgress => \E u \in Slots : Working(u)' /\ thread'[u].mac = m
    <3> SUFFICES ASSUME NEW m \in Macs, statistics'[m].inProgress
                 PROVE  \E u \in Slots : Working(u)' /\ thread'[u].mac = m
      OBVIOUS
    <3>1. m # a
      BY <1>c, <1>s
    <3>2. PICK u \in Slots : Working(u) /\ thread[u].mac = m
      BY <3>1, <1>c, <1>t DEF ThreadsInv
    <3> QED  BY <3>1, <3>2, <1>a, <1>m, <1>w
  <2> QED  BY <2>2, <2>3, <2>4, <2>5 DEF ThreadsInv
<1>3. NoFailure
  <2>1. \A m \in Macs : /\ statistics'[m].connectFailed = statistics[m].connectFailed
                        /\ statistics'[m].serviceFailed = statistics[m].serviceFailed
    BY <1>c, <1>s
  <2> QED  BY <2>1, <1>f, <1>m DEF NoFailure
<1>4. SameEntries
  BY <1>g, <1>m DEF SameEntries, Open
<1> QED  BY <1>1, <1>2, <1>3, <1>4, <1>t, FailuresKept, EntriesKept DEF BleInv

\* A thread ends: only an entry that a disconnect which threw has left behind can be its.
LEMMA BleEnds == ASSUME NEW t \in Slots PROVE BleInv /\ Ble!thread_ends(t) => BleInv'
<1> SUFFICES ASSUME BleInv, Ble!thread_ends(t) PROVE BleInv'  OBVIOUS
<1>t. BleTypes /\ ThreadsInv /\ FailuresInv /\ EntriesInv
  BY DEF BleInv
<1>g. /\ thread[t].at = "return" /\ thread' = [thread EXCEPT ![t] = Ble!NoThread]
      /\ bleConnections' = [m \in Macs |-> IF bleConnections[m] = t THEN Expired ELSE bleConnections[m]]
      /\ UNCHANGED <<acceptor, statistics, threw>>
  BY DEF Ble!thread_ends, Ble!others
<1>0. Ble!NoThread \in [at : Ble!Points, mac : Macs \cup {None}] /\ Ble!NoThread.at = "free"
  BY DEF Ble!NoThread, Ble!Points
<1>h. thread \in [Slots -> [at : Ble!Points, mac : Macs \cup {None}]]
  BY <1>t DEF BleTypes
<1>m. /\ thread' \in [Slots -> [at : Ble!Points, mac : Macs \cup {None}]]
      /\ thread'[t] = Ble!NoThread
      /\ \A u \in Slots : u # t => thread'[u] = thread[u]
  BY <1>0, <1>g, <1>h
<1>a. thread'[t].at = "free"
  BY <1>0, <1>m
<1>w. \A u \in Slots : /\ Working(u)' <=> Working(u)
                       /\ Working(u) => thread'[u] = thread[u]
  BY <1>a, <1>g, <1>m DEF Working
<1>1. BleTypes'
  <2>1. bleConnections' \in [Macs -> Slots \cup {None, Expired}]
    BY <1>g, <1>t DEF BleTypes
  <2> QED  BY <2>1, <1>g, <1>m, <1>t DEF BleTypes
<1>2. ThreadsInv'
  BY <1>g, <1>t, <1>w DEF ThreadsInv
<1>3. NoFailure
  <2>1. \A m \in Macs : statistics[m].connectFailed \in Nat /\ statistics[m].serviceFailed \in Nat
    BY <1>t, StatisticFields DEF BleTypes
  <2> QED  BY <2>1, <1>a, <1>g, <1>m DEF NoFailure
<1>4. EntriesInv'
  <2>1. \A m \in Macs \ threw : bleConnections[m] # None => bleConnections[m] # t /\ bleConnections[m] \in Slots
    BY <1>g, <1>t DEF EntriesInv, Open
  <2>2. \A m \in Macs \ threw : bleConnections'[m] = bleConnections[m]
    BY <2>1, <1>g, BleConstants
  <2>3. \A u \in Slots : thread'[u].at \in Open => /\ u # t /\ thread'[u] = thread[u]
                                                   /\ thread[u].mac \in Macs
    BY <1>a, <1>m, <1>t DEF Open, ThreadsInv, Working
  <2>4. \A m \in Macs \ threw : bleConnections'[m] # None =>
            /\ bleConnections'[m] \in Slots
            /\ thread'[bleConnections'[m]].mac = m /\ thread'[bleConnections'[m]].at \in Open
    BY <2>1, <2>2, <1>m, <1>t DEF EntriesInv
  <2>5. \A u \in Slots : thread'[u].at \in Open =>
            bleConnections'[thread'[u].mac] = u \/ thread'[u].mac \in threw
    BY <2>2, <2>3, <1>t DEF EntriesInv
  <2> QED  BY <2>4, <2>5, <1>g DEF EntriesInv
<1> QED  BY <1>1, <1>2, <1>3, <1>4, <1>t, FailuresKept DEF BleInv

\* send() erases an entry whose connection is gone.
LEMMA BleSend == ASSUME NEW a \in Macs PROVE BleInv /\ Ble!send(a) => BleInv'
<1> SUFFICES ASSUME BleInv, Ble!send(a) PROVE BleInv'  OBVIOUS
<1>t. BleTypes /\ ThreadsInv /\ FailuresInv /\ EntriesInv
  BY DEF BleInv
<1>g. /\ bleConnections[a] = Expired /\ bleConnections' = [bleConnections EXCEPT ![a] = None]
      /\ UNCHANGED <<acceptor, statistics, thread, threw>>
  BY DEF Ble!send, Ble!others
<1>b. bleConnections \in [Macs -> Slots \cup {None, Expired}]
  BY <1>t DEF BleTypes
<1>a. a \in threw
  BY <1>g, <1>t, BleConstants DEF EntriesInv
<1>c. /\ bleConnections' \in [Macs -> Slots \cup {None, Expired}]
      /\ \A m \in Macs : m # a => bleConnections'[m] = bleConnections[m]
  BY <1>b, <1>g
<1>1. BleTypes'
  BY <1>c, <1>g, <1>t DEF BleTypes
<1>2. SameWork
  BY <1>g DEF SameWork
<1>3. NoFailure
  <2>1. \A m \in Macs : statistics[m].connectFailed \in Nat /\ statistics[m].serviceFailed \in Nat
    BY <1>t, StatisticFields DEF BleTypes
  <2> QED  BY <2>1, <1>g DEF NoFailure
<1>4. EntriesInv'
  <2>1. \A u \in Slots : thread[u].at \in Open => thread[u].mac \in Macs
    BY <1>t DEF ThreadsInv, Working, Open
  <2> QED  BY <2>1, <1>a, <1>c, <1>g, <1>t DEF EntriesInv
<1> QED  BY <1>1, <1>2, <1>3, <1>4, <1>t, ThreadsKept, FailuresKept DEF BleInv

\* Every step of a build keeps the invariant of the Bluetooth LE transport.
LEMMA BleNext == BleInv /\ [Next]_vars => BleInv'
<1> SUFFICES ASSUME BleInv, [Next]_vars PROVE BleInv'  OBVIOUS
<1> DEFINE Quiet == /\ UNCHANGED <<thread, statistics, bleConnections, threw>>
                    /\ acceptor' = acceptor \/ acceptor' \in {"wait", "scan", "crashed", "ended"}
<1>q. Quiet => BleInv'
  BY BleQuiet
<1>1. CASE UNCHANGED bleVars
  BY <1>1, <1>q DEF bleVars
<1>2. CASE Ble!Acceptor
  <2>1. \/ Quiet
        \/ \E m \in Macs : Ble!loop_device(m) \/ Ble!connect(m)
    BY <1>2 DEF Ble!Acceptor, Ble!loop_start, Ble!loop_adapter, Ble!loop_no_adapter, Ble!loop_scan,
                Ble!loop_return, Ble!loop_broken, Ble!loop_faulty, Ble!socket
  <2> QED  BY <2>1, <1>q, BleDevice, BleConnect
<1>3. CASE Ble!Gateway
  <2>1. Quiet \/ \E m \in Macs : Ble!send(m)
    BY <1>3 DEF Ble!Gateway, Ble!start_succeeds, Ble!start_fails, Ble!loop, Ble!destroy, Ble!destroyed,
                Ble!others, Ble!socket
  <2> QED  BY <2>1, <1>q, BleSend
<1>4. CASE Ble!Surroundings
  <2>1. Quiet \/ Ble!tick
    BY <1>4 DEF Ble!Surroundings, Ble!discovered, Ble!others, Ble!socket
  <2> QED  BY <2>1, <1>q, BleTick
<1>5. ASSUME NEW t \in Slots, Ble!Progress(t) \/ Ble!addBLEMessage(t) \/ Ble!link_down(t)
      PROVE  BleInv'
  <2>1. CASE Ble!addBLEMessage(t)
    BY <2>1, <1>q DEF Ble!addBLEMessage, Ble!others
  <2>2. CASE Ble!link_down(t)
    BY <2>2, BlePassing
  <2>3. CASE Ble!Progress(t)
    BY <2>3, BlePassing, BleCounting, BleOpening, BleUnset, BleEnds DEF Ble!Progress
  <2> QED  BY <2>1, <2>2, <2>3, <1>5
<1> QED  BY <1>1, <1>2, <1>3, <1>4, <1>5, BleFrame DEF Ble!Next

-----------------------------------------------------------------------------
(* The theorems *)

\* The threads of the Bluetooth LE transport keep their invariant, for any number of devices
\* and of connection threads.
THEOREM ThreadsCorrect == Spec => []BleInv
  BY BleInit, BleNext, PTL DEF Spec

\* Two threads of BLEConnection are never at work on the same device, and the acceptor
\* reads the counters of a device only while none is.
THEOREM OneConnectionCorrect == Spec => []OneConnection
<1>1. BleInv => OneConnection
  <2> SUFFICES ASSUME BleInv PROVE OneConnection  OBVIOUS
  <2>0. \A m \in Macs : \A t \in Ble!Live(m) : t \in Slots /\ Working(t) /\ thread[t].mac = m
    BY DEF Ble!Live, Working
  <2>1. Ble!OneConnection
    BY <2>0 DEF Ble!OneConnection, BleInv, ThreadsInv
  <2>2. Ble!StatisticsExclusive
    BY <2>0 DEF Ble!StatisticsExclusive, BleInv, ThreadsInv
  <2> QED  BY <2>1, <2>2 DEF OneConnection
<1> QED  BY <1>1, ThreadsCorrect, PTL

\* A device that has been added to bleConnections and not removed is found by send(), unless
\* an earlier disconnect of it has thrown.
THEOREM ReachableCorrect == Spec => []Reachable
<1>1. BleInv => Reachable
  BY DEF BleInv, EntriesInv, Open, Reachable, Ble!Reachable
<1> QED  BY <1>1, ThreadsCorrect, PTL

\* A device is given up before its uint8_t counters can wrap around, and one that is marked
\* as in progress has a thread that works on it, or that ended for its vanished address.
THEOREM InProgressCorrect == Spec => []InProgressHasThread
<1>1. BleInv => InProgressHasThread
  <2> SUFFICES ASSUME BleInv PROVE InProgressHasThread  OBVIOUS
  <2>1. Ble!FailuresStop
    BY DEF BleInv, FailuresInv, Ble!FailuresStop
  <2>2. Ble!InProgressHasThread
    <3> SUFFICES ASSUME NEW m \in Macs, statistics[m].inProgress
                 PROVE  Ble!Live(m) # {} \/ \E t \in Slots : thread[t] = [at |-> "lost", mac |-> m]
      BY DEF Ble!InProgressHasThread
    <3>1. PICK t \in Slots : Working(t) /\ thread[t].mac = m
      BY DEF BleInv, ThreadsInv
    <3>2. CASE thread[t].at = "lost"
      <4>1. thread[t] \in [at : Ble!Points, mac : Macs \cup {None}]
        BY DEF BleInv, BleTypes
      <4>2. thread[t] = [at |-> "lost", mac |-> m]
        BY <4>1, <3>1, <3>2
      <4> QED  BY <4>2
    <3>3. CASE thread[t].at # "lost"
      <4>1. t \in Ble!Live(m)
        BY <3>1, <3>3 DEF Ble!Live, Working
      <4> QED  BY <4>1
    <3> QED  BY <3>2, <3>3
  <2> QED  BY <2>1, <2>2 DEF InProgressHasThread
<1> QED  BY <1>1, ThreadsCorrect, PTL
=============================================================================
