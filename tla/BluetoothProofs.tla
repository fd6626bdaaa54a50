----------------------------- MODULE BluetoothProofs -----------------------------
(***************************************************************************)
(* Proofs about Bluetooth, for every value of the constants: the invariants*)
(* of Ble_old's scanner, connector and connections, of btio's sockets and  *)
(* of the hands-free profile, and, with those of BluetoothQueueProofs, the *)
(* properties of all parts.  A step is one of the part that is looked at,  *)
(* so each part's invariant is kept by its own steps alone.                *)
(***************************************************************************)
EXTENDS BluetoothQueueProofs

-----------------------------------------------------------------------------
(* One part moves at a time *)

\* While the hands-free profile is looked at, a step is one of its own or changes nothing of it.
LEMMA HfpMoves == engine = "hfp" /\ [Next]_vars => engine' = "hfp" /\ (Hfp!Next \/ UNCHANGED hfpVars)
BY DEF Next, vars, HfpStep, MgmtStep, HciStep, RingStep, QueueStep, LoopStep, OldStep, BtIoStep

\* The same of mgmt.
LEMMA MgmtMoves == engine = "mgmt" /\ [Next]_vars => engine' = "mgmt" /\ (Mgmt!Next \/ UNCHANGED mgmtVars)
BY DEF Next, vars, HfpStep, MgmtStep, HciStep, RingStep, QueueStep, LoopStep, OldStep, BtIoStep

\* The same of hci.
LEMMA HciMoves == engine = "hci" /\ [Next]_vars => engine' = "hci" /\ (Hci!Next \/ UNCHANGED hciVars)
BY DEF Next, vars, HfpStep, MgmtStep, HciStep, RingStep, QueueStep, LoopStep, OldStep, BtIoStep

\* The same of the ring buffer.
LEMMA RingMoves == engine = "ringbuf" /\ [Next]_vars => engine' = "ringbuf" /\ (Ring!Next \/ UNCHANGED ringVars)
BY DEF Next, vars, HfpStep, MgmtStep, HciStep, RingStep, QueueStep, LoopStep, OldStep, BtIoStep

\* The same of the queue.
LEMMA QueueMoves == engine = "queue" /\ [Next]_vars => engine' = "queue" /\ (Queue!Next \/ UNCHANGED queueVars)
BY DEF Next, vars, HfpStep, MgmtStep, HciStep, RingStep, QueueStep, LoopStep, OldStep, BtIoStep

\* The same of the main loop.
LEMMA LoopMoves == engine = "mainloop" /\ [Next]_vars => engine' = "mainloop" /\ (Loop!Next \/ UNCHANGED loopVars)
BY DEF Next, vars, HfpStep, MgmtStep, HciStep, RingStep, QueueStep, LoopStep, OldStep, BtIoStep

\* The same of Ble_old.
LEMMA OldMoves == engine = "ble_old" /\ [Next]_vars => engine' = "ble_old" /\ (Old!Next \/ UNCHANGED bleOldVars)
BY DEF Next, vars, HfpStep, MgmtStep, HciStep, RingStep, QueueStep, LoopStep, OldStep, BtIoStep

\* The same of the sockets.
LEMMA BtIoMoves == engine = "btio" /\ [Next]_vars => engine' = "btio" /\ (BtIo!Next \/ UNCHANGED btioVars)
BY DEF Next, vars, HfpStep, MgmtStep, HciStep, RingStep, QueueStep, LoopStep, OldStep, BtIoStep

\* No step changes which part is looked at.
LEMMA EngineKept == [Next]_vars => engine' = engine
BY DEF Next, vars, HfpStep, MgmtStep, HciStep, RingStep, QueueStep, LoopStep, OldStep, BtIoStep

-----------------------------------------------------------------------------
(* BluetoothLowEnergy *)

\* A Connection.
OldConnection == [dev : BleDevices, state : Old!ConnectionState, refused : BOOLEAN, loop : {"running", "quit"},
                  io : {"none", "open", "released"}, waits : {"none", "connect", "descriptors", "read", "write"}, exists : BOOLEAN]

\* Where the connector's thread is, from the connection that it makes up to the restart of the scanner.
OldTrying == {"connect", "connecting", "command", "connected", "refused"}
OldMade   == OldTrying \cup {"remove", "activate"}
OldHolds  == OldMade \cup {"restart"}

\* The state is of these types.
OldTypes ==
    /\ ble_process \in {"up", "exited", "terminated"}
    /\ scan_thread \in {"none", "started", "scanning", "delivers", "ended"}
    /\ scanner_results \in Seq(BleDevices) /\ connector_results \in Seq(BleDevices)
    /\ connections \in Seq(OldConnection) /\ active_connections \in Seq(DOMAIN connections)
    /\ connector \in OldHolds \cup {"unlock", "idle", "join"}

\* A connection that was refused gets no farther; the answer to a connect is only waited for by
\* the one that is tried, and it is the only one that was refused and still exists.
OldFit(c, r, n, at) ==
    /\ r.refused => r.state \in {"ERROR", "PENDING_CHANGE", "CLOSED"} /\ r.waits = "none"
    /\ r.waits = "connect" => r.state \in {"DISCONNECTED", "PENDING_CHANGE"} /\ c = n /\ at \in {"connecting", "connect"}
    /\ r.refused /\ r.exists => c = n /\ at \in {"connecting", "connect", "connected", "refused"}

\* What is known of the connection r that is tried.
OldTried(r, at) ==
    /\ at \in OldMade => r.exists
    /\ at \in OldTrying \cup {"remove"} => r.dev \in Range(scanner_results)
    /\ at = "connect" /\ r.state = "DISCONNECTED" => r.waits = "none"

\* The connections.
OldConnections ==
    /\ \A c \in DOMAIN connections : OldFit(c, connections[c], Len(connections), connector)
    /\ connector \in OldHolds => connections # <<>> /\ OldTried(connections[Len(connections)], connector)
    /\ connector \in OldMade => Len(connections) \notin Range(active_connections)
    /\ \A c \in Range(active_connections) : connections[c].exists

\* What was found.  A result that the scanner hands over is new to the connector, and a device
\* that has refused stays on the blacklist.
OldResults ==
    /\ IsInjective(connector_results) /\ IsInjective(scanner_results)
    /\ Range(connector_results) \subseteq Range(scanner_results)
    /\ scan_thread = "delivers" => delivering \in Range(scanner_results) /\ delivering \notin Range(connector_results)
    /\ connector \in OldHolds => scan_thread \in {"none", "ended"}
    /\ connector = "join" => connector_results # <<>>

\* The devices that have refused.
OldSpent(r) == r.refused /\ ~r.exists
OldBlacklist ==
    \A b \in DOMAIN connections : OldSpent(connections[b]) =>
        /\ connections[b].dev \in Range(scanner_results) /\ connections[b].dev \notin Range(connector_results)
        /\ scan_thread = "delivers" => delivering # connections[b].dev
        /\ \A c \in DOMAIN connections : b < c => connections[b].dev # connections[c].dev

OldInv == OldTypes /\ OldConnections /\ OldResults /\ OldBlacklist

\* The library's operators mean the same in every part.
LEMMA OldLibrary ==
    /\ \A q : Old!Range(q) = Range(q)
    /\ \A f : Old!IsInjective(f) = IsInjective(f)
    /\ \A q, S : Old!Filter(q, S) = Filter(q, S)
    /\ Old!Cur = Len(connections)
<1>1. \A q : Old!Range(q) = Range(q)
  BY Zenon DEF Range, Old!Range
<1>2. \A f : Old!IsInjective(f) = IsInjective(f)
  BY Zenon DEF IsInjective, Old!IsInjective
<1>3. \A q, S : Old!Filter(q, S) = Filter(q, S)
  BY Zenon DEF Filter, Old!Filter
<1>4. QED
  BY <1>1, <1>2, <1>3 DEF Old!Cur

\* The connections are records, and what is known of one.
LEMMA OldRecords ==
    ASSUME OldInv
    PROVE  /\ Len(connections) \in Nat /\ DOMAIN connections = 1..Len(connections)
           /\ \A c \in DOMAIN connections : connections[c] \in OldConnection /\ OldFit(c, connections[c], Len(connections), connector)
           /\ connector \in OldHolds => Len(connections) \in DOMAIN connections /\ OldTried(connections[Len(connections)], connector)
<1> DEFINE n == Len(connections)
<1>1. n \in Nat /\ DOMAIN connections = 1..n
  BY LenProperties DEF OldInv, OldTypes
<1>2. \A c \in 1..n : connections[c] \in OldConnection
  BY ElementOfSeq DEF OldInv, OldTypes
<1>3. ASSUME connector \in OldHolds PROVE n \in 1..n /\ OldTried(connections[n], connector)
  <2>1. connections # <<>> /\ OldTried(connections[n], connector)
    BY <1>3 DEF OldInv, OldConnections
  <2>2. n # 0
    BY <2>1, EmptySeq DEF OldInv, OldTypes
  <2> HIDE DEF n
  <2>3. n \in 1..n
    BY <2>2, <1>1
  <2>4. QED
    BY <2>1, <2>3 DEF n
<1>4. QED
  BY <1>1, <1>2, <1>3 DEF OldInv, OldConnections

\* One connection changes, and with it where the connector is.
OldChange(c, x) ==
    /\ c \in DOMAIN connections /\ x \in OldConnection /\ connections' = [connections EXCEPT ![c] = x]
    /\ UNCHANGED <<ble_process, scan_thread, scanner_results, delivering, connector_results, active_connections>>
    /\ x.dev = connections[c].dev /\ x.exists = connections[c].exists /\ (OldSpent(x) => OldSpent(connections[c]))
    /\ connector' = connector \/ (c = Len(connections) /\ connector \in OldMade /\ connector' \in OldMade)
    /\ OldFit(c, x, Len(connections), connector')
    /\ c = Len(connections) => OldTried(x, connector')

\* The invariant is kept by such a step.
LEMMA OldChanged ==
    ASSUME OldInv, NEW c, NEW x, OldChange(c, x)
    PROVE  OldInv'
<1> DEFINE n == Len(connections)
<1>1. /\ n \in Nat /\ DOMAIN connections = 1..n /\ c \in 1..n /\ connections \in Seq(OldConnection)
      /\ \A b \in 1..n : OldFit(b, connections[b], n, connector)
  BY OldRecords DEF OldChange, OldInv, OldTypes
<1>2. connections' \in Seq(OldConnection) /\ Len(connections') = n /\ connections'[c] = x /\ \A b \in 1..n : b # c => connections'[b] = connections[b]
  <2>1. x \in OldConnection /\ c \in 1..Len(connections) /\ connections' = [connections EXCEPT ![c] = x]
    BY <1>1 DEF OldChange
  <2>2. [connections EXCEPT ![c] = x] \in Seq(OldConnection) /\ Len([connections EXCEPT ![c] = x]) = n
    BY <1>1, <2>1, ExceptSeq
  <2>3. QED
    BY <1>1, <2>1, <2>2
<1>3. DOMAIN connections' = 1..n
  BY <1>2, LenProperties
<1> HIDE DEF n
<1>4. /\ ble_process' = ble_process /\ scan_thread' = scan_thread /\ scanner_results' = scanner_results /\ delivering' = delivering
      /\ connector_results' = connector_results /\ active_connections' = active_connections
      /\ (connector' = connector \/ (c = n /\ connector \in OldMade /\ connector' \in OldMade))
  BY DEF OldChange, n
<1>5. \A b \in 1..n : /\ connections'[b].dev = connections[b].dev /\ connections'[b].exists = connections[b].exists
                      /\ OldSpent(connections'[b]) => OldSpent(connections[b])
  BY <1>2 DEF OldChange
<1>6. OldTypes'
  BY <1>1, <1>2, <1>3, <1>4 DEF OldInv, OldTypes, OldMade, OldHolds
<1>7. OldConnections'
  <2>1. ASSUME NEW b \in 1..n PROVE OldFit(b, connections'[b], n, connector')
    <3>1. CASE b = c
      BY <3>1, <1>2 DEF OldChange, n
    <3>2. CASE b # c
      BY <3>2, <1>1, <1>2, <1>4 DEF OldFit
    <3>3. QED
      BY <3>1, <3>2
  <2>2. ASSUME connector' \in OldHolds PROVE connections' # <<>> /\ OldTried(connections[Len(connections)], connector)'
    <3>1. connector \in OldHolds
      BY <2>2, <1>4 DEF OldHolds
    <3>2. n \in 1..n /\ OldTried(connections[n], connector)
      BY <3>1, OldRecords DEF n
    <3>3. connections' # <<>>
      BY <1>3, <3>2
    <3>4. CASE c = n
      <4>1. OldTried(x, connector')
        BY <3>4 DEF OldChange, n
      <4>2. QED
        BY <3>3, <3>4, <4>1, <1>2, <1>4 DEF OldTried
    <3>5. CASE c # n
      BY <3>2, <3>3, <3>5, <1>2, <1>4 DEF OldTried
    <3>6. QED
      BY <3>4, <3>5
  <2>3. connector' \in OldMade => Len(connections') \notin Range(active_connections')
    BY <1>2, <1>4 DEF OldInv, OldConnections, n
  <2>4. \A b \in Range(active_connections') : connections'[b].exists
    <3>1. Range(active_connections) \subseteq 1..n
      BY <1>1, HeadInRange DEF OldInv, OldTypes
    <3>2. QED
      BY <3>1, <1>4, <1>5 DEF OldInv, OldConnections
  <2>5. QED
    BY <2>1, <2>2, <2>3, <2>4, <1>2, <1>3 DEF OldConnections
<1>8. OldResults'
  BY <1>4 DEF OldInv, OldResults, OldHolds, OldMade, OldTrying
<1>9. OldBlacklist'
  BY <1>1, <1>3, <1>4, <1>5 DEF OldInv, OldBlacklist
<1>10. QED
  BY <1>6, <1>7, <1>8, <1>9 DEF OldInv

\* The scanner or the connector moves, and what they know is as before.
OldQuiet ==
    /\ UNCHANGED <<scanner_results, connector_results, connections, active_connections>>
    /\ ble_process' \in {"up", "exited"} /\ scan_thread' \in {"none", "started", "scanning", "delivers", "ended"}
    /\ scan_thread' = "delivers" => scan_thread = "delivers" /\ delivering' = delivering
    /\ connector \notin OldMade /\ connector' \in {"unlock", "idle", "join"} /\ (connector' = "join" => connector_results # <<>>)

\* The invariant is kept by such a step.
LEMMA OldQuieted ==
    ASSUME OldInv, OldQuiet
    PROVE  OldInv'
<1>1. connector' \notin OldHolds /\ connector' \notin OldMade
  BY DEF OldQuiet, OldHolds, OldMade, OldTrying
<1>2. OldTypes'
  BY DEF OldInv, OldTypes, OldQuiet
<1>3. OldConnections'
  <2>1. \A c \in DOMAIN connections : OldFit(c, connections[c], Len(connections), connector')
    BY DEF OldInv, OldConnections, OldQuiet, OldFit, OldMade, OldTrying
  <2>2. QED
    BY <1>1, <2>1 DEF OldInv, OldConnections, OldQuiet
<1>4. OldResults'
  BY <1>1 DEF OldInv, OldResults, OldQuiet
<1>5. OldBlacklist'
  BY DEF OldInv, OldBlacklist, OldQuiet
<1>6. QED
  BY <1>2, <1>3, <1>4, <1>5 DEF OldInv

\* The steps of the scanner's thread and of the connector that leave what they know alone.
LEMMA OldQuietSteps ==
    ASSUME OldInv, Old!scanWithCallback \/ Old!lescan_fails \/ Old!advertised_again \/ Old!scan_ends
                   \/ Old!connect_loop \/ Old!connect_loop_restart \/ Old!connect_loop_unlock
    PROVE  OldInv'
<1>1. OldTypes /\ (connector \in OldHolds => scan_thread \in {"none", "ended"}) /\ OldMade \subseteq OldHolds
  BY DEF OldInv, OldResults, OldHolds
<1>2. CASE Old!scanWithCallback
  BY <1>1, <1>2, OldQuieted DEF Old!scanWithCallback, Old!Up, OldQuiet, OldTypes, OldInv, OldResults
<1>3. CASE Old!lescan_fails
  BY <1>1, <1>3, OldQuieted DEF Old!lescan_fails, Old!Up, Old!bleScanner, OldQuiet, OldTypes, OldInv, OldResults
<1>4. CASE Old!advertised_again
  BY <1>1, <1>4, OldQuieted DEF Old!advertised_again, Old!Up, Old!ScanGoesOn, OldQuiet, OldTypes, OldInv, OldResults
<1>5. CASE Old!scan_ends
  BY <1>1, <1>5, OldQuieted DEF Old!scan_ends, Old!Up, OldQuiet, OldTypes, OldInv, OldResults
<1>6. CASE Old!connect_loop
  BY <1>1, <1>6, OldQuieted DEF Old!connect_loop, Old!Up, OldQuiet, OldTypes, OldInv, OldResults, OldMade, OldTrying
<1>7. CASE Old!connect_loop_restart
  <2>1. connector \notin OldMade /\ connector' = "unlock" /\ scan_thread # "delivers"
    BY <1>1, <1>7 DEF Old!connect_loop_restart, OldMade, OldTrying, OldHolds
  <2>2. QED
    BY <1>1, <1>7, <2>1, OldQuieted DEF Old!connect_loop_restart, Old!Up, OldQuiet, OldTypes
<1>8. CASE Old!connect_loop_unlock
  BY <1>1, <1>8, OldQuieted DEF Old!connect_loop_unlock, Old!Up, Old!bleScanner, OldQuiet, OldTypes, OldMade, OldTrying
<1>9. QED
  BY <1>2, <1>3, <1>4, <1>5, <1>6, <1>7, <1>8

\* An element is put in front of a list.
LEMMA PrependKeeps ==
    ASSUME NEW T, NEW q \in Seq(T), NEW x \in T
    PROVE  /\ <<x>> \o q \in Seq(T) /\ Range(<<x>> \o q) = Range(q) \cup {x}
           /\ IsInjective(q) /\ x \notin Range(q) => IsInjective(<<x>> \o q)
<1> DEFINE r == <<x>> \o q
           n == Len(q)
<1>1. /\ r \in Seq(T) /\ Len(r) = n + 1 /\ n \in Nat /\ DOMAIN q = 1..n /\ DOMAIN r = 1..n + 1
      /\ r[1] = x /\ \A i \in 1..n : r[i + 1] = q[i]
  <2>1. <<x>> \in Seq(T) /\ Len(<<x>>) = 1
    OBVIOUS
  <2>2. n \in Nat /\ DOMAIN q = 1..n
    BY LenProperties
  <2>3. r \in Seq(T) /\ Len(r) = 1 + n /\ \A i \in 1..1 + n : r[i] = IF i <= 1 THEN <<x>>[i] ELSE q[i - 1]
    BY <2>1, ConcatProperties
  <2>4. DOMAIN r = 1..Len(r)
    BY <2>3, LenProperties
  <2> HIDE DEF r, n
  <2>5. r[1] = x
    BY <2>2, <2>3
  <2>6. ASSUME NEW i \in 1..n PROVE r[i + 1] = q[i]
    <3>1. i + 1 \in 1..1 + n /\ ~(i + 1 <= 1) /\ (i + 1) - 1 = i
      BY <2>2
    <3>2. r[i + 1] = q[(i + 1) - 1]
      BY <3>1, <2>3
    <3>3. QED
      BY <3>1, <3>2
  <2>7. QED
    BY <2>2, <2>3, <2>4, <2>5, <2>6
<1> HIDE DEF r, n
<1>2. \A i \in 1..n + 1 : i = 1 \/ (i - 1 \in 1..n /\ (i - 1) + 1 = i)
  BY <1>1
<1>3. 1 \in 1..n + 1 /\ \A i \in 1..n : i + 1 \in 1..n + 1 /\ i + 1 # 1
  BY <1>1
<1>4. \A i \in 1..n + 1 : i = 1 \/ r[i] = q[i - 1]
  BY <1>1, <1>2
<1>5. Range(r) = Range(q) \cup {x}
  <2>1. ASSUME NEW y \in Range(r) PROVE y \in Range(q) \cup {x}
    <3>1. PICK i \in 1..n + 1 : y = r[i]
      BY <1>1 DEF Range
    <3>2. CASE i = 1
      BY <3>1, <3>2, <1>1
    <3>3. CASE i - 1 \in 1..n /\ y = q[i - 1]
      BY <3>3, <1>1 DEF Range
    <3>4. QED
      BY <3>1, <3>2, <3>3, <1>2, <1>4
  <2>2. ASSUME NEW y \in Range(q) \cup {x} PROVE y \in Range(r)
    BY <2>2, <1>1, <1>3 DEF Range
  <2>3. QED
    BY <2>1, <2>2
<1>6. ASSUME IsInjective(q), x \notin Range(q) PROVE IsInjective(r)
  <2> SUFFICES ASSUME NEW i \in 1..n + 1, NEW j \in 1..n + 1, r[i] = r[j] PROVE i = j
    BY <1>1 DEF IsInjective
  <2>1. \A k \in 1..n : q[k] # x
    BY <1>1, <1>6 DEF Range
  <2>2. CASE i = 1 \/ j = 1
    BY <2>1, <2>2, <1>1, <1>2, <1>4
  <2>3. CASE i # 1 /\ j # 1
    <3>1. i - 1 \in 1..n /\ j - 1 \in 1..n /\ q[i - 1] = q[j - 1] /\ (i - 1) + 1 = i /\ (j - 1) + 1 = j
      BY <2>3, <1>2, <1>4
    <3>2. i - 1 = j - 1
      BY <3>1, <1>1, <1>6 DEF IsInjective
    <3>3. QED
      BY <3>1, <3>2
  <2>4. QED
    BY <2>2, <2>3
<1>7. QED
  BY <1>1, <1>5, <1>6 DEF r

\* advertised
LEMMA OldAdvertised ==
    ASSUME OldInv, NEW d \in BleDevices, Old!advertised(d)
    PROVE  OldInv'
<1>1. /\ scan_thread = "scanning" /\ d \notin Range(scanner_results) /\ scanner_results' = <<d>> \o scanner_results
      /\ delivering' = d /\ scan_thread' = "delivers"
      /\ ble_process' = ble_process /\ connector' = connector /\ connector_results' = connector_results
      /\ connections' = connections /\ active_connections' = active_connections
  BY OldLibrary DEF Old!advertised
<1>2. connector \notin OldHolds /\ connector \notin OldMade
  BY <1>1 DEF OldInv, OldResults, OldHolds
<1>3. /\ scanner_results' \in Seq(BleDevices) /\ Range(scanner_results') = Range(scanner_results) \cup {d}
      /\ IsInjective(scanner_results')
  BY <1>1, PrependKeeps DEF OldInv, OldTypes, OldResults
<1>4. OldTypes'
  BY <1>1, <1>3 DEF OldInv, OldTypes
<1>5. OldConnections'
  BY <1>1, <1>2 DEF OldInv, OldConnections
<1>6. OldResults'
  BY <1>1, <1>2, <1>3 DEF OldInv, OldResults
<1>7. OldBlacklist'
  BY <1>1, <1>3 DEF OldInv, OldBlacklist
<1>8. QED
  BY <1>4, <1>5, <1>6, <1>7 DEF OldInv

\* onScanReceive
LEMMA OldReceive ==
    ASSUME OldInv, Old!onScanReceive
    PROVE  OldInv'
<1>1. /\ scan_thread = "delivers" /\ connector_results' = Append(connector_results, delivering)
      /\ scan_thread' \in {"ended", "scanning"}
      /\ ble_process' = ble_process /\ connector' = connector /\ scanner_results' = scanner_results
      /\ connections' = connections /\ active_connections' = active_connections
  BY DEF Old!onScanReceive, Old!ScanGoesOn
<1>2. connector \notin OldHolds /\ connector \notin OldMade
  BY <1>1 DEF OldInv, OldResults, OldHolds
<1>3. delivering \in Range(scanner_results) /\ delivering \notin Range(connector_results) /\ delivering \in BleDevices
  BY <1>1, HeadInRange DEF OldInv, OldResults, OldTypes
<1>4. /\ connector_results' \in Seq(BleDevices) /\ Range(connector_results') = Range(connector_results) \cup {delivering}
      /\ IsInjective(connector_results') /\ connector_results' # <<>>
  <2> DEFINE d == delivering
             q == connector_results
  <2>1. d \in BleDevices /\ q \in Seq(BleDevices) /\ IsInjective(q) /\ d \notin Range(q) /\ connector_results' = Append(q, d)
    BY <1>1, <1>3 DEF OldInv, OldTypes, OldResults
  <2> HIDE DEF d, q
  <2>2. /\ Append(q, d) \in Seq(BleDevices) /\ Append(q, d) # <<>> /\ Range(Append(q, d)) = Range(q) \cup {d}
        /\ IsInjective(q) /\ d \notin Range(q) => IsInjective(Append(q, d))
    BY <2>1, AppendKeeps
  <2>3. QED
    BY <2>1, <2>2 DEF d, q
<1>5. OldTypes'
  BY <1>1, <1>4 DEF OldInv, OldTypes
<1>6. OldConnections'
  BY <1>1, <1>2 DEF OldInv, OldConnections
<1>7. OldResults'
  BY <1>1, <1>2, <1>3, <1>4 DEF OldInv, OldResults
<1>8. OldBlacklist'
  BY <1>1, <1>4 DEF OldInv, OldBlacklist
<1>9. QED
  BY <1>5, <1>6, <1>7, <1>8 DEF OldInv

\* A list of elements of one set is one of any larger set.
LEMMA SeqWider ==
    ASSUME NEW S, NEW T, S \subseteq T, NEW q \in Seq(S)
    PROVE  q \in Seq(T)
<1> DEFINE n == Len(q)
<1>1. n \in Nat /\ q \in [1..n -> S]
  BY LenProperties
<1> HIDE DEF n
<1>2. q \in [1..n -> T]
  BY <1>1
<1>3. QED
  BY <1>1, <1>2

\* connect_loop_connect
LEMMA OldConnect ==
    ASSUME OldInv, Old!connect_loop_connect
    PROVE  OldInv'
<1> DEFINE n == Len(connections)
           d == Head(connector_results)
           x == [dev |-> d, state |-> "DISCONNECTED", refused |-> FALSE, loop |-> "running", io |-> "none", waits |-> "none", exists |-> TRUE]
<1>1. /\ connector = "join" /\ scan_thread \in {"none", "ended"} /\ connector' = "connect" /\ connections' = Append(connections, x)
      /\ ble_process' = ble_process /\ scan_thread' = scan_thread /\ scanner_results' = scanner_results /\ delivering' = delivering
      /\ connector_results' = connector_results /\ active_connections' = active_connections
  BY DEF Old!connect_loop_connect, Old!Joined, Old!bleScanner
<1>2. d \in Range(connector_results) /\ d \in BleDevices /\ d \in Range(scanner_results)
  BY <1>1, HeadInRange DEF OldInv, OldResults, OldTypes
<1>3. x \in OldConnection
  BY <1>2 DEF OldConnection, Old!ConnectionState
<1>4. /\ n \in Nat /\ DOMAIN connections = 1..n /\ connections \in Seq(OldConnection)
      /\ \A c \in 1..n : OldFit(c, connections[c], n, connector)
  BY OldRecords DEF OldInv, OldTypes
<1>5. x.refused = FALSE /\ x.waits = "none" /\ x.exists = TRUE /\ x.dev = d
  OBVIOUS
<1> HIDE DEF x, d
<1>6. /\ connections' \in Seq(OldConnection) /\ Len(connections') = n + 1 /\ connections'[n + 1] = x
      /\ \A c \in 1..n : connections'[c] = connections[c]
  BY <1>1, <1>3, <1>4, AppendProperties
<1>7. DOMAIN connections' = 1..n + 1
  BY <1>6, LenProperties
<1> HIDE DEF n
<1>8. /\ n + 1 \in 1..n + 1 /\ (\A c \in 1..n : c \in 1..n + 1 /\ c # n + 1 /\ c < n + 1) /\ (\A c \in 1..n + 1 : c \in 1..n \/ c = n + 1)
      /\ n + 1 \notin 1..n /\ 1..n \subseteq 1..n + 1
  BY <1>4
<1>9. active_connections \in Seq(1..n) /\ Range(active_connections) \subseteq 1..n
  BY <1>4, HeadInRange DEF OldInv, OldTypes
<1>10. OldTypes'
  <2>1. active_connections \in Seq(1..n + 1)
    BY <1>8, <1>9, SeqWider
  <2>2. QED
    BY <1>1, <1>6, <1>7, <2>1 DEF OldInv, OldTypes, OldHolds, OldMade, OldTrying
<1>11. OldConnections'
  <2>1. ASSUME NEW c \in 1..n + 1 PROVE OldFit(c, connections'[c], n + 1, "connect")
    <3>1. CASE c = n + 1
      BY <3>1, <1>5, <1>6 DEF OldFit
    <3>2. CASE c \in 1..n
      BY <3>2, <1>1, <1>4, <1>6 DEF OldFit
    <3>3. QED
      BY <3>1, <3>2, <1>8
  <2>2. OldTried(connections[Len(connections)], connector)'
    BY <1>1, <1>2, <1>5, <1>6 DEF OldTried
  <2>3. connections' # <<>>
    BY <1>7, <1>8
  <2>4. n + 1 \notin Range(active_connections')
    BY <1>1, <1>8, <1>9
  <2>5. \A c \in Range(active_connections') : connections'[c].exists
    BY <1>1, <1>6, <1>9 DEF OldInv, OldConnections
  <2>6. QED
    BY <2>1, <2>2, <2>3, <2>4, <2>5, <1>1, <1>6, <1>7 DEF OldConnections
<1>12. OldResults'
  BY <1>1 DEF OldInv, OldResults
<1>13. OldBlacklist'
  <2>0. /\ DOMAIN connections' = 1..n + 1 /\ scan_thread' # "delivers"
        /\ scanner_results' = scanner_results /\ connector_results' = connector_results
    BY <1>1, <1>7
  <2> SUFFICES ASSUME NEW b \in 1..n + 1, OldSpent(connections'[b])
               PROVE  /\ connections'[b].dev \in Range(scanner_results) /\ connections'[b].dev \notin Range(connector_results)
                      /\ \A c \in 1..n + 1 : b < c => connections'[b].dev # connections'[c].dev
    BY <2>0 DEF OldBlacklist
  <2>1. b \in 1..n
    BY <1>5, <1>6, <1>8 DEF OldSpent
  <2>2. /\ connections'[b] = connections[b] /\ connections[b].dev \in Range(scanner_results) /\ connections[b].dev \notin Range(connector_results)
        /\ \A c \in 1..n : b < c => connections[b].dev # connections[c].dev
    BY <2>1, <1>4, <1>6 DEF OldInv, OldBlacklist
  <2>3. ASSUME NEW c \in 1..n + 1, b < c PROVE connections'[b].dev # connections'[c].dev
    BY <2>2, <2>3, <1>2, <1>5, <1>6, <1>8
  <2>4. QED
    BY <2>2, <2>3
<1>14. QED
  BY <1>10, <1>11, <1>12, <1>13 DEF OldInv

\* connect_loop_refused
LEMMA OldRefused ==
    ASSUME OldInv, Old!connect_loop_refused
    PROVE  OldInv'
<1> DEFINE n == Len(connections)
           r == connections[n]
           x == [r EXCEPT !.state = "CLOSED", !.loop = "quit", !.exists = FALSE]
<1>1. /\ connector = "refused" /\ connector' = "restart" /\ connector_results' = Filter(connector_results, BleDevices \ {r.dev})
      /\ connections' = [connections EXCEPT ![n].state = "CLOSED", ![n].loop = "quit", ![n].exists = FALSE]
      /\ ble_process' = ble_process /\ scan_thread' = scan_thread /\ scanner_results' = scanner_results /\ delivering' = delivering
      /\ active_connections' = active_connections
  BY OldLibrary DEF Old!connect_loop_refused, Old!bleScanner
<1>2. n \in Nat /\ DOMAIN connections = 1..n /\ n \in 1..n /\ r \in OldConnection /\ OldTried(r, "refused") /\ OldFit(n, r, n, "refused")
      /\ connections \in Seq(OldConnection) /\ \A c \in 1..n : OldFit(c, connections[c], n, "refused")
  BY <1>1, OldRecords DEF OldInv, OldTypes, OldHolds, OldMade, OldTrying
<1>3. x \in OldConnection /\ x.dev = r.dev /\ x.refused = r.refused /\ x.waits = r.waits /\ x.exists = FALSE /\ x.state = "CLOSED"
  BY <1>2 DEF OldConnection, Old!ConnectionState
<1>4. connections' = [connections EXCEPT ![n] = x]
  BY <1>1
<1>5. /\ Range(connector_results') = Range(connector_results) \cap (BleDevices \ {r.dev})
      /\ connector_results' \in Seq(BleDevices) /\ IsInjective(connector_results')
  BY <1>1, FilterRange, FilterInjective DEF OldInv, OldTypes, OldResults
<1>6. connections' \in Seq(OldConnection) /\ Len(connections') = n /\ connections'[n] = x /\ \A c \in 1..n : c # n => connections'[c] = connections[c]
  <2> HIDE DEF x
  <2>1. [connections EXCEPT ![n] = x] \in Seq(OldConnection) /\ Len([connections EXCEPT ![n] = x]) = n
    BY <1>2, <1>3, ExceptSeq
  <2>2. QED
    BY <1>2, <1>4, <2>1
<1>7. DOMAIN connections' = 1..n
  BY <1>6, LenProperties
<1>8. r.dev \in Range(scanner_results) /\ scan_thread \in {"none", "ended"} /\ n \notin Range(active_connections)
  BY <1>1, <1>2 DEF OldInv, OldConnections, OldResults, OldTried, OldTrying, OldMade, OldHolds
<1>9. active_connections \in Seq(1..n) /\ Range(active_connections) \subseteq 1..n
  BY <1>2, HeadInRange DEF OldInv, OldTypes
<1> HIDE DEF n, r, x
<1>10. OldTypes'
  BY <1>1, <1>5, <1>6, <1>7, <1>9 DEF OldInv, OldTypes, OldHolds
<1>11. OldConnections'
  <2>1. ASSUME NEW c \in 1..n PROVE OldFit(c, connections'[c], n, "restart")
    <3>1. CASE c = n
      BY <3>1, <1>2, <1>3, <1>6 DEF OldFit
    <3>2. CASE c # n
      BY <3>2, <1>2, <1>6 DEF OldFit
    <3>3. QED
      BY <3>1, <3>2
  <2>2. OldTried(connections[Len(connections)], connector)'
    BY <1>1 DEF OldTried, OldTrying, OldMade
  <2>3. connections' # <<>> /\ connector' \notin OldMade
    BY <1>1, <1>2, <1>7 DEF OldMade, OldTrying
  <2>4. \A c \in Range(active_connections') : connections'[c].exists
    BY <1>1, <1>6, <1>8, <1>9 DEF OldInv, OldConnections
  <2>5. QED
    BY <2>1, <2>2, <2>3, <2>4, <1>1, <1>6, <1>7 DEF OldConnections
<1>12. OldResults'
  BY <1>1, <1>5, <1>8 DEF OldInv, OldResults
<1>13. OldBlacklist'
  <2>00. scan_thread' # "delivers" /\ scanner_results' = scanner_results
    BY <1>1, <1>8
  <2> SUFFICES ASSUME NEW b \in 1..n, OldSpent(connections'[b])
               PROVE  /\ connections'[b].dev \in Range(scanner_results) /\ connections'[b].dev \notin Range(connector_results')
                      /\ \A c \in 1..n : b < c => connections'[b].dev # connections'[c].dev
    BY <2>00, <1>7 DEF OldBlacklist
  <2>0. \A c \in 1..n : connections'[c].dev = connections[c].dev
    BY <1>3, <1>6 DEF r
  <2>1. CASE b = n
    BY <2>1, <1>2, <1>3, <1>5, <1>6, <1>8
  <2>2. CASE b # n
    <3>1. OldSpent(connections[b])
      BY <2>2, <1>6
    <3>2. /\ connections[b].dev \in Range(scanner_results) /\ connections[b].dev \notin Range(connector_results)
          /\ \A c \in 1..n : b < c => connections[b].dev # connections[c].dev
      BY <3>1, <1>2 DEF OldInv, OldBlacklist
    <3>3. QED
      BY <3>2, <2>0, <1>5
  <2>3. QED
    BY <2>1, <2>2
<1>14. QED
  BY <1>10, <1>11, <1>12, <1>13 DEF OldInv

\* removeScanResult
LEMMA OldRemove ==
    ASSUME OldInv, Old!removeScanResult
    PROVE  OldInv'
<1> DEFINE n == Len(connections)
           r == connections[n]
           S == BleDevices \ {r.dev}
<1>1. /\ connector = "remove" /\ connector' = "activate" /\ connector_results' = Filter(connector_results, S)
      /\ scanner_results' = Filter(scanner_results, S)
      /\ ble_process' = ble_process /\ scan_thread' = scan_thread /\ delivering' = delivering
      /\ connections' = connections /\ active_connections' = active_connections
  BY OldLibrary DEF Old!removeScanResult, Old!Forget
<1>2. n \in Nat /\ DOMAIN connections = 1..n /\ n \in 1..n /\ r \in OldConnection /\ OldTried(r, "remove")
      /\ \A c \in 1..n : OldFit(c, connections[c], n, "remove")
  BY <1>1, OldRecords DEF OldHolds, OldMade, OldTrying
<1>3. /\ Range(connector_results') = Range(connector_results) \cap S
      /\ connector_results' \in Seq(BleDevices) /\ IsInjective(connector_results')
  BY <1>1, FilterRange, FilterInjective DEF OldInv, OldTypes, OldResults
<1>4. /\ Range(scanner_results') = Range(scanner_results) \cap S
      /\ scanner_results' \in Seq(BleDevices) /\ IsInjective(scanner_results')
  BY <1>1, FilterRange, FilterInjective DEF OldInv, OldTypes, OldResults
<1>5. scan_thread \in {"none", "ended"} /\ n \notin Range(active_connections) /\ r.exists
  BY <1>1, <1>2 DEF OldInv, OldConnections, OldResults, OldTried, OldMade, OldHolds
<1>6. OldTypes'
  BY <1>1, <1>3, <1>4 DEF OldInv, OldTypes, OldHolds, OldMade
<1>7. OldConnections'
  <2>1. \A c \in 1..n : OldFit(c, connections[c], n, "activate")
    BY <1>2 DEF OldFit
  <2>2. OldTried(connections[Len(connections)], connector)'
    BY <1>1, <1>5 DEF OldTried, OldTrying
  <2>3. connections' # <<>>
    BY <1>1, <1>2
  <2>4. QED
    BY <1>1, <1>2, <1>5, <2>1, <2>2, <2>3 DEF OldInv, OldConnections
<1>8. OldResults'
  BY <1>1, <1>3, <1>4, <1>5 DEF OldInv, OldResults
<1>9. OldBlacklist'
  <2> SUFFICES ASSUME NEW b \in 1..n, OldSpent(connections[b])
               PROVE  /\ connections[b].dev \in Range(scanner_results') /\ connections[b].dev \notin Range(connector_results')
                      /\ \A c \in 1..n : b < c => connections[b].dev # connections[c].dev
    BY <1>1, <1>2, <1>5 DEF OldBlacklist
  <2>1. /\ connections[b].dev \in Range(scanner_results) /\ connections[b].dev \notin Range(connector_results)
        /\ \A c \in 1..n : b < c => connections[b].dev # connections[c].dev
    BY <1>2 DEF OldInv, OldBlacklist
  <2>2. b # n
    BY <1>5 DEF OldSpent
  <2> HIDE DEF n
  <2>3. b < n
    BY <1>2, <2>2
  <2>4. connections[b].dev # r.dev /\ connections[b].dev \in BleDevices
    <3>1. connections[b] \in OldConnection
      BY OldRecords DEF n
    <3>2. QED
      BY <3>1, <2>1, <2>3, <1>2 DEF OldConnection
  <2>5. QED
    BY <2>1, <2>4, <1>3, <1>4
<1>10. QED
  BY <1>6, <1>7, <1>8, <1>9 DEF OldInv

\* connect_loop_activate
LEMMA OldActivate ==
    ASSUME OldInv, Old!connect_loop_activate
    PROVE  OldInv'
<1> DEFINE n == Len(connections)
           listed == Range(active_connections)
           closed == [c \in DOMAIN connections |->
                         IF c \in listed /\ connections[c].state = "ERROR"
                         THEN [connections[c] EXCEPT !.state = "CLOSED", !.loop = "quit"] ELSE connections[c]]
           deleted == {c \in listed : closed[c].state = "CLOSED"}
<1>1. /\ connector = "activate" /\ connector' = "restart" /\ active_connections' = <<n>>
      /\ connections' = [c \in DOMAIN connections |-> [closed[c] EXCEPT !.exists = @ /\ c \notin deleted]]
      /\ ble_process' \in {"terminated", ble_process}
      /\ scan_thread' = scan_thread /\ scanner_results' = scanner_results /\ delivering' = delivering /\ connector_results' = connector_results
  BY OldLibrary DEF Old!connect_loop_activate, Old!bleScanner
<1>2. /\ n \in Nat /\ DOMAIN connections = 1..n /\ n \in 1..n /\ OldTried(connections[n], "activate")
      /\ \A c \in 1..n : connections[c] \in OldConnection /\ OldFit(c, connections[c], n, "activate")
  BY <1>1, OldRecords DEF OldHolds, OldMade
<1>3. listed \subseteq 1..n /\ n \notin listed /\ \A c \in listed : connections[c].exists
  BY <1>1, <1>2, HeadInRange DEF OldInv, OldTypes, OldConnections, OldMade
<1> DEFINE was(c) == connections[c]
           is(c) == [closed[c] EXCEPT !.exists = @ /\ c \notin deleted]
<1>4. ASSUME NEW c \in 1..n
      PROVE  /\ is(c) \in OldConnection /\ is(c).dev = was(c).dev /\ is(c).refused = was(c).refused /\ is(c).waits = was(c).waits
             /\ is(c).state \in {was(c).state, "CLOSED"} /\ (is(c).state # was(c).state => was(c).state = "ERROR")
             /\ is(c).exists = (was(c).exists /\ c \notin deleted) /\ c \in DOMAIN connections
  <2>1. was(c) \in OldConnection /\ c \in DOMAIN connections
    BY <1>2
  <2>2. /\ closed[c] \in OldConnection /\ closed[c].dev = was(c).dev /\ closed[c].refused = was(c).refused /\ closed[c].waits = was(c).waits
        /\ closed[c].state \in {was(c).state, "CLOSED"} /\ (closed[c].state # was(c).state => was(c).state = "ERROR")
        /\ closed[c].exists = was(c).exists
    <3>1. CASE c \in listed /\ connections[c].state = "ERROR"
      <4>1. closed[c] = [connections[c] EXCEPT !.state = "CLOSED", !.loop = "quit"]
        BY <2>1, <3>1
      <4>2. QED
        BY <2>1, <3>1, <4>1 DEF OldConnection, Old!ConnectionState
    <3>2. CASE ~(c \in listed /\ connections[c].state = "ERROR")
      <4>1. closed[c] = connections[c]
        BY <2>1, <3>2
      <4>2. QED
        BY <2>1, <4>1
    <3>3. QED
      BY <3>1, <3>2
  <2> HIDE DEF closed, deleted, was
  <2>3. (closed[c].exists /\ c \notin deleted) \in BOOLEAN
    OBVIOUS
  <2>4. QED
    BY <2>1, <2>2, <2>3 DEF OldConnection
<1>5. connections' = [c \in 1..n |-> is(c)]
  BY <1>1, <1>2
<1>6. n \notin deleted /\ deleted \subseteq listed
  BY <1>3
<1> HIDE DEF n, is, closed, deleted, listed
<1>7. connections' \in Seq(OldConnection) /\ Len(connections') = n /\ DOMAIN connections' = 1..n /\ \A c \in 1..n : connections'[c] = is(c)
  <2>1. connections' \in [1..n -> OldConnection]
    BY <1>4, <1>5
  <2>2. connections' \in Seq(OldConnection)
    BY <2>1, <1>2
  <2>3. QED
    BY <2>1, <2>2, <1>2, <1>5, LenProperties
<1>8. <<n>> \in Seq(1..n) /\ Range(<<n>>) = {n}
  <2>1. <<n>> \in Seq(1..n)
    BY <1>2
  <2>2. DOMAIN <<n>> = 1..1 /\ <<n>>[1] = n
    OBVIOUS
  <2>3. QED
    BY <2>1, <2>2 DEF Range
<1>9. scan_thread \in {"none", "ended"}
  BY <1>1 DEF OldInv, OldResults, OldHolds, OldMade
<1>10. OldTypes'
  BY <1>1, <1>7, <1>8 DEF OldInv, OldTypes, OldHolds
<1>11. OldConnections'
  <2>1. ASSUME NEW c \in 1..n PROVE OldFit(c, connections'[c], n, "restart")
    <3>1. OldFit(c, was(c), n, "activate")
      BY <1>2
    <3>2. /\ connections'[c].refused = was(c).refused /\ connections'[c].waits = was(c).waits
          /\ connections'[c].state \in {was(c).state, "CLOSED"} /\ (connections'[c].state # was(c).state => was(c).state = "ERROR")
          /\ (connections'[c].exists => was(c).exists)
      BY <1>4, <1>7
    <3> HIDE DEF was
    <3>3. QED
      BY <3>1, <3>2 DEF OldFit
  <2>2. OldTried(connections[Len(connections)], connector)'
    BY <1>1 DEF OldTried, OldTrying, OldMade
  <2>3. connections' # <<>> /\ connector' \notin OldMade
    BY <1>1, <1>2, <1>7 DEF OldMade, OldTrying
  <2>4. connections'[n].exists
    BY <1>2, <1>4, <1>6, <1>7 DEF OldTried, OldMade
  <2>5. QED
    BY <2>1, <2>2, <2>3, <2>4, <1>1, <1>7, <1>8 DEF OldConnections
<1>12. OldResults'
  BY <1>1, <1>9 DEF OldInv, OldResults
<1>13. OldBlacklist'
  <2>1. \A c \in 1..n : connections'[c].dev = connections[c].dev
    BY <1>4, <1>7
  <2>2. ASSUME NEW b \in 1..n, OldSpent(connections'[b]) PROVE OldSpent(connections[b])
    <3>1. connections[b].refused /\ (~connections[b].exists \/ b \in deleted)
      BY <2>2, <1>4, <1>7 DEF OldSpent
    <3>2. ~(connections[b].refused /\ connections[b].exists)
      BY <1>2 DEF OldFit
    <3>3. QED
      BY <3>1, <3>2 DEF OldSpent
  <2>3. QED
    <3>1. \A b \in 1..n : OldSpent(connections[b]) =>
              /\ connections[b].dev \in Range(scanner_results) /\ connections[b].dev \notin Range(connector_results)
              /\ \A c \in 1..n : b < c => connections[b].dev # connections[c].dev
      BY <1>2 DEF OldInv, OldBlacklist
    <3>2. scan_thread' # "delivers" /\ scanner_results' = scanner_results /\ connector_results' = connector_results
      BY <1>1, <1>9
    <3>3. \A b \in 1..n : OldSpent(connections'[b]) =>
              /\ connections'[b].dev \in Range(scanner_results) /\ connections'[b].dev \notin Range(connector_results)
              /\ \A c \in 1..n : b < c => connections'[b].dev # connections'[c].dev
      BY <3>1, <2>1, <2>2
    <3>4. QED
      BY <3>2, <3>3, <1>7 DEF OldBlacklist
<1>14. QED
  BY <1>10, <1>11, <1>12, <1>13 DEF OldInv

\* A connection gets another record, and nothing else moves.
LEMMA OldReplaced ==
    ASSUME OldInv, NEW c \in DOMAIN connections, NEW x \in OldConnection, connections' = [connections EXCEPT ![c] = x],
           Old!CallbackOnly, x.dev = connections[c].dev, x.exists = connections[c].exists,
           OldSpent(x) => OldSpent(connections[c]), OldFit(c, x, Len(connections), connector),
           connector = "connect" /\ x.state = "DISCONNECTED" => x.waits = "none"
    PROVE  OldInv'
<1>1. /\ connector' = connector
      /\ UNCHANGED <<ble_process, scan_thread, scanner_results, delivering, connector_results, active_connections>>
  BY DEF Old!CallbackOnly, Old!bleScanner
<1>2. c = Len(connections) => OldTried(x, connector')
  BY <1>1, OldRecords DEF OldTried, OldHolds, OldMade
<1>3. OldChange(c, x)
  BY <1>1, <1>2 DEF OldChange
<1>4. QED
  BY <1>3, OldChanged

\* The callbacks of a connection.
LEMMA OldCallbacks ==
    ASSUME OldInv, NEW c \in DOMAIN connections,
           Old!connect_cb(c) \/ Old!check_characteristic_descriptors(c) \/ Old!cmd_read_tx_buffer_cb(c)
           \/ Old!char_write_req_raw_cb(c) \/ Old!channel_watcher(c)
    PROVE  OldInv'
<1> DEFINE r == connections[c]
           n == Len(connections)
<1>1. r \in OldConnection /\ OldFit(c, r, n, connector)
  BY OldRecords
<1>2. ASSUME NEW state \in Old!ConnectionState, Old!Becomes(c, state), Old!CallbackOnly, ~r.refused
      PROVE  OldInv'
  <2> DEFINE x == [r EXCEPT !.state = state, !.waits = "none"]
  <2>1. connections' = [connections EXCEPT ![c] = x]
    BY <1>2 DEF Old!Becomes
  <2>2. x \in OldConnection /\ x.dev = r.dev /\ x.exists = r.exists /\ x.refused = r.refused /\ x.waits = "none" /\ x.state = state
    BY <1>1 DEF OldConnection
  <2> HIDE DEF x, n
  <2>3. OldFit(c, x, n, connector) /\ ~OldSpent(x)
    BY <2>2, <1>2 DEF OldFit, OldSpent
  <2>4. QED
    BY <2>1, <2>2, <2>3, <1>2, OldReplaced DEF n
<1>3. CASE Old!connect_cb(c)
  <2>1. r.waits = "connect" /\ r.exists /\ Old!CallbackOnly
    BY <1>3 DEF Old!connect_cb, Old!Called
  <2>2. ~r.refused /\ c = n /\ connector \in {"connecting", "connect"}
    BY <1>1, <2>1 DEF OldFit
  <2>3. CASE Old!Becomes(c, "CONNECTED")
    <3>1. "CONNECTED" \in Old!ConnectionState
      BY DEF Old!ConnectionState
    <3>2. QED
      BY <1>2, <2>1, <2>2, <2>3, <3>1
  <2>4. ASSUME NEW refused \in BOOLEAN,
               connections' = [connections EXCEPT ![c].state = "ERROR", ![c].waits = "none", ![c].refused = refused]
        PROVE  OldInv'
    <3> DEFINE x == [r EXCEPT !.state = "ERROR", !.waits = "none", !.refused = refused]
    <3>1. connections' = [connections EXCEPT ![c] = x]
      BY <2>4
    <3>2. x \in OldConnection /\ x.dev = r.dev /\ x.exists = r.exists /\ x.waits = "none" /\ x.state = "ERROR"
      BY <1>1 DEF OldConnection, Old!ConnectionState
    <3> HIDE DEF x, n
    <3>3. OldFit(c, x, n, connector) /\ ~OldSpent(x)
      BY <2>1, <2>2, <3>2 DEF OldFit, OldSpent
    <3>4. QED
      BY <3>1, <3>2, <3>3, <2>1, OldReplaced DEF n
  <2>5. QED
    BY <2>3, <2>4, <1>3 DEF Old!connect_cb
<1>4. CASE Old!check_characteristic_descriptors(c) \/ Old!cmd_read_tx_buffer_cb(c) \/ Old!char_write_req_raw_cb(c)
  <2>1. r.waits \in {"descriptors", "read", "write"} /\ Old!CallbackOnly
    BY <1>4 DEF Old!check_characteristic_descriptors, Old!cmd_read_tx_buffer_cb, Old!char_write_req_raw_cb, Old!Called
  <2>2. ~r.refused
    BY <1>1, <2>1 DEF OldFit
  <2>3. \E state \in {"HANDLE_READY", "TX_VALUE_SAVED", "NUS_READY", "ERROR", r.state} : Old!Becomes(c, state)
    BY <1>4 DEF Old!check_characteristic_descriptors, Old!cmd_read_tx_buffer_cb, Old!char_write_req_raw_cb
  <2>4. {"HANDLE_READY", "TX_VALUE_SAVED", "NUS_READY", "ERROR", r.state} \subseteq Old!ConnectionState
    BY <1>1 DEF Old!ConnectionState, OldConnection
  <2>5. QED
    BY <1>2, <2>1, <2>2, <2>3, <2>4
<1>5. CASE Old!channel_watcher(c)
  <2> DEFINE x == [r EXCEPT !.state = "CLOSED", !.waits = "none", !.io = "released"]
  <2>1. connections' = [connections EXCEPT ![c] = x] /\ Old!CallbackOnly /\ r.exists
    BY <1>5 DEF Old!channel_watcher
  <2>2. x \in OldConnection /\ x.dev = r.dev /\ x.exists = r.exists /\ x.refused = r.refused /\ x.waits = "none" /\ x.state = "CLOSED"
    BY <1>1 DEF OldConnection, Old!ConnectionState
  <2> HIDE DEF x, n
  <2>3. OldFit(c, x, n, connector) /\ ~OldSpent(x)
    BY <2>1, <2>2, <1>1 DEF OldFit, OldSpent
  <2>4. QED
    BY <2>1, <2>2, <2>3, OldReplaced DEF n
<1>6. QED
  BY <1>3, <1>4, <1>5

\* send and close
LEMMA OldSends ==
    ASSUME OldInv, NEW d \in BleDevices, Old!send(d) \/ Old!close(d)
    PROVE  OldInv'
<1> DEFINE S == {c \in DOMAIN connections : connections[c].dev = d}
           n == Len(connections)
           h == Head(Old!Active(d))
           r == connections[h]
<1>1. Old!Active(d) = Filter(active_connections, S) /\ Old!Active(d) # <<>> /\ Old!CallbackOnly
  BY OldLibrary DEF Old!send, Old!close, Old!Active
<1>2. h \in DOMAIN connections
  <2> DEFINE D == DOMAIN connections
             q == active_connections
  <2>1. q \in Seq(D)
    BY DEF OldInv, OldTypes
  <2> HIDE DEF D, q, S
  <2>2. Filter(q, S) \in Seq(D)
    BY <2>1, FilterRange
  <2>3. Filter(q, S) # <<>> => Head(Filter(q, S)) \in D
    BY <2>2, HeadInRange
  <2>4. QED
    BY <1>1, <2>3 DEF D, q
<1>3. r \in OldConnection /\ OldFit(h, r, n, connector)
  BY <1>2, OldRecords
<1>4. CASE Old!send(d)
  <2> DEFINE x == [r EXCEPT !.waits = "write"]
  <2>1. connections' = [connections EXCEPT ![h] = x] /\ r.state = "NUS_READY"
    BY <1>4 DEF Old!send
  <2> HIDE DEF h, n
  <2>2. x \in OldConnection /\ x.dev = r.dev /\ x.exists = r.exists /\ x.refused = r.refused /\ x.waits = "write" /\ x.state = "NUS_READY"
    BY <1>3, <2>1 DEF OldConnection
  <2> HIDE DEF x
  <2>3. OldFit(h, x, n, connector) /\ ~OldSpent(x)
    BY <2>1, <2>2, <1>3 DEF OldFit, OldSpent
  <2>4. QED
    BY <2>1, <2>2, <2>3, <1>1, <1>2, OldReplaced DEF n
<1>5. CASE Old!close(d)
  <2> DEFINE x == [r EXCEPT !.state = "CLOSED", !.loop = "quit"]
  <2>1. connections' = [connections EXCEPT ![h] = x] /\ r.state = "ERROR"
    BY <1>5 DEF Old!close
  <2> HIDE DEF h, n
  <2>2. x \in OldConnection /\ x.dev = r.dev /\ x.exists = r.exists /\ x.refused = r.refused /\ x.waits = r.waits /\ x.state = "CLOSED"
    BY <1>3, <2>1 DEF OldConnection, Old!ConnectionState
  <2> HIDE DEF x
  <2>3. OldFit(h, x, n, connector) /\ (OldSpent(x) => OldSpent(r))
    BY <2>1, <2>2, <1>3 DEF OldFit, OldSpent
  <2>4. QED
    BY <2>1, <2>2, <2>3, <1>1, <1>2, OldReplaced DEF n
<1>6. QED
  BY <1>4, <1>5

\* The observer of the connection that is made.
LEMMA OldObserver ==
    ASSUME OldInv, Old!connect_loop_connected \/ Old!observe_end \/ Old!cmd_connect \/ Old!cmd_connect_pending
                   \/ Old!cmd_check_characteristic_descriptors \/ Old!cmd_read_tx_buffer \/ Old!cmd_write_tx_notify_hnd
                   \/ Old!cmd_write_tx_notify_hnd_sent \/ Old!cmd_set_nus_ready
    PROVE  OldInv'
<1> DEFINE n == Len(connections)
           r == connections[n]
<1>1. UNCHANGED <<ble_process, scan_thread, scanner_results, delivering, connector_results, active_connections>>
  BY DEF Old!connect_loop_connected, Old!observe_end, Old!cmd_connect, Old!cmd_connect_pending,
         Old!cmd_check_characteristic_descriptors, Old!cmd_read_tx_buffer, Old!cmd_write_tx_notify_hnd,
         Old!cmd_write_tx_notify_hnd_sent, Old!cmd_set_nus_ready, Old!ObserverOnly, Old!bleScanner
<1>2. connector \in {"connect", "connecting", "command", "connected"}
  BY DEF Old!connect_loop_connected, Old!observe_end, Old!cmd_connect, Old!cmd_connect_pending,
         Old!cmd_check_characteristic_descriptors, Old!cmd_read_tx_buffer, Old!cmd_write_tx_notify_hnd,
         Old!cmd_write_tx_notify_hnd_sent, Old!cmd_set_nus_ready, Old!Observes
<1>3. n \in DOMAIN connections /\ r \in OldConnection /\ OldFit(n, r, n, connector) /\ OldTried(r, connector) /\ connections \in Seq(OldConnection)
  BY <1>2, OldRecords DEF OldHolds, OldMade, OldTrying, OldInv, OldTypes
<1>4. r.exists /\ r.dev \in Range(scanner_results)
  BY <1>2, <1>3 DEF OldTried, OldMade, OldTrying
<1>5. ASSUME NEW x \in OldConnection, connections' = [connections EXCEPT ![n] = x], x.dev = r.dev, x.exists = r.exists,
             connector' \in OldTrying \cup {"remove"}, OldFit(n, x, n, connector'),
             connector' = "connect" /\ x.state = "DISCONNECTED" => x.waits = "none"
      PROVE  OldInv'
  <2>1. connector \in OldMade /\ connector' \in OldMade
    BY <1>2, <1>5 DEF OldMade, OldTrying
  <2>2. OldTried(x, connector') /\ ~OldSpent(x)
    BY <1>4, <1>5 DEF OldTried, OldSpent
  <2>3. OldChange(n, x)
    BY <1>1, <1>3, <1>5, <2>1, <2>2 DEF OldChange
  <2>4. QED
    BY <2>3, OldChanged
<1>6. connections = [connections EXCEPT ![n] = r]
  BY <1>3
<1>7. CASE Old!connect_loop_connected
  <2>1. connector = "connected" /\ connections' = connections
        /\ connector' = IF r.refused /\ r.state # "NUS_READY" THEN "refused" ELSE "remove"
    BY <1>7, OldLibrary DEF Old!connect_loop_connected
  <2> HIDE DEF n, r
  <2>2. OldFit(n, r, n, connector') /\ connector' # "connect"
    BY <2>1, <1>3 DEF OldFit
  <2>3. QED
    BY <2>1, <2>2, <1>3, <1>5, <1>6 DEF OldTrying
<1>8. CASE Old!observe_end
  <2>1. connector = "connect" /\ r.state \in {"CLOSED", "ERROR"} /\ connections' = connections /\ connector' = "connected"
    BY <1>8, OldLibrary DEF Old!observe_end, Old!Observes
  <2> HIDE DEF n, r
  <2>2. OldFit(n, r, n, connector')
    BY <2>1, <1>3 DEF OldFit
  <2>3. QED
    BY <2>1, <2>2, <1>3, <1>5, <1>6 DEF OldTrying
<1>9. CASE Old!cmd_connect
  <2>1. connector = "connect" /\ r.state = "DISCONNECTED" /\ r.waits = "none" /\ ~r.refused
    BY <1>9, <1>3, OldLibrary DEF Old!cmd_connect, Old!Observes, OldFit, OldTried
  <2>2. CASE connections' = [connections EXCEPT ![n].state = "ERROR"] /\ connector' = connector
    <3> DEFINE x == [r EXCEPT !.state = "ERROR"]
    <3>1. connections' = [connections EXCEPT ![n] = x]
      BY <2>2
    <3> HIDE DEF n, r
    <3>2. x \in OldConnection /\ x.dev = r.dev /\ x.exists = r.exists /\ x.refused = r.refused /\ x.waits = r.waits /\ x.state = "ERROR"
      BY <1>3 DEF OldConnection, Old!ConnectionState
    <3> HIDE DEF x
    <3>3. OldFit(n, x, n, connector')
      BY <2>1, <3>2 DEF OldFit
    <3>4. QED
      BY <2>1, <2>2, <3>1, <3>2, <3>3, <1>5 DEF OldTrying
  <2>3. CASE connections' = [connections EXCEPT ![n].io = "open", ![n].waits = "connect"] /\ connector' = "connecting"
    <3> DEFINE x == [r EXCEPT !.io = "open", !.waits = "connect"]
    <3>1. connections' = [connections EXCEPT ![n] = x]
      BY <2>3
    <3> HIDE DEF n, r
    <3>2. x \in OldConnection /\ x.dev = r.dev /\ x.exists = r.exists /\ x.refused = r.refused /\ x.state = r.state
      BY <1>3 DEF OldConnection
    <3> HIDE DEF x
    <3>3. OldFit(n, x, n, connector')
      BY <2>1, <2>3, <3>2 DEF OldFit
    <3>4. QED
      BY <2>1, <2>3, <3>1, <3>2, <3>3, <1>5 DEF OldTrying
  <2>4. QED
    BY <2>2, <2>3, <1>9, OldLibrary DEF Old!cmd_connect, Old!setState
<1>10. CASE Old!cmd_connect_pending
  <2> DEFINE x == [r EXCEPT !.state = "PENDING_CHANGE"]
  <2>1. connector = "connecting" /\ connector' = "connect" /\ connections' = [connections EXCEPT ![n] = x]
    BY <1>10, OldLibrary DEF Old!cmd_connect_pending, Old!setState
  <2> HIDE DEF n, r
  <2>2. x \in OldConnection /\ x.dev = r.dev /\ x.exists = r.exists /\ x.refused = r.refused /\ x.waits = r.waits /\ x.state = "PENDING_CHANGE"
    BY <1>3 DEF OldConnection, Old!ConnectionState
  <2> HIDE DEF x
  <2>3. OldFit(n, x, n, connector')
    BY <2>1, <2>2, <1>3 DEF OldFit
  <2>4. QED
    BY <2>1, <2>2, <2>3, <1>5 DEF OldTrying
<1>11. CASE Old!cmd_check_characteristic_descriptors \/ Old!cmd_read_tx_buffer
  <2>1. PICK w \in {"descriptors", "read"} :
            /\ connector = "connect" /\ connector' = connector /\ r.state \in {"CONNECTED", "HANDLE_READY"}
            /\ connections' = [connections EXCEPT ![n].state = "PENDING_CHANGE", ![n].waits = w]
    BY <1>11, OldLibrary DEF Old!cmd_check_characteristic_descriptors, Old!cmd_read_tx_buffer, Old!Observes
  <2> DEFINE x == [r EXCEPT !.state = "PENDING_CHANGE", !.waits = w]
  <2>2. connections' = [connections EXCEPT ![n] = x]
    BY <2>1
  <2> HIDE DEF n, r
  <2>3. x \in OldConnection /\ x.dev = r.dev /\ x.exists = r.exists /\ x.refused = r.refused /\ x.waits = w /\ x.state = "PENDING_CHANGE"
    BY <1>3 DEF OldConnection, Old!ConnectionState
  <2> HIDE DEF x
  <2>4. OldFit(n, x, n, connector')
    BY <2>1, <2>3, <1>3 DEF OldFit
  <2>5. QED
    BY <2>1, <2>2, <2>3, <2>4, <1>5 DEF OldTrying
<1>12. CASE Old!cmd_write_tx_notify_hnd
  <2>1. connector = "connect" /\ r.state = "TX_VALUE_SAVED" /\ connections' = connections /\ connector' = "command"
    BY <1>12, OldLibrary DEF Old!cmd_write_tx_notify_hnd, Old!Observes
  <2> HIDE DEF n, r
  <2>2. OldFit(n, r, n, connector')
    BY <2>1, <1>3 DEF OldFit
  <2>3. QED
    BY <2>1, <2>2, <1>3, <1>5, <1>6 DEF OldTrying
<1>13. CASE Old!cmd_write_tx_notify_hnd_sent \/ Old!cmd_set_nus_ready
  <2>1. PICK s \in {"RX_NOTIFY_ENABLED", "NUS_READY"} :
            /\ connections' = [connections EXCEPT ![n].state = s] /\ connector' \in {"connect", "connected"}
            /\ connector = "command" \/ (connector = "connect" /\ r.state = "RX_NOTIFY_ENABLED")
    BY <1>13, OldLibrary DEF Old!cmd_write_tx_notify_hnd_sent, Old!cmd_set_nus_ready, Old!setState, Old!Observes
  <2> DEFINE x == [r EXCEPT !.state = s]
  <2>2. connections' = [connections EXCEPT ![n] = x]
    BY <2>1
  <2> HIDE DEF n, r
  <2>3. x \in OldConnection /\ x.dev = r.dev /\ x.exists = r.exists /\ x.refused = r.refused /\ x.waits = r.waits /\ x.state = s
    BY <1>3 DEF OldConnection, Old!ConnectionState
  <2> HIDE DEF x
  <2>4. ~r.refused /\ r.waits # "connect"
    BY <2>1, <1>3, <1>4 DEF OldFit
  <2>5. OldFit(n, x, n, connector')
    BY <2>1, <2>3, <2>4 DEF OldFit
  <2>6. QED
    BY <2>1, <2>2, <2>3, <2>5, <1>5 DEF OldTrying
<1>14. QED
  BY <1>7, <1>8, <1>9, <1>10, <1>11, <1>12, <1>13

\* Every step keeps the invariant.
LEMMA OldNext ==
    ASSUME OldInv, Old!Next \/ UNCHANGED bleOldVars
    PROVE  OldInv'
<1>1. CASE UNCHANGED bleOldVars
  BY <1>1 DEF bleOldVars, OldInv, OldTypes, OldConnections, OldResults, OldBlacklist, OldTried
<1>2. CASE Old!Next
  BY <1>2, OldQuietSteps, OldAdvertised, OldReceive, OldConnect, OldRefused, OldRemove, OldActivate, OldCallbacks,
     OldSends, OldObserver DEF Old!Next
<1>3. QED
  BY <1>1, <1>2

\* The first state.
LEMMA OldStart == Old!Init => OldInv
<1> SUFFICES ASSUME Old!Init PROVE OldInv
  OBVIOUS
<1>1. /\ ble_process = "up" /\ scan_thread = "started" /\ scanner_results = <<>> /\ connector = "idle"
      /\ connector_results = <<>> /\ connections = <<>> /\ active_connections = <<>>
  BY DEF Old!Init
<1>2. connector \notin OldHolds /\ connector \notin OldMade
  BY <1>1 DEF OldHolds, OldMade, OldTrying
<1>3. DOMAIN connections = {} /\ Range(active_connections) = {} /\ Range(connector_results) = {} /\ Range(scanner_results) = {}
  BY <1>1 DEF Range
<1>4. <<>> \in Seq(BleDevices) /\ <<>> \in Seq(OldConnection) /\ <<>> \in Seq(DOMAIN connections)
  OBVIOUS
<1>5. IsInjective(connector_results) /\ IsInjective(scanner_results)
  BY <1>1 DEF IsInjective
<1>6. QED
  BY <1>1, <1>2, <1>3, <1>4, <1>5 DEF OldInv, OldTypes, OldConnections, OldResults, OldBlacklist

\* What the invariant means.
LEMMA OldCorrect ==
    ASSUME OldInv
    PROVE  Old!TypeOK /\ Old!NoDeadlock /\ Old!ResultsLive /\ Old!RefusedOnce
<1>1. Old!TypeOK
  <2>1. Range(connector_results) \subseteq BleDevices /\ Range(scanner_results) \subseteq BleDevices
    BY HeadInRange DEF OldInv, OldTypes
  <2>2. \A c \in DOMAIN connections : connections[c].state \in Old!ConnectionState
    BY OldRecords DEF OldConnection
  <2>3. QED
    BY <2>1, <2>2, OldLibrary DEF Old!TypeOK, OldInv, OldTypes
<1>2. Old!NoDeadlock
  BY DEF Old!NoDeadlock, Old!HoldsResults, OldInv, OldResults, OldHolds, OldMade, OldTrying
<1>3. Old!ResultsLive
  <2>1. \A i \in DOMAIN active_connections : active_connections[i] \in Range(active_connections)
    BY DEF Range
  <2>2. QED
    BY <2>1, OldLibrary DEF Old!ResultsLive, OldInv, OldResults, OldConnections
<1>4. Old!RefusedOnce
  BY DEF Old!RefusedOnce, OldInv, OldBlacklist, OldSpent
<1>5. QED
  BY <1>1, <1>2, <1>3, <1>4

-----------------------------------------------------------------------------
(* BtIo *)

\* What the user of a channel was called with.
IoNone      == <<>>
IoDropped   == <<"destroy">>
IoConnected == <<"connected", "destroy">>
IoFailed    == <<"error", "destroy">>
IoCalls   == {IoNone, IoDropped, IoConnected, IoFailed}
IoSettled == {"connected", "failed", "hup"}
IoChannel == [watch : {"none", "connect", "server", "accept"}, held : BOOLEAN, open : BOOLEAN, fd : 0..MaxChannels,
              socket : {"none", "pending", "listening", "deferred"} \cup IoSettled, waiting : Nat, calls : IoCalls, aborted : BOOLEAN]

\* An open socket is somebody's; a watch has not called yet, and was given up if its socket is closed.
IoFit(r, reused) ==
    /\ r.open => r.fd # 0 /\ r.socket # "none" /\ ~r.aborted /\ (r.held \/ r.watch # "none")
    /\ r.watch # "none" => r.calls = IoNone /\ r.fd # 0 /\ (~r.open => r.aborted)
    /\ r.calls = IoDropped => r.aborted
    /\ ~reused => /\ r.aborted => r.calls \in {IoNone, IoDropped}
                  /\ r.calls = IoConnected => r.socket \in {"connected", "hup"}
                  /\ r.calls = IoFailed => r.socket \in {"failed", "hup"}

\* A watch that is to be called is there, and its socket is closed or settled.
IoReady(e, r) ==
    /\ r.watch # "none" /\ (e[2] => ~r.open)
    /\ r.watch # "server" /\ r.open => r.socket \in IoSettled

\* The descriptors: no two open sockets share one, and, unless that is known, none has that of
\* a closed one that is still watched.  The channels are used one after the other.
IoNumbers ==
    /\ \A c, d \in BtIo!Channels : channels[c].open /\ channels[d].open /\ channels[c].fd = channels[d].fd => c = d
    /\ ~bt_reused => \A c, d \in BtIo!Channels :
                        channels[c].watch # "none" /\ ~channels[c].open /\ channels[d].open => channels[c].fd # channels[d].fd
    /\ \E m \in 0..MaxChannels : \A c \in BtIo!Channels : channels[c].fd # 0 <=> c <= m

IoWatches ==
    /\ bt_ready \subseteq BtIo!Channels \X BOOLEAN /\ \A e, f \in bt_ready : e[1] = f[1] => e = f
    /\ \A e \in bt_ready : IoReady(e, channels[e[1]])

IoInv ==
    /\ channels \in [BtIo!Channels -> IoChannel] /\ bt_reused \in BOOLEAN
    /\ \A c \in BtIo!Channels : IoFit(channels[c], bt_reused)
    /\ IoNumbers /\ IoWatches

\* The bounds, and the library's operators mean the same in every part.
LEMMA IoLibrary ==
    /\ MaxChannels \in Nat /\ MaxWaiting \in Nat /\ BtIo!Channels = 1..MaxChannels
    /\ \A S : BtIo!Cardinality(S) = Cardinality(S)
<1>1. \A S : BtIo!Cardinality(S) = Cardinality(S)
  BY Zenon DEF Cardinality, BtIo!Cardinality
<1>2. QED
  BY <1>1, ConstantsAssumption DEF BtIo!ConstantsOK, BtIo!Channels

\* The calls differ.
LEMMA IoCallsDiffer ==
    /\ IoNone # IoDropped /\ IoNone # IoConnected /\ IoNone # IoFailed
    /\ IoDropped # IoConnected /\ IoDropped # IoFailed /\ IoConnected # IoFailed
<1>1. Len(IoNone) = 0 /\ Len(IoDropped) = 1 /\ Len(IoConnected) = 2 /\ Len(IoFailed) = 2
  BY DEF IoNone, IoDropped, IoConnected, IoFailed
<1>2. IoConnected[1] = "connected" /\ IoFailed[1] = "error"
  BY DEF IoConnected, IoFailed
<1>3. QED
  BY <1>1, <1>2

\* The next channel has not been used.
LEMMA IoNew ==
    ASSUME IoInv, BtIo!New \in BtIo!Channels
    PROVE  \E m \in Nat : /\ BtIo!New = m + 1 /\ m + 1 \in 1..MaxChannels
                          /\ \A c \in BtIo!Channels : channels[c].fd # 0 <=> c <= m
<1>1. PICK m \in 0..MaxChannels : \A c \in BtIo!Channels : channels[c].fd # 0 <=> c <= m
  BY DEF IoInv, IoNumbers
<1>2. m \in Nat /\ {c \in BtIo!Channels : channels[c].fd # 0} = 1..m
  BY <1>1, IoLibrary
<1>3. Cardinality(1..m) = m
  <2>1. 1 \in Int /\ m \in Int
    BY <1>2
  <2>2. Cardinality(1..m) = IF 1 > m THEN 0 ELSE m - 1 + 1
    BY <2>1, FS_Interval
  <2>3. (IF 1 > m THEN 0 ELSE m - 1 + 1) = m
    BY <1>2
  <2>4. QED
    BY <2>2, <2>3
<1>4. BtIo!New = m + 1
  <2>1. BtIo!New = 1 + BtIo!Cardinality(1..m)
    BY <1>2 DEF BtIo!New
  <2>2. BtIo!Cardinality(1..m) = m
    BY <1>3, IoLibrary
  <2>3. QED
    BY <1>2, <2>1, <2>2
<1>5. m + 1 \in 1..MaxChannels
  BY <1>4, IoLibrary
<1>6. QED
  BY <1>1, <1>2, <1>4, <1>5

\* The descriptor a socket gets is one that no open socket has.
LEMMA IoLowest ==
    ASSUME IoInv, BtIo!New \in BtIo!Channels
    PROVE  /\ BtIo!Lowest \in 1..MaxChannels
           /\ \A c \in BtIo!Channels : channels[c].open => channels[c].fd # BtIo!Lowest
<1> DEFINE fds == {channels[c].fd : c \in BtIo!Open}
           T == {n \in 1..MaxChannels : n \notin fds}
<1>1. PICK m \in Nat : m + 1 \in 1..MaxChannels /\ \A c \in BtIo!Channels : channels[c].fd # 0 <=> c <= m
  BY IoNew
<1>2. BtIo!Open \subseteq 1..m
  <2>1. \A c \in BtIo!Channels : channels[c].open => channels[c].fd # 0
    BY DEF IoInv, IoFit
  <2>2. QED
    BY <1>1, <2>1, IoLibrary DEF BtIo!Open
<1>3. IsFiniteSet(1..m) /\ Cardinality(1..m) = m
  <2>1. 1 \in Int /\ m \in Int
    OBVIOUS
  <2>2. IsFiniteSet(1..m) /\ Cardinality(1..m) = IF 1 > m THEN 0 ELSE m - 1 + 1
    BY <2>1, FS_Interval
  <2>3. (IF 1 > m THEN 0 ELSE m - 1 + 1) = m
    OBVIOUS
  <2>4. QED
    BY <2>2, <2>3
<1>4. IsFiniteSet(BtIo!Open) /\ Cardinality(BtIo!Open) <= m
  BY <1>2, <1>3, FS_Subset
<1>5. IsFiniteSet(fds) /\ Cardinality(fds) <= Cardinality(BtIo!Open)
  <2> DEFINE f == [c \in BtIo!Open |-> channels[c].fd]
  <2>1. f \in Surjection(BtIo!Open, fds)
    BY DEF Surjection
  <2>2. QED
    BY <1>4, <2>1, FS_Surjection
<1>6. Cardinality(fds) \in Nat /\ Cardinality(BtIo!Open) \in Nat
  BY <1>4, <1>5, FS_CardinalityType
<1>7. T # {}
  <2> SUFFICES ASSUME T = {} PROVE FALSE
    OBVIOUS
  <2>1. 1..MaxChannels \subseteq fds
    OBVIOUS
  <2>2. Cardinality(1..MaxChannels) <= Cardinality(fds)
    <3> HIDE DEF fds
    <3>1. 1..MaxChannels \in SUBSET fds
      BY <2>1
    <3>2. QED
      BY <3>1, <1>5, FS_Subset
  <2>3. Cardinality(1..MaxChannels) = MaxChannels
    <3>1. 1 \in Int /\ MaxChannels \in Int /\ MaxChannels \in Nat
      BY IoLibrary
    <3>2. Cardinality(1..MaxChannels) = IF 1 > MaxChannels THEN 0 ELSE MaxChannels - 1 + 1
      BY <3>1, FS_Interval
    <3>3. (IF 1 > MaxChannels THEN 0 ELSE MaxChannels - 1 + 1) = MaxChannels
      BY <3>1
    <3>4. QED
      BY <3>2, <3>3
  <2>4. QED
    BY <1>1, <1>4, <1>5, <1>6, <2>2, <2>3, IoLibrary
<1>8. PICK x \in T : \A y \in T : x <= y
  <2>1. T \subseteq Nat
    BY IoLibrary
  <2>2. QED
    BY <1>7, <2>1, LeastNumber
<1>9. x \in 1..MaxChannels /\ x \notin fds /\ \A n \in 1..x - 1 : n \in fds
  <2>1. ASSUME NEW n \in 1..x - 1 PROVE n \in fds
    <3>1. n \in 1..MaxChannels /\ ~(x <= n)
      BY <1>8, IoLibrary
    <3>2. QED
      BY <3>1, <1>8
  <2>2. QED
    BY <1>8, <2>1
<1>10. BtIo!Lowest = CHOOSE n \in 1..MaxChannels : n \notin fds /\ \A k \in 1..n - 1 : k \in fds
  BY DEF BtIo!Lowest
<1> HIDE DEF fds
<1>11. BtIo!Lowest \in 1..MaxChannels /\ BtIo!Lowest \notin fds
  BY <1>9, <1>10
<1>12. QED
  BY <1>11 DEF fds, BtIo!Open

\* One channel changes, and its number stays.
IoChange(c, x) ==
    /\ c \in BtIo!Channels /\ x \in IoChannel /\ channels' = [channels EXCEPT ![c] = x]
    /\ bt_reused' = bt_reused /\ bt_ready' \subseteq bt_ready
    /\ x.fd = channels[c].fd /\ (x.open => channels[c].open) /\ (x.watch # "none" => channels[c].watch # "none" \/ channels[c].open)
    /\ IoFit(x, bt_reused) /\ \A e \in bt_ready' : e[1] = c => IoReady(e, x)

\* The invariant is kept by such a step.
LEMMA IoChanged ==
    ASSUME IoInv, NEW c, NEW x, IoChange(c, x)
    PROVE  IoInv'
<1>1. /\ c \in BtIo!Channels /\ channels' \in [BtIo!Channels -> IoChannel] /\ channels'[c] = x
      /\ \A d \in BtIo!Channels : d # c => channels'[d] = channels[d]
  BY DEF IoInv, IoChange
<1>2. bt_reused' = bt_reused /\ bt_ready' \subseteq bt_ready /\ x.fd = channels[c].fd /\ (x.open => channels[c].open)
      /\ (x.watch # "none" => channels[c].watch # "none" \/ channels[c].open)
  BY DEF IoChange
<1>3. \A d \in BtIo!Channels : IoFit(channels'[d], bt_reused)
  BY <1>1 DEF IoInv, IoChange
<1>4. IoNumbers'
  <2>1. \A d \in BtIo!Channels : channels'[d].fd = channels[d].fd /\ (channels'[d].open => channels[d].open)
    BY <1>1, <1>2
  <2>2. \A a, b \in BtIo!Channels : channels'[a].open /\ channels'[b].open /\ channels'[a].fd = channels'[b].fd => a = b
    BY <2>1 DEF IoInv, IoNumbers
  <2>3. ASSUME ~bt_reused, NEW a \in BtIo!Channels, NEW b \in BtIo!Channels,
               channels'[a].watch # "none", ~channels'[a].open, channels'[b].open
        PROVE  channels'[a].fd # channels'[b].fd
    <3>1. channels[b].open /\ a # b /\ channels'[a].fd = channels[a].fd /\ channels'[b].fd = channels[b].fd
      BY <2>1, <2>3
    <3>2. channels[a].open => channels[a].fd # channels[b].fd
      BY <3>1 DEF IoInv, IoNumbers
    <3>3. channels[a].watch # "none" /\ ~channels[a].open => channels[a].fd # channels[b].fd
      BY <3>1, <2>3 DEF IoInv, IoNumbers
    <3>4. channels[a].watch # "none" \/ channels[a].open
      BY <2>3, <1>1, <1>2
    <3>5. QED
      BY <3>1, <3>2, <3>3, <3>4
  <2>4. \E m \in 0..MaxChannels : \A d \in BtIo!Channels : channels'[d].fd # 0 <=> d <= m
    BY <2>1 DEF IoInv, IoNumbers
  <2>5. QED
    BY <1>2, <2>2, <2>3, <2>4 DEF IoNumbers
<1>5. IoWatches'
  <2>1. ASSUME NEW e \in bt_ready' PROVE IoReady(e, channels'[e[1]])
    <3>1. e \in bt_ready /\ e[1] \in BtIo!Channels /\ IoReady(e, channels[e[1]])
      BY <1>2 DEF IoInv, IoWatches
    <3>2. CASE e[1] = c
      BY <3>2, <1>1 DEF IoChange
    <3>3. CASE e[1] # c
      BY <3>1, <3>3, <1>1
    <3>4. QED
      BY <3>2, <3>3
  <2>2. QED
    BY <1>2, <2>1 DEF IoInv, IoWatches
<1>6. QED
  BY <1>1, <1>2, <1>3, <1>4, <1>5 DEF IoInv

\* A channel is made; of the others at most the number of clients that wait at them changes.
IoAlike(x, r) ==
    /\ x.watch = r.watch /\ x.held = r.held /\ x.open = r.open /\ x.fd = r.fd /\ x.socket = r.socket
    /\ x.calls = r.calls /\ x.aborted = r.aborted
IoOpening(x) ==
    /\ BtIo!New \in BtIo!Channels /\ channels' \in [BtIo!Channels -> IoChannel] /\ channels'[BtIo!New] = x
    /\ \A d \in BtIo!Channels : d # BtIo!New => IoAlike(channels'[d], channels[d])
    /\ x.fd = BtIo!Lowest /\ x.calls = IoNone /\ ~x.aborted /\ x.socket # "none"
    /\ (x.open => x.held \/ x.watch # "none") /\ (~x.open => x.watch = "none")
    /\ bt_reused' = (bt_reused \/ BtIo!Reuses) /\ bt_ready' \subseteq bt_ready

\* The invariant is kept by such a step.
LEMMA IoOpened ==
    ASSUME IoInv, NEW x, IoOpening(x)
    PROVE  IoInv'
<1> DEFINE l == BtIo!Lowest
           k == BtIo!New
<1>1. /\ l \in 1..MaxChannels /\ l # 0 /\ MaxChannels \in Nat
      /\ \A c \in BtIo!Channels : channels[c].open => channels[c].fd # l
  <2>1. BtIo!New \in BtIo!Channels /\ MaxChannels \in Nat
    BY IoLibrary DEF IoOpening
  <2>2. l \in 1..MaxChannels /\ \A c \in BtIo!Channels : channels[c].open => channels[c].fd # l
    BY <2>1, IoLowest
  <2> HIDE DEF l
  <2>3. l # 0
    BY <2>1, <2>2
  <2>4. QED
    BY <2>1, <2>2, <2>3
<1>2. PICK m \in Nat : k = m + 1 /\ m + 1 \in 1..MaxChannels /\ \A c \in BtIo!Channels : channels[c].fd # 0 <=> c <= m
  BY IoNew DEF IoOpening
<1>3. /\ k \in BtIo!Channels /\ channels' \in [BtIo!Channels -> IoChannel] /\ channels'[k] = x
      /\ \A d \in BtIo!Channels : d # k => IoAlike(channels'[d], channels[d])
      /\ x.fd = l /\ x.calls = IoNone /\ ~x.aborted /\ x.socket # "none"
      /\ (x.open => x.held \/ x.watch # "none") /\ (~x.open => x.watch = "none")
      /\ bt_ready' \subseteq bt_ready
  BY DEF IoOpening
<1>4. bt_reused' \in BOOLEAN /\ (~bt_reused' => ~bt_reused /\ ~BtIo!Reuses)
  BY DEF IoOpening
<1> HIDE DEF l, k
<1>5. channels[k].fd = 0 /\ channels[k].watch = "none" /\ ~channels[k].open
  <2>1. channels[k].fd = 0
    <3>1. ~(k <= m)
      BY <1>2
    <3>2. QED
      BY <3>1, <1>2, <1>3
  <2>2. QED
    BY <2>1, <1>3 DEF IoInv, IoFit
<1>6. ASSUME NEW d \in BtIo!Channels PROVE IoFit(channels'[d], bt_reused')
  <2>1. CASE d = k
    BY <2>1, <1>1, <1>3, IoCallsDiffer DEF IoFit
  <2>2. CASE d # k
    <3>1. IoAlike(channels'[d], channels[d]) /\ IoFit(channels[d], bt_reused) /\ (~bt_reused' => ~bt_reused)
      BY <2>2, <1>3, <1>4 DEF IoInv
    <3>2. QED
      BY <3>1 DEF IoFit, IoAlike
  <2>3. QED
    BY <2>1, <2>2
<1>7. IoNumbers'
  <2>1. \A a, b \in BtIo!Channels : channels'[a].open /\ channels'[b].open /\ channels'[a].fd = channels'[b].fd => a = b
    <3> SUFFICES ASSUME NEW a \in BtIo!Channels, NEW b \in BtIo!Channels,
                        channels'[a].open, channels'[b].open, channels'[a].fd = channels'[b].fd
                 PROVE  a = b
      OBVIOUS
    <3>1. \A d \in BtIo!Channels : d # k => channels'[d].fd = channels[d].fd /\ channels'[d].open = channels[d].open
      BY <1>3 DEF IoAlike
    <3>2. CASE a = k \/ b = k
      BY <3>1, <3>2, <1>1, <1>3
    <3>3. CASE a # k /\ b # k
      BY <3>1, <3>3 DEF IoInv, IoNumbers
    <3>4. QED
      BY <3>2, <3>3
  <2>2. ASSUME ~bt_reused', NEW a \in BtIo!Channels, NEW b \in BtIo!Channels,
               channels'[a].watch # "none", ~channels'[a].open, channels'[b].open
        PROVE  channels'[a].fd # channels'[b].fd
    <3>1. a # k /\ IoAlike(channels'[a], channels[a])
      BY <2>2, <1>3
    <3>2. CASE b = k
      <4>1. ~(\E c \in BtIo!Channels : channels[c].watch # "none" /\ ~channels[c].open /\ channels[c].fd = l)
        BY <2>2, <1>4 DEF BtIo!Reuses, l
      <4>2. channels[a].fd # l
        BY <2>2, <3>1, <4>1 DEF IoAlike
      <4>3. QED
        BY <3>1, <3>2, <4>2, <1>3 DEF IoAlike
    <3>3. CASE b # k
      <4>1. IoAlike(channels'[b], channels[b]) /\ ~bt_reused
        BY <2>2, <3>3, <1>3, <1>4
      <4>2. channels[a].watch # "none" /\ ~channels[a].open /\ channels[b].open
        BY <2>2, <3>1, <4>1 DEF IoAlike
      <4>3. channels[a].fd # channels[b].fd
        BY <4>1, <4>2 DEF IoInv, IoNumbers
      <4>4. QED
        BY <3>1, <4>1, <4>3 DEF IoAlike
    <3>4. QED
      BY <3>2, <3>3
  <2>3. \A d \in BtIo!Channels : channels'[d].fd # 0 <=> d <= m + 1
    <3>1. ASSUME NEW d \in BtIo!Channels PROVE channels'[d].fd # 0 <=> d <= m + 1
      <4>1. d \in Int
        BY IoLibrary
      <4>2. CASE d = k
        <5>1. channels'[d].fd # 0
          BY <4>2, <1>1, <1>3
        <5>2. d <= m + 1
          BY <4>1, <4>2, <1>2
        <5>3. QED
          BY <5>1, <5>2
      <4>3. CASE d # k
        <5>1. channels'[d].fd = channels[d].fd
          BY <4>3, <1>3 DEF IoAlike
        <5>2. d <= m + 1 <=> d <= m
          BY <4>1, <4>3, <1>2
        <5>3. QED
          BY <5>1, <5>2, <1>2
      <4>4. QED
        BY <4>2, <4>3
    <3>2. QED
      BY <3>1
  <2>4. m + 1 \in 0..MaxChannels
    BY <1>1, <1>2
  <2>5. QED
    BY <2>1, <2>2, <2>3, <2>4 DEF IoNumbers
<1>8. IoWatches'
  <2>1. ASSUME NEW e \in bt_ready' PROVE IoReady(e, channels'[e[1]])
    <3>1. e \in bt_ready /\ e[1] \in BtIo!Channels /\ IoReady(e, channels[e[1]])
      BY <1>3 DEF IoInv, IoWatches
    <3>2. e[1] # k
      BY <3>1, <1>5 DEF IoReady
    <3>3. QED
      BY <3>1, <3>2, <1>3 DEF IoReady, IoAlike
  <2>2. QED
    BY <1>3, <2>1 DEF IoInv, IoWatches
<1>9. QED
  BY <1>3, <1>4, <1>6, <1>7, <1>8 DEF IoInv

\* A channel that is not used.
LEMMA IoUnused ==
    /\ BtIo!Unused \in IoChannel /\ BtIo!Unused.watch = "none" /\ BtIo!Unused.held = FALSE /\ BtIo!Unused.open = FALSE
    /\ BtIo!Unused.fd = 0 /\ BtIo!Unused.calls = IoNone /\ BtIo!Unused.aborted = FALSE
<1>1. 0 \in 0..MaxChannels /\ 0 \in Nat /\ IoNone \in IoCalls
  BY IoLibrary DEF IoCalls
<1>2. BtIo!Unused = [watch |-> "none", held |-> FALSE, open |-> FALSE, fd |-> 0, socket |-> "none", waiting |-> 0,
                     calls |-> IoNone, aborted |-> FALSE]
  BY Zenon DEF BtIo!Unused, IoNone
<1>3. BtIo!Unused \in IoChannel
  BY <1>1, <1>2 DEF IoChannel
<1>4. QED
  BY <1>2, <1>3

\* bt_io_connect and bt_io_listen
LEMMA IoOpens ==
    ASSUME IoInv, NEW watch \in {"connect", "server"}, NEW socket \in {"pending", "listening"}, BtIo!Opens(watch, socket)
    PROVE  IoInv'
<1> DEFINE l == BtIo!Lowest
           k == BtIo!New
           x == BtIo!Add(BtIo!create_io(socket), watch)
<1>1. k \in BtIo!Channels /\ channels' = [channels EXCEPT ![k] = x] /\ bt_reused' = (bt_reused \/ BtIo!Reuses) /\ bt_ready' = bt_ready
  BY DEF BtIo!Opens
<1>2. l \in 1..MaxChannels /\ MaxChannels \in Nat
  BY <1>1, IoLowest, IoLibrary
<1> HIDE DEF l, k
<1>4. /\ x \in IoChannel /\ x.fd = l /\ x.calls = IoNone /\ ~x.aborted /\ x.socket # "none" /\ x.open /\ x.held
  <2> DEFINE u == BtIo!Unused
             z == [u EXCEPT !.held = TRUE, !.open = TRUE, !.fd = l, !.socket = socket]
  <2>1. l \in 0..MaxChannels
    BY <1>2
  <2>2. u \in IoChannel /\ u.calls = IoNone /\ u.aborted = FALSE
    BY IoUnused
  <2>3. x = [z EXCEPT !.watch = watch]
    BY DEF BtIo!Add, BtIo!create_io, l
  <2> HIDE DEF u, x
  <2>4. z \in IoChannel /\ z.fd = l /\ z.calls = u.calls /\ z.aborted = u.aborted /\ z.socket = socket /\ z.open = TRUE /\ z.held = TRUE
    BY <2>1, <2>2 DEF IoChannel
  <2> HIDE DEF z
  <2>5. /\ x \in IoChannel /\ x.fd = z.fd /\ x.calls = z.calls /\ x.aborted = z.aborted /\ x.socket = z.socket
        /\ x.open = z.open /\ x.held = z.held
    BY <2>3, <2>4 DEF IoChannel
  <2>6. socket # "none"
    OBVIOUS
  <2>7. QED
    BY <2>2, <2>4, <2>5, <2>6
<1> HIDE DEF x
<1>5. channels' \in [BtIo!Channels -> IoChannel] /\ channels'[k] = x /\ \A d \in BtIo!Channels : d # k => channels'[d] = channels[d]
  BY <1>1, <1>4 DEF IoInv
<1>6. IoOpening(x)
  BY <1>1, <1>4, <1>5 DEF IoOpening, IoAlike, l, k
<1>7. QED
  BY <1>6, IoOpened

\* What becomes of a channel that may have lost its last reference.
LEMMA IoReleased ==
    ASSUME NEW r \in IoChannel
    PROVE  LET x == BtIo!Released(r) IN
           /\ x \in IoChannel /\ x.watch = r.watch /\ x.held = r.held /\ x.fd = r.fd /\ x.socket = r.socket
           /\ x.calls = r.calls /\ x.aborted = r.aborted /\ (x.open <=> r.open /\ (r.held \/ r.watch # "none"))
<1>1. CASE ~r.held /\ r.watch = "none"
  <2>1. BtIo!Released(r) = [r EXCEPT !.open = FALSE, !.waiting = 0]
    BY <1>1 DEF BtIo!Released
  <2> DEFINE x == [r EXCEPT !.open = FALSE, !.waiting = 0]
  <2>2. x \in IoChannel /\ x.watch = r.watch /\ x.held = r.held /\ x.fd = r.fd /\ x.socket = r.socket
        /\ x.calls = r.calls /\ x.aborted = r.aborted /\ x.open = FALSE
    BY DEF IoChannel
  <2> HIDE DEF x
  <2>3. BtIo!Released(r) = x
    BY <2>1 DEF x
  <2>4. QED
    BY <1>1, <2>2, <2>3
<1>2. CASE ~(~r.held /\ r.watch = "none")
  <2>1. BtIo!Released(r) = r
    BY <1>2 DEF BtIo!Released
  <2>2. QED
    BY <1>2, <2>1
<1>3. QED
  BY <1>1, <1>2

\* bt_io_accept, g_io_channel_shutdown, g_io_channel_unref and the peer
LEMMA IoUser ==
    ASSUME IoInv, NEW c \in BtIo!Channels,
           BtIo!bt_io_accept(c) \/ BtIo!g_io_channel_shutdown(c) \/ BtIo!g_io_channel_unref(c) \/ BtIo!peer(c)
    PROVE  IoInv'
<1> DEFINE r == channels[c]
<1>1. r \in IoChannel /\ IoFit(r, bt_reused)
  BY DEF IoInv
<1>2. bt_ready' = bt_ready /\ bt_reused' = bt_reused
  BY DEF BtIo!bt_io_accept, BtIo!g_io_channel_shutdown, BtIo!g_io_channel_unref, BtIo!peer
<1>3. \A e \in bt_ready : e[1] = c => IoReady(e, r)
  BY DEF IoInv, IoWatches
<1>4. CASE BtIo!bt_io_accept(c)
  <2> DEFINE x == [r EXCEPT !.socket = IF r.socket = "deferred" THEN "pending" ELSE r.socket, !.watch = "accept"]
  <2>1. r.open /\ r.watch = "none" /\ r.calls = IoNone /\ r.socket \in {"deferred", "hup"} /\ r.held
    BY <1>4 DEF BtIo!bt_io_accept, IoNone
  <2>2. channels' = [channels EXCEPT ![c] = x]
    <3> DEFINE y == [r EXCEPT !.socket = IF r.socket = "deferred" THEN "pending" ELSE r.socket]
    <3>1. channels' = [channels EXCEPT ![c] = BtIo!Add(y, "accept")]
      BY <1>4 DEF BtIo!bt_io_accept
    <3>2. BtIo!Add(y, "accept") = [y EXCEPT !.watch = "accept"]
      BY DEF BtIo!Add
    <3>3. [y EXCEPT !.watch = "accept"] = x
      BY <1>1 DEF IoChannel
    <3>4. QED
      BY <3>1, <3>2, <3>3
  <2>3. /\ x \in IoChannel /\ x.watch = "accept" /\ x.held = r.held /\ x.open = r.open /\ x.fd = r.fd /\ x.calls = r.calls
        /\ x.aborted = r.aborted /\ x.socket # "none"
    BY <1>1, <2>1 DEF IoChannel
  <2> HIDE DEF x
  <2>4. IoFit(x, bt_reused)
    BY <1>1, <2>1, <2>3, IoCallsDiffer DEF IoFit
  <2>5. \A e \in bt_ready : e[1] # c
    BY <1>3, <2>1 DEF IoReady
  <2>6. IoChange(c, x)
    BY <1>2, <2>1, <2>2, <2>3, <2>4, <2>5 DEF IoChange
  <2>7. QED
    BY <2>6, IoChanged
<1>5. CASE BtIo!g_io_channel_shutdown(c)
  <2> DEFINE x == [r EXCEPT !.open = FALSE, !.waiting = 0, !.aborted = r.aborted \/ r.watch # "none"]
  <2>1. r.open /\ channels' = [channels EXCEPT ![c] = x]
    BY <1>5 DEF BtIo!g_io_channel_shutdown
  <2>2. /\ x \in IoChannel /\ x.watch = r.watch /\ x.held = r.held /\ x.open = FALSE /\ x.fd = r.fd /\ x.calls = r.calls
        /\ x.aborted = (r.aborted \/ r.watch # "none") /\ x.socket = r.socket
    BY <1>1 DEF IoChannel
  <2> HIDE DEF x
  <2>3. IoFit(x, bt_reused)
    BY <1>1, <2>1, <2>2, IoCallsDiffer DEF IoFit
  <2>4. \A e \in bt_ready : e[1] = c => IoReady(e, x)
    BY <1>3, <2>2 DEF IoReady
  <2>5. IoChange(c, x)
    BY <1>2, <2>1, <2>2, <2>3, <2>4 DEF IoChange
  <2>6. QED
    BY <2>5, IoChanged
<1>6. CASE BtIo!g_io_channel_unref(c)
  <2> DEFINE y == [r EXCEPT !.held = FALSE]
             x == BtIo!Released(y)
  <2>1. channels' = [channels EXCEPT ![c] = x]
    BY <1>6 DEF BtIo!g_io_channel_unref
  <2>2. /\ y \in IoChannel /\ y.watch = r.watch /\ y.held = FALSE /\ y.open = r.open /\ y.fd = r.fd /\ y.calls = r.calls
        /\ y.aborted = r.aborted /\ y.socket = r.socket
    BY <1>1 DEF IoChannel
  <2> HIDE DEF y
  <2>3. /\ x \in IoChannel /\ x.watch = r.watch /\ x.held = FALSE /\ x.fd = r.fd /\ x.socket = r.socket
        /\ x.calls = r.calls /\ x.aborted = r.aborted /\ (x.open <=> r.open /\ r.watch # "none")
    BY <2>2, IoReleased
  <2> HIDE DEF x
  <2>4. IoFit(x, bt_reused)
    BY <1>1, <2>3 DEF IoFit
  <2>5. \A e \in bt_ready : e[1] = c => IoReady(e, x)
    BY <1>3, <2>3 DEF IoReady
  <2>6. IoChange(c, x)
    BY <1>2, <2>1, <2>3, <2>4, <2>5 DEF IoChange
  <2>7. QED
    BY <2>6, IoChanged
<1>7. CASE BtIo!peer(c)
  <2>1. r.open
    BY <1>7 DEF BtIo!peer
  <2>2. ASSUME NEW s \in IoSettled, channels' = [channels EXCEPT ![c].socket = s],
               (r.socket = "pending" /\ s # "hup") \/ (r.socket \in {"connected", "deferred"} /\ s = "hup")
        PROVE  IoInv'
    <3> DEFINE x == [r EXCEPT !.socket = s]
    <3>1. channels' = [channels EXCEPT ![c] = x]
      BY <2>2
    <3>2. /\ x \in IoChannel /\ x.watch = r.watch /\ x.held = r.held /\ x.open = r.open /\ x.fd = r.fd /\ x.calls = r.calls
          /\ x.aborted = r.aborted /\ x.socket = s
      BY <1>1 DEF IoChannel
    <3> HIDE DEF x
    <3>3. IoFit(x, bt_reused)
      BY <1>1, <2>2, <3>2 DEF IoFit, IoSettled
    <3>4. \A e \in bt_ready : e[1] = c => IoReady(e, x)
      BY <1>3, <3>2 DEF IoReady
    <3>5. IoChange(c, x)
      BY <1>2, <3>1, <3>2, <3>3, <3>4 DEF IoChange
    <3>6. QED
      BY <3>5, IoChanged
  <2>3. ASSUME NEW n \in Nat, channels' = [channels EXCEPT ![c].waiting = n]
        PROVE  IoInv'
    <3> DEFINE x == [r EXCEPT !.waiting = n]
    <3>1. channels' = [channels EXCEPT ![c] = x]
      BY <2>3
    <3>2. /\ x \in IoChannel /\ x.watch = r.watch /\ x.held = r.held /\ x.open = r.open /\ x.fd = r.fd /\ x.calls = r.calls
          /\ x.aborted = r.aborted /\ x.socket = r.socket
      BY <1>1 DEF IoChannel
    <3> HIDE DEF x
    <3>3. IoFit(x, bt_reused)
      BY <1>1, <3>2 DEF IoFit
    <3>4. \A e \in bt_ready : e[1] = c => IoReady(e, x)
      BY <1>3, <3>2 DEF IoReady
    <3>5. IoChange(c, x)
      BY <1>2, <3>1, <3>2, <3>3, <3>4 DEF IoChange
    <3>6. QED
      BY <3>5, IoChanged
  <2>4. \A n \in 0..MaxWaiting \ {r.waiting} : n \in Nat
    BY IoLibrary
  <2>5. CASE r.socket = "pending" /\ \E s \in {"connected", "failed"} : channels' = [channels EXCEPT ![c].socket = s]
    BY <2>2, <2>5 DEF IoSettled
  <2>6. CASE r.socket \in {"connected", "deferred"} /\ channels' = [channels EXCEPT ![c].socket = "hup"]
    BY <2>2, <2>6 DEF IoSettled
  <2>7. QED
    BY <2>3, <2>4, <2>5, <2>6, <1>7 DEF BtIo!peer
<1>8. QED
  BY <1>4, <1>5, <1>6, <1>7

\* An open socket is the one that has its number, and poll tells of it.
LEMMA IoOwn ==
    ASSUME IoInv, NEW c \in BtIo!Channels, channels[c].open
    PROVE  BtIo!Owner(channels[c].fd) = {c} /\ BtIo!Condition(c) = channels[c].socket
<1> DEFINE o == BtIo!Owner(channels[c].fd)
<1>1. o = {c}
  BY DEF BtIo!Owner, BtIo!Open, IoInv, IoNumbers
<1>2. o # {} /\ (CHOOSE x \in o : TRUE) = c
  BY <1>1
<1>3. BtIo!Condition(c) = IF o = {} THEN "nval" ELSE channels[CHOOSE x \in o : TRUE].socket
  BY DEF BtIo!Condition
<1> HIDE DEF o
<1>4. BtIo!Condition(c) = channels[c].socket
  BY <1>2, <1>3
<1>5. QED
  BY <1>1, <1>4 DEF o

\* Nobody has the number of a closed socket that is watched, unless that is known.
LEMMA IoLost ==
    ASSUME IoInv, NEW c \in BtIo!Channels, ~channels[c].open, channels[c].watch # "none", ~bt_reused
    PROVE  BtIo!Owner(channels[c].fd) = {}
BY DEF BtIo!Owner, BtIo!Open, IoInv, IoNumbers

\* poll
LEMMA IoPoll ==
    ASSUME IoInv, BtIo!poll
    PROVE  IoInv'
<1>1. /\ bt_ready' = {<<c, BtIo!Condition(c) = "nval">> : c \in {x \in BtIo!Channels : BtIo!IsReady(x)}}
      /\ channels' = channels /\ bt_reused' = bt_reused
  BY DEF BtIo!poll
<1>2. ASSUME NEW e \in bt_ready'
      PROVE  \E c \in BtIo!Channels : BtIo!IsReady(c) /\ e = <<c, BtIo!Condition(c) = "nval">>
  BY <1>1
<1>3. bt_ready' \subseteq BtIo!Channels \X BOOLEAN
  <2>1. ASSUME NEW e \in bt_ready' PROVE e \in BtIo!Channels \X BOOLEAN
    <3>1. PICK c \in BtIo!Channels : e = <<c, BtIo!Condition(c) = "nval">>
      BY <1>2
    <3> DEFINE b == BtIo!Condition(c) = "nval"
    <3>2. b \in BOOLEAN
      OBVIOUS
    <3> HIDE DEF b
    <3>3. <<c, b>> \in BtIo!Channels \X BOOLEAN
      BY <3>2
    <3>4. QED
      BY <3>1, <3>3 DEF b
  <2>2. QED
    BY <2>1
<1>4. ASSUME NEW e \in bt_ready', NEW f \in bt_ready', e[1] = f[1] PROVE e = f
  <2>1. PICK c \in BtIo!Channels : e = <<c, BtIo!Condition(c) = "nval">>
    BY <1>2
  <2>2. PICK d \in BtIo!Channels : f = <<d, BtIo!Condition(d) = "nval">>
    BY <1>2
  <2>3. e[1] = c /\ f[1] = d
    BY <2>1, <2>2
  <2>4. c = d
    BY <2>3, <1>4
  <2>5. QED
    BY <2>1, <2>2, <2>4
<1>5. ASSUME NEW e \in bt_ready' PROVE IoReady(e, channels[e[1]])
  <2>1. PICK c \in BtIo!Channels : BtIo!IsReady(c) /\ e = <<c, BtIo!Condition(c) = "nval">>
    BY <1>2
  <2>2. e[1] = c /\ e[2] = (BtIo!Condition(c) = "nval")
    BY <2>1
  <2>3. channels[c] \in IoChannel /\ channels[c].watch # "none"
    BY <2>1 DEF IoInv, BtIo!IsReady
  <2>4. ASSUME channels[c].open
        PROVE  BtIo!Condition(c) # "nval" /\ (channels[c].watch # "server" => channels[c].socket \in IoSettled)
    <3>1. BtIo!Condition(c) = channels[c].socket
      BY <2>4, IoOwn
    <3>2. channels[c].socket \in {"none", "pending", "listening", "deferred"} \cup IoSettled /\ channels[c].socket # "none"
      BY <2>3, <2>4 DEF IoChannel, IoInv, IoFit
    <3>3. BtIo!Condition(c) # "nval"
      BY <3>1, <3>2 DEF IoSettled
    <3>4. channels[c].watch # "server" => BtIo!Condition(c) \notin {"pending", "deferred", "listening"}
      BY <2>1 DEF BtIo!IsReady
    <3>5. QED
      BY <3>1, <3>2, <3>3, <3>4
  <2>5. IoReady(e, channels[c])
    BY <2>2, <2>3, <2>4 DEF IoReady
  <2>6. QED
    BY <2>2, <2>5
<1>6. IoWatches'
  BY <1>1, <1>3, <1>4, <1>5 DEF IoWatches
<1>7. QED
  BY <1>1, <1>6 DEF IoInv, IoNumbers

\* What a user has been told when its watch ends.
LEMMA IoToldLast ==
    /\ IoNone \o <<>> \o <<"destroy">> = IoDropped
    /\ IoNone \o <<"connected">> \o <<"destroy">> = IoConnected
    /\ IoNone \o <<"error">> \o <<"destroy">> = IoFailed
<1> DEFINE S == {"connected", "error", "destroy"}
           d == <<"destroy">>
<1>1. /\ <<>> \in Seq(S) /\ d \in Seq(S) /\ <<"connected">> \in Seq(S) /\ <<"error">> \in Seq(S)
      /\ <<"connected", "destroy">> \in Seq(S) /\ <<"error", "destroy">> \in Seq(S)
  OBVIOUS
<1>2. \A q \in Seq(S) : <<>> \o q = q
  OBVIOUS
<1>3. ASSUME NEW x \in S PROVE <<x>> \o d = <<x, "destroy">>
  <2> DEFINE a == <<x>>
             b == <<x, "destroy">>
  <2>1. a \in Seq(S) /\ b \in Seq(S) /\ Len(a) = 1 /\ Len(d) = 1 /\ Len(b) = 2 /\ a[1] = x /\ b[1] = x /\ b[2] = "destroy" /\ d[1] = "destroy"
    OBVIOUS
  <2> HIDE DEF a, b, d, S
  <2>2. /\ a \o d \in Seq(S) /\ Len(a \o d) = Len(a) + Len(d)
        /\ \A i \in 1..Len(a) + Len(d) : (a \o d)[i] = IF i <= Len(a) THEN a[i] ELSE d[i - Len(a)]
    BY <1>1, <2>1, ConcatProperties
  <2>3. Len(a \o d) = 2 /\ (a \o d)[1] = a[1] /\ (a \o d)[2] = d[1]
    BY <2>1, <2>2
  <2>4. \A i \in 1..2 : i = 1 \/ i = 2
    OBVIOUS
  <2>5. \A i \in 1..2 : (a \o d)[i] = b[i]
    BY <2>1, <2>3, <2>4
  <2>6. a \o d = b
    BY <2>1, <2>2, <2>3, <2>5, SeqEqual
  <2>7. QED
    BY <2>6 DEF a, b
<1>4. <<>> \o <<>> = <<>> /\ <<>> \o <<"connected">> = <<"connected">> /\ <<>> \o <<"error">> = <<"error">> /\ <<>> \o d = d
  BY <1>1, <1>2
<1>5. QED
  BY <1>3, <1>4 DEF IoNone, IoDropped, IoConnected, IoFailed

\* The watch of a channel ends.
IoEnding(e, calls, last) ==
    /\ channels' = BtIo!Removed(e[1], calls) /\ bt_ready' = bt_ready \ {e} /\ bt_reused' = bt_reused
    /\ last = IoNone \o calls \o <<"destroy">> /\ last \in IoCalls /\ last # IoNone
    /\ last = IoDropped => ~channels[e[1]].open
    /\ ~bt_reused /\ last # IoDropped => /\ channels[e[1]].open
                                         /\ last = IoConnected => channels[e[1]].socket \in {"connected", "hup"}
                                         /\ last = IoFailed => channels[e[1]].socket \in {"failed", "hup"}

\* The invariant is kept by such a step.
LEMMA IoEnds ==
    ASSUME IoInv, NEW e \in bt_ready, NEW calls, NEW last, IoEnding(e, calls, last)
    PROVE  IoInv'
<1> DEFINE c == e[1]
           r == channels[c]
           y == [r EXCEPT !.watch = "none", !.calls = r.calls \o calls \o <<"destroy">>]
           x == BtIo!Released(y)
<1>1. c \in BtIo!Channels /\ IoReady(e, r) /\ r \in IoChannel /\ IoFit(r, bt_reused) /\ \A f \in bt_ready : f[1] = c => f = e
  <2>1. c \in BtIo!Channels
    BY DEF IoInv, IoWatches
  <2>2. QED
    BY <2>1 DEF IoInv, IoWatches
<1>2. r.watch # "none" /\ r.calls = IoNone /\ (~r.open => r.aborted)
  BY <1>1 DEF IoReady, IoFit
<1>3. channels' = [channels EXCEPT ![c] = x] /\ bt_ready' = bt_ready \ {e} /\ bt_reused' = bt_reused
  BY DEF BtIo!Removed, IoEnding
<1>4. /\ last = IoNone \o calls \o <<"destroy">> /\ last \in IoCalls /\ last # IoNone /\ (last = IoDropped => ~r.open)
      /\ ~bt_reused /\ last # IoDropped => /\ r.open
                                           /\ last = IoConnected => r.socket \in {"connected", "hup"}
                                           /\ last = IoFailed => r.socket \in {"failed", "hup"}
  BY DEF IoEnding
<1>5. /\ y \in IoChannel /\ y.watch = "none" /\ y.held = r.held /\ y.open = r.open /\ y.fd = r.fd /\ y.calls = last
      /\ y.aborted = r.aborted /\ y.socket = r.socket
  <2>1. r.calls \o calls \o <<"destroy">> = last
    BY <1>2, <1>4
  <2>2. y = [r EXCEPT !.watch = "none", !.calls = last]
    BY <2>1
  <2> HIDE DEF y, r
  <2>3. QED
    BY <1>1, <1>4, <2>2 DEF IoChannel
<1> HIDE DEF y
<1>6. /\ x \in IoChannel /\ x.watch = "none" /\ x.held = r.held /\ x.fd = r.fd /\ x.socket = r.socket
      /\ x.calls = last /\ x.aborted = r.aborted /\ (x.open <=> r.open /\ r.held)
  BY <1>5, IoReleased
<1> HIDE DEF x
<1>7. IoFit(x, bt_reused)
  <2>1. x.open => x.fd # 0 /\ x.socket # "none" /\ ~x.aborted /\ (x.held \/ x.watch # "none")
    BY <1>1, <1>6 DEF IoFit
  <2>2. x.calls = IoDropped => x.aborted
    BY <1>2, <1>6, <1>4
  <2>3. ASSUME ~bt_reused
        PROVE  /\ x.aborted => x.calls \in {IoNone, IoDropped}
               /\ x.calls = IoConnected => x.socket \in {"connected", "hup"}
               /\ x.calls = IoFailed => x.socket \in {"failed", "hup"}
    <3>1. r.open => ~r.aborted
      BY <1>1 DEF IoFit
    <3>2. QED
      BY <2>3, <3>1, <1>6, <1>4, IoCallsDiffer
  <2>4. x.watch = "none"
    BY <1>6
  <2>5. QED
    BY <2>1, <2>2, <2>3, <2>4 DEF IoFit
<1>8. \A f \in bt_ready' : f[1] # c
  BY <1>1, <1>3
<1>9. IoChange(c, x)
  BY <1>1, <1>3, <1>6, <1>7, <1>8 DEF IoChange
<1>10. QED
  BY <1>9, IoChanged

\* A watch that finds out that its socket was closed.
LEMMA IoGivenUp ==
    ASSUME IoInv, NEW e \in bt_ready, channels' = BtIo!Removed(e[1], <<>>), bt_ready' = bt_ready \ {e}, bt_reused' = bt_reused,
           e[2] \/ BtIo!check_nval(e[1])
    PROVE  IoInv'
<1>1. e[1] \in BtIo!Channels /\ IoReady(e, channels[e[1]])
  BY DEF IoInv, IoWatches
<1>2. ~channels[e[1]].open
  <2>1. CASE e[2]
    BY <1>1, <2>1 DEF IoReady
  <2>2. CASE BtIo!check_nval(e[1])
    BY <1>1, <2>2, IoOwn DEF BtIo!check_nval
  <2>3. QED
    BY <2>1, <2>2
<1> DEFINE last == IoNone \o <<>> \o <<"destroy">>
<1>3. last = IoDropped /\ last \in IoCalls /\ last # IoNone
  BY IoToldLast, IoCallsDiffer DEF IoCalls
<1> HIDE DEF last
<1>4. last = IoNone \o <<>> \o <<"destroy">>
  BY DEF last
<1>5. IoEnding(e, <<>>, last)
  BY <1>2, <1>3, <1>4 DEF IoEnding
<1>6. QED
  BY <1>5, IoEnds

\* connect_cb
LEMMA IoConnectCb ==
    ASSUME IoInv, NEW e \in bt_ready, BtIo!connect_cb(e)
    PROVE  IoInv'
<1> DEFINE c == e[1]
           r == channels[c]
<1>1. r.watch \in {"connect", "accept"} /\ bt_ready' = bt_ready \ {e} /\ bt_reused' = bt_reused
  BY DEF BtIo!connect_cb
<1>2. c \in BtIo!Channels /\ IoReady(e, r)
  BY DEF IoInv, IoWatches
<1>3. CASE e[2] \/ BtIo!check_nval(c)
  <2>1. channels' = BtIo!Removed(c, <<>>)
    BY <1>3 DEF BtIo!connect_cb
  <2>2. QED
    BY <1>1, <1>3, <2>1, IoGivenUp
<1>4. CASE ~(e[2] \/ BtIo!check_nval(c))
  <2>1. PICK told \in BtIo!Told(c) : channels' = BtIo!Removed(c, <<told>>)
    BY <1>4 DEF BtIo!connect_cb
  <2>2. told \in {"connected", "error"}
    BY <2>1 DEF BtIo!Told
  <2>3. ASSUME ~bt_reused
        PROVE  /\ r.open /\ (told = "connected" => r.socket \in {"connected", "hup"})
               /\ (told = "error" => r.socket \in {"failed", "hup"})
    <3>1. r.open
      BY <1>1, <1>2, <1>4, <2>3, IoLost DEF BtIo!check_nval
    <3>2. BtIo!Condition(c) = r.socket
      BY <1>2, <3>1, IoOwn
    <3>3. r.socket \in IoSettled
      BY <1>1, <1>2, <3>1 DEF IoReady
    <3>4. CASE r.socket = "failed"
      <4>1. BtIo!Told(c) = {"error"}
        BY <3>2, <3>4 DEF BtIo!Told
      <4>2. QED
        BY <2>1, <3>1, <3>4, <4>1
    <3>5. CASE r.socket = "hup"
      BY <3>1, <3>5
    <3>6. CASE r.socket = "connected"
      <4>1. BtIo!Told(c) = {"connected"}
        BY <3>2, <3>6 DEF BtIo!Told
      <4>2. QED
        BY <2>1, <3>1, <3>6, <4>1
    <3>7. QED
      BY <3>3, <3>4, <3>5, <3>6 DEF IoSettled
  <2> DEFINE last == IoNone \o <<told>> \o <<"destroy">>
  <2>4. /\ last \in IoCalls /\ last # IoNone /\ last # IoDropped
        /\ (last = IoConnected => told = "connected") /\ (last = IoFailed => told = "error")
    <3>1. CASE told = "connected"
      <4>1. last = IoConnected
        BY <3>1, IoToldLast
      <4>2. QED
        BY <3>1, <4>1, IoCallsDiffer DEF IoCalls
    <3>2. CASE told = "error"
      <4>1. last = IoFailed
        BY <3>2, IoToldLast
      <4>2. QED
        BY <3>2, <4>1, IoCallsDiffer DEF IoCalls
    <3>3. QED
      BY <2>2, <3>1, <3>2
  <2> DEFINE calls == <<told>>
  <2>5. last = IoNone \o calls \o <<"destroy">> /\ channels' = BtIo!Removed(e[1], calls)
    BY <2>1
  <2> HIDE DEF last, calls
  <2>6. ~bt_reused /\ last # IoDropped => /\ channels[e[1]].open
                                          /\ last = IoConnected => channels[e[1]].socket \in {"connected", "hup"}
                                          /\ last = IoFailed => channels[e[1]].socket \in {"failed", "hup"}
    BY <2>3, <2>4
  <2>7. last = IoDropped => ~channels[e[1]].open
    BY <2>4
  <2>8. IoEnding(e, calls, last)
    BY <1>1, <2>4, <2>5, <2>6, <2>7 DEF IoEnding
  <2>9. QED
    BY <2>8, IoEnds
<1>5. QED
  BY <1>3, <1>4

\* server_cb
LEMMA IoServerCb ==
    ASSUME IoInv, NEW e \in bt_ready, BtIo!server_cb(e)
    PROVE  IoInv'
<1> DEFINE c == e[1]
           from == {o \in BtIo!Owner(channels[c].fd) : channels[o].waiting > 0}
           k == BtIo!New
           l == BtIo!Lowest
<1>1. bt_ready' = bt_ready \ {e} /\ c \in BtIo!Channels
  BY DEF BtIo!server_cb, IoInv, IoWatches
<1>2. CASE e[2] \/ BtIo!check_nval(c)
  <2>1. channels' = BtIo!Removed(c, <<>>) /\ bt_reused' = bt_reused
    BY <1>2 DEF BtIo!server_cb
  <2>2. QED
    BY <1>1, <1>2, <2>1, IoGivenUp
<1>3. CASE channels' = channels /\ bt_reused' = bt_reused
  <2>1. IoWatches'
    BY <1>1, <1>3 DEF IoInv, IoWatches
  <2>2. QED
    BY <1>3, <2>1 DEF IoInv, IoNumbers
<1>4. ASSUME k \in BtIo!Channels, bt_reused' = (bt_reused \/ BtIo!Reuses),
             NEW o \in from, NEW keeps \in BOOLEAN, NEW socket \in {"deferred", "connected"},
             channels' = [channels EXCEPT
                 ![o].waiting = @ - 1,
                 ![k] = BtIo!Released([BtIo!Unused EXCEPT !.held = keeps, !.open = TRUE, !.fd = l, !.socket = socket])]
      PROVE  IoInv'
  <2> DEFINE u == BtIo!Unused
             y == [u EXCEPT !.held = keeps, !.open = TRUE, !.fd = l, !.socket = socket]
             z == BtIo!Released(y)
             r == channels[o]
             x == [r EXCEPT !.waiting = @ - 1]
  <2>1. u \in IoChannel /\ u.watch = "none" /\ u.calls = IoNone /\ u.aborted = FALSE
    BY IoUnused
  <2>2. l \in 0..MaxChannels
    <3>1. l \in 1..MaxChannels
      BY <1>4, IoLowest
    <3> HIDE DEF l
    <3>2. QED
      BY <3>1, IoLibrary
  <2> HIDE DEF u, l
  <2>3. /\ y \in IoChannel /\ y.fd = l /\ y.calls = u.calls /\ y.aborted = u.aborted /\ y.socket = socket
        /\ y.watch = u.watch
    BY <2>1, <2>2 DEF IoChannel, IoSettled
  <2> HIDE DEF y
  <2>4. /\ z \in IoChannel /\ z.fd = l /\ z.calls = IoNone /\ ~z.aborted /\ z.socket = socket /\ z.watch = "none"
        /\ (z.open => z.held)
    BY <2>1, <2>3, IoReleased
  <2>5. z = BtIo!Released([BtIo!Unused EXCEPT !.held = keeps, !.open = TRUE, !.fd = BtIo!Lowest, !.socket = socket])
    BY DEF y, u, l
  <2> HIDE DEF z
  <2>6. o \in BtIo!Channels /\ r \in IoChannel /\ r.open /\ r.waiting > 0
    BY DEF BtIo!Owner, BtIo!Open, IoInv
  <2>7. o # k
    <3>1. PICK m \in Nat : k = m + 1 /\ \A d \in BtIo!Channels : channels[d].fd # 0 <=> d <= m
      BY <1>4, IoNew
    <3>2. r.fd # 0
      BY <2>6 DEF IoInv, IoFit
    <3> HIDE DEF k
    <3>3. o <= m /\ ~(m + 1 <= m)
      BY <2>6, <3>1, <3>2
    <3>4. QED
      BY <3>1, <3>3
  <2>8. x \in IoChannel /\ IoAlike(x, r)
    <3>1. r.waiting \in Nat
      BY <2>6 DEF IoChannel
    <3>2. r.waiting - 1 \in Nat
      BY <2>6, <3>1
    <3> HIDE DEF r
    <3>3. QED
      BY <2>6, <3>2 DEF IoChannel, IoAlike
  <2>9. channels' = [[channels EXCEPT ![o] = x] EXCEPT ![k] = z]
    BY <1>4, <2>5 DEF l
  <2> HIDE DEF x, k
  <2>10. /\ channels' \in [BtIo!Channels -> IoChannel] /\ channels'[k] = z /\ channels'[o] = x
         /\ \A d \in BtIo!Channels : d # k /\ d # o => channels'[d] = channels[d]
    BY <1>4, <2>4, <2>6, <2>7, <2>8, <2>9 DEF IoInv
  <2>11. \A d \in BtIo!Channels : d # k => IoAlike(channels'[d], channels[d])
    BY <2>8, <2>10 DEF IoAlike
  <2>12. IoOpening(z)
    BY <1>1, <1>4, <2>4, <2>10, <2>11 DEF IoOpening, k, l
  <2>13. QED
    BY <2>12, IoOpened
<1>5. QED
  BY <1>2, <1>3, <1>4 DEF BtIo!server_cb

\* Every step keeps the invariant.
LEMMA IoNext ==
    ASSUME IoInv, BtIo!Next \/ UNCHANGED btioVars
    PROVE  IoInv'
<1>1. CASE UNCHANGED btioVars
  BY <1>1 DEF btioVars, IoInv, IoNumbers, IoWatches
<1>2. CASE BtIo!bt_io_connect \/ BtIo!bt_io_listen
  BY <1>2, IoOpens DEF BtIo!bt_io_connect, BtIo!bt_io_listen
<1>3. CASE BtIo!Next
  BY <1>2, <1>3, IoPoll, IoUser, IoConnectCb, IoServerCb DEF BtIo!Next
<1>4. QED
  BY <1>1, <1>3

\* The first state.
LEMMA IoStart == BtIo!Init => IoInv
<1> SUFFICES ASSUME BtIo!Init PROVE IoInv
  OBVIOUS
<1>1. channels = [c \in BtIo!Channels |-> BtIo!Unused] /\ bt_ready = {} /\ bt_reused = FALSE
  BY DEF BtIo!Init
<1> DEFINE u == BtIo!Unused
<1>2. u \in IoChannel /\ u.watch = "none" /\ ~u.open /\ u.fd = 0 /\ u.calls = IoNone /\ ~u.aborted
  BY IoUnused
<1> HIDE DEF u
<1>3. channels \in [BtIo!Channels -> IoChannel] /\ \A c \in BtIo!Channels : channels[c] = u
  BY <1>1, <1>2 DEF u
<1>4. IoFit(u, bt_reused)
  BY <1>2, IoCallsDiffer DEF IoFit
<1>5. IoNumbers
  <2>1. \A c \in BtIo!Channels : channels[c].fd # 0 <=> c <= 0
    BY <1>2, <1>3, IoLibrary
  <2>2. 0 \in 0..MaxChannels
    BY IoLibrary
  <2>3. QED
    BY <1>2, <1>3, <2>1, <2>2 DEF IoNumbers
<1>6. IoWatches
  BY <1>1 DEF IoWatches
<1>7. QED
  BY <1>1, <1>3, <1>4, <1>5, <1>6 DEF IoInv

\* What the invariant means.
LEMMA IoCorrect ==
    ASSUME IoInv
    PROVE  BtIo!TypeOK /\ BtIo!CompletedOnce /\ BtIo!OwnFate /\ BtIo!SocketsHeld
<1>1. \A c \in BtIo!Channels : channels[c] \in IoChannel /\ IoFit(channels[c], bt_reused)
  BY DEF IoInv
<1>2. BtIo!TypeOK
  BY DEF BtIo!TypeOK, IoInv, IoWatches, IoReady
<1>3. BtIo!CompletedOnce
  <2> SUFFICES ASSUME NEW c \in BtIo!Channels
               PROVE  /\ channels[c].calls \in IoCalls
                      /\ channels[c].watch # "none" => channels[c].calls = IoNone
                      /\ channels[c].aborted /\ ~bt_reused => channels[c].calls \in {IoNone, IoDropped}
                      /\ channels[c].calls = IoDropped => channels[c].aborted
    BY DEF BtIo!CompletedOnce, IoCalls, IoNone, IoDropped, IoConnected, IoFailed
  <2>1. channels[c] \in IoChannel /\ IoFit(channels[c], bt_reused)
    BY <1>1
  <2>2. QED
    BY <2>1 DEF IoChannel, IoFit
<1>4. BtIo!OwnFate
  <2>1. /\ Head(IoNone \o <<"none">>) = "none" /\ Head(IoDropped \o <<"none">>) = "destroy"
        /\ Head(IoConnected \o <<"none">>) = "connected" /\ Head(IoFailed \o <<"none">>) = "error"
    BY DEF IoNone, IoDropped, IoConnected, IoFailed
  <2> SUFFICES ASSUME ~bt_reused, NEW c \in BtIo!Channels
               PROVE  /\ Head(channels[c].calls \o <<"none">>) = "connected" => channels[c].socket \in {"connected", "hup"}
                      /\ Head(channels[c].calls \o <<"none">>) = "error" => channels[c].socket \in {"failed", "hup"}
    BY DEF BtIo!OwnFate
  <2>2. channels[c].calls \in IoCalls /\ IoFit(channels[c], bt_reused)
    BY <1>1 DEF IoChannel
  <2> DEFINE called == channels[c].calls
  <2> HIDE DEF called
  <2>3. called \in {IoNone, IoDropped, IoConnected, IoFailed}
    BY <2>2 DEF IoCalls, called
  <2>4. Head(called \o <<"none">>) = "connected" => called = IoConnected
    BY <2>1, <2>3
  <2>5. Head(called \o <<"none">>) = "error" => called = IoFailed
    BY <2>1, <2>3
  <2>6. QED
    BY <2>2, <2>4, <2>5 DEF IoFit, called
<1>5. BtIo!SocketsHeld
  BY <1>1 DEF BtIo!SocketsHeld, BtIo!Open, IoInv, IoNumbers, IoFit
<1>6. QED
  BY <1>2, <1>3, <1>4, <1>5

-----------------------------------------------------------------------------
(* Lists that are cut and joined *)

\* Three lists, joined in one order or the other.
Regroups(a, b, c) == (a \o b) \o c = a \o (b \o c)

\* How three lists are joined does not matter.
LEMMA Regroup ==
    ASSUME NEW T, NEW a \in Seq(T), NEW b \in Seq(T), NEW c \in Seq(T)
    PROVE  Regroups(a, b, c)
BY ConcatAssociative DEF Regroups

\* b is cut after n of its elements, which are added to a.
IsCut(a, b, n, T) ==
    /\ SubSeq(b, 1, n) \in Seq(T) /\ SubSeq(b, n + 1, Len(b)) \in Seq(T)
    /\ a \o b = (a \o SubSeq(b, 1, n)) \o SubSeq(b, n + 1, Len(b))

\* What a list is made of when it is cut in two.
LEMMA CutAndJoined ==
    ASSUME NEW T, NEW a \in Seq(T), NEW b \in Seq(T), NEW n \in Nat, n <= Len(b)
    PROVE  IsCut(a, b, n, T)
<1> DEFINE c == SubSeq(b, 1, n)
           d == SubSeq(b, n + 1, Len(b))
           m == Len(b)
<1>1. m \in Nat /\ \A i \in 1..m : b[i] \in T
  BY LenProperties, ElementOfSeq
<1>2. n <= m
  OBVIOUS
<1>3. c \in Seq(T) /\ d \in Seq(T)
  <2>1. (\A i \in 1..n : b[i] \in T) /\ (\A i \in n + 1..m : b[i] \in T)
    <3> HIDE DEF m
    <3>1. QED
      BY <1>1, <1>2
  <2>2. c \in Seq(T)
    BY <2>1, SubSeqProperties
  <2>3. SubSeq(b, n + 1, m) \in Seq(T)
    <3> HIDE DEF m
    <3>1. n + 1 \in Int /\ m \in Int
      BY <1>1
    <3>2. QED
      BY <2>1, <3>1, SubSeqProperties
  <2>4. QED
    BY <2>2, <2>3
<1>4. c \o d = b
  <2>1. 1 \in 1..m + 1 /\ n \in 1 - 1..m /\ m \in n..m
    <3> HIDE DEF m
    <3>1. QED
      BY <1>1, <1>2
  <2>2. SubSeq(b, 1, n) \o SubSeq(b, n + 1, m) = SubSeq(b, 1, m)
    BY <2>1, ConcatAdjacentSubSeq
  <2>3. SubSeq(b, 1, m) = b
    BY SubSeqFull
  <2>4. QED
    BY <2>2, <2>3
<1> HIDE DEF c, d
<1>5. (a \o c) \o d = a \o (c \o d)
  <2>1. Regroups(a, c, d)
    BY <1>3, Regroup
  <2>2. QED
    BY <2>1, Zenon DEF Regroups
<1>6. QED
  BY <1>3, <1>4, <1>5, Zenon DEF c, d, IsCut

\* A list is its first element and the others.
LEMMA HeadAndTail ==
    ASSUME NEW T, NEW q \in Seq(T), q # <<>>
    PROVE  /\ Head(q) \in T /\ Tail(q) \in Seq(T) /\ q = <<Head(q)>> \o Tail(q)
<1> DEFINE h == Head(q)
           t == Tail(q)
           a == <<h>>
<1>1. h \in T /\ t \in Seq(T) /\ Len(t) = Len(q) - 1 /\ \A i \in 1..Len(t) : t[i] = q[i + 1]
  BY HeadTailProperties
<1>2. Len(q) \in Nat /\ Len(q) # 0 /\ h = q[1]
  BY EmptySeq
<1> HIDE DEF h, t
<1>3. a \in Seq(T) /\ Len(a) = 1 /\ a[1] = h
  BY <1>1
<1> HIDE DEF a
<1>4. /\ a \o t \in Seq(T) /\ Len(a \o t) = Len(a) + Len(t)
      /\ \A i \in 1..Len(a) + Len(t) : (a \o t)[i] = IF i <= Len(a) THEN a[i] ELSE t[i - Len(a)]
  <2>1. a \in Seq(T) /\ t \in Seq(T)
    BY <1>1, <1>3
  <2>2. QED
    BY <2>1, ConcatProperties
<1> DEFINE n == Len(q)
<1>5. n \in Nat /\ n # 0 /\ Len(a \o t) = n /\ Len(t) = n - 1
  BY <1>1, <1>2, <1>3, <1>4
<1>6. ASSUME NEW i \in 1..n PROVE (a \o t)[i] = q[i]
  <2> HIDE DEF n
  <2>1. (a \o t)[i] = IF i <= 1 THEN a[i] ELSE t[i - 1]
    BY <1>3, <1>4, <1>5
  <2>2. CASE i = 1
    BY <1>2, <1>3, <2>1, <2>2
  <2>3. CASE i # 1
    <3>1. i - 1 \in 1..n - 1 /\ (i - 1) + 1 = i /\ ~(i <= 1)
      BY <1>5, <2>3
    <3>2. QED
      BY <1>1, <1>5, <2>1, <3>1
  <2>4. QED
    BY <2>2, <2>3
<1>7. a \o t = q
  BY <1>4, <1>5, <1>6, SeqEqual
<1>8. QED
  BY <1>1, <1>7 DEF a, h, t

\* Picking from a list that starts with an element.
LEMMA FilterFirst ==
    ASSUME NEW T, NEW h \in T, NEW q \in Seq(T), NEW S
    PROVE  Filter(<<h>> \o q, S) = IF h \in S THEN <<h>> \o Filter(q, S) ELSE Filter(q, S)
<1> DEFINE a == <<h>>
           e == <<>>
<1>1. a \in Seq(T) /\ e \in Seq(T) /\ a = Append(e, h)
  OBVIOUS
<1>2. Filter(e, S) = e
  BY FilterEmpty
<1>3. Filter(q, S) \in Seq(T)
  BY FilterRange
<1>4. e \o Filter(q, S) = Filter(q, S)
  BY <1>3, ConcatEmptySeq
<1> HIDE DEF a, e
<1>5. Filter(Append(e, h), S) = IF h \in S THEN Append(Filter(e, S), h) ELSE Filter(e, S)
  BY <1>1, FilterAppend
<1>6. Filter(a, S) = IF h \in S THEN a ELSE e
  BY <1>1, <1>2, <1>5
<1>7. Filter(a \o q, S) = Filter(a, S) \o Filter(q, S)
  <2>1. a \in Seq(T)
    BY <1>1
  <2>2. QED
    BY <2>1, FilterConcat
<1>8. Filter(a \o q, S) = IF h \in S THEN a \o Filter(q, S) ELSE Filter(q, S)
  BY <1>4, <1>6, <1>7
<1>9. QED
  BY <1>8 DEF a

-----------------------------------------------------------------------------
(* Lists of numbers that follow each other *)

\* q holds lo + 1, ..., hi.
IsRun(q, lo, hi) ==
    /\ q \in Seq(Int) /\ lo \in Nat /\ hi \in Nat /\ Len(q) = hi - lo
    /\ \A i \in 1..Len(q) : q[i] = lo + i

\* The next number is added at the end.
LEMMA RunGrows ==
    ASSUME NEW q, NEW lo, NEW hi, IsRun(q, lo, hi)
    PROVE  IsRun(Append(q, hi + 1), lo, hi + 1)
<1> DEFINE r == Append(q, hi + 1)
           n == Len(q)
<1>1. q \in Seq(Int) /\ lo \in Nat /\ hi \in Nat /\ n = hi - lo /\ \A i \in 1..n : q[i] = lo + i
  BY DEF IsRun
<1>2. n \in Nat
  BY <1>1, LenProperties
<1>3. r \in Seq(Int) /\ Len(r) = n + 1 /\ (\A i \in 1..n : r[i] = q[i]) /\ r[n + 1] = hi + 1
  <2>1. hi + 1 \in Int
    BY <1>1
  <2>2. QED
    BY <1>1, <2>1, AppendProperties
<1> HIDE DEF r, n
<1>4. \A i \in 1..n + 1 : r[i] = lo + i
  <2> TAKE i \in 1..n + 1
  <2>1. CASE i = n + 1
    BY <1>1, <1>2, <1>3, <2>1
  <2>2. CASE i # n + 1
    <3>1. i \in 1..n
      BY <1>2, <2>2
    <3>2. QED
      BY <1>1, <1>3, <3>1
  <2>3. QED
    BY <2>1, <2>2
<1>5. hi + 1 \in Nat /\ n + 1 = (hi + 1) - lo
  BY <1>1, <1>2
<1>6. IsRun(r, lo, hi + 1)
  BY <1>1, <1>3, <1>4, <1>5 DEF IsRun
<1>7. QED
  BY <1>6 DEF r

\* The first number is taken away.
LEMMA RunShrinks ==
    ASSUME NEW c \in Int, NEW q \in Seq(Int), NEW lo, NEW hi, IsRun(<<c>> \o q, lo, hi)
    PROVE  c = lo + 1 /\ IsRun(q, lo + 1, hi)
<1> DEFINE a == <<c>>
           r == a \o q
           n == Len(q)
<1>1. a \in Seq(Int) /\ Len(a) = 1 /\ a[1] = c
  OBVIOUS
<1>2. IsRun(r, lo, hi)
  OBVIOUS
<1> HIDE DEF a
<1>3. /\ r \in Seq(Int) /\ Len(r) = Len(a) + Len(q)
      /\ \A i \in 1..Len(a) + Len(q) : r[i] = IF i <= Len(a) THEN a[i] ELSE q[i - Len(a)]
  BY <1>1, ConcatProperties
<1>4. n \in Nat
  BY LenProperties
<1> HIDE DEF r
<1>5. lo \in Nat /\ hi \in Nat /\ Len(r) = hi - lo /\ \A i \in 1..Len(r) : r[i] = lo + i
  BY <1>2 DEF IsRun
<1>6. Len(r) = n + 1 /\ \A i \in 1..n + 1 : r[i] = IF i <= 1 THEN a[i] ELSE q[i - 1]
  BY <1>1, <1>3, <1>4
<1> HIDE DEF n
<1>7. c = lo + 1
  <2>1. 1 \in 1..n + 1
    BY <1>4
  <2>2. QED
    BY <1>1, <1>5, <1>6, <2>1
<1>8. \A i \in 1..n : q[i] = (lo + 1) + i
  <2> TAKE i \in 1..n
  <2>1. i + 1 \in 1..n + 1 /\ ~(i + 1 <= 1) /\ (i + 1) - 1 = i
    BY <1>4
  <2>2. r[i + 1] = q[i] /\ r[i + 1] = lo + (i + 1)
    BY <1>5, <1>6, <2>1
  <2>3. QED
    BY <1>4, <1>5, <2>2
<1>9. lo + 1 \in Nat /\ n = hi - (lo + 1)
  BY <1>4, <1>5, <1>6
<1>10. Len(q) = n
  BY DEF n
<1>11. QED
  BY <1>7, <1>8, <1>9, <1>10, <1>5 DEF IsRun

\* Two that follow each other are one.
LEMMA RunsJoined ==
    ASSUME NEW a, NEW b, NEW lo, NEW mid, NEW hi, IsRun(a, lo, mid), IsRun(b, mid, hi)
    PROVE  IsRun(a \o b, lo, hi)
<1> DEFINE r == a \o b
           n == Len(a)
           m == Len(b)
<1>1. /\ a \in Seq(Int) /\ b \in Seq(Int) /\ lo \in Nat /\ mid \in Nat /\ hi \in Nat /\ n = mid - lo /\ m = hi - mid
      /\ (\A i \in 1..n : a[i] = lo + i) /\ (\A i \in 1..m : b[i] = mid + i)
  BY DEF IsRun
<1>2. n \in Nat /\ m \in Nat
  BY <1>1, LenProperties
<1>3. r \in Seq(Int) /\ Len(r) = n + m /\ \A i \in 1..n + m : r[i] = IF i <= n THEN a[i] ELSE b[i - n]
  BY <1>1, ConcatProperties
<1> HIDE DEF r, n, m
<1>4. \A i \in 1..n + m : r[i] = lo + i
  <2> TAKE i \in 1..n + m
  <2>1. CASE i <= n
    <3>1. i \in 1..n
      BY <1>2, <2>1
    <3>2. QED
      BY <1>1, <1>3, <2>1, <3>1
  <2>2. CASE ~(i <= n)
    <3>1. i - n \in 1..m /\ i \in Int
      BY <1>2, <2>2
    <3>2. r[i] = mid + (i - n)
      BY <1>1, <1>3, <2>2, <3>1
    <3>3. QED
      BY <1>1, <1>2, <3>1, <3>2
  <2>3. QED
    BY <2>1, <2>2
<1>5. n + m = hi - lo
  BY <1>1, <1>2
<1>6. IsRun(r, lo, hi)
  BY <1>1, <1>3, <1>4, <1>5 DEF IsRun
<1>7. QED
  BY <1>6 DEF r

-----------------------------------------------------------------------------
(* Hfp: the hands-free profile *)

HfpCommands == 1..MaxCommands
HfpLines    == 0..MaxCommands
HfpResults  == {-1} \cup HfpCommands
HfpLives    == {"up", "disconnect", "destroyed", "down", "freed"}

HfpTypes ==
    /\ hf_life \in HfpLives /\ gw_life \in HfpLives
    /\ hf_sent \in 0..MaxCommands /\ cmd_queue \in Seq(HfpCommands) /\ hf_told \in Seq(HfpCommands \X HfpCommands)
    /\ hf_write_buf \in Seq(HfpCommands) /\ Len(hf_write_buf) <= BufSize
    /\ hf_line \in Seq(HfpLines) /\ gw_read_buf \in Seq(HfpLines) /\ Len(gw_read_buf) <= BufSize
    /\ gw_write_buf \in Seq(HfpResults) /\ Len(gw_write_buf) <= BufSize /\ gw_line \in Seq(HfpResults)
    /\ gw_handled \in Seq(HfpCommands)
    /\ {hf_writer_active, gw_writer_active, gw_reads, result_pending, gw_again} \subseteq BOOLEAN

\* gw's handlers have one command at a time, and none while the input is processed.
HfpTurns ==
    /\ gw_at \in 0..MaxCommands /\ (gw_at # 0 <=> result_pending)
    /\ gw_again => ~result_pending

\* The commands whose results are on their way or wanted, and those that gw has not seen.
HfpAnswers(line, buf, at) == Filter((line \o buf) \o <<at>>, HfpCommands)
HfpAsks(read, line, buf)  == Filter((read \o line) \o buf, HfpCommands)

\* Commands are numbered as they are sent: hf has been told of the first ones, the next
\* ones were handled, the others were not, and all but the first ones are waited for.
HfpOrdered(answers, asks, queue, told, handled, sent) ==
    /\ IsRun(answers, Len(told), Len(handled)) /\ IsRun(asks, Len(handled), sent) /\ queue = answers \o asks
    /\ (\A i \in 1..Len(told) : told[i] = <<i, i>>) /\ (\A i \in 1..Len(handled) : handled[i] = i)

HfpOrder ==
    hfp_slip = "none" /\ hf_life = "up" =>
        HfpOrdered(HfpAnswers(gw_line, gw_write_buf, gw_at), HfpAsks(gw_read_buf, hf_line, hf_write_buf),
                   cmd_queue, hf_told, gw_handled, hf_sent)

HfpInv == HfpTypes /\ HfpTurns /\ HfpOrder /\ Hfp!NothingWaits

\* The names that Hfp has for things known here.
LEMMA HfpLibrary ==
    /\ \A q, S : Hfp!Filter(q, S) = Filter(q, S)
    /\ Hfp!Commands = HfpCommands /\ Hfp!Trash = 0 /\ \A e : Hfp!Event(e) = -1
    /\ MaxCommands \in Nat /\ BufSize \in Nat
    /\ 0 \notin HfpCommands /\ -1 \notin HfpCommands /\ HfpCommands \subseteq Int /\ HfpLines \subseteq Int /\ HfpResults \subseteq Int
<1>1. \A q, S : Hfp!Filter(q, S) = Filter(q, S)
  BY Zenon DEF Filter, Hfp!Filter
<1>2. MaxCommands \in Nat /\ BufSize \in Nat
  BY ConstantsAssumption DEF Hfp!ConstantsOK
<1>3. Hfp!Commands = HfpCommands /\ Hfp!Trash = 0 /\ \A e : Hfp!Event(e) = -1
  BY DEF Hfp!Commands, HfpCommands, Hfp!Trash, Hfp!Event
<1>4. 0 \notin HfpCommands /\ -1 \notin HfpCommands /\ HfpCommands \subseteq Int /\ HfpLines \subseteq Int /\ HfpResults \subseteq Int
  BY <1>2 DEF HfpCommands, HfpLines, HfpResults
<1>5. QED
  BY <1>1, <1>2, <1>3, <1>4

\* The first element of a, b and c is picked first, if it is.
FirstPicked(a, b, c, S, T) ==
    /\ Head(a) \in T /\ Tail(a) \in Seq(T) /\ Filter((Tail(a) \o b) \o c, S) \in Seq(T)
    /\ Filter((a \o b) \o c, S) = IF Head(a) \in S THEN <<Head(a)>> \o Filter((Tail(a) \o b) \o c, S) ELSE Filter((Tail(a) \o b) \o c, S)

\* Picking from three lists one after the other, the first of which is not empty.
LEMMA FilterJoined ==
    ASSUME NEW T, NEW a \in Seq(T), a # <<>>, NEW b \in Seq(T), NEW c \in Seq(T), NEW S
    PROVE  FirstPicked(a, b, c, S, T)
<1> DEFINE h == Head(a)
           t == Tail(a)
           f == <<h>>
<1>1. h \in T /\ t \in Seq(T) /\ a = f \o t
  BY HeadAndTail
<1>2. f \in Seq(T)
  BY <1>1
<1>3. Filter(f \o ((t \o b) \o c), S) = IF h \in S THEN f \o Filter((t \o b) \o c, S) ELSE Filter((t \o b) \o c, S)
  <2> HIDE DEF h, t
  <2>1. (t \o b) \o c \in Seq(T)
    BY <1>1, ConcatProperties
  <2> DEFINE q == (t \o b) \o c
  <2>2. q \in Seq(T)
    BY <2>1
  <2> HIDE DEF q
  <2>3. Filter(<<h>> \o q, S) = IF h \in S THEN <<h>> \o Filter(q, S) ELSE Filter(q, S)
    <3>1. h \in T
      BY <1>1
    <3>2. QED
      BY <2>2, <3>1, FilterFirst, SMTT(30)
  <2>4. QED
    BY <2>3, Zenon DEF q
<1> HIDE DEF h, t, f
<1>4. t \o b \in Seq(T) /\ (t \o b) \o c \in Seq(T)
  BY <1>1, ConcatProperties
<1>5. (f \o t) \o b = f \o (t \o b)
  <2>1. Regroups(f, t, b)
    BY <1>1, <1>2, Regroup
  <2>2. QED
    BY <2>1, Zenon DEF Regroups
<1>6. (f \o (t \o b)) \o c = f \o ((t \o b) \o c)
  <2>1. Regroups(f, t \o b, c)
    BY <1>2, <1>4, Regroup
  <2>2. QED
    BY <2>1, Zenon DEF Regroups
<1>7. (a \o b) \o c = f \o ((t \o b) \o c)
  BY <1>1, <1>5, <1>6
<1>8. Filter((t \o b) \o c, S) \in Seq(T)
  BY <1>4, FilterRange
<1>9. QED
  BY <1>1, <1>3, <1>7, <1>8, Zenon DEF h, t, f, FirstPicked

\* What is on the way to hf, also when x is added to it.
HfpAnswering(l, b, x, at, T) ==
    /\ HfpAnswers(l, b, at) \in Seq(T)
    /\ HfpAnswers(l, b, at) = IF at \in HfpCommands THEN Append(Filter(l \o b, HfpCommands), at) ELSE Filter(l \o b, HfpCommands)
    /\ Append(b, x) \in Seq(T)
    /\ Filter(l \o Append(b, x), HfpCommands) = IF x \in HfpCommands THEN Append(Filter(l \o b, HfpCommands), x) ELSE Filter(l \o b, HfpCommands)

\* Adding to the lines that go to hf.
LEMMA HfpAnswersAre ==
    ASSUME NEW T, NEW l \in Seq(T), NEW b \in Seq(T), NEW x \in T, NEW at \in T
    PROVE  HfpAnswering(l, b, x, at, T)
<1> DEFINE q == l \o b
<1>1. q \in Seq(T) /\ l \o Append(b, x) = Append(q, x)
  BY ConcatProperties, ConcatAppend
<1> HIDE DEF q
<1>2. q \o <<at>> = Append(q, at) /\ Append(q, at) \in Seq(T)
  BY <1>1, AppendIsConcat, AppendProperties
<1>3. Filter(q \o <<at>>, HfpCommands) = IF at \in HfpCommands THEN Append(Filter(q, HfpCommands), at) ELSE Filter(q, HfpCommands)
  <2>1. Filter(Append(q, at), HfpCommands) = IF at \in HfpCommands THEN Append(Filter(q, HfpCommands), at) ELSE Filter(q, HfpCommands)
    BY <1>1, FilterAppend
  <2>2. QED
    BY <1>2, <2>1, Zenon
<1>4. Filter(q \o <<at>>, HfpCommands) \in Seq(T)
  <2>1. Filter(Append(q, at), HfpCommands) \in Seq(T)
    BY <1>2, FilterRange
  <2>2. QED
    BY <1>2, <2>1, Zenon
<1>5. Filter(Append(q, x), HfpCommands) = IF x \in HfpCommands THEN Append(Filter(q, HfpCommands), x) ELSE Filter(q, HfpCommands)
  BY <1>1, FilterAppend
<1>6. HfpAnswers(l, b, at) = Filter(q \o <<at>>, HfpCommands)
  BY Zenon DEF q, HfpAnswers
<1>7. Append(b, x) \in Seq(T)
  BY AppendProperties
<1>8. Filter(l \o Append(b, x), HfpCommands) = IF x \in HfpCommands THEN Append(Filter(q, HfpCommands), x) ELSE Filter(q, HfpCommands)
  BY <1>1, <1>5, Zenon
<1>9. QED
  BY <1>3, <1>4, <1>6, <1>7, <1>8, Zenon DEF q, HfpAnswering

\* Lines that go to hf move from the buffer to the line.
LEMMA HfpAnswersMove ==
    ASSUME NEW T, NEW l \in Seq(T), NEW b \in Seq(T), NEW at \in T, NEW n \in Nat, n <= Len(b)
    PROVE  HfpAnswers(l \o SubSeq(b, 1, n), SubSeq(b, n + 1, Len(b)), at) = HfpAnswers(l, b, at)
<1>1. l \o b = (l \o SubSeq(b, 1, n)) \o SubSeq(b, n + 1, Len(b))
  <2>1. IsCut(l, b, n, T)
    BY CutAndJoined
  <2>2. QED
    BY <2>1 DEF IsCut
<1>2. QED
  BY <1>1, Zenon DEF HfpAnswers

\* The lines that go to gw.
LEMMA HfpAsksAre ==
    ASSUME NEW T, NEW r \in Seq(T), NEW l \in Seq(T), NEW w \in Seq(T), NEW x \in T
    PROVE  /\ HfpAsks(r, l, w) \in Seq(T)
           /\ x \in HfpCommands => HfpAsks(r, l, Append(w, x)) = Append(HfpAsks(r, l, w), x)
           /\ x \notin HfpCommands => HfpAsks(r, Append(l, x), w) = HfpAsks(r, l, w)
<1> DEFINE q == r \o l
<1>1. q \in Seq(T) /\ r \o Append(l, x) = Append(q, x)
  BY ConcatProperties, ConcatAppend
<1> HIDE DEF q
<1>2. q \o w \in Seq(T) /\ q \o Append(w, x) = Append(q \o w, x) /\ Append(q, x) \in Seq(T)
  <2>1. q \o w \in Seq(T)
    BY <1>1, ConcatProperties
  <2>2. q \o Append(w, x) = Append(q \o w, x)
    <3>1. q \in Seq(T)
      BY <1>1
    <3>2. QED
      BY <3>1, ConcatAppend
  <2>3. Append(q, x) \in Seq(T)
    BY <1>1, AppendProperties
  <2>4. QED
    BY <2>1, <2>2, <2>3
<1>3. HfpAsks(r, l, w) = Filter(q \o w, HfpCommands)
  BY Zenon DEF q, HfpAsks
<1>4. HfpAsks(r, l, w) \in Seq(T)
  <2>1. Filter(q \o w, HfpCommands) \in Seq(T)
    BY <1>2, FilterRange
  <2>2. QED
    BY <1>3, <2>1
<1>5. ASSUME x \in HfpCommands PROVE HfpAsks(r, l, Append(w, x)) = Append(HfpAsks(r, l, w), x)
  <2> DEFINE p == q \o w
  <2>1. p \in Seq(T)
    BY <1>2
  <2> HIDE DEF p
  <2>2. Filter(Append(p, x), HfpCommands) = Append(Filter(p, HfpCommands), x)
    <3>1. Filter(Append(p, x), HfpCommands) = IF x \in HfpCommands THEN Append(Filter(p, HfpCommands), x) ELSE Filter(p, HfpCommands)
      BY <2>1, FilterAppend
    <3>2. QED
      BY <1>5, <3>1
  <2>3. HfpAsks(r, l, Append(w, x)) = Filter(q \o Append(w, x), HfpCommands)
    BY Zenon DEF q, HfpAsks
  <2>4. QED
    BY <1>2, <1>3, <2>2, <2>3, Zenon DEF p
<1>6. ASSUME x \notin HfpCommands PROVE HfpAsks(r, Append(l, x), w) = HfpAsks(r, l, w)
  <2>1. Filter(Append(q, x), HfpCommands) = Filter(q, HfpCommands)
    BY <1>1, <1>6, FilterAppend
  <2>2. Filter(Append(q, x) \o w, HfpCommands) = Filter(Append(q, x), HfpCommands) \o Filter(w, HfpCommands)
    <3>1. Append(q, x) \in Seq(T)
      BY <1>2
    <3> DEFINE p == Append(q, x)
    <3>2. p \in Seq(T)
      BY <3>1
    <3> HIDE DEF p
    <3>3. Filter(p \o w, HfpCommands) = Filter(p, HfpCommands) \o Filter(w, HfpCommands)
      BY <3>2, FilterConcat, SMTT(30)
    <3>4. QED
      BY <3>3, Zenon DEF p
  <2>3. Filter(q \o w, HfpCommands) = Filter(q, HfpCommands) \o Filter(w, HfpCommands)
    BY <1>1, FilterConcat, SMTT(30)
  <2>4. HfpAsks(r, Append(l, x), w) = Filter(Append(q, x) \o w, HfpCommands)
    BY <1>1, Zenon DEF HfpAsks
  <2>5. QED
    BY <1>3, <2>1, <2>2, <2>3, <2>4, Zenon
<1>7. QED
  BY <1>4, <1>5, <1>6

\* Lines that go to gw move from a buffer to the line, and from the line to a buffer.
LEMMA HfpAsksMove ==
    ASSUME NEW T, NEW r \in Seq(T), NEW l \in Seq(T), NEW w \in Seq(T), NEW n \in Nat
    PROVE  /\ n <= Len(w) => HfpAsks(r, l \o SubSeq(w, 1, n), SubSeq(w, n + 1, Len(w))) = HfpAsks(r, l, w)
           /\ n <= Len(l) => HfpAsks(r \o SubSeq(l, 1, n), SubSeq(l, n + 1, Len(l)), w) = HfpAsks(r, l, w)
<1>1. ASSUME n <= Len(w) PROVE HfpAsks(r, l \o SubSeq(w, 1, n), SubSeq(w, n + 1, Len(w))) = HfpAsks(r, l, w)
  <2> DEFINE c == SubSeq(w, 1, n)
             d == SubSeq(w, n + 1, Len(w))
             q == r \o l
  <2>1. q \in Seq(T)
    BY ConcatProperties
  <2> HIDE DEF q
  <2>2. c \in Seq(T) /\ q \o w = (q \o c) \o d
    <3>1. IsCut(q, w, n, T)
      BY <1>1, <2>1, CutAndJoined
    <3>2. QED
      BY <3>1 DEF IsCut
  <2> HIDE DEF c, d
  <2>3. (r \o l) \o c = r \o (l \o c)
    <3>1. c \in Seq(T)
      BY <2>2
    <3>2. Regroups(r, l, c)
      BY <3>1, Regroup
    <3>3. QED
      BY <3>2, Zenon DEF Regroups
  <2>4. (r \o (l \o c)) \o d = (r \o l) \o w
    BY <2>2, <2>3, Zenon DEF q
  <2>5. QED
    BY <2>4, Zenon DEF HfpAsks, c, d
<1>2. ASSUME n <= Len(l) PROVE HfpAsks(r \o SubSeq(l, 1, n), SubSeq(l, n + 1, Len(l)), w) = HfpAsks(r, l, w)
  <2>1. r \o l = (r \o SubSeq(l, 1, n)) \o SubSeq(l, n + 1, Len(l))
    <3>1. IsCut(r, l, n, T)
      BY <1>2, CutAndJoined
    <3>2. QED
      BY <3>1 DEF IsCut
  <2>2. QED
    BY <2>1, Zenon DEF HfpAsks
<1>3. QED
  BY <1>1, <1>2

\* A command is sent.
LEMMA HfpOrderedSent ==
    ASSUME NEW answers, NEW asks, NEW queue, NEW told, NEW handled, NEW sent,
           HfpOrdered(answers, asks, queue, told, handled, sent)
    PROVE  HfpOrdered(answers, Append(asks, sent + 1), Append(queue, sent + 1), told, handled, sent + 1)
<1>1. IsRun(asks, Len(handled), sent)
  BY DEF HfpOrdered
<1>2. IsRun(Append(asks, sent + 1), Len(handled), sent + 1)
  BY <1>1, RunGrows
<1>3. answers \o Append(asks, sent + 1) = Append(queue, sent + 1)
  <2>1. answers \in Seq(Int) /\ asks \in Seq(Int) /\ sent + 1 \in Int /\ queue = answers \o asks
    BY DEF HfpOrdered, IsRun
  <2> DEFINE x == sent + 1
  <2>2. x \in Int
    BY <2>1
  <2> HIDE DEF x
  <2>3. answers \o Append(asks, x) = Append(answers \o asks, x)
    BY <2>1, <2>2, ConcatAppend
  <2>4. QED
    BY <2>1, <2>3, Zenon DEF x
<1>4. QED
  BY <1>2, <1>3 DEF HfpOrdered

\* gw takes up the next command.
LEMMA HfpOrderedHandled ==
    ASSUME NEW answers, NEW c \in Int, NEW rest \in Seq(Int), NEW queue, NEW told, NEW handled, NEW sent, handled \in Seq(Int),
           HfpOrdered(answers, <<c>> \o rest, queue, told, handled, sent)
    PROVE  HfpOrdered(Append(answers, c), rest, queue, told, Append(handled, c), sent)
<1> DEFINE n == Len(handled)
<1>1. IsRun(answers, Len(told), n) /\ IsRun(<<c>> \o rest, n, sent)
  BY DEF HfpOrdered
<1>2. c = n + 1 /\ IsRun(rest, n + 1, sent)
  BY <1>1, RunShrinks
<1>3. IsRun(Append(answers, c), Len(told), n + 1)
  BY <1>1, <1>2, RunGrows
<1>4. Append(handled, c) \in Seq(Int) /\ Len(Append(handled, c)) = n + 1 /\ n \in Nat
      /\ (\A i \in 1..n : Append(handled, c)[i] = handled[i]) /\ Append(handled, c)[n + 1] = c
  BY AppendProperties, LenProperties
<1>5. \A i \in 1..n : handled[i] = i
  BY DEF HfpOrdered
<1> DEFINE r == Append(handled, c)
<1>6. \A i \in 1..n + 1 : r[i] = i
  <2> HIDE DEF n, r
  <2> TAKE i \in 1..n + 1
  <2>1. CASE i = n + 1
    BY <1>2, <1>4, <2>1 DEF r
  <2>2. CASE i # n + 1
    <3>1. i \in 1..n
      BY <1>4, <2>2
    <3>2. QED
      BY <1>4, <1>5, <3>1 DEF r
  <2>3. QED
    BY <2>1, <2>2
<1>7. queue = Append(answers, c) \o rest
  <2> DEFINE f == <<c>>
  <2>1. answers \in Seq(Int) /\ f \in Seq(Int)
    BY <1>1 DEF IsRun
  <2>2. Append(answers, c) = answers \o f
    BY <2>1, AppendIsConcat
  <2>3. queue = answers \o (f \o rest)
    BY DEF HfpOrdered
  <2> HIDE DEF f
  <2>4. (answers \o f) \o rest = answers \o (f \o rest)
    <3>1. Regroups(answers, f, rest)
      BY <2>1, Regroup
    <3>2. QED
      BY <3>1, Zenon DEF Regroups
  <2>5. QED
    BY <2>2, <2>3, <2>4, Zenon
<1>8. \A i \in 1..Len(told) : told[i] = <<i, i>>
  BY DEF HfpOrdered
<1> HIDE DEF n
<1>9. Len(r) = n + 1
  BY <1>4
<1> HIDE DEF r
<1>10. HfpOrdered(Append(answers, c), rest, queue, told, r, sent)
  BY <1>2, <1>3, <1>6, <1>7, <1>8, <1>9 DEF HfpOrdered
<1>11. QED
  BY <1>10 DEF r

\* hf is told of a result: it belongs to the command that has waited longest.
LEMMA HfpOrderedTold ==
    ASSUME NEW rest \in Seq(Int), NEW c \in Int, NEW asks, NEW queue, NEW told, NEW handled, NEW sent, NEW U, told \in Seq(U), <<c, c>> \in U,
           HfpOrdered(<<c>> \o rest, asks, queue, told, handled, sent), sent <= MaxCommands
    PROVE  /\ queue # <<>> /\ Head(queue) = c
           /\ HfpOrdered(rest, asks, Filter(queue, HfpCommands \ {c}), Append(told, <<c, c>>), handled, sent)
<1> DEFINE f == <<c>>
           n == Len(told)
           others == rest \o asks
<1>0. f \in Seq(Int) /\ IsRun(f \o rest, n, Len(handled)) /\ IsRun(asks, Len(handled), sent) /\ queue = (f \o rest) \o asks
  BY DEF HfpOrdered
<1>1. c = n + 1 /\ IsRun(rest, n + 1, Len(handled))
  BY <1>0, RunShrinks
<1>2. IsRun(queue, n, sent) /\ IsRun(others, n + 1, sent)
  BY <1>0, <1>1, RunsJoined
<1>3. others \in Seq(Int) /\ queue \in Seq(Int) /\ asks \in Seq(Int) /\ Len(queue) = sent - n /\ n \in Nat /\ sent \in Nat
      /\ Len(others) = sent - (n + 1) /\ (\A i \in 1..Len(queue) : queue[i] = n + i)
  BY <1>0, <1>2 DEF IsRun
<1>5. Len(queue) \in Nat /\ Len(others) \in Nat
  BY <1>3, LenProperties
<1>6. queue # <<>> /\ Head(queue) = queue[1] /\ queue[1] = c
  <2>1. Len(queue) # 0
    BY <1>3, <1>5
  <2>2. 1 \in 1..Len(queue)
    BY <1>5, <2>1
  <2>3. queue[1] = n + 1
    BY <1>3, <2>2
  <2>4. queue # <<>>
    BY <2>1
  <2>5. QED
    BY <1>1, <2>3, <2>4
<1>7. Tail(queue) = others
  <2> DEFINE t == Tail(queue)
             m == Len(others)
  <2>1. t \in Seq(Int) /\ Len(t) = Len(queue) - 1 /\ \A i \in 1..Len(t) : t[i] = queue[i + 1]
    BY <1>3, <1>6, HeadTailProperties
  <2>2. m \in Nat /\ Len(t) = m /\ m + 1 = Len(queue)
    BY <1>3, <1>5, <2>1
  <2>3. \A i \in 1..m : others[i] = (n + 1) + i
    BY <1>2 DEF IsRun
  <2> HIDE DEF t, m
  <2>4. \A i \in 1..m : t[i] = others[i]
    <3> TAKE i \in 1..m
    <3>1. i + 1 \in 1..Len(queue)
      BY <2>2
    <3>2. t[i] = n + (i + 1)
      BY <1>3, <2>1, <2>2, <3>1
    <3>3. others[i] = (n + 1) + i
      BY <2>3
    <3>4. n \in Nat /\ i \in Nat
      BY <1>3, <2>2
    <3> HIDE DEF n, others
    <3>5. QED
      BY <3>2, <3>3, <3>4
  <2>5. t \in Seq(Int) /\ others \in Seq(Int) /\ Len(t) = Len(others) /\ \A i \in 1..Len(t) : t[i] = others[i]
    BY <1>3, <2>1, <2>2, <2>4 DEF m
  <2> HIDE DEF others
  <2>6. t = others
    BY <2>5, SeqEqual
  <2>7. QED
    BY <2>6 DEF t
<1>8. Filter(queue, HfpCommands \ {c}) = Tail(queue)
  <2> DEFINE S == HfpCommands \ {c}
             m == Len(queue)
  <2>1. ASSUME NEW j \in 2..m PROVE queue[j] \in S
    <3> HIDE DEF m
    <3>1. m \in Nat /\ m = sent - n /\ MaxCommands \in Nat
      BY <1>3, <1>5, HfpLibrary DEF m
    <3>2. j \in 1..m /\ n + j \in 1..MaxCommands /\ n + j # c
      BY <1>1, <1>3, <3>1
    <3>3. queue[j] = n + j
      BY <1>3, <3>2 DEF m
    <3>4. QED
      BY <3>2, <3>3 DEF HfpCommands
  <2>2. Head(queue) \notin S
    BY <1>6
  <2> HIDE DEF S
  <2>3. QED
    <3>1. Filter(queue, S) = Tail(queue)
      BY <1>3, <1>6, <2>1, <2>2, FilterTail
    <3>2. QED
      BY <3>1 DEF S
<1>9. Filter(queue, HfpCommands \ {c}) = rest \o asks
  BY <1>7, <1>8
<1>10. Len(Append(told, <<c, c>>)) = n + 1 /\ (\A i \in 1..n : Append(told, <<c, c>>)[i] = told[i]) /\ Append(told, <<c, c>>)[n + 1] = <<c, c>>
  BY AppendProperties
<1>11. \A i \in 1..n : told[i] = <<i, i>>
  BY DEF HfpOrdered
<1> DEFINE r == Append(told, <<c, c>>)
<1>12. \A i \in 1..n + 1 : r[i] = <<i, i>>
  <2> HIDE DEF n, r
  <2> TAKE i \in 1..n + 1
  <2>1. CASE i = n + 1
    BY <1>1, <1>10, <2>1 DEF r
  <2>2. CASE i # n + 1
    <3>1. i \in 1..n
      BY <1>3, <2>2
    <3>2. QED
      BY <1>10, <1>11, <3>1 DEF r
  <2>3. QED
    BY <2>1, <2>2
<1>13. \A i \in 1..Len(handled) : handled[i] = i
  BY DEF HfpOrdered
<1>14. Len(r) = n + 1
  BY <1>10
<1> HIDE DEF r, n
<1>15. HfpOrdered(rest, asks, rest \o asks, r, handled, sent)
  BY <1>0, <1>1, <1>12, <1>13, <1>14 DEF HfpOrdered
<1>16. QED
  BY <1>6, <1>9, <1>15, Zenon DEF r

\* The lists are lists of numbers.
LEMMA HfpInts ==
    ASSUME HfpTypes, HfpTurns
    PROVE  /\ cmd_queue \in Seq(Int) /\ hf_write_buf \in Seq(Int) /\ hf_line \in Seq(Int) /\ gw_read_buf \in Seq(Int)
           /\ gw_write_buf \in Seq(Int) /\ gw_line \in Seq(Int) /\ gw_handled \in Seq(Int) /\ gw_at \in Int
<1> USE DEF HfpTypes
<1>1. HfpCommands \subseteq Int /\ HfpLines \subseteq Int /\ HfpResults \subseteq Int /\ MaxCommands \in Nat
  BY HfpLibrary
<1>2. cmd_queue \in Seq(Int) /\ hf_write_buf \in Seq(Int) /\ gw_handled \in Seq(Int)
  BY <1>1, SeqWider
<1>3. hf_line \in Seq(Int) /\ gw_read_buf \in Seq(Int)
  BY <1>1, SeqWider
<1>4. gw_write_buf \in Seq(Int) /\ gw_line \in Seq(Int)
  BY <1>1, SeqWider
<1>5. gw_at \in Int
  BY <1>1 DEF HfpTurns
<1>6. QED
  BY <1>2, <1>3, <1>4, <1>5

\* The lengths of the parts of a list.
LEMMA CutLengths ==
    ASSUME NEW T, NEW b \in Seq(T), NEW n \in Nat, n <= Len(b)
    PROVE  /\ SubSeq(b, 1, n) \in Seq(T) /\ Len(SubSeq(b, 1, n)) = n
           /\ SubSeq(b, n + 1, Len(b)) \in Seq(T) /\ Len(SubSeq(b, n + 1, Len(b))) = Len(b) - n
<1> DEFINE m == Len(b)
<1>1. m \in Nat /\ (\A i \in 1..m : b[i] \in T) /\ n <= m
  BY LenProperties, ElementOfSeq
<1> HIDE DEF m
<1>2. (\A i \in 1..n : b[i] \in T) /\ (\A i \in n + 1..m : b[i] \in T)
  BY <1>1
<1>3. SubSeq(b, 1, n) \in Seq(T) /\ Len(SubSeq(b, 1, n)) = IF 1 <= n THEN n - 1 + 1 ELSE 0
  BY <1>2, SubSeqProperties
<1>4. SubSeq(b, n + 1, m) \in Seq(T) /\ Len(SubSeq(b, n + 1, m)) = IF n + 1 <= m THEN m - (n + 1) + 1 ELSE 0
  <2> DEFINE k == n + 1
  <2>1. k \in Int /\ m \in Int /\ \A i \in k..m : b[i] \in T
    BY <1>1, <1>2
  <2> HIDE DEF k
  <2>2. SubSeq(b, k, m) \in Seq(T) /\ Len(SubSeq(b, k, m)) = IF k <= m THEN m - k + 1 ELSE 0
    BY <2>1, SubSeqProperties
  <2>3. QED
    BY <2>2 DEF k
<1>5. Len(SubSeq(b, 1, n)) = n
  BY <1>3
<1>6. Len(SubSeq(b, n + 1, m)) = m - n
  BY <1>1, <1>4
<1>7. QED
  BY <1>3, <1>4, <1>5, <1>6 DEF m

\* What is on its way stays the same, and so does all that is said of it.
LEMMA HfpOrderSame ==
    ASSUME HfpOrder, hfp_slip' = "none" => hfp_slip = "none", hf_life' = "up" => hf_life = "up",
           HfpAnswers(gw_line, gw_write_buf, gw_at)' = HfpAnswers(gw_line, gw_write_buf, gw_at),
           HfpAsks(gw_read_buf, hf_line, hf_write_buf)' = HfpAsks(gw_read_buf, hf_line, hf_write_buf),
           hf_life' = "up" => cmd_queue' = cmd_queue, hf_told' = hf_told, gw_handled' = gw_handled, hf_sent' = hf_sent
    PROVE  HfpOrder'
BY DEF HfpOrder

\* hfp_hf_send_command
LEMMA HfpSends ==
    ASSUME HfpInv, Hfp!hfp_hf_send_command
    PROVE  HfpInv'
<1> USE DEF HfpInv
<1>0. MaxCommands \in Nat /\ BufSize \in Nat
  BY HfpLibrary
<1>1. /\ hfp_slip = "none" /\ hf_life = "up" /\ hf_sent < MaxCommands /\ Len(hf_write_buf) < BufSize
      /\ hf_sent' = hf_sent + 1 /\ hf_write_buf' = Append(hf_write_buf, hf_sent + 1) /\ cmd_queue' = Append(cmd_queue, hf_sent + 1)
      /\ hf_writer_active' = (hf_writer_active \/ hf_write_buf' # <<>>)
      /\ UNCHANGED <<hf_life, hf_told, gw_read_buf, gw_reads, result_pending, gw_again, gw_at, gw_handled, gw_write_buf, gw_writer_active,
                     gw_life, cmd_handlers, command_callback, hf_line, gw_line, noise, hfp_slip>>
  BY DEF Hfp!hfp_hf_send_command, Hfp!HfIdle, Hfp!Awake, Hfp!gwInput, Hfp!gwOutput, Hfp!gwUsers
<1>2. hf_sent + 1 \in HfpCommands /\ hf_sent' \in 0..MaxCommands /\ hf_sent \in Nat
  BY <1>0, <1>1 DEF HfpTypes, HfpCommands
<1>3. /\ hf_write_buf' \in Seq(HfpCommands) /\ Len(hf_write_buf') = Len(hf_write_buf) + 1 /\ hf_write_buf' # <<>>
      /\ cmd_queue' \in Seq(HfpCommands)
  <2>1. hf_write_buf \in Seq(HfpCommands) /\ cmd_queue \in Seq(HfpCommands) /\ hf_sent + 1 \in HfpCommands
    BY <1>2 DEF HfpTypes
  <2>2. ASSUME NEW T, NEW q \in Seq(T), NEW e \in T
        PROVE  Append(q, e) \in Seq(T) /\ Len(Append(q, e)) = Len(q) + 1 /\ Append(q, e) # <<>>
    BY AppendProperties
  <2>3. /\ Append(hf_write_buf, hf_sent + 1) \in Seq(HfpCommands) /\ Append(cmd_queue, hf_sent + 1) \in Seq(HfpCommands)
        /\ Len(Append(hf_write_buf, hf_sent + 1)) = Len(hf_write_buf) + 1 /\ Append(hf_write_buf, hf_sent + 1) # <<>>
    BY <2>1, <2>2, Zenon
  <2>4. QED
    BY <1>1, <2>3, Zenon
<1>4. HfpTypes'
  <2>1. Len(hf_write_buf') <= BufSize
    <3>1. Len(hf_write_buf) \in Nat
      BY LenProperties DEF HfpTypes
    <3>2. QED
      BY <1>0, <1>1, <1>3, <3>1
  <2>2. hf_writer_active' = TRUE
    BY <1>1, <1>3
  <2>3. QED
    BY <1>1, <1>2, <1>3, <2>1, <2>2 DEF HfpTypes
<1>5. HfpTurns'
  BY <1>1 DEF HfpTurns
<1>6. HfpOrder'
  <2> DEFINE x == hf_sent + 1
  <2>1. x \in HfpCommands /\ x \in Int
    BY <1>2
  <2> HIDE DEF x
  <2>2. gw_read_buf \in Seq(Int) /\ hf_line \in Seq(Int) /\ hf_write_buf \in Seq(Int)
    BY HfpInts
  <2>3. HfpAsks(gw_read_buf, hf_line, Append(hf_write_buf, x)) = Append(HfpAsks(gw_read_buf, hf_line, hf_write_buf), x)
    BY <2>1, <2>2, HfpAsksAre
  <2>4. HfpAsks(gw_read_buf, hf_line, hf_write_buf)' = Append(HfpAsks(gw_read_buf, hf_line, hf_write_buf), hf_sent + 1)
    BY <1>1, <2>3 DEF x
  <2>5. HfpAnswers(gw_line, gw_write_buf, gw_at)' = HfpAnswers(gw_line, gw_write_buf, gw_at)
    BY <1>1
  <2> DEFINE answers == HfpAnswers(gw_line, gw_write_buf, gw_at)
             asks == HfpAsks(gw_read_buf, hf_line, hf_write_buf)
  <2>6. HfpOrdered(answers, asks, cmd_queue, hf_told, gw_handled, hf_sent)
    BY <1>1 DEF HfpOrder
  <2>7. HfpOrdered(answers, Append(asks, hf_sent + 1), Append(cmd_queue, hf_sent + 1), hf_told, gw_handled, hf_sent + 1)
    <3> HIDE DEF answers, asks
    <3>1. QED
      BY <2>6, HfpOrderedSent
  <2>8. QED
    BY <1>1, <2>4, <2>5, <2>7, Zenon DEF HfpOrder
<1>7. Hfp!NothingWaits'
  BY <1>1, <1>3 DEF Hfp!NothingWaits
<1>8. QED
  BY <1>4, <1>5, <1>6, <1>7

\* hf_can_write_data
LEMMA HfpHfWrites ==
    ASSUME HfpInv, NEW n \in 1..BufSize, Hfp!hf_can_write_data(n)
    PROVE  HfpInv'
<1> USE DEF HfpInv
<1>0. MaxCommands \in Nat /\ BufSize \in Nat /\ n \in Nat
  BY HfpLibrary
<1> DEFINE p == SubSeq(hf_write_buf, 1, n)
           r == SubSeq(hf_write_buf, n + 1, Len(hf_write_buf))
<1>1. /\ hfp_slip = "none" /\ hf_life = "up" /\ n <= Len(hf_write_buf)
      /\ hf_line' = hf_line \o p /\ hf_write_buf' = r /\ hf_writer_active' = (hf_write_buf' # <<>>)
      /\ UNCHANGED <<hf_life, hf_sent, cmd_queue, hf_told, gw_read_buf, gw_reads, result_pending, gw_again, gw_at, gw_handled, gw_write_buf,
                     gw_writer_active, gw_life, cmd_handlers, command_callback, gw_line, noise, hfp_slip>>
  BY DEF Hfp!hf_can_write_data, Hfp!HfIdle, Hfp!gwInput, Hfp!gwOutput, Hfp!gwUsers
<1>2. p \in Seq(HfpCommands) /\ r \in Seq(HfpCommands) /\ Len(r) = Len(hf_write_buf) - n
  BY <1>0, <1>1, CutLengths DEF HfpTypes
<1>3. HfpAsks(gw_read_buf, hf_line \o p, r) = HfpAsks(gw_read_buf, hf_line, hf_write_buf)
  BY <1>0, <1>1, HfpInts, HfpAsksMove
<1> HIDE DEF p, r
<1>4. HfpTypes'
  <2>1. HfpCommands \subseteq HfpLines
    BY <1>0 DEF HfpCommands, HfpLines
  <2>2. p \in Seq(HfpLines)
    BY <1>2, <2>1, SeqWider
  <2>3. hf_line' \in Seq(HfpLines)
    <3>1. hf_line \in Seq(HfpLines)
      BY DEF HfpTypes
    <3>2. QED
      BY <1>1, <2>2, <3>1, ConcatProperties
  <2>4. Len(hf_write_buf') <= BufSize
    <3>1. Len(hf_write_buf) \in Nat /\ Len(hf_write_buf) <= BufSize
      BY LenProperties DEF HfpTypes
    <3>2. QED
      BY <1>0, <1>1, <1>2, <3>1
  <2>5. hf_writer_active' \in BOOLEAN
    BY <1>1
  <2>6. QED
    BY <1>1, <1>2, <2>3, <2>4, <2>5 DEF HfpTypes
<1>5. HfpTurns'
  BY <1>1 DEF HfpTurns
<1>6. HfpOrder'
  <2>1. HfpAsks(gw_read_buf, hf_line, hf_write_buf)' = HfpAsks(gw_read_buf, hf_line, hf_write_buf)
    BY <1>1, <1>3
  <2>2. HfpAnswers(gw_line, gw_write_buf, gw_at)' = HfpAnswers(gw_line, gw_write_buf, gw_at)
    BY <1>1
  <2>3. QED
    BY <1>1, <2>1, <2>2, HfpOrderSame
<1>7. Hfp!NothingWaits'
  BY <1>1 DEF Hfp!NothingWaits
<1>8. QED
  BY <1>4, <1>5, <1>6, <1>7

\* hf_call_prefix_handler
LEMMA HfpHfReads ==
    ASSUME HfpInv, Hfp!hf_call_prefix_handler
    PROVE  HfpInv'
<1> USE DEF HfpInv
<1>0. MaxCommands \in Nat /\ BufSize \in Nat
  BY HfpLibrary
<1> DEFINE line == Head(gw_line)
           cmd == Hfp!Takes(cmd_queue)
           result == line > 0
<1>1. /\ hfp_slip = "none" /\ hf_life = "up" /\ gw_line # <<>> /\ gw_line' = Tail(gw_line)
      /\ hf_told' = IF result /\ cmd # 0 THEN Append(hf_told, <<cmd, line>>) ELSE hf_told
      /\ cmd_queue' = IF result THEN Filter(cmd_queue, HfpCommands \ {cmd}) ELSE cmd_queue
      /\ hf_writer_active' = (IF result /\ cmd # 0 THEN hf_writer_active \/ hf_write_buf # <<>> ELSE hf_writer_active)
      /\ UNCHANGED <<hf_life, hf_sent, hf_write_buf, gw_read_buf, gw_reads, result_pending, gw_again, gw_at, gw_handled, gw_write_buf,
                     gw_writer_active, gw_life, cmd_handlers, command_callback, hf_line, noise, hfp_slip>>
  BY HfpLibrary DEF Hfp!hf_call_prefix_handler, Hfp!HfIdle, Hfp!Awake, Hfp!IsResult, Hfp!gwInput, Hfp!gwOutput, Hfp!gwUsers
<1>2. line \in HfpResults /\ gw_line' \in Seq(HfpResults) /\ line \in Int /\ (result <=> line \in HfpCommands)
  <2>1. line \in HfpResults /\ gw_line' \in Seq(HfpResults)
    BY <1>1, HeadTailProperties DEF HfpTypes
  <2> HIDE DEF line
  <2>2. QED
    BY <1>0, <2>1 DEF HfpResults, HfpCommands
<1> DEFINE answers == HfpAnswers(gw_line, gw_write_buf, gw_at)
           asks == HfpAsks(gw_read_buf, hf_line, hf_write_buf)
           rest == HfpAnswers(Tail(gw_line), gw_write_buf, gw_at)
<1>3. HfpOrdered(answers, asks, cmd_queue, hf_told, gw_handled, hf_sent)
  BY <1>1 DEF HfpOrder
<1>4. rest \in Seq(Int) /\ answers = IF result THEN <<line>> \o rest ELSE rest
  <2>1. gw_line \in Seq(Int) /\ gw_write_buf \in Seq(Int) /\ gw_at \in Int
    BY HfpInts
  <2> DEFINE at == <<gw_at>>
  <2>2. at \in Seq(Int)
    BY <2>1
  <2>3. /\ answers = Filter((gw_line \o gw_write_buf) \o at, HfpCommands)
        /\ rest = Filter((Tail(gw_line) \o gw_write_buf) \o at, HfpCommands)
    BY Zenon DEF HfpAnswers
  <2> HIDE DEF at, answers, rest
  <2>4. /\ Filter((Tail(gw_line) \o gw_write_buf) \o at, HfpCommands) \in Seq(Int)
        /\ Filter((gw_line \o gw_write_buf) \o at, HfpCommands) =
              IF Head(gw_line) \in HfpCommands THEN <<Head(gw_line)>> \o Filter((Tail(gw_line) \o gw_write_buf) \o at, HfpCommands)
                                               ELSE Filter((Tail(gw_line) \o gw_write_buf) \o at, HfpCommands)
    <3>1. gw_line # <<>>
      BY <1>1
    <3>2. FirstPicked(gw_line, gw_write_buf, at, HfpCommands, Int)
      BY <2>1, <2>2, <3>1, FilterJoined
    <3>3. QED
      BY <3>2, Zenon DEF FirstPicked
  <2>5. Head(gw_line) \in HfpCommands <=> result
    BY <1>2
  <2> HIDE DEF result
  <2>6. rest \in Seq(Int)
    BY <2>3, <2>4
  <2>7. answers = IF Head(gw_line) \in HfpCommands THEN <<Head(gw_line)>> \o rest ELSE rest
    BY <2>3, <2>4, Zenon
  <2>8. CASE result
    BY <2>5, <2>6, <2>7, <2>8, Zenon DEF line
  <2>9. CASE ~result
    BY <2>5, <2>6, <2>7, <2>9, Zenon DEF line
  <2>10. QED
    BY <2>8, <2>9
<1>5. HfpTurns'
  BY <1>1 DEF HfpTurns
<1>6. HfpAsks(gw_read_buf, hf_line, hf_write_buf)' = asks
  BY <1>1
<1>7. HfpAnswers(gw_line, gw_write_buf, gw_at)' = rest
  BY <1>1
<1>8. CASE ~result
  <2>1. HfpTypes'
    BY <1>1, <1>2, <1>8 DEF HfpTypes
  <2>2. HfpOrder'
    <3>1. HfpAnswers(gw_line, gw_write_buf, gw_at)' = HfpAnswers(gw_line, gw_write_buf, gw_at)
      BY <1>4, <1>7, <1>8
    <3> HIDE DEF result, cmd
    <3>2. QED
      BY <1>1, <1>6, <1>8, <3>1, HfpOrderSame
  <2>3. Hfp!NothingWaits'
    <3> HIDE DEF result, cmd
    <3>1. QED
      BY <1>1, <1>8 DEF Hfp!NothingWaits
  <2>4. QED
    BY <1>5, <2>1, <2>2, <2>3
<1>9. CASE result
  <2> DEFINE U == HfpCommands \X HfpCommands
  <2>1. hf_told \in Seq(U) /\ hf_sent <= MaxCommands
    BY <1>0 DEF HfpTypes
  <2>2. line \in HfpCommands /\ <<line, line>> \in U /\ line # 0
    BY <1>0, <1>2, <1>9 DEF HfpCommands
  <2>3. HfpOrdered(<<line>> \o rest, asks, cmd_queue, hf_told, gw_handled, hf_sent)
    BY <1>3, <1>4, <1>9
  <2>4. rest \in Seq(Int) /\ line \in Int
    BY <1>2, <1>4
  <2> HIDE DEF U, rest, asks, answers, line
  <2>5. /\ cmd_queue # <<>> /\ Head(cmd_queue) = line
        /\ HfpOrdered(rest, asks, Filter(cmd_queue, HfpCommands \ {line}), Append(hf_told, <<line, line>>), gw_handled, hf_sent)
    BY <2>1, <2>2, <2>3, <2>4, HfpOrderedTold
  <2>6. cmd = line
    BY <2>5 DEF Hfp!Takes
  <2> HIDE DEF cmd, result
  <2>7. /\ hf_told' = Append(hf_told, <<line, line>>) /\ cmd_queue' = Filter(cmd_queue, HfpCommands \ {line})
        /\ hf_writer_active' = (hf_writer_active \/ hf_write_buf # <<>>)
    BY <1>1, <1>9, <2>2, <2>6
  <2>8. HfpTypes'
    <3>1. hf_told' \in Seq(U)
      BY <2>1, <2>2, <2>7, AppendProperties
    <3>2. cmd_queue' \in Seq(HfpCommands)
      <4>1. cmd_queue \in Seq(HfpCommands)
        BY DEF HfpTypes
      <4>2. QED
        BY <2>7, <4>1, FilterRange
    <3>3. hf_writer_active' \in BOOLEAN
      BY <2>7
    <3>4. gw_line' \in Seq(HfpResults)
      BY <1>2
    <3>5. QED
      BY <1>1, <3>1, <3>2, <3>3, <3>4 DEF HfpTypes, U
  <2>9. HfpOrder'
    <3>1. HfpOrdered(HfpAnswers(gw_line, gw_write_buf, gw_at), HfpAsks(gw_read_buf, hf_line, hf_write_buf),
                     cmd_queue, hf_told, gw_handled, hf_sent)'
      BY <1>1, <1>6, <1>7, <2>5, <2>7, Zenon
    <3>2. QED
      BY <3>1, Zenon DEF HfpOrder
  <2>10. Hfp!NothingWaits'
    BY <1>1, <2>7 DEF Hfp!NothingWaits
  <2>11. QED
    BY <1>5, <2>8, <2>9, <2>10
<1>10. QED
  BY <1>8, <1>9

\* can_read_data
LEMMA HfpGwReads ==
    ASSUME HfpInv, NEW n \in 1..BufSize, Hfp!can_read_data(n)
    PROVE  HfpInv'
<1> USE DEF HfpInv
<1>0. MaxCommands \in Nat /\ BufSize \in Nat /\ n \in Nat
  BY HfpLibrary
<1> DEFINE p == SubSeq(hf_line, 1, n)
           r == SubSeq(hf_line, n + 1, Len(hf_line))
<1>1. /\ gw_again' = ~result_pending /\ n <= Len(hf_line)
      /\ UNCHANGED <<hf_life, hf_sent, cmd_queue, hf_write_buf, hf_writer_active, hf_told, gw_write_buf, gw_writer_active,
                     gw_life, cmd_handlers, command_callback, result_pending, gw_at, gw_handled, gw_line, noise, hfp_slip>>
      /\ \/ gw_reads' = FALSE /\ gw_read_buf' = gw_read_buf /\ hf_line' = hf_line
         \/ /\ gw_read_buf' = gw_read_buf \o p /\ hf_line' = r /\ gw_reads' = gw_reads
            /\ n <= BufSize - Len(gw_read_buf)
  <2>1. n \in 1..Len(hf_line)
    BY DEF Hfp!can_read_data
  <2>2. n <= Len(hf_line)
    <3> DEFINE m == Len(hf_line)
    <3>1. m \in Nat /\ n \in 1..m
      BY <2>1, LenProperties DEF HfpTypes
    <3> HIDE DEF m
    <3>2. n <= m
      BY <3>1
    <3>3. QED
      BY <3>2 DEF m
  <2>3. QED
    BY <2>2 DEF Hfp!can_read_data, Hfp!hfVars, Hfp!gwOutput, Hfp!gwUsers
<1>2. HfpTurns'
  BY <1>1 DEF HfpTurns, HfpTypes
<1>3. Hfp!NothingWaits'
  BY <1>1 DEF Hfp!NothingWaits, HfpTypes
<1>4. HfpAnswers(gw_line, gw_write_buf, gw_at)' = HfpAnswers(gw_line, gw_write_buf, gw_at)
  BY <1>1
<1>5. CASE gw_reads' = FALSE /\ gw_read_buf' = gw_read_buf /\ hf_line' = hf_line
  <2>1. HfpTypes'
    BY <1>1, <1>5 DEF HfpTypes
  <2>2. HfpAsks(gw_read_buf, hf_line, hf_write_buf)' = HfpAsks(gw_read_buf, hf_line, hf_write_buf)
    BY <1>1, <1>5
  <2>3. HfpOrder'
    BY <1>1, <1>4, <2>2, HfpOrderSame
  <2>4. QED
    BY <1>2, <1>3, <2>1, <2>3
<1>6. CASE gw_read_buf' = gw_read_buf \o p /\ hf_line' = r /\ gw_reads' = gw_reads /\ n <= BufSize - Len(gw_read_buf)
  <2>1. p \in Seq(HfpLines) /\ r \in Seq(HfpLines) /\ Len(p) = n
    BY <1>0, <1>1, CutLengths DEF HfpTypes
  <2>2. HfpAsks(gw_read_buf \o p, r, hf_write_buf) = HfpAsks(gw_read_buf, hf_line, hf_write_buf)
    BY <1>0, <1>1, HfpInts, HfpAsksMove
  <2> HIDE DEF p, r
  <2>3. HfpAsks(gw_read_buf, hf_line, hf_write_buf)' = HfpAsks(gw_read_buf, hf_line, hf_write_buf)
    BY <1>1, <1>6, <2>2
  <2>4. HfpOrder'
    BY <1>1, <1>4, <2>3, HfpOrderSame
  <2>5. gw_read_buf \in Seq(HfpLines) /\ Len(gw_read_buf) \in Nat
    BY LenProperties DEF HfpTypes
  <2>6. gw_read_buf' \in Seq(HfpLines) /\ Len(gw_read_buf') = Len(gw_read_buf) + Len(p)
    BY <1>6, <2>1, <2>5, ConcatProperties
  <2>7. Len(gw_read_buf') <= BufSize
    BY <1>0, <1>6, <2>1, <2>5, <2>6
  <2>8. HfpTypes'
    BY <1>1, <1>6, <2>1, <2>6, <2>7 DEF HfpTypes
  <2>9. QED
    BY <1>2, <1>3, <2>4, <2>8
<1>7. QED
  BY <1>1, <1>5, <1>6

\* What gw reads first is the next command.
LEMMA HfpAsksFirst ==
    ASSUME HfpInv, gw_read_buf # <<>>
    PROVE  /\ Head(gw_read_buf) \in HfpLines /\ Tail(gw_read_buf) \in Seq(HfpLines) /\ Len(Tail(gw_read_buf)) <= BufSize
           /\ Head(gw_read_buf) # 0 => Head(gw_read_buf) \in HfpCommands
           /\ HfpAsks(Tail(gw_read_buf), hf_line, hf_write_buf) \in Seq(Int)
           /\ HfpAsks(gw_read_buf, hf_line, hf_write_buf) =
                 IF Head(gw_read_buf) \in HfpCommands THEN <<Head(gw_read_buf)>> \o HfpAsks(Tail(gw_read_buf), hf_line, hf_write_buf)
                                                      ELSE HfpAsks(Tail(gw_read_buf), hf_line, hf_write_buf)
<1> USE DEF HfpInv
<1>1. gw_read_buf \in Seq(Int) /\ hf_line \in Seq(Int) /\ hf_write_buf \in Seq(Int)
  BY HfpInts
<1>2. FirstPicked(gw_read_buf, hf_line, hf_write_buf, HfpCommands, Int)
  BY <1>1, FilterJoined
<1>3. Head(gw_read_buf) \in HfpLines /\ Tail(gw_read_buf) \in Seq(HfpLines) /\ Len(Tail(gw_read_buf)) = Len(gw_read_buf) - 1
  BY HeadTailProperties DEF HfpTypes
<1>4. Len(gw_read_buf) \in Nat /\ Len(gw_read_buf) <= BufSize /\ BufSize \in Nat
  BY LenProperties, HfpLibrary DEF HfpTypes
<1>5. Len(Tail(gw_read_buf)) <= BufSize
  BY <1>3, <1>4
<1>6. Head(gw_read_buf) # 0 => Head(gw_read_buf) \in HfpCommands
  <2> DEFINE h == Head(gw_read_buf)
  <2>1. h \in HfpLines /\ MaxCommands \in Nat
    BY <1>3, HfpLibrary
  <2> HIDE DEF h
  <2>2. h # 0 => h \in HfpCommands
    BY <2>1 DEF HfpLines, HfpCommands
  <2>3. QED
    BY <2>2 DEF h
<1>7. /\ HfpAsks(Tail(gw_read_buf), hf_line, hf_write_buf) \in Seq(Int)
      /\ HfpAsks(gw_read_buf, hf_line, hf_write_buf) =
            IF Head(gw_read_buf) \in HfpCommands THEN <<Head(gw_read_buf)>> \o HfpAsks(Tail(gw_read_buf), hf_line, hf_write_buf)
                                                 ELSE HfpAsks(Tail(gw_read_buf), hf_line, hf_write_buf)
  BY <1>2, Zenon DEF FirstPicked, HfpAsks
<1>8. QED
  BY <1>3, <1>5, <1>6, <1>7

\* gw takes the next command up, and either its handler has it or its result is on its way.
HfpTakenUp(c) ==
    /\ gw_read_buf # <<>> /\ c = Head(gw_read_buf) /\ c \in HfpCommands /\ gw_again
    /\ gw_read_buf' = Tail(gw_read_buf) /\ gw_handled' = Append(gw_handled, c)
    /\ \/ gw_at' = c /\ gw_write_buf' = gw_write_buf
       \/ gw_at' = gw_at /\ gw_write_buf' = Append(gw_write_buf, c)
    /\ UNCHANGED <<hf_life, hf_sent, cmd_queue, hf_write_buf, hf_told, hf_line, gw_line, hfp_slip>>

\* The order is kept by such a step.
LEMMA HfpTakes ==
    ASSUME HfpInv, NEW c, HfpTakenUp(c)
    PROVE  HfpOrder'
<1> USE DEF HfpInv, HfpTakenUp
<1> DEFINE answers == HfpAnswers(gw_line, gw_write_buf, gw_at)
           rest == HfpAsks(Tail(gw_read_buf), hf_line, hf_write_buf)
<1> SUFFICES ASSUME hfp_slip = "none", hf_life = "up"
             PROVE  HfpOrdered(HfpAnswers(gw_line, gw_write_buf, gw_at), HfpAsks(gw_read_buf, hf_line, hf_write_buf),
                               cmd_queue, hf_told, gw_handled, hf_sent)'
  BY DEF HfpOrder
<1>1. gw_read_buf # <<>> /\ c = Head(gw_read_buf) /\ c \in HfpCommands /\ c \in Int
  BY HfpLibrary
<1>2. rest \in Seq(Int) /\ HfpAsks(gw_read_buf, hf_line, hf_write_buf) = <<c>> \o rest
  BY <1>1, HfpAsksFirst
<1>3. HfpOrdered(answers, <<c>> \o rest, cmd_queue, hf_told, gw_handled, hf_sent)
  BY <1>2 DEF HfpOrder
<1>4. gw_handled \in Seq(Int)
  BY HfpInts
<1>5. HfpOrdered(Append(answers, c), rest, cmd_queue, hf_told, Append(gw_handled, c), hf_sent)
  <2> HIDE DEF answers, rest
  <2>1. QED
    BY <1>1, <1>2, <1>3, <1>4, HfpOrderedHandled
<1>6. gw_at = 0 /\ gw_at \notin HfpCommands
  BY HfpLibrary DEF HfpTurns
<1>7. gw_line \in Seq(Int) /\ gw_write_buf \in Seq(Int) /\ gw_at \in Int
  BY HfpInts
<1> DEFINE sent == Filter(gw_line \o gw_write_buf, HfpCommands)
<1>8. answers = sent
  <2>1. HfpAnswering(gw_line, gw_write_buf, gw_at, gw_at, Int)
    BY <1>7, HfpAnswersAre
  <2>2. QED
    BY <1>6, <2>1 DEF HfpAnswering
<1>9. HfpAnswers(gw_line, gw_write_buf, gw_at)' = Append(answers, c)
  <2>1. CASE gw_at' = c /\ gw_write_buf' = gw_write_buf
    <3>1. HfpAnswering(gw_line, gw_write_buf, c, c, Int)
      BY <1>1, <1>7, HfpAnswersAre
    <3>2. HfpAnswers(gw_line, gw_write_buf, c) = Append(sent, c)
      BY <1>1, <3>1 DEF HfpAnswering
    <3>3. QED
      BY <1>8, <2>1, <3>2
  <2>2. CASE gw_at' = gw_at /\ gw_write_buf' = Append(gw_write_buf, c)
    <3> DEFINE b == Append(gw_write_buf, c)
    <3>1. HfpAnswering(gw_line, gw_write_buf, c, c, Int)
      BY <1>1, <1>7, HfpAnswersAre
    <3>2. b \in Seq(Int) /\ Filter(gw_line \o b, HfpCommands) = Append(sent, c)
      BY <1>1, <3>1 DEF HfpAnswering
    <3> HIDE DEF b
    <3>3. HfpAnswering(gw_line, b, gw_at, gw_at, Int)
      BY <1>7, <3>2, HfpAnswersAre
    <3>4. HfpAnswers(gw_line, b, gw_at) = Filter(gw_line \o b, HfpCommands)
      BY <1>6, <3>3 DEF HfpAnswering
    <3>5. HfpAnswers(gw_line, gw_write_buf, gw_at)' = HfpAnswers(gw_line, b, gw_at)
      BY <2>2 DEF b
    <3>6. QED
      BY <1>8, <3>2, <3>4, <3>5
  <2>3. QED
    BY <2>1, <2>2
<1>10. HfpAsks(gw_read_buf, hf_line, hf_write_buf)' = rest
  OBVIOUS
<1>11. QED
  BY <1>5, <1>9, <1>10, Zenon

\* process_input and handle_at_command
LEMMA HfpInput ==
    ASSUME HfpInv,
           Hfp!process_input_done \/ Hfp!process_input_skip \/ Hfp!handle_at_command \/ Hfp!handle_at_command_at_once
    PROVE  HfpInv'
<1> USE DEF HfpInv
<1>0. MaxCommands \in Nat /\ BufSize \in Nat
  BY HfpLibrary
<1> DEFINE c == Head(gw_read_buf)
<1>1. CASE Hfp!process_input_done
  <2>1. /\ gw_read_buf = <<>> /\ gw_again' = FALSE
        /\ UNCHANGED <<hf_life, hf_sent, cmd_queue, hf_write_buf, hf_writer_active, hf_told, gw_write_buf, gw_writer_active, gw_life,
                       cmd_handlers, command_callback, gw_read_buf, gw_reads, result_pending, gw_at, gw_handled, hf_line, gw_line, noise, hfp_slip>>
    BY <1>1 DEF Hfp!process_input_done, Hfp!hfVars, Hfp!gwOutput, Hfp!gwUsers
  <2>2. HfpTypes' /\ HfpTurns'
    BY <2>1 DEF HfpTypes, HfpTurns
  <2>3. HfpOrder'
    BY <2>1 DEF HfpOrder
  <2>4. Hfp!NothingWaits'
    BY <2>1 DEF Hfp!NothingWaits
  <2>5. QED
    BY <2>2, <2>3, <2>4
<1>2. ASSUME gw_read_buf # <<>>, gw_read_buf' = Tail(gw_read_buf), gw_again,
             gw_handled' = gw_handled \/ (c \in HfpCommands /\ (gw_handled' = Append(gw_handled, c) \/ gw_handled' = gw_handled \o <<c, c>>)),
             gw_write_buf' = gw_write_buf \/ (c \in HfpCommands /\ Len(gw_write_buf) < BufSize /\ gw_write_buf' = Append(gw_write_buf, c)),
             gw_writer_active' \in BOOLEAN, result_pending' \in BOOLEAN, gw_again' \in BOOLEAN,
             UNCHANGED <<hf_life, hf_sent, cmd_queue, hf_write_buf, hf_writer_active, hf_told, gw_life,
                         cmd_handlers, command_callback, gw_reads, hf_line, gw_line, noise>>
      PROVE  HfpTypes'
  <2>1. gw_read_buf' \in Seq(HfpLines) /\ Len(gw_read_buf') <= BufSize
    BY <1>2, HfpAsksFirst
  <2> HIDE DEF c
  <2>2. gw_handled' \in Seq(HfpCommands)
    <3>1. gw_handled \in Seq(HfpCommands)
      BY DEF HfpTypes
    <3>2. ASSUME c \in HfpCommands PROVE <<c, c>> \in Seq(HfpCommands)
      BY <3>2
    <3>3. CASE gw_handled' = gw_handled
      BY <3>1, <3>3
    <3>4. CASE c \in HfpCommands /\ gw_handled' = Append(gw_handled, c)
      BY <3>1, <3>4, AppendProperties
    <3>5. CASE c \in HfpCommands /\ gw_handled' = gw_handled \o <<c, c>>
      BY <3>1, <3>2, <3>5, ConcatProperties
    <3>6. QED
      BY <1>2, <3>3, <3>4, <3>5
  <2>3. gw_write_buf' \in Seq(HfpResults) /\ Len(gw_write_buf') <= BufSize
    <3>1. gw_write_buf \in Seq(HfpResults) /\ Len(gw_write_buf) \in Nat /\ Len(gw_write_buf) <= BufSize
      BY LenProperties DEF HfpTypes
    <3>2. CASE gw_write_buf' = gw_write_buf
      BY <3>1, <3>2
    <3>3. CASE c \in HfpCommands /\ Len(gw_write_buf) < BufSize /\ gw_write_buf' = Append(gw_write_buf, c)
      <4>1. c \in HfpResults
        BY <3>3 DEF HfpResults
      <4>2. gw_write_buf' \in Seq(HfpResults) /\ Len(gw_write_buf') = Len(gw_write_buf) + 1
        BY <3>1, <3>3, <4>1, AppendProperties
      <4>3. QED
        BY <1>0, <3>1, <3>3, <4>2
    <3>4. QED
      BY <1>2, <3>2, <3>3
  <2>4. QED
    BY <1>2, <2>1, <2>2, <2>3 DEF HfpTypes
<1>3. CASE Hfp!process_input_skip
  <2> DEFINE answered == c # 0 /\ Len(gw_write_buf) < BufSize
  <2>1. /\ gw_again /\ gw_read_buf # <<>> /\ gw_read_buf' = Tail(gw_read_buf)
        /\ gw_write_buf' = IF answered THEN Append(gw_write_buf, c) ELSE gw_write_buf
        /\ gw_writer_active' = (IF answered THEN TRUE ELSE gw_writer_active)
        /\ hfp_slip' = IF c # 0 /\ ~answered THEN "unanswered" ELSE hfp_slip
        /\ gw_handled' = IF c = 0 THEN gw_handled ELSE Append(gw_handled, c)
        /\ UNCHANGED <<hf_life, hf_sent, cmd_queue, hf_write_buf, hf_writer_active, hf_told, gw_life,
                       cmd_handlers, command_callback, gw_reads, result_pending, gw_again, gw_at, hf_line, gw_line, noise>>
    BY <1>3, HfpLibrary DEF Hfp!process_input_skip, Hfp!hfVars, Hfp!gwUsers
  <2>2. c # 0 => c \in HfpCommands
    BY <2>1, HfpAsksFirst
  <2>3. gw_writer_active' \in BOOLEAN /\ result_pending' \in BOOLEAN /\ gw_again' \in BOOLEAN
    BY <2>1 DEF HfpTypes
  <2> HIDE DEF c
  <2>4. HfpTypes'
    BY <1>2, <2>1, <2>2, <2>3
  <2>5. HfpTurns'
    BY <2>1 DEF HfpTurns
  <2>6. HfpOrder'
    <3>1. CASE c = 0
      <4>1. c \notin HfpCommands
        BY <3>1, HfpLibrary
      <4>2. HfpAsks(gw_read_buf, hf_line, hf_write_buf)' = HfpAsks(gw_read_buf, hf_line, hf_write_buf)
        BY <2>1, <4>1, HfpAsksFirst DEF c
      <4>3. gw_write_buf' = gw_write_buf /\ hfp_slip' = hfp_slip /\ gw_handled' = gw_handled
        BY <2>1, <3>1
      <4>4. HfpAnswers(gw_line, gw_write_buf, gw_at)' = HfpAnswers(gw_line, gw_write_buf, gw_at)
        BY <2>1, <4>3
      <4>5. QED
        BY <2>1, <4>2, <4>3, <4>4, HfpOrderSame
    <3>2. CASE c # 0 /\ answered
      <4>1. HfpTakenUp(c)
        BY <2>1, <2>2, <3>2 DEF HfpTakenUp, c
      <4>2. QED
        BY <4>1, HfpTakes
    <3>3. CASE c # 0 /\ ~answered
      <4>1. hfp_slip' # "none"
        BY <2>1, <3>3
      <4>2. QED
        BY <4>1 DEF HfpOrder
    <3>4. QED
      BY <3>1, <3>2, <3>3
  <2>7. Hfp!NothingWaits'
    <3>1. ~result_pending /\ gw_again' = gw_again /\ gw_again /\ result_pending' = result_pending
      BY <2>1 DEF HfpTurns
    <3>2. CASE answered
      <4>1. gw_writer_active' /\ hfp_slip' = hfp_slip
        BY <2>1, <3>2
      <4>2. QED
        BY <2>1, <3>1, <4>1 DEF Hfp!NothingWaits
    <3>3. CASE ~answered
      <4>1. gw_writer_active' = gw_writer_active /\ gw_write_buf' = gw_write_buf /\ (hfp_slip' = "none" => hfp_slip = "none")
        BY <2>1, <3>3
      <4>2. QED
        BY <2>1, <3>1, <4>1 DEF Hfp!NothingWaits
    <3>4. QED
      BY <3>2, <3>3
  <2>8. QED
    BY <2>4, <2>5, <2>6, <2>7
<1>4. CASE Hfp!handle_at_command
  <2>1. /\ gw_again /\ gw_read_buf # <<>> /\ c # 0 /\ result_pending' = TRUE /\ gw_at' = c /\ gw_again' = FALSE
        /\ gw_handled' = Append(gw_handled, c) /\ gw_read_buf' = Tail(gw_read_buf)
        /\ UNCHANGED <<hf_life, hf_sent, cmd_queue, hf_write_buf, hf_writer_active, hf_told, gw_write_buf, gw_writer_active, gw_life,
                       cmd_handlers, command_callback, gw_reads, hf_line, gw_line, noise, hfp_slip>>
    BY <1>4, HfpLibrary DEF Hfp!handle_at_command, Hfp!hfVars, Hfp!gwOutput, Hfp!gwUsers
  <2>2. c \in HfpCommands
    BY <2>1, HfpAsksFirst
  <2> HIDE DEF c
  <2>3. gw_writer_active' \in BOOLEAN /\ result_pending' \in BOOLEAN /\ gw_again' \in BOOLEAN
    BY <2>1 DEF HfpTypes
  <2>4. HfpTypes'
    BY <1>2, <2>1, <2>2, <2>3
  <2>5. HfpTurns'
    <3>1. c \in 0..MaxCommands
      BY <1>0, <2>2 DEF HfpCommands
    <3>2. QED
      BY <2>1, <3>1 DEF HfpTurns
  <2>6. HfpOrder'
    <3>1. HfpTakenUp(c)
      BY <2>1, <2>2 DEF HfpTakenUp, c
    <3>2. QED
      BY <3>1, HfpTakes
  <2>7. Hfp!NothingWaits'
    <3>1. ~result_pending
      BY <2>1 DEF HfpTurns
    <3>2. QED
      BY <2>1, <3>1 DEF Hfp!NothingWaits
  <2>8. QED
    BY <2>4, <2>5, <2>6, <2>7
<1>5. CASE Hfp!handle_at_command_at_once
  <2> DEFINE twice == Len(gw_read_buf) > 1
  <2>1. /\ gw_again /\ gw_read_buf # <<>> /\ c # 0 /\ Len(gw_write_buf) < BufSize
        /\ gw_write_buf' = Append(gw_write_buf, c) /\ gw_writer_active' = TRUE
        /\ gw_handled' = gw_handled \o (IF twice THEN <<c, c>> ELSE <<c>>) /\ gw_read_buf' = Tail(gw_read_buf)
        /\ hfp_slip' = IF twice THEN "handled twice" ELSE hfp_slip
        /\ UNCHANGED <<hf_life, hf_sent, cmd_queue, hf_write_buf, hf_writer_active, hf_told, gw_life,
                       cmd_handlers, command_callback, gw_reads, result_pending, gw_again, gw_at, hf_line, gw_line, noise>>
    BY <1>5, HfpLibrary DEF Hfp!handle_at_command_at_once, Hfp!hfVars, Hfp!gwUsers
  <2>2. c \in HfpCommands
    BY <2>1, HfpAsksFirst
  <2> HIDE DEF c
  <2>3. gw_writer_active' \in BOOLEAN /\ result_pending' \in BOOLEAN /\ gw_again' \in BOOLEAN
    BY <2>1 DEF HfpTypes
  <2>4. twice => gw_handled' = gw_handled \o <<c, c>>
    BY <2>1
  <2>5. ~twice => gw_handled' = Append(gw_handled, c)
    <3>1. gw_handled \in Seq(HfpCommands)
      BY DEF HfpTypes
    <3>2. Append(gw_handled, c) = gw_handled \o <<c>>
      BY <2>2, <3>1, AppendIsConcat
    <3>3. QED
      BY <2>1, <3>2
  <2> HIDE DEF twice
  <2>6. HfpTypes'
    <3>1. gw_handled' = Append(gw_handled, c) \/ gw_handled' = gw_handled \o <<c, c>>
      BY <2>4, <2>5
    <3>2. QED
      BY <1>2, <2>1, <2>2, <2>3, <3>1 DEF c
  <2>7. HfpTurns'
    BY <2>1 DEF HfpTurns
  <2>8. HfpOrder'
    <3>1. CASE twice
      <4>1. hfp_slip' # "none"
        BY <2>1, <3>1
      <4>2. QED
        BY <4>1 DEF HfpOrder
    <3>2. CASE ~twice
      <4>1. HfpTakenUp(c)
        BY <2>1, <2>2, <2>5, <3>2 DEF HfpTakenUp, c
      <4>2. QED
        BY <4>1, HfpTakes
    <3>3. QED
      BY <3>1, <3>2
  <2>9. Hfp!NothingWaits'
    <3>1. hfp_slip' = "none" => hfp_slip = "none"
      BY <2>1
    <3>2. QED
      BY <2>1, <3>1 DEF Hfp!NothingWaits
  <2>10. QED
    BY <2>6, <2>7, <2>8, <2>9
<1>6. QED
  BY <1>1, <1>3, <1>4, <1>5

\* hfp_gw_send_result
LEMMA HfpAnswered ==
    ASSUME HfpInv, Hfp!hfp_gw_send_result
    PROVE  HfpInv'
<1> USE DEF HfpInv
<1>0. MaxCommands \in Nat /\ BufSize \in Nat
  BY HfpLibrary
<1>1. /\ result_pending /\ Len(gw_write_buf) < BufSize /\ gw_write_buf' = Append(gw_write_buf, gw_at)
      /\ gw_writer_active' = (gw_writer_active \/ gw_write_buf' # <<>>)
      /\ result_pending' = FALSE /\ gw_at' = 0 /\ gw_again' = TRUE
      /\ UNCHANGED <<hf_life, hf_sent, cmd_queue, hf_write_buf, hf_writer_active, hf_told, gw_life, cmd_handlers, command_callback,
                     gw_read_buf, gw_reads, gw_handled, hf_line, gw_line, noise, hfp_slip>>
  BY DEF Hfp!hfp_gw_send_result, Hfp!Awake, Hfp!hfVars, Hfp!gwUsers
<1>2. gw_at \in HfpCommands /\ gw_at \in HfpResults
  BY <1>0, <1>1 DEF HfpTurns, HfpCommands, HfpResults
<1>3. gw_write_buf' \in Seq(HfpResults) /\ Len(gw_write_buf') = Len(gw_write_buf) + 1 /\ gw_write_buf' # <<>>
  <2>1. gw_write_buf \in Seq(HfpResults)
    BY DEF HfpTypes
  <2>2. QED
    BY <1>1, <1>2, <2>1, AppendProperties
<1>4. HfpTypes'
  <2>1. Len(gw_write_buf) \in Nat
    BY LenProperties DEF HfpTypes
  <2>2. Len(gw_write_buf') <= BufSize
    BY <1>0, <1>1, <1>3, <2>1
  <2>3. gw_writer_active' = TRUE
    BY <1>1, <1>3
  <2>4. QED
    BY <1>1, <1>3, <2>2, <2>3 DEF HfpTypes
<1>5. HfpTurns'
  BY <1>0, <1>1 DEF HfpTurns
<1>6. HfpOrder'
  <2> DEFINE b == Append(gw_write_buf, gw_at)
             sent == Filter(gw_line \o gw_write_buf, HfpCommands)
  <2>1. gw_line \in Seq(Int) /\ gw_write_buf \in Seq(Int) /\ gw_at \in Int
    BY HfpInts
  <2>2. HfpAnswering(gw_line, gw_write_buf, gw_at, gw_at, Int)
    BY <2>1, HfpAnswersAre
  <2>3. b \in Seq(Int) /\ Filter(gw_line \o b, HfpCommands) = Append(sent, gw_at) /\ HfpAnswers(gw_line, gw_write_buf, gw_at) = Append(sent, gw_at)
    BY <1>2, <2>2 DEF HfpAnswering
  <2> HIDE DEF b, sent
  <2>4. HfpAnswering(gw_line, b, 0, 0, Int)
    <3>1. 0 \in Int
      OBVIOUS
    <3>2. QED
      BY <2>1, <2>3, <3>1, HfpAnswersAre
  <2>5. HfpAnswers(gw_line, b, 0) = Filter(gw_line \o b, HfpCommands)
    BY <2>4, HfpLibrary DEF HfpAnswering
  <2>6. HfpAnswers(gw_line, gw_write_buf, gw_at)' = HfpAnswers(gw_line, b, 0)
    BY <1>1 DEF b
  <2>7. HfpAnswers(gw_line, gw_write_buf, gw_at)' = HfpAnswers(gw_line, gw_write_buf, gw_at)
    BY <2>3, <2>5, <2>6
  <2>8. HfpAsks(gw_read_buf, hf_line, hf_write_buf)' = HfpAsks(gw_read_buf, hf_line, hf_write_buf)
    BY <1>1
  <2>9. QED
    BY <1>1, <2>7, <2>8, HfpOrderSame
<1>7. Hfp!NothingWaits'
  BY <1>1, <1>3 DEF Hfp!NothingWaits
<1>8. QED
  BY <1>4, <1>5, <1>6, <1>7

\* hfp_gw_send_info
LEMMA HfpInformed ==
    ASSUME HfpInv, Hfp!hfp_gw_send_info
    PROVE  HfpInv'
<1> USE DEF HfpInv
<1>0. MaxCommands \in Nat /\ BufSize \in Nat /\ -1 \in HfpResults /\ -1 \in Int /\ -1 \notin HfpCommands
  BY HfpLibrary DEF HfpResults
<1> DEFINE e == -1
           b == Append(gw_write_buf, e)
<1>1. /\ hfp_slip = "none" /\ Len(gw_write_buf) < BufSize /\ gw_write_buf' = b
      /\ gw_writer_active' = (IF result_pending THEN gw_writer_active ELSE gw_writer_active \/ gw_write_buf' # <<>>)
      /\ UNCHANGED <<hf_life, hf_sent, cmd_queue, hf_write_buf, hf_writer_active, hf_told, gw_read_buf, gw_reads, result_pending, gw_again,
                     gw_at, gw_handled, gw_life, cmd_handlers, command_callback, hf_line, gw_line, hfp_slip>>
  BY DEF Hfp!hfp_gw_send_info, Hfp!GwIdle, Hfp!Event, Hfp!Awake, Hfp!hfVars, Hfp!gwInput, Hfp!gwUsers
<1>2. e \in HfpResults /\ e \in Int /\ e \notin HfpCommands /\ ~Hfp!IsResult(e)
  BY <1>0 DEF Hfp!IsResult
<1> HIDE DEF e
<1>3. gw_write_buf \in Seq(HfpResults) /\ Len(gw_write_buf) \in Nat /\ DOMAIN gw_write_buf = 1..Len(gw_write_buf)
  BY LenProperties DEF HfpTypes
<1>4. /\ b \in Seq(HfpResults) /\ Len(b) = Len(gw_write_buf) + 1 /\ b # <<>>
      /\ (\A i \in 1..Len(gw_write_buf) : b[i] = gw_write_buf[i]) /\ b[Len(gw_write_buf) + 1] = e
  BY <1>2, <1>3, AppendProperties
<1>5. HfpTypes'
  <2>1. Len(gw_write_buf') <= BufSize
    BY <1>0, <1>1, <1>3, <1>4
  <2>2. gw_writer_active' \in BOOLEAN
    BY <1>1 DEF HfpTypes
  <2> HIDE DEF b
  <2>3. QED
    BY <1>1, <1>4, <2>1, <2>2 DEF HfpTypes
<1>6. HfpTurns'
  BY <1>1 DEF HfpTurns
<1>7. HfpOrder'
  <2> DEFINE sent == Filter(gw_line \o gw_write_buf, HfpCommands)
  <2>1. gw_line \in Seq(Int) /\ gw_write_buf \in Seq(Int) /\ gw_at \in Int
    BY HfpInts
  <2>2. HfpAnswering(gw_line, gw_write_buf, e, gw_at, Int)
    BY <1>2, <2>1, HfpAnswersAre
  <2>3. /\ b \in Seq(Int) /\ Filter(gw_line \o b, HfpCommands) = sent
        /\ HfpAnswers(gw_line, gw_write_buf, gw_at) = IF gw_at \in HfpCommands THEN Append(sent, gw_at) ELSE sent
    BY <1>2, <2>2 DEF HfpAnswering
  <2> HIDE DEF b, sent
  <2>4. HfpAnswering(gw_line, b, gw_at, gw_at, Int)
    BY <2>1, <2>3, HfpAnswersAre
  <2>5. HfpAnswers(gw_line, b, gw_at) = IF gw_at \in HfpCommands THEN Append(sent, gw_at) ELSE sent
    BY <2>3, <2>4 DEF HfpAnswering
  <2>6. HfpAnswers(gw_line, gw_write_buf, gw_at)' = HfpAnswers(gw_line, b, gw_at)
    BY <1>1
  <2>7. HfpAnswers(gw_line, gw_write_buf, gw_at)' = HfpAnswers(gw_line, gw_write_buf, gw_at)
    BY <2>3, <2>5, <2>6
  <2>8. HfpAsks(gw_read_buf, hf_line, hf_write_buf)' = HfpAsks(gw_read_buf, hf_line, hf_write_buf)
    BY <1>1
  <2>9. QED
    BY <1>1, <2>7, <2>8, HfpOrderSame
<1>8. Hfp!NothingWaits'
  <2> DEFINE Event(q) == ~\E i \in DOMAIN q : Hfp!IsResult(q[i])
  <2>1. Event(gw_write_buf) => Event(b)
    <3> SUFFICES ASSUME NEW i \in DOMAIN b, Hfp!IsResult(b[i]) PROVE \E j \in DOMAIN gw_write_buf : Hfp!IsResult(gw_write_buf[j])
      OBVIOUS
    <3> DEFINE n == Len(gw_write_buf)
    <3> HIDE DEF b
    <3>1. DOMAIN b = 1..Len(b)
      BY <1>4, LenProperties
    <3>2. n \in Nat /\ i \in 1..n + 1 /\ DOMAIN gw_write_buf = 1..n /\ (\A j \in 1..n : b[j] = gw_write_buf[j]) /\ b[n + 1] = e
      BY <1>3, <1>4, <3>1
    <3> HIDE DEF n
    <3>3. i # n + 1
      BY <1>2, <3>2
    <3>4. i \in 1..n
      BY <3>2, <3>3
    <3>5. QED
      BY <3>2, <3>4
  <2>2. result_pending /\ gw_write_buf = <<>> => Event(b)
    <3> SUFFICES ASSUME gw_write_buf = <<>>, NEW i \in DOMAIN b, Hfp!IsResult(b[i]) PROVE FALSE
      OBVIOUS
    <3>1. Len(gw_write_buf) = 0
      OBVIOUS
    <3> HIDE DEF b
    <3>2. i = 1 /\ b[1] = e
      BY <1>4, <3>1, LenProperties
    <3>3. QED
      BY <1>2, <3>2
  <2>3. gw_life = "up" => gw_writer_active' \/ (result_pending' /\ Event(gw_write_buf'))
    <3> HIDE DEF b
    <3>1. CASE ~result_pending
      BY <1>1, <1>4, <3>1
    <3>2. CASE result_pending
      <4>1. gw_life = "up" /\ gw_write_buf # <<>> => gw_writer_active \/ Event(gw_write_buf)
        BY <1>1 DEF Hfp!NothingWaits
      <4> HIDE DEF Event
      <4>2. QED
        BY <1>1, <2>1, <2>2, <3>2, <4>1
    <3>3. QED
      BY <3>1, <3>2
  <2> HIDE DEF b
  <2>4. QED
    BY <1>1, <2>3 DEF Hfp!NothingWaits
<1>9. QED
  BY <1>5, <1>6, <1>7, <1>8

\* can_write_data
LEMMA HfpGwWrites ==
    ASSUME HfpInv, NEW n \in 1..BufSize, Hfp!can_write_data(n)
    PROVE  HfpInv'
<1> USE DEF HfpInv
<1>0. MaxCommands \in Nat /\ BufSize \in Nat /\ n \in Nat
  BY HfpLibrary
<1> DEFINE p == SubSeq(gw_write_buf, 1, n)
           r == SubSeq(gw_write_buf, n + 1, Len(gw_write_buf))
<1>1. /\ n <= Len(gw_write_buf) /\ gw_line' = gw_line \o p /\ gw_write_buf' = r /\ gw_writer_active' = (gw_write_buf' # <<>>)
      /\ UNCHANGED <<hf_life, hf_sent, cmd_queue, hf_write_buf, hf_writer_active, hf_told, gw_read_buf, gw_reads, result_pending, gw_again,
                     gw_at, gw_handled, gw_life, cmd_handlers, command_callback, hf_line, noise, hfp_slip>>
  BY DEF Hfp!can_write_data, Hfp!hfVars, Hfp!gwInput, Hfp!gwUsers
<1>2. p \in Seq(HfpResults) /\ r \in Seq(HfpResults) /\ Len(r) = Len(gw_write_buf) - n
  BY <1>0, <1>1, CutLengths DEF HfpTypes
<1>3. HfpAnswers(gw_line \o p, r, gw_at) = HfpAnswers(gw_line, gw_write_buf, gw_at)
  BY <1>0, <1>1, HfpInts, HfpAnswersMove
<1> HIDE DEF p, r
<1>4. HfpTypes'
  <2>1. gw_line \in Seq(HfpResults) /\ Len(gw_write_buf) \in Nat /\ Len(gw_write_buf) <= BufSize
    BY LenProperties DEF HfpTypes
  <2>2. gw_line' \in Seq(HfpResults)
    BY <1>1, <1>2, <2>1, ConcatProperties
  <2>3. Len(gw_write_buf') <= BufSize
    BY <1>0, <1>1, <1>2, <2>1
  <2>4. gw_writer_active' \in BOOLEAN
    BY <1>1
  <2>5. QED
    BY <1>1, <1>2, <2>2, <2>3, <2>4 DEF HfpTypes
<1>5. HfpTurns'
  BY <1>1 DEF HfpTurns
<1>6. HfpOrder'
  <2>1. HfpAnswers(gw_line, gw_write_buf, gw_at)' = HfpAnswers(gw_line, gw_write_buf, gw_at)
    BY <1>1, <1>3
  <2>2. HfpAsks(gw_read_buf, hf_line, hf_write_buf)' = HfpAsks(gw_read_buf, hf_line, hf_write_buf)
    BY <1>1
  <2>3. QED
    BY <1>1, <2>1, <2>2, HfpOrderSame
<1>7. Hfp!NothingWaits'
  BY <1>1 DEF Hfp!NothingWaits
<1>8. QED
  BY <1>4, <1>5, <1>6, <1>7

\* Steps after which nothing is said any more of what is on its way, or which leave it alone.
LEMMA HfpQuiet ==
    ASSUME HfpInv, NEW p,
           \/ Hfp!can_write_data_fails \/ Hfp!hfp_gw_register(p) \/ Hfp!hfp_gw_unregister(p)
           \/ Hfp!io_disconnected \/ Hfp!hfp_gw_unref \/ Hfp!hf_io_disconnected \/ Hfp!hfp_hf_unref
    PROVE  HfpInv'
<1> USE DEF HfpInv
<1>1. CASE Hfp!can_write_data_fails
  <2>1. /\ gw_writer_active' = FALSE /\ hfp_slip' = "write failed"
        /\ UNCHANGED <<hf_life, hf_sent, cmd_queue, hf_write_buf, hf_writer_active, hf_told, gw_read_buf, gw_reads, result_pending, gw_again,
                       gw_at, gw_handled, gw_life, cmd_handlers, command_callback, gw_write_buf, hf_line, gw_line, noise>>
    BY <1>1 DEF Hfp!can_write_data_fails, Hfp!hfVars, Hfp!gwInput, Hfp!gwUsers
  <2>2. HfpTypes' /\ HfpTurns'
    BY <2>1 DEF HfpTypes, HfpTurns
  <2>3. QED
    BY <2>1, <2>2 DEF HfpOrder, Hfp!NothingWaits
<1>2. CASE Hfp!hfp_gw_register(p) \/ Hfp!hfp_gw_unregister(p)
  <2>1. UNCHANGED <<hf_life, hf_sent, cmd_queue, hf_write_buf, hf_writer_active, hf_told, gw_read_buf, gw_reads, result_pending, gw_again,
                    gw_at, gw_handled, gw_life, command_callback, gw_write_buf, gw_writer_active, hf_line, gw_line, noise, hfp_slip>>
    BY <1>2 DEF Hfp!hfp_gw_register, Hfp!hfp_gw_unregister, Hfp!hfVars, Hfp!gwInput, Hfp!gwOutput
  <2>2. HfpTypes' /\ HfpTurns'
    BY <2>1 DEF HfpTypes, HfpTurns
  <2>3. QED
    BY <2>1, <2>2 DEF HfpOrder, Hfp!NothingWaits
<1>3. CASE Hfp!io_disconnected \/ Hfp!hfp_gw_unref
  <2>1. PICK life : life \in HfpLives \ {"up"} /\ Hfp!gw_lives(life)
    <3>1. CASE Hfp!io_disconnected
      BY <3>1 DEF Hfp!io_disconnected, Hfp!Returned, HfpTypes, HfpLives
    <3>2. CASE Hfp!hfp_gw_unref
      BY <3>2 DEF Hfp!hfp_gw_unref, Hfp!Unref, HfpTypes, HfpLives
    <3>3. QED
      BY <1>3, <3>1, <3>2
  <2>2. /\ gw_life' = life /\ gw_writer_active' = (gw_writer_active /\ life \notin {"freed", "destroyed"})
        /\ UNCHANGED <<hf_life, hf_sent, cmd_queue, hf_write_buf, hf_writer_active, hf_told, gw_read_buf, gw_reads, result_pending, gw_again,
                       gw_at, gw_handled, cmd_handlers, command_callback, gw_write_buf, hf_line, gw_line, noise, hfp_slip>>
    BY <2>1 DEF Hfp!gw_lives, Hfp!hfVars, Hfp!gwInput
  <2>3. gw_life' \in HfpLives /\ gw_writer_active' \in BOOLEAN /\ gw_life' # "up"
    BY <2>1, <2>2
  <2>4. HfpTypes'
    BY <2>2, <2>3 DEF HfpTypes
  <2>5. HfpTurns'
    BY <2>2 DEF HfpTurns
  <2>6. QED
    BY <2>2, <2>3, <2>4, <2>5 DEF HfpOrder, Hfp!NothingWaits
<1>4. CASE Hfp!hf_io_disconnected \/ Hfp!hfp_hf_unref
  <2>1. PICK life : life \in HfpLives \ {"up"} /\ Hfp!hf_lives(life)
    <3>1. CASE Hfp!hf_io_disconnected
      BY <3>1 DEF Hfp!hf_io_disconnected, Hfp!Returned, HfpTypes, HfpLives
    <3>2. CASE Hfp!hfp_hf_unref
      BY <3>2 DEF Hfp!hfp_hf_unref, Hfp!Unref, HfpTypes, HfpLives
    <3>3. QED
      BY <1>4, <3>1, <3>2
  <2>2. /\ hf_life' = life /\ hf_writer_active' = (hf_writer_active /\ life \notin {"freed", "destroyed"})
        /\ (cmd_queue' = cmd_queue \/ cmd_queue' = <<>>)
        /\ UNCHANGED <<hf_sent, hf_write_buf, hf_told, gw_read_buf, gw_reads, result_pending, gw_again, gw_at, gw_handled,
                       gw_write_buf, gw_writer_active, gw_life, cmd_handlers, command_callback, hf_line, gw_line, noise, hfp_slip>>
    BY <2>1 DEF Hfp!hf_lives, Hfp!gwInput, Hfp!gwOutput, Hfp!gwUsers
  <2>3. hf_life' \in HfpLives /\ hf_writer_active' \in BOOLEAN /\ hf_life' # "up"
    BY <2>1, <2>2
  <2>4. <<>> \in Seq(HfpCommands)
    OBVIOUS
  <2>5. HfpTypes'
    BY <2>2, <2>3, <2>4 DEF HfpTypes
  <2>6. HfpTurns'
    BY <2>2 DEF HfpTurns
  <2>7. QED
    BY <2>2, <2>3, <2>5, <2>6 DEF HfpOrder, Hfp!NothingWaits
<1>5. QED
  BY <1>1, <1>2, <1>3, <1>4

\* Something that is no command comes down the line.
LEMMA HfpGarbled ==
    ASSUME HfpInv, Hfp!garbled
    PROVE  HfpInv'
<1> USE DEF HfpInv
<1>1. /\ hf_line' = Append(hf_line, 0)
      /\ UNCHANGED <<hf_life, hf_sent, cmd_queue, hf_write_buf, hf_writer_active, hf_told, gw_read_buf, gw_reads, result_pending, gw_again,
                     gw_at, gw_handled, gw_life, cmd_handlers, command_callback, gw_write_buf, gw_writer_active, gw_line, hfp_slip>>
  BY DEF Hfp!garbled, Hfp!Trash, Hfp!hfVars, Hfp!gwInput, Hfp!gwOutput, Hfp!gwUsers
<1>2. 0 \in HfpLines /\ 0 \in Int /\ 0 \notin HfpCommands
  BY HfpLibrary DEF HfpLines
<1> DEFINE x == 0
<1> HIDE DEF x
<1>3. hf_line' \in Seq(HfpLines)
  <2>1. hf_line \in Seq(HfpLines)
    BY DEF HfpTypes
  <2>2. QED
    BY <1>1, <1>2, <2>1, AppendProperties
<1>4. HfpTypes' /\ HfpTurns'
  BY <1>1, <1>3 DEF HfpTypes, HfpTurns
<1>5. HfpOrder'
  <2>1. gw_read_buf \in Seq(Int) /\ hf_line \in Seq(Int) /\ hf_write_buf \in Seq(Int)
    BY HfpInts
  <2>2. x \in Int /\ x \notin HfpCommands
    BY <1>2 DEF x
  <2>3. HfpAsks(gw_read_buf, Append(hf_line, x), hf_write_buf) = HfpAsks(gw_read_buf, hf_line, hf_write_buf)
    BY <2>1, <2>2, HfpAsksAre
  <2>4. HfpAsks(gw_read_buf, hf_line, hf_write_buf)' = HfpAsks(gw_read_buf, hf_line, hf_write_buf)
    BY <1>1, <2>3 DEF x
  <2>5. HfpAnswers(gw_line, gw_write_buf, gw_at)' = HfpAnswers(gw_line, gw_write_buf, gw_at)
    BY <1>1
  <2>6. QED
    BY <1>1, <2>4, <2>5, HfpOrderSame
<1>6. Hfp!NothingWaits'
  BY <1>1 DEF Hfp!NothingWaits
<1>7. QED
  BY <1>4, <1>5, <1>6

\* Every step keeps the invariant.
LEMMA HfpNext ==
    ASSUME HfpInv, Hfp!Next \/ UNCHANGED hfpVars
    PROVE  HfpInv'
<1>1. CASE UNCHANGED hfpVars
  BY <1>1 DEF hfpVars, HfpInv, HfpTypes, HfpTurns, HfpOrder, Hfp!NothingWaits
<1>2. CASE Hfp!Next
  BY <1>2, HfpSends, HfpHfReads, HfpHfWrites, HfpGwReads, HfpGwWrites, HfpInput, HfpAnswered, HfpInformed, HfpQuiet, HfpGarbled DEF Hfp!Next
<1>3. QED
  BY <1>1, <1>2

\* The invariant holds at the start: nothing has been sent.
LEMMA HfpStart == Hfp!Init => HfpInv
<1> SUFFICES ASSUME Hfp!Init PROVE HfpInv
  OBVIOUS
<1>1. /\ hf_life = "up" /\ hf_sent = 0 /\ cmd_queue = <<>> /\ hf_write_buf = <<>> /\ hf_writer_active = FALSE /\ hf_told = <<>>
      /\ gw_life = "up" /\ gw_read_buf = <<>> /\ gw_reads = TRUE /\ gw_write_buf = <<>> /\ gw_writer_active = FALSE
      /\ result_pending = FALSE /\ gw_again = FALSE /\ gw_at = 0 /\ gw_handled = <<>> /\ hf_line = <<>> /\ gw_line = <<>>
  BY DEF Hfp!Init, Hfp!hfp_hf_new, Hfp!hfp_gw_new
<1>2. MaxCommands \in Nat /\ BufSize \in Nat /\ 0 \notin HfpCommands
  BY HfpLibrary
<1>3. Len(<<>>) = 0 /\ \A T : <<>> \in Seq(T)
  OBVIOUS
<1>4. HfpTypes
  <2>1. hf_sent \in 0..MaxCommands /\ Len(hf_write_buf) <= BufSize /\ Len(gw_read_buf) <= BufSize /\ Len(gw_write_buf) <= BufSize
    BY <1>1, <1>2, <1>3
  <2>2. QED
    BY <1>1, <1>3, <2>1 DEF HfpTypes, HfpLives
<1>5. HfpTurns
  BY <1>1, <1>2 DEF HfpTurns
<1>6. HfpOrder
  <2> DEFINE e == <<>>
  <2>1. e \in Seq(Int) /\ Len(e) = 0 /\ e \o e = e /\ Filter(e, HfpCommands) = e
    BY <1>3, FilterEmpty
  <2>2. 0 \in Int
    OBVIOUS
  <2>3. /\ cmd_queue = e /\ hf_write_buf = e /\ gw_read_buf = e /\ gw_write_buf = e /\ hf_line = e /\ gw_line = e
        /\ hf_told = e /\ gw_handled = e /\ hf_sent = 0 /\ gw_at = 0
    BY <1>1
  <2> HIDE DEF e
  <2>4. HfpAnswering(e, e, 0, 0, Int)
    BY <2>1, <2>2, HfpAnswersAre
  <2>5. HfpAnswers(e, e, 0) = e
    BY <1>2, <2>1, <2>4 DEF HfpAnswering
  <2>6. HfpAsks(e, e, e) = e
    BY <2>1, Zenon DEF HfpAsks
  <2>7. IsRun(e, 0, 0)
    BY <2>1 DEF IsRun
  <2>8. HfpOrdered(e, e, e, e, e, 0)
    BY <2>1, <2>7 DEF HfpOrdered
  <2>9. QED
    BY <2>3, <2>5, <2>6, <2>8 DEF HfpOrder
<1>7. Hfp!NothingWaits
  BY <1>1 DEF Hfp!NothingWaits
<1>8. QED
  BY <1>4, <1>5, <1>6, <1>7 DEF HfpInv

\* What the invariant says of the properties.
LEMMA HfpCorrect ==
    ASSUME HfpInv
    PROVE  Hfp!TypeOK /\ Hfp!FreedLast /\ Hfp!ResultsBelong /\ Hfp!NothingWaits
<1> USE DEF HfpInv
<1>1. Hfp!TypeOK
  <2>1. Len(hf_write_buf) \in Nat /\ Len(gw_write_buf) \in Nat /\ Len(gw_read_buf) \in Nat
    BY LenProperties DEF HfpTypes
  <2>2. Len(hf_write_buf) <= BufSize /\ Len(gw_write_buf) <= BufSize /\ Len(gw_read_buf) <= BufSize
    BY DEF HfpTypes
  <2>3. BufSize \in Nat
    BY HfpLibrary
  <2>4. Len(hf_write_buf) \in 0..BufSize /\ Len(gw_write_buf) \in 0..BufSize /\ Len(gw_read_buf) \in 0..BufSize
    BY <2>1, <2>2, <2>3
  <2>5. QED
    BY <2>4 DEF Hfp!TypeOK, HfpTurns
<1>2. Hfp!FreedLast
  BY DEF Hfp!FreedLast, HfpTypes, HfpLives
<1>3. Hfp!ResultsBelong
  <2> SUFFICES ASSUME hfp_slip = "none", hf_life = "up"
               PROVE  /\ cmd_queue = Hfp!Filter(gw_line \o gw_write_buf \o <<gw_at>> \o gw_read_buf \o hf_line \o hf_write_buf, Hfp!Commands)
                      /\ \A i \in DOMAIN hf_told : hf_told[i] = <<i, i>>
                      /\ \A i \in DOMAIN gw_handled : gw_handled[i] = i
    BY Zenon DEF Hfp!ResultsBelong
  <2>1. HfpOrdered(HfpAnswers(gw_line, gw_write_buf, gw_at), HfpAsks(gw_read_buf, hf_line, hf_write_buf), cmd_queue, hf_told, gw_handled, hf_sent)
    BY DEF HfpOrder
  <2>2. DOMAIN hf_told = 1..Len(hf_told) /\ DOMAIN gw_handled = 1..Len(gw_handled)
    BY LenProperties DEF HfpTypes
  <2>3. (\A i \in DOMAIN hf_told : hf_told[i] = <<i, i>>) /\ (\A i \in DOMAIN gw_handled : gw_handled[i] = i)
    BY <2>1, <2>2 DEF HfpOrdered
  <2> DEFINE at == <<gw_at>>
             a == (gw_line \o gw_write_buf) \o at
             b == (gw_read_buf \o hf_line) \o hf_write_buf
  <2>4. /\ gw_line \in Seq(Int) /\ gw_write_buf \in Seq(Int) /\ at \in Seq(Int)
        /\ gw_read_buf \in Seq(Int) /\ hf_line \in Seq(Int) /\ hf_write_buf \in Seq(Int)
    BY HfpInts
  <2>5. cmd_queue = Filter(a, HfpCommands) \o Filter(b, HfpCommands)
    BY <2>1, Zenon DEF HfpOrdered, HfpAnswers, HfpAsks
  <2> HIDE DEF at
  <2>6. gw_line \o gw_write_buf \in Seq(Int) /\ gw_read_buf \o hf_line \in Seq(Int)
    BY <2>4, ConcatProperties
  <2>7. a \in Seq(Int) /\ b \in Seq(Int)
    BY <2>4, <2>6, ConcatProperties
  <2> HIDE DEF a
  <2>8. (a \o gw_read_buf) \o hf_line = a \o (gw_read_buf \o hf_line)
    <3>1. gw_read_buf \in Seq(Int) /\ hf_line \in Seq(Int) /\ a \in Seq(Int)
      BY <2>4, <2>7
    <3>2. Regroups(a, gw_read_buf, hf_line)
      BY <3>1, Regroup
    <3>3. QED
      BY <3>2, Zenon DEF Regroups
  <2>9. (a \o (gw_read_buf \o hf_line)) \o hf_write_buf = a \o b
    <3> DEFINE q == gw_read_buf \o hf_line
    <3>1. q \in Seq(Int) /\ hf_write_buf \in Seq(Int) /\ a \in Seq(Int)
      BY <2>4, <2>6, <2>7
    <3> HIDE DEF q
    <3>2. Regroups(a, q, hf_write_buf)
      BY <3>1, Regroup
    <3>3. QED
      BY <3>2, Zenon DEF q, b, Regroups
  <2> HIDE DEF b
  <2>10. Filter(a \o b, HfpCommands) = Filter(a, HfpCommands) \o Filter(b, HfpCommands)
    BY <2>7, FilterConcat
  <2>11. cmd_queue = Filter(((a \o gw_read_buf) \o hf_line) \o hf_write_buf, HfpCommands)
    BY <2>5, <2>8, <2>9, <2>10, Zenon
  <2>12. Hfp!Filter(((a \o gw_read_buf) \o hf_line) \o hf_write_buf, Hfp!Commands) = Filter(((a \o gw_read_buf) \o hf_line) \o hf_write_buf, HfpCommands)
    BY HfpLibrary, Zenon
  <2>13. QED
    BY <2>3, <2>11, <2>12, Zenon DEF a, at
<1>4. QED
  BY <1>1, <1>2, <1>3

-----------------------------------------------------------------------------
(* All parts *)

\* The part that runs keeps its invariant.
PartsInv ==
    /\ engine \in Engines
    /\ engine = "hfp" => HfpInv
    /\ engine = "mgmt" => MgmtInv
    /\ engine = "hci" => HciInv
    /\ engine = "ringbuf" => RingInv
    /\ engine = "queue" => QueueInv
    /\ engine = "mainloop" => LoopInv
    /\ engine = "ble_old" => OldInv
    /\ engine = "btio" => IoInv

\* Each part starts in its invariant.
LEMMA PartsStart == Init => PartsInv
BY HfpStart, MgmtStart, HciStart, RingStart, QueueStart, LoopStart, OldStart, IoStart DEF Init, PartsInv

\* A step of a part keeps its invariant, and the other parts do not run.
LEMMA PartsNext == PartsInv /\ [Next]_vars => PartsInv'
<1> SUFFICES ASSUME PartsInv, [Next]_vars PROVE PartsInv'
  OBVIOUS
<1>1. engine' = engine /\ engine \in Engines
  BY EngineKept DEF PartsInv
<1>2. engine = "hfp" => HfpInv'
  BY HfpMoves, HfpNext DEF PartsInv
<1>3. engine = "mgmt" => MgmtInv'
  BY MgmtMoves, MgmtNext DEF PartsInv
<1>4. engine = "hci" => HciInv'
  BY HciMoves, HciNext DEF PartsInv
<1>5. engine = "ringbuf" => RingInv'
  BY RingMoves, RingNext DEF PartsInv
<1>6. engine = "queue" => QueueInv'
  BY QueueMoves, QueueNext DEF PartsInv
<1>7. engine = "mainloop" => LoopInv'
  BY LoopMoves, LoopNext DEF PartsInv
<1>8. engine = "ble_old" => OldInv'
  BY OldMoves, OldNext DEF PartsInv
<1>9. engine = "btio" => IoInv'
  BY BtIoMoves, IoNext DEF PartsInv
<1>10. QED
  BY <1>1, <1>2, <1>3, <1>4, <1>5, <1>6, <1>7, <1>8, <1>9 DEF PartsInv

\* Every reachable state of every part is in its invariant.
LEMMA PartsAlways == Spec => []PartsInv
BY PartsStart, PartsNext, PTL DEF Spec

\* In every reachable state of every part, for every value of the constants: the part is
\* within its types; a request of mgmt_send or bt_hci_send is called back at most once and
\* freed once, a handler that was unregistered is not called any more, the controller is
\* sent no more commands than it takes, a watch of the main loop is destroyed once, no end
\* of a hands-free link is used after it was freed, what the connector keeps of a scan
\* exists as long as it keeps it, and a socket that nobody has is closed.
THEOREM RequestsCompletedOnce == Spec => []CompletedOnce
<1>1. PartsInv => CompletedOnce
  <2> SUFFICES ASSUME PartsInv PROVE CompletedOnce
    OBVIOUS
  <2>1. TypeOK
    BY HfpCorrect, MgmtCorrect, HciCorrect, RingCorrect, QueueCorrect, LoopCorrect, OldCorrect, IoCorrect DEF PartsInv, TypeOK
  <2>2. QED
    BY <2>1, HfpCorrect, MgmtCorrect, HciCorrect, LoopCorrect, OldCorrect, IoCorrect DEF PartsInv, CompletedOnce
<1>2. QED
  BY <1>1, PartsAlways, PTL

\* In every reachable state of every part, for every value of the constants: the result of
\* a hands-free command, of a mgmt request and of a HCI command is given to the request it
\* belongs to, the ring buffer and the queue hold what was put into them, in order, and
\* what the user of a socket is told is what happened to that socket.
THEOREM AnswersBelongAlways == Spec => []AnswersBelong
<1>1. PartsInv => AnswersBelong
  BY HfpCorrect, MgmtCorrect, HciCorrect, RingCorrect, QueueCorrect, IoCorrect DEF PartsInv, AnswersBelong
<1>2. QED
  BY <1>1, PartsAlways, PTL

\* In every reachable state of every part, for every value of the constants: what can be
\* sent has a writer or an answer to come that will wake one, and the threads of the
\* scanner and of the connector do not each hold the lock that the other waits for.
THEOREM NothingWaitsAlways == Spec => []NothingWaits
<1>1. PartsInv => NothingWaits
  BY HfpCorrect, MgmtCorrect, HciCorrect, OldCorrect DEF PartsInv, NothingWaits
<1>2. QED
  BY <1>1, PartsAlways, PTL
==================================================================================
