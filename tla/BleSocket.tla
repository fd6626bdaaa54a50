------------------------------ MODULE BleSocket ------------------------------
(***************************************************************************)
(* The Bluetooth LE transport of the gateway: BLESocket, the thread of     *)
(* BLEConnectionAcceptor that scans for devices, the thread of every       *)
(* BLEConnection and the BLEDeviceStatistic the two share.                 *)
(*                                                                         *)
(* A step is what a thread does between two points at which another thread *)
(* can tell the difference: a call of the adapter or of a device, an       *)
(* access to a statistic, or a critical section of bleConnectionsMutex or  *)
(* bleMessageQueueMutex.  The library below (libBLE, an empty submodule)   *)
(* is external: devices come and go, connecting and finding the UART       *)
(* service may fail, disconnecting may throw.                              *)
(***************************************************************************)
EXTENDS Integers, Sequences

CONSTANTS
    Macs,               \* addresses of devices
    Slots,              \* bound: connection threads alive at a time
    None, Expired,      \* no entry in bleConnections; an entry whose connection is gone
    FaultLimit,         \* 3: a device with more failures of a kind is faulty
    FaultyPeriod,       \* 300 s, in ticks of the clock
    MaxAge,             \* bound: ticks since the last change of a statistic
    MaxQueue,           \* bound: messages in bleMessageQueue
    MacVanishes         \* may a connected device have lost its address?

ConstantsOK ==
    /\ {FaultLimit, FaultyPeriod, MaxAge, MaxQueue} \subseteq Nat
    /\ MacVanishes \in BOOLEAN
    /\ None \notin Slots /\ Expired \notin Slots /\ None # Expired
    /\ Macs \cap {"start", "wait", "scan", "crashed", "ended"} = {}

VARIABLES
    gateway,            \* the gateway's thread: "starting", "running", "failed", "stopping", "stopped"
    core,               \* what Core was told last: "unknown" or "connected"
    stopped,            \* BLEConnectionAcceptor::stopped
    acceptor,           \* where the acceptor's thread is
    todo,               \* devices of the list that getDevices returned, not yet visited
    devices,            \* devices the adapter lists
    statistics,         \* deviceStatistics
    thread,             \* the connection threads
    bleConnections,     \* the weak pointer stored under an address
    bleMessageQueue,    \* senders of the messages not yet given to Core
    threw               \* devices whose disconnect has thrown

vars == <<gateway, core, stopped, acceptor, todo, devices, statistics, thread, bleConnections, bleMessageQueue, threw>>

Statistic == [known : BOOLEAN, connectFailed : 0..255, serviceFailed : 0..255,
              inProgress : BOOLEAN, age : 0..MaxAge]
Unknown   == [known |-> FALSE, connectFailed |-> 0, serviceFailed |-> 0, inProgress |-> FALSE, age |-> 0]

\* The points of handleConnection; "free" is a slot without thread and "lost" one
\* whose thread ended without unsetConnectionInProgress.
Points == {"free", "connect", "service", "mac", "add", "up", "disconnect", "erase",
           "remove", "unset", "return", "lost"}
NoThread == [at |-> "free", mac |-> None]

\* Types of all variables; the acceptor is at one of its points or decides on a device.
TypeOK ==
    /\ stopped \in BOOLEAN
    /\ acceptor \in {"start", "wait", "scan", "crashed", "ended"} \cup Macs
    /\ todo \subseteq Macs /\ devices \subseteq Macs
    /\ statistics \in [Macs -> Statistic]
    /\ thread \in [Slots -> [at : Points, mac : Macs \cup {None}]]
    /\ bleConnections \in [Macs -> Slots \cup {None, Expired}]
    /\ bleMessageQueue \in Seq(Macs) /\ threw \subseteq Macs

\* begin() has just started the acceptor's thread.
Init ==
    /\ gateway = "starting" /\ core = "unknown" /\ stopped = FALSE
    /\ acceptor = "start" /\ todo = {} /\ devices = {}
    /\ statistics = [m \in Macs |-> Unknown]
    /\ thread = [t \in Slots |-> NoThread]
    /\ bleConnections = [m \in Macs |-> None]
    /\ bleMessageQueue = <<>> /\ threw = {}

\* Connection threads that are still inside handleConnection.
Live(m) == {t \in Slots : thread[t].mac = m /\ thread[t].at \notin {"free", "return", "lost"}}

-----------------------------------------------------------------------------
(* BLEDeviceStatistic *)

IncrementConnectFailed(s) == [s EXCEPT !.connectFailed = (@ + 1) % 256, !.age = 0]
IncrementServiceFailed(s) == [s EXCEPT !.serviceFailed = (@ + 1) % 256, !.age = 0]
ResetStatistic(s)         == [s EXCEPT !.connectFailed = 0, !.serviceFailed = 0, !.age = 0]

\* Mutant of isFaulty: a limit one too high.
isFaultyLater(s) == s.connectFailed > FaultLimit + 1 \/ s.serviceFailed > FaultLimit + 1

\* lastChanged - now is never positive, so the counts are never forgotten.
isFaulty(s) ==
    LET difference == 0 - s.age
    IN  ~(difference > FaultyPeriod) /\ (s.connectFailed > FaultLimit \/ s.serviceFailed > FaultLimit)

-----------------------------------------------------------------------------
(* BLESocket::begin, and BLEConnectionAcceptor *)

socket == <<bleConnections, bleMessageQueue, threw>>

\* The thread enters loop() and, if it is not stopped already, waitForAdapter.
loop_start ==
    /\ acceptor = "start"
    /\ acceptor' = IF stopped THEN "ended" ELSE "wait"
    /\ UNCHANGED <<gateway, core, stopped, todo, devices, statistics, thread, socket>>

\* waitForAdapter has found an adapter, which starts to scan; adapterFoundFlag is set.
loop_adapter ==
    /\ acceptor = "wait" /\ ~stopped
    /\ acceptor' = "scan"
    /\ UNCHANGED <<gateway, core, stopped, todo, devices, statistics, thread, socket>>

\* start() has seen adapterFoundFlag, and begin() tells Core.
start_succeeds ==
    /\ gateway = "starting" /\ acceptor \notin {"start", "wait"}
    /\ gateway' = "running" /\ core' = "connected"
    /\ UNCHANGED <<stopped, acceptor, todo, devices, statistics, thread, socket>>

\* start() has waited for 5 seconds and calls stop(), then begin() returns false.
start_fails ==
    /\ gateway = "starting"
    /\ gateway' = "failed" /\ stopped' = TRUE
    /\ UNCHANGED <<core, acceptor, todo, devices, statistics, thread, socket>>

\* waitForAdapter returns nullptr when it is stopped, and loop() calls getMac() on that.
loop_no_adapter ==
    /\ acceptor = "wait" /\ stopped
    /\ acceptor' = "crashed"
    /\ UNCHANGED <<gateway, core, stopped, todo, devices, statistics, thread, socket>>

\* The for loop of loop() is over: getDevices.
loop_scan ==
    /\ acceptor = "scan" /\ todo = {}
    /\ IF stopped THEN acceptor' = "ended" /\ UNCHANGED todo
                  ELSE UNCHANGED acceptor /\ todo' = devices
    /\ UNCHANGED <<gateway, core, stopped, devices, statistics, thread, socket>>

loop_return ==
    /\ acceptor = "scan" /\ todo # {} /\ stopped
    /\ acceptor' = "ended" /\ todo' = {}
    /\ UNCHANGED <<gateway, core, stopped, devices, statistics, thread, socket>>

\* isBroken, or no address: removeBLEDevice.
loop_broken(m) ==
    /\ acceptor = "scan" /\ m \in todo /\ ~stopped
    /\ devices' = devices \ {m} /\ todo' = todo \ {m}
    /\ UNCHANGED <<gateway, core, stopped, acceptor, statistics, thread, socket>>

\* Mutant of loop_device: a connection in progress is not noticed.
loop_device_always(m) ==
    /\ acceptor = "scan" /\ m \in todo /\ ~stopped
    /\ todo' = todo \ {m}
    /\ IF statistics[m].known THEN acceptor' = m /\ UNCHANGED statistics
       ELSE UNCHANGED acceptor /\ statistics' = [statistics EXCEPT ![m] = [Unknown EXCEPT !.known = TRUE]]
    /\ UNCHANGED <<gateway, core, stopped, devices, thread, socket>>

\* Mutant of loop_device: every scan gives the device a new statistic.
loop_device_new(m) ==
    /\ acceptor = "scan" /\ m \in todo /\ ~stopped
    /\ todo' = todo \ {m}
    /\ statistics' = [statistics EXCEPT ![m] = [Unknown EXCEPT !.known = TRUE]]
    /\ UNCHANGED <<gateway, core, stopped, acceptor, devices, thread, socket>>

\* A device seen for the first time gets its statistic; one that is not in progress is
\* looked at further.
loop_device(m) ==
    /\ acceptor = "scan" /\ m \in todo /\ ~stopped
    /\ todo' = todo \ {m}
    /\ CASE ~statistics[m].known     -> /\ statistics' = [statistics EXCEPT ![m] = [Unknown EXCEPT !.known = TRUE]]
                                        /\ UNCHANGED acceptor
         [] statistics[m].inProgress -> UNCHANGED <<statistics, acceptor>>
         [] OTHER                    -> acceptor' = m /\ UNCHANGED statistics
    /\ UNCHANGED <<gateway, core, stopped, devices, thread, socket>>

loop_faulty(m) ==
    /\ acceptor = m /\ isFaulty(statistics[m])
    /\ acceptor' = "scan"
    /\ UNCHANGED <<gateway, core, stopped, todo, devices, statistics, thread, socket>>

\* BLEConnection::connect: setConnectionInProgress, then the thread is created.
connect(m) ==
    /\ acceptor = m /\ ~isFaulty(statistics[m])
    /\ \E t \in Slots :
          /\ thread[t] = NoThread
          /\ thread' = [thread EXCEPT ![t] = [at |-> "connect", mac |-> m]]
    /\ statistics' = [statistics EXCEPT ![m].inProgress = TRUE]
    /\ acceptor' = "scan"
    /\ UNCHANGED <<gateway, core, stopped, todo, devices, socket>>

-----------------------------------------------------------------------------
(* BLEConnection::handleConnection *)

others == <<gateway, core, stopped, acceptor, todo>>
Goes(t, from, to) == thread[t].at = from /\ thread' = [thread EXCEPT ![t].at = to]

connect_succeeds(t) ==
    /\ Goes(t, "connect", "service")
    /\ UNCHANGED <<others, devices, statistics, socket>>

connect_fails(t) ==
    /\ Goes(t, "connect", "remove")
    /\ statistics' = [statistics EXCEPT ![thread[t].mac] = IncrementConnectFailed(@)]
    /\ UNCHANGED <<others, devices, socket>>

\* No UART service, a single one, or several of which none has sent anything yet.
service_fails(t) ==
    /\ Goes(t, "service", "remove")
    /\ statistics' = [statistics EXCEPT ![thread[t].mac] = IncrementServiceFailed(@)]
    /\ UNCHANGED <<others, devices, socket>>

\* Several UART services, one of which has sent something.
service_found(t) ==
    /\ Goes(t, "service", "mac")
    /\ UNCHANGED <<others, devices, statistics, socket>>

\* getMac() is empty: the thread returns and leaves the connection in progress.
mac_empty(t) ==
    /\ MacVanishes
    /\ Goes(t, "mac", "lost")
    /\ UNCHANGED <<others, devices, statistics, socket>>

nus_connect(t) ==
    /\ Goes(t, "mac", "add")
    /\ statistics' = [statistics EXCEPT ![thread[t].mac] = ResetStatistic(@)]
    /\ UNCHANGED <<others, devices, socket>>

\* insert does not replace an entry that is there.
addBLEConnection(t) ==
    /\ Goes(t, "add", "up")
    /\ bleConnections' = [bleConnections EXCEPT ![thread[t].mac] = IF @ = None THEN t ELSE @]
    /\ UNCHANGED <<others, devices, statistics, bleMessageQueue, threw>>

addBLEMessage(t) ==
    /\ thread[t].at = "up" /\ Len(bleMessageQueue) < MaxQueue
    /\ bleMessageQueue' = Append(bleMessageQueue, thread[t].mac)
    /\ UNCHANGED <<others, devices, statistics, thread, bleConnections, threw>>

link_down(t) ==
    /\ Goes(t, "up", "disconnect")
    /\ UNCHANGED <<others, devices, statistics, socket>>

disconnects(t) ==
    /\ Goes(t, "disconnect", "erase")
    /\ UNCHANGED <<others, devices, statistics, socket>>

\* The catch clause swallows the exception and what was to be done after the call.
disconnect_throws(t) ==
    /\ Goes(t, "disconnect", "unset")
    /\ threw' = threw \cup {thread[t].mac}
    /\ UNCHANGED <<others, devices, statistics, bleConnections, bleMessageQueue>>

\* Mutant of removeBLEConnection: the entry stays.
removeBLEConnectionNot(t) ==
    /\ Goes(t, "erase", "remove")
    /\ UNCHANGED <<others, devices, statistics, socket>>

removeBLEConnection(t) ==
    /\ Goes(t, "erase", "remove")
    /\ bleConnections' = [bleConnections EXCEPT ![thread[t].mac] = None]
    /\ UNCHANGED <<others, devices, statistics, bleMessageQueue, threw>>

removeBLEDevice(t) ==
    /\ Goes(t, "remove", "unset")
    /\ devices' = devices \ {thread[t].mac}
    /\ UNCHANGED <<others, statistics, socket>>

\* Mutant of unsetConnectionInProgress: it is not called.
unsetConnectionInProgressNot(t) ==
    /\ Goes(t, "unset", "return")
    /\ UNCHANGED <<others, devices, statistics, socket>>

unsetConnectionInProgress(t) ==
    /\ Goes(t, "unset", "return")
    /\ statistics' = [statistics EXCEPT ![thread[t].mac].inProgress = FALSE]
    /\ UNCHANGED <<others, devices, socket>>

\* The thread ends and with it the last shared pointer to its connection.
thread_ends(t) ==
    /\ thread[t].at = "return"
    /\ thread' = [thread EXCEPT ![t] = NoThread]
    /\ bleConnections' = [m \in Macs |-> IF bleConnections[m] = t THEN Expired ELSE bleConnections[m]]
    /\ UNCHANGED <<others, devices, statistics, bleMessageQueue, threw>>

-----------------------------------------------------------------------------
(* BLESocket, called by the gateway's thread *)

\* send() erases an entry whose connection is gone; otherwise it only hands the bytes on.
send(m) ==
    /\ gateway = "running" /\ bleConnections[m] = Expired
    /\ bleConnections' = [bleConnections EXCEPT ![m] = None]
    /\ UNCHANGED <<others, devices, statistics, thread, bleMessageQueue, threw>>

loop ==
    /\ gateway = "running" /\ bleMessageQueue # <<>>
    /\ bleMessageQueue' = Tail(bleMessageQueue)
    /\ UNCHANGED <<others, devices, statistics, thread, bleConnections, threw>>

\* ~BLESocket: stop() and then the join with the acceptor's thread.
destroy ==
    /\ gateway = "running"
    /\ gateway' = "stopping" /\ stopped' = TRUE
    /\ UNCHANGED <<core, acceptor, todo, devices, statistics, thread, socket>>

destroyed ==
    /\ gateway = "stopping" /\ acceptor = "ended"
    /\ gateway' = "stopped"
    /\ UNCHANGED <<core, stopped, acceptor, todo, devices, statistics, thread, socket>>

-----------------------------------------------------------------------------
(* The surroundings *)

discovered(m) ==
    /\ acceptor \in {"scan"} \cup Macs /\ m \notin devices
    /\ devices' = devices \cup {m}
    /\ UNCHANGED <<others, statistics, thread, socket>>

tick ==
    /\ \E m \in Macs : statistics[m].known /\ statistics[m].age < MaxAge
    /\ statistics' = [m \in Macs |-> IF statistics[m].known /\ statistics[m].age < MaxAge
                                     THEN [statistics[m] EXCEPT !.age = @ + 1] ELSE statistics[m]]
    /\ UNCHANGED <<others, devices, thread, socket>>

Acceptor ==
    \/ loop_start \/ loop_adapter \/ loop_no_adapter \/ loop_scan \/ loop_return
    \/ \E m \in Macs : loop_broken(m) \/ loop_device(m) \/ loop_faulty(m) \/ connect(m)

\* What a connection thread does by itself, given that calls of the library return.
Progress(t) ==
    \/ connect_succeeds(t) \/ connect_fails(t) \/ service_fails(t) \/ service_found(t)
    \/ mac_empty(t) \/ nus_connect(t) \/ addBLEConnection(t) \/ disconnects(t)
    \/ disconnect_throws(t) \/ removeBLEConnection(t) \/ removeBLEDevice(t)
    \/ unsetConnectionInProgress(t) \/ thread_ends(t)

Gateway == start_succeeds \/ start_fails \/ loop \/ destroy \/ destroyed \/ \E m \in Macs : send(m)

Surroundings == tick \/ \E m \in Macs : discovered(m)

Next ==
    \/ Acceptor \/ Gateway \/ Surroundings
    \/ \E t \in Slots : Progress(t) \/ addBLEMessage(t) \/ link_down(t)

-----------------------------------------------------------------------------
(* Properties *)

\* connectionInProgress is all that keeps the acceptor from opening a second
\* connection to a device whose first one is being made, used or taken down.
OneConnection == \A m \in Macs : \A t, u \in Live(m) : t = u

\* The acceptor reads and resets the counters of a statistic, which are not atomic,
\* only while no connection thread can write them.
StatisticsExclusive == acceptor \in Macs => Live(acceptor) = {}

\* A device that has been added to bleConnections and not removed is found there by
\* send(), whatever its earlier connections were: only one whose disconnect has thrown
\* leaves an entry behind that hides the next.
Reachable ==
    \A t \in Slots : thread[t].at \in {"up", "disconnect", "erase"} =>
        bleConnections[thread[t].mac] = t \/ thread[t].mac \in threw

\* Every device is given up after FaultLimit + 1 failures of a kind, so the uint8_t
\* counters never wrap around to 0, which would let it in again.
FailuresStop == \A m \in Macs : statistics[m].connectFailed <= FaultLimit + 1
                             /\ statistics[m].serviceFailed <= FaultLimit + 1

\* Only the return for an empty address leaves a device marked as in progress although
\* nobody works on it: the flag that is never taken back is the end of that device.
InProgressHasThread ==
    \A m \in Macs : statistics[m].inProgress =>
        \/ Live(m) # {}
        \/ \E t \in Slots : thread[t] = [at |-> "lost", mac |-> m]

\* A device the adapter keeps listing is tried, unless it is faulty or the socket stops.
DeviceIsTried ==
    \A m \in Macs :
        m \in devices ~> \/ m \notin devices \/ statistics[m].inProgress
                         \/ isFaulty(statistics[m]) \/ stopped

\* isFaulty's criteria as its comment lists them: a device is faulty for five minutes
\* after its last failure.
FaultyExpires == \A m \in Macs : isFaulty(statistics[m]) => statistics[m].age <= FaultyPeriod
==============================================================================
