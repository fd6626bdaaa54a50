# TLA+ verification of the linux-mqtt-sn-gateway

The repository is an MQTT-SN gateway for Linux: MQTT-SN clients (sensors that may
sleep) talk to it over UDP, a serial modem, telnet, TCP or BLE, and the gateway is one
MQTT client of one broker on behalf of all of them. This directory models its own
logic in TLA+, checks it with TLC on small instances and proves the invariants of its
database, of its MQTT client, of its transports and of the Bluetooth parts outside GATT with TLAPS.

Paths below are relative to `src/src/Implementation` unless they say otherwise.

## 1. The system

| Component | State | Operations | Interaction |
|---|---|---|---|
| `LinuxPersistent.cpp/.h` | `CLIENTS`, per client `.REG .SUB .WIL .PUB`, `MQTT.SUB`; the flags `_transaction_started`, `_error`, `_not_in_client_registry` and the copy `_entry_client` | start/apply transaction, add/delete/reset client, setters, registrations, subscriptions, wills, publishes, global counts, configuration files | called by Core only |
| `paho/PahoMqttMessageHandler.cpp`, `paho/pahomqttembeddedc/MQTTClient/src/MQTTClient.h` (changed for this gateway), `.../linux/linux.cpp` | connection flag, table of message handlers, packet id, outstanding ping, one socket | loop, connect, subscribe, unsubscribe, publish, disconnect | called by Core and by the gateway's loop; calls `Core::publish` from inside any wait |
| Core, MqttSnMessageHandler, Gateway | sessions of MQTT-SN clients | the MQTT-SN protocol | git submodules, empty at this commit |
| `Udp/LinuxUdpSocket.cpp` | one socket, broadcast addresses | begin, send, loop (receive, reconnect) | `MqttSnMessageHandler::receiveData`, notify connected/disconnected |
| `Serial/LinuxSerialSocket.cpp`, `Telnet/LinuxTelnetSocket.cpp` | a line to a modem, addresses | commands and their answers, waited for in loops | as above |
| `Tcp/SingleTcpSocket.cpp` | listening socket, one connection | loop: accept or read | as above |
| `Tcp/TcpSocket.cpp`, `TcpConnection`, `ConnectionAcceptor`, `Queue.h` | connection list, message queue, three kinds of threads | accept, receive, send, stop | threads share list and queue (library only, not used by `main`) |
| `Ble/*` | devices with failure counters, connections, message queue; scanner, acceptor and connection threads | scan, connect, exchange, give up a faulty device | as above |
| `LinuxGateway.cpp`, `src/src/main/main.cpp` | `stopped`, the thread | start, dispatch, stop | owns all the others |
| `LinuxSystem.cpp` | two 32 bit time stamps | heartbeat, elapsed time | called by Core |
| `LinuxLogger.cpp` | nothing that is read back | output | called by all |
| `Ble_old/Scanner`, `Connect`, `BluetoothLowEnergySocket` | scan results, connections and their state, three threads and a glib main loop | scan, connect, observe, send | an earlier BLE transport; its `add_subdirectory` is commented out |
| `Ble_old/bluez/bluez5/src/shared/att.c`, `gatt-*.c` | queues of operations, handlers, the database, prepared writes | the attribute protocol and GATT client and server | callbacks in one main loop; the peer |
| `Ble_old/bluez/bluez{4,5}/attrib` | `GAttrib`'s queues and records, a procedure in progress | discovery, long reads and writes | used by `Connection` |
| `Ble_old/bluez/bluez5/btio/btio.c`, `src/shared/{hfp,mgmt,hci}.c` | watches, queues of requests, credits | connect, listen, accept; commands and answers | glib, the kernel, a controller, a phone |
| `Ble_old/bluez/bluez5/src/shared/{ringbuf,queue,mainloop,timeout-mainloop}.c` | the data structures below | | used by all of the above |
| `paho/.../MQTTPacket`, `MQTTClient-C`, gattlib, BlueZ codecs | | | vendored; see section 6 |

What is hard in it, and what therefore has to hold:

* **The database has no locks and no commit.** A transaction is three flags and one
  entry in memory; every operation tests them and writes through at once. Core opens
  one while another is open (a message from the broker is handled while the MQTT client
  waits for an answer), ids that are too long fail at different places, and the process may
  die between the five writes of `delete_client`. A client's data must be out of reach
  of other clients' transactions, ids must stay unique although `add_client` does not
  look for them, a position that is used again must come without the data of its
  former owner, although files are opened without truncating them.
* **Files with holes.** Entries are emptied and used again, lists are counted in two ways
  (entries, entries in use), ids are positions, from 0 or from 1.
* **One thread waits for answers and handles everything else in between.** Packet ids of
  answers are not compared; a call that times out leaves its answer on the way; the
  connection may be lost silently, be refused or closed; ids wrap around; handlers run out.
* **Liveness.** Every call must return, a lost connection must come back.
* **Scripts on an unreliable line.** The serial and telnet sockets wait for answers without
  a timeout and take the next line for the answer: lines that are lost, garbled or left
  over must not give one client's data to another.
* **Threads.** The BLE and TCP sockets share lists, counters and queues between a thread per
  connection, an acceptor and the gateway's loop, not all of it under a lock.
* **Callbacks that call back.** In BlueZ everything runs in one thread, but every callback may
  cancel, send, unregister or drop the object that is calling it, while a list is
  walked or a batch of events is handled. Each operation must be completed once, and
  what can be sent must have somebody who will send it.

The complete list, each item at its line, is `hazards` in `PROJECT.json`.

## 2. Modules

| Module | Models | Used by |
|---|---|---|
| `LinuxPersistent` | the database: one action per operation | all database runs and proofs |
| `MCLinuxPersistent` | symmetry and a bound for TLC | `registry`, `files`, `removed_by_msg_id` |
| `SessionStore` | what the database promises Core: sessions and counts, no files | |
| `LinuxPersistentRefinement` | the refinement mapping onto `SessionStore` | `sessions` |
| `LinuxPersistentProofs` | proofs: types, registry, entry and transaction; isolation of clients, inertness of failed transactions, clean reuse; what the files hold and what the queries answer | `LinuxPersistentRefinementProofs` |
| `LinuxPersistentRefinementProofs` | proof: the database implements `SessionStore` | |
| `MqttClient` | the MQTT connection, its calls, broker and network | all MQTT runs |
| `MCMqttClient` | symmetry for TLC | all MQTT runs |
| `MqttClientProofs` | proofs: types, pings, answers and the calls they belong to; Core, handlers and broker agree on the subscriptions | |
| `SerialSocket`, `TelnetSocket`, `UdpSocket`, `SingleTcpSocket`, `TcpSocket`, `BleSocket` | one transport each | `Transports` |
| `GatewayProcess` | `main`, the gateway's thread, `LinuxSystem` | `Transports` |
| `Transports` | the process with one transport, and what it tells Core | `transports`, `ble_faulty` |
| `MCTransports` | the serial line's instance | `transports`, `ble_faulty` |
| `TransportsProofs` | proofs: the clock, the counts of `TcpSocket`, the threads of `BLESocket` | `TransportsLineProofs` |
| `TransportsLineProofs` | proof: what `notify_socket_connected` promises, in every build | `TransportsTalkProofs` |
| `TransportsTalkProofs` | proofs: the two line sockets keep in step with the bridge; messages bear their sender; types | |
| `Att` | `att.c` | `Gatt` |
| `GattHelpers` | `gatt-helpers.c` | `Gatt` |
| `GattClient`, `GattClientWrites`, `GattClientNotify` | `gatt-client.c`: discovery; reads and writes; notifications | `Gatt` |
| `GattDb`, `GattServer` | `gatt-db.c`, `gatt-server.c` | `Gatt` |
| `GAttrib4`, `GAttrib`, `GattProcedures` | `attrib/gattrib.c` of bluez4 and of bluez5, `attrib/gatt.c` | `Gatt` |
| `Gatt`, `MCGatt` | these ten, each with its neighbours as external; the peers' databases | `gatt`, `prepared_apart` |
| `BluetoothLowEnergy` | `Ble_old`'s own classes | `Bluetooth` |
| `BtIo`, `Hfp`, `Mgmt`, `Hci` | `btio.c`, `hfp.c`, `mgmt.c`, `hci.c` | `Bluetooth` |
| `Ringbuf`, `PtrQueue`, `Mainloop` | `ringbuf.c`, `queue.c`, `mainloop.c` and `timeout-mainloop.c` | `Bluetooth` |
| `Lists` | picking the elements of a list that match, as `queue_find`, `queue_remove_all` and `g_slist_remove` do | `BluetoothLowEnergy`, `Hfp`, `Mgmt`, `Hci`, `PtrQueue` |
| `Bluetooth` | these eight parts | `bluetooth` |
| `BluetoothQueueProofs` | proofs: lists and `Filter`; the invariants of `Mgmt`, `Hci`, `PtrQueue`, `Ringbuf` and `Mainloop` | `BluetoothProofs` |
| `BluetoothProofs` | proofs: the invariants of `BluetoothLowEnergy`, `BtIo` and `Hfp`; the theorems about all eight | |

### LinuxPersistent

| Variable | Code |
|---|---|
| `tx`, `err`, `notIn`, `entry` | `_transaction_started`, `_error`, `_not_in_client_registry`, `_entry_client` |
| `opened` | history: the client id the open transaction was started with |
| `registry` | `CLIENTS` |
| `reg`, `sub`, `wil`, `pub` | the four files of every file number; number 0 is the empty file number of a zeroed entry, whose files would be called `.SUB` and so on |
| `global` | `MQTT.SUB` |

Every action has the name of the operation of the class. A file of fixed-size entries is
a sequence, `seek` and `write` is `Put`; positions count from 1 in the model and from 0 in
the code. A missing file reads like an empty one, so the two are the same. Operations that return without
changing anything are stuttering steps. `begin` with `Restart` is a process that died
between two operations and started again, `delete_client_crash(k)` one that died inside
`delete_client` with `k` of four files removed. Names and payloads are values; the
cases in which their length matters have actions (`..._overlong`) or a set of
their own (`EdgeNames`: names of exactly `MAXIMUM_TOPIC_NAME_LENGTH` bytes, which pass
the test of `add_client_registration` and cannot be read back). The misplaced write
of `remove_publish_by_msg_id` zeroes one 16-bit word of the file, the one whose number is the position of the
entry that was found. `ZeroedWord` says what that does to the entry it lies in: it damages the payload
(`Damaged`), takes the message id, or empties the entry, as `PayloadWords` and `PublishWords` (131 and 136
in the code) lay it out.

Assumed of Core: client ids and addresses are not empty; `add_client` is given the id
its transaction was started with; `delete_client` is given the id of the client its
transaction found; publish ids are at least 1. Everything else may be called at any
time in any order, also without or inside a transaction.

### SessionStore and the refinement

`SessionStore` has a function from registered clients to sessions (status, registered
topics, set of subscriptions, will, publishes by id) and a number per topic. The
mapping reads a session out of the files of the client's position. `ImplementsStore`
says that every step of the database is one step of one session, one step of a count,
a crash, or nothing.

### MqttClient

| Variable | Code |
|---|---|
| `isconnected`, `ping_outstanding`, `packetid` | members of `Client` |
| `attached`, `topicFilters` | `messageHandlers[i].topicFilter != 0` and the buffer it points to |
| `call` | the call the gateway's thread is in (the program counter) |
| `link`, `toBroker`, `toClient` | the socket and what is on its way in it |
| `subscribed` | the broker's view (external) |
| `wanted` | history: topics for which `subscribe` succeeded on this connection |

A call with an answer is two kinds of steps: sending (`subscribe`, `unsubscribe`,
`publish`, `loop_connect`) and the passes through `cycle` (`cycle_publish`, `cycle_other`,
`read_fails`, `read_torn`) that end in `answered` or `timed_out`. `loop_yield` is `loop()` on a connection;
`yield_done` and `yield_fails` are its two results. `read_stuck` is the loop in
`IPStack::read` when `recv` returns 0; `read_torn` is a read that ran out of time in the middle of a packet
(if `PacketsTorn`): what was read is gone, and the rest is read as a packet of any type and id; `killed` is the process ended by SIGPIPE or by hand
and started again. Timers are not counted: one may run out at any time. The exception is keep-alive during
`connect`, whose 30 s are shorter than the 60 s of the interval.

The broker and the network are external: packets stay in order, the broker answers every
packet once, may grant a lower QoS or refuse, may close; the network may
lose everything silently.

Assumed: packets fit the 512 byte buffers and are written whole or not at all. A write blocks while the
buffers of the socket are full; a broker that stops reading for so long is not modelled, and `MaxInFlight`
is a bound of the runs, not a size of the code. The
broker sends a SUBACK before the first message of the subscription (MQTT allows either
order); topics have no wildcards; the will QoS of the configuration is valid; a peer
that resets the connection is treated like one that closes it. `CoreCounts` is the assumption that
Core, which counts subscribers in `MQTT.SUB`, subscribes only to topics it has not
subscribed to; `mqtt_returns` does without it.

### Transports

The parts of `Transports` share `gateway` (the process) and `core` (what Core was last told
of the socket); the build chooses the part, as `LinuxGateway.h` does.

* `SerialSocket`: a call is a script of steps (`script`): write a line, wait for a line,
  read the next one and parse it. The bridge answers; the line loses and garbles
  `MaxLineFaults` lines, and a bridge that restarts leaves lines over.
* `TelnetSocket` runs the same scripts on a connection that loses nothing and may be closed.
* `UdpSocket`: both sockets with every place at which `begin` may fail; `si_other` is shared
  between receiving and the sends that Core makes while it handles the message.
* `SingleTcpSocket`, `TcpSocket`: accepting and receiving; the threads of the second and its
  queue. `listen()` may fail without anybody noticing, and a message may arrive in pieces, which are dropped or taken for messages. The acceptor's uninitialized pointer and the two bytes of an address that are never
  written are nondeterministic.
* `BleSocket`: one step per access to something shared. The library below is external.
* `GatewayProcess`: starting, dispatching and stopping, and a clock that wraps at `Wrap`.

### Gatt and Bluetooth

Both are collections: a behaviour is one of one part (`engine`), with its neighbours as
external actions that do what the neighbour's own module shows. A part that calls back
has the running callback as a variable (`att_cb`, `ga_call`, `gb_call`, `mgmt_cb`, `hci_cb`,
`loop_cb`): while it is set only functions of the interface are called, and the main
loop takes its next event when it is clear. What was called and freed is kept in history
variables (`att_log`, `ga_log`, ...) that the properties read and no guard does.
Handles are small numbers whose largest stands for 0xffff, lengths are small numbers whose
MTU makes values of one, two and three parts, and UUIDs are compared by what the code
tells apart (16 or 128 bits, the one looked for or another).

Each module's heading says what it assumes of callers and callbacks; where BlueZ leaves
a call unprotected (a callback without a reference, a saved next entry of a list) the assumption
is that users do not do it, and section 5 names the place. History variables such as
`hci_crossed`, `mgmt_crossed`, `slips`, `notify_slips` or `hfp_slip` mark behaviours in which one of
these places was met; the properties that it breaks are stated
for the others (`Hfp` does not go on after one).

## 3. Runs

| Run | Bounds | Shows |
|---|---|---|
| `registry` | 3 clients, 2 addresses, 3 positions, wills | `RegistryWellFormed`, `EntryCoherent`, `OpenedForItsClient`, `NoInheritance`, and of steps `OthersUntouched`, `FailedIsInert` |
| `files` | 1 client, 2 names and 1 of limit length, 2 topic ids, 1 payload, 1 message id, 3 entries (a publish has 3 words, 1 of them payload, so that the misplaced write reaches every field), counts to 2 | `RegistrationsResolve`, `SubscriptionsDistinct`, `SubscriptionQueriesAgree`, `TopicsCountedOnce`, `PublishesFound` |
| `sessions` | 2 clients, 1 name, 1 payload, 1 entry per file | `TypeOK`, refinement `ImplementsStore` |
| `mqtt_calls` | 2 topics, 2 handlers, QoS 0-2, ids 1-3, 2 packets each way; Core counts its subscribers | `TypeOK`, `AnswersBelong`, `PingOnItsWay`, `SubscriptionsAgree`, `NextMessageHasHandler` |
| `mqtt_returns` | 1 topic (too long for a handler), 1 handler, QoS 0-1, 1 id, packets may be torn, Core subscribes again at will; fair | `CallsReturn`, `Reconnects` |
| `transports` | 2 addresses, 2 faults of a line, 1 datagram at a time, 2 TCP clients, 1 BLE device with 2 threads, a clock of 4 ticks; fair | `TypeOK`, `ConnectedMeansUsable`, `Attributed`, `InStep`, `OneConnection`, `Reachable`, `InProgressHasThread`, `TimeAcrossWrap`, `CallsReturn`, `DeviceIsTried` |
| `gatt` | 2 operations of `bt_att`, 4 handles, 3 requests, values of 3 parts, 3 notification handlers, 3 slots for services at the client and 2 services in the database, 2 changes, 2 prepared writes | `CompletedOnce`, `NothingWaits`, `ListsWhole`, `WritesWhole`, `RecordsAgree` |
| `bluetooth` | 3 requests, 3 handlers, 2 credits, buffers of 2 lines and of 4 bytes, 4 queue entries, 2 descriptors, 2 devices and 3 connections, 3 channels | `CompletedOnce`, `AnswersBelong`, `NothingWaits` |

Why the bounds are enough: with three positions one can be freed before, between and
after others in use, and three ids compete for them. Three entries per file give holes before,
between and after entries, and the difference between first and last hole. Three packet ids
wrap around within two connections; two packets each way (`MaxInFlight`) are a ping and a request, an answer and a message,
or an answer in front of or behind one of an earlier call. Two faults lose one line and garble the next, which is what it takes to shift
answers by one. Two threads for one BLE device are one that ends and one that starts.
Three requests are one that is answered, one that is cancelled and one that waits behind
them; three handlers are needed because a crossed notification takes two of one
index. Four handles leave a gap, a group of two and the last handle; three channels are one that was given
up, one that has taken its descriptor and one more. `files` bounds its states by a constraint (`OneKindOfFiles`): the files of topics or
those of publishes are filled, not both, because no operation reads or writes both. Operations that a run leaves out (an empty
constant set) are in another run; between them every action fires. Symmetry is over values that are
only compared for equality, and only in runs without liveness. `transports`, `gatt` and `bluetooth` do not check deadlock: a gateway that was killed
or stopped, a procedure that has ended and a link that is down may stop.

In `gatt` and `bluetooth` a property is a conjunction over the parts that have it, each conjunct defined
in the part's module. Of each property at least one mutant per group of
parts is kept in `PROJECT.json`; the mutated definitions stand next to the original ones.

Runs that end in a violation, each a disagreement between the code and what is written in it
(`findings` in `PROJECT.json` quotes both sides):

| Run | Shows |
|---|---|
| `removed_by_msg_id` | `remove_publish_by_msg_id` finds the publish and then clears two bytes of the first entry: the publish stays, and is sent again |
| `broker_closes` | after the broker has closed, the reading call never returns |
| `ble_faulty` | a device that failed too often is never tried again, though a comment gives it five minutes |
| `prepared_apart` | `exec_write_cb` starts a waiting long write without marking it, and a session prepares its parts between those of the long write |

`prepared_apart` is of one part of `Gatt` (`Engines` has one element). What `gatt` states of that part is stated for the
behaviours in which a long write was not started so, and the two runs together say where the code keeps its word and where not.

### Fairness

`ThreadFairness`: the gateway's thread calls `loop()` for ever (`dispatch_loop`) and timers
run out, so a call that waits is eventually over: weak fairness of `loop_yield`,
`timed_out` and of the two ends of `yield`. `ConnectFairness`: nothing in the code can force a
connection; the assumption is that of attempts repeated for ever not all are doomed (strong fairness of
an attempt that reaches the broker, is accepted and answered in time). Nothing is assumed of Core,
of messages, or of other packets. `mqtt_returns` sets `PeerCloses` to FALSE because with
a broker that closes `CallsReturn` does not hold: that is `broker_closes`, under the same fairness. `Reconnects`
is about a client that has given its session up; one whose link is lost does not do so (section 5).

`Transports` (weak fairness throughout): the gateway's thread, the acceptor's and those of the connections
are scheduled; the bridge answers what reaches it, which is what the waits without a timeout rely on
(`CallsReturn` says so: it excepts lines that were lost); calls of the BLE library return;
`recvfrom` with a receive timeout returns. Nothing is assumed of clients, devices or Core.

`gatt` and `bluetooth` have no fairness: that nothing waits for ever is stated as an invariant
(whoever waits waits for something that exists), for peers, kernels and controllers need not answer.

## 4. Proofs

Each theorem holds for every value of the constants: any number of clients, topics, entries,
handlers, packets on the way, devices, threads, lines, faults, requests, watches, channels and buffer sizes. What is assumed of the constants is what
`ASSUME` says in the modules that declare them, and TLC evaluates it in every run.

* Database: `ZeroAssumption` (zeroed memory is not an id, name or payload), `NumberAssumption`
  (ids and durations are numbers, topic and message ids are not 0), `BoundAssumption` (the bounds are positive numbers),
  `LayoutAssumption` (message id and publish id lie behind the payload of an entry, in this order).
* MQTT client: `TopicAssumption`, `QoSAssumption` (0 to 2), `SizeAssumption` (there is a handler, an
  id and room for a packet).
* Transports: `ConstantsAssumption`: a message of the radio has a sender in `Addresses`; a TCP
  client is not one of the two marks of "no connection"; the counts of `BLESocket` are numbers and
  its marks are not threads or devices; a heartbeat period fits the counter of `millis()`; the
  bounds on faults of a line and on the messages of a TCP client are numbers.
* Bluetooth: `ConstantsAssumption`: bounds are numbers; there is a credit and a channel; a ring buffer
  has two bytes or more.

| Theorem | Statement | Inductive invariant |
|---|---|---|
| `LinuxPersistentProofs!TypeCorrect` | `Spec => []TypeOK` | `IInv` |
| `RegistryCorrect` | `Spec => []RegistryWellFormed` | `IInv` |
| `EntryCorrect` | `Spec => []EntryCoherent` | `IInv` |
| `TransactionCorrect` | `Spec => []OpenedForItsClient` | `IInv` |
| `Isolation` | `Spec => OthersUntouched` | `IInv` |
| `FailureIsInert` | `Spec => FailedIsInert` | `IInv` |
| `NothingInherited` | `Spec => []NoInheritance` | `IInv`, itself |
| `RegistrationsCorrect` | `Spec => []RegistrationsResolve` | `IInv`, `ContentInv` |
| `LinuxPersistentProofs!SubscriptionsCorrect` | `Spec => []SubscriptionsDistinct` | `IInv`, `ContentInv` |
| `SubscriptionQueriesCorrect` | `Spec => []SubscriptionQueriesAgree` | `IInv`, `ContentInv` |
| `TopicCountsCorrect` | `Spec => []TopicsCountedOnce` | `IInv`, `ContentInv` |
| `PublishesCorrect` | `Spec => []PublishesFound` | `IInv`, `ContentInv` |
| `Implementation` | `Spec => ImplementsStore` | `StoreInv` |
| `MqttClientProofs!TypeCorrect` | `Spec => []TypeOK` | `TypeInv` |
| `PingCorrect` | `~PacketsTorn`: `Spec => []PingOnItsWay` | `TypeInv`, `SessionInv`, itself |
| `AnswersCorrect` | `~PacketsTorn`: `Spec => []AnswersBelong` | `CallInv` |
| `MqttClientProofs!SubscriptionsCorrect` | `HandlersSuffice`: `Spec => []SubscriptionsAgree` | `AgreeInv` |
| `MessagesCorrect` | `HandlersSuffice`: `Spec => []NextMessageHasHandler` | `AgreeInv` |
| `TimeCorrect` | `Spec => []TimeAcrossWrap` | `ClockInv` |
| `OneConnectionCorrect` | `Spec => []OneConnection` | `BleInv` |
| `ReachableCorrect` | `Spec => []Reachable` | `BleInv` |
| `InProgressCorrect` | `Spec => []InProgressHasThread` | `BleInv` |
| `ConnectedCorrect` | `Spec => []ConnectedMeansUsable` | `ReadyInv` |
| `InStepCorrect` | `Spec => []InStep` | `LineInv`, `TalkInv` |
| `AttributedCorrect` | `Spec => []Attributed` | `LineInv`, `TalkInv`, `ReplyInv`, `ServedInv` |
| `TypesCorrect` | `Spec => []TypeOK` of `Transports` | `TypesInv`, `LineInv`, `ReplyInv`, `QueueInv`, `BleInv`, `ClockInv` |
| `RequestsCompletedOnce` | `Spec => []CompletedOnce` of `Bluetooth`, its `TypeOK` included | `PartsInv` |
| `AnswersBelongAlways` | `Spec => []AnswersBelong` of `Bluetooth` | `PartsInv` |
| `NothingWaitsAlways` | `Spec => []NothingWaits` of `Bluetooth` | `PartsInv` |

### The database

None of the first four is inductive alone. The entry that a setter writes back is
well typed, and lands in the right place, because `EntryCoherent` says that the copy is the entry of
its own position; when an entry is loaded that needs `RegistryWellFormed`; uniqueness
of ids when a client is added needs `OpenedForItsClient` (the id was searched for when
the transaction started, and nobody has added it since); and that needs uniqueness when
a client is deleted. Their conjunction `IInv` is inductive. The proof splits it into a part about the
flags and `CLIENTS` (`RegistryInv`) and the types of the other files (`FileTypes`), so
that an operation on a client's own files has nothing to show about the first.

`Isolation` follows from `IInv`: a step writes the files of `entry.file_number` only
(`OwnFilesWritten`, `DeletedFiles`), and in `CLIENTS` only the position of the held client
(`HeldPosition`: the search for its id leads there) or a free one (`AddClientElsewhere`).
`NoInheritance` is inductive relative to `IInv`: a position stays in use until
`delete_client` has removed all its files (`StaysOccupied`), and nothing is written to the
files of a position that is not in use, including the files without a number.

The properties of topics, subscriptions and publishes speak of the files of the open client;
`ContentInv` says the same of every file, those of clients without a transaction and those of no client included,
because a transaction may be opened for any of them. Each operation leaves a file alone, removes it or writes
one entry, and a written entry is new: the search before it found no entry of the kind, which
is why the proofs begin with what a search for the first or the last entry returns. The misplaced write of
`remove_publish_by_msg_id` may hit any word of any entry: a publish stays where its id says because the word of the publish id,
when it is zeroed, empties the entry, and no other word is part of what `PublishesFound` speaks of.

`Implementation` takes one lemma per operation: what it does to the session that the files of a position stand for.
The mapping finds a session by its client id, so it is a function only because ids are unique
(`IInv`); `add_client` creates an empty session only because nothing was inherited
(`NoInheritance`); and removing a subscription or a publish removes one from the set only because no file
holds it twice (`ContentInv`). Their conjunction is `StoreInv`.

### The MQTT client

`unsubscribe` and `publish` take the next packet of the right type for their answer. That it is theirs
rests on `CallInv`: as long as a session is alive there is at most one unanswered request, it is the one of the
call that runs, and its answer has its id (`OutstandingInv`); a call that gave up has given up the session with it
(`SessionInv`). `PingOnItsWay` is inductive with the types and `SessionInv`. Both are proved for packets that are not torn
(`~PacketsTorn`, a condition of the theorems): once a read has failed in the middle of a packet they are false (section 5).

`HandlersSuffice` is a condition on the instance, not on the code: Core counts its subscribers
(`CoreCounts`), no topic is too long for a handler, there are as many handlers as topics and packets are not torn. Without it
the properties do not hold (section 5: a table that is full, a topic that is too long), and the run
`mqtt_calls` has the same restriction. `SubscriptionInv` gives the subscriptions the broker had when
it sent the packet at each place of the queue, in terms of what the client has now and the
answer it has not yet read (`Seen`); `HandlersInv` says that the handlers are the topics Core wants.
Together with `CallInv` they are inductive (`AgreeInv`).

### The transports

The variables of a build change by its own steps only, so each invariant is about one part.

* `ClockInv`: the difference of `millis()` to a time stamp is the time that has passed, modulo `Wrap`.
* `QueueInv` (only for `TypesCorrect`): no more messages are received than were sent, and the queue of `TcpSocket` holds numbers of received ones.
* `BleInv`: a device is marked as in progress exactly while one thread works on it
  (`ThreadsInv`), a thread that connects has found the device not faulty (`FailuresInv`), and the entry
  of `bleConnections` is the thread between adding and removing itself (`EntriesInv`).
* `ReadyInv`: for `LinuxSerialSocket` and `LinuxTelnetSocket`, whose `begin()` is a script, what is
  left of the script has one of three shapes (`LineShape`), and the own address has been
  read or is still to be read before the notification (`LineReady`). Nothing is said of the maximum message length, which may be 0, and
  `UdpReady`, `SingleReady` and `BleReady` say that the socket or the thread is there, not that `listen()` succeeded: the code looks at neither.
* `TalkInv`: `Conversing` ties the place in the script to the line and the bridge. While `begin()` runs
  (`Configuring`) only resets and one CONFIGURATION are on the way; a `send()` (`Sending`) and a `loop()`
  (`Receiving`) have at each step one command or its answer on the line and nothing after it but junk,
  and what `loop()` has read so far is of one message. Junk is what a restart says and what was
  garbled, which no wait and no read takes for an answer. Faults lose lines, garble them or add an OK IDLE
  (`Storm`); each predicate used of the line (`AllJunk`, `Clean`, `Framed`, `OfOne`) survives all three, so
  the number of faults does not matter. Every step of both sockets is one of eleven kinds (`TalkStep`).
* `ReplyInv`, `ServedInv`: the datagrams that wait come from endpoints that can be answered, and only the connected
  client has been served.
* `TypesInv`: what those leave out of `TypeOK`. A value read from the bridge is an address or stands for none because
  every line on its way, garbled or not, is one the bridge can have written (`Lines`); a BLE message has the address of a device
  because only a thread at work pushes one (`ThreadsInv`); a TCP client's counts are bounded by what it has sent (`QueueInv`).

### Bluetooth

`PartsInv` says that the part that runs is in its own invariant; a step of a part changes its
own variables only (the `...Moves` lemmas). Each of the eight has an invariant, a start, one lemma per function and
a lemma that the invariant implies the part's conjuncts (`...Correct`).

* Lists. Everything is kept in lists that are searched and thinned out, so the proofs begin with what `Filter` does to an
  appended, joined, injective or already thinned list. `Filter` is a recursive function; that such
  a function exists and what it is equal to is proved by induction over a set of numbers, which needs no operator parameter.
* `MgmtInv`, `HciInv`: a request is in exactly one queue while its log is empty (`MgmtRequests`, `HciQueues`); unless one was
  cancelled, the requests at the kernel or controller are those that wait for an answer, in the same order
  (`MgmtOrder`, `HciOrder`), so that the first match is the one that was answered; what may be sent has a writer (`MgmtAwake`,
  `HciAwake`), in `mgmt` also while the callbacks of a request that could not be written run; the controller has no more commands than it gave credits for (`HciWindow`); an entry of the notification list
  is marked exactly when its user is rid of it, only while an event is handed out, and a walk's next entry is in the list (`MgmtHandlers`).
* `QueueInv`: following `next` from `head` gives the list, once through, and `tail` is its last entry.
* `RingInv`: the memory holds the data from `out` on, modulo the size. That the size is a power of two enters through `align_power2` alone;
  two positions less than the size apart differ.
* `LoopInv`: a watch is destroyed exactly when the list no longer has it (`Listed`); none in the batch that is being handled has been
  destroyed, and none is in it twice (`Batched`).
* `OldInv`: the results that scanner and connector keep, the connections and the lists of active and refused devices agree, at each
  place in which one of the three threads can be (`OldConnections`, `OldResults`, `OldBlacklist`); the deadlock the comment
  warns of would need the scanner to deliver while the connector holds results.
* `IoInv`: for each channel its socket, watch, descriptor and calls so far fit together (`IoFit`), two
  open sockets have different numbers, and a closed one that is still watched keeps its own until it is given away (`IoNumbers`);
  what the main loop has found ready is settled or closed (`IoWatches`).
* `HfpInv`: commands are numbered in the order in which they are sent. The commands whose results are on their way or wanted, and
  those in buffers and on the line that were not handled, are each a run of consecutive numbers, and the runs adjoin (`HfpOrder`); that is
  stronger than `ResultsBelong`, which only says that together they are `cmd_queue`. `HfpTurns`: the handler has a command
  exactly while a result is pending.

### Only model-checked

* Liveness (`CallsReturn`, `Reconnects`, `DeviceIsTried`): out of the prover's reach, as is `ENABLED`.
* The runs that end in a violation: their counterexamples are the result.
* All of `Gatt`. Its five properties are conjunctions over ten parts, each with state and callbacks of its own, and need an invariant
  per part as those of `Bluetooth` did; none is proved. Each also has a part whose steps fold over a list of any length (what
  `cancel_all`, a lost link or a list of handlers does to every entry in `Att`, `GattClientWrites` and `GattClientNotify`, what the
  server collects in `GattServer`, the count of elements in `GattHelpers`), and what a fold computes is induction over data.

## 5. Where the code does less than one would expect

Noticed while modelling. Some have a run that ends in a violation (named in brackets). The others are behaviours of the models that no
property forbids, are excluded by an assumption of the module, or are marked by
a history variable and left out of a property (named after "excluded from"). Where something written in the code says otherwise, it is quoted.

* Database: `get_next_publish` returns the last entry in use, so the first may wait for ever
  (`LinuxPersistent.cpp:1691`); `_error` set without a transaction stays set (61); the write of `remove_publish_by_msg_id` lands in the wrong
  place (1795, [`removed_by_msg_id`]).
* MQTT: when all handlers are taken `subscribe` succeeds without one (`MQTTClient.h:757`; 166: "the callback function to be invoked when a message is received for this subscription"); a topic of 254 bytes or
  more keeps the buffer's former topic (762); a read that fails in the middle of a packet loses the place in the stream, and its rest may be read as any answer (413; 395: "If any read fails in this method, then we should disconnect from the network");
  a packet that is too long is not read to its end (417); a link that is lost silently is never noticed by `loop()` (`PahoMqttMessageHandler.cpp:238`; `MQTTClient.h:186`: "on failure, this means the client has disconnected"); an
  unanswered ping has no consequence (`MQTTClient.h:635`); a closed connection is read for ever (`linux.cpp:163`, [`broker_closes`]); sockets of earlier
  attempts stay open (75); SIGPIPE is not handled (176), nor in `SingleTcpSocket.cpp:133`.
* Transports: the result of `listen()` is ignored (`SingleTcpSocket.cpp:214`, `TcpSocket.cpp:178`); a maximum message length of 0, or none
  at all, is accepted (`LinuxSerialSocket.cpp:452`, `LinuxTelnetSocket.cpp:492`); a message that arrives in two pieces is dropped or
  its second piece taken for a message (`TcpConnection.cpp:53`), and `recv` of 0 is not treated as the end there; telnet's
  `getMaximumMessageLength` leaks its connection (`LinuxTelnetSocket.cpp:59`);
  a connection's thread runs before the connection is in the list (`TcpConnection.cpp:40`); `readOwnAddress` refuses "N/A", which the comments allow
  (`LinuxSerialSocket.cpp:300`, 329); without an adapter BLE dereferences `nullptr`
  (`BLEConnectionAcceptor.cpp:38`); a failed disconnect leaves an entry that hides the next connection
  (`BLEConnection.cpp:97`, excluded from `Reachable`); a device whose address is empty stays marked as in progress (77, excluded from
  `InProgressHasThread`); a faulty device is so for ever (`BLEDeviceStatistic.cpp:50`, [`ble_faulty`]).
* `Ble_old`: `deleteIfStateClosed` is always true (`Connector.cpp:47`); a reference to a removed result is used (93);
  a thread that is not joined after a hang-up ends the process; `PENDING_CHANGE`
  and `CLOSED` overwrite each other (`Connection.cpp:164`, 291); `close()` never releases the channel (88);
  `Scanner.cpp:335` undoes a `stop()` that came first. The scanner is started again while `scanResult_mutex` is held (`Connector.cpp:105`), which is
  harmless because its thread cannot deliver before the lock is given back: `NoDeadlock` leaves that place out.
* `att.c`: a retry leaves the first timer running (641); callbacks are called without a reference (416, 458,
  572) and lists are walked with a saved next entry (818).
* `gatt-helpers.c:632` does not update `op->id`, so a cancelled search may still call back; 1310 divides by the length of an element, which
  the peer may send as 0 (the search is then "crashed").
* `gatt-client.c`, writes: `exec_write_cb` starts a waiting long write without setting `in_long_write`, so that prepared writes interleave (3074,
  [`prepared_apart`], excluded from `WritesWhole`); every further operation of a reliable session replaces the data of the one before, which nobody
  frees (2952, 3112, excluded from `CompletedOnce`); a send that fails keeps the id of the session though its request is dropped (3029, 3118).
* `gatt-client.c`, notifications: a registration that fails leaves `notify_count` raised, and the next one is told success (1387; 1378: "notifications are already enabled");
  `disable_ccc_callback` drops a waiting registration (1693; 1688: "process any queued requests"); unregistering while the write is on its way leaves the
  others waiting (1708; 174: "queued here so that they can be processed after a write"). They are excluded from `RecordsAgree`, the last two also from `CompletedOnce` and the last from `NothingWaits`.
* `gatt-client.c`, discovery: any error of the search for primary services is dropped and the client is ready (1055; 1054: "Reset error in case of not found"; excluded from `ListsWhole`); ready is told before the
  CCC of Service Changed is written (1592; 1446: "report ready only if the handler is registered successfully"); a change clears services outside its range (345; 342: "Reset remaining range"; excluded from `ListsWhole`);
  the value of an extended properties descriptor is used before the error is looked at (655, the client is then "crashed").
* `gatt-db.c:481` misses a service that encloses the new one, and `next_handle` wraps; an attribute may lie behind its service (681, 784;
  680: "Check if handle is in within service range"; excluded from `RecordsAgree`). `gatt-server.c:1044` keeps its operation on the stack; an execute that fails half-way leaves the parts before it written.
* `attrib/gatt.c`: an answer of a search by UUID that cannot be decoded ends it as a success with the part found
  (253, excluded from `ListsWhole`); an error while the rest of a long value is read is reported as success with the part read
  (772); a prepare that fails leaves parts at the peer (911); a cancelled search of included services
  still calls back (126). `gattrib.c` (bluez4) puts a request with a given id in front of one that was sent;
  that of bluez5 compares freed pointers and may give two requests the same id (360).
* `hfp.c`: a handler that answers at once is called again; a full buffer stops reading.
* `mgmt.c` and `hci.c`: the answer to a request cancelled after it was sent completes the next one of its kind (excluded from `AnswersBelong`),
  and they do not wake the writer when a cancelled request made room (excluded from `NothingWaits`). `mgmt_unregister` called inside a handler takes the
  entry off the list and nobody frees it ("leaked", excluded from `CompletedOnce`); `mgmt_unregister_index(MGMT_INDEX_NONE)` means the handlers of all
  indexes inside a handler and only those registered for it outside. A `mgmt_send_nowait` that cannot be written calls back before it returns; when it was itself
  called from a callback, its own is assumed to call nothing. In `hci.c` a command that was popped when its credit had gone is put with those
  that wait for an answer without being sent (118, 147), and waits for ever (excluded from `AnswersBelong` and `NothingWaits` by `hci_failed`).
* `btio.c:168`: a watch knows its channel by its descriptor; when that was closed and its number given to another connection, the event of one is
  taken for the other's (excluded from `AnswersBelong` by `bt_reused`).
* `mainloop.c` multiplies milliseconds by 1000 where nanoseconds are wanted, and calls through freed memory when a callback removes a descriptor of
  the same batch (155): `mainloop_remove_fd` has a guard that the code does not have, and the module's heading says so.

## 6. Not modelled

* `LinuxLogger`: output only. Core, `arduino-linux-abstraction` and `libBLE`: submodules that are empty at this commit, external in
  the modules that use them.
* Paho's `MQTTPacket` (packet formats) and `MQTTClient-C` (a client that is not built).
* The parsers of `MQTT.CON`, `MQTTSN.CON` and `TOPICS.PRE`: read once, character by character.
* gattlib (`gattlib_*.c`, `dbus/gattlib.c`): synchronous wrappers of the procedures in `attrib/gatt.c`, and
  a second build over D-Bus. Its thread's reference count is never positive, an argument on
  the stack is used after a timeout and errors are returned as success, so there is no promise to state.
* `bluez4/attrib/gatt.c` and `bluez4/btio`: older copies of what `GattProcedures` and `BtIo` model.
* Encoders and decoders (`attrib/att.c`, `ad.c`, `uhid.c`), ciphers (`crypto.c`, `ecc.c`), trace
  files (`btsnoop.c`, `pcap.c`), the test driver, `gap.c`, `util.c`, and the structures of `monitor/bt.h` and
  `lib/`: no state that two steps share. Setting and reading socket options in `btio.c`: a translation of parameters.

## 7. Plan

Done: the database with its abstract specification and first proofs, the MQTT connection,
all transports with the process around them, and Bluetooth with the parts of BlueZ that have state.
The proofs cover every safety property of the database, of the MQTT client, of `Bluetooth` and of the transports.
Next, in this order:

1. Proofs about `Gatt`: `CompletedOnce` and `NothingWaits` of `Att` and of the two `GAttrib`, with the lemmas about lists of
   `BluetoothQueueProofs`.
2. `TopicMatch`: `isTopicMatched` as a pure function against the matching rules of MQTT; then
   wildcards in `MqttClient`.
3. A message from the broker arriving while a transaction of Core is open (`MqttClient` calling
   into `LinuxPersistent`).
