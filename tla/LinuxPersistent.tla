--------------------------- MODULE LinuxPersistent ---------------------------
(***************************************************************************)
(* The gateway's database (LinuxPersistent.cpp/.h): the file CLIENTS, one  *)
(* fixed-size entry per client, the four files NNNNNNNN.REG/.SUB/.WIL/.PUB *)
(* of every client, and MQTT.SUB, which counts for each topic the clients  *)
(* that want it from the broker.  Core, which is not part of this          *)
(* repository, opens a transaction for one client, calls any of the        *)
(* operations below and closes it with apply_transaction.                  *)
(*                                                                         *)
(* A file of fixed-size entries is a sequence: seek(n * sizeof(entry))     *)
(* followed by a write is Put(s, n + 1, e).  Entries and file numbers are  *)
(* counted from 1 here and from 0 in the code; file number 0 stands for    *)
(* the empty string, which is what memset leaves in a zeroed entry.  A     *)
(* missing file reads as an empty one, so the two are not told apart.      *)
(*                                                                         *)
(* An operation whose guard fails without setting _error returns and       *)
(* changes nothing: that is a stuttering step, and not written down.       *)
(***************************************************************************)
EXTENDS Naturals, Sequences, FiniteSets

CONSTANTS
    Zero,           \* what memset(0) leaves: empty string, empty address
    ClientIds,      \* client ids of fewer than MAXIMUM_CLIENT_ID_LENGTH bytes
    Addresses,      \* device addresses
    Statuses,       \* CLIENT_STATUS values Core sets besides ACTIVE
    Durations,      \* keep-alive durations and timeouts
    MessageTypes,   \* message types a client may be awaited to send
    MsgIds,         \* message ids
    TopicNames,     \* topic names of fewer than MAXIMUM_TOPIC_NAME_LENGTH bytes
    EdgeNames,      \* topic names of exactly MAXIMUM_TOPIC_NAME_LENGTH bytes
    TopicIds,       \* topic ids Core subscribes and unsubscribes with
    QoS,            \* granted qualities of service
    WillTopics,     \* a will topic with its qos and retain flag
    WillMessages,   \* will messages
    Payloads,       \* a PUBLISH: payload, topic id, qos and retain flag
    Damaged,        \* a payload two of whose bytes were overwritten by zeros
    PayloadWords,   \* 16-bit words of an entry_publish in front of its msg_id (131)
    PublishWords,   \* 16-bit words of an entry_publish (136)
    MaxClients,     \* bound: entries of CLIENTS
    MaxEntries,     \* bound: entries of any other file
    MaxCount        \* bound: clients counted for one topic in MQTT.SUB

ASSUME ZeroAssumption ==
    /\ Zero \notin ClientIds \cup Addresses \cup TopicNames \cup EdgeNames
    /\ Zero \notin WillTopics \cup WillMessages
    /\ Damaged \notin Payloads \cup {Zero}
    /\ TopicNames \cap EdgeNames = {}

ASSUME NumberAssumption ==
    /\ Durations \subseteq Nat
    /\ MsgIds \subseteq Nat \ {0}
    /\ TopicIds \subseteq Nat \ {0}
    /\ QoS \subseteq Nat

ASSUME BoundAssumption ==
    /\ MaxClients \in Nat \ {0}
    /\ MaxEntries \in Nat \ {0}
    /\ MaxCount \in Nat \ {0}

\* In struct entry_publish msg_id and publish_id follow each other behind the payload.
ASSUME LayoutAssumption ==
    /\ PayloadWords \in Nat \ {0}
    /\ PublishWords \in Nat
    /\ PayloadWords + 2 <= PublishWords

-----------------------------------------------------------------------------
VARIABLES
    tx,         \* _transaction_started
    err,        \* _error
    notIn,      \* _not_in_client_registry
    entry,      \* _entry_client, the copy of the client's entry in memory
    opened,     \* the client id the open transaction was started with, or Zero
    registry,   \* the file CLIENTS
    reg,        \* the .REG files: topic registrations
    sub,        \* the .SUB files: subscriptions
    wil,        \* the .WIL files: will topic and message
    pub,        \* the .PUB files: publishes that wait for a sleeping client
    global      \* the file MQTT.SUB

flags == <<tx, err, notIn, entry, opened>>
files == <<reg, sub, wil, pub>>
vars  == <<flags, registry, files, global>>

Slots       == 1..MaxClients
FileNumbers == 0..MaxClients

\* struct entry_client
Client ==
    [client_id : ClientIds, file_number : Slots, client_address : Addresses,
     client_status : Statuses \cup {"ACTIVE"}, duration : Durations,
     timeout : Durations \cup {0}, await_message : MessageTypes \cup {"PINGREQ"},
     await_message_id : MsgIds \cup {0}]

NoClient ==
    [client_id |-> Zero, file_number |-> 0, client_address |-> Zero,
     client_status |-> "EMPTY", duration |-> 0, timeout |-> 0,
     await_message |-> "NONE", await_message_id |-> 0]

\* struct entry_registration (known is true in every entry that is written)
Registration == [topic_id : 1..MaxEntries, topic_name : TopicNames \cup EdgeNames]

\* struct entry_subscription
Subscription == [topic_id : TopicIds, qos : QoS, topic_name : TopicNames]
NoSubscription == [topic_id |-> 0, qos |-> 0, topic_name |-> Zero]

\* struct entry_will; willtopic stands for topic, qos and retain
Will == [willtopic : WillTopics \cup {Zero}, willmsg : WillMessages \cup {Zero}]
NoWill == [willtopic |-> Zero, willmsg |-> Zero]

\* struct entry_publish; msg stands for payload, topic_id, qos and retain, and
\* dup is false in every entry that is written
Publish == [publish_id : 1..MaxEntries, msg_id : MsgIds \cup {0},
            msg : Payloads \cup {Damaged}]
NoPublish == [publish_id |-> 0, msg_id |-> 0, msg |-> Zero]

\* struct entry_mqtt_subscription
TopicCount == [client_subscription_count : 1..MaxCount, topic_name : TopicNames]
NoTopicCount == [client_subscription_count |-> 0, topic_name |-> Zero]

\* Types of all variables; one conjunct per variable.
TypeOK ==
    /\ tx \in BOOLEAN
    /\ err \in BOOLEAN
    /\ notIn \in BOOLEAN
    /\ entry \in Client \cup {NoClient}
    /\ opened \in ClientIds \cup {Zero}
    /\ registry \in Seq(Client \cup {NoClient})
    /\ Len(registry) <= MaxClients
    /\ reg \in [FileNumbers -> Seq(Registration)]
    /\ sub \in [FileNumbers -> Seq(Subscription \cup {NoSubscription})]
    /\ wil \in [FileNumbers -> Will]
    /\ pub \in [FileNumbers -> Seq(Publish \cup {NoPublish})]
    /\ global \in Seq(TopicCount \cup {NoTopicCount})

-----------------------------------------------------------------------------
(* Files *)

\* seek and write: overwrite entry i, or append when i is just past the end.
Put(s, i, e) == IF i \in 1..Len(s) THEN [s EXCEPT ![i] = e] ELSE Append(s, e)

\* The scan that add_subscription, increment_global_subscription_count,
\* add_client_registration and add_client_publish share: the variable
\* first_empty_space ends at the LAST empty entry, or past the end of the file.
StorePosition(s, empty, i) ==
    \/ /\ i \in 1..Len(s)
       /\ s[i] = empty
       /\ \A j \in i+1..Len(s) : s[j] # empty
    \/ /\ i = Len(s) + 1
       /\ \A j \in 1..Len(s) : s[j] # empty

\* i is the first position of s whose entry is in the set E.
FirstIn(s, E, i) ==
    /\ i \in 1..Len(s)
    /\ s[i] \in E
    /\ \A j \in 1..i-1 : s[j] \notin E

\* find_empty_entry_space_in_registry: the FIRST free entry, or past the end.
FreePosition(i) ==
    \/ FirstIn(registry, {NoClient}, i)
    \/ i = Len(registry) + 1 /\ \A j \in 1..Len(registry) : registry[j] # NoClient

\* Mutant of Position: one of the two ways of counting entries is forgotten.
PositionOffByOne(n) == IF n <= 1 THEN 1 ELSE n - 1

\* parse_file_number_to_int: atoi of the empty string is the first entry.
Position(n) == IF n = 0 THEN 1 ELSE n

\* Mutant of SaveEntry: the copy in memory is set and the write left out.
SaveEntryInMemory(e) == entry' = e /\ UNCHANGED registry

\* Every write of _entry_client goes to the position its file number names.
SaveEntry(e) ==
    /\ entry' = e
    /\ registry' = Put(registry, Position(e.file_number), e)

\* Mutants of Open: one of its guards is dropped.
OpenIfMissing == tx /\ ~err
OpenIfFailed  == tx /\ ~notIn

\* What nearly every operation checks before it does anything.
Open == tx /\ ~err /\ ~notIn

Fail == err' = TRUE

-----------------------------------------------------------------------------
(* Transactions *)

\* The constructor (static storage, so zeroed) and begin() on an empty card.
Init ==
    /\ tx = FALSE /\ err = FALSE /\ notIn = FALSE
    /\ entry = NoClient
    /\ opened = Zero
    /\ registry = <<>>
    /\ reg = [n \in FileNumbers |-> <<>>]
    /\ sub = [n \in FileNumbers |-> <<>>]
    /\ wil = [n \in FileNumbers |-> NoWill]
    /\ pub = [n \in FileNumbers |-> <<>>]
    /\ global = <<>>

\* The process dies, and its successor calls begin(), which removes MQTT.SUB
\* and keeps every other file.
begin ==
    /\ tx' = FALSE /\ err' = FALSE /\ notIn' = FALSE
    /\ entry' = NoClient
    /\ opened' = Zero
    /\ global' = <<>>

Restart == begin /\ UNCHANGED <<registry, files>>

\* Mutant of WithId: the search stops at the first free entry.
WithIdBeforeFree(id) ==
    {registry[s] : s \in {t \in DOMAIN registry :
        registry[t].client_id = id /\ \A u \in 1..t : registry[u] # NoClient}}

\* The clients both start_client_transaction operations look for.
WithId(id)     == {c \in {registry[s] : s \in DOMAIN registry} : c.client_id = id}
WithAddress(a) == {c \in {registry[s] : s \in DOMAIN registry} : c.client_address = a}

\* Read the registry from its start until an entry is in found.
Load(found) ==
    /\ tx' = TRUE
    /\ err' = FALSE
    /\ \/ /\ found # {}
          /\ \E s \in DOMAIN registry : FirstIn(registry, found, s) /\ entry' = registry[s]
          /\ notIn' = FALSE
       \/ /\ found = {}
          /\ entry' = NoClient
          /\ notIn' = TRUE

\* A second start inside an open transaction only marks the first as failed.
start_client_transaction(id) ==
    /\ \/ tx /\ Fail /\ UNCHANGED <<tx, notIn, entry, opened>>
       \/ ~tx /\ Load(WithId(id)) /\ opened' = id
    /\ UNCHANGED <<registry, files, global>>

start_client_transaction_address(a) ==
    /\ \/ tx /\ Fail /\ UNCHANGED <<tx, notIn, entry, opened>>
       \/ ~tx /\ Load(WithAddress(a)) /\ opened' = Zero
    /\ UNCHANGED <<registry, files, global>>

\* A client id of MAXIMUM_CLIENT_ID_LENGTH bytes or more sets _error, whether
\* or not a transaction is open.
start_client_transaction_overlong ==
    /\ Fail
    /\ UNCHANGED <<tx, notIn, entry, opened, registry, files, global>>

apply_transaction ==
    /\ tx' = FALSE /\ err' = FALSE /\ notIn' = FALSE
    /\ opened' = Zero
    /\ UNCHANGED <<entry, registry, files, global>>

-----------------------------------------------------------------------------
(* Clients *)

\* get_client_subscription_count() > 0
HasSubscriptions(n) == \E i \in DOMAIN sub[n] : sub[n][i].topic_id # 0

\* Mutant of RemoveFiles: the will file is forgotten.
RemoveFilesButWill(n, k) ==
    /\ reg' = IF k >= 1 THEN [reg EXCEPT ![n] = <<>>] ELSE reg
    /\ sub' = IF k >= 2 THEN [sub EXCEPT ![n] = <<>>] ELSE sub
    /\ pub' = IF k >= 4 THEN [pub EXCEPT ![n] = <<>>] ELSE pub
    /\ UNCHANGED wil

\* Mutant of RemoveFiles: the publishes are forgotten.
RemoveFilesButPublishes(n, k) ==
    /\ reg' = IF k >= 1 THEN [reg EXCEPT ![n] = <<>>] ELSE reg
    /\ sub' = IF k >= 2 THEN [sub EXCEPT ![n] = <<>>] ELSE sub
    /\ wil' = IF k >= 3 THEN [wil EXCEPT ![n] = NoWill] ELSE wil
    /\ UNCHANGED pub

\* The four delete_file calls for file number n, of which the first k were done.
RemoveFiles(n, k) ==
    /\ reg' = IF k >= 1 THEN [reg EXCEPT ![n] = <<>>] ELSE reg
    /\ sub' = IF k >= 2 THEN [sub EXCEPT ![n] = <<>>] ELSE sub
    /\ wil' = IF k >= 3 THEN [wil EXCEPT ![n] = NoWill] ELSE wil
    /\ pub' = IF k >= 4 THEN [pub EXCEPT ![n] = <<>>] ELSE pub

\* The files go first, the entry of the registry last.
delete_client(id) ==
    /\ Open
    /\ \/ /\ HasSubscriptions(entry.file_number)
          /\ Fail
          /\ UNCHANGED <<tx, notIn, entry, opened, registry, files, global>>
       \/ /\ ~HasSubscriptions(entry.file_number)
          /\ RemoveFiles(entry.file_number, 4)
          /\ \E s \in DOMAIN registry :
                /\ FirstIn(registry, WithId(id), s)
                /\ registry' = [registry EXCEPT ![s] = NoClient]
          /\ entry' = NoClient
          /\ notIn' = TRUE
          /\ UNCHANGED <<tx, err, opened, global>>

\* The process dies inside delete_client, after k of the four files are gone.
delete_client_crash(k) ==
    /\ Open
    /\ ~HasSubscriptions(entry.file_number)
    /\ RemoveFiles(entry.file_number, k)
    /\ begin
    /\ UNCHANGED registry

\* create_file opens for writing without truncating: a file that is already
\* there keeps its entries.
add_client(id, a, d) ==
    /\ tx /\ ~err
    /\ \/ ~notIn /\ Fail /\ UNCHANGED <<notIn, entry, registry>>
       \/ /\ notIn
          /\ \E s \in Slots :
                /\ FreePosition(s)
                /\ SaveEntry([client_id |-> id, file_number |-> s,
                              client_address |-> a, client_status |-> "ACTIVE",
                              duration |-> d, timeout |-> 0,
                              await_message |-> "PINGREQ", await_message_id |-> 0])
          /\ notIn' = FALSE
          /\ UNCHANGED err
    /\ UNCHANGED <<tx, opened, files, global>>

reset_client(id, a, d) ==
    /\ Open
    /\ \/ entry.client_id # id /\ Fail /\ UNCHANGED <<entry, registry>>
       \/ /\ entry.client_id = id
          /\ \E s \in DOMAIN registry :
                /\ FirstIn(registry, WithId(id), s)
                /\ entry' = [registry[s] EXCEPT
                                !.client_address = a, !.client_status = "ACTIVE",
                                !.duration = d, !.timeout = 0,
                                !.await_message = "PINGREQ", !.await_message_id = 0]
                /\ registry' = [registry EXCEPT ![s] = entry']
          /\ UNCHANGED err
    /\ UNCHANGED <<tx, notIn, opened, files, global>>

\* A client id that is too long fails add_client, delete_client and
\* reset_client once their first guards have passed.
overlong_client_id ==
    /\ tx /\ ~err
    /\ Fail
    /\ UNCHANGED <<tx, notIn, entry, opened, registry, files, global>>

set_client_state(status) ==
    /\ Open
    /\ SaveEntry([entry EXCEPT !.client_status = status])
    /\ UNCHANGED <<tx, err, notIn, opened, files, global>>

set_timeout(t) ==
    /\ Open
    /\ SaveEntry([entry EXCEPT !.timeout = t])
    /\ UNCHANGED <<tx, err, notIn, opened, files, global>>

set_client_await_message(m) ==
    /\ Open
    /\ SaveEntry([entry EXCEPT !.await_message = m])
    /\ UNCHANGED <<tx, err, notIn, opened, files, global>>

set_client_await_msg_id(m) ==
    /\ Open
    /\ SaveEntry([entry EXCEPT !.await_message_id = m])
    /\ UNCHANGED <<tx, err, notIn, opened, files, global>>

-----------------------------------------------------------------------------
(* Wills *)

set_client_willtopic(t) ==
    /\ Open
    /\ wil' = [wil EXCEPT ![entry.file_number].willtopic = t]
    /\ UNCHANGED <<flags, registry, reg, sub, pub, global>>

set_client_willmessage(m) ==
    /\ Open
    /\ wil' = [wil EXCEPT ![entry.file_number].willmsg = m]
    /\ UNCHANGED <<flags, registry, reg, sub, pub, global>>

delete_will ==
    /\ Open
    /\ wil' = [wil EXCEPT ![entry.file_number] = NoWill]
    /\ UNCHANGED <<flags, registry, reg, sub, pub, global>>

-----------------------------------------------------------------------------
(* Topic registrations *)

\* The topic name get_topic_name returns for file n: a name that fills its
\* 255 bytes runs into the field known, is longer than the limit when read
\* back, and is never found again.
get_topic_name(n, id) ==
    LET found == {i \in DOMAIN reg[n] :
                    reg[n][i].topic_id = id /\ reg[n][i].topic_name \in TopicNames}
    IN  IF found = {} THEN Zero
        ELSE reg[n][CHOOSE i \in found : \A j \in found : i <= j].topic_name

\* is_topic_known(0) is the one query that changes the state.
is_topic_known_zero ==
    /\ Open
    /\ Fail
    /\ UNCHANGED <<tx, notIn, entry, opened, registry, files, global>>

\* Mutant of NewTopicId: the position, counted from 0, is taken for the id.
NewTopicIdFromZero(file) == Len(file)

\* entry_number has counted every entry and the end of the file.
NewTopicId(file) == Len(file) + 1

\* The code looks for an empty entry here too, but nothing ever empties one.
add_client_registration(name) ==
    LET file == reg[entry.file_number] IN
    /\ Open
    /\ \A i \in DOMAIN file : file[i].topic_name = name => name \in EdgeNames
    /\ Len(file) < MaxEntries
    /\ reg' = [reg EXCEPT ![entry.file_number] =
                 Append(file, [topic_id |-> NewTopicId(file), topic_name |-> name])]
    /\ UNCHANGED <<flags, registry, sub, wil, pub, global>>

add_client_registration_overlong ==
    /\ Open
    /\ Fail
    /\ UNCHANGED <<tx, notIn, entry, opened, registry, files, global>>

-----------------------------------------------------------------------------
(* Subscriptions of a client *)

\* Mutant of IsStored: the search for the subscription stops at an empty entry.
IsStoredBeforeEmpty(file, id, name) ==
    \E i \in DOMAIN file : /\ file[i].topic_id = id /\ file[i].topic_name = name
                           /\ \A j \in 1..i : file[j] # NoSubscription

\* add_subscription's test for a subscription that is already there.
IsStored(file, id, name) ==
    \E i \in DOMAIN file : file[i].topic_id = id /\ file[i].topic_name = name

add_subscription(name, id, qos) ==
    LET file == sub[entry.file_number] IN
    /\ Open
    /\ ~IsStored(file, id, name)
    /\ \E i \in 1..MaxEntries :
          /\ StorePosition(file, NoSubscription, i)
          /\ sub' = [sub EXCEPT ![entry.file_number] =
                       Put(file, i, [topic_id |-> id, qos |-> qos, topic_name |-> name])]
    /\ UNCHANGED <<flags, registry, reg, wil, pub, global>>

\* No test of _not_in_client_registry here: without a client the file is ".SUB".
delete_subscription(id) ==
    LET file  == sub[entry.file_number]
        found == {e \in {file[i] : i \in DOMAIN file} : e.topic_id = id}
    IN
    /\ tx /\ ~err
    /\ \/ found = {} /\ Fail /\ UNCHANGED sub
       \/ /\ \E i \in DOMAIN file :
                /\ FirstIn(file, found, i)
                /\ sub' = [sub EXCEPT ![entry.file_number] =
                             [file EXCEPT ![i] = NoSubscription]]
          /\ UNCHANGED err
    /\ UNCHANGED <<tx, notIn, entry, opened, registry, reg, wil, pub, global>>

\* The first subscription with a name, which both queries below return.
NamedSubscription(name) ==
    LET file == sub[entry.file_number]
    IN  {file[i] : i \in {j \in DOMAIN file :
            file[j].topic_name = name /\ \A k \in 1..j-1 : file[k].topic_name # name}}

is_subscribed(name) == Open /\ NamedSubscription(name) # {}

\* 0 stands for "no such subscription".
get_subscription_topic_id(name) ==
    IF is_subscribed(name) THEN (CHOOSE e \in NamedSubscription(name) : TRUE).topic_id ELSE 0

\* Mutant of get_nth_subscribed_topic_id: the guard for the end of the file is one off.
NthSubscribedButLast(n) ==
    LET file == sub[entry.file_number]
    IN  IF tx /\ ~err /\ n + 2 \in DOMAIN file THEN file[n + 1].topic_id ELSE 0

\* The n-th entry, n counted from 0 and empty entries included.
get_nth_subscribed_topic_id(n) ==
    LET file == sub[entry.file_number]
    IN  IF tx /\ ~err /\ n + 1 \in DOMAIN file THEN file[n + 1].topic_id ELSE 0

get_client_subscription_count ==
    IF Open THEN Cardinality({i \in DOMAIN sub[entry.file_number] :
                                sub[entry.file_number][i].topic_id # 0})
    ELSE 0

-----------------------------------------------------------------------------
(* Subscriptions of the gateway at the broker: MQTT.SUB *)

\* Mutant of CountEntry: the search stops at an empty entry.
CountEntryBeforeEmpty(name) ==
    {global[i] : i \in {j \in DOMAIN global :
        global[j].topic_name = name /\ \A k \in 1..j : global[k] # NoTopicCount}}

\* The entry that counts a topic, as the three operations on MQTT.SUB find it.
CountEntry(name) ==
    {e \in {global[i] : i \in DOMAIN global} :
        e.client_subscription_count # 0 /\ e.topic_name = name}

get_global_topic_subscription_count(name) ==
    IF err \/ CountEntry(name) = {} THEN 0
    ELSE global[CHOOSE i \in DOMAIN global : FirstIn(global, CountEntry(name), i)]
            .client_subscription_count

increment_global_subscription_count(name) ==
    /\ ~err
    /\ \/ \E i \in DOMAIN global :
             /\ FirstIn(global, CountEntry(name), i)
             /\ global[i].client_subscription_count < MaxCount
             /\ global' = [global EXCEPT ![i].client_subscription_count = @ + 1]
       \/ /\ CountEntry(name) = {}
          /\ \E i \in 1..MaxEntries :
                /\ StorePosition(global, NoTopicCount, i)
                /\ global' = Put(global, i, [client_subscription_count |-> 1,
                                             topic_name |-> name])
    /\ UNCHANGED <<flags, registry, files>>

\* An entry that counts nobody any more is zeroed, its name included.
OneLess(e) ==
    IF e.client_subscription_count = 1 THEN NoTopicCount
    ELSE [e EXCEPT !.client_subscription_count = @ - 1]

decrement_global_subscription_count(name) ==
    /\ ~err
    /\ \E i \in DOMAIN global :
          /\ FirstIn(global, CountEntry(name), i)
          /\ global' = [global EXCEPT ![i] = OneLess(global[i])]
    /\ UNCHANGED <<flags, registry, files>>

-----------------------------------------------------------------------------
(* Publishes that wait for a client *)

has_client_publishes ==
    Open /\ \E i \in DOMAIN pub[entry.file_number] :
                pub[entry.file_number][i].publish_id # 0

\* get_next_publish returns the last entry of the file that is in use.
NextPublish(file, i) ==
    /\ i \in DOMAIN file
    /\ file[i].publish_id # 0
    /\ \A j \in i+1..Len(file) : file[j].publish_id = 0

\* Mutant of PublishIdAt: first_empty_space is used as it is.
PublishIdFromZero(i) == i - 1

\* first_empty_space + 1
PublishIdAt(i) == i

add_client_publish(m) ==
    LET file == pub[entry.file_number] IN
    /\ Open
    /\ \E i \in 1..MaxEntries :
          /\ StorePosition(file, NoPublish, i)
          /\ pub' = [pub EXCEPT ![entry.file_number] =
                       Put(file, i, [publish_id |-> PublishIdAt(i), msg_id |-> 0, msg |-> m])]
    /\ UNCHANGED <<flags, registry, reg, sub, wil, global>>

\* A publish id past the end of the file reads nothing and changes nothing.
set_publish_msg_id(p, m) ==
    LET file == pub[entry.file_number] IN
    /\ Open
    /\ p \in DOMAIN file
    /\ \/ file[p].publish_id # p /\ Fail /\ UNCHANGED pub
       \/ /\ file[p].publish_id = p
          /\ pub' = [pub EXCEPT ![entry.file_number][p].msg_id = m]
          /\ UNCHANGED err
    /\ UNCHANGED <<tx, notIn, entry, opened, registry, reg, sub, wil, global>>

remove_publish_by_publish_id(p) ==
    LET file == pub[entry.file_number] IN
    /\ Open
    /\ p \in DOMAIN file
    /\ \/ file[p].publish_id # p /\ Fail /\ UNCHANGED pub
       \/ /\ file[p].publish_id = p
          /\ pub' = [pub EXCEPT ![entry.file_number][p] = NoPublish]
          /\ UNCHANGED err
    /\ UNCHANGED <<tx, notIn, entry, opened, registry, reg, sub, wil, global>>

\* What word w of entry e may leave when it is set to zero.  It may be zero already,
\* or lie behind a short payload; an entry with publish_id 0 counts as empty.
ZeroedWord(e, w) ==
    IF e = NoPublish THEN {e}
    ELSE CASE w < PayloadWords     -> {e, [e EXCEPT !.msg = Damaged]}
           [] w = PayloadWords     -> {[e EXCEPT !.msg_id = 0]}
           [] w = PayloadWords + 1 -> {NoPublish}
           [] OTHER                -> {e}

\* The search reads the entries that are empty too; one that was emptied by the write
\* below still holds the msg_id it had.
FoundByMsgId(file, m, i) ==
    /\ file[i].msg_id = m \/ file[i] = NoPublish
    /\ \A k \in 1..i-1 : file[k].msg_id # m

\* The write is sizeof(uint16_t) zeros at offset entry_number * sizeof(uint16_t): one
\* word near the front of the file, whichever entry was found.  Message id 0 sets
\* _error and goes on.
remove_publish_by_msg_id(m) ==
    LET file == pub[entry.file_number] IN
    /\ Open
    /\ err' = (m = 0)
    /\ \/ (\A i \in DOMAIN file : file[i].msg_id # m) /\ UNCHANGED pub
       \/ \E i, j \in DOMAIN file, w \in 0..PublishWords-1 :
             /\ FoundByMsgId(file, m, i)
             /\ i - 1 = (j - 1) * PublishWords + w
             /\ \E e \in ZeroedWord(file[j], w) :
                   pub' = [pub EXCEPT ![entry.file_number] = [file EXCEPT ![j] = e]]
    /\ UNCHANGED <<tx, notIn, entry, opened, registry, reg, sub, wil, global>>

-----------------------------------------------------------------------------
(***************************************************************************)
(* Core is the only caller and has one thread.  Of its calls this much is  *)
(* assumed: client ids and addresses are not empty, add_client is given    *)
(* the id its transaction was opened with, and delete_client the id of the *)
(* client its transaction found.  Everything else may be called at any     *)
(* time, in any order and with any argument: also a second start inside a  *)
(* transaction, which is what a message from the broker does when it       *)
(* arrives while the MQTT client waits for an acknowledgement.             *)
(***************************************************************************)
TransactionStep ==
    \/ \E id \in ClientIds : start_client_transaction(id)
    \/ \E a \in Addresses : start_client_transaction_address(a)
    \/ start_client_transaction_overlong
    \/ apply_transaction
    \/ Restart

ClientStep ==
    \/ \E a \in Addresses, d \in Durations :
          opened # Zero /\ add_client(opened, a, d)
    \/ \E id \in ClientIds, a \in Addresses, d \in Durations : reset_client(id, a, d)
    \/ delete_client(entry.client_id)
    \/ \E k \in 0..4 : delete_client_crash(k)
    \/ overlong_client_id
    \/ \E st \in Statuses : set_client_state(st)
    \/ \E t \in Durations : set_timeout(t)
    \/ \E m \in MessageTypes : set_client_await_message(m)
    \/ \E m \in MsgIds : set_client_await_msg_id(m)

WillStep ==
    \/ \E t \in WillTopics : set_client_willtopic(t)
    \/ \E m \in WillMessages : set_client_willmessage(m)
    \/ delete_will

TopicStep ==
    \/ \E name \in TopicNames \cup EdgeNames : add_client_registration(name)
    \/ add_client_registration_overlong
    \/ is_topic_known_zero
    \/ \E name \in TopicNames, id \in TopicIds, q \in QoS : add_subscription(name, id, q)
    \/ \E id \in TopicIds : delete_subscription(id)
    \/ \E name \in TopicNames : increment_global_subscription_count(name)
    \/ \E name \in TopicNames : decrement_global_subscription_count(name)

PublishStep ==
    \/ \E m \in Payloads : add_client_publish(m)
    \/ \E p \in 1..MaxEntries, m \in MsgIds : set_publish_msg_id(p, m)
    \/ \E p \in 1..MaxEntries : remove_publish_by_publish_id(p)
    \/ \E m \in MsgIds \cup {0} : remove_publish_by_msg_id(m)

Next == TransactionStep \/ ClientStep \/ WillStep \/ TopicStep \/ PublishStep

Spec == Init /\ [][Next]_vars

-----------------------------------------------------------------------------
(* Properties *)

Occupied(n) == n \in DOMAIN registry /\ registry[n] # NoClient

\* The client whose entry an open transaction holds has file number n.
Holds(n) == tx /\ ~notIn /\ entry.file_number = n

\* Every client in CLIENTS owns the files named after its own position, and no
\* client id is there twice, although add_client never looks for the id: entries
\* are freed and reused, and the search was done by start_client_transaction.
RegistryWellFormed ==
    \A s, t \in DOMAIN registry :
        Occupied(s) => /\ registry[s].file_number = s
                       /\ registry[s].client_id = registry[t].client_id => s = t

\* The copy of the entry in memory is what the file holds for as long as the
\* transaction lasts, so that writing the copy back (set_client_state and the
\* like) never undoes another write; without a client the copy is blank.
EntryCoherent ==
    tx => IF notIn THEN entry = NoClient
          ELSE entry # NoClient /\ entry.file_number \in DOMAIN registry
               /\ registry[entry.file_number] = entry

\* A transaction started with a client id is about that client to its end: the
\* entry it holds has that id, and if it holds none, no entry of CLIENTS has it.
OpenedForItsClient ==
    tx /\ opened # Zero =>
        IF notIn THEN \A s \in DOMAIN registry : registry[s].client_id # opened
        ELSE entry.client_id = opened

\* A position of CLIENTS that is free has no registrations, subscriptions, will
\* or publishes in its files, so the next client to be given the position
\* inherits nothing; and the files without a number (".SUB") are never written.
NoInheritance ==
    \A n \in FileNumbers :
        ~Occupied(n) => reg[n] = <<>> /\ sub[n] = <<>> /\ wil[n] = NoWill /\ pub[n] = <<>>

\* A step changes nothing that belongs to a client other than the one the open
\* transaction holds.
OthersUntouched ==
    [][\A n \in Slots : Occupied(n) /\ ~Holds(n) =>
          /\ n \in DOMAIN registry' /\ registry'[n] = registry[n]
          /\ reg'[n] = reg[n] /\ sub'[n] = sub[n] /\ wil'[n] = wil[n] /\ pub'[n] = pub[n]]_vars

\* Once a transaction has failed it stays failed until it is closed, and writes
\* nothing more: apply_transaction will report it.  (A restart empties MQTT.SUB.)
FailedIsInert ==
    [][tx /\ err => /\ UNCHANGED <<registry, files>>
                    /\ UNCHANGED global \/ global' = <<>>
                    /\ tx' => err' /\ UNCHANGED <<entry, notIn>>]_vars

\* A topic id names the entry that holds it, and a name that can be read back
\* has one topic id per client: get_topic_name inverts add_client_registration.
RegistrationsResolve ==
    \A n \in FileNumbers : \A i \in DOMAIN reg[n] :
        reg[n][i].topic_name \in TopicNames =>
            /\ get_topic_name(n, i) = reg[n][i].topic_name
            /\ \A j \in DOMAIN reg[n] : reg[n][j].topic_name = reg[n][i].topic_name => i = j

\* No subscription is stored twice, although entries are emptied and reused.
SubscriptionsDistinct ==
    \A n \in FileNumbers : \A i, j \in DOMAIN sub[n] :
        /\ sub[n][i].topic_id = sub[n][j].topic_id
        /\ sub[n][i].topic_name = sub[n][j].topic_name
        /\ sub[n][i] # NoSubscription
        => i = j

\* The queries Core combines tell one story: a subscribed name has a topic id, that
\* id is at one of the positions get_nth_subscribed_topic_id reads, and the count is
\* the number of those positions that hold one; past the end of the file there is none.
SubscriptionQueriesAgree ==
    /\ \A name \in TopicNames : is_subscribed(name) =>
          \E n \in 0..MaxEntries-1 : /\ get_subscription_topic_id(name) # 0
                                     /\ get_nth_subscribed_topic_id(n) = get_subscription_topic_id(name)
    /\ get_client_subscription_count =
          Cardinality({n \in 0..MaxEntries : get_nth_subscribed_topic_id(n) # 0})

\* A topic is counted in at most one entry of MQTT.SUB, and the count Core reads is
\* zero exactly when no entry names the topic.
TopicsCountedOnce ==
    /\ \A i, j \in DOMAIN global :
          global[i] # NoTopicCount /\ global[i].topic_name = global[j].topic_name => i = j
    /\ \A name \in TopicNames :
          ~err => (get_global_topic_subscription_count(name) = 0
                      <=> \A i \in DOMAIN global : global[i].topic_name # name)

\* A publish is found under its own id: set_publish_msg_id and
\* remove_publish_by_publish_id seek to entry publish_id - 1, and has_client_publishes
\* is true exactly when get_next_publish returns something.
PublishesFound ==
    /\ \A n \in FileNumbers : \A i \in DOMAIN pub[n] :
          pub[n][i].publish_id \in {0, i} /\ (pub[n][i].publish_id = 0 <=> pub[n][i] = NoPublish)
    /\ Open => (has_client_publishes <=> \E i \in 1..MaxEntries : NextPublish(pub[entry.file_number], i))

\* After remove_publish_by_msg_id(m) no publish of the client has message id m.
RemovedByMsgId ==
    [][\A m \in MsgIds : remove_publish_by_msg_id(m) =>
          \A i \in DOMAIN pub'[entry.file_number] : pub'[entry.file_number][i].msg_id # m]_vars
=============================================================================
