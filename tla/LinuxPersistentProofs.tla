----------------------- MODULE LinuxPersistentProofs -----------------------
(* Proofs about the gateway's database, for every value of its constants:  *)
(* its types and the order of its entries, then that one client's part of  *)
(* it is out of another's reach, then what the files hold: registrations,  *)
(* subscriptions, publishes and MQTT.SUB.                                  *)
EXTENDS LinuxPersistent, SequenceTheorems, FiniteSetTheorems, WellFoundedInduction, TLAPS

-----------------------------------------------------------------------------
(* Lemmas about files. *)

\* seek and write: Put yields a file of the same entries, with the entry written
\* at its position, the others as they were, and one more entry when appending.
LEMMA PutProperties ==
    ASSUME NEW S, NEW s \in Seq(S), NEW i \in 1..Len(s)+1, NEW e \in S
    PROVE  /\ Put(s, i, e) \in Seq(S)
           /\ Len(Put(s, i, e)) = IF i \in 1..Len(s) THEN Len(s) ELSE Len(s) + 1
           /\ Put(s, i, e)[i] = e
           /\ \A j \in 1..Len(s) : j # i => Put(s, i, e)[j] = s[j]
<1>0. Len(s) \in Nat
  BY LenProperties
<1>1. CASE i \in 1..Len(s)
  <2>1. Put(s, i, e) = [s EXCEPT ![i] = e]
    BY <1>1 DEF Put
  <2>2. QED
    BY <1>0, <1>1, <2>1, ExceptSeq
<1>2. CASE i \notin 1..Len(s)
  <2>1. Put(s, i, e) = Append(s, e) /\ i = Len(s) + 1
    BY <1>0, <1>2 DEF Put
  <2>2. QED
    BY <1>0, <1>2, <2>1, AppendProperties
<1>3. QED
  BY <1>1, <1>2

\* The first part of it, which is all that the types need.
LEMMA PutType ==
    ASSUME NEW S, NEW s \in Seq(S), NEW i \in 1..Len(s)+1, NEW e \in S
    PROVE  Put(s, i, e) \in Seq(S)
BY PutProperties

\* The same for a single entry that is not written.
LEMMA PutElsewhere ==
    ASSUME NEW S, NEW s \in Seq(S), NEW i \in 1..Len(s)+1, NEW e \in S,
           NEW j \in 1..Len(s), j # i
    PROVE  Put(s, i, e)[j] = s[j]
BY PutProperties

\* An entry is stored inside its file or just past its end.
LEMMA StorePositionBound ==
    ASSUME NEW S, NEW s \in Seq(S), NEW empty, NEW i \in Nat, StorePosition(s, empty, i)
    PROVE  i \in 1..Len(s)+1
BY LenProperties DEF StorePosition

\* A zeroed entry is not the entry of a client.
LEMMA NoClientNotClient == NoClient \notin Client
BY ZeroAssumption DEF NoClient, Client

-----------------------------------------------------------------------------
(***************************************************************************)
(* The inductive invariant.  TypeOK is not inductive: a write of the copy  *)
(* in memory is well typed only because EntryCoherent says whose entry it  *)
(* is; that in turn needs RegistryWellFormed when an entry is loaded, and  *)
(* uniqueness of ids needs OpenedForItsClient when a client is added.       *)
(***************************************************************************)
IInv ==
    /\ TypeOK
    /\ RegistryWellFormed
    /\ EntryCoherent
    /\ OpenedForItsClient

\* The part of the invariant that only speaks of the flags and CLIENTS.
RegistryTypes ==
    /\ tx \in BOOLEAN /\ err \in BOOLEAN /\ notIn \in BOOLEAN
    /\ entry \in Client \cup {NoClient}
    /\ opened \in ClientIds \cup {Zero}
    /\ registry \in Seq(Client \cup {NoClient})
    /\ Len(registry) <= MaxClients

FileTypes ==
    /\ reg \in [FileNumbers -> Seq(Registration)]
    /\ sub \in [FileNumbers -> Seq(Subscription \cup {NoSubscription})]
    /\ wil \in [FileNumbers -> Will]
    /\ pub \in [FileNumbers -> Seq(Publish \cup {NoPublish})]
    /\ global \in Seq(TopicCount \cup {NoTopicCount})

RegistryInv == RegistryTypes /\ RegistryWellFormed /\ EntryCoherent /\ OpenedForItsClient

\* The two parts make up the invariant.
LEMMA IInvParts == IInv <=> RegistryInv /\ FileTypes
BY DEF IInv, RegistryInv, TypeOK, RegistryTypes, FileTypes

\* In an open transaction the client's entry is at its own position.
LEMMA OpenClient ==
    ASSUME RegistryInv, tx, ~notIn
    PROVE  /\ entry \in Client
           /\ entry.file_number \in DOMAIN registry
           /\ registry[entry.file_number] = entry
           /\ entry.file_number \in Slots
           /\ entry.file_number \in FileNumbers
           /\ Position(entry.file_number) = entry.file_number
BY NoClientNotClient, BoundAssumption, LenProperties
   DEF RegistryInv, RegistryTypes, EntryCoherent, Client, Slots, FileNumbers, Position

\* The file number of the copy in memory always names a file.
LEMMA FileNumberType ==
    ASSUME RegistryTypes
    PROVE  entry.file_number \in FileNumbers
BY BoundAssumption DEF RegistryTypes, Client, NoClient, Slots, FileNumbers

\* Steps that leave the flags and CLIENTS alone keep what is said of them.
LEMMA RegistryFrame ==
    ASSUME RegistryInv, UNCHANGED <<flags, registry>>
    PROVE  RegistryInv'
BY DEF RegistryInv, RegistryTypes, RegistryWellFormed, EntryCoherent,
       OpenedForItsClient, Occupied, flags

\* So do steps that also set _error.
LEMMA RegistryFail ==
    ASSUME RegistryInv, UNCHANGED <<tx, notIn, entry, opened, registry>>, err' \in BOOLEAN
    PROVE  RegistryInv'
BY DEF RegistryInv, RegistryTypes, RegistryWellFormed, EntryCoherent,
       OpenedForItsClient, Occupied

\* Steps that leave the other files alone keep their types.
LEMMA FilesFrame ==
    ASSUME FileTypes, UNCHANGED <<files, global>>
    PROVE  FileTypes'
BY DEF FileTypes, files

\* Init establishes the invariant.
LEMMA InitInv == Init => IInv
<1>1. NoWill \in Will
  BY DEF NoWill, Will
<1>2. SUFFICES ASSUME Init PROVE IInv
  OBVIOUS
<1>3. RegistryInv
  <2>1. DOMAIN registry = {}
    <3>1. registry \in Seq(Client) /\ Len(registry) = 0
      BY <1>2, EmptySeq DEF Init
    <3>2. DOMAIN registry = 1..0
      BY <3>1, LenProperties
    <3>3. QED
      BY <3>2
  <2>2. RegistryTypes
    <3>1. registry \in Seq(Client \cup {NoClient}) /\ Len(registry) = 0
      BY <1>2, EmptySeq DEF Init
    <3>2. Len(registry) <= MaxClients
      BY <3>1, BoundAssumption
    <3>3. tx \in BOOLEAN /\ err \in BOOLEAN /\ notIn \in BOOLEAN
      BY <1>2 DEF Init
    <3>4. entry \in Client \cup {NoClient} /\ opened \in ClientIds \cup {Zero}
      BY <1>2 DEF Init
    <3>5. QED
      BY <3>1, <3>2, <3>3, <3>4 DEF RegistryTypes
  <2>3. RegistryWellFormed /\ EntryCoherent /\ OpenedForItsClient
    BY <1>2, <2>1 DEF Init, RegistryWellFormed, EntryCoherent, OpenedForItsClient
  <2>4. QED
    BY <2>2, <2>3 DEF RegistryInv
<1>4. FileTypes
  BY <1>1, <1>2, EmptySeq DEF Init, FileTypes
<1>5. QED
  BY <1>3, <1>4, IInvParts

\* A restart keeps the invariant of the registry.
LEMMA BeginInv ==
    ASSUME RegistryInv, begin, UNCHANGED registry
    PROVE  RegistryInv'
BY DEF RegistryInv, RegistryTypes, RegistryWellFormed, EntryCoherent,
       OpenedForItsClient, Occupied, begin

\* Loading an entry, or finding none, keeps the invariant of the registry.
LEMMA LoadInv ==
    ASSUME RegistryInv, NEW found, Load(found), UNCHANGED registry,
           opened' \in ClientIds \cup {Zero},
           NoClient \notin found,
           opened' # Zero => found = WithId(opened')
    PROVE  RegistryInv'
<1>1. RegistryTypes'
  <2>1. \A s \in DOMAIN registry : registry[s] \in Client \cup {NoClient}
    BY LenProperties, ElementOfSeq DEF RegistryInv, RegistryTypes
  <2>2. QED
    BY <2>1 DEF RegistryInv, RegistryTypes, Load
<1>2. RegistryWellFormed'
  BY DEF RegistryInv, RegistryWellFormed, Occupied
<1>3. EntryCoherent'
  <2>1. CASE found = {}
    BY <2>1 DEF Load, EntryCoherent
  <2>2. CASE found # {}
    <3>1. PICK s \in DOMAIN registry : FirstIn(registry, found, s) /\ entry' = registry[s]
      BY <2>2 DEF Load
    <3>2. registry[s] # NoClient
      BY <3>1 DEF FirstIn
    <3>3. registry[s].file_number = s
      BY <3>2 DEF RegistryInv, RegistryWellFormed, Occupied
    <3>4. QED
      BY <2>2, <3>1, <3>2, <3>3 DEF Load, EntryCoherent
  <2>3. QED
    BY <2>1, <2>2
<1>4. OpenedForItsClient'
  <2>1. CASE found = {}
    BY <2>1 DEF Load, OpenedForItsClient, WithId
  <2>2. CASE found # {}
    BY <2>2 DEF Load, OpenedForItsClient, WithId, FirstIn
  <2>3. QED
    BY <2>1, <2>2
<1>5. QED
  BY <1>1, <1>2, <1>3, <1>4 DEF RegistryInv

\* Writing the copy of the held client's entry back to its own position keeps the
\* invariant as long as neither the id nor the file number changes.
LEMMA OverwriteInv ==
    ASSUME RegistryInv, tx, ~notIn, NEW e \in Client,
           e.client_id = entry.client_id, e.file_number = entry.file_number,
           entry' = e, registry' = [registry EXCEPT ![entry.file_number] = e],
           UNCHANGED <<tx, notIn, opened>>, err' \in BOOLEAN
    PROVE  RegistryInv'
<1> DEFINE n == entry.file_number
<1>1. /\ n \in DOMAIN registry /\ registry[n] = entry
      /\ registry \in Seq(Client \cup {NoClient})
      /\ DOMAIN registry = 1..Len(registry)
      /\ Len(registry) \in Nat
  BY OpenClient, LenProperties DEF RegistryInv, RegistryTypes
<1>2. /\ registry' \in Seq(Client \cup {NoClient})
      /\ Len(registry') = Len(registry)
      /\ DOMAIN registry' = DOMAIN registry
      /\ \A j \in DOMAIN registry : registry'[j] = IF j = n THEN e ELSE registry[j]
  BY <1>1, ExceptSeq, LenProperties
<1>3. e # NoClient /\ entry # NoClient
  BY NoClientNotClient, OpenClient
<1>4. RegistryTypes'
  BY <1>2 DEF RegistryInv, RegistryTypes
<1>5. RegistryWellFormed'
  BY <1>1, <1>2, <1>3 DEF RegistryInv, RegistryWellFormed, Occupied
<1>6. EntryCoherent'
  BY <1>1, <1>2, <1>3 DEF EntryCoherent
<1>7. OpenedForItsClient'
  BY <1>1 DEF RegistryInv, OpenedForItsClient
<1>8. QED
  BY <1>4, <1>5, <1>6, <1>7 DEF RegistryInv

\* SaveEntry is such a write when it is given the held entry with another value
\* in one of its other fields.
LEMMA SaveEntryInv ==
    ASSUME RegistryInv, Open, NEW e \in Client,
           e.client_id = entry.client_id, e.file_number = entry.file_number,
           SaveEntry(e), UNCHANGED <<tx, err, notIn, opened>>
    PROVE  RegistryInv'
<1>1. entry.file_number \in 1..Len(registry)
  BY OpenClient, LenProperties DEF Open, RegistryInv, RegistryTypes
<1>2. registry' = [registry EXCEPT ![entry.file_number] = e]
  BY <1>1, OpenClient DEF Open, SaveEntry, Put
<1>3. err' \in BOOLEAN
  BY DEF RegistryInv, RegistryTypes
<1>4. QED
  BY <1>2, <1>3, OverwriteInv DEF Open, SaveEntry

-----------------------------------------------------------------------------
(* Every step keeps the part of the invariant about the flags and CLIENTS. *)

\* Opening, closing and failing a transaction keeps the registry and the copy of its
\* entry in order.
LEMMA TransactionStepRegistry ==
    ASSUME RegistryInv, TransactionStep
    PROVE  RegistryInv'
<1>1. ASSUME NEW id \in ClientIds, start_client_transaction(id) PROVE RegistryInv'
  <2>1. CASE tx
    BY <1>1, <2>1, RegistryFail DEF start_client_transaction, Fail
  <2>2. CASE ~tx
    <3>1. NoClient \notin WithId(id)
      BY ZeroAssumption DEF NoClient, WithId
    <3>2. QED
      BY <1>1, <2>2, <3>1, LoadInv DEF start_client_transaction
  <2>3. QED
    BY <2>1, <2>2
<1>2. ASSUME NEW a \in Addresses, start_client_transaction_address(a) PROVE RegistryInv'
  <2>1. CASE tx
    BY <1>2, <2>1, RegistryFail DEF start_client_transaction_address, Fail
  <2>2. CASE ~tx
    <3>1. NoClient \notin WithAddress(a)
      BY ZeroAssumption DEF NoClient, WithAddress
    <3>2. QED
      BY <1>2, <2>2, <3>1, LoadInv DEF start_client_transaction_address
  <2>3. QED
    BY <2>1, <2>2
<1>3. CASE start_client_transaction_overlong
  BY <1>3, RegistryFail DEF start_client_transaction_overlong, Fail
<1>4. CASE apply_transaction
  BY <1>4 DEF apply_transaction, RegistryInv, RegistryTypes, RegistryWellFormed,
              EntryCoherent, OpenedForItsClient, Occupied
<1>5. CASE Restart
  BY <1>5, BeginInv DEF Restart
<1>6. QED
  BY <1>1, <1>2, <1>3, <1>4, <1>5 DEF TransactionStep

\* add_client writes to a free position, or appends: the id is new, because the
\* transaction was started with it and has found no client.
LEMMA AddClientRegistry ==
    ASSUME RegistryInv, NEW a \in Addresses, NEW d \in Durations,
           opened # Zero, add_client(opened, a, d)
    PROVE  RegistryInv'
<1>1. CASE ~notIn
  BY <1>1, RegistryFail DEF add_client, Fail
<1>2. CASE notIn
  <2> DEFINE new(s) == [client_id |-> opened, file_number |-> s,
                        client_address |-> a, client_status |-> "ACTIVE",
                        duration |-> d, timeout |-> 0,
                        await_message |-> "PINGREQ", await_message_id |-> 0]
  <2>1. PICK s \in Slots : FreePosition(s) /\ SaveEntry(new(s))
    BY <1>2 DEF add_client
  <2>2. notIn' = FALSE /\ UNCHANGED <<tx, err, opened>> /\ tx
    BY <1>2 DEF add_client
  <2>3. new(s) \in Client /\ new(s) # NoClient /\ Position(s) = s /\ s \in 1..MaxClients
    <3>1. opened \in ClientIds
      BY DEF RegistryInv, RegistryTypes
    <3>2. new(s) \in Client
      BY <3>1 DEF Client
    <3>3. QED
      BY <3>2, NoClientNotClient, BoundAssumption DEF Slots, Position
  <2>4. /\ registry \in Seq(Client \cup {NoClient})
        /\ Len(registry) \in Nat
        /\ DOMAIN registry = 1..Len(registry)
    BY LenProperties DEF RegistryInv, RegistryTypes
  <2>5. s \in 1..Len(registry)+1
    BY <2>1, <2>4 DEF FreePosition, FirstIn
  <2> HIDE DEF new
  <2>6. registry' = Put(registry, s, new(s)) /\ entry' = new(s)
    BY <2>1, <2>3 DEF SaveEntry, new
  <2>7. /\ registry' \in Seq(Client \cup {NoClient})
        /\ Len(registry') = IF s \in 1..Len(registry) THEN Len(registry) ELSE Len(registry) + 1
        /\ registry'[s] = new(s)
        /\ \A j \in 1..Len(registry) : j # s => registry'[j] = registry[j]
    <3>1. new(s) \in Client \cup {NoClient}
      BY <2>3
    <3>2. Put(registry, s, new(s)) \in Seq(Client \cup {NoClient})
      BY <2>4, <2>5, <3>1, PutProperties
    <3>3. Len(Put(registry, s, new(s))) =
             IF s \in 1..Len(registry) THEN Len(registry) ELSE Len(registry) + 1
      BY <2>4, <2>5, <3>1, PutProperties
    <3>4. Put(registry, s, new(s))[s] = new(s)
      BY <2>4, <2>5, <3>1, PutProperties
    <3>5. \A j \in 1..Len(registry) : j # s => Put(registry, s, new(s))[j] = registry[j]
      BY <2>4, <2>5, <3>1, PutElsewhere
    <3>6. QED
      BY <2>6, <3>2, <3>3, <3>4, <3>5
  <2>8. DOMAIN registry' = DOMAIN registry \cup {s} /\ Len(registry') <= MaxClients
    <3>1. DOMAIN registry' = 1..Len(registry')
      BY <2>7, LenProperties
    <3>2. Len(registry) <= MaxClients /\ MaxClients \in Nat
      BY BoundAssumption DEF RegistryInv, RegistryTypes
    <3>3. CASE s \in 1..Len(registry)
      BY <2>4, <2>7, <3>1, <3>2, <3>3
    <3>4. CASE s = Len(registry) + 1
      <4>1. Len(registry') = Len(registry) + 1
        BY <2>4, <2>7, <3>4
      <4>2. QED
        BY <2>3, <2>4, <3>1, <3>2, <3>4, <4>1
    <3>5. QED
      BY <2>4, <2>5, <3>3, <3>4
  <2>9. \A j \in DOMAIN registry' : registry'[j] = IF j = s THEN new(s) ELSE registry[j]
    BY <2>4, <2>7, <2>8
  <2>10. new(s).client_id = opened /\ new(s).file_number = s
    BY DEF new
  <2>11. \A j \in DOMAIN registry : registry[j].client_id # opened
    BY <1>2, <2>2 DEF RegistryInv, OpenedForItsClient
  <2>12. RegistryTypes'
    BY <2>2, <2>3, <2>6, <2>7, <2>8 DEF RegistryInv, RegistryTypes
  <2>13. RegistryWellFormed'
    BY <2>8, <2>9, <2>10, <2>11, ZeroAssumption
       DEF RegistryInv, RegistryWellFormed, Occupied
  <2>14. EntryCoherent'
    BY <2>2, <2>3, <2>6, <2>8, <2>9, <2>10 DEF EntryCoherent
  <2>15. OpenedForItsClient'
    BY <2>2, <2>6, <2>10 DEF OpenedForItsClient
  <2>16. QED
    BY <2>12, <2>13, <2>14, <2>15 DEF RegistryInv
<1>3. QED
  BY <1>1, <1>2 DEF RegistryInv, RegistryTypes

\* delete_client frees the position of the held client, and no other entry has
\* its id.
LEMMA DeleteClientRegistry ==
    ASSUME RegistryInv, delete_client(entry.client_id)
    PROVE  RegistryInv'
<1>1. CASE HasSubscriptions(entry.file_number)
  BY <1>1, RegistryFail DEF delete_client, Fail
<1>2. CASE ~HasSubscriptions(entry.file_number)
  <2>1. PICK s \in DOMAIN registry :
            /\ FirstIn(registry, WithId(entry.client_id), s)
            /\ registry' = [registry EXCEPT ![s] = NoClient]
    BY <1>2 DEF delete_client
  <2>2. /\ entry' = NoClient /\ notIn' = TRUE /\ UNCHANGED <<tx, err, opened>>
        /\ Open
    BY <1>2 DEF delete_client
  <2>3. /\ registry \in Seq(Client \cup {NoClient})
        /\ Len(registry) \in Nat
        /\ DOMAIN registry = 1..Len(registry)
    BY LenProperties DEF RegistryInv, RegistryTypes
  <2>4. /\ registry' \in Seq(Client \cup {NoClient})
        /\ Len(registry') = Len(registry)
        /\ DOMAIN registry' = DOMAIN registry
        /\ \A j \in DOMAIN registry : registry'[j] = IF j = s THEN NoClient ELSE registry[j]
    BY <2>1, <2>3, ExceptSeq, LenProperties
  <2>5. registry[s].client_id = entry.client_id
    BY <2>1 DEF FirstIn, WithId
  <2>6. registry[s] # NoClient
    <3>1. entry.client_id \in ClientIds
      BY <2>2, OpenClient DEF Open, Client
    <3>2. QED
      BY <2>5, <3>1, ZeroAssumption DEF NoClient
  <2>7. \A j \in DOMAIN registry : registry[j].client_id = entry.client_id => j = s
    BY <2>5, <2>6 DEF RegistryInv, RegistryWellFormed, Occupied
  <2>8. RegistryTypes'
    BY <2>2, <2>4 DEF RegistryInv, RegistryTypes
  <2>9. RegistryWellFormed'
    <3>1. \A j \in DOMAIN registry : registry[j] # NoClient => registry[j].client_id # Zero
      BY <2>3, ElementOfSeq, ZeroAssumption DEF Client
    <3>2. NoClient.client_id = Zero
      BY DEF NoClient
    <3>3. QED
      BY <2>4, <3>1, <3>2 DEF RegistryInv, RegistryWellFormed, Occupied
  <2>10. EntryCoherent'
    BY <2>2 DEF EntryCoherent
  <2>11. OpenedForItsClient'
    <3>1. SUFFICES ASSUME opened # Zero PROVE \A j \in DOMAIN registry : registry'[j].client_id # opened
      BY <2>2, <2>4 DEF OpenedForItsClient
    <3>2. entry.client_id = opened
      BY <2>2, <3>1 DEF Open, RegistryInv, OpenedForItsClient
    <3>3. NoClient.client_id = Zero
      BY DEF NoClient
    <3>4. QED
      BY <2>4, <2>7, <3>1, <3>2, <3>3
  <2>12. QED
    BY <2>8, <2>9, <2>10, <2>11 DEF RegistryInv
<1>3. QED
  BY <1>1, <1>2

\* reset_client writes the entry it was asked for, and it is the held one.
LEMMA ResetClientRegistry ==
    ASSUME RegistryInv, NEW id \in ClientIds, NEW a \in Addresses, NEW d \in Durations,
           reset_client(id, a, d)
    PROVE  RegistryInv'
<1>1. CASE entry.client_id # id
  BY <1>1, RegistryFail DEF reset_client, Fail
<1>2. CASE entry.client_id = id
  <2>1. PICK s \in DOMAIN registry :
            /\ FirstIn(registry, WithId(id), s)
            /\ entry' = [registry[s] EXCEPT
                            !.client_address = a, !.client_status = "ACTIVE",
                            !.duration = d, !.timeout = 0,
                            !.await_message = "PINGREQ", !.await_message_id = 0]
            /\ registry' = [registry EXCEPT ![s] = entry']
    BY <1>2 DEF reset_client
  <2>2. UNCHANGED <<tx, err, notIn, opened>> /\ tx /\ ~notIn /\ err' \in BOOLEAN
    BY <1>2 DEF reset_client, Open, RegistryInv, RegistryTypes
  <2>3. entry.file_number = s /\ registry[s] = entry /\ entry \in Client
    <3>1. registry[s].client_id = entry.client_id
      BY <1>2, <2>1 DEF FirstIn, WithId
    <3>2. /\ entry.file_number \in DOMAIN registry /\ registry[entry.file_number] = entry
          /\ entry \in Client /\ entry # NoClient
      BY <2>2, OpenClient, NoClientNotClient
    <3>3. QED
      BY <3>1, <3>2 DEF RegistryInv, RegistryWellFormed, Occupied
  <2>4. entry' \in Client /\ entry'.client_id = entry.client_id /\ entry'.file_number = entry.file_number
    BY <2>1, <2>3 DEF Client
  <2>5. QED
    BY <2>1, <2>2, <2>3, <2>4, OverwriteInv
<1>3. QED
  BY <1>1, <1>2

\* Every operation on CLIENTS keeps the registry and the copy of its entry in order.
LEMMA ClientStepRegistry ==
    ASSUME RegistryInv, ClientStep
    PROVE  RegistryInv'
<1>1. ASSUME NEW a \in Addresses, NEW d \in Durations, opened # Zero, add_client(opened, a, d)
      PROVE  RegistryInv'
  BY <1>1, AddClientRegistry
<1>2. ASSUME NEW id \in ClientIds, NEW a \in Addresses, NEW d \in Durations, reset_client(id, a, d)
      PROVE  RegistryInv'
  BY <1>2, ResetClientRegistry
<1>3. CASE delete_client(entry.client_id)
  BY <1>3, DeleteClientRegistry
<1>4. ASSUME NEW k \in 0..4, delete_client_crash(k) PROVE RegistryInv'
  BY <1>4, BeginInv DEF delete_client_crash
<1>5. CASE overlong_client_id
  BY <1>5, RegistryFail DEF overlong_client_id, Fail
<1>6. ASSUME NEW st \in Statuses, set_client_state(st) PROVE RegistryInv'
  <2>1. entry \in Client
    BY <1>6, OpenClient DEF set_client_state, Open
  <2>2. QED
    BY <1>6, <2>1, SaveEntryInv DEF set_client_state, Client
<1>7. ASSUME NEW t \in Durations, set_timeout(t) PROVE RegistryInv'
  <2>1. entry \in Client
    BY <1>7, OpenClient DEF set_timeout, Open
  <2>2. QED
    BY <1>7, <2>1, SaveEntryInv DEF set_timeout, Client
<1>8. ASSUME NEW m \in MessageTypes, set_client_await_message(m) PROVE RegistryInv'
  <2>1. entry \in Client
    BY <1>8, OpenClient DEF set_client_await_message, Open
  <2>2. QED
    BY <1>8, <2>1, SaveEntryInv DEF set_client_await_message, Client
<1>9. ASSUME NEW m \in MsgIds, set_client_await_msg_id(m) PROVE RegistryInv'
  <2>1. entry \in Client
    BY <1>9, OpenClient DEF set_client_await_msg_id, Open
  <2>2. QED
    BY <1>9, <2>1, SaveEntryInv DEF set_client_await_msg_id, Client
<1>10. QED
  BY <1>1, <1>2, <1>3, <1>4, <1>5, <1>6, <1>7, <1>8, <1>9 DEF ClientStep

\* The other steps change at most _error.
LEMMA FileStepRegistry ==
    ASSUME RegistryInv, WillStep \/ TopicStep \/ PublishStep
    PROVE  RegistryInv'
<1>1. err \in BOOLEAN
  BY DEF RegistryInv, RegistryTypes
<1>2. UNCHANGED <<tx, notIn, entry, opened, registry>> /\ err' \in BOOLEAN
  <2>1. CASE WillStep
    BY <1>1, <2>1 DEF WillStep, set_client_willtopic, set_client_willmessage, delete_will, flags
  <2>2. CASE TopicStep
    BY <1>1, <2>2 DEF TopicStep, add_client_registration, add_client_registration_overlong,
       is_topic_known_zero, add_subscription, delete_subscription,
       increment_global_subscription_count, decrement_global_subscription_count, flags, Fail
  <2>3. CASE PublishStep
    BY <1>1, <2>3 DEF PublishStep, add_client_publish, set_publish_msg_id,
       remove_publish_by_publish_id, remove_publish_by_msg_id, flags, Fail
  <2>4. QED
    BY <2>1, <2>2, <2>3
<1>3. QED
  BY <1>2, RegistryFail

-----------------------------------------------------------------------------
(* Every step keeps the types of the other files. *)

\* A removed will file reads as a will without topic and message.
LEMMA NoWillType == NoWill \in Will
BY DEF NoWill, Will

\* Removing files leaves files.
LEMMA RemoveFilesTypes ==
    ASSUME FileTypes, NEW n \in FileNumbers, NEW k \in 0..4, RemoveFiles(n, k),
           global' \in Seq(TopicCount \cup {NoTopicCount})
    PROVE  FileTypes'
BY NoWillType, EmptySeq DEF RemoveFiles, FileTypes

\* Transactions and the operations on CLIENTS keep the types of the other files.
LEMMA TransactionStepFiles ==
    ASSUME RegistryInv, FileTypes, TransactionStep \/ ClientStep
    PROVE  FileTypes'
<1>0. <<>> \in Seq(TopicCount \cup {NoTopicCount})
  BY EmptySeq
<1>1. CASE TransactionStep
  <2>1. CASE Restart
    BY <1>0, <2>1 DEF Restart, begin, FileTypes, files
  <2>2. CASE ~Restart
    <3>1. UNCHANGED <<files, global>>
      BY <1>1, <2>2 DEF TransactionStep, start_client_transaction, start_client_transaction_address,
             start_client_transaction_overlong, apply_transaction
    <3>2. QED
      BY <3>1, FilesFrame
  <2>3. QED
    BY <2>1, <2>2
<1>2. CASE ClientStep
  <2>1. entry.file_number \in FileNumbers
    BY FileNumberType DEF RegistryInv
  <2>2. CASE delete_client(entry.client_id)
    <3>1. CASE HasSubscriptions(entry.file_number)
      BY <2>2, <3>1, FilesFrame DEF delete_client
    <3>2. CASE ~HasSubscriptions(entry.file_number)
      BY <2>1, <2>2, <3>2, RemoveFilesTypes DEF delete_client, FileTypes
    <3>3. QED
      BY <3>1, <3>2
  <2>3. ASSUME NEW k \in 0..4, delete_client_crash(k) PROVE FileTypes'
    BY <1>0, <2>1, <2>3, RemoveFilesTypes DEF delete_client_crash, begin
  <2>4. CASE UNCHANGED <<files, global>>
    BY <2>4, FilesFrame
  <2>5. QED
    BY <1>2, <2>2, <2>3, <2>4
       DEF ClientStep, add_client, reset_client, overlong_client_id, set_client_state,
           set_timeout, set_client_await_message, set_client_await_msg_id
<1>3. QED
  BY <1>1, <1>2

\* So do the operations on the will,
LEMMA WillStepFiles ==
    ASSUME RegistryInv, FileTypes, WillStep
    PROVE  FileTypes'
<1>1. entry.file_number \in FileNumbers
  BY FileNumberType DEF RegistryInv
<1>2. wil' \in [FileNumbers -> Will]
  <2>1. ASSUME NEW t \in WillTopics, set_client_willtopic(t) PROVE wil' \in [FileNumbers -> Will]
    BY <1>1, <2>1 DEF set_client_willtopic, FileTypes, Will
  <2>2. ASSUME NEW m \in WillMessages, set_client_willmessage(m) PROVE wil' \in [FileNumbers -> Will]
    BY <1>1, <2>2 DEF set_client_willmessage, FileTypes, Will
  <2>3. CASE delete_will
    BY <1>1, <2>3, NoWillType DEF delete_will, FileTypes
  <2>4. QED
    BY <2>1, <2>2, <2>3 DEF WillStep
<1>3. UNCHANGED <<reg, sub, pub, global>>
  BY DEF WillStep, set_client_willtopic, set_client_willmessage, delete_will
<1>4. QED
  BY <1>2, <1>3 DEF FileTypes

\* add_subscription, which writes an empty entry or appends one,
LEMMA AddSubscriptionFiles ==
    ASSUME RegistryInv, FileTypes, NEW name \in TopicNames, NEW id \in TopicIds, NEW q \in QoS,
           add_subscription(name, id, q)
    PROVE  FileTypes'
<1> DEFINE file == sub[entry.file_number]
           new  == [topic_id |-> id, qos |-> q, topic_name |-> name]
<1>1. entry.file_number \in FileNumbers
  BY FileNumberType DEF RegistryInv
<1>2. file \in Seq(Subscription \cup {NoSubscription})
  BY <1>1 DEF FileTypes
<1>3. PICK i \in 1..MaxEntries :
         /\ StorePosition(file, NoSubscription, i)
         /\ sub' = [sub EXCEPT ![entry.file_number] = Put(file, i, new)]
  BY DEF add_subscription
<1>4. i \in 1..Len(file)+1
  BY <1>2, <1>3, StorePositionBound, BoundAssumption
<1>5. new \in Subscription \cup {NoSubscription}
  BY DEF Subscription
<1>6. Put(file, i, new) \in Seq(Subscription \cup {NoSubscription})
  BY <1>2, <1>4, <1>5, PutType
<1>7. sub' \in [FileNumbers -> Seq(Subscription \cup {NoSubscription})]
  BY <1>1, <1>3, <1>6 DEF FileTypes
<1>8. QED
  BY <1>7 DEF add_subscription, FileTypes

\* delete_subscription, which empties an entry,
LEMMA DeleteSubscriptionFiles ==
    ASSUME RegistryInv, FileTypes, NEW id \in TopicIds, delete_subscription(id)
    PROVE  FileTypes'
<1> DEFINE file == sub[entry.file_number]
<1>1. entry.file_number \in FileNumbers
  BY FileNumberType DEF RegistryInv
<1>2. file \in Seq(Subscription \cup {NoSubscription}) /\ DOMAIN file = 1..Len(file)
  BY <1>1, LenProperties DEF FileTypes
<1>3. \A i \in DOMAIN file : [file EXCEPT ![i] = NoSubscription] \in Seq(Subscription \cup {NoSubscription})
  BY <1>2, ExceptSeq
<1>4. sub' \in [FileNumbers -> Seq(Subscription \cup {NoSubscription})]
  BY <1>1, <1>3 DEF delete_subscription, FileTypes
<1>5. QED
  BY <1>4 DEF delete_subscription, FileTypes

\* add_client_registration, whose topic id is the length of the file,
LEMMA AddRegistrationFiles ==
    ASSUME RegistryInv, FileTypes, NEW name \in TopicNames \cup EdgeNames,
           add_client_registration(name)
    PROVE  FileTypes'
<1> DEFINE file == reg[entry.file_number]
           new  == [topic_id |-> NewTopicId(file), topic_name |-> name]
<1>1. entry.file_number \in FileNumbers
  BY FileNumberType DEF RegistryInv
<1>2. file \in Seq(Registration) /\ Len(file) \in Nat
  BY <1>1, LenProperties DEF FileTypes
<1>3. new \in Registration
  BY <1>2, BoundAssumption DEF add_client_registration, NewTopicId, Registration
<1>4. Append(file, new) \in Seq(Registration)
  BY <1>2, <1>3, AppendProperties
<1>5. reg' \in [FileNumbers -> Seq(Registration)]
  BY <1>1, <1>4 DEF add_client_registration, FileTypes
<1>6. QED
  BY <1>5 DEF add_client_registration, FileTypes

\* increment_global_subscription_count, which stops at its bound,
LEMMA IncrementFiles ==
    ASSUME FileTypes, NEW name \in TopicNames, increment_global_subscription_count(name)
    PROVE  FileTypes'
<1> DEFINE T == TopicCount \cup {NoTopicCount}
<1>1. global \in Seq(T) /\ DOMAIN global = 1..Len(global)
  BY LenProperties DEF FileTypes
<1>2. ASSUME NEW i \in DOMAIN global, FirstIn(global, CountEntry(name), i),
             global[i].client_subscription_count < MaxCount,
             global' = [global EXCEPT ![i].client_subscription_count = @ + 1]
      PROVE  global' \in Seq(T)
  <2>1. global[i] \in TopicCount
    <3>1. global[i] \in T /\ global[i].client_subscription_count # 0
      BY <1>1, <1>2, ElementOfSeq DEF FirstIn, CountEntry
    <3>2. NoTopicCount.client_subscription_count = 0
      BY DEF NoTopicCount
    <3>3. QED
      BY <3>1, <3>2
  <2>2. [global[i] EXCEPT !.client_subscription_count = @ + 1] \in T
    BY <1>2, <2>1, BoundAssumption DEF TopicCount
  <2>3. global' = [global EXCEPT ![i] = [global[i] EXCEPT !.client_subscription_count = @ + 1]]
    BY <1>2
  <2>4. QED
    BY <1>1, <2>2, <2>3, ExceptSeq
<1>3. ASSUME NEW i \in 1..MaxEntries, StorePosition(global, NoTopicCount, i),
             global' = Put(global, i, [client_subscription_count |-> 1, topic_name |-> name])
      PROVE  global' \in Seq(T)
  <2>1. i \in 1..Len(global)+1
    BY <1>1, <1>3, StorePositionBound, BoundAssumption
  <2>2. [client_subscription_count |-> 1, topic_name |-> name] \in T
    BY BoundAssumption DEF TopicCount
  <2>3. QED
    BY <1>1, <1>3, <2>1, <2>2, PutType
<1>4. global' \in Seq(T)
  BY <1>2, <1>3 DEF increment_global_subscription_count
<1>5. QED
  BY <1>4 DEF increment_global_subscription_count, FileTypes, files

\* and decrement_global_subscription_count, which never writes a count of 0.
LEMMA DecrementFiles ==
    ASSUME FileTypes, NEW name \in TopicNames, decrement_global_subscription_count(name)
    PROVE  FileTypes'
<1> DEFINE T == TopicCount \cup {NoTopicCount}
<1>1. global \in Seq(T) /\ DOMAIN global = 1..Len(global)
  BY LenProperties DEF FileTypes
<1>2. PICK i \in DOMAIN global : /\ FirstIn(global, CountEntry(name), i)
                                 /\ global' = [global EXCEPT ![i] = OneLess(global[i])]
  BY DEF decrement_global_subscription_count
<1>3. global[i] \in TopicCount
  <2>1. global[i] \in T /\ global[i].client_subscription_count # 0
    BY <1>1, <1>2, ElementOfSeq DEF FirstIn, CountEntry
  <2>2. NoTopicCount.client_subscription_count = 0
    BY DEF NoTopicCount
  <2>3. QED
    BY <2>1, <2>2
<1>4. OneLess(global[i]) \in T
  BY <1>3, BoundAssumption DEF TopicCount, OneLess
<1>5. global' \in Seq(T)
  BY <1>1, <1>2, <1>4, ExceptSeq
<1>6. QED
  BY <1>5 DEF decrement_global_subscription_count, FileTypes, files

\* All operations on topics keep the types of the files.
LEMMA TopicStepFiles ==
    ASSUME RegistryInv, FileTypes, TopicStep
    PROVE  FileTypes'
<1>1. CASE add_client_registration_overlong \/ is_topic_known_zero
  BY <1>1, FilesFrame DEF add_client_registration_overlong, is_topic_known_zero
<1>2. ASSUME NEW name \in TopicNames \cup EdgeNames, add_client_registration(name) PROVE FileTypes'
  BY <1>2, AddRegistrationFiles
<1>3. ASSUME NEW name \in TopicNames, NEW id \in TopicIds, NEW q \in QoS,
             add_subscription(name, id, q)
      PROVE  FileTypes'
  BY <1>3, AddSubscriptionFiles
<1>4. ASSUME NEW id \in TopicIds, delete_subscription(id) PROVE FileTypes'
  BY <1>4, DeleteSubscriptionFiles
<1>5. ASSUME NEW name \in TopicNames, increment_global_subscription_count(name) PROVE FileTypes'
  BY <1>5, IncrementFiles
<1>6. ASSUME NEW name \in TopicNames, decrement_global_subscription_count(name) PROVE FileTypes'
  BY <1>6, DecrementFiles
<1>7. QED
  BY <1>1, <1>2, <1>3, <1>4, <1>5, <1>6 DEF TopicStep

\* The misplaced write of remove_publish_by_msg_id leaves an entry as it is, empties it
\* or changes a publish without a change of its id, wherever it hits.
LEMMA ZeroedWordResult ==
    ASSUME NEW e \in Publish \cup {NoPublish}, NEW w \in Nat, NEW z \in ZeroedWord(e, w)
    PROVE  \/ z = e
           \/ z = NoPublish /\ e # NoPublish
           \/ e # NoPublish /\ z \in Publish /\ z.publish_id = e.publish_id
<1>1. CASE e = NoPublish
  BY <1>1 DEF ZeroedWord
<1>2. CASE e # NoPublish
  <2>1. e \in Publish
    BY <1>2
  <2>2. /\ [e EXCEPT !.msg = Damaged] \in Publish
        /\ [e EXCEPT !.msg = Damaged].publish_id = e.publish_id
    BY <2>1 DEF Publish
  <2>3. /\ [e EXCEPT !.msg_id = 0] \in Publish
        /\ [e EXCEPT !.msg_id = 0].publish_id = e.publish_id
    BY <2>1 DEF Publish
  <2>4. \/ z = e \/ z = [e EXCEPT !.msg = Damaged] \/ z = [e EXCEPT !.msg_id = 0]
        \/ z = NoPublish
    BY <1>2, LayoutAssumption DEF ZeroedWord
  <2>5. QED
    BY <1>2, <2>2, <2>3, <2>4, Zenon
<1>3. QED
  BY <1>1, <1>2

\* So do the operations on publishes.
LEMMA PublishStepFiles ==
    ASSUME RegistryInv, FileTypes, PublishStep
    PROVE  FileTypes'
<1> DEFINE n == entry.file_number
           file == pub[n]
           T == Publish \cup {NoPublish}
<1>1. n \in FileNumbers
  BY FileNumberType DEF RegistryInv
<1>2. file \in Seq(T) /\ DOMAIN file = 1..Len(file)
  BY <1>1, LenProperties DEF FileTypes
<1>3. ASSUME NEW f \in Seq(T), pub' = [pub EXCEPT ![n] = f] PROVE pub' \in [FileNumbers -> Seq(T)]
  BY <1>1, <1>3 DEF FileTypes
<1>4. ASSUME NEW p \in DOMAIN file, NEW e \in T PROVE [file EXCEPT ![p] = e] \in Seq(T)
  BY <1>2, <1>4, ExceptSeq
<1>5. ASSUME NEW p \in DOMAIN file, file[p] # NoPublish PROVE file[p] \in Publish
  BY <1>2, <1>5, ElementOfSeq
<1>6. ASSUME NEW m \in Payloads, add_client_publish(m) PROVE pub' \in [FileNumbers -> Seq(T)]
  <2>1. PICK i \in 1..MaxEntries :
           /\ StorePosition(file, NoPublish, i)
           /\ pub' = [pub EXCEPT ![n] = Put(file, i, [publish_id |-> PublishIdAt(i),
                                                      msg_id |-> 0, msg |-> m])]
    BY <1>6 DEF add_client_publish
  <2>2. i \in 1..Len(file)+1
    BY <1>2, <2>1, StorePositionBound, BoundAssumption
  <2>3. [publish_id |-> PublishIdAt(i), msg_id |-> 0, msg |-> m] \in T
    BY DEF PublishIdAt, Publish
  <2>4. Put(file, i, [publish_id |-> PublishIdAt(i), msg_id |-> 0, msg |-> m]) \in Seq(T)
    BY <1>2, <2>2, <2>3, PutType
  <2>5. QED
    BY <1>3, <2>1, <2>4
<1>7. ASSUME NEW p \in 1..MaxEntries, NEW m \in MsgIds, set_publish_msg_id(p, m)
      PROVE  pub' \in [FileNumbers -> Seq(T)]
  <2>1. CASE file[p].publish_id # p
    BY <1>7, <2>1 DEF set_publish_msg_id, FileTypes
  <2>2. CASE file[p].publish_id = p
    <3>1. p \in DOMAIN file /\ pub' = [pub EXCEPT ![n] = [file EXCEPT ![p] = [file[p] EXCEPT !.msg_id = m]]]
      BY <1>7, <2>2 DEF set_publish_msg_id
    <3>2. file[p] \in Publish
      BY <1>5, <2>2, <3>1, BoundAssumption DEF NoPublish
    <3>3. [file[p] EXCEPT !.msg_id = m] \in T
      BY <3>2 DEF Publish
    <3>4. QED
      BY <1>3, <1>4, <3>1, <3>3
  <2>3. QED
    BY <2>1, <2>2
<1>8. ASSUME NEW p \in 1..MaxEntries, remove_publish_by_publish_id(p)
      PROVE  pub' \in [FileNumbers -> Seq(T)]
  <2>1. CASE file[p].publish_id # p
    BY <1>8, <2>1 DEF remove_publish_by_publish_id, FileTypes
  <2>2. CASE file[p].publish_id = p
    <3>1. p \in DOMAIN file /\ pub' = [pub EXCEPT ![n] = [file EXCEPT ![p] = NoPublish]]
      BY <1>8, <2>2 DEF remove_publish_by_publish_id
    <3>2. QED
      BY <1>3, <1>4, <3>1
  <2>3. QED
    BY <2>1, <2>2
<1>9. ASSUME NEW m \in MsgIds \cup {0}, remove_publish_by_msg_id(m)
      PROVE  pub' \in [FileNumbers -> Seq(T)]
  <2>1. CASE UNCHANGED pub
    BY <2>1 DEF FileTypes
  <2>2. CASE ~UNCHANGED pub
    <3>1. PICK j \in DOMAIN file, w \in 0..PublishWords-1 : \E e \in ZeroedWord(file[j], w) :
             pub' = [pub EXCEPT ![n] = [file EXCEPT ![j] = e]]
      BY <1>9, <2>2 DEF remove_publish_by_msg_id
    <3>2. PICK e \in ZeroedWord(file[j], w) : pub' = [pub EXCEPT ![n] = [file EXCEPT ![j] = e]]
      BY <3>1
    <3>3. file[j] \in T
      BY <1>2, ElementOfSeq
    <3>4. e \in T
      BY <3>3, LayoutAssumption, ZeroedWordResult
    <3>5. QED
      BY <1>3, <1>4, <3>2, <3>4
  <2>3. QED
    BY <2>1, <2>2
<1>10. pub' \in [FileNumbers -> Seq(T)]
  BY <1>6, <1>7, <1>8, <1>9 DEF PublishStep
<1>11. UNCHANGED <<reg, sub, wil, global>>
  BY DEF PublishStep, add_client_publish, set_publish_msg_id, remove_publish_by_publish_id,
         remove_publish_by_msg_id
<1>12. QED
  BY <1>10, <1>11 DEF FileTypes

-----------------------------------------------------------------------------
(* The invariant of the specification. *)

\* Every step of the database, and every stuttering step, keeps the invariant.
LEMMA NextInv == IInv /\ [Next]_vars => IInv'
<1>1. SUFFICES ASSUME IInv, [Next]_vars PROVE RegistryInv' /\ FileTypes'
  BY IInvParts DEF IInv, RegistryInv, TypeOK, RegistryTypes, FileTypes
<1>2. RegistryInv /\ FileTypes
  BY <1>1, IInvParts
<1>3. CASE UNCHANGED vars
  BY <1>2, <1>3, RegistryFrame, FilesFrame DEF vars, flags, files
<1>4. CASE TransactionStep
  BY <1>2, <1>4, TransactionStepRegistry, TransactionStepFiles
<1>5. CASE ClientStep
  BY <1>2, <1>5, ClientStepRegistry, TransactionStepFiles
<1>6. CASE WillStep
  BY <1>2, <1>6, FileStepRegistry, WillStepFiles
<1>7. CASE TopicStep
  BY <1>2, <1>7, FileStepRegistry, TopicStepFiles
<1>8. CASE PublishStep
  BY <1>2, <1>8, FileStepRegistry, PublishStepFiles
<1>9. QED
  BY <1>1, <1>3, <1>4, <1>5, <1>6, <1>7, <1>8 DEF Next

\* IInv is an invariant of the database for all sizes of its files.
THEOREM Invariance == Spec => []IInv
BY InitInv, NextInv, PTL DEF Spec

\* Every variable keeps its type: no operation writes an entry that its file
\* cannot hold, whatever was called before.
THEOREM TypeCorrect == Spec => []TypeOK
<1>1. IInv => TypeOK
  BY DEF IInv
<1>2. QED
  BY <1>1, Invariance, PTL

\* Every client owns the files of its own position, and ids are unique.
THEOREM RegistryCorrect == Spec => []RegistryWellFormed
<1>1. IInv => RegistryWellFormed
  BY DEF IInv
<1>2. QED
  BY <1>1, Invariance, PTL

\* The copy of the entry in memory and the entry in the file never differ inside
\* a transaction.
THEOREM EntryCorrect == Spec => []EntryCoherent
<1>1. IInv => EntryCoherent
  BY DEF IInv
<1>2. QED
  BY <1>1, Invariance, PTL

\* A transaction is about the client it was started for from start to end.
THEOREM TransactionCorrect == Spec => []OpenedForItsClient
<1>1. IInv => OpenedForItsClient
  BY DEF IInv
<1>2. QED
  BY <1>1, Invariance, PTL

-----------------------------------------------------------------------------
(* Which files a step can write. *)

\* What the files with number n hold.
FilesAt(n) == <<reg[n], sub[n], wil[n], pub[n]>>

\* No registrations, subscriptions, will or publishes at n.
EmptyAt(n) == reg[n] = <<>> /\ sub[n] = <<>> /\ wil[n] = NoWill /\ pub[n] = <<>>

\* Opening, closing and failing a transaction, a restart, and adding or updating
\* a client write none of the four kinds of files.
LEMMA NoFileWritten ==
    ASSUME \/ TransactionStep
           \/ \E id \in ClientIds, a \in Addresses, d \in Durations :
                 add_client(id, a, d) \/ reset_client(id, a, d)
           \/ overlong_client_id
           \/ \E st \in Statuses : set_client_state(st)
           \/ \E t \in Durations : set_timeout(t)
           \/ \E m \in MessageTypes : set_client_await_message(m)
           \/ \E m \in MsgIds : set_client_await_msg_id(m)
    PROVE  UNCHANGED files
BY DEF TransactionStep, start_client_transaction, start_client_transaction_address,
       start_client_transaction_overlong, apply_transaction, Restart, add_client, reset_client,
       overlong_client_id, set_client_state, set_timeout, set_client_await_message,
       set_client_await_msg_id, files

\* The operations on the client's own files write those of the held client only;
\* delete_subscription, which does not ask whether there is a client, may reach
\* the file without a number.
LEMMA OwnFilesWritten ==
    ASSUME RegistryInv, FileTypes, WillStep \/ TopicStep \/ PublishStep,
           NEW n \in FileNumbers, n # entry.file_number
    PROVE  FilesAt(n)' = FilesAt(n)
<1>1. CASE WillStep
  BY <1>1 DEF WillStep, set_client_willtopic, set_client_willmessage, delete_will, FilesAt, FileTypes
<1>2. CASE TopicStep
  <2>1. CASE \E name \in TopicNames \cup EdgeNames : add_client_registration(name)
    BY <2>1 DEF add_client_registration, FilesAt, FileTypes
  <2>2. CASE add_client_registration_overlong \/ is_topic_known_zero
    BY <2>2 DEF add_client_registration_overlong, is_topic_known_zero, FilesAt, files
  <2>3. CASE \E name \in TopicNames, id \in TopicIds, q \in QoS : add_subscription(name, id, q)
    BY <2>3 DEF add_subscription, FilesAt, FileTypes
  <2>4. CASE \E id \in TopicIds : delete_subscription(id)
    BY <2>4 DEF delete_subscription, FilesAt, FileTypes
  <2>5. CASE \E name \in TopicNames : \/ increment_global_subscription_count(name)
                                      \/ decrement_global_subscription_count(name)
    BY <2>5 DEF increment_global_subscription_count, decrement_global_subscription_count,
                FilesAt, files
  <2>6. QED
    BY <1>2, <2>1, <2>2, <2>3, <2>4, <2>5 DEF TopicStep
<1>3. CASE PublishStep
  BY <1>3 DEF PublishStep, add_client_publish, set_publish_msg_id, remove_publish_by_publish_id,
              remove_publish_by_msg_id, FilesAt, FileTypes
<1>4. QED
  BY <1>1, <1>2, <1>3

\* They write nothing at all unless a client is held: for delete_subscription
\* because there is nothing to delete in the file without a number.
LEMMA NothingWritten ==
    ASSUME WillStep \/ TopicStep \/ PublishStep, notIn,
           sub[entry.file_number] = <<>>
    PROVE  UNCHANGED files
<1>1. CASE WillStep
  BY <1>1 DEF WillStep, set_client_willtopic, set_client_willmessage, delete_will, Open
<1>2. CASE TopicStep
  <2>1. CASE \E id \in TopicIds : delete_subscription(id)
    <3>1. PICK id \in TopicIds : delete_subscription(id)
      BY <2>1
    <3>2. DOMAIN sub[entry.file_number] = {}
      OBVIOUS
    <3>3. QED
      BY <3>1, <3>2 DEF delete_subscription, files
  <2>2. CASE ~\E id \in TopicIds : delete_subscription(id)
    BY <1>2, <2>2 DEF TopicStep, add_client_registration, add_client_registration_overlong,
       is_topic_known_zero, add_subscription, increment_global_subscription_count,
       decrement_global_subscription_count, Open, files
  <2>3. QED
    BY <2>1, <2>2
<1>3. CASE PublishStep
  BY <1>3 DEF PublishStep, add_client_publish, set_publish_msg_id, remove_publish_by_publish_id,
              remove_publish_by_msg_id, Open
<1>4. QED
  BY <1>1, <1>2, <1>3

-----------------------------------------------------------------------------
(* Which entry of CLIENTS a step can write. *)

\* Searching CLIENTS for the id of the held client leads to its own position.
LEMMA HeldPosition ==
    ASSUME RegistryInv, tx, ~notIn, NEW s \in DOMAIN registry,
           FirstIn(registry, WithId(entry.client_id), s)
    PROVE  s = entry.file_number
<1>1. registry[s].client_id = entry.client_id
  BY DEF FirstIn, WithId
<1>2. /\ entry.file_number \in DOMAIN registry /\ registry[entry.file_number] = entry
      /\ entry # NoClient
  BY OpenClient, NoClientNotClient
<1>3. QED
  BY <1>1, <1>2 DEF RegistryInv, RegistryWellFormed, Occupied

\* An operation that writes the copy in memory writes the held client's entry.
LEMMA SaveEntryElsewhere ==
    ASSUME RegistryInv, Open, NEW e, e.file_number = entry.file_number, SaveEntry(e),
           NEW n \in DOMAIN registry, n # entry.file_number
    PROVE  n \in DOMAIN registry' /\ registry'[n] = registry[n]
<1>1. entry.file_number \in 1..Len(registry)
  BY OpenClient, LenProperties DEF Open, RegistryInv, RegistryTypes
<1>2. registry' = [registry EXCEPT ![entry.file_number] = e]
  BY <1>1, OpenClient DEF Open, SaveEntry, Put
<1>3. QED
  BY <1>2

\* add_client writes a position that was free or did not exist.
LEMMA AddClientElsewhere ==
    ASSUME RegistryInv, NEW a \in Addresses, NEW d \in Durations,
           opened # Zero, add_client(opened, a, d), NEW n \in DOMAIN registry, Occupied(n)
    PROVE  n \in DOMAIN registry' /\ registry'[n] = registry[n]
<1>1. CASE ~notIn
  BY <1>1 DEF add_client
<1>2. CASE notIn
  <2> DEFINE new(s) == [client_id |-> opened, file_number |-> s,
                        client_address |-> a, client_status |-> "ACTIVE",
                        duration |-> d, timeout |-> 0,
                        await_message |-> "PINGREQ", await_message_id |-> 0]
  <2>1. PICK s \in Slots : FreePosition(s) /\ SaveEntry(new(s))
    BY <1>2 DEF add_client
  <2>2. /\ registry \in Seq(Client \cup {NoClient})
        /\ Len(registry) \in Nat
        /\ DOMAIN registry = 1..Len(registry)
    BY LenProperties DEF RegistryInv, RegistryTypes
  <2>3. s \in 1..Len(registry)+1 /\ s # n
    BY <2>1, <2>2 DEF FreePosition, FirstIn, Occupied
  <2>4. Position(s) = s
    BY <2>3, <2>2 DEF Position
  <2>5. new(s) \in Client
    <3>1. opened \in ClientIds
      BY DEF RegistryInv, RegistryTypes
    <3>2. QED
      BY <3>1 DEF Client
  <2>6. registry' = Put(registry, s, new(s))
    BY <2>1, <2>4 DEF SaveEntry
  <2> HIDE DEF new
  <2>7. new(s) \in Client \cup {NoClient}
    BY <2>5
  <2>8. registry'[n] = registry[n]
    BY <2>2, <2>3, <2>6, <2>7, PutElsewhere
  <2>9. /\ registry' \in Seq(Client \cup {NoClient})
        /\ Len(registry') = IF s \in 1..Len(registry) THEN Len(registry) ELSE Len(registry) + 1
    <3>1. Put(registry, s, new(s)) \in Seq(Client \cup {NoClient})
      BY <2>2, <2>3, <2>7, PutType
    <3>2. Len(Put(registry, s, new(s))) =
             IF s \in 1..Len(registry) THEN Len(registry) ELSE Len(registry) + 1
      BY <2>2, <2>3, <2>7, PutProperties
    <3>3. QED
      BY <2>6, <3>1, <3>2
  <2>10. DOMAIN registry' = 1..Len(registry')
    BY <2>9, LenProperties
  <2>11. QED
    BY <2>2, <2>8, <2>9, <2>10
<1>3. QED
  BY <1>1, <1>2 DEF RegistryInv, RegistryTypes

\* No step changes the entry of a client other than the held one.
LEMMA OtherEntries ==
    ASSUME RegistryInv, Next, NEW n \in DOMAIN registry, Occupied(n), ~Holds(n)
    PROVE  n \in DOMAIN registry' /\ registry'[n] = registry[n]
<1>1. CASE UNCHANGED registry
  BY <1>1
<1>2. ASSUME NEW a \in Addresses, NEW d \in Durations, opened # Zero, add_client(opened, a, d)
      PROVE  n \in DOMAIN registry' /\ registry'[n] = registry[n]
  BY <1>2, AddClientElsewhere
<1>3. ASSUME NEW id \in ClientIds, NEW a \in Addresses, NEW d \in Durations, reset_client(id, a, d)
      PROVE  n \in DOMAIN registry' /\ registry'[n] = registry[n]
  <2>1. CASE entry.client_id # id
    BY <1>3, <2>1 DEF reset_client
  <2>2. CASE entry.client_id = id
    <3>1. tx /\ ~notIn /\ n # entry.file_number
      BY <1>3 DEF reset_client, Open, Holds
    <3>2. PICK s \in DOMAIN registry :
             FirstIn(registry, WithId(id), s) /\ registry' = [registry EXCEPT ![s] = entry']
      BY <1>3, <2>2 DEF reset_client
    <3>3. s = entry.file_number
      BY <2>2, <3>1, <3>2, HeldPosition
    <3>4. QED
      BY <3>1, <3>2, <3>3
  <2>3. QED
    BY <2>1, <2>2
<1>4. CASE delete_client(entry.client_id)
  <2>1. CASE HasSubscriptions(entry.file_number)
    BY <1>4, <2>1 DEF delete_client
  <2>2. CASE ~HasSubscriptions(entry.file_number)
    <3>1. tx /\ ~notIn /\ n # entry.file_number
      BY <1>4 DEF delete_client, Open, Holds
    <3>2. PICK s \in DOMAIN registry :
             /\ FirstIn(registry, WithId(entry.client_id), s)
             /\ registry' = [registry EXCEPT ![s] = NoClient]
      BY <1>4, <2>2 DEF delete_client
    <3>3. s = entry.file_number
      BY <3>1, <3>2, HeldPosition
    <3>4. QED
      BY <3>1, <3>2, <3>3
  <2>3. QED
    BY <2>1, <2>2
<1>5. ASSUME NEW e, Open, e.file_number = entry.file_number, SaveEntry(e)
      PROVE  n \in DOMAIN registry' /\ registry'[n] = registry[n]
  BY <1>5, SaveEntryElsewhere DEF Open, Holds
<1>6. ASSUME Open PROVE entry \in Client
  BY <1>6, OpenClient DEF Open
<1>7. CASE \E st \in Statuses : set_client_state(st)
  BY <1>5, <1>6, <1>7 DEF set_client_state, Client
<1>8. CASE \E t \in Durations : set_timeout(t)
  BY <1>5, <1>6, <1>8 DEF set_timeout, Client
<1>9. CASE \E m \in MessageTypes : set_client_await_message(m)
  BY <1>5, <1>6, <1>9 DEF set_client_await_message, Client
<1>10. CASE \E m \in MsgIds : set_client_await_msg_id(m)
  BY <1>5, <1>6, <1>10 DEF set_client_await_msg_id, Client
<1>11. CASE TransactionStep
  BY <1>1, <1>11 DEF TransactionStep, start_client_transaction, start_client_transaction_address,
         start_client_transaction_overlong, apply_transaction, Restart
<1>12. CASE WillStep \/ TopicStep \/ PublishStep
  <2>1. UNCHANGED registry
    BY <1>12 DEF WillStep, set_client_willtopic, set_client_willmessage, delete_will,
       TopicStep, add_client_registration, add_client_registration_overlong,
       is_topic_known_zero, add_subscription, delete_subscription,
       increment_global_subscription_count, decrement_global_subscription_count,
       PublishStep, add_client_publish, set_publish_msg_id,
       remove_publish_by_publish_id, remove_publish_by_msg_id
  <2>2. QED
    BY <1>1, <2>1
<1>13. CASE overlong_client_id \/ \E k \in 0..4 : delete_client_crash(k)
  BY <1>1, <1>13 DEF overlong_client_id, delete_client_crash
<1>14. QED
  BY <1>2, <1>3, <1>4, <1>7, <1>8, <1>9, <1>10, <1>11, <1>12, <1>13 DEF Next, ClientStep

-----------------------------------------------------------------------------
(* One client's data is out of the reach of another's transaction. *)

\* Deleting a client, also when the process dies half-way, removes the files of
\* the held client only.
LEMMA DeletedFiles ==
    ASSUME FileTypes, NEW n \in FileNumbers, n # entry.file_number,
           \/ delete_client(entry.client_id)
           \/ \E k \in 0..4 : delete_client_crash(k)
    PROVE  FilesAt(n)' = FilesAt(n)
<1>1. CASE UNCHANGED files
  BY <1>1 DEF files, FilesAt
<1>2. ASSUME NEW k \in 0..4, RemoveFiles(entry.file_number, k)
      PROVE  FilesAt(n)' = FilesAt(n)
  BY <1>2 DEF RemoveFiles, FilesAt, FileTypes
<1>3. QED
  BY <1>1, <1>2 DEF delete_client, delete_client_crash

\* No step writes the files of a client other than the held one.
LEMMA OtherFiles ==
    ASSUME RegistryInv, FileTypes, Next, NEW n \in Slots, ~Holds(n)
    PROVE  FilesAt(n)' = FilesAt(n)
<1>1. n \in FileNumbers /\ n # 0
  BY BoundAssumption DEF Slots, FileNumbers
<1>2. CASE UNCHANGED files
  BY <1>2 DEF files, FilesAt
<1>3. ASSUME tx PROVE n # entry.file_number
  <2>1. CASE notIn
    BY <1>1, <1>3, <2>1 DEF RegistryInv, EntryCoherent, NoClient
  <2>2. CASE ~notIn
    BY <1>3, <2>2 DEF Holds
  <2>3. QED
    BY <2>1, <2>2
<1>4. CASE WillStep \/ TopicStep \/ PublishStep
  <2>1. CASE tx
    BY <1>1, <1>3, <1>4, <2>1, OwnFilesWritten
  <2>2. CASE ~tx
    BY <1>2, <1>4, <2>2 DEF WillStep, set_client_willtopic, set_client_willmessage, delete_will,
       TopicStep, add_client_registration, add_client_registration_overlong,
       is_topic_known_zero, add_subscription, delete_subscription,
       increment_global_subscription_count, decrement_global_subscription_count,
       PublishStep, add_client_publish, set_publish_msg_id,
       remove_publish_by_publish_id, remove_publish_by_msg_id, Open
  <2>3. QED
    BY <2>1, <2>2
<1>5. CASE delete_client(entry.client_id) \/ \E k \in 0..4 : delete_client_crash(k)
  <2>1. tx
    BY <1>5 DEF delete_client, delete_client_crash, Open
  <2>2. QED
    BY <1>1, <1>3, <1>5, <2>1, DeletedFiles
<1>6. CASE \E a \in Addresses, d \in Durations : opened # Zero /\ add_client(opened, a, d)
  BY <1>2, <1>6 DEF add_client
<1>7. QED
  BY <1>2, <1>4, <1>5, <1>6, NoFileWritten DEF Next, ClientStep

\* Whatever Core calls, a step leaves the entry and the files of every client but
\* the held one as they are.
THEOREM Isolation == Spec => OthersUntouched
<1> DEFINE A == \A n \in Slots : Occupied(n) /\ ~Holds(n) =>
                  /\ n \in DOMAIN registry' /\ registry'[n] = registry[n]
                  /\ reg'[n] = reg[n] /\ sub'[n] = sub[n] /\ wil'[n] = wil[n] /\ pub'[n] = pub[n]
<1>1. IInv /\ [Next]_vars => [A]_vars
  <2>1. SUFFICES ASSUME IInv, Next, NEW n \in Slots, Occupied(n), ~Holds(n)
                 PROVE  /\ n \in DOMAIN registry' /\ registry'[n] = registry[n]
                        /\ FilesAt(n)' = FilesAt(n)
    BY DEF FilesAt
  <2>2. RegistryInv /\ FileTypes /\ n \in DOMAIN registry
    BY <2>1, IInvParts DEF Occupied
  <2>3. QED
    BY <2>1, <2>2, OtherEntries, OtherFiles
<1>2. QED
  BY <1>1, Invariance, PTL DEF Spec, OthersUntouched

-----------------------------------------------------------------------------
(* A failed transaction. *)

\* Nothing but opening, closing and a restart gets past the tests of _error.
LEMMA FailedStep ==
    ASSUME tx, err, Next
    PROVE  /\ UNCHANGED <<registry, files>>
           /\ UNCHANGED global \/ global' = <<>>
           /\ tx' => err' /\ UNCHANGED <<entry, notIn>>
<1>1. CASE TransactionStep
  BY <1>1 DEF TransactionStep, start_client_transaction, start_client_transaction_address,
     start_client_transaction_overlong, apply_transaction, Restart, begin, Fail, files
<1>2. CASE ClientStep
  BY <1>2 DEF ClientStep, add_client, reset_client, delete_client, delete_client_crash,
     overlong_client_id, set_client_state, set_timeout, set_client_await_message,
     set_client_await_msg_id, Open
<1>3. CASE WillStep \/ PublishStep
  BY <1>3 DEF WillStep, set_client_willtopic, set_client_willmessage, delete_will,
     PublishStep, add_client_publish, set_publish_msg_id, remove_publish_by_publish_id,
     remove_publish_by_msg_id, Open
<1>4. CASE TopicStep
  BY <1>4 DEF TopicStep, add_client_registration, add_client_registration_overlong,
     is_topic_known_zero, add_subscription, delete_subscription,
     increment_global_subscription_count, decrement_global_subscription_count, Open
<1>5. QED
  BY <1>1, <1>2, <1>3, <1>4 DEF Next

\* A transaction that has failed writes nothing more and stays failed until it is
\* closed or the process restarts.
THEOREM FailureIsInert == Spec => FailedIsInert
<1> DEFINE A == tx /\ err => /\ UNCHANGED <<registry, files>>
                             /\ UNCHANGED global \/ global' = <<>>
                             /\ tx' => err' /\ UNCHANGED <<entry, notIn>>
<1>1. [Next]_vars => [A]_vars
  BY FailedStep
<1>2. QED
  BY <1>1, PTL DEF Spec, FailedIsInert

-----------------------------------------------------------------------------
(* A free position of CLIENTS has no files. *)

\* A position stays in use until delete_client has run to its end.
LEMMA StaysOccupied ==
    ASSUME RegistryInv, RegistryInv', Next, ~delete_client(entry.client_id),
           NEW n, Occupied(n)
    PROVE  Occupied(n)'
<1>1. CASE UNCHANGED registry
  BY <1>1 DEF Occupied
<1>2. CASE ~Holds(n)
  <2>1. n \in DOMAIN registry /\ registry[n] # NoClient
    BY DEF Occupied
  <2>2. n \in DOMAIN registry' /\ registry'[n] = registry[n]
    BY <1>2, <2>1, OtherEntries
  <2>3. QED
    BY <2>1, <2>2 DEF Occupied
<1>3. CASE Holds(n) /\ ~UNCHANGED registry
  <2>1. tx /\ ~notIn /\ entry.file_number = n /\ entry \in Client
    BY <1>3, OpenClient DEF Holds
  <2>2. ASSUME tx', ~notIn', entry'.file_number = n PROVE Occupied(n)'
    BY <2>2 DEF RegistryInv, EntryCoherent, Occupied
  <2>3. ASSUME NEW id \in ClientIds, NEW a \in Addresses, NEW d \in Durations,
               reset_client(id, a, d)
        PROVE  Occupied(n)'
    <3>1. entry.client_id = id
      BY <1>3, <2>3 DEF reset_client
    <3>2. PICK s \in DOMAIN registry :
             /\ FirstIn(registry, WithId(id), s)
             /\ entry' = [registry[s] EXCEPT
                                !.client_address = a, !.client_status = "ACTIVE",
                                !.duration = d, !.timeout = 0,
                                !.await_message = "PINGREQ", !.await_message_id = 0]
      BY <3>1, <2>3 DEF reset_client
    <3>3. s = n
      BY <2>1, <3>1, <3>2, HeldPosition
    <3>4. registry[s] = entry
      BY <2>1, <3>3, OpenClient
    <3>5. entry'.file_number = n
      BY <2>1, <3>2, <3>4 DEF Client
    <3>6. QED
      BY <2>1, <2>2, <2>3, <3>5 DEF reset_client
  <2>4. CASE \/ \E st \in Statuses : set_client_state(st)
             \/ \E t \in Durations : set_timeout(t)
             \/ \E m \in MessageTypes : set_client_await_message(m)
             \/ \E m \in MsgIds : set_client_await_msg_id(m)
    <3>1. UNCHANGED <<tx, notIn>>
      BY <2>4 DEF set_client_state, set_timeout, set_client_await_message,
                  set_client_await_msg_id
    <3>2. ASSUME NEW st, set_client_state(st) PROVE entry'.file_number = n
      BY <2>1, <3>2 DEF set_client_state, SaveEntry, Client
    <3>3. ASSUME NEW t, set_timeout(t) PROVE entry'.file_number = n
      BY <2>1, <3>3 DEF set_timeout, SaveEntry, Client
    <3>4. ASSUME NEW m, set_client_await_message(m) PROVE entry'.file_number = n
      BY <2>1, <3>4 DEF set_client_await_message, SaveEntry, Client
    <3>5. ASSUME NEW m, set_client_await_msg_id(m) PROVE entry'.file_number = n
      BY <2>1, <3>5 DEF set_client_await_msg_id, SaveEntry, Client
    <3>6. QED
      BY <2>1, <2>2, <2>4, <3>1, <3>2, <3>3, <3>4, <3>5
  <2>5. CASE \E a \in Addresses, d \in Durations : opened # Zero /\ add_client(opened, a, d)
    BY <1>3, <2>1, <2>5 DEF add_client
  <2>6. CASE TransactionStep \/ overlong_client_id \/ \E k \in 0..4 : delete_client_crash(k)
    BY <1>3, <2>6 DEF TransactionStep, start_client_transaction, start_client_transaction_address,
       start_client_transaction_overlong, apply_transaction, Restart, overlong_client_id,
       delete_client_crash
  <2>7. CASE WillStep \/ TopicStep \/ PublishStep
    BY <1>3, <2>7 DEF WillStep, set_client_willtopic, set_client_willmessage, delete_will,
       TopicStep, add_client_registration, add_client_registration_overlong,
       is_topic_known_zero, add_subscription, delete_subscription,
       increment_global_subscription_count, decrement_global_subscription_count,
       PublishStep, add_client_publish, set_publish_msg_id,
       remove_publish_by_publish_id, remove_publish_by_msg_id
  <2>8. QED
    BY <2>3, <2>4, <2>5, <2>6, <2>7 DEF Next, ClientStep
<1>4. QED
  BY <1>1, <1>2, <1>3

\* A file number whose position is free: nothing is written to its files, and
\* delete_client leaves nothing behind in the files of the client it removes.
LEMMA NextNoInheritance ==
    ASSUME RegistryInv, FileTypes, RegistryInv', NoInheritance, Next
    PROVE  NoInheritance'
<1>1. SUFFICES ASSUME NEW n \in FileNumbers, ~Occupied(n)' PROVE EmptyAt(n)'
  BY DEF NoInheritance, EmptyAt
<1>2. ASSUME ~Occupied(n), FilesAt(n)' = FilesAt(n) PROVE EmptyAt(n)'
  BY <1>2 DEF NoInheritance, FilesAt, EmptyAt
<1>3. CASE delete_client(entry.client_id)
  <2>1. tx /\ ~notIn
    BY <1>3 DEF delete_client, Open
  <2>2. CASE HasSubscriptions(entry.file_number)
    <3>1. UNCHANGED <<registry, files>>
      BY <1>3, <2>2 DEF delete_client
    <3>2. QED
      BY <1>1, <1>2, <3>1 DEF Occupied, FilesAt, files
  <2>3. CASE ~HasSubscriptions(entry.file_number) /\ n = entry.file_number
    <3>1. RemoveFiles(n, 4)
      BY <1>3, <2>3 DEF delete_client
    <3>2. QED
      BY <3>1 DEF RemoveFiles, EmptyAt, FileTypes
  <2>4. CASE ~HasSubscriptions(entry.file_number) /\ n # entry.file_number
    <3>1. FilesAt(n)' = FilesAt(n)
      BY <1>3, <2>4, DeletedFiles
    <3>2. ~Occupied(n)
      <4>1. ~Holds(n)
        BY <2>4 DEF Holds
      <4>2. QED
        BY <1>1, <4>1, OtherEntries DEF Occupied
    <3>3. QED
      BY <1>2, <3>1, <3>2
  <2>5. QED
    BY <2>2, <2>3, <2>4
<1>4. CASE ~delete_client(entry.client_id)
  <2>1. ~Occupied(n)
    BY <1>1, <1>4, StaysOccupied
  <2>2. CASE n \in Slots
    <3>1. ~Holds(n)
      BY <2>1, OpenClient, NoClientNotClient DEF Holds, Occupied
    <3>2. QED
      BY <1>2, <2>1, <2>2, <3>1, OtherFiles
  <2>3. CASE n \notin Slots
    <3>1. n = 0
      BY <2>3, BoundAssumption DEF Slots, FileNumbers
    <3>2. CASE WillStep \/ TopicStep \/ PublishStep
      <4>1. CASE entry.file_number # 0
        BY <1>2, <2>1, <3>1, <3>2, <4>1, OwnFilesWritten
      <4>2. CASE entry.file_number = 0 /\ notIn
        <5>1. sub[entry.file_number] = <<>>
          BY <2>1, <3>1, <4>2 DEF NoInheritance
        <5>2. UNCHANGED files
          BY <3>2, <4>2, <5>1, NothingWritten
        <5>3. QED
          BY <1>2, <2>1, <5>2 DEF FilesAt, files
      <4>3. CASE entry.file_number = 0 /\ ~notIn
        <5>1. ~tx
          BY <4>3, OpenClient DEF Slots
        <5>2. UNCHANGED files
          BY <3>2, <5>1 DEF WillStep, set_client_willtopic, set_client_willmessage, delete_will,
             TopicStep, add_client_registration, add_client_registration_overlong,
             is_topic_known_zero, add_subscription, delete_subscription,
             increment_global_subscription_count, decrement_global_subscription_count,
             PublishStep, add_client_publish, set_publish_msg_id,
             remove_publish_by_publish_id, remove_publish_by_msg_id, Open
        <5>3. QED
          BY <1>2, <2>1, <5>2 DEF FilesAt, files
      <4>4. QED
        BY <4>1, <4>2, <4>3
    <3>3. CASE \E k \in 0..4 : delete_client_crash(k)
      <4>1. n # entry.file_number
        BY <3>1, <3>3, OpenClient DEF delete_client_crash, Open, Slots
      <4>2. QED
        BY <1>2, <2>1, <3>3, <4>1, DeletedFiles
    <3>4. CASE UNCHANGED files
      BY <1>2, <2>1, <3>4 DEF FilesAt, files
    <3>5. CASE \E a \in Addresses, d \in Durations : opened # Zero /\ add_client(opened, a, d)
      BY <3>4, <3>5 DEF add_client
    <3>6. QED
      BY <1>4, <3>2, <3>3, <3>4, <3>5, NoFileWritten DEF Next, ClientStep
  <2>4. QED
    BY <2>2, <2>3
<1>5. QED
  BY <1>3, <1>4

\* The next client to be given a position of CLIENTS finds no registration,
\* subscription, will or publish of an earlier one there, although create_file
\* does not truncate and a crash may interrupt delete_client anywhere.
THEOREM NothingInherited == Spec => []NoInheritance
<1>1. Init => NoInheritance
  BY DEF Init, NoInheritance
<1>2. IInv /\ IInv' /\ NoInheritance /\ [Next]_vars => NoInheritance'
  <2>1. SUFFICES ASSUME IInv, IInv', NoInheritance, [Next]_vars PROVE NoInheritance'
    OBVIOUS
  <2>2. RegistryInv /\ FileTypes
    BY <2>1, IInvParts
  <2>3. RegistryInv'
    BY <2>1 DEF IInv, RegistryInv, TypeOK, RegistryTypes
  <2>4. CASE UNCHANGED vars
    BY <2>1, <2>4 DEF vars, files, NoInheritance, Occupied
  <2>5. CASE Next
    BY <2>1, <2>2, <2>3, <2>5, NextNoInheritance
  <2>6. QED
    BY <2>1, <2>4, <2>5
<1>3. QED
  BY <1>1, <1>2, Invariance, PTL DEF Spec

-----------------------------------------------------------------------------
(* The first and the last entry of a kind. *)

\* A set of natural numbers that is not empty has a least element.
LEMMA LeastNatural ==
    ASSUME NEW T, T \subseteq Nat, T # {}
    PROVE  \E x \in T : \A y \in T : x <= y
<1>1. \E x \in T : \A y \in T : ~ (<<y, x>> \in OpToRel(<, Nat))
  BY NatLessThanWellFounded, WFMin
<1>2. ASSUME NEW x \in T, NEW y \in T, ~ (<<y, x>> \in OpToRel(<, Nat))
      PROVE x <= y
  BY <1>2 DEF OpToRel
<1>3. QED
  BY <1>1, <1>2

\* A bounded one has a greatest element.
LEMMA GreatestNatural ==
    ASSUME NEW T, T \subseteq Nat, T # {}, NEW b \in Nat, \A x \in T : x <= b
    PROVE  \E x \in T : \A y \in T : y <= x
<1> DEFINE U == {b - x : x \in T}
<1>1. PICK t \in T : TRUE
  OBVIOUS
<1>2. b - t \in U
  OBVIOUS
<1>3. \A u \in U : u \in Nat
  OBVIOUS
<1>4. \A x \in T : b - x \in U
  OBVIOUS
<1>5. \A u \in U : \E x \in T : u = b - x
  OBVIOUS
<1> HIDE DEF U
<1>6. PICK u \in U : \A v \in U : u <= v
  BY <1>2, <1>3, LeastNatural
<1>7. PICK x \in T : u = b - x
  BY <1>5
<1>8. \A y \in T : b - x <= b - y
  BY <1>4, <1>6, <1>7
<1>9. QED
  BY <1>8

\* A scan for an entry in E stops at the first one, if there is one.
LEMMA FirstInExists ==
    ASSUME NEW S, NEW s \in Seq(S), NEW E, NEW k \in DOMAIN s, s[k] \in E
    PROVE  \E i \in DOMAIN s : FirstIn(s, E, i)
<1> DEFINE T == {i \in DOMAIN s : s[i] \in E}
<1>1. DOMAIN s = 1..Len(s) /\ Len(s) \in Nat
  BY LenProperties
<1>2. T \subseteq Nat /\ T # {}
  BY <1>1
<1>3. PICK i \in T : \A j \in T : i <= j
  BY <1>2, LeastNatural
<1>4. \A j \in 1..i-1 : j \in DOMAIN s /\ j \notin T
  BY <1>1, <1>3
<1>5. QED
  BY <1>1, <1>3, <1>4 DEF FirstIn

\* It stops at one entry only.
LEMMA FirstInUnique ==
    ASSUME NEW S, NEW s \in Seq(S), NEW E, NEW i, NEW j, FirstIn(s, E, i), FirstIn(s, E, j)
    PROVE  i = j
<1>1. i \in 1..Len(s) /\ j \in 1..Len(s) /\ Len(s) \in Nat
  BY LenProperties DEF FirstIn
<1>2. ~(i < j) /\ ~(j < i)
  BY <1>1 DEF FirstIn
<1>3. QED
  BY <1>1, <1>2

-----------------------------------------------------------------------------
(***************************************************************************)
(* The inductive invariant about the contents of the files.  What the      *)
(* properties say of names and ids is not inductive: a topic id names its  *)
(* entry because it is the position the entry was appended at, and the     *)
(* queries, which count up to MaxEntries, are right because no file is     *)
(* longer than that.                                                       *)
(***************************************************************************)
RegistrationFile(f) ==
    \A i \in DOMAIN f :
        /\ f[i].topic_id = i
        /\ f[i].topic_name \in TopicNames =>
              \A j \in DOMAIN f : f[j].topic_name = f[i].topic_name => i = j

SubscriptionFile(f) ==
    /\ Len(f) <= MaxEntries
    /\ \A i, j \in DOMAIN f :
          /\ f[i].topic_id = f[j].topic_id
          /\ f[i].topic_name = f[j].topic_name
          /\ f[i] # NoSubscription
          => i = j

PublishFile(f) ==
    /\ Len(f) <= MaxEntries
    /\ \A i \in DOMAIN f : f[i] = NoPublish \/ f[i].publish_id = i

CountFile(f) ==
    /\ Len(f) <= MaxEntries
    /\ \A i, j \in DOMAIN f :
          f[i] # NoTopicCount /\ f[i].topic_name = f[j].topic_name => i = j

ContentInv ==
    /\ \A n \in FileNumbers :
          RegistrationFile(reg[n]) /\ SubscriptionFile(sub[n]) /\ PublishFile(pub[n])
    /\ CountFile(global)

-----------------------------------------------------------------------------
(* What a step can do to a file: leave it alone, remove it, or write one   *)
(* entry.                                                                  *)

RegistrationWritten(f, g) ==
    \/ g = f
    \/ g = <<>>
    \/ \E name \in TopicNames \cup EdgeNames :
          /\ \A i \in DOMAIN f : f[i].topic_name = name => name \in EdgeNames
          /\ Len(f) < MaxEntries
          /\ g = Append(f, [topic_id |-> Len(f) + 1, topic_name |-> name])

SubscriptionStored(f, g) ==
    \E name \in TopicNames, id \in TopicIds, q \in QoS, i \in 1..MaxEntries :
        /\ ~IsStored(f, id, name)
        /\ StorePosition(f, NoSubscription, i)
        /\ g = Put(f, i, [topic_id |-> id, qos |-> q, topic_name |-> name])

SubscriptionWritten(f, g) ==
    \/ g = f
    \/ g = <<>>
    \/ SubscriptionStored(f, g)
    \/ \E i \in DOMAIN f : g = [f EXCEPT ![i] = NoSubscription]

PublishStored(f, g) ==
    \E m \in Payloads, i \in 1..MaxEntries :
        /\ StorePosition(f, NoPublish, i)
        /\ g = Put(f, i, [publish_id |-> i, msg_id |-> 0, msg |-> m])

PublishWritten(f, g) ==
    \/ g = f
    \/ g = <<>>
    \/ PublishStored(f, g)
    \/ \E p \in DOMAIN f : g = [f EXCEPT ![p] = NoPublish]
    \/ \E p \in DOMAIN f, e \in Publish :
          f[p] # NoPublish /\ e.publish_id = f[p].publish_id /\ g = [f EXCEPT ![p] = e]

\* A step that leaves the four files of number n alone does what it may.
LEMMA NotWritten ==
    ASSUME NEW n, reg'[n] = reg[n], sub'[n] = sub[n], pub'[n] = pub[n]
    PROVE  /\ RegistrationWritten(reg[n], reg'[n])
           /\ SubscriptionWritten(sub[n], sub'[n])
           /\ PublishWritten(pub[n], pub'[n])
BY DEF RegistrationWritten, SubscriptionWritten, PublishWritten

\* Opening and closing transactions removes no file, and of the operations on
\* clients only delete_client does, to its end or cut short by a crash.
LEMMA ClientStepWrites ==
    ASSUME IInv, TransactionStep \/ ClientStep, NEW n \in FileNumbers
    PROVE  /\ RegistrationWritten(reg[n], reg'[n])
           /\ SubscriptionWritten(sub[n], sub'[n])
           /\ PublishWritten(pub[n], pub'[n])
<1>1. entry.file_number \in FileNumbers /\ FileTypes
  BY FileNumberType, IInvParts DEF RegistryInv
<1>2. ASSUME NEW k \in 0..4, RemoveFiles(entry.file_number, k)
      PROVE  /\ RegistrationWritten(reg[n], reg'[n])
             /\ SubscriptionWritten(sub[n], sub'[n])
             /\ PublishWritten(pub[n], pub'[n])
  <2>1. reg'[n] \in {reg[n], <<>>} /\ sub'[n] \in {sub[n], <<>>} /\ pub'[n] \in {pub[n], <<>>}
    BY <1>1, <1>2 DEF RemoveFiles, FileTypes
  <2>2. QED
    BY <2>1 DEF RegistrationWritten, SubscriptionWritten, PublishWritten
<1>3. CASE delete_client(entry.client_id)
  BY <1>2, <1>3, NotWritten DEF delete_client, files
<1>4. CASE \E k \in 0..4 : delete_client_crash(k)
  BY <1>2, <1>4 DEF delete_client_crash
<1>5. CASE UNCHANGED files
  BY <1>5, NotWritten DEF files
<1>6. QED
  BY <1>3, <1>4, <1>5
     DEF TransactionStep, start_client_transaction, start_client_transaction_address,
         start_client_transaction_overlong, apply_transaction, Restart, ClientStep, add_client,
         reset_client, overlong_client_id, set_client_state, set_timeout,
         set_client_await_message, set_client_await_msg_id

\* The operations on topics write one entry of one file of the held client.
LEMMA TopicStepWrites ==
    ASSUME IInv, WillStep \/ TopicStep, NEW n \in FileNumbers
    PROVE  /\ RegistrationWritten(reg[n], reg'[n])
           /\ SubscriptionWritten(sub[n], sub'[n])
           /\ PublishWritten(pub[n], pub'[n])
<1>1. entry.file_number \in FileNumbers /\ FileTypes
  BY FileNumberType, IInvParts DEF RegistryInv
<1>2. CASE UNCHANGED <<reg, sub, pub>>
  BY <1>2, NotWritten
<1>3. ASSUME NEW name \in TopicNames \cup EdgeNames, add_client_registration(name)
      PROVE  RegistrationWritten(reg[n], reg'[n]) /\ UNCHANGED <<sub, pub>>
  BY <1>1, <1>3 DEF add_client_registration, NewTopicId, RegistrationWritten, FileTypes
<1>4. ASSUME NEW name \in TopicNames, NEW id \in TopicIds, NEW q \in QoS,
             add_subscription(name, id, q)
      PROVE  SubscriptionWritten(sub[n], sub'[n]) /\ UNCHANGED <<reg, pub>>
  <2>1. CASE n = entry.file_number
    BY <1>1, <1>4, <2>1 DEF add_subscription, SubscriptionWritten, SubscriptionStored, FileTypes
  <2>2. CASE n # entry.file_number
    BY <1>1, <1>4, <2>2 DEF add_subscription, SubscriptionWritten, FileTypes
  <2>3. QED
    BY <2>1, <2>2
<1>5. ASSUME NEW id \in TopicIds, delete_subscription(id)
      PROVE  SubscriptionWritten(sub[n], sub'[n]) /\ UNCHANGED <<reg, pub>>
  <2>1. CASE n = entry.file_number
    BY <1>1, <1>5, <2>1 DEF delete_subscription, SubscriptionWritten, FileTypes
  <2>2. CASE n # entry.file_number
    BY <1>1, <1>5, <2>2 DEF delete_subscription, SubscriptionWritten, FileTypes
  <2>3. QED
    BY <2>1, <2>2
<1>6. QED
  BY <1>2, <1>3, <1>4, <1>5
     DEF WillStep, set_client_willtopic, set_client_willmessage, delete_will,
         TopicStep, add_client_registration_overlong, is_topic_known_zero,
         increment_global_subscription_count, decrement_global_subscription_count, files,
         RegistrationWritten, SubscriptionWritten, PublishWritten

\* The operations on publishes write one entry of the held client's publishes and
\* never change the id of an entry that is in use.
LEMMA PublishStepWrites ==
    ASSUME IInv, PublishStep, NEW n \in FileNumbers
    PROVE  PublishWritten(pub[n], pub'[n])
<1> DEFINE file == pub[entry.file_number]
<1>1. entry.file_number \in FileNumbers /\ FileTypes
  BY FileNumberType, IInvParts DEF RegistryInv
<1>2. /\ file \in Seq(Publish \cup {NoPublish}) /\ DOMAIN file = 1..Len(file)
      /\ \A p \in DOMAIN file : file[p] # NoPublish => file[p] \in Publish
  BY <1>1, LenProperties, ElementOfSeq DEF FileTypes
<1>3. CASE n # entry.file_number \/ UNCHANGED pub
  BY <1>1, <1>3 DEF PublishStep, add_client_publish, set_publish_msg_id,
     remove_publish_by_publish_id, remove_publish_by_msg_id, PublishWritten, FileTypes
<1>4. ASSUME NEW m \in Payloads, add_client_publish(m), n = entry.file_number
      PROVE  PublishWritten(file, pub'[n])
  BY <1>1, <1>4 DEF add_client_publish, PublishIdAt, PublishWritten, PublishStored, FileTypes
<1>5. ASSUME NEW p \in 1..MaxEntries, NEW m \in MsgIds, set_publish_msg_id(p, m),
             n = entry.file_number, pub' # pub
      PROVE  PublishWritten(file, pub'[n])
  <2>1. /\ p \in DOMAIN file /\ file[p].publish_id = p
        /\ pub'[n] = [file EXCEPT ![p] = [file[p] EXCEPT !.msg_id = m]]
    BY <1>1, <1>5 DEF set_publish_msg_id, FileTypes
  <2>2. file[p] # NoPublish
    BY <1>5, <2>1, BoundAssumption DEF NoPublish
  <2>3. /\ [file[p] EXCEPT !.msg_id = m] \in Publish
        /\ [file[p] EXCEPT !.msg_id = m].publish_id = file[p].publish_id
    BY <1>2, <2>1, <2>2 DEF Publish
  <2>4. QED
    BY <2>1, <2>2, <2>3 DEF PublishWritten
<1>6. ASSUME NEW p \in 1..MaxEntries, remove_publish_by_publish_id(p),
             n = entry.file_number, pub' # pub
      PROVE  PublishWritten(file, pub'[n])
  BY <1>1, <1>6 DEF remove_publish_by_publish_id, PublishWritten, FileTypes
<1>7. ASSUME NEW m \in MsgIds \cup {0}, remove_publish_by_msg_id(m),
             n = entry.file_number, pub' # pub
      PROVE  PublishWritten(file, pub'[n])
  <2>1. PICK j \in DOMAIN file, w \in 0..PublishWords-1 : \E e \in ZeroedWord(file[j], w) :
           pub'[n] = [file EXCEPT ![j] = e]
    BY <1>1, <1>7 DEF remove_publish_by_msg_id, FileTypes
  <2>2. PICK e \in ZeroedWord(file[j], w) : pub'[n] = [file EXCEPT ![j] = e]
    BY <2>1
  <2>3. file[j] \in Publish \cup {NoPublish}
    BY <1>2
  <2>4. \/ e = file[j]
        \/ e = NoPublish /\ file[j] # NoPublish
        \/ file[j] # NoPublish /\ e \in Publish /\ e.publish_id = file[j].publish_id
    BY <2>3, LayoutAssumption, ZeroedWordResult
  <2>5. CASE e = file[j]
    <3>1. pub'[n] = file
      BY <1>2, <2>2, <2>5
    <3>2. QED
      BY <3>1 DEF PublishWritten
  <2>6. QED
    BY <2>2, <2>4, <2>5 DEF PublishWritten
<1>8. QED
  BY <1>3, <1>4, <1>5, <1>6, <1>7 DEF PublishStep

-----------------------------------------------------------------------------
(* Such a write keeps what the invariant says of the file. *)

\* A registration is appended with its position as its topic id, under a name that
\* no entry holds yet, or one that no search can find.
LEMMA RegistrationFileKept ==
    ASSUME NEW f \in Seq(Registration), NEW g, RegistrationFile(f), RegistrationWritten(f, g)
    PROVE  RegistrationFile(g)
<1>1. DOMAIN f = 1..Len(f) /\ Len(f) \in Nat
  BY LenProperties
<1>2. CASE g = f
  BY <1>2
<1>3. CASE g = <<>>
  BY <1>3 DEF RegistrationFile
<1>4. ASSUME NEW name \in TopicNames \cup EdgeNames,
             \A i \in DOMAIN f : f[i].topic_name = name => name \in EdgeNames,
             Len(f) < MaxEntries,
             g = Append(f, [topic_id |-> Len(f) + 1, topic_name |-> name])
      PROVE  RegistrationFile(g)
  <2> DEFINE new == [topic_id |-> Len(f) + 1, topic_name |-> name]
  <2>1. new.topic_id = Len(f) + 1 /\ new.topic_name = name /\ new \in Registration
    BY <1>1, <1>4, BoundAssumption DEF Registration
  <2>2. /\ DOMAIN g = 1..Len(f) + 1
        /\ \A i \in 1..Len(f) : g[i] = f[i]
        /\ g[Len(f) + 1] = new
    BY <1>1, <1>4, <2>1, AppendProperties, LenProperties
  <2> HIDE DEF new
  <2>3. \A i \in DOMAIN g : (i \in DOMAIN f /\ g[i] = f[i]) \/ (i = Len(f) + 1 /\ g[i] = new)
    BY <1>1, <2>2
  <2>4. ASSUME NEW i \in DOMAIN g, NEW j \in DOMAIN g, g[i].topic_name \in TopicNames,
               g[j].topic_name = g[i].topic_name
        PROVE  i = j
    <3>1. \A k \in DOMAIN f : f[k].topic_name = name => name \notin TopicNames
      BY <1>4, ZeroAssumption
    <3>2. QED
      BY <2>1, <2>3, <2>4, <3>1 DEF RegistrationFile
  <2>5. \A i \in DOMAIN g : g[i].topic_id = i
    BY <2>1, <2>3 DEF RegistrationFile
  <2>6. QED
    BY <2>4, <2>5 DEF RegistrationFile
<1>5. QED
  BY <1>2, <1>3, <1>4 DEF RegistrationWritten

\* A file does not grow past the bound by an entry stored at a position within it.
LEMMA PutLength ==
    ASSUME NEW S, NEW s \in Seq(S), NEW i \in 1..MaxEntries, NEW e \in S, NEW empty,
           StorePosition(s, empty, i), Len(s) <= MaxEntries
    PROVE  /\ Len(Put(s, i, e)) <= MaxEntries
           /\ i \in DOMAIN Put(s, i, e)
           /\ Put(s, i, e)[i] = e
           /\ \A j \in DOMAIN Put(s, i, e) : j # i => j \in DOMAIN s /\ Put(s, i, e)[j] = s[j]
<1>1. i \in 1..Len(s)+1 /\ Len(s) \in Nat /\ DOMAIN s = 1..Len(s) /\ MaxEntries \in Nat
  BY StorePositionBound, LenProperties, BoundAssumption
<1>2. /\ Put(s, i, e) \in Seq(S)
      /\ Len(Put(s, i, e)) = IF i \in 1..Len(s) THEN Len(s) ELSE Len(s) + 1
      /\ Put(s, i, e)[i] = e
      /\ \A j \in 1..Len(s) : j # i => Put(s, i, e)[j] = s[j]
  BY <1>1, PutProperties
<1>3. DOMAIN Put(s, i, e) = 1..Len(Put(s, i, e))
  BY <1>2, LenProperties
<1>4. QED
  BY <1>1, <1>2, <1>3

\* A subscription is stored only if it is not there, wherever the empty entry is.
LEMMA SubscriptionFileKept ==
    ASSUME NEW f \in Seq(Subscription \cup {NoSubscription}), NEW g, SubscriptionFile(f),
           SubscriptionWritten(f, g)
    PROVE  SubscriptionFile(g)
<1>1. DOMAIN f = 1..Len(f) /\ Len(f) \in Nat /\ MaxEntries \in Nat
  BY LenProperties, BoundAssumption
<1>2. \A i \in DOMAIN f : f[i] # NoSubscription => f[i] \in Subscription /\ f[i].topic_id # 0
  BY <1>1, ElementOfSeq, NumberAssumption DEF Subscription
<1>3. NoSubscription.topic_id = 0
  BY DEF NoSubscription
<1>4. CASE g = f
  BY <1>4
<1>5. CASE g = <<>>
  BY <1>1, <1>5 DEF SubscriptionFile
<1>6. ASSUME NEW k \in DOMAIN f, g = [f EXCEPT ![k] = NoSubscription]
      PROVE  SubscriptionFile(g)
  <2>1. /\ DOMAIN g = DOMAIN f /\ Len(g) = Len(f)
        /\ \A i \in DOMAIN f : g[i] = IF i = k THEN NoSubscription ELSE f[i]
    BY <1>1, <1>6, ExceptSeq
  <2>2. QED
    BY <1>2, <1>3, <2>1 DEF SubscriptionFile
<1>7. CASE SubscriptionStored(f, g)
  <2>1. PICK name \in TopicNames, id \in TopicIds, q \in QoS, k \in 1..MaxEntries :
           /\ ~IsStored(f, id, name)
           /\ StorePosition(f, NoSubscription, k)
           /\ g = Put(f, k, [topic_id |-> id, qos |-> q, topic_name |-> name])
    BY <1>7 DEF SubscriptionStored
  <2> DEFINE new == [topic_id |-> id, qos |-> q, topic_name |-> name]
  <2>2. new.topic_id = id /\ new.topic_name = name /\ new \in Subscription \cup {NoSubscription}
    BY DEF Subscription
  <2>3. \A i \in DOMAIN f : ~(f[i].topic_id = id /\ f[i].topic_name = name)
    BY <2>1 DEF IsStored
  <2> HIDE DEF new
  <2>4. /\ Len(g) <= MaxEntries
        /\ g[k] = new
        /\ \A j \in DOMAIN g : j # k => j \in DOMAIN f /\ g[j] = f[j]
    BY <2>1, <2>2, PutLength DEF new, SubscriptionFile
  <2>5. QED
    BY <2>2, <2>3, <2>4 DEF SubscriptionFile
<1>8. QED
  BY <1>4, <1>5, <1>6, <1>7 DEF SubscriptionWritten

\* A publish is stored with its position as its id and keeps it until it is removed.
LEMMA PublishFileKept ==
    ASSUME NEW f \in Seq(Publish \cup {NoPublish}), NEW g, PublishFile(f), PublishWritten(f, g)
    PROVE  PublishFile(g)
<1>1. DOMAIN f = 1..Len(f) /\ Len(f) \in Nat /\ MaxEntries \in Nat
  BY LenProperties, BoundAssumption
<1>2. CASE g = f
  BY <1>2
<1>3. CASE g = <<>>
  BY <1>1, <1>3 DEF PublishFile
<1>4. CASE PublishStored(f, g)
  <2>1. PICK m \in Payloads, k \in 1..MaxEntries :
           /\ StorePosition(f, NoPublish, k)
           /\ g = Put(f, k, [publish_id |-> k, msg_id |-> 0, msg |-> m])
    BY <1>4 DEF PublishStored
  <2>2. [publish_id |-> k, msg_id |-> 0, msg |-> m] \in Publish \cup {NoPublish}
    BY DEF Publish
  <2>3. /\ Len(g) <= MaxEntries
        /\ g[k] = [publish_id |-> k, msg_id |-> 0, msg |-> m]
        /\ \A j \in DOMAIN g : j # k => j \in DOMAIN f /\ g[j] = f[j]
    BY <2>1, <2>2, PutLength DEF PublishFile
  <2>4. QED
    BY <2>3 DEF PublishFile
<1>5. ASSUME NEW k \in DOMAIN f, NEW e \in Publish \cup {NoPublish}, g = [f EXCEPT ![k] = e],
             e = NoPublish \/ (f[k] # NoPublish /\ e.publish_id = f[k].publish_id)
      PROVE  PublishFile(g)
  <2>1. /\ DOMAIN g = DOMAIN f /\ Len(g) = Len(f)
        /\ \A i \in DOMAIN f : g[i] = IF i = k THEN e ELSE f[i]
    BY <1>1, <1>5, ExceptSeq
  <2>2. QED
    BY <1>5, <2>1 DEF PublishFile
<1>6. CASE \E k \in DOMAIN f : g = [f EXCEPT ![k] = NoPublish]
  BY <1>5, <1>6
<1>7. CASE \E k \in DOMAIN f, e \in Publish :
              f[k] # NoPublish /\ e.publish_id = f[k].publish_id /\ g = [f EXCEPT ![k] = e]
  BY <1>5, <1>7
<1>8. QED
  BY <1>2, <1>3, <1>4, <1>6, <1>7 DEF PublishWritten

\* MQTT.SUB gets an entry for a topic only when it has none, and an entry keeps its
\* topic until it counts nobody.
LEMMA CountFileKept ==
    ASSUME FileTypes, CountFile(global), NEW name \in TopicNames,
           \/ increment_global_subscription_count(name)
           \/ decrement_global_subscription_count(name)
    PROVE  CountFile(global')
<1> DEFINE T == TopicCount \cup {NoTopicCount}
<1>1. /\ global \in Seq(T) /\ DOMAIN global = 1..Len(global) /\ Len(global) \in Nat
      /\ MaxEntries \in Nat
  BY LenProperties, BoundAssumption DEF FileTypes
<1>2. \A i \in DOMAIN global : global[i] # NoTopicCount =>
         /\ global[i] \in TopicCount
         /\ global[i].client_subscription_count # 0
         /\ global[i].topic_name # Zero
  BY <1>1, ElementOfSeq, ZeroAssumption DEF TopicCount
<1>3. NoTopicCount.topic_name = Zero /\ NoTopicCount.client_subscription_count = 0
  BY DEF NoTopicCount
<1>4. ASSUME NEW k \in DOMAIN global, NEW e \in T, global' = [global EXCEPT ![k] = e],
             global[k] # NoTopicCount, e = NoTopicCount \/ e.topic_name = global[k].topic_name
      PROVE  CountFile(global')
  <2>1. /\ DOMAIN global' = DOMAIN global /\ Len(global') = Len(global)
        /\ \A i \in DOMAIN global : global'[i] = IF i = k THEN e ELSE global[i]
    BY <1>1, <1>4, ExceptSeq
  <2>2. QED
    BY <1>2, <1>3, <1>4, <2>1 DEF CountFile
<1>5. ASSUME NEW k \in DOMAIN global, FirstIn(global, CountEntry(name), k)
      PROVE  global[k] \in TopicCount /\ global[k] # NoTopicCount
  BY <1>2, <1>3, <1>5 DEF FirstIn, CountEntry
<1>6. ASSUME NEW k \in DOMAIN global, FirstIn(global, CountEntry(name), k),
             global[k].client_subscription_count < MaxCount,
             global' = [global EXCEPT ![k].client_subscription_count = @ + 1]
      PROVE  CountFile(global')
  <2> DEFINE e == [global[k] EXCEPT !.client_subscription_count = @ + 1]
  <2>1. e \in T /\ e.topic_name = global[k].topic_name
    BY <1>5, <1>6, BoundAssumption DEF TopicCount
  <2>2. QED
    BY <1>4, <1>5, <1>6, <2>1
<1>7. ASSUME NEW k \in DOMAIN global, FirstIn(global, CountEntry(name), k),
             global' = [global EXCEPT ![k] = OneLess(global[k])]
      PROVE  CountFile(global')
  <2>1. OneLess(global[k]) \in T
    BY <1>5, <1>7, BoundAssumption DEF TopicCount, OneLess
  <2>2. OneLess(global[k]) = NoTopicCount \/ OneLess(global[k]).topic_name = global[k].topic_name
    BY <1>5, <1>7 DEF TopicCount, OneLess
  <2>3. QED
    BY <1>4, <1>5, <1>7, <2>1, <2>2
<1>8. ASSUME CountEntry(name) = {}, NEW k \in 1..MaxEntries,
             StorePosition(global, NoTopicCount, k),
             global' = Put(global, k, [client_subscription_count |-> 1, topic_name |-> name])
      PROVE  CountFile(global')
  <2> DEFINE new == [client_subscription_count |-> 1, topic_name |-> name]
  <2>1. new \in T /\ new.topic_name = name /\ name # Zero
    BY BoundAssumption, ZeroAssumption DEF TopicCount
  <2>2. \A i \in DOMAIN global : global[i].topic_name # name
    BY <1>2, <1>3, <1>8, <2>1 DEF CountEntry
  <2> HIDE DEF new
  <2>3. /\ Len(global') <= MaxEntries
        /\ global'[k] = new
        /\ \A j \in DOMAIN global' : j # k => j \in DOMAIN global /\ global'[j] = global[j]
    BY <1>1, <1>8, <2>1, PutLength DEF new, CountFile
  <2>4. QED
    BY <2>1, <2>2, <2>3 DEF CountFile
<1>9. QED
  BY <1>6, <1>7, <1>8 DEF increment_global_subscription_count, decrement_global_subscription_count

-----------------------------------------------------------------------------
(* The invariant of the specification. *)

\* All files start empty.
LEMMA InitContent == Init => ContentInv
<1>1. SUFFICES ASSUME Init PROVE ContentInv
  OBVIOUS
<1>2. <<>> \in Seq(Client) /\ Len(<<>>) = 0 /\ DOMAIN <<>> = {}
  BY EmptySeq
<1>3. 0 <= MaxEntries
  BY BoundAssumption
<1>4. RegistrationFile(<<>>) /\ SubscriptionFile(<<>>) /\ PublishFile(<<>>) /\ CountFile(<<>>)
  BY <1>2, <1>3 DEF RegistrationFile, SubscriptionFile, PublishFile, CountFile
<1>5. QED
  BY <1>1, <1>4 DEF Init, ContentInv

\* Every step keeps the contents of every file in order.
LEMMA NextContent == IInv /\ ContentInv /\ [Next]_vars => ContentInv'
<1>1. SUFFICES ASSUME IInv, ContentInv, [Next]_vars PROVE ContentInv'
  OBVIOUS
<1>2. FileTypes
  BY <1>1, IInvParts
<1>3. ASSUME NEW n \in FileNumbers
      PROVE  RegistrationFile(reg'[n]) /\ SubscriptionFile(sub'[n]) /\ PublishFile(pub'[n])
  <2>1. /\ RegistrationWritten(reg[n], reg'[n])
        /\ SubscriptionWritten(sub[n], sub'[n])
        /\ PublishWritten(pub[n], pub'[n])
    <3>1. CASE UNCHANGED vars
      BY <3>1, NotWritten DEF vars, files
    <3>2. CASE TransactionStep \/ ClientStep
      BY <1>1, <3>2, ClientStepWrites
    <3>3. CASE WillStep \/ TopicStep
      BY <1>1, <3>3, TopicStepWrites
    <3>4. CASE PublishStep
      <4>1. UNCHANGED <<reg, sub>>
        BY <3>4 DEF PublishStep, add_client_publish, set_publish_msg_id,
           remove_publish_by_publish_id, remove_publish_by_msg_id
      <4>2. QED
        BY <1>1, <3>4, <4>1, PublishStepWrites DEF RegistrationWritten, SubscriptionWritten
    <3>5. QED
      BY <1>1, <3>1, <3>2, <3>3, <3>4 DEF Next
  <2>2. /\ reg[n] \in Seq(Registration)
        /\ sub[n] \in Seq(Subscription \cup {NoSubscription})
        /\ pub[n] \in Seq(Publish \cup {NoPublish})
    BY <1>2 DEF FileTypes
  <2>3. RegistrationFile(reg[n]) /\ SubscriptionFile(sub[n]) /\ PublishFile(pub[n])
    BY <1>1 DEF ContentInv
  <2>4. QED
    BY <2>1, <2>2, <2>3, RegistrationFileKept, SubscriptionFileKept, PublishFileKept
<1>4. CountFile(global')
  <2>1. CountFile(global)
    BY <1>1 DEF ContentInv
  <2>2. CASE UNCHANGED global
    BY <2>1, <2>2
  <2>3. CASE global' = <<>>
    <3>1. <<>> \in Seq(Client) /\ Len(<<>>) = 0 /\ DOMAIN <<>> = {}
      BY EmptySeq
    <3>2. QED
      BY <2>3, <3>1, BoundAssumption DEF CountFile
  <2>4. CASE \E name \in TopicNames : \/ increment_global_subscription_count(name)
                                      \/ decrement_global_subscription_count(name)
    BY <1>2, <2>1, <2>4, CountFileKept
  <2>5. CASE TransactionStep \/ ClientStep
    BY <2>2, <2>3, <2>5 DEF TransactionStep, start_client_transaction,
       start_client_transaction_address, start_client_transaction_overlong, apply_transaction,
       Restart, begin, ClientStep, add_client, reset_client, delete_client, delete_client_crash,
       overlong_client_id, set_client_state, set_timeout, set_client_await_message,
       set_client_await_msg_id
  <2>6. CASE WillStep \/ PublishStep
    BY <2>2, <2>6 DEF WillStep, set_client_willtopic, set_client_willmessage, delete_will,
       PublishStep, add_client_publish, set_publish_msg_id, remove_publish_by_publish_id,
       remove_publish_by_msg_id
  <2>7. CASE TopicStep
    BY <2>2, <2>4, <2>7 DEF TopicStep, add_client_registration,
       add_client_registration_overlong, is_topic_known_zero, add_subscription,
       delete_subscription
  <2>8. QED
    BY <1>1, <2>2, <2>5, <2>6, <2>7 DEF Next, vars
<1>5. QED
  BY <1>3, <1>4 DEF ContentInv

\* The contents of every file are in order in every state.
THEOREM ContentCorrect == Spec => []ContentInv
<1>1. Spec => []IInv
  BY Invariance
<1>2. QED
  BY <1>1, InitContent, NextContent, PTL DEF Spec

-----------------------------------------------------------------------------
(* What the queries return. *)

\* get_topic_name inverts add_client_registration: a topic id is the position of its
\* entry, so exactly one entry has it, and the name it leads to is registered once.
THEOREM RegistrationsCorrect == Spec => []RegistrationsResolve
<1>1. ContentInv => RegistrationsResolve
  <2>1. SUFFICES ASSUME ContentInv, NEW n \in FileNumbers, NEW i \in DOMAIN reg[n],
                        reg[n][i].topic_name \in TopicNames
                 PROVE  /\ get_topic_name(n, i) = reg[n][i].topic_name
                        /\ \A j \in DOMAIN reg[n] :
                              reg[n][j].topic_name = reg[n][i].topic_name => i = j
    BY DEF RegistrationsResolve
  <2> DEFINE found == {j \in DOMAIN reg[n] :
                         reg[n][j].topic_id = i /\ reg[n][j].topic_name \in TopicNames}
  <2>2. /\ \A j \in DOMAIN reg[n] : reg[n][j].topic_id = j
        /\ \A j \in DOMAIN reg[n] : reg[n][j].topic_name = reg[n][i].topic_name => i = j
    BY <2>1 DEF ContentInv, RegistrationFile
  <2>3. found = {i}
    BY <2>1, <2>2
  <2>4. (CHOOSE j \in found : \A k \in found : j <= k) = i
    BY <2>3
  <2>5. QED
    BY <2>2, <2>3, <2>4 DEF get_topic_name
<1>2. QED
  BY <1>1, ContentCorrect, PTL

\* No subscription is stored twice, whatever was emptied and stored before.
THEOREM SubscriptionsCorrect == Spec => []SubscriptionsDistinct
<1>1. ContentInv => SubscriptionsDistinct
  BY DEF ContentInv, SubscriptionFile, SubscriptionsDistinct
<1>2. QED
  BY <1>1, ContentCorrect, PTL

\* is_subscribed, get_subscription_topic_id, get_nth_subscribed_topic_id and
\* get_client_subscription_count agree about the held client's file; without a client
\* they agree that there is nothing, because the file without a number is empty.
THEOREM SubscriptionQueriesCorrect == Spec => []SubscriptionQueriesAgree
<1>1. IInv /\ ContentInv /\ NoInheritance => SubscriptionQueriesAgree
  <2>1. SUFFICES ASSUME IInv, ContentInv, NoInheritance PROVE SubscriptionQueriesAgree
    OBVIOUS
  <2> DEFINE file == sub[entry.file_number]
  <2>2. RegistryInv /\ FileTypes /\ entry.file_number \in FileNumbers
    BY <2>1, IInvParts, FileNumberType DEF RegistryInv
  <2>3. /\ file \in Seq(Subscription \cup {NoSubscription})
        /\ DOMAIN file = 1..Len(file) /\ Len(file) \in Nat
        /\ Len(file) <= MaxEntries /\ MaxEntries \in Nat
    BY <2>1, <2>2, LenProperties, BoundAssumption DEF FileTypes, ContentInv, SubscriptionFile
  <2>4. \A i \in DOMAIN file : file[i] = NoSubscription \/ file[i] \in Subscription
    BY <2>3, ElementOfSeq
  <2>5. ASSUME NEW name \in TopicNames, is_subscribed(name)
        PROVE  \E n \in 0..MaxEntries-1 :
                  /\ get_subscription_topic_id(name) # 0
                  /\ get_nth_subscribed_topic_id(n) = get_subscription_topic_id(name)
    <3> DEFINE e == CHOOSE e \in NamedSubscription(name) : TRUE
    <3>1. e \in NamedSubscription(name) /\ get_subscription_topic_id(name) = e.topic_id
      BY <2>5 DEF is_subscribed, get_subscription_topic_id
    <3> HIDE DEF e
    <3>2. PICK j \in DOMAIN file : e = file[j] /\ file[j].topic_name = name
      BY <3>1 DEF NamedSubscription
    <3>3. file[j] \in Subscription
      BY <2>4, <2>5, <3>2, ZeroAssumption DEF NoSubscription
    <3>4. e.topic_id # 0
      BY <3>2, <3>3, NumberAssumption DEF Subscription
    <3>5. j - 1 \in 0..MaxEntries-1 /\ (j - 1) + 1 = j
      BY <2>3, <3>2
    <3>6. get_nth_subscribed_topic_id(j - 1) = e.topic_id
      BY <2>5, <3>2, <3>5 DEF is_subscribed, Open, get_nth_subscribed_topic_id
    <3>7. QED
      BY <3>1, <3>4, <3>5, <3>6
  <2>6. get_client_subscription_count =
           Cardinality({n \in 0..MaxEntries : get_nth_subscribed_topic_id(n) # 0})
    <3> DEFINE N == {n \in 0..MaxEntries : get_nth_subscribed_topic_id(n) # 0}
               I == {i \in DOMAIN file : file[i].topic_id # 0}
    <3>1. CASE Open
      <4> DEFINE f == [i \in I |-> i - 1]
      <4>1. \A n \in 0..MaxEntries : get_nth_subscribed_topic_id(n) =
               IF n + 1 \in DOMAIN file THEN file[n + 1].topic_id ELSE 0
        BY <3>1 DEF Open, get_nth_subscribed_topic_id
      <4>2. \A i \in I : i - 1 \in N
        BY <2>3, <4>1
      <4>3. \A n \in N : n + 1 \in I /\ n = (n + 1) - 1
        BY <2>3, <4>1
      <4>4. \A i, j \in I : i - 1 = j - 1 => i = j
        BY <2>3
      <4> HIDE DEF N, I
      <4>5. f \in [I -> N]
        BY <4>2
      <4>6. f \in Bijection(I, N)
        <5>1. \A i, j \in I : f[i] = f[j] => i = j
          BY <4>4
        <5>2. \A n \in N : \E i \in I : f[i] = n
          BY <4>3
        <5>3. QED
          BY <4>5, <5>1, <5>2 DEF Bijection, Injection, Surjection, IsInjective
      <4>7. IsFiniteSet(I)
        <5>1. I \in SUBSET (1..Len(file)) /\ IsFiniteSet(1..Len(file))
          BY <2>3, FS_Interval DEF I
        <5>2. QED
          BY <5>1, FS_Subset
      <4>8. Cardinality(I) = Cardinality(N)
        BY <4>6, <4>7, FS_Bijection DEF ExistsBijection
      <4>9. QED
        BY <3>1, <4>8 DEF get_client_subscription_count, I, N
    <3>2. CASE ~Open
      <4>1. N = {}
        <5>1. CASE tx /\ ~err
          <6>1. notIn /\ entry = NoClient
            BY <2>2, <3>2, <5>1 DEF Open, RegistryInv, EntryCoherent
          <6>2. entry.file_number = 0 /\ ~Occupied(0)
            BY <2>2, <6>1, LenProperties DEF NoClient, Occupied, RegistryInv, RegistryTypes
          <6>3. file = <<>>
            BY <2>1, <2>2, <6>2 DEF NoInheritance
          <6>4. QED
            BY <6>3 DEF get_nth_subscribed_topic_id
        <5>2. CASE ~(tx /\ ~err)
          BY <5>2 DEF get_nth_subscribed_topic_id
        <5>3. QED
          BY <5>1, <5>2
      <4>2. QED
        BY <3>2, <4>1, FS_EmptySet DEF get_client_subscription_count
    <3>3. QED
      BY <3>1, <3>2
  <2>7. QED
    BY <2>5, <2>6 DEF SubscriptionQueriesAgree
<1>2. QED
  BY <1>1, Invariance, ContentCorrect, NothingInherited, PTL

\* A topic has at most one entry in MQTT.SUB, and the count Core reads is zero exactly
\* when it has none.
THEOREM TopicCountsCorrect == Spec => []TopicsCountedOnce
<1>1. IInv /\ ContentInv => TopicsCountedOnce
  <2>1. SUFFICES ASSUME IInv, ContentInv PROVE TopicsCountedOnce
    OBVIOUS
  <2>2. global \in Seq(TopicCount \cup {NoTopicCount}) /\ DOMAIN global = 1..Len(global)
    BY <2>1, IInvParts, LenProperties DEF FileTypes
  <2>3. ASSUME NEW name \in TopicNames, ~err
        PROVE  get_global_topic_subscription_count(name) = 0
                  <=> \A i \in DOMAIN global : global[i].topic_name # name
    <3>1. \A i \in DOMAIN global : global[i].topic_name = name => global[i] \in CountEntry(name)
      <4>1. \A i \in DOMAIN global : global[i].topic_name = name => global[i] \in TopicCount
        BY <2>2, ElementOfSeq, ZeroAssumption DEF NoTopicCount
      <4>2. QED
        BY <4>1, BoundAssumption DEF CountEntry, TopicCount
    <3>2. CASE CountEntry(name) = {}
      BY <3>1, <3>2 DEF get_global_topic_subscription_count
    <3>3. CASE CountEntry(name) # {}
      <4>1. PICK k \in DOMAIN global : global[k] \in CountEntry(name)
        BY <3>3 DEF CountEntry
      <4>2. \E i \in DOMAIN global : FirstIn(global, CountEntry(name), i)
        BY <2>2, <4>1, FirstInExists
      <4> DEFINE c == CHOOSE i \in DOMAIN global : FirstIn(global, CountEntry(name), i)
      <4>3. FirstIn(global, CountEntry(name), c)
        BY <4>2
      <4>4. get_global_topic_subscription_count(name) = global[c].client_subscription_count
        BY <2>3, <3>3 DEF get_global_topic_subscription_count
      <4> HIDE DEF c
      <4>5. global[c].client_subscription_count # 0
        BY <4>3 DEF FirstIn, CountEntry
      <4>6. global[k].topic_name = name
        BY <4>1 DEF CountEntry
      <4>7. QED
        BY <4>1, <4>4, <4>5, <4>6
    <3>4. QED
      BY <3>2, <3>3
  <2>4. QED
    BY <2>1, <2>3 DEF TopicsCountedOnce, ContentInv, CountFile
<1>2. QED
  BY <1>1, Invariance, ContentCorrect, PTL

\* A publish is stored at the position its id names for as long as it waits, and
\* get_next_publish returns something exactly when has_client_publishes says so.
THEOREM PublishesCorrect == Spec => []PublishesFound
<1>1. IInv /\ ContentInv => PublishesFound
  <2>1. SUFFICES ASSUME IInv, ContentInv PROVE PublishesFound
    OBVIOUS
  <2>2. FileTypes /\ entry.file_number \in FileNumbers
    BY <2>1, IInvParts, FileNumberType DEF RegistryInv
  <2>3. ASSUME NEW n \in FileNumbers
        PROVE  /\ pub[n] \in Seq(Publish \cup {NoPublish})
               /\ DOMAIN pub[n] = 1..Len(pub[n]) /\ Len(pub[n]) \in Nat
               /\ Len(pub[n]) <= MaxEntries /\ MaxEntries \in Nat
    BY <2>1, <2>2, <2>3, LenProperties, BoundAssumption DEF FileTypes, ContentInv, PublishFile
  <2>4. ASSUME NEW n \in FileNumbers, NEW i \in DOMAIN pub[n]
        PROVE  pub[n][i].publish_id \in {0, i} /\ (pub[n][i].publish_id = 0 <=> pub[n][i] = NoPublish)
    <3>1. pub[n][i] = NoPublish \/ (pub[n][i].publish_id = i /\ i # 0)
      BY <2>1, <2>3, <2>4 DEF ContentInv, PublishFile
    <3>2. NoPublish.publish_id = 0
      BY DEF NoPublish
    <3>3. QED
      BY <3>1, <3>2
  <2>5. ASSUME Open
        PROVE  has_client_publishes
                  <=> \E i \in 1..MaxEntries : NextPublish(pub[entry.file_number], i)
    <3> DEFINE file == pub[entry.file_number]
               T == {i \in DOMAIN file : file[i].publish_id # 0}
    <3>1. DOMAIN file = 1..Len(file) /\ Len(file) \in Nat /\ Len(file) <= MaxEntries /\ MaxEntries \in Nat
      BY <2>2, <2>3
    <3>2. ASSUME T # {} PROVE \E i \in 1..MaxEntries : NextPublish(file, i)
      <4>1. T \subseteq Nat /\ \A x \in T : x <= MaxEntries
        BY <3>1
      <4>2. PICK i \in T : \A j \in T : j <= i
        BY <3>1, <3>2, <4>1, GreatestNatural
      <4>3. \A j \in i+1..Len(file) : file[j].publish_id = 0
        BY <3>1, <4>2
      <4>4. QED
        BY <3>1, <4>2, <4>3 DEF NextPublish
    <3>3. ASSUME NEW i \in 1..MaxEntries, NextPublish(file, i) PROVE T # {}
      BY <3>3 DEF NextPublish
    <3>4. QED
      BY <2>5, <3>2, <3>3 DEF has_client_publishes
  <2>6. QED
    BY <2>4, <2>5 DEF PublishesFound
<1>2. QED
  BY <1>1, Invariance, ContentCorrect, PTL
=============================================================================
