------------------- MODULE LinuxPersistentRefinementProofs -------------------
(* Proof that LinuxPersistent implements SessionStore, for every value of  *)
(* the constants.                                                          *)
EXTENDS LinuxPersistentRefinement, LinuxPersistentProofs

-----------------------------------------------------------------------------
(* The mapping. *)

\* The invariants of the database, which the mapping rests on.
StoreInv == IInv /\ ContentInv /\ NoInheritance

\* The session of a registered client is what the files of its position hold.
SessionsMapped ==
    /\ DOMAIN Sessions = Registered
    /\ \A s \in RegisteredSlots : /\ registry[s].client_id \in Registered
                                  /\ Sessions[registry[s].client_id] = SessionAt(s)

\* Ids are unique, so the mapping finds the position.
LEMMA SessionOfClient == StoreInv => SessionsMapped
<1>1. SUFFICES ASSUME StoreInv, NEW s \in RegisteredSlots
               PROVE  /\ registry[s].client_id \in Registered
                      /\ Sessions[registry[s].client_id] = SessionAt(s)
  BY DEF Sessions, SessionsMapped
<1>2. registry[s].client_id \in Registered
  BY DEF Registered
<1>3. \A t \in RegisteredSlots : registry[t].client_id = registry[s].client_id => t = s
  BY <1>1 DEF StoreInv, IInv, RegistryWellFormed, RegisteredSlots
<1>4. (CHOOSE t \in RegisteredSlots : registry[t].client_id = registry[s].client_id) = s
  BY <1>3
<1>5. QED
  BY <1>2, <1>4 DEF Sessions

\* The same after a step.
LEMMA SessionOfClientNext == StoreInv' => SessionsMapped'
BY SessionOfClient, PTL

\* Initially there is no session.
LEMMA InitStore == Init => Store!Start
<1>1. SUFFICES ASSUME Init PROVE Store!Start
  OBVIOUS
<1>2. RegisteredSlots = {}
  BY <1>1 DEF Init, RegisteredSlots
<1>3. Registered = {}
  BY <1>2 DEF Registered
<1>4. Sessions = <<>>
  BY <1>3 DEF Sessions
<1>5. Counts = [t \in TopicNames |-> 0]
  BY <1>1 DEF Init, Counts, CountEntry
<1>6. QED
  BY <1>4, <1>5 DEF Store!Start

-----------------------------------------------------------------------------
(* Steps that change the session of the held client. *)

\* A client that is held by a transaction has a session, that of its position.
LEMMA HeldSession ==
    ASSUME StoreInv, tx, ~notIn, NEW n, n = entry.file_number
    PROVE  /\ n \in RegisteredSlots /\ n \in FileNumbers /\ registry[n] = entry
           /\ entry.client_id \in DOMAIN Sessions
           /\ Sessions[entry.client_id] = SessionAt(n)
<1>1. /\ n \in DOMAIN registry /\ registry[n] = entry /\ entry # NoClient /\ n \in FileNumbers
  BY OpenClient, NoClientNotClient, IInvParts DEF StoreInv
<1>2. n \in RegisteredSlots
  BY <1>1 DEF RegisteredSlots, Occupied
<1>3. QED
  BY <1>1, <1>2, SessionOfClient DEF SessionsMapped

\* A position in CLIENTS is the number of files.
LEMMA RegisteredFile ==
    ASSUME StoreInv, NEW s \in RegisteredSlots
    PROVE  s \in FileNumbers
<1>1. registry \in Seq(Client \cup {NoClient}) /\ Len(registry) <= MaxClients
  BY DEF StoreInv, IInv, TypeOK
<1>2. s \in 1..Len(registry) /\ Len(registry) \in Nat
  BY <1>1, LenProperties DEF RegisteredSlots
<1>3. QED
  BY <1>1, <1>2, BoundAssumption DEF FileNumbers

\* A part of a session changes only with its file.
LEMMA PartsUnchanged ==
    ASSUME NEW n
    PROVE  /\ reg'[n] = reg[n] => TopicsAt(n)' = TopicsAt(n)
           /\ sub'[n] = sub[n] => SubscriptionsAt(n)' = SubscriptionsAt(n)
           /\ pub'[n] = pub[n] => PublishesAt(n)' = PublishesAt(n)
<1>1. reg'[n] = reg[n] => TopicsAt(n)' = TopicsAt(n)
  BY DEF TopicsAt
<1>2. sub'[n] = sub[n] => SubscriptionsAt(n)' = SubscriptionsAt(n)
  BY DEF SubscriptionsAt
<1>3. pub'[n] = pub[n] => PublishesAt(n)' = PublishesAt(n)
  BY DEF PublishesAt, PendingPublishes
<1>4. QED
  BY <1>1, <1>2, <1>3

\* A step that writes one of a client's files changes one part of its session.
LEMMA OnePart ==
    ASSUME NEW n, registry'[n] = registry[n]
    PROVE  /\ UNCHANGED <<sub, wil, pub>> =>
                 SessionAt(n)' = [SessionAt(n) EXCEPT !.topics = TopicsAt(n)']
           /\ UNCHANGED <<reg, wil, pub>> =>
                 SessionAt(n)' = [SessionAt(n) EXCEPT !.subs = SubscriptionsAt(n)']
           /\ UNCHANGED <<reg, sub, pub>> =>
                 SessionAt(n)' = [SessionAt(n) EXCEPT !.will = wil'[n]]
           /\ UNCHANGED <<reg, sub, wil>> =>
                 SessionAt(n)' = [SessionAt(n) EXCEPT !.publishes = PublishesAt(n)']
<1>1. /\ reg' = reg => TopicsAt(n)' = TopicsAt(n)
      /\ sub' = sub => SubscriptionsAt(n)' = SubscriptionsAt(n)
      /\ pub' = pub => PublishesAt(n)' = PublishesAt(n)
  BY PartsUnchanged
<1>2. QED
  BY <1>1 DEF SessionAt

\* If the other registered clients keep their sessions, the step replaces one.
LEMMA HeldUpdate ==
    ASSUME StoreInv, StoreInv', tx, ~notIn, NEW n, n = entry.file_number,
           RegisteredSlots' = RegisteredSlots,
           \A s \in RegisteredSlots : registry'[s].client_id = registry[s].client_id,
           \A s \in RegisteredSlots : s # n => SessionAt(s)' = SessionAt(s)
    PROVE  Sessions' = [Sessions EXCEPT ![entry.client_id] = SessionAt(n)']
<1>1. n \in RegisteredSlots /\ registry[n] = entry
  BY HeldSession
<1>2. SessionsMapped /\ SessionsMapped'
  BY SessionOfClient, SessionOfClientNext
<1>3. Registered' = Registered
  BY DEF Registered
<1>4. \A s \in RegisteredSlots : registry[s].client_id = entry.client_id => s = n
  BY <1>1 DEF StoreInv, IInv, RegistryWellFormed, RegisteredSlots
<1>5. ASSUME NEW id \in Registered
      PROVE  Sessions'[id] = IF id = entry.client_id THEN SessionAt(n)' ELSE Sessions[id]
  <2>1. PICK s \in RegisteredSlots : registry[s].client_id = id
    BY <1>5 DEF Registered
  <2>2. Sessions'[id] = SessionAt(s)' /\ Sessions[id] = SessionAt(s)
    BY <1>2, <2>1 DEF SessionsMapped
  <2>3. id = entry.client_id <=> s = n
    BY <1>1, <1>4, <2>1
  <2>4. QED
    BY <2>1, <2>2, <2>3
<1>6. DOMAIN Sessions' = Registered /\ DOMAIN Sessions = Registered
  BY <1>2, <1>3 DEF SessionsMapped
<1>7. Sessions' = [id \in Registered |-> Sessions'[id]] /\ Sessions = [id \in Registered |-> Sessions[id]]
  BY <1>3 DEF Sessions
<1>8. QED
  BY <1>5, <1>6, <1>7

\* The operations on the files of the held client are such steps.
LEMMA OwnSession ==
    ASSUME StoreInv, StoreInv', tx, ~notIn, NEW n, n = entry.file_number,
           WillStep \/ TopicStep \/ PublishStep
    PROVE  Sessions' = [Sessions EXCEPT ![entry.client_id] = SessionAt(n)'] /\ registry' = registry
<1>1. registry' = registry
  BY DEF WillStep, set_client_willtopic, set_client_willmessage, delete_will, TopicStep,
     add_client_registration, add_client_registration_overlong, is_topic_known_zero,
     add_subscription, delete_subscription, increment_global_subscription_count,
     decrement_global_subscription_count, PublishStep, add_client_publish, set_publish_msg_id,
     remove_publish_by_publish_id, remove_publish_by_msg_id
<1>2. RegisteredSlots' = RegisteredSlots
  BY <1>1 DEF RegisteredSlots, Occupied
<1>3. ASSUME NEW s \in RegisteredSlots, s # n PROVE SessionAt(s)' = SessionAt(s)
  <2>1. s \in FileNumbers
    BY RegisteredFile
  <2>2. FilesAt(s)' = FilesAt(s)
    BY <1>3, <2>1, OwnFilesWritten, IInvParts DEF StoreInv
  <2>3. reg'[s] = reg[s] /\ sub'[s] = sub[s] /\ wil'[s] = wil[s] /\ pub'[s] = pub[s]
    BY <2>2 DEF FilesAt
  <2>4. QED
    BY <1>1, <2>3, PartsUnchanged DEF SessionAt
<1>4. QED
  BY <1>1, <1>2, <1>3, HeldUpdate

\* An operation on the will sets it.
LEMMA WillSimulated ==
    ASSUME StoreInv, StoreInv', WillStep
    PROVE  \E id \in DOMAIN Sessions : Store!SessionStep(id)
<1>1. PICK n : n = entry.file_number
  OBVIOUS
<1>2. tx /\ ~notIn
  BY DEF WillStep, set_client_willtopic, set_client_willmessage, delete_will, Open
<1>3. /\ n \in FileNumbers /\ entry.client_id \in DOMAIN Sessions
      /\ Sessions[entry.client_id] = SessionAt(n)
  BY <1>1, <1>2, HeldSession
<1>4. Sessions' = [Sessions EXCEPT ![entry.client_id] = SessionAt(n)'] /\ registry' = registry
  BY <1>1, <1>2, OwnSession
<1>5. UNCHANGED <<reg, sub, pub>>
  BY DEF WillStep, set_client_willtopic, set_client_willmessage, delete_will
<1>6. SessionAt(n)' = [SessionAt(n) EXCEPT !.will = wil'[n]]
  BY <1>4, <1>5, OnePart
<1>7. wil'[n] \in Will
  <2>1. wil' \in [FileNumbers -> Will]
    BY DEF StoreInv, IInv, TypeOK
  <2>2. QED
    BY <1>3, <2>1
<1>8. Store!SetWill(entry.client_id, wil'[n])
  BY <1>3, <1>4, <1>6 DEF Store!SetWill
<1>9. QED
  BY <1>3, <1>7, <1>8 DEF Store!SessionStep

-----------------------------------------------------------------------------
(* Topics of the held client. *)

\* What the steps below have in common: the session before and after them.
LEMMA HeldStep ==
    ASSUME StoreInv, StoreInv', tx, ~notIn, NEW n, n = entry.file_number,
           WillStep \/ TopicStep \/ PublishStep
    PROVE  /\ n \in FileNumbers /\ entry.client_id \in DOMAIN Sessions
           /\ Sessions[entry.client_id] = SessionAt(n)
           /\ Sessions' = [Sessions EXCEPT ![entry.client_id] = SessionAt(n)']
           /\ registry'[n] = registry[n]
BY HeldSession, OwnSession

\* add_client_registration appends a name to the registered ones.
LEMMA RegistrationSimulated ==
    ASSUME StoreInv, StoreInv', NEW name \in TopicNames \cup EdgeNames,
           add_client_registration(name)
    PROVE  \E id \in DOMAIN Sessions : Store!SessionStep(id)
<1>1. PICK n : n = entry.file_number
  OBVIOUS
<1>2. tx /\ ~notIn /\ TopicStep
  BY DEF add_client_registration, Open, TopicStep
<1>3. /\ n \in FileNumbers /\ entry.client_id \in DOMAIN Sessions
      /\ Sessions[entry.client_id] = SessionAt(n)
      /\ Sessions' = [Sessions EXCEPT ![entry.client_id] = SessionAt(n)']
      /\ registry'[n] = registry[n]
  BY <1>1, <1>2, HeldStep
<1>4. UNCHANGED <<sub, wil, pub>>
  BY DEF add_client_registration
<1> DEFINE f == reg[n]
           new == [topic_id |-> NewTopicId(f), topic_name |-> name]
<1>5. f \in Seq(Registration) /\ DOMAIN f = 1..Len(f) /\ Len(f) \in Nat
  BY <1>3, LenProperties DEF StoreInv, IInv, TypeOK
<1>6. reg'[n] = Append(f, new)
  BY <1>1, <1>3 DEF add_client_registration, StoreInv, IInv, TypeOK
<1>7. new \in Registration /\ new.topic_name = name
  BY <1>1, <1>5, BoundAssumption DEF add_client_registration, NewTopicId, Registration
<1>8. /\ DOMAIN reg'[n] = 1..Len(f) + 1
      /\ \A i \in 1..Len(f) : reg'[n][i] = f[i]
      /\ reg'[n][Len(f) + 1] = new
  <2> HIDE DEF new
  <2>1. QED
    BY <1>5, <1>6, <1>7, AppendProperties, LenProperties
<1>9. TopicsAt(n)' = Append(TopicsAt(n), name)
  <2>1. /\ TopicsAt(n) \in Seq(TopicNames \cup EdgeNames) /\ Len(TopicsAt(n)) = Len(f)
        /\ \A i \in 1..Len(f) : f[i].topic_name \in TopicNames \cup EdgeNames
    <3>1. \A i \in 1..Len(f) : f[i].topic_name \in TopicNames \cup EdgeNames
      <4>1. \A i \in 1..Len(f) : f[i] \in Registration
        BY <1>5, ElementOfSeq
      <4>2. QED
        BY <4>1 DEF Registration
    <3>2. TopicsAt(n) = [i \in 1..Len(f) |-> f[i].topic_name]
      BY <1>5 DEF TopicsAt
    <3>3. QED
      BY <1>5, <3>1, <3>2
  <2>2. /\ DOMAIN Append(TopicsAt(n), name) = 1..Len(f) + 1
        /\ \A i \in 1..Len(f) : Append(TopicsAt(n), name)[i] = TopicsAt(n)[i]
        /\ Append(TopicsAt(n), name)[Len(f) + 1] = name
        /\ Append(TopicsAt(n), name) \in Seq(TopicNames \cup EdgeNames)
    BY <1>5, <2>1, AppendProperties, LenProperties
  <2>3. \A i \in 1..Len(f) : TopicsAt(n)[i] = f[i].topic_name
    BY <1>5 DEF TopicsAt
  <2>4. /\ TopicsAt(n)' \in Seq(TopicNames \cup EdgeNames)
        /\ Len(TopicsAt(n)') = Len(f) + 1
        /\ \A i \in 1..Len(f) : TopicsAt(n)'[i] = f[i].topic_name
        /\ TopicsAt(n)'[Len(f) + 1] = name
    <3> HIDE DEF new
    <3>1. TopicsAt(n)' = [i \in 1..Len(f) + 1 |-> reg'[n][i].topic_name]
      BY <1>8 DEF TopicsAt
    <3>2. \A i \in 1..Len(f) + 1 : reg'[n][i].topic_name \in TopicNames \cup EdgeNames
      BY <1>5, <1>7, <1>8, <2>1
    <3>3. QED
      BY <1>5, <1>7, <1>8, <3>1, <3>2
  <2>5. Len(Append(TopicsAt(n), name)) = Len(f) + 1
    BY <2>1, AppendProperties
  <2>6. \A i \in 1..Len(f) + 1 : TopicsAt(n)'[i] = Append(TopicsAt(n), name)[i]
    BY <1>5, <2>2, <2>3, <2>4
  <2>7. QED
    BY <2>2, <2>4, <2>5, <2>6, SeqEqual
<1>10. name \in EdgeNames \/ \A i \in DOMAIN TopicsAt(n) : TopicsAt(n)[i] # name
  BY <1>1 DEF TopicsAt, add_client_registration
<1>11. SessionAt(n)' = [SessionAt(n) EXCEPT !.topics = Append(TopicsAt(n), name)]
  BY <1>3, <1>4, <1>9, OnePart
<1>12. SessionAt(n).topics = TopicsAt(n)
  BY DEF SessionAt
<1>13. Store!Register(entry.client_id, name)
  BY <1>3, <1>10, <1>11, <1>12 DEF Store!Register
<1>14. QED
  BY <1>3, <1>13 DEF Store!SessionStep

\* File g is file s with e written at an entry i that was free.
StoredAt(s, empty, i, e, g) ==
    /\ DOMAIN g = DOMAIN s \cup {i}
    /\ \A j \in DOMAIN s \cup {i} : g[j] = IF j = i THEN e ELSE s[j]
    /\ i \in DOMAIN s => s[i] = empty

\* Writing to a free entry adds it to the entries in use and takes none away.
LEMMA PutFree ==
    ASSUME NEW S, NEW s \in Seq(S), NEW i \in 1..Len(s)+1, NEW e \in S, NEW empty,
           i \in DOMAIN s => s[i] = empty
    PROVE  StoredAt(s, empty, i, e, Put(s, i, e))
<1>1. i \in 1..Len(s)+1 /\ Len(s) \in Nat /\ DOMAIN s = 1..Len(s)
  BY LenProperties
<1>2. /\ Put(s, i, e) \in Seq(S)
      /\ Len(Put(s, i, e)) = IF i \in 1..Len(s) THEN Len(s) ELSE Len(s) + 1
      /\ Put(s, i, e)[i] = e
      /\ \A j \in 1..Len(s) : j # i => Put(s, i, e)[j] = s[j]
  <2>1. Put(s, i, e) \in Seq(S)
    BY <1>1, PutProperties
  <2>2. Len(Put(s, i, e)) = IF i \in 1..Len(s) THEN Len(s) ELSE Len(s) + 1
    BY <1>1, PutProperties
  <2>3. Put(s, i, e)[i] = e
    BY <1>1, PutProperties
  <2>4. \A j \in 1..Len(s) : j # i => Put(s, i, e)[j] = s[j]
    BY <1>1, PutElsewhere
  <2>5. QED
    BY <2>1, <2>2, <2>3, <2>4
<1>3. DOMAIN Put(s, i, e) = 1..Len(Put(s, i, e))
  BY <1>2, LenProperties
<1>4. DOMAIN Put(s, i, e) = DOMAIN s \cup {i}
  <2>1. CASE i \in 1..Len(s)
    BY <1>1, <1>2, <1>3, <2>1
  <2>2. CASE i = Len(s) + 1
    BY <1>1, <1>2, <1>3, <2>2
  <2>3. QED
    BY <1>1, <2>1, <2>2
<1>5. QED
  BY <1>1, <1>2, <1>4 DEF StoredAt

\* The scan for a place to store an entry finds a free one.
LEMMA PutStored ==
    ASSUME NEW S, NEW s \in Seq(S), NEW i \in Nat, NEW e \in S, NEW empty,
           StorePosition(s, empty, i)
    PROVE  StoredAt(s, empty, i, e, Put(s, i, e))
<1>1. i \in 1..Len(s)+1 /\ Len(s) \in Nat /\ DOMAIN s = 1..Len(s)
  BY StorePositionBound, LenProperties
<1>2. i \in DOMAIN s => s[i] = empty
  BY <1>1 DEF StorePosition
<1>3. QED
  BY <1>1, <1>2, PutFree

\* add_subscription adds one subscription to the client's.
LEMMA SubscribeSimulated ==
    ASSUME StoreInv, StoreInv', NEW name \in TopicNames, NEW id \in TopicIds, NEW q \in QoS,
           add_subscription(name, id, q)
    PROVE  \E c \in DOMAIN Sessions : Store!SessionStep(c)
<1>1. PICK n : n = entry.file_number
  OBVIOUS
<1>2. tx /\ ~notIn /\ TopicStep
  BY DEF add_subscription, Open, TopicStep
<1>3. /\ n \in FileNumbers /\ entry.client_id \in DOMAIN Sessions
      /\ Sessions[entry.client_id] = SessionAt(n)
      /\ Sessions' = [Sessions EXCEPT ![entry.client_id] = SessionAt(n)']
      /\ registry'[n] = registry[n]
  BY <1>1, <1>2, HeldStep
<1>4. UNCHANGED <<reg, wil, pub>>
  BY DEF add_subscription
<1> DEFINE f == sub[n]
           new == [topic_id |-> id, qos |-> q, topic_name |-> name]
<1>5. f \in Seq(Subscription \cup {NoSubscription})
  BY <1>3 DEF StoreInv, IInv, TypeOK
<1>6. PICK i \in 1..MaxEntries : StorePosition(f, NoSubscription, i) /\ sub'[n] = Put(f, i, new)
  BY <1>1, <1>3 DEF add_subscription, StoreInv, IInv, TypeOK
<1>7. new \in Subscription /\ new # NoSubscription /\ new.topic_id = id /\ new.topic_name = name
  BY NumberAssumption DEF Subscription, NoSubscription
<1>8. \A j \in DOMAIN f : ~(f[j].topic_id = id /\ f[j].topic_name = name)
  BY <1>1 DEF add_subscription, IsStored
<1> HIDE DEF new
<1>9. StoredAt(f, NoSubscription, i, new, sub'[n])
  <2> DEFINE T == Subscription \cup {NoSubscription}
  <2>1. f \in Seq(T) /\ new \in T /\ i \in Nat
    BY <1>5, <1>7, BoundAssumption
  <2> HIDE DEF T
  <2>2. QED
    BY <1>6, <2>1, PutStored
<1>10. SubscriptionsAt(n)' = SubscriptionsAt(n) \cup {new}
  BY <1>7, <1>9 DEF SubscriptionsAt, StoredAt
<1>11. \A e \in SubscriptionsAt(n) : e.topic_id # new.topic_id \/ e.topic_name # new.topic_name
  BY <1>7, <1>8 DEF SubscriptionsAt
<1>12. SessionAt(n)' = [SessionAt(n) EXCEPT !.subs = SubscriptionsAt(n) \cup {new}]
  BY <1>3, <1>4, <1>10, OnePart
<1>13. SessionAt(n).subs = SubscriptionsAt(n)
  BY DEF SessionAt
<1>14. Store!Subscribe(entry.client_id, new)
  BY <1>3, <1>11, <1>12, <1>13 DEF Store!Subscribe
<1>15. QED
  BY <1>3, <1>7, <1>14 DEF Store!SessionStep

\* delete_subscription takes one away, or fails and changes nothing; without a client
\* it finds nothing.
LEMMA UnsubscribeSimulated ==
    ASSUME StoreInv, StoreInv', NEW id \in TopicIds, delete_subscription(id),
           ~UNCHANGED <<registry, files>>
    PROVE  \E c \in DOMAIN Sessions : Store!SessionStep(c)
<1>1. PICK n : n = entry.file_number
  OBVIOUS
<1> DEFINE f == sub[n]
<1>2. tx /\ TopicStep /\ UNCHANGED <<registry, reg, wil, pub>>
  BY DEF delete_subscription, TopicStep
<1>3. n \in FileNumbers /\ f \in Seq(Subscription \cup {NoSubscription})
  BY <1>1, FileNumberType, IInvParts DEF StoreInv, RegistryInv, FileTypes
<1>4. PICK i \in DOMAIN f : f[i].topic_id = id /\ sub'[n] = [f EXCEPT ![i] = NoSubscription]
  BY <1>1, <1>2, <1>3 DEF delete_subscription, FirstIn, StoreInv, IInv, TypeOK, files
<1>5. ~notIn
  <2>1. SUFFICES ASSUME notIn PROVE FALSE
    OBVIOUS
  <2>2. entry = NoClient
    BY <1>2, <2>1 DEF StoreInv, IInv, EntryCoherent
  <2>3. n = 0 /\ ~Occupied(0)
    BY <1>1, <2>2, LenProperties DEF NoClient, Occupied, StoreInv, IInv, TypeOK
  <2>4. f = <<>>
    BY <1>3, <2>3 DEF StoreInv, NoInheritance
  <2>5. QED
    BY <1>4, <2>4
<1>6. /\ entry.client_id \in DOMAIN Sessions
      /\ Sessions[entry.client_id] = SessionAt(n)
      /\ Sessions' = [Sessions EXCEPT ![entry.client_id] = SessionAt(n)']
  BY <1>1, <1>2, <1>5, HeldStep
<1>7. f[i] # NoSubscription
  BY <1>4, NumberAssumption DEF NoSubscription
<1>8. \A j \in DOMAIN f : f[j] = f[i] => j = i
  BY <1>3, <1>7 DEF StoreInv, ContentInv, SubscriptionFile
<1>9. /\ DOMAIN sub'[n] = DOMAIN f
      /\ \A j \in DOMAIN f : sub'[n][j] = IF j = i THEN NoSubscription ELSE f[j]
  BY <1>3, <1>4
<1>10. SubscriptionsAt(n)' = SubscriptionsAt(n) \ {f[i]} /\ f[i] \in SubscriptionsAt(n)
  BY <1>7, <1>8, <1>9 DEF SubscriptionsAt
<1>11. SessionAt(n)' = [SessionAt(n) EXCEPT !.subs = SubscriptionsAt(n) \ {f[i]}]
  BY <1>2, <1>10, OnePart
<1>12. SessionAt(n).subs = SubscriptionsAt(n)
  BY DEF SessionAt
<1>13. Store!Unsubscribe(entry.client_id, f[i])
  BY <1>6, <1>10, <1>11, <1>12 DEF Store!Unsubscribe
<1>14. QED
  BY <1>6, <1>10, <1>12, <1>13 DEF Store!SessionStep

-----------------------------------------------------------------------------
(* Publishes of the held client. *)

\* add_client_publish adds a publish under an id that no waiting publish has.
LEMMA EnqueueSimulated ==
    ASSUME StoreInv, StoreInv', NEW m \in Payloads, add_client_publish(m)
    PROVE  \E id \in DOMAIN Sessions : Store!SessionStep(id)
<1>1. PICK n : n = entry.file_number
  OBVIOUS
<1>2. tx /\ ~notIn /\ PublishStep /\ UNCHANGED <<reg, sub, wil>>
  BY DEF add_client_publish, Open, PublishStep
<1>3. /\ n \in FileNumbers /\ entry.client_id \in DOMAIN Sessions
      /\ Sessions[entry.client_id] = SessionAt(n)
      /\ Sessions' = [Sessions EXCEPT ![entry.client_id] = SessionAt(n)']
      /\ registry'[n] = registry[n]
  BY <1>1, <1>2, HeldStep
<1> DEFINE f == pub[n]
           new(i) == [publish_id |-> i, msg_id |-> 0, msg |-> m]
           p == [msg_id |-> 0, msg |-> m]
<1>4. f \in Seq(Publish \cup {NoPublish})
  BY <1>3 DEF StoreInv, IInv, TypeOK
<1>5. PICK i \in 1..MaxEntries : StorePosition(f, NoPublish, i) /\ pub'[n] = Put(f, i, new(i))
  BY <1>1, <1>3 DEF add_client_publish, PublishIdAt, StoreInv, IInv, TypeOK
<1>6. /\ new(i) \in Publish /\ new(i).publish_id # 0
      /\ [msg_id |-> new(i).msg_id, msg |-> new(i).msg] = p
      /\ NoPublish.publish_id = 0
  BY BoundAssumption DEF Publish, NoPublish
<1> HIDE DEF new
<1>7. StoredAt(f, NoPublish, i, new(i), pub'[n])
  <2> DEFINE T == Publish \cup {NoPublish}
  <2>1. f \in Seq(T) /\ new(i) \in T /\ i \in Nat
    BY <1>4, <1>6, BoundAssumption
  <2> HIDE DEF T
  <2>2. QED
    BY <1>5, <2>1, PutStored
<1>8. i \notin PendingPublishes(n) /\ PendingPublishes(n)' = PendingPublishes(n) \cup {i}
  BY <1>6, <1>7 DEF PendingPublishes, StoredAt
<1>9. PublishesAt(n)' = [q \in PendingPublishes(n) \cup {i} |-> IF q = i THEN p ELSE PublishesAt(n)[q]]
  <2>1. \A q \in PendingPublishes(n) \cup {i} :
           [msg_id |-> pub'[n][q].msg_id, msg |-> pub'[n][q].msg] =
              IF q = i THEN p ELSE PublishesAt(n)[q]
    <3> HIDE DEF p
    <3>1. QED
      BY <1>6, <1>7, <1>8 DEF PublishesAt, PendingPublishes, StoredAt
  <2>2. PublishesAt(n)' = [q \in PendingPublishes(n) \cup {i} |->
                             [msg_id |-> pub'[n][q].msg_id, msg |-> pub'[n][q].msg]]
    BY <1>8 DEF PublishesAt
  <2>3. QED
    BY <2>1, <2>2
<1>10. DOMAIN PublishesAt(n) = PendingPublishes(n)
  BY DEF PublishesAt
<1>11. SessionAt(n)' = [SessionAt(n) EXCEPT !.publishes = PublishesAt(n)']
  BY <1>2, <1>3, OnePart
<1>12. SessionAt(n).publishes = PublishesAt(n)
  BY DEF SessionAt
<1>13. Store!Enqueue(entry.client_id, i, p)
  <2> HIDE DEF p
  <2>1. QED
    BY <1>3, <1>8, <1>9, <1>10, <1>11, <1>12 DEF Store!Enqueue
<1>14. p \in [msg_id : MsgIds \cup {0}, msg : Payloads \cup {Damaged}]
  OBVIOUS
<1>15. QED
  BY <1>3, <1>13, <1>14 DEF Store!SessionStep

\* Overwriting a waiting publish without a change of its id alters it.
LEMMA AlterSimulated ==
    ASSUME StoreInv, StoreInv', PublishStep, tx, ~notIn, NEW n, n = entry.file_number,
           UNCHANGED <<reg, sub, wil>>,
           NEW p \in DOMAIN pub[n], NEW e \in Publish, pub[n][p] # NoPublish,
           e.publish_id = pub[n][p].publish_id, pub'[n] = [pub[n] EXCEPT ![p] = e]
    PROVE  \E id \in DOMAIN Sessions : Store!SessionStep(id)
<1>1. /\ n \in FileNumbers /\ entry.client_id \in DOMAIN Sessions
      /\ Sessions[entry.client_id] = SessionAt(n)
      /\ Sessions' = [Sessions EXCEPT ![entry.client_id] = SessionAt(n)']
      /\ registry'[n] = registry[n]
  BY HeldStep
<1> DEFINE f == pub[n]
           m == [msg_id |-> e.msg_id, msg |-> e.msg]
<1>2. /\ f \in Seq(Publish \cup {NoPublish}) /\ DOMAIN f = 1..Len(f)
      /\ Len(f) \in Nat /\ Len(f) <= MaxEntries
  BY <1>1, LenProperties DEF StoreInv, IInv, TypeOK, ContentInv, PublishFile
<1>3. f[p].publish_id = p /\ p \in 1..MaxEntries
  BY <1>1, <1>2, BoundAssumption DEF StoreInv, ContentInv, PublishFile
<1>4. DOMAIN pub'[n] = DOMAIN f /\ \A q \in DOMAIN f : pub'[n][q] = IF q = p THEN e ELSE f[q]
  BY <1>2
<1>5. p \in PendingPublishes(n) /\ PendingPublishes(n)' = PendingPublishes(n)
  BY <1>3, <1>4 DEF PendingPublishes
<1>6. DOMAIN PublishesAt(n) = PendingPublishes(n)
  BY DEF PublishesAt
<1>7. PublishesAt(n)' = [PublishesAt(n) EXCEPT ![p] = m]
  <2>1. \A q \in PendingPublishes(n) :
           [msg_id |-> pub'[n][q].msg_id, msg |-> pub'[n][q].msg] =
              IF q = p THEN m ELSE PublishesAt(n)[q]
    BY <1>4 DEF PublishesAt, PendingPublishes
  <2>2. PublishesAt(n)' = [q \in PendingPublishes(n) |->
                             [msg_id |-> pub'[n][q].msg_id, msg |-> pub'[n][q].msg]]
    BY <1>5 DEF PublishesAt
  <2>3. PublishesAt(n) = [q \in PendingPublishes(n) |-> PublishesAt(n)[q]]
    BY DEF PublishesAt
  <2> HIDE DEF m
  <2>4. QED
    BY <1>6, <2>1, <2>2, <2>3
<1>8. SessionAt(n)' = [SessionAt(n) EXCEPT !.publishes = PublishesAt(n)']
  BY <1>1, OnePart
<1>9. SessionAt(n).publishes = PublishesAt(n)
  BY DEF SessionAt
<1>10. Store!Alter(entry.client_id, p, m)
  <2> HIDE DEF m
  <2>1. QED
    BY <1>1, <1>5, <1>6, <1>7, <1>8, <1>9 DEF Store!Alter
<1>11. m \in [msg_id : MsgIds \cup {0}, msg : Payloads \cup {Damaged}]
  BY DEF Publish
<1>12. QED
  BY <1>1, <1>3, <1>10, <1>11 DEF Store!SessionStep

\* Emptying the entry of a waiting publish takes it away.
LEMMA DequeueSimulated ==
    ASSUME StoreInv, StoreInv', PublishStep, tx, ~notIn, NEW n, n = entry.file_number,
           UNCHANGED <<reg, sub, wil>>,
           NEW p \in DOMAIN pub[n], pub[n][p] # NoPublish,
           pub'[n] = [pub[n] EXCEPT ![p] = NoPublish]
    PROVE  \E id \in DOMAIN Sessions : Store!SessionStep(id)
<1>1. /\ n \in FileNumbers /\ entry.client_id \in DOMAIN Sessions
      /\ Sessions[entry.client_id] = SessionAt(n)
      /\ Sessions' = [Sessions EXCEPT ![entry.client_id] = SessionAt(n)']
      /\ registry'[n] = registry[n]
  BY HeldStep
<1> DEFINE f == pub[n]
<1>2. /\ f \in Seq(Publish \cup {NoPublish}) /\ DOMAIN f = 1..Len(f)
      /\ Len(f) \in Nat /\ Len(f) <= MaxEntries
  BY <1>1, LenProperties DEF StoreInv, IInv, TypeOK, ContentInv, PublishFile
<1>3. f[p].publish_id = p /\ p # 0 /\ p \in 1..MaxEntries
  BY <1>1, <1>2, BoundAssumption DEF StoreInv, ContentInv, PublishFile
<1>4. /\ DOMAIN pub'[n] = DOMAIN f
      /\ \A q \in DOMAIN f : pub'[n][q] = IF q = p THEN NoPublish ELSE f[q]
      /\ NoPublish.publish_id = 0
  BY <1>2 DEF NoPublish
<1>5. p \in PendingPublishes(n) /\ PendingPublishes(n)' = PendingPublishes(n) \ {p}
  BY <1>3, <1>4 DEF PendingPublishes
<1>6. DOMAIN PublishesAt(n) = PendingPublishes(n)
  BY DEF PublishesAt
<1>7. PublishesAt(n)' = [q \in PendingPublishes(n) \ {p} |-> PublishesAt(n)[q]]
  <2>1. \A q \in PendingPublishes(n) \ {p} :
           [msg_id |-> pub'[n][q].msg_id, msg |-> pub'[n][q].msg] = PublishesAt(n)[q]
    BY <1>4 DEF PublishesAt, PendingPublishes
  <2>2. PublishesAt(n)' = [q \in PendingPublishes(n) \ {p} |->
                             [msg_id |-> pub'[n][q].msg_id, msg |-> pub'[n][q].msg]]
    BY <1>5 DEF PublishesAt
  <2>3. QED
    BY <2>1, <2>2
<1>8. SessionAt(n)' = [SessionAt(n) EXCEPT !.publishes = PublishesAt(n)']
  BY <1>1, OnePart
<1>9. SessionAt(n).publishes = PublishesAt(n)
  BY DEF SessionAt
<1>10. Store!Dequeue(entry.client_id, p)
  <2> DEFINE S == Sessions[entry.client_id].publishes
  <2>1. S = PublishesAt(n) /\ DOMAIN S = PendingPublishes(n)
    BY <1>1, <1>6, <1>9
  <2>2. PublishesAt(n)' = [q \in DOMAIN S \ {p} |-> S[q]]
    BY <1>7, <2>1, Zenon
  <2>3. Sessions' = [Sessions EXCEPT ![entry.client_id] =
                       [Sessions[entry.client_id] EXCEPT !.publishes = [q \in DOMAIN S \ {p} |-> S[q]]]]
    BY <1>1, <1>8, <2>2, Zenon
  <2>4. QED
    BY <1>5, <2>1, <2>3, Zenon DEF Store!Dequeue
<1>11. QED
  BY <1>1, <1>3, <1>10 DEF Store!SessionStep

\* Every operation on publishes is one of these steps, or changes nothing.
LEMMA PublishSimulated ==
    ASSUME StoreInv, StoreInv', PublishStep, pub' # pub
    PROVE  \E id \in DOMAIN Sessions : Store!SessionStep(id)
<1>1. PICK n : n = entry.file_number
  OBVIOUS
<1>2. tx /\ ~notIn /\ UNCHANGED <<reg, sub, wil>>
  BY DEF PublishStep, add_client_publish, set_publish_msg_id, remove_publish_by_publish_id,
     remove_publish_by_msg_id, Open
<1> DEFINE f == pub[n]
<1>3. n \in FileNumbers
  BY <1>1, <1>2, HeldSession
<1>4. /\ f \in Seq(Publish \cup {NoPublish}) /\ DOMAIN f = 1..Len(f)
      /\ \A p \in DOMAIN f : f[p] # NoPublish => f[p] \in Publish
  <2>1. f \in Seq(Publish \cup {NoPublish}) /\ DOMAIN f = 1..Len(f)
    BY <1>3, LenProperties DEF StoreInv, IInv, TypeOK
  <2>2. QED
    BY <2>1, ElementOfSeq
<1>5. ASSUME NEW p \in 1..MaxEntries, NEW m \in MsgIds, set_publish_msg_id(p, m)
      PROVE  \E id \in DOMAIN Sessions : Store!SessionStep(id)
  <2> DEFINE e == [f[p] EXCEPT !.msg_id = m]
  <2>1. p \in DOMAIN f /\ f[p].publish_id = p /\ pub'[n] = [f EXCEPT ![p] = e]
    BY <1>1, <1>3, <1>5 DEF set_publish_msg_id, StoreInv, IInv, TypeOK
  <2>2. f[p] # NoPublish
    BY <1>5, <2>1, BoundAssumption DEF NoPublish
  <2>3. e \in Publish /\ e.publish_id = f[p].publish_id
    BY <1>4, <1>5, <2>1, <2>2 DEF Publish
  <2> HIDE DEF e
  <2>4. QED
    BY <1>1, <1>2, <2>1, <2>2, <2>3, AlterSimulated
<1>6. ASSUME NEW m \in MsgIds \cup {0}, remove_publish_by_msg_id(m)
      PROVE  \E id \in DOMAIN Sessions : Store!SessionStep(id)
  <2>1. PICK j \in DOMAIN f, w \in 0..PublishWords-1 : \E e \in ZeroedWord(f[j], w) :
           pub' = [pub EXCEPT ![n] = [f EXCEPT ![j] = e]]
    BY <1>1, <1>6 DEF remove_publish_by_msg_id
  <2>2. PICK e \in ZeroedWord(f[j], w) : pub' = [pub EXCEPT ![n] = [f EXCEPT ![j] = e]]
    BY <2>1
  <2>3. pub \in [FileNumbers -> Seq(Publish \cup {NoPublish})]
    BY DEF StoreInv, IInv, TypeOK
  <2>4. e # f[j] /\ pub'[n] = [f EXCEPT ![j] = e]
    <3>1. e = f[j] => [f EXCEPT ![j] = e] = f
      BY <1>4
    <3>2. QED
      BY <1>3, <2>2, <2>3, <3>1
  <2>5. f[j] \in Publish \cup {NoPublish}
    BY <1>4
  <2>6. \/ e = NoPublish /\ f[j] # NoPublish
        \/ f[j] # NoPublish /\ e \in Publish /\ e.publish_id = f[j].publish_id
    BY <2>4, <2>5, LayoutAssumption, ZeroedWordResult
  <2>7. CASE e = NoPublish /\ f[j] # NoPublish
    BY <1>1, <1>2, <2>4, <2>7, DequeueSimulated
  <2>8. CASE f[j] # NoPublish /\ e \in Publish /\ e.publish_id = f[j].publish_id
    BY <1>1, <1>2, <2>4, <2>8, AlterSimulated
  <2>9. QED
    BY <2>6, <2>7, <2>8
<1>7. ASSUME NEW p \in 1..MaxEntries, remove_publish_by_publish_id(p)
      PROVE  \E id \in DOMAIN Sessions : Store!SessionStep(id)
  <2>1. p \in DOMAIN f /\ f[p].publish_id = p /\ pub'[n] = [f EXCEPT ![p] = NoPublish]
    BY <1>1, <1>3, <1>7 DEF remove_publish_by_publish_id, StoreInv, IInv, TypeOK
  <2>2. f[p] # NoPublish
    BY <1>7, <2>1, BoundAssumption DEF NoPublish
  <2>3. QED
    BY <1>1, <1>2, <2>1, <2>2, DequeueSimulated
<1>8. QED
  BY <1>5, <1>6, <1>7, EnqueueSimulated DEF PublishStep

-----------------------------------------------------------------------------
(* Clients. *)

\* Without a write to the files no session changes.
LEMMA SessionsUnchanged ==
    ASSUME UNCHANGED <<registry, files>>
    PROVE  Sessions' = Sessions
BY DEF files, Sessions, Registered, RegisteredSlots, Occupied, SessionAt, TopicsAt,
       SubscriptionsAt, PublishesAt, PendingPublishes

\* The operations that write the held client's entry update its info.
LEMMA UpdateSimulated ==
    ASSUME StoreInv, StoreInv', tx, ~notIn, NEW n, n = entry.file_number, NEW e \in Client,
           e.client_id = entry.client_id, registry' = [registry EXCEPT ![n] = e], UNCHANGED files
    PROVE  \E id \in DOMAIN Sessions : Store!SessionStep(id)
<1>1. /\ n \in RegisteredSlots /\ registry[n] = entry /\ entry.client_id \in DOMAIN Sessions
      /\ Sessions[entry.client_id] = SessionAt(n)
  BY HeldSession
<1>2. /\ DOMAIN registry' = DOMAIN registry
      /\ \A s \in DOMAIN registry : registry'[s] = IF s = n THEN e ELSE registry[s]
  BY <1>1 DEF StoreInv, IInv, TypeOK
<1>3. RegisteredSlots' = RegisteredSlots
  BY <1>1, <1>2, NoClientNotClient DEF RegisteredSlots, Occupied
<1>4. \A s \in RegisteredSlots : registry'[s].client_id = registry[s].client_id
  BY <1>1, <1>2 DEF RegisteredSlots
<1>5. ASSUME NEW s
      PROVE  /\ TopicsAt(s)' = TopicsAt(s) /\ SubscriptionsAt(s)' = SubscriptionsAt(s)
             /\ PublishesAt(s)' = PublishesAt(s) /\ wil'[s] = wil[s]
  BY PartsUnchanged DEF files
<1>6. \A s \in RegisteredSlots : s # n => SessionAt(s)' = SessionAt(s)
  BY <1>2, <1>5 DEF SessionAt, RegisteredSlots
<1>7. Sessions' = [Sessions EXCEPT ![entry.client_id] = SessionAt(n)']
  BY <1>3, <1>4, <1>6, HeldUpdate
<1>8. SessionAt(n)' = [SessionAt(n) EXCEPT !.info = InfoOf(e)]
  <2>1. registry'[n] = e
    BY <1>1, <1>2 DEF RegisteredSlots
  <2>2. QED
    BY <1>5, <2>1 DEF SessionAt
<1>9. Store!Update(entry.client_id, InfoOf(e))
  BY <1>1, <1>7, <1>8 DEF Store!Update
<1>10. InfoOf(e) \in {InfoOf(c) : c \in Client}
  OBVIOUS
<1>11. QED
  BY <1>1, <1>9, <1>10 DEF Store!SessionStep

\* The files of a free position make an empty session.
LEMMA EmptySession ==
    ASSUME NEW n, EmptyAt(n)
    PROVE  TopicsAt(n) = <<>> /\ SubscriptionsAt(n) = {} /\ PublishesAt(n) = <<>> /\ wil[n] = NoWill
<1>1. DOMAIN reg[n] = {} /\ DOMAIN sub[n] = {} /\ DOMAIN pub[n] = {} /\ wil[n] = NoWill
  BY DEF EmptyAt
<1>2. TopicsAt(n) = <<>>
  BY <1>1 DEF TopicsAt
<1>3. SubscriptionsAt(n) = {}
  BY <1>1 DEF SubscriptionsAt
<1>4. PendingPublishes(n) = {}
  BY <1>1 DEF PendingPublishes
<1>5. PublishesAt(n) = <<>>
  BY <1>4 DEF PublishesAt
<1>6. QED
  BY <1>1, <1>2, <1>3, <1>5

\* add_client gives a client that has no session a new one, and it is empty.
LEMMA ConnectSimulated ==
    ASSUME StoreInv, StoreInv', NEW a \in Addresses, NEW d \in Durations,
           opened # Zero, add_client(opened, a, d), notIn
    PROVE  \E id \in ClientIds, info \in {InfoOf(c) : c \in Client} : Store!Connect(id, info)
<1> DEFINE new(s) == [client_id |-> opened, file_number |-> s,
                      client_address |-> a, client_status |-> "ACTIVE",
                      duration |-> d, timeout |-> 0,
                      await_message |-> "PINGREQ", await_message_id |-> 0]
<1>1. PICK s \in Slots : FreePosition(s) /\ SaveEntry(new(s))
  BY DEF add_client
<1>2. tx /\ UNCHANGED files
  BY DEF add_client
<1>3. opened \in ClientIds /\ registry \in Seq(Client \cup {NoClient})
  BY DEF StoreInv, IInv, TypeOK
<1>4. new(s) \in Client /\ new(s).client_id = opened /\ Position(s) = s /\ new(s).file_number = s
  BY <1>3, BoundAssumption DEF Client, Slots, Position
<1> HIDE DEF new
<1>5. registry' = Put(registry, s, new(s))
  BY <1>1, <1>4 DEF SaveEntry
<1>6. StoredAt(registry, NoClient, s, new(s), registry')
  <2> DEFINE T == Client \cup {NoClient}
  <2>1. registry \in Seq(T) /\ new(s) \in T
    BY <1>3, <1>4
  <2>2. s \in 1..Len(registry)+1 /\ (s \in DOMAIN registry => registry[s] = NoClient)
    BY <1>1, <1>3, LenProperties, BoundAssumption DEF FreePosition, FirstIn, Slots
  <2> HIDE DEF T
  <2>3. QED
    BY <1>5, <2>1, <2>2, PutFree
<1>7. new(s) # NoClient
  BY <1>4, NoClientNotClient
<1>8. s \notin RegisteredSlots /\ RegisteredSlots' = RegisteredSlots \cup {s}
  BY <1>6, <1>7 DEF StoredAt, RegisteredSlots, Occupied
<1>9. registry'[s] = new(s) /\ \A t \in RegisteredSlots : registry'[t] = registry[t]
  BY <1>6, <1>8 DEF StoredAt, RegisteredSlots
<1>10. \A t \in RegisteredSlots : registry[t].client_id # opened
  BY <1>2 DEF RegisteredSlots, StoreInv, IInv, OpenedForItsClient
<1>11. opened \notin Registered /\ Registered' = Registered \cup {opened}
  BY <1>4, <1>8, <1>9, <1>10 DEF Registered
<1>12. ASSUME NEW t
       PROVE  /\ TopicsAt(t)' = TopicsAt(t) /\ SubscriptionsAt(t)' = SubscriptionsAt(t)
              /\ PublishesAt(t)' = PublishesAt(t) /\ wil'[t] = wil[t]
  BY <1>2, PartsUnchanged DEF files
<1>13. \A t \in RegisteredSlots : SessionAt(t)' = SessionAt(t)
  BY <1>9, <1>12 DEF SessionAt
<1>14. SessionAt(s)' = Store!NewSession(InfoOf(new(s)))
  <2>1. ~Occupied(s) /\ s \in FileNumbers
    BY <1>6, BoundAssumption DEF StoredAt, Occupied, Slots, FileNumbers
  <2>2. EmptyAt(s)
    BY <2>1 DEF EmptyAt, StoreInv, NoInheritance
  <2>3. TopicsAt(s) = <<>> /\ SubscriptionsAt(s) = {} /\ PublishesAt(s) = <<>> /\ wil[s] = NoWill
    BY <2>2, EmptySession
  <2>4. QED
    BY <1>9, <1>12, <2>3 DEF SessionAt, Store!NewSession
<1>15. SessionsMapped /\ SessionsMapped'
  BY SessionOfClient, SessionOfClientNext
<1>16. \A c \in Registered \cup {opened} :
          Sessions'[c] = IF c = opened THEN Store!NewSession(InfoOf(new(s))) ELSE Sessions[c]
  <2>1. Sessions'[opened] = SessionAt(s)'
    BY <1>4, <1>8, <1>9, <1>15 DEF SessionsMapped
  <2>2. ASSUME NEW c \in Registered PROVE Sessions'[c] = Sessions[c]
    <3>1. PICK t \in RegisteredSlots : registry[t].client_id = c
      BY <2>2 DEF Registered
    <3>2. Sessions[c] = SessionAt(t) /\ Sessions'[c] = SessionAt(t)'
      BY <1>8, <1>9, <1>15, <3>1 DEF SessionsMapped
    <3>3. QED
      BY <1>13, <3>2
  <2>3. QED
    BY <1>11, <1>14, <2>1, <2>2
<1>17. Sessions' = [c \in Registered \cup {opened} |-> Sessions'[c]]
  BY <1>11 DEF Sessions
<1>18. DOMAIN Sessions = Registered
  BY <1>15 DEF SessionsMapped
<1>19. Store!Connect(opened, InfoOf(new(s)))
  BY <1>11, <1>16, <1>17, <1>18 DEF Store!Connect
<1>20. InfoOf(new(s)) \in {InfoOf(c) : c \in Client}
  BY <1>4
<1>21. QED
  BY <1>3, <1>19, <1>20

\* A client whose entries all have topic id 0 has no subscriptions.
LEMMA NoSubscriptions ==
    ASSUME StoreInv, NEW n \in FileNumbers, ~HasSubscriptions(n)
    PROVE  SubscriptionsAt(n) = {}
<1>1. sub[n] \in Seq(Subscription \cup {NoSubscription}) /\ DOMAIN sub[n] = 1..Len(sub[n])
  BY LenProperties DEF StoreInv, IInv, TypeOK
<1>2. \A i \in DOMAIN sub[n] : sub[n][i] \in Subscription \cup {NoSubscription}
  BY <1>1, ElementOfSeq
<1>3. \A i \in DOMAIN sub[n] : sub[n][i] = NoSubscription
  BY <1>2, NumberAssumption DEF HasSubscriptions, Subscription
<1>4. QED
  BY <1>3 DEF SubscriptionsAt

\* Removing the files of one client leaves those of the others.
LEMMA OthersKept ==
    ASSUME StoreInv, NEW n \in FileNumbers, NEW k, RemoveFiles(n, k),
           NEW s \in FileNumbers, s # n, registry'[s] = registry[s]
    PROVE  SessionAt(s)' = SessionAt(s)
<1>1. reg'[s] = reg[s] /\ sub'[s] = sub[s] /\ wil'[s] = wil[s] /\ pub'[s] = pub[s]
  BY DEF RemoveFiles, StoreInv, IInv, TypeOK
<1>2. QED
  BY <1>1, PartsUnchanged DEF SessionAt

\* delete_client ends the session of the held client, which has no subscriptions.
LEMMA ForgetSimulated ==
    ASSUME StoreInv, StoreInv', delete_client(entry.client_id),
           ~HasSubscriptions(entry.file_number)
    PROVE  \E id \in DOMAIN Sessions : Store!SessionStep(id)
<1>1. PICK n : n = entry.file_number
  OBVIOUS
<1>2. tx /\ ~notIn /\ RemoveFiles(n, 4)
  BY <1>1 DEF delete_client, Open
<1>3. /\ n \in RegisteredSlots /\ n \in FileNumbers /\ registry[n] = entry
      /\ entry.client_id \in DOMAIN Sessions
      /\ Sessions[entry.client_id] = SessionAt(n)
  BY <1>1, <1>2, HeldSession
<1>4. registry' = [registry EXCEPT ![n] = NoClient]
  <2>1. PICK s \in DOMAIN registry : /\ FirstIn(registry, WithId(entry.client_id), s)
                                     /\ registry' = [registry EXCEPT ![s] = NoClient]
    BY DEF delete_client
  <2>2. s = n
    BY <1>1, <1>2, <2>1, HeldPosition, IInvParts DEF StoreInv
  <2>3. QED
    BY <2>1, <2>2
<1>5. /\ DOMAIN registry' = DOMAIN registry
      /\ \A s \in DOMAIN registry : registry'[s] = IF s = n THEN NoClient ELSE registry[s]
  BY <1>4 DEF StoreInv, IInv, TypeOK
<1>6. RegisteredSlots' = RegisteredSlots \ {n}
  BY <1>3, <1>5 DEF RegisteredSlots, Occupied
<1>7. \A s \in RegisteredSlots : s # n => registry'[s] = registry[s]
  BY <1>5 DEF RegisteredSlots
<1>8. \A s \in RegisteredSlots : registry[s].client_id = entry.client_id => s = n
  BY <1>3 DEF StoreInv, IInv, RegistryWellFormed, RegisteredSlots
<1>9. Registered' = Registered \ {entry.client_id}
  BY <1>3, <1>6, <1>7, <1>8 DEF Registered
<1>10. ASSUME NEW s \in RegisteredSlots, s # n PROVE SessionAt(s)' = SessionAt(s)
  BY <1>2, <1>3, <1>7, <1>10, RegisteredFile, OthersKept
<1>11. SessionsMapped /\ SessionsMapped'
  BY SessionOfClient, SessionOfClientNext
<1>12. ASSUME NEW c \in Registered \ {entry.client_id} PROVE Sessions'[c] = Sessions[c]
  <2>1. PICK s \in RegisteredSlots : registry[s].client_id = c /\ s # n
    BY <1>3, <1>12 DEF Registered
  <2>2. Sessions[c] = SessionAt(s) /\ Sessions'[c] = SessionAt(s)'
    BY <1>6, <1>7, <1>11, <2>1 DEF SessionsMapped
  <2>3. QED
    BY <1>10, <2>1, <2>2
<1>13. DOMAIN Sessions = Registered
  BY <1>11 DEF SessionsMapped
<1>14. Sessions' = [c \in Registered \ {entry.client_id} |-> Sessions'[c]]
  BY <1>9 DEF Sessions
<1>15. Sessions' = [c \in DOMAIN Sessions \ {entry.client_id} |-> Sessions[c]]
  BY <1>12, <1>13, <1>14
<1>16. Sessions[entry.client_id].subs = {}
  BY <1>1, <1>3, NoSubscriptions DEF SessionAt
<1>17. Store!Forget(entry.client_id)
  BY <1>15, <1>16 DEF Store!Forget
<1>18. QED
  BY <1>3, <1>17 DEF Store!SessionStep

\* A crash inside delete_client leaves one of the sessions Crash allows.
LEMMA CrashSimulated ==
    ASSUME StoreInv, StoreInv', NEW k \in 0..4, delete_client_crash(k)
    PROVE  \E id \in DOMAIN Sessions :
             LET s == Sessions[id] IN
             /\ s.subs = {}
             /\ \E t \in {s, [s EXCEPT !.topics = <<>>],
                          [s EXCEPT !.topics = <<>>, !.will = NoWill],
                          Store!NewSession(s.info)} :
                   Sessions' = [Sessions EXCEPT ![id] = t]
<1>1. PICK n : n = entry.file_number
  OBVIOUS
<1>2. tx /\ ~notIn /\ RemoveFiles(n, k) /\ ~HasSubscriptions(n) /\ UNCHANGED registry
  BY <1>1 DEF delete_client_crash, Open
<1>3. /\ n \in RegisteredSlots /\ n \in FileNumbers
      /\ entry.client_id \in DOMAIN Sessions
      /\ Sessions[entry.client_id] = SessionAt(n)
  BY <1>1, <1>2, HeldSession
<1>4. RegisteredSlots' = RegisteredSlots
  BY <1>2 DEF RegisteredSlots, Occupied
<1>5. ASSUME NEW s \in RegisteredSlots, s # n PROVE SessionAt(s)' = SessionAt(s)
  BY <1>2, <1>3, <1>5, RegisteredFile, OthersKept
<1>6. Sessions' = [Sessions EXCEPT ![entry.client_id] = SessionAt(n)']
  BY <1>1, <1>2, <1>4, <1>5, HeldUpdate
<1>7. SubscriptionsAt(n) = {}
  BY <1>2, <1>3, NoSubscriptions
<1>8. /\ reg'[n] = IF k >= 1 THEN <<>> ELSE reg[n]
      /\ sub'[n] = IF k >= 2 THEN <<>> ELSE sub[n]
      /\ wil'[n] = IF k >= 3 THEN NoWill ELSE wil[n]
      /\ pub'[n] = IF k >= 4 THEN <<>> ELSE pub[n]
  BY <1>2, <1>3 DEF RemoveFiles, StoreInv, IInv, TypeOK
<1>9. TopicsAt(n)' = IF k >= 1 THEN <<>> ELSE TopicsAt(n)
  <2>1. CASE reg'[n] = <<>> /\ k >= 1
    BY <2>1 DEF TopicsAt
  <2>2. QED
    BY <1>8, <2>1, PartsUnchanged
<1>10. SubscriptionsAt(n)' = {}
  <2>1. CASE sub'[n] = <<>>
    BY <2>1 DEF SubscriptionsAt
  <2>2. QED
    BY <1>7, <1>8, <2>1, PartsUnchanged
<1>11. PublishesAt(n)' = IF k >= 4 THEN <<>> ELSE PublishesAt(n)
  <2>1. CASE pub'[n] = <<>> /\ k >= 4
    <3>1. PendingPublishes(n)' = {}
      BY <2>1 DEF PendingPublishes
    <3>2. QED
      BY <2>1, <3>1 DEF PublishesAt
  <2>2. QED
    BY <1>8, <2>1, PartsUnchanged
<1> DEFINE s == SessionAt(n)
<1>12. SessionAt(n)' \in {s, [s EXCEPT !.topics = <<>>],
                          [s EXCEPT !.topics = <<>>, !.will = NoWill], Store!NewSession(s.info)}
  <2>1. SessionAt(n)' = [info |-> InfoOf(registry[n]), topics |-> TopicsAt(n)', subs |-> SubscriptionsAt(n),
                         will |-> wil'[n], publishes |-> PublishesAt(n)']
    BY <1>2, <1>7, <1>10 DEF SessionAt
  <2>2. s = [info |-> InfoOf(registry[n]), topics |-> TopicsAt(n), subs |-> SubscriptionsAt(n),
             will |-> wil[n], publishes |-> PublishesAt(n)]
    BY DEF SessionAt
  <2> HIDE DEF s
  <2>3. CASE k = 0
    <3>1. SessionAt(n)' = s
      BY <1>8, <1>9, <1>11, <2>1, <2>2, <2>3
    <3>2. QED
      BY <3>1
  <2>4. CASE k \in 1..2
    <3>1. TopicsAt(n)' = <<>>
      BY <1>9, <2>4
    <3>2. wil'[n] = wil[n] /\ PublishesAt(n)' = PublishesAt(n)
      BY <1>8, <1>11, <2>4
    <3>3. SessionAt(n)' = [s EXCEPT !.topics = TopicsAt(n)']
      BY <2>1, <2>2, <3>2
    <3>4. QED
      BY <3>1, <3>3
  <2>5. CASE k = 3
    <3>1. TopicsAt(n)' = <<>>
      BY <1>9, <2>5
    <3>2. wil'[n] = NoWill
      BY <1>8, <2>5
    <3>3. PublishesAt(n)' = PublishesAt(n)
      BY <1>11, <2>5
    <3> DEFINE t == [s EXCEPT !.topics = TopicsAt(n)']
    <3>4. t = [info |-> InfoOf(registry[n]), topics |-> TopicsAt(n)', subs |-> SubscriptionsAt(n),
               will |-> wil[n], publishes |-> PublishesAt(n)]
      BY <2>2
    <3>5. [s EXCEPT !.topics = TopicsAt(n)', !.will = wil'[n]] = [t EXCEPT !.will = wil'[n]]
      OBVIOUS
    <3> HIDE DEF t
    <3>6. SessionAt(n)' = [t EXCEPT !.will = wil'[n]]
      BY <2>1, <3>3, <3>4
    <3>7. QED
      BY <3>1, <3>2, <3>5, <3>6
  <2>6. CASE k = 4
    <3>1. SessionAt(n)' = Store!NewSession(s.info)
      BY <1>7, <1>8, <1>9, <1>11, <2>1, <2>2, <2>6 DEF Store!NewSession
    <3>2. QED
      BY <3>1
  <2>7. QED
    BY <2>3, <2>4, <2>5, <2>6
<1>13. s.subs = {}
  BY <1>7 DEF SessionAt
<1> HIDE DEF s
<1>14. QED
  BY <1>3, <1>6, <1>12, <1>13 DEF s

-----------------------------------------------------------------------------
(* The counts of MQTT.SUB. *)

\* The count of a topic is in the one entry that names it.
CountsMapped ==
    \A t \in TopicNames :
        /\ \A i \in DOMAIN global : global[i].topic_name = t =>
              Counts[t] = global[i].client_subscription_count
        /\ (\A i \in DOMAIN global : global[i].topic_name # t) => Counts[t] = 0

\* An entry that names a topic counts somebody, and is the only one to name it.
LEMMA CountEntries ==
    ASSUME StoreInv
    PROVE  /\ global \in Seq(TopicCount \cup {NoTopicCount}) /\ DOMAIN global = 1..Len(global)
           /\ \A i \in DOMAIN global : global[i].topic_name \in TopicNames =>
                 global[i] \in TopicCount /\ global[i] # NoTopicCount
           /\ \A i, j \in DOMAIN global :
                 /\ global[i].topic_name \in TopicNames
                 /\ global[i].topic_name = global[j].topic_name
                 => i = j
<1>1. global \in Seq(TopicCount \cup {NoTopicCount}) /\ DOMAIN global = 1..Len(global)
  BY LenProperties DEF StoreInv, IInv, TypeOK
<1>2. NoTopicCount.topic_name \notin TopicNames
  BY ZeroAssumption DEF NoTopicCount
<1>3. \A i \in DOMAIN global : global[i].topic_name \in TopicNames =>
         global[i] \in TopicCount /\ global[i] # NoTopicCount
  BY <1>1, <1>2, ElementOfSeq
<1>4. QED
  BY <1>1, <1>3 DEF StoreInv, ContentInv, CountFile

\* The mapping finds that entry.
LEMMA CountOfTopic == StoreInv => CountsMapped
<1>1. SUFFICES ASSUME StoreInv, NEW t \in TopicNames
               PROVE  /\ \A i \in DOMAIN global : global[i].topic_name = t =>
                            Counts[t] = global[i].client_subscription_count
                      /\ (\A i \in DOMAIN global : global[i].topic_name # t) => Counts[t] = 0
  BY DEF CountsMapped
<1>2. ASSUME NEW i \in DOMAIN global, global[i].topic_name = t
      PROVE  Counts[t] = global[i].client_subscription_count
  <2>1. global[i] \in TopicCount /\ \A j \in DOMAIN global : global[j].topic_name = t => j = i
    BY <1>1, <1>2, CountEntries
  <2>2. global[i].client_subscription_count # 0
    BY <2>1, BoundAssumption DEF TopicCount
  <2>3. CountEntry(t) = {global[i]}
    BY <1>2, <2>1, <2>2 DEF CountEntry
  <2>4. (CHOOSE e \in CountEntry(t) : TRUE) = global[i]
    BY <2>3
  <2>5. CountEntry(t) # {}
    BY <2>3
  <2>6. QED
    BY <2>4, <2>5 DEF Counts
<1>3. ASSUME \A i \in DOMAIN global : global[i].topic_name # t PROVE Counts[t] = 0
  <2>1. CountEntry(t) = {}
    BY <1>3 DEF CountEntry
  <2>2. QED
    BY <2>1 DEF Counts
<1>4. QED
  BY <1>2, <1>3

\* The same after a step.
LEMMA CountOfTopicNext == StoreInv' => CountsMapped'
BY CountOfTopic, PTL

\* Counts is a function of the topics.
LEMMA CountsFunction ==
    /\ Counts = [t \in TopicNames |-> Counts[t]]
    /\ Counts' = [t \in TopicNames |-> Counts'[t]]
BY DEF Counts

\* If the entries of all other topics stay, only the count of one topic changes.
LEMMA OneCount ==
    ASSUME StoreInv, StoreInv', NEW name \in TopicNames,
           \A i \in DOMAIN global : global[i].topic_name \in TopicNames \ {name} =>
              i \in DOMAIN global' /\ global'[i] = global[i],
           \A i \in DOMAIN global' : global'[i].topic_name \in TopicNames \ {name} =>
              i \in DOMAIN global /\ global'[i] = global[i]
    PROVE  Counts' = [Counts EXCEPT ![name] = Counts'[name]]
<1>1. CountsMapped /\ CountsMapped'
  BY CountOfTopic, CountOfTopicNext
<1>2. ASSUME NEW t \in TopicNames \ {name} PROVE Counts'[t] = Counts[t]
  <2>1. CASE \E i \in DOMAIN global : global[i].topic_name = t
    <3>1. PICK i \in DOMAIN global : global[i].topic_name = t
      BY <2>1
    <3>2. i \in DOMAIN global' /\ global'[i] = global[i]
      BY <1>2, <3>1
    <3>3. QED
      BY <1>1, <1>2, <3>1, <3>2 DEF CountsMapped
  <2>2. CASE \A i \in DOMAIN global : global[i].topic_name # t
    <3>1. \A i \in DOMAIN global' : global'[i].topic_name # t
      BY <1>2, <2>2
    <3>2. QED
      BY <1>1, <1>2, <2>2, <3>1 DEF CountsMapped
  <2>3. QED
    BY <2>1, <2>2
<1>3. QED
  BY <1>2, CountsFunction

\* increment_global_subscription_count adds one to the count of a topic.
LEMMA IncrementSimulated ==
    ASSUME StoreInv, StoreInv', NEW name \in TopicNames, increment_global_subscription_count(name)
    PROVE  Store!Count(name)
<1>1. /\ global \in Seq(TopicCount \cup {NoTopicCount}) /\ DOMAIN global = 1..Len(global)
      /\ \A i \in DOMAIN global : global[i].topic_name \in TopicNames =>
            global[i] \in TopicCount /\ global[i] # NoTopicCount
  BY CountEntries
<1>2. CountsMapped /\ CountsMapped'
  BY CountOfTopic, CountOfTopicNext
<1>3. NoTopicCount.topic_name = Zero /\ Zero \notin TopicNames
  BY ZeroAssumption DEF NoTopicCount
<1>4. ASSUME NEW i \in DOMAIN global, FirstIn(global, CountEntry(name), i),
             global[i].client_subscription_count < MaxCount,
             global' = [global EXCEPT ![i].client_subscription_count = @ + 1]
      PROVE  Store!Count(name)
  <2>1. global[i].topic_name = name /\ global[i] \in TopicCount
    BY <1>1, <1>4 DEF FirstIn, CountEntry
  <2> DEFINE e == [global[i] EXCEPT !.client_subscription_count = @ + 1]
  <2>2. /\ e.topic_name = name
        /\ e.client_subscription_count = global[i].client_subscription_count + 1
    BY <2>1 DEF TopicCount
  <2>3. /\ DOMAIN global' = DOMAIN global
        /\ \A j \in DOMAIN global : global'[j] = IF j = i THEN e ELSE global[j]
    BY <1>1, <1>4
  <2> HIDE DEF e
  <2>4. Counts' = [Counts EXCEPT ![name] = Counts'[name]]
    BY <2>1, <2>2, <2>3, OneCount
  <2>5. Counts[name] = global[i].client_subscription_count
    BY <1>2, <2>1 DEF CountsMapped
  <2>6. Counts'[name] = global[i].client_subscription_count + 1
    BY <1>2, <2>2, <2>3 DEF CountsMapped
  <2>7. QED
    BY <1>4, <2>4, <2>5, <2>6 DEF Store!Count
<1>5. ASSUME CountEntry(name) = {}, NEW i \in 1..MaxEntries,
             StorePosition(global, NoTopicCount, i),
             global' = Put(global, i, [client_subscription_count |-> 1, topic_name |-> name])
      PROVE  Store!Count(name)
  <2> DEFINE new == [client_subscription_count |-> 1, topic_name |-> name]
             T == TopicCount \cup {NoTopicCount}
  <2>1. new \in T /\ new.topic_name = name /\ new.client_subscription_count = 1 /\ i \in Nat
    BY BoundAssumption DEF TopicCount
  <2>2. global \in Seq(T)
    BY <1>1
  <2>3. global' = Put(global, i, new)
    BY <1>5
  <2> HIDE DEF new, T
  <2>4. StoredAt(global, NoTopicCount, i, new, global')
    BY <1>5, <2>1, <2>2, <2>3, PutStored
  <2>5. \A j \in DOMAIN global : global[j].topic_name # name
    <3>1. \A j \in DOMAIN global : global[j].topic_name = name =>
             global[j].client_subscription_count # 0
      BY <1>1, BoundAssumption DEF TopicCount
    <3>2. QED
      BY <1>5, <3>1 DEF CountEntry
  <2>6. Counts' = [Counts EXCEPT ![name] = Counts'[name]]
    BY <1>3, <2>1, <2>4, OneCount DEF StoredAt
  <2>7. Counts[name] = 0
    BY <1>2, <2>5 DEF CountsMapped
  <2>8. Counts'[name] = 1
    BY <1>2, <2>1, <2>4 DEF CountsMapped, StoredAt
  <2>9. QED
    BY <2>6, <2>7, <2>8, BoundAssumption DEF Store!Count
<1>6. QED
  BY <1>4, <1>5 DEF increment_global_subscription_count

\* decrement_global_subscription_count takes one away.
LEMMA DecrementSimulated ==
    ASSUME StoreInv, StoreInv', NEW name \in TopicNames, decrement_global_subscription_count(name)
    PROVE  Store!Count(name)
<1>1. /\ global \in Seq(TopicCount \cup {NoTopicCount}) /\ DOMAIN global = 1..Len(global)
      /\ \A i \in DOMAIN global : global[i].topic_name \in TopicNames =>
            global[i] \in TopicCount /\ global[i] # NoTopicCount
      /\ \A i, j \in DOMAIN global :
            /\ global[i].topic_name \in TopicNames
            /\ global[i].topic_name = global[j].topic_name
            => i = j
  BY CountEntries
<1>2. CountsMapped /\ CountsMapped'
  BY CountOfTopic, CountOfTopicNext
<1>3. NoTopicCount.topic_name = Zero /\ Zero \notin TopicNames
  BY ZeroAssumption DEF NoTopicCount
<1>4. PICK i \in DOMAIN global : /\ FirstIn(global, CountEntry(name), i)
                                 /\ global' = [global EXCEPT ![i] = OneLess(global[i])]
  BY DEF decrement_global_subscription_count
<1>5. global[i].topic_name = name /\ global[i] \in TopicCount
  BY <1>1, <1>4 DEF FirstIn, CountEntry
<1>6. /\ DOMAIN global' = DOMAIN global
      /\ \A j \in DOMAIN global : global'[j] = IF j = i THEN OneLess(global[i]) ELSE global[j]
  BY <1>1, <1>4
<1>7. global[i].client_subscription_count \in 1..MaxCount
  BY <1>5 DEF TopicCount
<1>8. Counts[name] = global[i].client_subscription_count
  BY <1>2, <1>5 DEF CountsMapped
<1>9. CASE global[i].client_subscription_count = 1
  <2>1. OneLess(global[i]) = NoTopicCount
    BY <1>9 DEF OneLess
  <2>2. Counts' = [Counts EXCEPT ![name] = Counts'[name]]
    BY <1>3, <1>5, <1>6, <2>1, OneCount
  <2>3. \A j \in DOMAIN global' : global'[j].topic_name # name
    BY <1>1, <1>3, <1>5, <1>6, <2>1
  <2>4. Counts'[name] = 0
    BY <1>2, <2>3 DEF CountsMapped
  <2>5. QED
    BY <1>8, <1>9, <2>2, <2>4 DEF Store!Count
<1>10. CASE global[i].client_subscription_count # 1
  <2>1. /\ OneLess(global[i]).topic_name = name
        /\ OneLess(global[i]).client_subscription_count = global[i].client_subscription_count - 1
    BY <1>5, <1>10 DEF OneLess, TopicCount
  <2>2. Counts' = [Counts EXCEPT ![name] = Counts'[name]]
    BY <1>5, <1>6, <2>1, OneCount
  <2>3. Counts'[name] = global[i].client_subscription_count - 1
    BY <1>2, <1>6, <2>1 DEF CountsMapped
  <2>4. QED
    BY <1>7, <1>8, <2>2, <2>3, BoundAssumption DEF Store!Count
<1>11. QED
  BY <1>9, <1>10

-----------------------------------------------------------------------------
(* The refinement. *)

\* Counts only change with MQTT.SUB, and removing it leaves none.
LEMMA CountsKept ==
    /\ UNCHANGED global => Counts' = Counts
    /\ global' = <<>> => Counts' = [t \in TopicNames |-> 0]
<1>1. UNCHANGED global => Counts' = Counts
  BY DEF Counts, CountEntry
<1>2. ASSUME global' = <<>> PROVE Counts' = [t \in TopicNames |-> 0]
  <2>1. \A t : CountEntry(t)' = {}
    BY <1>2 DEF CountEntry
  <2>2. QED
    BY <2>1 DEF Counts
<1>3. QED
  BY <1>1, <1>2

\* A transaction is not seen in the store; a restart is a crash.
LEMMA TransactionStepStore ==
    ASSUME StoreInv, StoreInv', TransactionStep
    PROVE  [Store!StoreNext]_(Store!storeVars)
<1>1. UNCHANGED <<registry, files>>
  BY DEF TransactionStep, start_client_transaction, start_client_transaction_address,
     start_client_transaction_overlong, apply_transaction, Restart
<1>2. Sessions' = Sessions
  BY <1>1, SessionsUnchanged
<1>3. CASE Restart
  <2>1. Counts' = [t \in TopicNames |-> 0]
    BY <1>3, CountsKept DEF Restart, begin
  <2>2. Store!Crash
    BY <1>2, <2>1 DEF Store!Crash
  <2>3. QED
    BY <2>2 DEF Store!StoreNext
<1>4. CASE UNCHANGED global
  BY <1>2, <1>4, CountsKept DEF Store!storeVars
<1>5. QED
  BY <1>3, <1>4 DEF TransactionStep, start_client_transaction, start_client_transaction_address,
     start_client_transaction_overlong, apply_transaction

\* The four operations that write the copy in memory with a field changed.
LEMMA SetSimulated ==
    ASSUME StoreInv, StoreInv', Open, NEW e \in Client, SaveEntry(e),
           e.client_id = entry.client_id, e.file_number = entry.file_number, UNCHANGED files
    PROVE  \E id \in DOMAIN Sessions : Store!SessionStep(id)
<1>1. PICK n : n = entry.file_number
  OBVIOUS
<1>2. /\ n \in 1..Len(registry) /\ Position(n) = n /\ tx /\ ~notIn
  BY <1>1, OpenClient, LenProperties, IInvParts DEF Open, StoreInv, RegistryInv, RegistryTypes
<1>3. registry' = [registry EXCEPT ![n] = e]
  BY <1>1, <1>2 DEF SaveEntry, Put
<1>4. QED
  BY <1>1, <1>2, <1>3, UpdateSimulated

\* reset_client writes back the entry it finds, which is the held client's.
LEMMA ResetSimulated ==
    ASSUME StoreInv, StoreInv', NEW id \in ClientIds, NEW a \in Addresses, NEW d \in Durations,
           reset_client(id, a, d), entry.client_id = id
    PROVE  \E c \in DOMAIN Sessions : Store!SessionStep(c)
<1>1. PICK n : n = entry.file_number
  OBVIOUS
<1>2. tx /\ ~notIn /\ UNCHANGED files
  BY DEF reset_client, Open
<1> DEFINE e == [entry EXCEPT !.client_address = a, !.client_status = "ACTIVE",
                              !.duration = d, !.timeout = 0,
                              !.await_message = "PINGREQ", !.await_message_id = 0]
<1>3. entry \in Client /\ registry[n] = entry
  BY <1>1, <1>2, OpenClient, IInvParts DEF StoreInv
<1>4. registry' = [registry EXCEPT ![n] = e]
  <2>1. PICK s \in DOMAIN registry :
           /\ FirstIn(registry, WithId(id), s)
           /\ entry' = [registry[s] EXCEPT !.client_address = a, !.client_status = "ACTIVE",
                                           !.duration = d, !.timeout = 0,
                                           !.await_message = "PINGREQ", !.await_message_id = 0]
           /\ registry' = [registry EXCEPT ![s] = entry']
    BY DEF reset_client
  <2>2. s = n
    BY <1>1, <1>2, <2>1, HeldPosition, IInvParts DEF StoreInv
  <2>3. QED
    BY <1>3, <2>1, <2>2
<1>5. e \in Client /\ e.client_id = entry.client_id
  BY <1>3 DEF Client
<1> HIDE DEF e
<1>6. QED
  BY <1>1, <1>2, <1>4, <1>5, UpdateSimulated

\* The operations on clients are steps of the store.
LEMMA ClientStepStore ==
    ASSUME StoreInv, StoreInv', ClientStep
    PROVE  [Store!StoreNext]_(Store!storeVars)
<1>1. CASE UNCHANGED <<registry, files, global>>
  BY <1>1, SessionsUnchanged, CountsKept DEF Store!storeVars
<1>2. ASSUME \E id \in DOMAIN Sessions : Store!SessionStep(id), UNCHANGED global
      PROVE  Store!StoreNext
  BY <1>2, CountsKept DEF Store!StoreNext
<1>3. ASSUME NEW a \in Addresses, NEW d \in Durations, opened # Zero, add_client(opened, a, d), notIn
      PROVE  Store!StoreNext
  <2>1. UNCHANGED global
    BY <1>3 DEF add_client
  <2>2. \E id \in ClientIds, info \in {InfoOf(c) : c \in Client} : Store!Connect(id, info)
    BY <1>3, ConnectSimulated
  <2>3. QED
    BY <2>1, <2>2, CountsKept DEF Store!StoreNext
<1>4. ASSUME NEW id \in ClientIds, NEW a \in Addresses, NEW d \in Durations,
             reset_client(id, a, d), entry.client_id = id
      PROVE  Store!StoreNext
  <2>1. UNCHANGED global
    BY <1>4 DEF reset_client
  <2>2. QED
    BY <1>2, <1>4, <2>1, ResetSimulated
<1>5. ASSUME delete_client(entry.client_id), ~HasSubscriptions(entry.file_number)
      PROVE  Store!StoreNext
  BY <1>2, <1>5, ForgetSimulated DEF delete_client
<1>6. ASSUME NEW k \in 0..4, delete_client_crash(k) PROVE Store!StoreNext
  <2>1. Counts' = [t \in TopicNames |-> 0]
    BY <1>6, CountsKept DEF delete_client_crash, begin
  <2>2. Store!Crash
    BY <1>6, <2>1, CrashSimulated DEF Store!Crash
  <2>3. QED
    BY <2>2 DEF Store!StoreNext
<1>7. ASSUME Open PROVE entry \in Client
  BY <1>7, OpenClient, IInvParts DEF Open, StoreInv
<1>8. ASSUME NEW st \in Statuses, set_client_state(st) PROVE Store!StoreNext
  <2>1. /\ [entry EXCEPT !.client_status = st] \in Client
        /\ [entry EXCEPT !.client_status = st].client_id = entry.client_id
        /\ [entry EXCEPT !.client_status = st].file_number = entry.file_number
    BY <1>7, <1>8 DEF set_client_state, Client
  <2>2. QED
    BY <1>2, <1>8, <2>1, SetSimulated DEF set_client_state
<1>9. ASSUME NEW t \in Durations, set_timeout(t) PROVE Store!StoreNext
  <2>1. /\ [entry EXCEPT !.timeout = t] \in Client
        /\ [entry EXCEPT !.timeout = t].client_id = entry.client_id
        /\ [entry EXCEPT !.timeout = t].file_number = entry.file_number
    BY <1>7, <1>9 DEF set_timeout, Client
  <2>2. QED
    BY <1>2, <1>9, <2>1, SetSimulated DEF set_timeout
<1>10. ASSUME NEW m \in MessageTypes, set_client_await_message(m) PROVE Store!StoreNext
  <2>1. /\ [entry EXCEPT !.await_message = m] \in Client
        /\ [entry EXCEPT !.await_message = m].client_id = entry.client_id
        /\ [entry EXCEPT !.await_message = m].file_number = entry.file_number
    BY <1>7, <1>10 DEF set_client_await_message, Client
  <2>2. QED
    BY <1>2, <1>10, <2>1, SetSimulated DEF set_client_await_message
<1>11. ASSUME NEW m \in MsgIds, set_client_await_msg_id(m) PROVE Store!StoreNext
  <2>1. /\ [entry EXCEPT !.await_message_id = m] \in Client
        /\ [entry EXCEPT !.await_message_id = m].client_id = entry.client_id
        /\ [entry EXCEPT !.await_message_id = m].file_number = entry.file_number
    BY <1>7, <1>11 DEF set_client_await_msg_id, Client
  <2>2. QED
    BY <1>2, <1>11, <2>1, SetSimulated DEF set_client_await_msg_id
<1>12. CASE \E a \in Addresses, d \in Durations : opened # Zero /\ add_client(opened, a, d)
  BY <1>1, <1>3, <1>12 DEF add_client
<1>13. CASE \E id \in ClientIds, a \in Addresses, d \in Durations : reset_client(id, a, d)
  BY <1>1, <1>4, <1>13 DEF reset_client
<1>14. CASE delete_client(entry.client_id)
  BY <1>1, <1>5, <1>14 DEF delete_client
<1>15. CASE overlong_client_id
  BY <1>1, <1>15 DEF overlong_client_id
<1>16. QED
  BY <1>6, <1>8, <1>9, <1>10, <1>11, <1>12, <1>13, <1>14, <1>15 DEF ClientStep

\* So are the operations on wills, topics and publishes.
LEMMA FileStepStore ==
    ASSUME StoreInv, StoreInv', WillStep \/ TopicStep \/ PublishStep
    PROVE  [Store!StoreNext]_(Store!storeVars)
<1>1. CASE UNCHANGED <<registry, files, global>>
  BY <1>1, SessionsUnchanged, CountsKept DEF Store!storeVars
<1>2. ASSUME \E id \in DOMAIN Sessions : Store!SessionStep(id), UNCHANGED global
      PROVE  Store!StoreNext
  BY <1>2, CountsKept DEF Store!StoreNext
<1>3. ASSUME NEW name \in TopicNames, Store!Count(name), UNCHANGED <<registry, files>>
      PROVE  Store!StoreNext
  BY <1>3, SessionsUnchanged DEF Store!StoreNext
<1>4. CASE WillStep
  <2>1. UNCHANGED global
    BY <1>4 DEF WillStep, set_client_willtopic, set_client_willmessage, delete_will
  <2>2. QED
    BY <1>2, <1>4, <2>1, WillSimulated
<1>5. CASE PublishStep
  <2>1. UNCHANGED <<registry, reg, sub, wil, global>>
    BY <1>5 DEF PublishStep, add_client_publish, set_publish_msg_id,
       remove_publish_by_publish_id, remove_publish_by_msg_id, flags
  <2>2. QED
    BY <1>1, <1>2, <1>5, <2>1, PublishSimulated DEF files
<1>6. CASE \E name \in TopicNames \cup EdgeNames : add_client_registration(name)
  BY <1>2, <1>6, RegistrationSimulated DEF add_client_registration
<1>7. CASE \E name \in TopicNames, id \in TopicIds, q \in QoS : add_subscription(name, id, q)
  BY <1>2, <1>7, SubscribeSimulated DEF add_subscription
<1>8. CASE \E id \in TopicIds : delete_subscription(id)
  BY <1>1, <1>2, <1>8, UnsubscribeSimulated DEF delete_subscription
<1>9. CASE \E name \in TopicNames : increment_global_subscription_count(name)
  BY <1>3, <1>9, IncrementSimulated DEF increment_global_subscription_count
<1>10. CASE \E name \in TopicNames : decrement_global_subscription_count(name)
  BY <1>3, <1>10, DecrementSimulated DEF decrement_global_subscription_count
<1>11. CASE add_client_registration_overlong \/ is_topic_known_zero
  BY <1>1, <1>11 DEF add_client_registration_overlong, is_topic_known_zero
<1>12. QED
  BY <1>4, <1>5, <1>6, <1>7, <1>8, <1>9, <1>10, <1>11 DEF TopicStep

\* Every step of the database is a step of the store, or leaves it as it is.
LEMMA NextStore ==
    StoreInv /\ StoreInv' /\ [Next]_vars => [Store!StoreNext]_(Store!storeVars)
<1>1. SUFFICES ASSUME StoreInv, StoreInv', [Next]_vars
               PROVE  [Store!StoreNext]_(Store!storeVars)
  OBVIOUS
<1>2. CASE UNCHANGED vars
  BY <1>2, SessionsUnchanged, CountsKept DEF vars, files, Store!storeVars
<1>3. QED
  BY <1>1, <1>2, TransactionStepStore, ClientStepStore, FileStepStore DEF Next

\* The database implements the session store, for any number of clients, topics and
\* publishes: a session is changed by one step of the store at a time, a new one is
\* empty, and neither transactions nor positions nor the order of entries show.
THEOREM Implementation == Spec => ImplementsStore
<1>1. Spec => []StoreInv
  BY Invariance, ContentCorrect, NothingInherited, PTL DEF StoreInv
<1>2. QED
  BY <1>1, InitStore, NextStore, PTL DEF Spec, ImplementsStore, Store!StoreSpec
=============================================================================
