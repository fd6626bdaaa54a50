---------------------------- MODULE SessionStore ----------------------------
(***************************************************************************)
(* What the gateway's database promises Core, with no word of files,       *)
(* positions, flags or transactions: every registered client has one       *)
(* session, a step touches one session, a new session is empty, and the    *)
(* number of clients per topic goes up and down by one.  LinuxPersistent   *)
(* implements it (LinuxPersistentRefinement).                              *)
(***************************************************************************)
EXTENDS Naturals, Sequences

CONSTANTS
    ClientIds,      \* the clients
    Infos,          \* address, status and timers of a client
    TopicNames,     \* names that can be registered, subscribed and counted
    EdgeNames,      \* names a registration of which cannot be found again
    Subscriptions,  \* subscriptions: records with topic_id and topic_name
    Wills, NoWill,  \* will topics and messages, and the absent will
    PublishIds,     \* ids of the publishes of one session
    Publishes,      \* a waiting publish: its message id and content
    MaxCount        \* bound: clients counted for a topic

VARIABLES
    sessions,       \* a function from the registered clients to their sessions
    counts          \* for every topic the number of clients that want it

storeVars == <<sessions, counts>>

NewSession(info) ==
    [info |-> info, topics |-> <<>>, subs |-> {}, will |-> NoWill, publishes |-> <<>>]

Start ==
    /\ sessions = <<>>
    /\ counts = [t \in TopicNames |-> 0]

-----------------------------------------------------------------------------
(* Steps that change one part of one session.                              *)

Connect(id, info) ==
    /\ id \notin DOMAIN sessions
    /\ sessions' = [c \in DOMAIN sessions \cup {id} |->
                      IF c = id THEN NewSession(info) ELSE sessions[c]]

Forget(id) ==
    /\ sessions[id].subs = {}
    /\ sessions' = [c \in DOMAIN sessions \ {id} |-> sessions[c]]

Update(id, info) == sessions' = [sessions EXCEPT ![id].info = info]

Register(id, name) ==
    /\ name \in EdgeNames \/ \A i \in DOMAIN sessions[id].topics : sessions[id].topics[i] # name
    /\ sessions' = [sessions EXCEPT ![id].topics = Append(@, name)]

Subscribe(id, e) ==
    /\ \A f \in sessions[id].subs : f.topic_id # e.topic_id \/ f.topic_name # e.topic_name
    /\ sessions' = [sessions EXCEPT ![id].subs = @ \cup {e}]

Unsubscribe(id, e) ==
    /\ e \in sessions[id].subs
    /\ sessions' = [sessions EXCEPT ![id].subs = @ \ {e}]

SetWill(id, w) == sessions' = [sessions EXCEPT ![id].will = w]

Enqueue(id, p, m) ==
    /\ p \notin DOMAIN sessions[id].publishes
    /\ sessions' = [sessions EXCEPT ![id].publishes =
                      [q \in DOMAIN @ \cup {p} |-> IF q = p THEN m ELSE @[q]]]

Dequeue(id, p) ==
    /\ p \in DOMAIN sessions[id].publishes
    /\ sessions' = [sessions EXCEPT ![id].publishes = [q \in DOMAIN @ \ {p} |-> @[q]]]

\* A message id is noted, or the content is damaged; the publish stays.
Alter(id, p, m) ==
    /\ p \in DOMAIN sessions[id].publishes
    /\ sessions' = [sessions EXCEPT ![id].publishes[p] = m]

SessionStep(id) ==
    \/ Forget(id)
    \/ \E info \in Infos : Update(id, info)
    \/ \E name \in TopicNames \cup EdgeNames : Register(id, name)
    \/ \E e \in Subscriptions : Subscribe(id, e)
    \/ \E e \in sessions[id].subs : Unsubscribe(id, e)
    \/ \E w \in Wills : SetWill(id, w)
    \/ \E p \in PublishIds, m \in Publishes : Enqueue(id, p, m) \/ Alter(id, p, m)
    \/ \E p \in PublishIds : Dequeue(id, p)

\* A crash forgets all counts.  If it comes while a client without subscriptions
\* is being forgotten, some of its session is gone with them: the registrations,
\* then the will, then the publishes.
Crash ==
    /\ counts' = [t \in TopicNames |-> 0]
    /\ \/ UNCHANGED sessions
       \/ \E id \in DOMAIN sessions :
            LET s == sessions[id] IN
            /\ s.subs = {}
            /\ \E t \in {s, [s EXCEPT !.topics = <<>>],
                         [s EXCEPT !.topics = <<>>, !.will = NoWill],
                         NewSession(s.info)} :
                  sessions' = [sessions EXCEPT ![id] = t]

Count(name) ==
    \/ counts[name] < MaxCount /\ counts' = [counts EXCEPT ![name] = @ + 1]
    \/ counts[name] > 0 /\ counts' = [counts EXCEPT ![name] = @ - 1]

StoreNext ==
    \/ /\ \/ \E id \in ClientIds, info \in Infos : Connect(id, info)
          \/ \E id \in DOMAIN sessions : SessionStep(id)
       /\ UNCHANGED counts
    \/ (\E name \in TopicNames : Count(name)) /\ UNCHANGED sessions
    \/ Crash

StoreSpec == Start /\ [][StoreNext]_storeVars
=============================================================================
