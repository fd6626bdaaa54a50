---------------------- MODULE LinuxPersistentRefinement ----------------------
(***************************************************************************)
(* LinuxPersistent implements SessionStore.  The session of a client is    *)
(* what the files of its position hold; the copy of its entry in memory,   *)
(* the flags and the transaction do not show.                              *)
(***************************************************************************)
EXTENDS MCLinuxPersistent

InfoOf(c) ==
    [address |-> c.client_address, status |-> c.client_status, duration |-> c.duration,
     timeout |-> c.timeout, message |-> c.await_message, id |-> c.await_message_id]

TopicsAt(n) == [i \in DOMAIN reg[n] |-> reg[n][i].topic_name]

SubscriptionsAt(n) == {sub[n][i] : i \in DOMAIN sub[n]} \ {NoSubscription}

PendingPublishes(n) == {i \in DOMAIN pub[n] : pub[n][i].publish_id # 0}

PublishesAt(n) ==
    [i \in PendingPublishes(n) |-> [msg_id |-> pub[n][i].msg_id, msg |-> pub[n][i].msg]]

SessionAt(n) ==
    [info |-> InfoOf(registry[n]), topics |-> TopicsAt(n), subs |-> SubscriptionsAt(n),
     will |-> wil[n], publishes |-> PublishesAt(n)]

RegisteredSlots == {s \in DOMAIN registry : Occupied(s)}
Registered      == {registry[s].client_id : s \in RegisteredSlots}

Sessions ==
    [id \in Registered |->
        SessionAt(CHOOSE s \in RegisteredSlots : registry[s].client_id = id)]

Counts ==
    [t \in TopicNames |->
        IF CountEntry(t) = {} THEN 0
        ELSE (CHOOSE e \in CountEntry(t) : TRUE).client_subscription_count]

Store ==
    INSTANCE SessionStore WITH
        sessions <- Sessions,
        counts <- Counts,
        Infos <- {InfoOf(c) : c \in Client},
        Subscriptions <- Subscription,
        Wills <- Will,
        PublishIds <- 1..MaxEntries,
        Publishes <- [msg_id : MsgIds \cup {0}, msg : Payloads \cup {Damaged}]

\* LinuxPersistent implements SessionStore: through reuse of positions, failed
\* and nested transactions, entries emptied and filled again, restarts and
\* crashes inside delete_client, every step changes at most one session, by one
\* of the steps the store allows, and a client always starts with an empty one.
ImplementsStore == Store!StoreSpec
=============================================================================
