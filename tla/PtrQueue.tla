-------------------------------- MODULE PtrQueue --------------------------------
(***************************************************************************)
(* struct queue of bluez5 (src/shared/queue.c), a list of entries with a   *)
(* pointer to its last one and a count, against the sequence it stands     *)
(* for.  An entry is known by its data; 0 is NULL.                         *)
(***************************************************************************)
EXTENDS Integers, Sequences, FiniteSets, SequencesExt, Lists

CONSTANT MaxEntries

VARIABLES
    queue_head, queue_tail, queue_next, queue_entries,
    queue_data      \* the data of the entries, in order

queueVars == <<queue_head, queue_tail, queue_next, queue_entries, queue_data>>

ConstantsOK == MaxEntries \in Nat
Entries == 1..MaxEntries

\* queue_new
Init ==
    /\ queue_head = 0 /\ queue_tail = 0 /\ queue_next = [e \in Entries |-> 0] /\ queue_entries = 0
    /\ queue_data = <<>>

Free(e) == e \notin Range(queue_data)

queue_push_tail(e) ==
    /\ Free(e)
    /\ queue_next' = [x \in Entries |-> IF x = e THEN 0 ELSE IF x = queue_tail THEN e ELSE queue_next[x]]
    /\ queue_tail' = e
    /\ queue_head' = IF queue_head = 0 THEN e ELSE queue_head
    /\ queue_entries' = queue_entries + 1
    /\ queue_data' = Append(queue_data, e)

queue_push_head(e) ==
    /\ Free(e)
    /\ queue_next' = [queue_next EXCEPT ![e] = queue_head]
    /\ queue_head' = e
    /\ queue_tail' = IF queue_tail = 0 THEN e ELSE queue_tail
    /\ queue_entries' = queue_entries + 1
    /\ queue_data' = <<e>> \o queue_data

queue_push_after(entry, e) ==
    /\ Free(e) /\ ~Free(entry)
    /\ queue_next' = [queue_next EXCEPT ![e] = queue_next[entry], ![entry] = e]
    /\ queue_tail' = IF queue_next[entry] = 0 THEN e ELSE queue_tail
    /\ queue_entries' = queue_entries + 1
    /\ queue_data' = InsertAt(queue_data, 1 + CHOOSE i \in DOMAIN queue_data : queue_data[i] = entry, e)
    /\ UNCHANGED queue_head

queue_pop_head ==
    /\ queue_head # 0
    /\ queue_head' = queue_next[queue_head]
    /\ queue_tail' = IF queue_next[queue_head] = 0 THEN 0 ELSE queue_tail
    /\ queue_entries' = queue_entries - 1
    /\ queue_data' = Tail(queue_data)
    /\ UNCHANGED queue_next

\* The entry before e, 0 if e is the first.
Prev(e) == IF queue_head = e THEN 0 ELSE CHOOSE p \in Range(queue_data) : queue_next[p] = e

\* Mutant of NewTail: the tail is forgotten.
NewTailLost(e) == queue_tail
NewTail(e) == IF queue_next[e] = 0 THEN Prev(e) ELSE queue_tail

\* queue_remove, and queue_remove_if for the first entry that matches
queue_remove(e) ==
    /\ ~Free(e)
    /\ queue_head' = IF Prev(e) = 0 THEN queue_next[e] ELSE queue_head
    /\ queue_next' = IF Prev(e) = 0 THEN queue_next ELSE [queue_next EXCEPT ![Prev(e)] = queue_next[e]]
    /\ queue_tail' = NewTail(e)
    /\ queue_entries' = queue_entries - 1
    /\ queue_data' = Filter(queue_data, Entries \ {e})

\* Everything; the entries that match a function are removed one by one.
queue_remove_all ==
    /\ queue_head # 0
    /\ queue_head' = 0 /\ queue_tail' = 0 /\ queue_entries' = 0 /\ queue_data' = <<>>
    /\ UNCHANGED queue_next

Next ==
    \/ queue_pop_head \/ queue_remove_all
    \/ \E e \in Entries : queue_push_tail(e) \/ queue_push_head(e) \/ queue_remove(e)
    \/ \E entry, e \in Entries : queue_push_after(entry, e)

-----------------------------------------------------------------------------
(* Properties *)

\* The ends of the list are entries or nothing.
TypeOK == {queue_head, queue_tail} \subseteq 0..MaxEntries /\ queue_entries \in 0..MaxEntries

\* The list from the head on is the data in order; the last entry is the tail, which the
\* next one is linked to, and the count is its length.
ListWhole ==
    /\ queue_entries = Len(queue_data)
    /\ queue_head = (IF queue_data = <<>> THEN 0 ELSE Head(queue_data))
    /\ queue_tail = (IF queue_data = <<>> THEN 0 ELSE Last(queue_data))
    /\ \A i \in DOMAIN queue_data : queue_next[queue_data[i]] = (IF i = Len(queue_data) THEN 0 ELSE queue_data[i + 1])
===============================================================================
