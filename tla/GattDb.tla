------------------------------- MODULE GattDb --------------------------------
(***************************************************************************)
(* struct gatt_db of bluez5 (src/shared/gatt-db.c): services that occupy   *)
(* ranges of handles, the attributes in them, observers of services that   *)
(* become active or go, and reads and writes of attributes that the owner  *)
(* of the attribute answers later, or too late.                            *)
(*                                                                         *)
(* A handle is a number up to MaxHandle, which stands for 0xffff.          *)
(***************************************************************************)
EXTENDS Integers, Sequences, FiniteSets, SequencesExt

CONSTANTS
    MaxHandle,
    ServiceKinds,       \* <<the size of the UUID, is it primary?>>
    MaxServices,        \* bound: services at a time
    MaxAccess           \* bound: reads and writes

VARIABLES
    services,           \* db->services
    next_handle,
    notify_id,          \* is the observer registered?
    observed,           \* the services it has been told of and that have not gone since
    access,             \* the reads and writes, in the order they were asked for
    enclosed,           \* has a service been inserted around another one?
    wrapped,            \* has next_handle wrapped to 0?
    stray               \* has an attribute been inserted out of order or out of the range?

dbVars == <<services, next_handle, notify_id, observed, access, enclosed, wrapped, stray>>

Handles == 1..MaxHandle
ConstantsOK == MaxHandle \in Nat \ {0} /\ ServiceKinds \subseteq {"uuid16", "uuid128"} \X BOOLEAN /\ MaxServices \in Nat /\ MaxAccess \in Nat

Init ==
    /\ services = <<>> /\ next_handle = 1
    /\ notify_id = TRUE /\ observed = {} /\ access = <<>> /\ enclosed = FALSE /\ wrapped = FALSE /\ stray = FALSE

End(s) == s.start + s.num - 1
Attributes(s) == Range(s.attributes)

-----------------------------------------------------------------------------
(* Services *)

\* The service that holds the first or the last handle; the search stops at the first
\* service behind the range.
Holds(s, from, to)  == from \in s.start..End(s) \/ to \in s.start..End(s)
StopsAt(from, to)   == SelectInSeq(services, LAMBDA s : Holds(s, from, to) \/ to < s.start)

\* The position after which the service goes, and the service in its way, 0 if there is none.
find_insert_loc(from, to) ==
    LET i == StopsAt(from, to) IN
    [after |-> IF i = 0 THEN Len(services) ELSE i - 1,
     there |-> IF i # 0 /\ Holds(services[i], from, to) THEN i ELSE 0]

NewService(handle, uuid, primary, num) ==
    [start |-> handle, num |-> num, uuid |-> uuid, primary |-> primary, active |-> FALSE,
     attributes |-> <<handle>>]       \* their handles
\* 16 bits hold it: the handle behind the last one is 0.
Behind(handle, num) == (handle + num) % (MaxHandle + 1)

\* Mutant of gatt_db_insert_service: next_handle stays if the service is not at the end.
gatt_db_insert_service_fast(handle, uuid, primary, num) ==
    LET loc == find_insert_loc(handle, handle + num - 1) IN
    /\ handle >= 1 /\ num >= 1 /\ handle + num - 1 <= MaxHandle /\ Len(services) < MaxServices /\ ~enclosed
    /\ loc.there = 0
    /\ services' = InsertAt(services, loc.after + 1, NewService(handle, uuid, primary, num))
    /\ enclosed' = (enclosed \/ \E s \in Range(services) : handle < s.start /\ End(s) < handle + num - 1)
    /\ UNCHANGED <<next_handle, notify_id, observed, access, wrapped, stray>>

\* What is there already is returned if it is the same service, and stops it if it is not.
gatt_db_insert_service(handle, uuid, primary, num) ==
    LET loc == find_insert_loc(handle, handle + num - 1) IN
    /\ handle >= 1 /\ num >= 1 /\ handle + num - 1 <= MaxHandle /\ Len(services) < MaxServices /\ ~enclosed
    /\ loc.there = 0
    /\ services' = InsertAt(services, loc.after + 1, NewService(handle, uuid, primary, num))
    /\ next_handle' = IF handle + num > next_handle THEN Behind(handle, num) ELSE next_handle
    /\ enclosed' = (enclosed \/ \E s \in Range(services) : handle < s.start /\ End(s) < handle + num - 1)
    /\ wrapped' = (wrapped \/ handle + num > MaxHandle)
    /\ UNCHANGED <<notify_id, observed, access, stray>>

gatt_db_add_service(uuid, primary, num) == gatt_db_insert_service(next_handle, uuid, primary, num)

\* Reads and writes of attributes that go are answered with ECANCELED.
Cancelled(gone) ==
    [i \in DOMAIN access |-> IF access[i].pending /\ access[i].service \in gone
                             THEN [access[i] EXCEPT !.pending = FALSE, !.timer = FALSE, !.told = Append(@, "ECANCELED")] ELSE access[i]]

\* gatt_db_service_destroy: observers are told of the active ones among them.
Destroy(gone) ==
    /\ services' = SelectSeq(services, LAMBDA s : s \notin gone)
    /\ observed' = observed \ {s.start : s \in {t \in gone : t.active /\ notify_id}}
    /\ access' = Cancelled({s.start : s \in gone})

gatt_db_remove_service(s) ==
    /\ s \in Range(services) /\ Destroy({s})
    /\ UNCHANGED <<next_handle, notify_id, enclosed, wrapped, stray>>

\* next_handle is 0 from then on: a service cannot be added, only inserted.
gatt_db_clear ==
    /\ services # <<>> /\ Destroy(Range(services))
    /\ next_handle' = 0
    /\ UNCHANGED <<notify_id, enclosed, wrapped, stray>>

gatt_db_clear_range(from, to) ==
    LET gone == {s \in Range(services) : s.start <= to /\ End(s) >= from} IN
    /\ from <= to /\ gone # {} /\ Destroy(gone)
    /\ UNCHANGED <<next_handle, notify_id, enclosed, wrapped, stray>>

-----------------------------------------------------------------------------
(* Attributes of a service *)

Put(i, new)     == services' = [services EXCEPT ![i].attributes = @ \o new]
\* bound: nothing is added after an attribute that is out of place.
Full(s, n)      == stray \/ Len(s.attributes) + n > s.num
PreviousHandle(s) == Last(s.attributes)

\* handle is 0 to take the next ones.  Only the first handle of the service is a bound for it.
service_insert_characteristic(i, handle) ==
    LET s == services[i]
        h == IF handle = 0 THEN PreviousHandle(s) + 2 ELSE handle
    IN
    /\ i \in DOMAIN services /\ (handle # 0 => handle > s.start /\ handle # MaxHandle)
    /\ ~Full(s, 2)
    /\ h <= MaxHandle                     \* bound: handles that wrap are not followed
    /\ Put(i, <<h - 1, h>>)
    /\ stray' = (stray \/ h - 1 <= PreviousHandle(s) \/ h > End(s))
    /\ UNCHANGED <<next_handle, notify_id, observed, access, enclosed, wrapped>>

service_insert_descriptor(i, handle) ==
    LET s == services[i]
        h == IF handle = 0 THEN PreviousHandle(s) + 1 ELSE handle
    IN
    /\ i \in DOMAIN services /\ (handle # 0 => handle > s.start)
    /\ ~Full(s, 1)
    /\ h <= MaxHandle
    /\ Put(i, <<h>>)
    /\ stray' = (stray \/ h <= PreviousHandle(s) \/ h > End(s))
    /\ UNCHANGED <<next_handle, notify_id, observed, access, enclosed, wrapped>>

gatt_db_service_add_included(i, j) ==
    LET s == services[i]
        h == PreviousHandle(s) + 1
    IN
    /\ {i, j} \subseteq DOMAIN services /\ ~Full(s, 1) /\ h <= MaxHandle
    /\ Put(i, <<h>>)
    /\ stray' = (stray \/ h > End(s))
    /\ UNCHANGED <<next_handle, notify_id, observed, access, enclosed, wrapped>>

gatt_db_service_set_active(i, active) ==
    /\ i \in DOMAIN services /\ services[i].active # active
    /\ services' = [services EXCEPT ![i].active = active]
    /\ observed' = IF ~notify_id THEN observed
                   ELSE IF active THEN observed \cup {services[i].start} ELSE observed \ {services[i].start}
    /\ UNCHANGED <<next_handle, notify_id, access, enclosed, wrapped, stray>>

\* gatt_db_unregister: what the observer knows does not change any more.
gatt_db_unregister ==
    /\ notify_id /\ notify_id' = FALSE /\ observed' = {}
    /\ UNCHANGED <<services, next_handle, access, enclosed, wrapped, stray>>

-----------------------------------------------------------------------------
(* Reads and writes that the owner of the attribute answers *)

gatt_db_attribute_read(s) ==
    /\ s \in Range(services) /\ Len(access) < MaxAccess
    /\ access' = Append(access, [service |-> s.start, pending |-> TRUE, timer |-> TRUE, told |-> <<>>])
    /\ UNCHANGED <<services, next_handle, notify_id, observed, enclosed, wrapped, stray>>

\* Mutant of pending_result: the timer goes on.
pending_result_keeps(i, result) ==
    access' = [access EXCEPT ![i] = [@ EXCEPT !.pending = FALSE, !.told = Append(@, result)]]

pending_result(i, result) ==
    access' = [access EXCEPT ![i] = [@ EXCEPT !.pending = FALSE, !.timer = FALSE, !.told = Append(@, result)]]

\* The owner answers; an id that is not pending any more is not found.
gatt_db_attribute_read_result(i) ==
    /\ i \in DOMAIN access /\ access[i].pending
    /\ pending_result(i, "result")
    /\ UNCHANGED <<services, next_handle, notify_id, observed, enclosed, wrapped, stray>>

\* read_timeout and write_timeout, ATTRIBUTE_TIMEOUT after the access was asked for, if the
\* timer still runs.
read_timeout(i) ==
    /\ i \in DOMAIN access /\ access[i].timer
    /\ pending_result(i, "ETIMEDOUT")
    /\ UNCHANGED <<services, next_handle, notify_id, observed, enclosed, wrapped, stray>>

-----------------------------------------------------------------------------
(* Queries *)

gatt_db_get_attribute(handle) ==
    LET i == SelectInSeq(services, LAMBDA s : handle \in s.start..End(s)) IN
    IF i = 0 THEN {} ELSE Attributes(services[i]) \cap {handle}

gatt_db_find_information(from, to) ==
    UNION {Attributes(s) \cap (from..to) : s \in {t \in Range(services) : t.active /\ End(t) >= from}}

\* Services of one size of UUID, in the order of the list.
gatt_db_read_by_group_type(from, to, primary) ==
    LET found == SelectSeq(services, LAMBDA s : s.active /\ s.primary = primary /\ s.start \in from..to)
        other == SelectInSeq(found, LAMBDA s : s.uuid # found[1].uuid)
    IN
    IF other = 0 THEN found ELSE SubSeq(found, 1, other - 1)

Next ==
    \/ \E handle, num \in Handles, kind \in ServiceKinds :
          \/ gatt_db_insert_service(handle, kind[1], kind[2], num)
          \/ gatt_db_add_service(kind[1], kind[2], num)
    \/ \E s \in Range(services) : gatt_db_remove_service(s) \/ gatt_db_attribute_read(s)
    \/ gatt_db_clear
    \/ \E from, to \in Handles : gatt_db_clear_range(from, to)
    \/ \E i \in DOMAIN services : \E handle \in Handles \cup {0} :
          service_insert_characteristic(i, handle) \/ service_insert_descriptor(i, handle)
    \/ \E i, j \in DOMAIN services : gatt_db_service_add_included(i, j)
    \/ \E i \in DOMAIN services, active \in BOOLEAN : gatt_db_service_set_active(i, active)
    \/ gatt_db_unregister
    \/ \E i \in DOMAIN access : gatt_db_attribute_read_result(i) \/ read_timeout(i)

-----------------------------------------------------------------------------
(* Properties *)

\* Services lie within the handles there are, with no more attributes than they have room for.
TypeOK ==
    /\ \A s \in Range(services) : s.start \in Handles /\ End(s) \in Handles /\ Len(s.attributes) \in 1..s.num
    /\ next_handle \in 0..MaxHandle /\ observed \subseteq Handles

\* The services are in the order of their handles and do not overlap, and the handle for the
\* next one is behind them all, or 0 after the database was cleared: unless a service was
\* inserted around another one, which find_insert_loc does not notice, or, for the next
\* handle, unless one has taken the last handle there is.
ServicesApart ==
    ~enclosed =>
        /\ \A i, j \in DOMAIN services : i < j => End(services[i]) < services[j].start
        /\ next_handle # 0 /\ ~wrapped => \A s \in Range(services) : End(s) < next_handle

\* An attribute that was put into a service is found by its handle, the searches of active
\* services find it as well, and a search by group finds every service it starts with in
\* order; attributes that were inserted out of order, or behind the last handle of the service,
\* which service_insert_characteristic and service_insert_descriptor do not look at, are
\* the exception.
QueriesAgree ==
    ~enclosed /\ ~stray =>
        /\ \A s \in Range(services) : \A a \in Attributes(s) :
              gatt_db_get_attribute(a) = {a} /\ (s.active => a \in gatt_db_find_information(a, a))
        /\ \A primary \in BOOLEAN :
              LET found == gatt_db_read_by_group_type(1, MaxHandle, primary) IN
              \A s \in Range(services) : s.active /\ s.primary = primary /\ s \notin Range(found) =>
                  found # <<>> /\ \E t \in Range(services) : t.uuid # found[1].uuid /\ t.start <= s.start /\ t.start > Last(found).start

\* An observer knows exactly the services that are active.
ObserversAgree == notify_id /\ ~enclosed => observed = {s.start : s \in {t \in Range(services) : t.active}}

\* A read or write is answered once: by its owner, by the timer, or because its service goes.
CompletedOnce ==
    \A i \in DOMAIN access :
        /\ Len(access[i].told) = (IF access[i].pending THEN 0 ELSE 1)
        /\ access[i].pending => \E s \in Range(services) : s.start = access[i].service
=============================================================================
