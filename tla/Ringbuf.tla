-------------------------------- MODULE Ringbuf --------------------------------
(***************************************************************************)
(* struct ringbuf of bluez5 (src/shared/ringbuf.c) against the sequence of *)
(* bytes it stands for.  in and out run on until the buffer is empty and   *)
(* are reduced to positions by a mask, so its size is a power of two.      *)
(***************************************************************************)
EXTENDS Integers, Sequences, FiniteSets, SequencesExt

CONSTANTS
    RingSizes,      \* the sizes asked for
    MaxIn           \* bound: in

VARIABLES
    ring_size, ring_in, ring_out,
    ring_mem,       \* bytes by position
    ring_data       \* what has been put in and not been taken out

ringVars == <<ring_size, ring_in, ring_out, ring_mem, ring_data>>

ConstantsOK == RingSizes \subseteq Nat \ {0, 1} /\ MaxIn \in Nat

\* The smallest power of two that is not less.
align_power2(u) ==
    LET power[k \in 0..u] == IF k = 0 THEN 1 ELSE 2 * power[k - 1] IN
    CHOOSE p \in {power[k] : k \in 0..u} : p >= u /\ p < 2 * u

Position(i) == i % ring_size

\* ringbuf_new
Init ==
    /\ \E u \in RingSizes : ring_size = align_power2(u)
    /\ ring_in = 0 /\ ring_out = 0
    /\ ring_mem = [i \in 0..ring_size - 1 |-> "unset"] /\ ring_data = <<>>

ringbuf_len   == ring_in - ring_out
\* Mutant: there is room for as much as the buffer holds.
AlwaysRoom    == ring_size
ringbuf_avail == ring_size - ring_in + ring_out

\* Two pieces of memory are filled, up to the end and from the start on.
Put(bytes) ==
    LET offset == Position(ring_in)
        end    == IF Len(bytes) < ring_size - offset THEN Len(bytes) ELSE ring_size - offset
    IN
    /\ ring_mem' = [i \in DOMAIN ring_mem |->
                      IF i >= offset /\ i < offset + end THEN bytes[i - offset + 1]
                      ELSE IF i < Len(bytes) - end THEN bytes[end + i + 1] ELSE ring_mem[i]]
    /\ ring_in' = ring_in + Len(bytes)
    /\ ring_data' = ring_data \o bytes
    /\ UNCHANGED <<ring_size, ring_out>>

\* A string is put in whole or not at all.
ringbuf_vprintf(bytes) ==
    /\ ring_in + Len(bytes) <= MaxIn
    /\ ringbuf_avail > 0 /\ Len(bytes) <= ringbuf_avail
    /\ Put(bytes)

\* readv delivers as much as it has and there is room for.
ringbuf_read(bytes) ==
    /\ ring_in + Len(bytes) <= MaxIn
    /\ ringbuf_avail > 0 /\ Len(bytes) <= ringbuf_avail
    /\ Put(bytes)

Take(n) ==
    LET out == ring_out + n IN
    /\ ring_in' = IF out = ring_in THEN 0 ELSE ring_in
    /\ ring_out' = IF out = ring_in THEN 0 ELSE out
    /\ ring_data' = SubSeq(ring_data, n + 1, Len(ring_data))
    /\ UNCHANGED <<ring_size, ring_mem>>

ringbuf_drain(count) ==
    LET n == IF count < ringbuf_len THEN count ELSE ringbuf_len IN n > 0 /\ Take(n)

\* writev takes some of the data.
ringbuf_write(consumed) == ringbuf_len > 0 /\ consumed \in 1..ringbuf_len /\ Take(consumed)

\* The bytes from offset on that lie in one piece.  The length counts all of the data,
\* whatever the offset.
ringbuf_peek(offset) ==
    LET at  == Position(ring_out + offset)
        len == IF ringbuf_len < ring_size - at THEN ringbuf_len ELSE ring_size - at
    IN
    [i \in 1..len |-> ring_mem[at + i - 1]]

Strings == UNION {[1..n -> {"a", "b"}] : n \in 1..3}

Next ==
    \/ \E bytes \in Strings : ringbuf_vprintf(bytes) \/ ringbuf_read(bytes)
    \/ \E n \in 1..4 : ringbuf_drain(n) \/ ringbuf_write(n)

-----------------------------------------------------------------------------
(* Properties *)

\* The counters of the buffer are in order, and it holds no more than its size.
TypeOK == ring_in \in 0..MaxIn /\ ring_out \in 0..ring_in /\ ringbuf_len <= ring_size

\* What comes out is what was put in, in order, across the end of the memory; peek shows
\* the first of it.  (Behind an offset it may show bytes that are not data any more.)
DataKept ==
    /\ Len(ring_data) = ringbuf_len
    /\ \A k \in 1..ringbuf_len : ring_mem[Position(ring_out + k - 1)] = ring_data[k]
    /\ IsPrefix(ringbuf_peek(0), ring_data)
===============================================================================
