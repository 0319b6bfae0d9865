----------------------------- MODULE RingBuffer -----------------------------
(***************************************************************************)
(* The byte ring of a usbq stream (src/usbq/src/usbq.c): ring_push_locked, *)
(* the dequeueing half of usbq_stream_read and usbq_stream_flush, each of  *)
(* which runs under s->mu, so each is one step.  Indices wrap modulo the   *)
(* capacity and copies are made in two segments, as in the code.  A byte   *)
(* is its position in the stream the device delivers.                      *)
(***************************************************************************)
EXTENDS Integers

CONSTANTS Cap,       \* s->ring_cap
          MaxLen,    \* longest transfer and longest read
          MaxBytes   \* bound: bytes the device delivers

ASSUME RingAssumption ==
    Cap \in Nat \ {0} /\ MaxLen \in Nat \ {0} /\ MaxBytes \in Nat

VARIABLES
    ring,      \* s->ring; 0 is a byte never written
    head,      \* s->ring_head
    tail,      \* s->ring_tail
    used,      \* s->ring_used
    lost,      \* s->overflow_bytes
    pushed,    \* bytes delivered to the ring so far
    taken,     \* bytes handed to readers so far
    flushed,   \* bytes dropped by flushes so far
    out        \* what the last read returned

ringVars == <<ring, head, tail, used, lost, pushed, taken, flushed, out>>

Index == 0..(Cap - 1)

RingTypeOK ==
    /\ ring \in [Index -> 0..MaxBytes]
    /\ head \in Index
    /\ tail \in Index
    /\ used \in 0..Cap
    /\ lost \in Nat
    /\ pushed \in 0..MaxBytes
    /\ taken \in Nat
    /\ flushed \in Nat

RingInit ==
    /\ ring = [i \in Index |-> 0]
    /\ head = 0
    /\ tail = 0
    /\ used = 0
    /\ lost = 0
    /\ pushed = 0
    /\ taken = 0
    /\ flushed = 0
    /\ out = <<>>

Least(a, b) == IF a < b THEN a ELSE b

\* Bytes at the front of a transfer that is longer than the ring.
Skip(len) == IF len > Cap THEN len - Cap ELSE 0

\* Old bytes that give way to n new ones.
KeepSlotFree(n) == IF used + n >= Cap                                \* mutant
                   THEN Least(used + n - Cap + 1, used) ELSE 0
Drop(n) == IF used + n > Cap THEN Least(used + n - Cap, used) ELSE 0

\* What a push adds to s->overflow_bytes.
CountDropped(len) == Drop(len - Skip(len))                           \* mutant
Overflow(len) == Skip(len) + Drop(len - Skip(len))

\* memcpy of n bytes src[0], src[1], ... to the ring at [tail], in two segments.
CopyIn(n, src) ==
    LET first == Least(Cap - tail, n)
    IN  [i \in Index |-> IF i \in tail..(tail + first - 1) THEN src[i - tail]
                         ELSE IF i < n - first THEN src[first + i]
                         ELSE ring[i]]

\* What a read of n bytes copies out, in two segments.
CopyOut(n) ==
    LET first == Least(Cap - head, n)
    IN  [k \in 1..n |-> IF k <= first THEN ring[head + k - 1]
                        ELSE ring[k - first - 1]]

\* ring_push_locked.
Push(len) ==
    /\ pushed + len <= MaxBytes
    /\ LET n == len - Skip(len)
           src == [k \in 0..(n - 1) |-> pushed + Skip(len) + k + 1]
       IN  /\ ring' = CopyIn(n, src)
           /\ head' = (head + Drop(n)) % Cap
           /\ tail' = (tail + n) % Cap
           /\ used' = used - Drop(n) + n
           /\ lost' = lost + Overflow(len)
    /\ pushed' = pushed + len
    /\ UNCHANGED <<taken, flushed, out>>

\* usbq_stream_read once it stops waiting; an empty ring gives no bytes.
Read(cap) ==
    LET n == Least(cap, used)
    IN  /\ out' = CopyOut(n)
        /\ head' = (head + n) % Cap
        /\ used' = used - n
        /\ taken' = taken + n
        /\ UNCHANGED <<ring, tail, lost, pushed, flushed>>

\* usbq_stream_flush.
FlushIndices == head' = 0 /\ tail' = 0 /\ used' = 0

Flush ==
    /\ FlushIndices
    /\ flushed' = flushed + used
    /\ UNCHANGED <<ring, lost, pushed, taken, out>>

RingNext == \/ \E len \in 1..MaxLen : Push(len)
            \/ \E cap \in 1..MaxLen : Read(cap)
            \/ Flush

RingSpec == RingInit /\ [][RingNext]_ringVars

-----------------------------------------------------------------------------
\* The three indices agree: the reader's end plus what is stored is the
\* writer's end, over wraps, overflows and flushes.
IndicesAgree == tail = (head + used) % Cap

\* The ring holds the newest bytes delivered, oldest first and without a hole:
\* an overflow discards from the reader's end only.
HoldsNewest ==
    \A i \in 0..(used - 1) : ring[(head + i) % Cap] = pushed - used + i + 1

\* Every byte delivered was read, flushed, counted in overflow_bytes or is
\* still stored.
BytesConserved == pushed = taken + flushed + lost + used

\* The ring implements the bounded drop-oldest queue.
Contents == [k \in 1..used |-> ring[(head + k - 1) % Cap]]

Fifo == INSTANCE ByteFifo WITH queue <- Contents

ImplementsFifo == Fifo!Spec
=============================================================================
