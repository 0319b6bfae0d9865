------------------------- MODULE UsbqBaseProofs ------------------------------
(***************************************************************************)
(* Proofs about the two parts a usbq stream is built on: its byte ring and *)
(* the runtime it shares with the other users of usbq.                     *)
(*                                                                         *)
(* The ring (RingBuffer), for every capacity, transfer length and read     *)
(* size: its indices agree, it holds the newest bytes in order, its        *)
(* overflow counter accounts for every byte, and it implements the bounded *)
(* drop-oldest queue of module ByteFifo.                                   *)
(*                                                                         *)
(* The runtime (UsbqRuntime), for every set of users and threads.          *)
(* Counting: g_evt.refcount is the number of users that hold the thread    *)
(* and g_init_refcount at least the number of users that are up, so the    *)
(* context exists whenever a user is up (CountInv).  The event thread:     *)
(* when the calls into its counter follow one another, at most one thread  *)
(* exists, the one g_evt.tid names; it exists only while somebody holds it *)
(* or joins it, and a user that joins finds nobody else inside (EvtInv).   *)
(***************************************************************************)
EXTENDS RingBuffer, UsbqRuntime, Sequences, FiniteSetTheorems, TLAPS

\* Modulo on the sums the ring computes: one of an index and at most Cap.
Wrapped(a, b) == IF a + b < Cap THEN a + b ELSE a + b - Cap

\* The sum of an index and at most Cap wraps at most once.
LEMMA WrapsOnce ==
    ASSUME NEW a \in Index, NEW b \in 0..Cap
    PROVE  (a + b) % Cap = Wrapped(a, b) /\ Wrapped(a, b) \in Index
  BY RingAssumption, SMT DEF Index, Wrapped

\* Going on from an index depends on the total distance only.
Around(a, s) == IF a + s < Cap THEN a + s
                ELSE IF a + s < 2 * Cap THEN a + s - Cap ELSE a + s - 2 * Cap

\* Two moves from an index lead where one move of their sum does.
LEMMA WrapsAddUp ==
    ASSUME NEW a \in Index, NEW b \in 0..Cap, NEW c \in 0..Cap
    PROVE  Wrapped(Wrapped(a, b), c) = Around(a, b + c)
  BY RingAssumption, SMT DEF Wrapped, Around, Index

\* One slot of the ring after a copy.
LEMMA CopySlot ==
    ASSUME NEW n, NEW src, NEW i \in Index
    PROVE  CopyIn(n, src)[i] =
              LET first == IF Cap - tail < n THEN Cap - tail ELSE n
              IN  IF i \in tail..(tail + first - 1) THEN src[i - tail]
                  ELSE IF i < n - first THEN src[first + i] ELSE ring[i]
  BY DEF CopyIn, Least

\* The slots a push of n bytes writes hold the bytes in order.
LEMMA CopyWrites ==
    ASSUME tail \in Index, NEW n \in 0..Cap, NEW src, NEW k \in 0..(n - 1)
    PROVE  CopyIn(n, src)[Wrapped(tail, k)] = src[k]
<1> DEFINE i == Wrapped(tail, k)
           first == IF Cap - tail < n THEN Cap - tail ELSE n
           new == CopyIn(n, src)
<1>1. /\ Cap \in Nat \ {0} /\ tail \in 0..(Cap - 1) /\ n \in 0..Cap /\ k \in 0..(n - 1)
      /\ i = IF tail + k < Cap THEN tail + k ELSE tail + k - Cap
  BY RingAssumption DEF Index, Wrapped
<1>2. i \in Index
  <2> HIDE DEF i
  <2> QED
    BY <1>1 DEF Index
<1>3. new[i] = IF i \in tail..(tail + first - 1) THEN src[i - tail]
               ELSE IF i < n - first THEN src[first + i] ELSE ring[i]
  BY <1>2, CopySlot
<1> HIDE DEF i, new
<1>4. CASE tail + k < Cap
  <2>1. i \in tail..(tail + first - 1) /\ i - tail = k
    BY <1>1, <1>4
  <2> QED
    BY <1>3, <2>1 DEF i, new
<1>5. CASE ~(tail + k < Cap)
  <2>1. i \notin tail..(tail + first - 1) /\ i < n - first /\ first + i = k
    BY <1>1, <1>5
  <2> QED
    BY <1>3, <2>1 DEF i, new
<1> QED
  BY <1>4, <1>5

\* All other slots keep their bytes.
LEMMA CopyKeeps ==
    ASSUME tail \in Index, ring \in [Index -> 0..MaxBytes], NEW n \in 0..Cap,
           NEW src, NEW k \in n..(Cap - 1)
    PROVE  CopyIn(n, src)[Wrapped(tail, k)] = ring[Wrapped(tail, k)]
<1> DEFINE i == Wrapped(tail, k)
           first == IF Cap - tail < n THEN Cap - tail ELSE n
           new == CopyIn(n, src)
<1>1. /\ Cap \in Nat \ {0} /\ tail \in 0..(Cap - 1) /\ n \in 0..Cap /\ k \in n..(Cap - 1)
      /\ i = IF tail + k < Cap THEN tail + k ELSE tail + k - Cap
  BY RingAssumption DEF Index, Wrapped
<1>2. i \in Index
  <2> HIDE DEF i
  <2> QED
    BY <1>1 DEF Index
<1>3. new[i] = IF i \in tail..(tail + first - 1) THEN src[i - tail]
               ELSE IF i < n - first THEN src[first + i] ELSE ring[i]
  BY <1>2, CopySlot
<1> HIDE DEF i, new
<1>4. i \notin tail..(tail + first - 1) /\ ~(i < n - first)
  <2>1. CASE tail + k < Cap
    BY <1>1, <2>1
  <2>2. CASE ~(tail + k < Cap)
    BY <1>1, <2>2
  <2> QED
    BY <2>1, <2>2
<1> QED
  BY <1>3, <1>4 DEF i, new

-----------------------------------------------------------------------------
(***************************************************************************)
(* The inductive invariant: the four parts need each other, since a push   *)
(* keeps the newest bytes only where the writer's end is where the indices *)
(* say, and drops what the byte count says is stored.                      *)
(***************************************************************************)
RingInv == RingTypeOK /\ IndicesAgree /\ HoldsNewest /\ BytesConserved

\* How a push divides a transfer: n bytes are written after d old ones went.
LEMMA PushSizes ==
    ASSUME RingTypeOK, NEW len \in 1..MaxLen,
           NEW n, n = len - Skip(len), NEW d, d = Drop(n)
    PROVE  /\ Skip(len) \in Nat
           /\ n \in 0..Cap
           /\ d \in 0..used
           /\ used - d + n \in 0..Cap
           /\ Skip(len) > 0 => d = used
  BY RingAssumption, SMT DEF RingTypeOK, Skip, Drop, Least

\* Types are kept by a push.
LEMMA PushTyped ==
    ASSUME RingInv, NEW len \in 1..MaxLen, Push(len)
    PROVE  RingTypeOK'
  <1> DEFINE n == len - Skip(len)
             d == Drop(n)
             src == [k \in 0..(n - 1) |-> pushed + Skip(len) + k + 1]
  <1>1. RingTypeOK
    BY DEF RingInv
  <1>2. /\ Skip(len) \in Nat
        /\ n \in 0..Cap
        /\ d \in 0..used
        /\ used - d + n \in 0..Cap
    BY <1>1, PushSizes
  <1>3. /\ ring' = CopyIn(n, src)
        /\ head' = (head + d) % Cap
        /\ tail' = (tail + n) % Cap
        /\ used' = used - d + n
        /\ lost' = lost + Skip(len) + d
        /\ pushed' = pushed + len
        /\ pushed + len <= MaxBytes
        /\ UNCHANGED <<taken, flushed>>
    BY <1>1, <1>2, SMT DEF Push, Overflow, RingTypeOK
  <1>4. \A k \in 0..(n - 1) : src[k] \in 0..MaxBytes
    <2> SUFFICES ASSUME NEW k \in 0..(n - 1)
                 PROVE  src[k] \in 0..MaxBytes
      OBVIOUS
    <2>1. src[k] = pushed + Skip(len) + k + 1
      OBVIOUS
    <2>2. len = n + Skip(len)
      BY <1>2
    <2> HIDE DEF n, src
    <2> QED
      BY <1>1, <1>2, <1>3, <2>1, <2>2, RingAssumption DEF RingTypeOK
  <1> HIDE DEF n, d, src
  <1>5. ring' \in [Index -> 0..MaxBytes]
    <2> DEFINE first == Least(Cap - tail, n)
    <2>1. first \in 0..n /\ (first = n \/ first = Cap - tail)
      BY <1>1, <1>2, RingAssumption DEF RingTypeOK, Index, Least
    <2> HIDE DEF first
    <2> DEFINE slot(i) == IF i \in tail..(tail + first - 1) THEN src[i - tail]
                          ELSE IF i < n - first THEN src[first + i] ELSE ring[i]
    <2>2. ring' = [i \in Index |-> slot(i)]
      BY <1>3 DEF CopyIn, first
    <2>3. ASSUME NEW i \in Index
          PROVE  slot(i) \in 0..MaxBytes
      <3>1. i \in Nat /\ tail \in Int /\ n \in Nat /\ ring[i] \in 0..MaxBytes
        BY <1>1, <1>2, RingAssumption DEF RingTypeOK, Index
      <3>2. CASE i \in tail..(tail + first - 1)
        <4>1. i - tail \in 0..(n - 1)
          BY <2>1, <3>1, <3>2
        <4> QED
          BY <1>4, <3>2, <4>1
      <3>3. CASE i \notin tail..(tail + first - 1) /\ i < n - first
        <4>1. first + i \in 0..(n - 1)
          BY <2>1, <3>1, <3>3
        <4> QED
          BY <1>4, <3>3, <4>1
      <3>4. CASE i \notin tail..(tail + first - 1) /\ ~(i < n - first)
        BY <3>1, <3>4
      <3> QED
        BY <3>2, <3>3, <3>4
    <2> HIDE DEF slot
    <2> QED
      BY <2>2, <2>3
  <1>6. head' \in Index /\ tail' \in Index
    <2>1. d \in 0..Cap /\ head \in Index /\ tail \in Index
      BY <1>1, <1>2, RingAssumption DEF RingTypeOK
    <2> QED
      BY <1>2, <1>3, <2>1, WrapsOnce
  <1>7. lost' \in Nat /\ pushed' \in 0..MaxBytes /\ taken' \in Nat /\ flushed' \in Nat
    BY <1>1, <1>2, <1>3, RingAssumption DEF RingTypeOK
  <1> QED
    BY <1>2, <1>3, <1>5, <1>6, <1>7 DEF RingTypeOK

\* A push keeps the indices and the byte count in agreement.
LEMMA PushCounts ==
    ASSUME RingInv, NEW len \in 1..MaxLen, Push(len)
    PROVE  IndicesAgree' /\ BytesConserved'
  <1> DEFINE n == len - Skip(len)
             d == Drop(n)
  <1>1. RingTypeOK
    BY DEF RingInv
  <1>2. /\ Skip(len) \in Nat
        /\ n \in 0..Cap
        /\ d \in 0..used
        /\ used - d + n \in 0..Cap
    BY <1>1, PushSizes
  <1>3. /\ head' = (head + d) % Cap
        /\ tail' = (tail + n) % Cap
        /\ used' = used - d + n
        /\ lost' = lost + Skip(len) + d
        /\ pushed' = pushed + len
        /\ UNCHANGED <<taken, flushed>>
    BY <1>1, <1>2, SMT DEF Push, Overflow, RingTypeOK
  <1>4. len = n + Skip(len)
    BY <1>2
  <1> HIDE DEF n, d
  <1>5. BytesConserved'
    BY <1>1, <1>2, <1>3, <1>4, SMT DEF RingInv, BytesConserved, RingTypeOK
  <1>6. IndicesAgree'
    <2>1. head \in Index /\ tail \in Index /\ used \in 0..Cap /\ d \in 0..Cap
      BY <1>1, <1>2, RingAssumption DEF RingTypeOK
    <2>2. head' = Wrapped(head, d) /\ head' \in Index
      BY <1>3, <2>1, WrapsOnce
    <2>3. tail' = Wrapped(tail, n)
      BY <1>2, <1>3, <2>1, WrapsOnce
    <2>4. tail = Wrapped(head, used)
      BY <2>1, WrapsOnce DEF RingInv, IndicesAgree
    <2>5. (head' + used') % Cap = Wrapped(head', used')
      BY <1>2, <1>3, <2>2, WrapsOnce
    <2>6. tail' = Wrapped(head', used')
      <3>1. used + n = d + used' /\ used' \in 0..Cap /\ n \in 0..Cap
        BY <1>2, <1>3, <2>1
      <3>2. Wrapped(Wrapped(head, used), n) = Around(head, used + n)
        BY <2>1, <3>1, WrapsAddUp
      <3>3. Wrapped(Wrapped(head, d), used') = Around(head, d + used')
        BY <2>1, <3>1, WrapsAddUp
      <3> QED
        BY <2>2, <2>3, <2>4, <3>1, <3>2, <3>3
    <2> QED
      BY <2>5, <2>6 DEF IndicesAgree
  <1> QED
    BY <1>5, <1>6

\* The i-th stored byte after a push: an old one that moved up, or a new one.
LEMMA PushHolds ==
    ASSUME RingInv, NEW len \in 1..MaxLen, Push(len)
    PROVE  HoldsNewest'
  <1> DEFINE n == len - Skip(len)
             d == Drop(n)
             src == [k \in 0..(n - 1) |-> pushed + Skip(len) + k + 1]
  <1>1. RingTypeOK
    BY DEF RingInv
  <1>2. /\ Skip(len) \in Nat
        /\ n \in 0..Cap
        /\ d \in 0..used
        /\ used - d + n \in 0..Cap
        /\ Skip(len) > 0 => d = used
    BY <1>1, PushSizes
  <1>3. /\ ring' = CopyIn(n, src)
        /\ head' = (head + d) % Cap
        /\ used' = used - d + n
        /\ pushed' = pushed + len
    BY <1>1, <1>2, SMT DEF Push, RingTypeOK
  <1>4. len = n + Skip(len)
    BY <1>2
  <1>5. \A k \in 0..(n - 1) : src[k] = pushed + Skip(len) + k + 1
    OBVIOUS
  <1>6. /\ head \in Index /\ tail \in Index /\ used \in 0..Cap /\ pushed \in Nat
        /\ ring \in [Index -> 0..MaxBytes]
    BY <1>1, RingAssumption DEF RingTypeOK
  <1> HIDE DEF n, d, src
  <1>7. head' = Wrapped(head, d) /\ head' \in Index
    <2>1. d \in 0..Cap
      BY <1>2, <1>6, RingAssumption
    <2> QED
      BY <1>3, <1>6, <2>1, WrapsOnce
  <1>8. tail = Wrapped(head, used)
    BY <1>6, WrapsOnce DEF RingInv, IndicesAgree
  <1> SUFFICES ASSUME NEW i \in 0..(used' - 1)
               PROVE  ring'[(head' + i) % Cap] = pushed' - used' + i + 1
    BY DEF HoldsNewest
  <1>9. (head' + i) % Cap = Wrapped(head', i)
    <2>1. i \in 0..Cap
      BY <1>2, <1>3, RingAssumption
    <2> QED
      BY <1>7, <2>1, WrapsOnce
  <1>10. CASE i < used - d
    <2> DEFINE k == Cap - used + d + i
    <2>1. k \in n..(Cap - 1)
      BY <1>2, <1>3, <1>6, <1>10, RingAssumption
    <2>2. Wrapped(head', i) = Wrapped(tail, k)
      BY <1>2, <1>6, <1>7, <1>8, <1>10, RingAssumption, SMT DEF Wrapped, Index
    <2>3. Wrapped(tail, k) = Wrapped(head, d + i)
      BY <1>2, <1>6, <1>8, <1>10, RingAssumption, SMT DEF Wrapped, Index
    <2>4. ring'[Wrapped(tail, k)] = ring[Wrapped(tail, k)]
      <3> HIDE DEF k
      <3> QED
        BY <1>2, <1>3, <1>6, <2>1, CopyKeeps
    <2>5. ring[(head + (d + i)) % Cap] = pushed - used + (d + i) + 1
      <3>1. d + i \in 0..(used - 1)
        BY <1>2, <1>3, <1>6, <1>10
      <3> QED
        BY <3>1 DEF RingInv, HoldsNewest
    <2>6. (head + (d + i)) % Cap = Wrapped(head, d + i)
      <3>1. d + i \in 0..Cap
        BY <1>2, <1>3, <1>6, <1>10, RingAssumption
      <3> QED
        BY <1>6, <3>1, WrapsOnce
    <2>7. Skip(len) = 0
      BY <1>2, <1>10
    <2>8. pushed - used + (d + i) + 1 = pushed' - used' + i + 1
      BY <1>2, <1>3, <1>4, <1>6, <2>7
    <2> HIDE DEF k
    <2> QED
      BY <1>9, <2>2, <2>3, <2>4, <2>5, <2>6, <2>8
  <1>11. CASE i >= used - d
    <2> DEFINE k == i - (used - d)
    <2>1. k \in 0..(n - 1)
      BY <1>2, <1>3, <1>6, <1>11
    <2>2. Wrapped(head', i) = Wrapped(tail, k)
      <3>1. i \in 0..(Cap - 1) /\ d + i = used + k
        BY <1>2, <1>3, <1>6, RingAssumption
      <3>2. k \in 0..Cap /\ d \in 0..Cap /\ i \in 0..Cap
        BY <1>3, <1>2, <1>6, <2>1, RingAssumption
      <3> HIDE DEF k
      <3>3. Wrapped(Wrapped(head, d), i) = Around(head, d + i)
        BY <1>6, <3>2, WrapsAddUp
      <3>4. Wrapped(Wrapped(head, used), k) = Around(head, used + k)
        BY <1>6, <3>2, WrapsAddUp
      <3> QED
        BY <1>7, <1>8, <3>1, <3>3, <3>4
    <2>3. ring'[Wrapped(tail, k)] = src[k]
      <3> HIDE DEF k
      <3> QED
        BY <1>2, <1>3, <1>6, <2>1, CopyWrites
    <2>4. src[k] = pushed + Skip(len) + k + 1
      BY <1>5, <2>1
    <2>5. pushed' - used' + i + 1 = pushed + Skip(len) + k + 1
      <3>1. used' = used - d + n /\ pushed' = pushed + (n + Skip(len))
        BY <1>3, <1>4
      <3>2. k = i - (used - d) /\ i \in Int /\ d \in Int /\ n \in Int /\ Skip(len) \in Int
        BY <1>2
      <3> HIDE DEF k
      <3> QED
        BY <1>6, <3>1, <3>2
    <2> HIDE DEF k
    <2> QED
      BY <1>9, <2>2, <2>3, <2>4, <2>5
  <1> QED
    BY <1>2, <1>3, <1>6, <1>10, <1>11

\* A read moves the reader's end over what it returns.
LEMMA ReadKeeps ==
    ASSUME RingInv, NEW cap \in 1..MaxLen, Read(cap)
    PROVE  RingInv'
  <1> DEFINE n == Least(cap, used)
  <1>1. RingTypeOK
    BY DEF RingInv
  <1>2. n \in 0..used /\ n \in 0..Cap
    BY <1>1, RingAssumption, SMT DEF Least, RingTypeOK
  <1>3. /\ head' = (head + n) % Cap
        /\ used' = used - n
        /\ taken' = taken + n
        /\ UNCHANGED <<ring, tail, lost, pushed, flushed>>
    BY DEF Read
  <1>4. head \in Index /\ tail \in Index /\ used \in 0..Cap
    BY <1>1 DEF RingTypeOK
  <1> HIDE DEF n
  <1>5. head' = Wrapped(head, n) /\ head' \in Index
    BY <1>2, <1>3, <1>4, WrapsOnce
  <1>6. RingTypeOK'
    BY <1>1, <1>2, <1>3, <1>5, RingAssumption DEF RingTypeOK
  <1>7. BytesConserved'
    BY <1>1, <1>2, <1>3 DEF RingInv, BytesConserved, RingTypeOK
  <1>8. \A k \in 0..used' : (head' + k) % Cap = (head + (n + k)) % Cap
    <2> SUFFICES ASSUME NEW k \in 0..used'
                 PROVE  (head' + k) % Cap = (head + (n + k)) % Cap
      OBVIOUS
    <2>1. k \in 0..Cap /\ n + k \in 0..Cap
      BY <1>2, <1>3, <1>4, RingAssumption
    <2>2. (head' + k) % Cap = Wrapped(head', k)
      BY <1>5, <2>1, WrapsOnce
    <2>3. (head + (n + k)) % Cap = Wrapped(head, n + k)
      BY <1>4, <2>1, WrapsOnce
    <2> QED
      BY <1>2, <1>4, <1>5, <2>1, <2>2, <2>3, RingAssumption, SMT DEF Wrapped, Index
  <1>9. IndicesAgree'
    <2>1. used' \in 0..used' /\ n + used' = used
      BY <1>2, <1>3, <1>4
    <2> QED
      BY <1>3, <1>8, <2>1 DEF RingInv, IndicesAgree
  <1>10. HoldsNewest'
    <2> SUFFICES ASSUME NEW i \in 0..(used' - 1)
                 PROVE  ring'[(head' + i) % Cap] = pushed' - used' + i + 1
      BY DEF HoldsNewest
    <2>1. i \in 0..used' /\ n + i \in 0..(used - 1)
      BY <1>2, <1>3, <1>4
    <2>2. ring[(head + (n + i)) % Cap] = pushed - used + (n + i) + 1
      BY <2>1 DEF RingInv, HoldsNewest
    <2> QED
      BY <1>1, <1>2, <1>3, <1>8, <2>1, <2>2 DEF RingTypeOK
  <1> QED
    BY <1>6, <1>7, <1>9, <1>10 DEF RingInv

\* A flush starts over with an empty ring.
LEMMA FlushKeeps ==
    ASSUME RingInv, Flush
    PROVE  RingInv'
  <1>1. RingTypeOK' /\ BytesConserved' /\ HoldsNewest'
    BY RingAssumption DEF RingInv, Flush, FlushIndices, RingTypeOK, BytesConserved,
       HoldsNewest, Index
  <1>2. (0 + 0) % Cap = 0
    BY RingAssumption
  <1> QED
    BY <1>1, <1>2 DEF RingInv, Flush, FlushIndices, IndicesAgree

\* The invariant holds at first.
LEMMA InitRingInv == RingInit => RingInv
  <1>1. (0 + 0) % Cap = 0
    BY RingAssumption
  <1> QED
    BY <1>1, RingAssumption DEF RingInit, RingInv, RingTypeOK, IndicesAgree, HoldsNewest,
       BytesConserved, Index

\* Every step keeps it.
LEMMA RingInvStep == RingInv /\ [RingNext]_ringVars => RingInv'
  <1> SUFFICES ASSUME RingInv, [RingNext]_ringVars
               PROVE  RingInv'
    OBVIOUS
  <1>1. ASSUME NEW len \in 1..MaxLen, Push(len)
        PROVE  RingInv'
    BY <1>1, PushTyped, PushCounts, PushHolds DEF RingInv
  <1>2. ASSUME NEW cap \in 1..MaxLen, Read(cap)
        PROVE  RingInv'
    BY <1>2, ReadKeeps
  <1>3. CASE Flush
    BY <1>3, FlushKeeps
  <1>4. CASE UNCHANGED ringVars
    BY <1>4 DEF ringVars, RingInv, RingTypeOK, IndicesAgree, HoldsNewest, BytesConserved
  <1> QED
    BY <1>1, <1>2, <1>3, <1>4 DEF RingNext

\* The ring's variables keep their types: no index leaves the ring and no more
\* is stored than fits (ring_push_locked, usbq_stream_read).
THEOREM RingTypeCorrect == RingSpec => []RingTypeOK
  <1>1. RingInv => RingTypeOK
    BY DEF RingInv
  <1> QED
    BY <1>1, InitRingInv, RingInvStep, PTL DEF RingSpec

\* head, tail and used describe the same bytes, over wraps and overflows.
THEOREM RingIndicesAgree == RingSpec => []IndicesAgree
  <1>1. RingInv => IndicesAgree
    BY DEF RingInv
  <1> QED
    BY <1>1, InitRingInv, RingInvStep, PTL DEF RingSpec

\* The ring holds the newest bytes, oldest first, whatever the two-segment
\* copies and the overflow did.
THEOREM RingHoldsNewest == RingSpec => []HoldsNewest
  <1>1. RingInv => HoldsNewest
    BY DEF RingInv
  <1> QED
    BY <1>1, InitRingInv, RingInvStep, PTL DEF RingSpec

\* overflow_bytes accounts for every byte that was neither read nor flushed.
THEOREM RingConservesBytes == RingSpec => []BytesConserved
  <1>1. RingInv => BytesConserved
    BY DEF RingInv
  <1> QED
    BY <1>1, InitRingInv, RingInvStep, PTL DEF RingSpec

-----------------------------------------------------------------------------
(***************************************************************************)
(* The ring implements ByteFifo.  What is stored is a run of consecutive   *)
(* positions, and so is everything the abstract queue builds from it.      *)
(***************************************************************************)
Run(a, n) == [k \in 1..n |-> a + k]

\* A run is a sequence of its length.
LEMMA RunLen ==
    ASSUME NEW a \in Int, NEW n \in Nat
    PROVE  Run(a, n) \in Seq(Int) /\ Len(Run(a, n)) = n
  BY DEF Run

\* Two runs that meet make one.
LEMMA RunConcat ==
    ASSUME NEW a \in Int, NEW n \in Nat, NEW m \in Nat
    PROVE  Run(a, n) \o Run(a + n, m) = Run(a, n + m)
  BY DEF Run

\* A part of a run is a run.
LEMMA RunSub ==
    ASSUME NEW a \in Int, NEW n \in Nat, NEW i \in 1..(n + 1),
           NEW j \in (i - 1)..n
    PROVE  SubSeq(Run(a, n), i, j) = Run(a + i - 1, j - i + 1)
  BY DEF Run

\* What n slots of a ring r from index h on hold.
Slots(r, h, n) == [k \in 1..n |-> r[(h + k - 1) % Cap]]

\* Slots that hold consecutive positions, read in order, give a run.
LEMMA SlotsRun ==
    ASSUME NEW r, NEW h \in Int, NEW n \in Nat, NEW a \in Int,
           \A i \in 0..(n - 1) : r[(h + i) % Cap] = a + i + 1
    PROVE  Slots(r, h, n) = Run(a, n)
  <1>1. ASSUME NEW k \in 1..n
        PROVE  r[(h + k - 1) % Cap] = a + k
    <2>1. k - 1 \in 0..(n - 1) /\ h + (k - 1) = h + k - 1 /\ a + (k - 1) + 1 = a + k
      OBVIOUS
    <2> QED
      BY <2>1
  <1> QED
    BY <1>1 DEF Slots, Run

\* The stored bytes are the run that ends at the last byte delivered.
LEMMA ContentsRun ==
    ASSUME RingInv
    PROVE  Contents = Run(pushed - used, used)
  <1>1. used \in Nat /\ pushed - used \in Int /\ head \in Int
    BY RingAssumption DEF RingInv, RingTypeOK, Index
  <1>2. \A i \in 0..(used - 1) : ring[(head + i) % Cap] = (pushed - used) + i + 1
    BY DEF RingInv, HoldsNewest
  <1>3. Contents = Slots(ring, head, used)
    BY DEF Contents, Slots
  <1> QED
    BY <1>1, <1>2, <1>3, SlotsRun

\* And so after a step.
LEMMA ContentsRunNext ==
    ASSUME RingInv'
    PROVE  Contents' = Run(pushed' - used', used')
  <1>1. used' \in Nat /\ pushed' - used' \in Int /\ head' \in Int
    BY RingAssumption DEF RingInv, RingTypeOK, Index
  <1>2. \A i \in 0..(used' - 1) : ring'[(head' + i) % Cap] = (pushed' - used') + i + 1
    BY DEF RingInv, HoldsNewest
  <1>3. Contents' = Slots(ring', head', used')
    BY DEF Contents, Slots
  <1> QED
    BY <1>1, <1>2, <1>3, SlotsRun

\* What a read copies out in two segments is the front of the stored run.
LEMMA CopyOutRun ==
    ASSUME RingInv, NEW n \in 0..used
    PROVE  CopyOut(n) = Run(pushed - used, n)
  <1>1. /\ used \in 0..Cap /\ pushed \in Int /\ head \in Index
        /\ Cap \in Nat /\ Cap > 0
    BY RingAssumption DEF RingInv, RingTypeOK
  <1> DEFINE first == Least(Cap - head, n)
  <1>2. ASSUME NEW k \in 1..n
        PROVE  (IF k <= first THEN ring[head + k - 1] ELSE ring[k - first - 1])
                   = pushed - used + k
    <2>1. k - 1 \in 0..(used - 1) /\ k - 1 \in 0..Cap
      BY <1>1
    <2>2. ring[(head + (k - 1)) % Cap] = pushed - used + (k - 1) + 1
      BY <2>1 DEF RingInv, HoldsNewest
    <2>3. (head + (k - 1)) % Cap = Wrapped(head, k - 1)
      BY <1>1, <2>1, WrapsOnce
    <2>4. Wrapped(head, k - 1) = IF k <= first THEN head + k - 1 ELSE k - first - 1
      BY <1>1, SMT DEF Wrapped, Least, Index
    <2> HIDE DEF first
    <2> QED
      BY <1>1, <2>2, <2>3, <2>4
  <1> QED
    BY <1>2 DEF CopyOut, Run

\* A push of the ring is a push of the queue.
LEMMA PushImplements ==
    ASSUME RingInv, RingInv', NEW len \in 1..MaxLen, Push(len)
    PROVE  Fifo!Push(len)
  <1> DEFINE n == len - Skip(len)
             all == Contents \o [k \in 1..len |-> pushed + k]
             keep == Fifo!Least(Len(all), Cap)
  <1>1. RingTypeOK /\ Cap \in Nat /\ Cap > 0 /\ len \in Nat /\ len > 0
    BY RingAssumption DEF RingInv
  <1>2. /\ used' = used - Drop(n) + n
        /\ lost' = lost + (Skip(len) + Drop(n))
        /\ pushed' = pushed + len
        /\ UNCHANGED out
    BY DEF Push, Overflow
  <1>3. used \in Nat /\ pushed \in Int /\ lost \in Int /\ pushed - used \in Int
    BY <1>1 DEF RingTypeOK
  <1>4. all = Run(pushed - used, used + len)
    <2>1. [k \in 1..len |-> pushed + k] = Run((pushed - used) + used, len)
      BY <1>3 DEF Run
    <2>2. Contents = Run(pushed - used, used)
      BY ContentsRun
    <2>3. Run(pushed - used, used) \o Run((pushed - used) + used, len)
              = Run(pushed - used, used + len)
      BY <1>1, <1>3, RunConcat
    <2> QED
      BY <2>1, <2>2, <2>3
  <1>5. Len(all) = used + len
    <2>1. used + len \in Nat
      BY <1>1, <1>3
    <2>2. Len(Run(pushed - used, used + len)) = used + len
      BY <1>3, <2>1, RunLen
    <2> QED
      BY <1>4, <2>2
  <1>6. keep = IF used + len < Cap THEN used + len ELSE Cap
    BY <1>5 DEF Fifo!Least
  <1>7. used' = keep /\ lost' = lost + Len(all) - keep
    <2>1. /\ Skip(len) \in 0..len /\ (len <= Cap => Skip(len) = 0)
          /\ len > Cap => Skip(len) = len - Cap
      BY <1>1 DEF Skip
    <2>2. n \in 0..Cap /\ (len <= Cap => n = len) /\ (len > Cap => n = Cap)
      BY <1>1, <2>1
    <2>3. Drop(n) = IF used + n > Cap THEN used + n - Cap ELSE 0
      BY <1>1, <2>2 DEF RingTypeOK, Drop, Least
    <2> HIDE DEF n
    <2>4. used' = keep
      BY <1>1, <1>2, <1>3, <1>6, <2>2, <2>3 DEF RingTypeOK
    <2>5. Skip(len) + Drop(n) = used + len - keep
      BY <1>1, <1>3, <1>6, <2>1, <2>2, <2>3 DEF RingTypeOK
    <2> HIDE DEF all, keep
    <2> QED
      BY <1>2, <1>3, <1>5, <2>4, <2>5
  <1>8. Contents' = Run(pushed' - used', used')
    BY ContentsRunNext
  <1> HIDE DEF all, keep
  <1>9. SubSeq(all, Len(all) - keep + 1, Len(all)) = Run(pushed' - used', used')
    <2>1. SubSeq(all, Len(all) - keep + 1, Len(all))
            = Run((pushed - used) + (Len(all) - keep + 1) - 1,
                  Len(all) - (Len(all) - keep + 1) + 1)
      <3> DEFINE i == Len(all) - keep + 1
                 size == used + len
      <3>1. i \in 1..(size + 1) /\ Len(all) \in (i - 1)..size /\ size \in Nat
        BY <1>1, <1>3, <1>5, <1>6
      <3> HIDE DEF i, size
      <3>2. SubSeq(Run(pushed - used, size), i, Len(all))
              = Run((pushed - used) + i - 1, Len(all) - i + 1)
        BY <1>3, <3>1, RunSub
      <3> QED
        BY <1>4, <3>2 DEF i, size
    <2>2. /\ (pushed - used) + (Len(all) - keep + 1) - 1 = pushed' - used'
          /\ Len(all) - (Len(all) - keep + 1) + 1 = used'
      BY <1>1, <1>2, <1>3, <1>5, <1>6, <1>7
    <2> QED
      BY <2>1, <2>2
  <1> QED
    BY <1>2, <1>7, <1>8, <1>9 DEF Fifo!Push, all, keep

\* A read of the ring is a read of the queue.
LEMMA ReadImplements ==
    ASSUME RingInv, RingInv', NEW cap \in 1..MaxLen, Read(cap)
    PROVE  Fifo!Read(cap)
  <1> DEFINE n == Least(cap, used)
             m == Fifo!Least(cap, Len(Contents))
  <1>1. used \in Nat /\ pushed \in Int /\ pushed - used \in Int
    BY RingAssumption DEF RingInv, RingTypeOK
  <1>2. n \in 0..used
    BY <1>1, RingAssumption, SMT DEF Least
  <1>3. /\ out' = CopyOut(n)
        /\ used' = used - n
        /\ UNCHANGED <<pushed, lost>>
    BY DEF Read
  <1>4. Contents = Run(pushed - used, used) /\ Len(Contents) = used
    BY <1>1, ContentsRun, RunLen
  <1>5. m = n
    BY <1>4 DEF Least, Fifo!Least
  <1> HIDE DEF n, m
  <1>6. SubSeq(Contents, 1, n) = Run(pushed - used, n)
    <2>1. 1 \in 1..(used + 1) /\ n \in (1 - 1)..used
      BY <1>1, <1>2
    <2>2. SubSeq(Run(pushed - used, used), 1, n)
            = Run((pushed - used) + 1 - 1, n - 1 + 1)
      BY <1>1, <2>1, RunSub
    <2>3. (pushed - used) + 1 - 1 = pushed - used /\ n - 1 + 1 = n
      BY <1>1, <1>2
    <2> QED
      BY <1>4, <2>2, <2>3
  <1>7. SubSeq(Contents, n + 1, Len(Contents)) = Run(pushed' - used', used')
    <2>1. n + 1 \in 1..(used + 1) /\ used \in ((n + 1) - 1)..used
      BY <1>1, <1>2
    <2>2. SubSeq(Run(pushed - used, used), n + 1, used)
            = Run((pushed - used) + (n + 1) - 1, used - (n + 1) + 1)
      <3> DEFINE i == n + 1
      <3>1. i \in 1..(used + 1) /\ used \in (i - 1)..used
        BY <2>1
      <3> HIDE DEF i
      <3>2. SubSeq(Run(pushed - used, used), i, used)
              = Run((pushed - used) + i - 1, used - i + 1)
        BY <1>1, <3>1, RunSub
      <3> QED
        BY <3>2 DEF i
    <2>3. /\ (pushed - used) + (n + 1) - 1 = pushed' - used'
          /\ used - (n + 1) + 1 = used'
      BY <1>1, <1>2, <1>3
    <2> QED
      BY <1>4, <2>2, <2>3
  <1>8. Contents' = Run(pushed' - used', used')
    BY ContentsRunNext
  <1>9. out' = SubSeq(Contents, 1, n)
    BY <1>2, <1>3, <1>6, CopyOutRun
  <1> QED
    BY <1>3, <1>5, <1>7, <1>8, <1>9 DEF Fifo!Read, m

\* The ring of usbq.c is a bounded drop-oldest queue, for every capacity: what
\* a consumer can see of it is what usbq.h promises.
THEOREM RingImplementsFifo == RingSpec => ImplementsFifo
  <1>1. RingInit => Fifo!Init
    <2> SUFFICES ASSUME RingInit
                 PROVE  Fifo!Init
      OBVIOUS
    <2>1. Contents = <<>>
      BY DEF RingInit, Contents
    <2> QED
      BY <2>1 DEF RingInit, Fifo!Init
  <1>2. RingInv /\ RingInv' /\ [RingNext]_ringVars => [Fifo!Next]_(Fifo!vars)
    <2> SUFFICES ASSUME RingInv, RingInv', [RingNext]_ringVars
                 PROVE  [Fifo!Next]_(Fifo!vars)
      OBVIOUS
    <2>1. ASSUME NEW len \in 1..MaxLen, Push(len)
          PROVE  Fifo!Next
      BY <2>1, PushImplements DEF Fifo!Next
    <2>2. ASSUME NEW cap \in 1..MaxLen, Read(cap)
          PROVE  Fifo!Next
      BY <2>2, ReadImplements DEF Fifo!Next
    <2>3. CASE Flush
      <3>1. Contents' = <<>>
        BY <2>3 DEF Flush, FlushIndices, Contents
      <3> QED
        BY <2>3, <3>1 DEF Flush, Fifo!Next, Fifo!Flush
    <2>4. CASE UNCHANGED ringVars
      BY <2>4 DEF ringVars, Fifo!vars, Contents
    <2> QED
      BY <2>1, <2>2, <2>3, <2>4 DEF RingNext
  <1> QED
    BY <1>1, <1>2, InitRingInv, RingInvStep, PTL
    DEF RingSpec, ImplementsFifo, Fifo!Spec

-----------------------------------------------------------------------------
(***************************************************************************)
(* The runtime: counting.                                                  *)
(***************************************************************************)
Holders == {u \in Users : at[u] = "holding"}
Active  == {u \in Users : at[u] # "down"}

Counts ==
    /\ refs = Cardinality(Holders)
    /\ initRefs >= Cardinality(Active)
    /\ ctx <=> initRefs > 0

CountInv == TypeOK /\ Counts

\* The users are finite, so the holders and the active ones can be counted.
LEMMA SetsFinite ==
  /\ IsFiniteSet(Holders) /\ Cardinality(Holders) \in Nat
  /\ IsFiniteSet(Active) /\ Cardinality(Active) \in Nat
  /\ Cardinality(Holders) <= Cardinality(Users)
  /\ Cardinality(Users) \in Nat
<1>1. Holders \in SUBSET Users /\ Active \in SUBSET Users
  BY DEF Holders, Active
<1> QED
  BY <1>1, RuntimeAssumption, FS_Subset, FS_CardinalityType DEF RuntimeAssumption

LEMMA HoldersFit == ASSUME NEW S \in SUBSET Users
                    PROVE  IsFiniteSet(S) /\ Cardinality(S) \in 0..Cardinality(Users)
BY RuntimeAssumption, FS_Subset, FS_CardinalityType DEF RuntimeAssumption

\* A user that goes from one place to another leaves the sets of the others alone.
LEMMA SameCounts ==
  ASSUME TypeOK, NEW u \in Users, NEW step \in UserSteps, Goes(u, step),
         (at[u] = "holding") = (step = "holding"),
         (at[u] = "down") = (step = "down")
  PROVE  Holders' = Holders /\ Active' = Active
BY DEF Goes, TypeOK, Holders, Active

LEMMA CountInvInit == Init => CountInv
<1> SUFFICES ASSUME Init
             PROVE  CountInv
  OBVIOUS
<1>1. Holders = {} /\ Active = {}
  BY DEF Init, Holders, Active
<1>2. Cardinality(Users) \in Nat /\ MaxOpens \in Nat
  BY SetsFinite, RuntimeAssumption DEF RuntimeAssumption
<1>3. TypeOK
  <2>1. /\ tid \in Threads /\ joins \in [Users -> Threads]
        /\ thread \in [Threads -> ThreadSteps]
        /\ at \in [Users -> UserSteps]
    BY DEF Init, ThreadSteps, UserSteps
  <2>2. opens \in [Users -> 0..MaxOpens] /\ refs \in 0..Cardinality(Users)
    BY <1>2 DEF Init
  <2> QED
    BY <2>1, <2>2 DEF Init, TypeOK
<1> QED
  BY <1>1, <1>3, FS_EmptySet DEF CountInv, Counts, Init

\* The counters are exact, for every step of every user and thread.
LEMMA CountInvStep == CountInv /\ [Next]_vars => CountInv'
<1> SUFFICES ASSUME CountInv, [Next]_vars
             PROVE  CountInv'
  OBVIOUS
<1>0. /\ Cardinality(Users) \in Nat /\ MaxOpens \in Nat
      /\ TypeOK /\ Counts /\ refs \in Nat /\ initRefs \in Nat
      /\ Cardinality(Holders) \in Nat /\ Cardinality(Active) \in Nat
      /\ IsFiniteSet(Holders) /\ IsFiniteSet(Active)
      /\ IsFiniteSet(Holders') /\ Cardinality(Holders') \in 0..Cardinality(Users)
  <2>1. Holders' \in SUBSET Users
    BY DEF Holders
  <2> QED
    BY <2>1, SetsFinite, HoldersFit, RuntimeAssumption
    DEF RuntimeAssumption, CountInv, TypeOK
<1>1. ASSUME NEW u \in Users, Start(u)
      PROVE  CountInv'
  <2>1. Holders' = Holders /\ Active' = Active \cup {u} /\ u \notin Active
    BY <1>0, <1>1 DEF Start, Goes, TypeOK, Holders, Active
  <2>2. Cardinality(Active') = Cardinality(Active) + 1
    BY <1>0, <2>1, FS_AddElement
  <2>3. TypeOK'
    BY <1>0, <1>1 DEF Start, UsbqInit, Goes, TypeOK, UserSteps
  <2>4. Counts'
    BY <1>0, <1>1, <2>1, <2>2 DEF Start, UsbqInit, Counts
  <2> QED
    BY <2>3, <2>4 DEF CountInv
<1>2. ASSUME NEW u \in Users, OpenDevice(u)
      PROVE  CountInv'
  <2>1. Holders' = Holders /\ Active' = Active
    BY <1>2 DEF OpenDevice, Holders, Active
  <2>2. TypeOK'
    BY <1>0, <1>2 DEF OpenDevice, UsbqInit, TypeOK
  <2>3. Counts'
    BY <1>0, <1>2, <2>1 DEF OpenDevice, UsbqInit, Counts
  <2> QED
    BY <2>2, <2>3 DEF CountInv
<1>3. ASSUME NEW u \in Users, Shutdown(u)
      PROVE  CountInv'
  <2>1. Holders' = Holders /\ Active' = Active \ {u} /\ u \in Active
    BY <1>0, <1>3 DEF Shutdown, Goes, TypeOK, Holders, Active
  <2>2. Cardinality(Active') = Cardinality(Active) - 1
    BY <1>0, <2>1, FS_RemoveElement
  <2>3. Active # {}
    BY <2>1
  <2>4. Cardinality(Active) > 0
    BY <1>0, <2>3, FS_EmptySet
  <2>5. initRefs > 0
    BY <1>0, <2>4 DEF Counts
  <2>6. initRefs' = initRefs - 1 /\ ctx' = (ctx /\ ~LastCall)
    BY <1>0, <1>3, <2>5 DEF Shutdown, UsbqShutdown
  <2>7. ctx' \in BOOLEAN /\ (ctx' <=> initRefs' > 0)
    <3>1. ctx = TRUE
      BY <1>0, <2>5 DEF Counts, TypeOK
    <3>2. ctx' = (initRefs # 1)
      BY <2>6, <3>1 DEF LastCall
    <3>3. CASE initRefs = 1
      <4>1. ctx' = FALSE
        BY <3>2, <3>3
      <4>2. initRefs' = 0
        BY <2>6, <3>3
      <4>3. ~(initRefs' > 0)
        BY <4>2
      <4> QED
        BY <4>1, <4>3
    <3>4. CASE initRefs # 1
      <4>1. ctx' = TRUE
        BY <3>2, <3>4
      <4>2. initRefs' > 0
        BY <1>0, <2>5, <2>6, <3>4
      <4> QED
        BY <4>1, <4>2
    <3> QED
      BY <3>3, <3>4
  <2>8. TypeOK'
    BY <1>0, <1>3, <2>5, <2>6, <2>7 DEF Shutdown, Goes, TypeOK, UserSteps
  <2>9. Counts'
    BY <1>0, <1>3, <2>1, <2>2, <2>6, <2>7 DEF Shutdown, Counts
  <2> QED
    BY <2>8, <2>9 DEF CountInv
<1>4. ASSUME NEW u \in Users, Acquire(u)
      PROVE  CountInv'
  <2>1. at[u] = "up" /\ UNCHANGED <<ctx, initRefs, joins, opens>>
    BY <1>4 DEF Acquire
  <2>2. CASE refs' = refs + 1 /\ Goes(u, "holding")
    <3>1. /\ Holders' = Holders \cup {u} /\ u \notin Holders
          /\ Active' = Active
      BY <1>0, <2>1, <2>2 DEF Goes, TypeOK, Holders, Active
    <3>2. Cardinality(Holders') = Cardinality(Holders) + 1
      BY <1>0, <3>1, FS_AddElement
    <3>3. Counts'
      BY <1>0, <2>1, <2>2, <3>1, <3>2 DEF Counts
    <3>4. refs' \in 0..Cardinality(Users)
      BY <1>0, <3>3 DEF Counts
    <3>5. at' \in [Users -> UserSteps]
      BY <1>0, <2>2 DEF Goes, TypeOK, UserSteps
    <3>6. /\ alive' \in BOOLEAN /\ stop' \in BOOLEAN /\ tid' \in Threads
          /\ thread' \in [Threads -> ThreadSteps]
      BY <1>0, <1>4 DEF Acquire, ClearStop, TypeOK, ThreadSteps
    <3> QED
      BY <1>0, <2>1, <3>3, <3>4, <3>5, <3>6 DEF CountInv, TypeOK
  <2>3. CASE /\ refs = 0 /\ refs' = 0 /\ stop' = FALSE
             /\ UNCHANGED <<alive, tid, thread, at>>
    <3>1. Holders' = Holders /\ Active' = Active
      BY <2>3 DEF Holders, Active
    <3> QED
      BY <1>0, <2>1, <2>3, <3>1 DEF CountInv, Counts, TypeOK
  <2> QED
    BY <1>4, <2>2, <2>3 DEF Acquire, FirstUser, ClearStop
<1>5. ASSUME NEW u \in Users, Release(u)
      PROVE  CountInv'
  <2>1. /\ at[u] = "holding" /\ u \in Holders
        /\ UNCHANGED <<ctx, initRefs, alive, tid, thread, joins, opens>>
    BY <1>5 DEF Release, Holders
  <2>2. Holders # {}
    BY <2>1
  <2>3. refs > 0 /\ refs' = refs - 1
    BY <1>0, <1>5, <2>2, FS_EmptySet DEF Release, Released, Counts
  <2>4. stop' \in BOOLEAN /\ \E step \in {"join", "up"} : Goes(u, step)
    BY <1>0, <1>5 DEF Release, AskToStop, AfterLastRelease, TypeOK
  <2>5. PICK step \in {"join", "up"} : Goes(u, step)
    BY <2>4
  <2>6. Holders' = Holders \ {u} /\ Active' = Active
    BY <1>0, <2>1, <2>5 DEF Goes, TypeOK, Holders, Active
  <2>7. Cardinality(Holders') = Cardinality(Holders) - 1
    BY <1>0, <2>1, <2>6, FS_RemoveElement
  <2>8. at' \in [Users -> UserSteps]
    BY <1>0, <2>5 DEF Goes, TypeOK, UserSteps
  <2>9. Counts'
    BY <1>0, <2>1, <2>3, <2>6, <2>7 DEF Counts
  <2>10. TypeOK'
    BY <1>0, <2>1, <2>3, <2>4, <2>8 DEF TypeOK
  <2> QED
    BY <2>9, <2>10 DEF CountInv
<1>6. ASSUME NEW u \in Users, InRelease(u)
      PROVE  CountInv'
  <2>1. /\ Holders' = Holders /\ Active' = Active
        /\ at' \in [Users -> UserSteps]
    <3>1. \E step \in {"stuck", "joining", "relock", "up"} :
             Goes(u, step) /\ at[u] \in {"join", "joining", "relock"}
      BY <1>6 DEF InRelease, CallJoin, Joined, Relock
    <3>2. PICK step \in {"stuck", "joining", "relock", "up"} :
             Goes(u, step) /\ at[u] \in {"join", "joining", "relock"}
      BY <3>1
    <3>3. at' \in [Users -> UserSteps]
      BY <1>0, <3>2 DEF Goes, TypeOK, UserSteps
    <3> QED
      BY <1>0, <3>2, <3>3, SameCounts DEF UserSteps
  <2>2. UNCHANGED <<ctx, initRefs, refs, stop, tid, opens>>
    BY <1>6 DEF InRelease, CallJoin, Joined, Relock
  <2>3. /\ alive' \in BOOLEAN /\ joins' \in [Users -> Threads]
        /\ thread' \in [Threads -> ThreadSteps]
    <3>1. CASE CallJoin(u)
      BY <1>0, <3>1 DEF CallJoin, TypeOK
    <3>2. CASE Joined(u)
      BY <1>0, <3>2 DEF Joined, TypeOK, ThreadSteps
    <3>3. CASE Relock(u)
      BY <1>0, <3>3 DEF Relock, TypeOK
    <3> QED
      BY <1>6, <3>1, <3>2, <3>3 DEF InRelease
  <2> QED
    BY <1>0, <2>1, <2>2, <2>3 DEF CountInv, Counts, TypeOK
<1>7. ASSUME NEW t \in Threads, TestStop(t) \/ Poll(t)
      PROVE  CountInv'
  <2>1. /\ thread' \in [Threads -> ThreadSteps]
        /\ UNCHANGED <<ctx, initRefs, refs, alive, stop, tid, at, joins, opens>>
    BY <1>0, <1>7 DEF TestStop, Poll, TypeOK, ThreadSteps
  <2> QED
    BY <1>0, <2>1 DEF CountInv, Counts, TypeOK, Holders, Active
<1>8. CASE UNCHANGED vars
  BY <1>0, <1>8 DEF vars, CountInv, Counts, TypeOK, Holders, Active
<1> QED
  BY <1>1, <1>2, <1>3, <1>4, <1>5, <1>6, <1>7, <1>8 DEF Next

\* Every variable keeps its type; in particular g_evt.refcount never exceeds the
\* number of users, nor goes below zero.
THEOREM TypeCorrect == Spec => []TypeOK
<1>1. CountInv => TypeOK
  BY DEF CountInv
<1> QED
  BY <1>1, CountInvInit, CountInvStep, PTL DEF Spec

\* The two reference counts are exact, also when users overlap.
THEOREM CountsExact == Spec => []Counts
<1>1. CountInv => Counts
  BY DEF CountInv
<1> QED
  BY <1>1, CountInvInit, CountInvStep, PTL DEF Spec

-----------------------------------------------------------------------------
(***************************************************************************)
(* The event thread, with calls that follow one another.                   *)
(***************************************************************************)
Joiner(u) == at[u] \in {"join", "joining"}

EvtInv ==
    /\ \A t \in Threads \ {tid} : thread[t] = "none"
    /\ \A u \in Users : at[u] # "stuck"
    /\ \A u, v \in Users : Releasing(u) /\ Releasing(v) => u = v
    /\ \A u \in Users : Releasing(u) => refs = 0
    /\ \A u \in Users : Joiner(u) => thread[tid] # "none"
    /\ \A u \in Users : at[u] = "joining" => joins[u] = tid
    /\ refs > 0 => alive /\ ~stop /\ thread[tid] \in {"test", "poll"}
    /\ thread[tid] # "none" => refs > 0 \/ \E u \in Users : Joiner(u)

LEMMA EvtInvStep ==
  ASSUME ~Overlap, CountInv, EvtInv, [Next]_vars
  PROVE  EvtInv'
<1>0. /\ TypeOK /\ Counts /\ refs \in Nat /\ tid \in Threads
      /\ thread \in [Threads -> ThreadSteps]
      /\ at \in [Users -> UserSteps] /\ joins \in [Users -> Threads]
  BY DEF CountInv, TypeOK
<1> USE DEF Releasing, Joiner
<1>1. ASSUME NEW u \in Users, Goes(u, "up") \/ Goes(u, "down"),
             ~Releasing(u),
             UNCHANGED <<refs, alive, stop, tid, thread, joins>>
      PROVE  EvtInv'
  <2>1. \A v \in Users : at'[v] = at[v] \/ (v = u /\ at'[v] \in {"up", "down"})
    BY <1>0, <1>1 DEF Goes
  <2>2. \A v \in Users : Joiner(v) => at'[v] = at[v]
    BY <1>1, <2>1
  <2> QED
    BY <1>1, <2>1, <2>2 DEF EvtInv
<1>2. ASSUME NEW u \in Users, Start(u) \/ OpenDevice(u) \/ Shutdown(u)
      PROVE  EvtInv'
  <2>1. CASE OpenDevice(u)
    BY <2>1 DEF OpenDevice, EvtInv
  <2>2. CASE Start(u) \/ Shutdown(u)
    BY <1>1, <2>2 DEF Start, Shutdown
  <2> QED
    BY <1>2, <2>1, <2>2
<1>3. ASSUME NEW u \in Users, Acquire(u)
      PROVE  EvtInv'
  <2>1. /\ at[u] = "up" /\ joins' = joins
        /\ \A v \in Users : ~Releasing(v)
    BY <1>3 DEF Acquire, EvtCallAllowed
  <2>2. CASE refs = 0 /\ refs' = 0
    <3>1. UNCHANGED <<alive, tid, thread, at>>
      BY <1>3, <2>2, <1>0 DEF Acquire, FirstUser
    <3> QED
      BY <2>1, <2>2, <3>1 DEF EvtInv
  <2>3. CASE refs = 0 /\ refs' = 1
    <3>1. PICK t \in Threads : /\ thread[t] = "none"
                               /\ thread' = [thread EXCEPT ![t] = "test"]
                               /\ tid' = t /\ alive' = TRUE /\ stop' = FALSE
                               /\ Goes(u, "holding")
      BY <1>3, <2>3 DEF Acquire, FirstUser, ClearStop
    <3>2. \A v \in Users : at'[v] = at[v] \/ at'[v] = "holding"
      BY <1>0, <3>1 DEF Goes
    <3>3. \A s \in Threads : thread[s] = "none"
      BY <2>1, <2>3 DEF EvtInv
    <3>4. /\ thread'[tid'] = "test"
          /\ \A s \in Threads \ {tid'} : thread'[s] = "none"
      BY <1>0, <3>1, <3>3
    <3> QED
      BY <2>1, <2>3, <3>1, <3>2, <3>4 DEF EvtInv
  <2>4. CASE refs > 0
    <3>1. refs' = refs + 1 /\ Goes(u, "holding") /\ UNCHANGED <<alive, stop, tid, thread>>
      BY <1>0, <1>3, <2>4 DEF Acquire, FirstUser
    <3>2. \A v \in Users : at'[v] = at[v] \/ at'[v] = "holding"
      BY <1>0, <3>1 DEF Goes
    <3> QED
      BY <1>0, <2>1, <2>4, <3>1, <3>2 DEF EvtInv
  <2> QED
    BY <1>0, <1>3, <2>2, <2>3, <2>4 DEF Acquire, FirstUser
<1>4. ASSUME NEW u \in Users, Release(u)
      PROVE  EvtInv'
  <2>1. /\ at[u] = "holding" /\ refs' = Released
        /\ UNCHANGED <<alive, tid, thread, joins>>
        /\ \A v \in Users : ~Releasing(v)
    BY <1>4 DEF Release, EvtCallAllowed
  <2>2. u \in Holders
    BY <2>1 DEF Holders
  <2>3. refs > 0
    BY <1>0, <2>2, SetsFinite, FS_EmptySet DEF Counts
  <2>4. alive /\ ~stop /\ thread[tid] \in {"test", "poll"} /\ refs' = refs - 1
    BY <2>1, <2>3 DEF EvtInv, Released
  <2>5. CASE refs = 1
    <3>1. stop' = TRUE /\ Goes(u, "join") /\ refs' = 0
      BY <1>4, <2>4, <2>5 DEF Release, AskToStop, AfterLastRelease
    <3>2. at'[u] = "join" /\ \A v \in Users \ {u} : at'[v] = at[v]
      BY <1>0, <3>1 DEF Goes
    <3>3. \A v \in Users : Releasing(v)' => v = u
      BY <2>1, <3>2
    <3>4. \A v \in Users : at'[v] # "joining" /\ at'[v] # "stuck"
      BY <2>1, <3>2
    <3>5. thread'[tid'] # "none" /\ tid' = tid /\ ~(refs' > 0)
      BY <2>1, <2>4, <3>1
    <3>6. \A t \in Threads \ {tid'} : thread'[t] = "none"
      BY <2>1 DEF EvtInv
    <3> QED
      BY <3>1, <3>2, <3>3, <3>4, <3>5, <3>6 DEF EvtInv
  <2>6. CASE refs # 1
    <3>1. stop' = stop /\ Goes(u, "up") /\ refs' > 0
      BY <1>0, <1>4, <2>3, <2>4, <2>6 DEF Release
    <3>2. at'[u] = "up" /\ \A v \in Users \ {u} : at'[v] = at[v]
      BY <1>0, <3>1 DEF Goes
    <3> QED
      BY <2>1, <2>4, <3>1, <3>2 DEF EvtInv
  <2> QED
    BY <2>5, <2>6
<1>5. ASSUME NEW u \in Users, CallJoin(u)
      PROVE  EvtInv'
  <2>1. /\ at[u] = "join" /\ joins' = [joins EXCEPT ![u] = tid]
        /\ UNCHANGED <<refs, alive, stop, tid, thread>>
    BY <1>5 DEF CallJoin
  <2>2. thread[tid] # "none" /\ \A v \in Users \ {u} : ~Releasing(v)
    BY <2>1 DEF EvtInv
  <2>3. Goes(u, "joining")
    BY <1>5, <2>2 DEF CallJoin
  <2>4. /\ at'[u] = "joining" /\ joins'[u] = tid
        /\ \A v \in Users \ {u} : at'[v] = at[v]
    BY <1>0, <2>1, <2>3 DEF Goes
  <2>5. refs = 0
    BY <2>1 DEF EvtInv
  <2> QED
    BY <2>1, <2>2, <2>4, <2>5 DEF EvtInv
<1>6. ASSUME NEW u \in Users, Joined(u)
      PROVE  EvtInv'
  <2>1. /\ at[u] = "joining" /\ Goes(u, "relock")
        /\ thread' = [thread EXCEPT ![joins[u]] = "none"]
        /\ UNCHANGED <<refs, alive, stop, tid, joins>>
    BY <1>6 DEF Joined
  <2>2. /\ joins[u] = tid /\ refs = 0
        /\ \A v \in Users \ {u} : ~Releasing(v)
    BY <2>1 DEF EvtInv
  <2>3. \A t \in Threads : thread'[t] = "none"
    BY <1>0, <2>1, <2>2 DEF EvtInv
  <2>4. at'[u] = "relock" /\ \A v \in Users \ {u} : at'[v] = at[v]
    BY <1>0, <2>1 DEF Goes
  <2> QED
    BY <1>0, <2>1, <2>2, <2>3, <2>4 DEF EvtInv
<1>7. ASSUME NEW u \in Users, Relock(u)
      PROVE  EvtInv'
  <2>1. /\ at[u] = "relock" /\ Goes(u, "up")
        /\ UNCHANGED <<refs, stop, tid, thread, joins>>
    BY <1>7 DEF Relock
  <2>2. refs = 0 /\ \A v \in Users \ {u} : ~Releasing(v)
    BY <2>1 DEF EvtInv
  <2>3. at'[u] = "up" /\ \A v \in Users \ {u} : at'[v] = at[v]
    BY <1>0, <2>1 DEF Goes
  <2>4. thread[tid] = "none"
    BY <2>1, <2>2 DEF EvtInv
  <2> QED
    BY <2>1, <2>2, <2>3, <2>4 DEF EvtInv
<1>8. ASSUME NEW t \in Threads, TestStop(t) \/ Poll(t)
      PROVE  EvtInv'
  <2>1. UNCHANGED <<refs, alive, stop, tid, at, joins>>
    BY <1>8 DEF TestStop, Poll
  <2>2. t = tid
    BY <1>8 DEF TestStop, Poll, EvtInv
  <2>3. /\ thread'[tid] \in {"test", "poll", "exited"}
        /\ ~stop => thread'[tid] \in {"test", "poll"}
        /\ \A s \in Threads \ {tid} : thread'[s] = thread[s]
    BY <1>0, <1>8, <2>2 DEF TestStop, Poll
  <2>4. thread[tid] # "none"
    BY <1>8, <2>2 DEF TestStop, Poll
  <2> QED
    BY <2>1, <2>3, <2>4 DEF EvtInv
<1>9. CASE UNCHANGED vars
  BY <1>9 DEF vars, EvtInv
<1> QED
  BY <1>2, <1>3, <1>4, <1>5, <1>6, <1>7, <1>8, <1>9 DEF Next, InRelease

LEMMA EvtInvInit == Init => EvtInv
BY DEF Init, EvtInv, Releasing, Joiner

\* There is one event thread, the one whose identity g_evt.tid holds, and whoever
\* holds it has one that nobody asked to stop: for every number of users, when
\* their calls into the counter follow one another.
THEOREM OneEventThread == ASSUME ~Overlap PROVE Spec => []Singleton
<1>1. CountInv /\ EvtInv => Singleton
  <2> SUFFICES ASSUME CountInv, EvtInv
               PROVE  Singleton
    OBVIOUS
  <2>1. Live \subseteq {tid} /\ tid \in Threads
    BY DEF EvtInv, Live, CountInv, TypeOK
  <2>2. Live = {} \/ Live = {tid}
    BY <2>1
  <2>3. Cardinality(Live) <= 1
    <3>1. Cardinality(Live) = 0 \/ Cardinality(Live) = 1
      BY <2>2, FS_EmptySet, FS_Singleton
    <3> QED
      BY <3>1
  <2>4. ASSUME NEW u \in Users, at[u] = "holding"
        PROVE  Live = {tid} /\ alive /\ ~stop
    <3>1. u \in Holders
      BY <2>4 DEF Holders
    <3>2. refs > 0
      BY <3>1, SetsFinite, FS_EmptySet DEF CountInv, Counts
    <3>3. alive /\ ~stop /\ thread[tid] \in {"test", "poll"}
      BY <3>2 DEF EvtInv
    <3> QED
      BY <2>1, <2>2, <3>3 DEF Live
  <2> QED
    BY <2>3, <2>4 DEF Singleton
<1> QED
  BY <1>1, CountInvInit, CountInvStep, EvtInvInit, EvtInvStep, PTL DEF Spec

\* The context outlives every user and the event thread: nobody's usbq_shutdown
\* takes it from another, and the last usbq_evt_release leaves no thread behind.
THEOREM ContextOutlives == ASSUME ~Overlap PROVE Spec => []ContextInUse
<1>1. CountInv /\ EvtInv => ContextInUse
  <2> SUFFICES ASSUME CountInv, EvtInv
               PROVE  ContextInUse
    OBVIOUS
  <2>1. ASSUME NEW u \in Users, at[u] # "down"
        PROVE  ctx
    <3>1. u \in Active
      BY <2>1 DEF Active
    <3>2. Cardinality(Active) > 0
      BY <3>1, SetsFinite, FS_EmptySet
    <3> QED
      BY <3>2, SetsFinite DEF CountInv, Counts, TypeOK
  <2>2. ASSUME Live # {}
        PROVE  \E u \in Users : at[u] # "down"
    <3>1. thread[tid] # "none"
      BY <2>2 DEF Live, EvtInv
    <3>2. CASE refs > 0
      <4>1. Holders # {}
        BY <3>2, FS_EmptySet DEF CountInv, Counts
      <4> QED
        BY <4>1 DEF Holders
    <3>3. CASE \E u \in Users : Joiner(u)
      BY <3>3 DEF Joiner
    <3> QED
      BY <3>1, <3>2, <3>3 DEF EvtInv
  <2> QED
    BY <2>1, <2>2 DEF ContextInUse
<1> QED
  BY <1>1, CountInvInit, CountInvStep, EvtInvInit, EvtInvStep, PTL DEF Spec
=============================================================================
