--------------------------- MODULE TsFramerProofs ---------------------------
(***************************************************************************)
(* Proofs about TsFramer for every packet and read size: the tool always   *)
(* has room to read, frames the bytes in order, counts a loss once and     *)
(* throws a bounded number of bytes away for it.                           *)
(*                                                                         *)
(* A read needs room in the staging buffer.  The room depends on what the  *)
(* acquisition and the frame loop leave in it, so the invariant says, for  *)
(* each place of main, what is still staged (Staged): less than a packet   *)
(* once locked, at most two before.  The order of the bytes needs, beyond  *)
(* BytesInOrder itself, that the last byte framed is older than the ring.  *)
(* The two about losses are an accounting: what has been counted or thrown *)
(* away, together with what the bytes ahead can still cost, never exceeds  *)
(* what the overflows and the false sync values so far account for (the    *)
(* second part of this module).                                            *)
(***************************************************************************)
EXTENDS TsFramer, SequenceTheorems, FiniteSetTheorems, TLAPS

Staged ==
    /\ pc \in {"args", "discover", "tune", "lockWait", "alloc"} =>
          stage = <<>> /\ consumed = 0 /\ ~locked
    /\ pc = "read" =>
          /\ consumed = 0
          /\ Len(stage) <= 2 * PacketSize
          /\ locked => Len(stage) < PacketSize
    /\ pc = "acquire" => consumed = 0 /\ ~locked
    /\ pc = "frame" /\ ~locked => consumed = Len(stage)

TypeInv == TypeOK /\ Staged

\* What is left of the stage from a given byte on.
LEMMA FromProperties ==
  ASSUME stage \in Seq(Nat), NEW i \in Nat \ {0}, i <= Len(stage) + 1
  PROVE  /\ From(i) \in Seq(Nat)
         /\ Len(From(i)) = Len(stage) - i + 1
         /\ \A k \in 1..Len(From(i)) : From(i)[k] = stage[i + k - 1]
<1>1. /\ i \in 1..(Len(stage) + 1)
      /\ Len(stage) \in (i - 1)..Len(stage)
  BY LenProperties
<1>2. \A k \in 1..(Len(stage) - i + 1) : stage[i + k - 1] \in Nat
  BY <1>1, ElementOfSeq
<1> QED
  BY <1>1, <1>2, SubSeqProperties DEF From

\* What the stage holds after a read of n bytes.
LEMMA AppendedByte ==
  ASSUME stage \in Seq(Nat), next \in Nat, NEW n \in Nat,
         NEW s, s = stage \o [i \in 1..n |-> next + i - 1]
  PROVE  /\ s \in Seq(Nat)
         /\ Len(s) = Len(stage) + n
         /\ \A k \in 1..Len(stage) : s[k] = stage[k]
         /\ \A k \in (Len(stage) + 1)..(Len(stage) + n) :
               s[k] = next + k - Len(stage) - 1
<1> DEFINE new == [i \in 1..n |-> next + i - 1]
<1>1. new \in Seq(Nat) /\ Len(new) = n
  OBVIOUS
<1>2. \A k \in 1..n : new[k] = next + k - 1
  OBVIOUS
<1> HIDE DEF new
<1> QED
  BY <1>1, <1>2, ConcatProperties

\* A start is an index of the stage with a packet behind it.
LEMMA StartInStage ==
  ASSUME stage \in Seq(Nat), FramerAssumption, NEW i \in Nat \ {0},
         NEW j \in First(Starts(i))
  PROVE  j \in Nat \ {0} /\ i <= j /\ j <= Len(stage)
BY LenProperties DEF First, Starts, FramerAssumption

\* A failed acquisition keeps at most two packets' worth.
LEMMA KeepFromInStage ==
  ASSUME FramerAssumption, Len(stage) \in Nat
  PROVE  /\ KeepFrom \in Nat \ {0} /\ KeepFrom <= Len(stage) + 1
         /\ Len(stage) - KeepFrom + 1 <= 2 * PacketSize
<1> USE DEF FramerAssumption
<1>1. CASE Len(stage) > 2 * PacketSize
  <2>1. KeepFrom = Len(stage) - 2 * PacketSize + 1
    BY <1>1 DEF KeepFrom
  <2> QED
    BY <1>1, <2>1
<1>2. CASE ~(Len(stage) > 2 * PacketSize)
  <2>1. KeepFrom = 1
    BY <1>2 DEF KeepFrom
  <2> QED
    BY <1>2, <2>1
<1> QED
  BY <1>1, <1>2

\* main goes on to another place: nothing is staged before the read loop, and
\* only Alloc enters the loop.
LEMMA GotoKeeps ==
  ASSUME TypeInv, FramerAssumption, NEW label, Goto(label),
         devices' \in BOOLEAN, late' \in BOOLEAN,
         \/ label \in {"summary", "shutdown", "exit"}
         \/ /\ label \in {"discover", "tune", "lockWait", "alloc", "read"}
            /\ pc \in {"args", "discover", "tune", "lockWait", "alloc"}
  PROVE  TypeInv'
<1>1. /\ pc' = label
      /\ UNCHANGED <<stage, consumed, locked, badSync, total, matched, success>>
      /\ UNCHANGED <<next, fakes, gaps, written, skipped>>
  BY DEF Goto, framer, counts, ring, history
<1>2. TypeOK'
  BY <1>1 DEF TypeInv, TypeOK
<1>3. Staged'
  <2>1. CASE label \in {"summary", "shutdown", "exit"}
    BY <1>1, <2>1 DEF Staged
  <2>2. CASE /\ label \in {"discover", "tune", "lockWait", "alloc", "read"}
             /\ pc \in {"args", "discover", "tune", "lockWait", "alloc"}
    <3>1. stage = <<>> /\ consumed = 0 /\ ~locked
      BY <2>2 DEF TypeInv, Staged
    <3>2. Len(stage) = 0
      BY <3>1
    <3>3. 0 <= 2 * PacketSize
      BY FramerAssumption DEF FramerAssumption
    <3> QED
      BY <1>1, <2>2, <3>1, <3>2, <3>3 DEF Staged
  <2> QED
    BY <2>1, <2>2
<1> QED
  BY <1>2, <1>3 DEF TypeInv

\* The type invariant and what is staged at each place of main are kept by every
\* step.
LEMMA TypeInvStep == TypeInv /\ [Next]_vars => TypeInv'
<1> SUFFICES ASSUME TypeInv, [Next]_vars
             PROVE  TypeInv'
  OBVIOUS
<1> USE FramerAssumption DEF FramerAssumption
<1>0. /\ stage \in Seq(Nat) /\ Len(stage) \in Nat
      /\ consumed \in Nat /\ next \in Nat
  BY LenProperties DEF TypeInv, TypeOK
<1>b. devices \in BOOLEAN /\ late \in BOOLEAN
  BY DEF TypeInv, TypeOK
<1>1. CASE Args
  BY <1>1, <1>b, GotoKeeps DEF Args
<1>2. CASE Discover
  BY <1>2, <1>b, GotoKeeps DEF Discover
<1>3. CASE Tune
  BY <1>3, <1>b, GotoKeeps DEF Tune
<1>4. CASE Lock \/ NoLock
  BY <1>4, <1>b, GotoKeeps DEF Lock, NoLock
<1>5. CASE Alloc
  BY <1>5, <1>b, GotoKeeps DEF Alloc
<1>6. CASE Clock
  BY <1>6 DEF Clock, TypeInv, TypeOK, Staged, framer, counts, ring, history
<1>7. ASSUME NEW n \in 1..PacketSize, Overflow(n)
      PROVE  TypeInv'
  BY <1>7, <1>0 DEF Overflow, TypeInv, TypeOK, Staged, main, framer, counts, history
<1>8. ASSUME NEW n \in 1..ReadSize, Read(n)
      PROVE  TypeInv'
  <2>1. /\ pc = "read" /\ n <= Want
        /\ stage' = stage \o [i \in 1..n |-> next + i - 1]
        /\ next' = next + n
        /\ pc' = IF locked THEN "frame" ELSE "acquire"
        /\ UNCHANGED <<devices, late, consumed, locked, counts, fakes, gaps, history>>
    BY <1>8 DEF Read
  <2>2. stage' \in Seq(Nat) /\ Len(stage') = Len(stage) + n
    BY <1>0, <2>1, AppendedByte
  <2>3. Len(stage') <= StageSize
    BY <1>0, <2>1, <2>2 DEF Want, Least, StageSize
  <2>4. consumed = 0 /\ consumed' = 0 /\ locked' = locked
    BY <2>1 DEF TypeInv, Staged
  <2>5. TypeOK'
    BY <1>0, <1>b, <2>1, <2>2, <2>3, <2>4 DEF TypeInv, TypeOK, counts, history, StageSize
  <2>6. Staged'
    BY <2>1, <2>4 DEF Staged
  <2> QED
    BY <2>5, <2>6 DEF TypeInv
<1>9. CASE ReadError \/ TimeUp
  BY <1>9, <1>b, GotoKeeps DEF ReadError, TimeUp
<1>10. CASE Acquire
  <2>1. PICK i \in First(Starts(1)) : AcquireAt(i)
    BY <1>10 DEF Acquire
  <2>2. i \in Nat \ {0} /\ i <= Len(stage)
    BY <1>0, <2>1, StartInStage
  <2>3. /\ stage' = From(i)
        /\ skipped' = skipped + i - 1
        /\ UNCHANGED <<devices, late, consumed, counts, ring, written>>
    BY <2>1 DEF AcquireAt
  <2>4. i <= Len(stage) + 1
    BY <1>0, <2>2
  <2>5. From(i) \in Seq(Nat) /\ Len(From(i)) = Len(stage) - i + 1
    BY <1>0, <2>2, <2>4, FromProperties
  <2>6. pc = "acquire" /\ pc' = "frame" /\ locked' = TRUE
    BY <1>10 DEF Acquire
  <2> QED
    BY <1>0, <2>2, <2>3, <2>5, <2>6 DEF TypeInv, TypeOK, Staged, counts, ring, StageSize
<1>11. CASE NotAcquired
  <2>1. /\ KeepFrom \in Nat \ {0} /\ KeepFrom <= Len(stage) + 1
        /\ Len(stage) - KeepFrom + 1 <= 2 * PacketSize
    BY <1>0, KeepFromInStage
  <2>2. /\ stage' = From(KeepFrom)
        /\ skipped' = skipped + KeepFrom - 1
        /\ UNCHANGED <<devices, late, consumed, counts, ring, written, locked>>
        /\ pc = "acquire" /\ pc' = "read"
    BY <1>11 DEF NotAcquired, AcquireAt
  <2> DEFINE k == KeepFrom
  <2> HIDE DEF k
  <2>3. k \in Nat \ {0} /\ k <= Len(stage) + 1 /\ Len(stage) - k + 1 <= 2 * PacketSize
    BY <2>1 DEF k
  <2>4. /\ stage' = From(k)
        /\ skipped' = skipped + k - 1
    BY <2>2 DEF k
  <2>5. stage' \in Seq(Nat) /\ Len(stage') = Len(stage) - k + 1
    BY <1>0, <2>3, <2>4, FromProperties
  <2> QED
    BY <1>0, <2>2, <2>3, <2>4, <2>5 DEF TypeInv, TypeOK, Staged, counts, ring, StageSize
<1>12. ASSUME NEW match \in BOOLEAN, NEW ok \in BOOLEAN, Emit(match, ok)
       PROVE  TypeInv'
  <2>1. stage[consumed + PacketSize] \in Nat
    BY <1>0, <1>12, ElementOfSeq DEF Emit, Whole
  <2>2. /\ pc = "frame" /\ consumed + PacketSize <= Len(stage)
        /\ total' = total + 1
        /\ matched' = (matched \/ match)
        /\ written' \in Nat
        /\ UNCHANGED <<devices, late, stage, locked, badSync, success, ring, skipped>>
    BY <1>12, <2>1 DEF Emit, Whole
  <2>3. \/ pc' = "summary" /\ consumed' = consumed
        \/ pc' = pc /\ consumed' = consumed + PacketSize
    BY <1>12 DEF Emit
  <2>4. locked
    BY <1>0, <2>2 DEF TypeInv, TypeOK, Staged
  <2> QED
    BY <1>0, <2>2, <2>3, <2>4 DEF TypeInv, TypeOK, Staged, ring
<1>13. CASE Resync
  <2>1. PICK i \in First(Starts(consumed + 1)) : ResyncTo(i - 1)
    BY <1>13 DEF Resync
  <2>2. i \in Nat \ {0} /\ consumed + 1 <= i /\ i <= Len(stage)
    BY <1>0, <2>1, StartInStage
  <2>3. pc = "frame" /\ Whole /\ UNCHANGED locked
    BY <1>13 DEF Resync
  <2>4. locked
    BY <1>0, <2>3 DEF TypeInv, TypeOK, Staged, Whole
  <2> QED
    BY <1>0, <2>1, <2>2, <2>3, <2>4 DEF ResyncTo, TypeInv, TypeOK, Staged, main, ring
<1>14. CASE SyncLost
  <2>1. /\ pc = "frame" /\ pc' = "frame" /\ ~locked' /\ locked' \in BOOLEAN
        /\ badSync' = badSync + 1
        /\ consumed' = Len(stage)
        /\ skipped' = skipped + Len(stage) - consumed
        /\ UNCHANGED <<devices, late, stage, total, matched, success, ring, written>>
    BY <1>14 DEF SyncLost, ResyncTo, LockAfterLoss, main
  <2>2. consumed <= Len(stage)
    BY DEF TypeInv, TypeOK
  <2>3. skipped' \in Nat
    BY <1>0, <2>1, <2>2 DEF TypeInv, TypeOK
  <2> QED
    BY <1>0, <2>1, <2>3 DEF TypeInv, TypeOK, Staged, ring
<1>15. CASE Compact
  <2>1. /\ pc = "frame" /\ ~Whole
        /\ stage' = From(consumed + 1)
        /\ consumed' = 0 /\ pc' = "read"
        /\ UNCHANGED <<devices, late, locked, counts, ring, history>>
    BY <1>15 DEF Compact, Rest
  <2>a. consumed + 1 \in Nat \ {0} /\ consumed + 1 <= Len(stage) + 1
    BY <1>0 DEF TypeInv, TypeOK
  <2>b. stage' \in Seq(Nat) /\ Len(stage') = Len(stage) - (consumed + 1) + 1
    BY <1>0, <2>1, <2>a, FromProperties
  <2>2. stage' \in Seq(Nat) /\ Len(stage') = Len(stage) - consumed
    BY <1>0, <2>a, <2>b DEF TypeInv, TypeOK
  <2>3. Len(stage') < PacketSize
    BY <1>0, <2>1, <2>2 DEF Whole
  <2>4. Len(stage') <= StageSize
    BY <1>0, <2>1, <2>3 DEF StageSize
  <2>5. TypeOK'
    BY <1>0, <2>1, <2>2, <2>4 DEF TypeInv, TypeOK, counts, ring, history, StageSize
  <2>6. Staged'
    BY <1>0, <2>1, <2>2, <2>3 DEF Staged
  <2> QED
    BY <2>5, <2>6 DEF TypeInv
<1>16. CASE Summary
  BY <1>16 DEF Summary, TypeInv, TypeOK, Staged, framer, ring, history
<1>17. CASE Shutdown
  BY <1>17, <1>b, GotoKeeps DEF Shutdown
<1>18. CASE UNCHANGED vars
  BY <1>18 DEF vars, main, framer, counts, ring, history, TypeInv, TypeOK, Staged
<1> QED
  BY <1>1, <1>2, <1>3, <1>4, <1>5, <1>6, <1>7, <1>8, <1>9, <1>10, <1>11, <1>12,
     <1>13, <1>14, <1>15, <1>16, <1>17, <1>18 DEF Next, Frame

LEMMA TypeInvInit == Init => TypeInv
<1> SUFFICES ASSUME Init PROVE TypeInv
  OBVIOUS
<1>1. stage = <<>> /\ consumed = 0
  BY DEF Init
<1>2. stage \in Seq(Nat) /\ Len(stage) = 0
  BY <1>1
<1>3. StageSize \in Nat
  BY FramerAssumption DEF FramerAssumption, StageSize
<1>4. next \in Nat /\ fakes \subseteq Fakes /\ gaps \in 0..MaxGaps
  BY FramerAssumption DEF FramerAssumption, Init
<1>5. TypeOK
  <2>1. /\ pc = "args" /\ devices = FALSE /\ late = FALSE /\ locked = FALSE
        /\ badSync = 0 /\ total = 0 /\ matched = FALSE /\ success = FALSE
        /\ written = -1 /\ skipped = 0
    BY DEF Init
  <2>2. consumed \in Nat /\ consumed <= Len(stage) /\ Len(stage) <= StageSize
    BY <1>1, <1>2, <1>3
  <2>3. written \in Int /\ skipped \in Nat /\ badSync \in Nat /\ total \in Nat
    BY <2>1
  <2>4. /\ late \in BOOLEAN /\ devices \in BOOLEAN /\ locked \in BOOLEAN
        /\ matched \in BOOLEAN /\ success \in BOOLEAN
    BY <2>1
  <2> QED
    BY <1>2, <1>4, <2>1, <2>2, <2>3, <2>4 DEF TypeOK
<1> QED
  BY <1>1, <1>5 DEF Init, TypeInv, Staged

\* Every variable of the tool keeps its type; the staging buffer is never
\* overrun.
THEOREM TypeCorrect == Spec => []TypeOK
<1>1. TypeInv => TypeOK
  BY DEF TypeInv
<1> QED
  BY <1>1, TypeInvInit, TypeInvStep, PTL DEF Spec

\* Whatever the ring hands out and however often sync is lost, the tool has room
\* to read: it never asks read_ts for no bytes.
THEOREM AlwaysRoom == Spec => []RoomToRead
<1>1. TypeInv => RoomToRead
  BY FramerAssumption, LenProperties
  DEF FramerAssumption, TypeInv, TypeOK, Staged, RoomToRead, Want, Least, StageSize
<1> QED
  BY <1>1, TypeInvInit, TypeInvStep, PTL DEF Spec

-----------------------------------------------------------------------------
\* The order of the bytes, inductively: what is framed has left the ring.
OrderInv == BytesInOrder /\ written < next

\* The part of the order that a shorter, later stage needs.
LEMMA SuffixInOrder ==
  ASSUME stage \in Seq(Nat), consumed \in Nat, written \in Int, next \in Nat,
         \A i, j \in 1..Len(stage) : i < j => stage[i] < stage[j],
         \A i \in 1..Len(stage) :
            stage[i] < next /\ (i > consumed => written < stage[i]),
         NEW k \in Nat \ {0}, consumed < k, k <= Len(stage) + 1,
         NEW s, s = From(k)
  PROVE  /\ \A i, j \in DOMAIN s : i < j => s[i] < s[j]
         /\ \A i \in DOMAIN s : s[i] < next /\ written < s[i]
<1>1. /\ s \in Seq(Nat) /\ Len(s) = Len(stage) - k + 1
      /\ \A i \in 1..Len(s) : s[i] = stage[i + k - 1]
  <2>1. /\ From(k) \in Seq(Nat) /\ Len(From(k)) = Len(stage) - k + 1
        /\ \A i \in 1..Len(From(k)) : From(k)[i] = stage[k + i - 1]
    BY FromProperties
  <2>2. \A i \in 1..Len(s) : k + i - 1 = i + k - 1
    OBVIOUS
  <2> QED
    BY <2>1, <2>2
<1>2. DOMAIN s = 1..Len(s) /\ Len(s) \in Nat /\ Len(stage) \in Nat
  <2>1. s \in Seq(Nat)
    BY <1>1
  <2> QED
    BY <2>1, LenProperties
<1>3. \A i \in 1..Len(s) : i + k - 1 \in 1..Len(stage) /\ i + k - 1 > consumed
  BY <1>1, <1>2
<1>4. \A i \in 1..Len(s) : s[i] < next /\ written < s[i]
  BY <1>1, <1>3
<1>5. ASSUME NEW i \in 1..Len(s), NEW j \in 1..Len(s), i < j
      PROVE  s[i] < s[j]
  <2>1. i + k - 1 < j + k - 1
    BY <1>2, <1>5
  <2> QED
    BY <1>1, <1>3, <2>1
<1> QED
  BY <1>2, <1>4, <1>5

LEMMA OrderInvStep == TypeInv /\ OrderInv /\ [Next]_vars => OrderInv'
<1> SUFFICES ASSUME TypeInv, OrderInv, [Next]_vars
             PROVE  OrderInv'
  OBVIOUS
<1> USE FramerAssumption DEF FramerAssumption
<1>0. /\ stage \in Seq(Nat) /\ Len(stage) \in Nat /\ DOMAIN stage = 1..Len(stage)
      /\ consumed \in Nat /\ consumed <= Len(stage)
      /\ next \in Nat /\ written \in Int
      /\ \A i \in 1..Len(stage) : stage[i] \in Nat
  BY LenProperties, ElementOfSeq DEF TypeInv, TypeOK
<1>a. /\ written < next
      /\ \A i, j \in 1..Len(stage) : i < j => stage[i] < stage[j]
      /\ \A i \in 1..Len(stage) : stage[i] < next
      /\ pc \in {"read", "acquire", "frame"} =>
            \A i \in 1..Len(stage) : i > consumed => written < stage[i]
  BY <1>0 DEF OrderInv, BytesInOrder
<1>1. CASE /\ UNCHANGED <<stage, consumed, next, written>>
           /\ \/ pc' \notin {"read", "acquire", "frame"}
              \/ pc \in {"read", "acquire", "frame"}
              \/ stage = <<>>
  <2>1. stage = <<>> => Len(stage) = 0
    OBVIOUS
  <2>2. pc' \in {"read", "acquire", "frame"} =>
            \A i \in 1..Len(stage) : i > consumed => written < stage[i]
    BY <1>1, <1>a, <2>1, <1>0
  <2> QED
    BY <1>0, <1>1, <1>a, <2>2 DEF OrderInv, BytesInOrder
<1>2. ASSUME NEW n \in 1..PacketSize, Overflow(n)
      PROVE  OrderInv'
  <2>1. /\ next' = next + n
        /\ UNCHANGED <<pc, stage, consumed, written>>
    BY <1>2 DEF Overflow, main, framer, history
  <2>2. /\ written < next'
        /\ \A i \in 1..Len(stage) : stage[i] < next'
    BY <1>0, <1>a, <2>1
  <2> QED
    BY <1>0, <1>a, <2>1, <2>2 DEF OrderInv, BytesInOrder
<1>3. ASSUME NEW n \in 1..ReadSize, Read(n)
      PROVE  OrderInv'
  <2>1. /\ pc = "read"
        /\ stage' = stage \o [i \in 1..n |-> next + i - 1]
        /\ next' = next + n
        /\ UNCHANGED <<consumed, written>>
    BY <1>3 DEF Read, history
  <2>2. /\ stage' \in Seq(Nat) /\ Len(stage') = Len(stage) + n
        /\ \A k \in 1..Len(stage) : stage'[k] = stage[k]
        /\ \A k \in (Len(stage) + 1)..(Len(stage) + n) :
              stage'[k] = next + k - Len(stage) - 1
    BY <1>0, <2>1, AppendedByte
  <2>3. DOMAIN stage' = 1..(Len(stage) + n)
    BY <2>2, LenProperties
  <2>4. ASSUME NEW i \in 1..(Len(stage) + n)
        PROVE  stage'[i] < next' /\ (i > consumed => written < stage'[i])
    <3>1. CASE i \in 1..Len(stage)
      BY <1>0, <1>a, <2>1, <2>2, <3>1
    <3>2. CASE i \in (Len(stage) + 1)..(Len(stage) + n)
      BY <1>0, <1>a, <2>1, <2>2, <3>2
    <3> QED
      BY <1>0, <3>1, <3>2
  <2>5. ASSUME NEW i \in 1..(Len(stage) + n), NEW j \in 1..(Len(stage) + n), i < j
        PROVE  stage'[i] < stage'[j]
    <3>1. CASE j \in 1..Len(stage)
      <4>1. i \in 1..Len(stage)
        BY <1>0, <2>5, <3>1
      <4> QED
        BY <1>a, <2>2, <2>5, <3>1, <4>1
    <3>2. CASE i \in 1..Len(stage) /\ j \in (Len(stage) + 1)..(Len(stage) + n)
      <4>1. stage'[i] = stage[i] /\ stage[i] < next /\ stage[i] \in Nat
        BY <1>0, <1>a, <2>2, <3>2
      <4>2. stage'[j] = next + j - Len(stage) - 1
        BY <2>2, <3>2
      <4> QED
        BY <1>0, <3>2, <4>1, <4>2
    <3>3. CASE /\ i \in (Len(stage) + 1)..(Len(stage) + n)
               /\ j \in (Len(stage) + 1)..(Len(stage) + n)
      BY <1>0, <2>2, <2>5, <3>3
    <3> QED
      BY <1>0, <2>5, <3>1, <3>2, <3>3
  <2>6. written < next'
    BY <1>0, <1>a, <2>1
  <2> QED
    BY <2>1, <2>3, <2>4, <2>5, <2>6 DEF OrderInv, BytesInOrder
<1>4. ASSUME NEW k \in Nat \ {0}, consumed < k, k <= Len(stage) + 1,
             pc \in {"acquire", "frame"},
             stage' = From(k), next' = next, written' = written
      PROVE  OrderInv'
  <2>1. /\ \A i, j \in DOMAIN stage' : i < j => stage'[i] < stage'[j]
        /\ \A i \in DOMAIN stage' : stage'[i] < next /\ written < stage'[i]
    BY <1>0, <1>a, <1>4, SuffixInOrder
  <2> QED
    BY <1>a, <1>4, <2>1 DEF OrderInv, BytesInOrder
<1>5. CASE Acquire
  <2>1. PICK i \in First(Starts(1)) : AcquireAt(i)
    BY <1>5 DEF Acquire
  <2>2. i \in Nat \ {0} /\ i <= Len(stage)
    BY <1>0, <2>1, StartInStage
  <2>3. stage' = From(i) /\ next' = next /\ written' = written
    BY <2>1 DEF AcquireAt, ring
  <2>4. pc = "acquire" /\ consumed = 0
    BY <1>5 DEF Acquire, TypeInv, Staged
  <2>5. i <= Len(stage) + 1 /\ consumed < i
    BY <1>0, <2>2, <2>4
  <2> QED
    BY <1>4, <2>2, <2>3, <2>4, <2>5
<1>6. CASE NotAcquired
  <2>1. KeepFrom \in Nat \ {0} /\ KeepFrom <= Len(stage) + 1
    BY <1>0, KeepFromInStage
  <2>2. /\ stage' = From(KeepFrom) /\ next' = next /\ written' = written
        /\ pc = "acquire" /\ consumed = 0
    BY <1>6 DEF NotAcquired, AcquireAt, ring, TypeInv, Staged
  <2>3. consumed < KeepFrom
    BY <2>1, <2>2
  <2> QED
    BY <1>4, <2>1, <2>2, <2>3
<1>7. ASSUME NEW match \in BOOLEAN, NEW ok \in BOOLEAN, Emit(match, ok)
      PROVE  OrderInv'
  <2>1. /\ pc = "frame" /\ consumed + PacketSize <= Len(stage)
        /\ written' = stage[consumed + PacketSize]
        /\ \/ pc' = "summary"
           \/ pc' = pc /\ consumed' = consumed + PacketSize
        /\ UNCHANGED <<stage, next>>
    BY <1>7 DEF Emit, Whole, ring
  <2> DEFINE last == consumed + PacketSize
  <2>2. last \in 1..Len(stage)
    BY <1>0, <2>1
  <2>3. \A i \in 1..Len(stage) : i > last => stage[last] < stage[i]
    BY <1>a, <2>2
  <2>4. stage[last] < next
    BY <1>a, <2>2
  <2>5. written' = stage[last] /\ (pc' = "summary" \/ consumed' = last)
    BY <2>1
  <2> HIDE DEF last
  <2>6. pc' # "summary" => pc' = pc /\ consumed' = last
    BY <2>1 DEF last
  <2>7. DOMAIN stage' = 1..Len(stage) /\ stage' = stage /\ next' = next
    BY <1>0, <2>1
  <2>8. written' < next'
    BY <2>4, <2>5, <2>7
  <2>9. pc' \in {"read", "acquire", "frame"} =>
            \A i \in 1..Len(stage) : i > consumed' => written' < stage[i]
    BY <2>3, <2>5, <2>6
  <2> QED
    BY <1>a, <2>7, <2>8, <2>9 DEF OrderInv, BytesInOrder
<1>8. ASSUME NEW i \in Nat, consumed <= i, ResyncTo(i), pc = "frame"
      PROVE  OrderInv'
  <2>1. pc' = pc /\ consumed' = i /\ UNCHANGED <<stage, next, written>>
    BY <1>8 DEF ResyncTo, main, ring
  <2>2. \A j \in 1..Len(stage) : j > i => written < stage[j]
    BY <1>0, <1>8, <1>a
  <2> QED
    BY <1>0, <1>a, <2>1, <2>2 DEF OrderInv, BytesInOrder
<1>9. CASE Resync
  <2>1. PICK i \in First(Starts(consumed + 1)) : ResyncTo(i - 1)
    BY <1>9 DEF Resync
  <2>2. i \in Nat \ {0} /\ consumed + 1 <= i
    BY <1>0, <2>1, StartInStage
  <2>3. i - 1 \in Nat /\ consumed <= i - 1
    BY <1>0, <2>2
  <2>4. pc = "frame"
    BY <1>9 DEF Resync
  <2> QED
    BY <1>8, <2>1, <2>3, <2>4
<1>10. CASE SyncLost
  BY <1>0, <1>8, <1>10 DEF SyncLost
<1>11. CASE Compact
  <2>1. /\ pc = "frame"
        /\ stage' = From(consumed + 1) /\ next' = next /\ written' = written
    BY <1>11 DEF Compact, Rest, ring, history
  <2>2. /\ consumed + 1 \in Nat \ {0} /\ consumed < consumed + 1
        /\ consumed + 1 <= Len(stage) + 1
    BY <1>0
  <2> QED
    BY <1>4, <2>1, <2>2
<1>12. CASE Args \/ Discover \/ Tune \/ Lock \/ NoLock
  BY <1>1, <1>12
  DEF Args, Discover, Tune, Lock, NoLock, Goto, framer, ring, history
<1>13. CASE Alloc
  <2>1. stage = <<>>
    BY <1>13 DEF Alloc, TypeInv, Staged
  <2>2. UNCHANGED <<stage, consumed, next, written>>
    BY <1>13 DEF Alloc, Goto, framer, ring, history
  <2> QED
    BY <1>1, <2>1, <2>2
<1>14. CASE Clock
  BY <1>1, <1>14 DEF Clock, framer, ring, history
<1>15. CASE ReadError \/ TimeUp \/ Summary \/ Shutdown
  BY <1>1, <1>15
  DEF ReadError, TimeUp, Summary, Shutdown, Goto, framer, ring, history
<1>16. CASE UNCHANGED vars
  BY <1>1, <1>16 DEF vars, main, framer, ring, history
<1> QED
  BY <1>2, <1>3, <1>5, <1>6, <1>7, <1>9, <1>10, <1>11, <1>12, <1>13, <1>14,
     <1>15, <1>16 DEF Next, Frame

\* No byte is framed twice or out of order, however often the ring overflows and
\* sync is lost.
THEOREM FramedInOrder == Spec => []BytesInOrder
<1>1. Init => OrderInv
  BY FramerAssumption DEF FramerAssumption, Init, OrderInv, BytesInOrder
<1>2. OrderInv => BytesInOrder
  BY DEF OrderInv
<1> QED
  BY <1>1, <1>2, TypeInvInit, TypeInvStep, OrderInvStep, PTL DEF Spec

-----------------------------------------------------------------------------
(***************************************************************************)
(* How often sync is lost, and what a loss costs.  What the stage still    *)
(* holds of the stream goes on in the ring (Byte); where it does not go on *)
(* from one byte to the next, there is a break.  The tool is astray when   *)
(* it is locked and the next packet is taken to start off the grid.        *)
(*                                                                         *)
(* When it is astray one loss is owed, and every break and every pair of   *)
(* false sync values that is still ahead can make for one more (Balance);  *)
(* a break inside the packet that is taken to start astray can not.        *)
(*                                                                         *)
(* Three packets' worth is put aside for each of them (Cost).  What is     *)
(* skipped before a break without coming upon a start is paid by the       *)
(* breaks that it leaves behind (Segments); what is owed now depends on    *)
(* where the tool is in the stream (Budget).                               *)
(***************************************************************************)
Byte(i) == IF i <= Len(stage) THEN stage[i] ELSE next

Ahead == Byte(consumed + 1)

OnGrid(byte) == byte % PacketSize = 0

Breaks(i) == {stage[k] : k \in {k \in i..Len(stage) : Byte(k + 1) # stage[k] + 1}}

Astray == locked /\ ~OnGrid(Ahead)

BreaksAhead ==
    Breaks(IF Astray /\ IsSync(Ahead) THEN consumed + 1 + PacketSize ELSE consumed + 1)

PairsAhead == {f \in FakePairs : f > Ahead \/ (f = Ahead /\ ~locked)}

\* Bytes that are not as far apart as their places have a break between them.
Spread ==
    \A i, j \in 1..(Len(stage) + 1) :
        i < j /\ Byte(j) - Byte(i) # j - i =>
            \E k \in i..(j - 1) : Byte(k + 1) # stage[k] + 1

Balance ==
    badSync + (IF Astray THEN 1 ELSE 0) + Cardinality(BreaksAhead) + Cardinality(PairsAhead)
        <= gaps + Cardinality(FakePairs)

\* How far it is from a position to the next packet.
Dist(byte) == IF OnGrid(byte) THEN 0 ELSE PacketSize - (byte % PacketSize)

\* Nothing before j looks like a start; the bytes from k to j follow one another.
NoStart(i, j) ==
    \A k \in i..(j - 1 - PacketSize) : ~(IsSync(stage[k]) /\ IsSync(stage[k + PacketSize]))

Run(k, j) == \A m \in k..j : Byte(m) = Byte(k) + m - k

Cost(S) == 3 * PacketSize * Cardinality(S)

Allowed == PacketSize - 1 + 3 * PacketSize * gaps + Cost(FakePairs)

Segments ==
    \A i, j \in 1..(Len(stage) + 1) :
        i <= j /\ NoStart(i, j) =>
            \E k \in i..j :
               /\ Run(k, j)
               /\ \/ k = i
                  \/ (k - i) + 2 * PacketSize + Cost(Breaks(k))
                       <= Dist(Byte(i)) + Cost(Breaks(i))

\* Locked, there is nothing to pay on the grid; a packet that is taken may have
\* its breaks paid already.
LockedBudget ==
    \/ skipped + (IF OnGrid(Ahead) THEN 0 ELSE 2 * PacketSize - 1)
          + Cost(Breaks(consumed + 1)) + Cost(PairsAhead) <= Allowed
    \/ /\ IsSync(Ahead)
       /\ skipped + (2 * PacketSize - 1)
             + Cost(Breaks(consumed + 1 + PacketSize)) + Cost(PairsAhead) <= Allowed

\* Not locked, the way to the next packet is to pay; what is staged up to a
\* place where no start is left may be written off already.
SearchBudget ==
    \E k \in (consumed + 1)..(Len(stage) + 1) :
        /\ NoStart(consumed + 1, k)
        /\ skipped + (IF k = consumed + 1 THEN Dist(Ahead) ELSE k - (consumed + 1) + 2 * PacketSize)
              + Cost(Breaks(k)) + Cost(PairsAhead) <= Allowed

Budget == IF locked THEN LockedBudget ELSE SearchBudget

LossInv == Spread /\ Balance /\ Segments /\ Budget

\* A packet on, a position is where it was in its packet.
LEMMA SamePlace ==
  ASSUME NEW a \in Nat
  PROVE  OnGrid(a + PacketSize) <=> OnGrid(a)
<1> DEFINE n == PacketSize
           b == a + n
           q == a \div n
           p == b \div n
           r == a % n
           s == b % n
<1>1. n \in Nat /\ n > 0
  BY FramerAssumption
<1>2. b \in Nat /\ b = a + n
  BY <1>1
<1> HIDE DEF n, b
<1>3. a = n * q + r /\ q \in Int /\ r \in 0..(n - 1)
  BY <1>1
<1>4. b = n * p + s /\ p \in Int /\ s \in 0..(n - 1)
  BY <1>1, <1>2
<1> DEFINE d == p - q
<1>5. d \in Int
  BY <1>3, <1>4
<1> HIDE DEF q, p, r, s
<1>6. n * (d - 1) = r - s
  BY <1>1, <1>2, <1>3, <1>4
<1> HIDE DEF d
<1>7. r = s
  <2>1. CASE d - 1 = 0
    <3>1. n * (d - 1) = 0
      BY <1>1, <2>1
    <3> QED
      BY <1>3, <1>4, <1>6, <3>1
  <2>2. CASE d - 1 >= 1
    <3>1. n * (d - 1) >= n
      BY <1>1, <1>5, <2>2
    <3> QED
      BY <1>1, <1>3, <1>4, <1>6, <3>1
  <2>3. CASE d - 1 <= -1
    <3>1. n * (d - 1) <= -n
      BY <1>1, <1>5, <2>3
    <3> QED
      BY <1>1, <1>3, <1>4, <1>6, <3>1
  <2> QED
    BY <1>5, <2>1, <2>2, <2>3
<1> QED
  BY <1>7 DEF OnGrid, r, s, b, n

\* Whole packets end on the grid, and the grid is a packet wide.
LEMMA Multiple ==
  ASSUME NEW q \in Nat
  PROVE  PacketSize * q \in Nat /\ OnGrid(PacketSize * q)
<1> DEFINE n == PacketSize
           b == n * q
           p == b \div n
           s == b % n
<1>1. n \in Nat /\ n > 0
  BY FramerAssumption
<1>2. b \in Nat /\ b = n * q
  BY <1>1
<1> HIDE DEF n, b
<1>3. b = n * p + s /\ p \in Int /\ s \in 0..(n - 1)
  BY <1>1, <1>2
<1> DEFINE d == q - p
<1>4. d \in Int
  BY <1>3
<1> HIDE DEF p, s
<1>5. n * d = s
  BY <1>1, <1>2, <1>3 DEF d
<1> HIDE DEF d
<1>6. s = 0
  <2>1. CASE d >= 1
    <3>1. n * d >= n
      BY <1>1, <1>4, <2>1
    <3> QED
      BY <1>1, <1>3, <1>5, <3>1
  <2>2. CASE d <= 0
    <3>1. n * d <= 0
      BY <1>1, <1>4, <2>2
    <3> QED
      BY <1>3, <1>5, <3>1
  <2> QED
    BY <1>4, <2>1, <2>2
<1> QED
  BY <1>2, <1>6 DEF OnGrid, s, b, n

LEMMA NextOnGrid ==
  ASSUME NEW a \in Nat, NEW b \in Nat, OnGrid(a), OnGrid(b), a < b
  PROVE  a + PacketSize <= b
<1> DEFINE n == PacketSize
           q == a \div n
           p == b \div n
<1>1. n \in Nat /\ n > 0
  BY FramerAssumption
<1> HIDE DEF n
<1>2. a % n = 0 /\ b % n = 0
  BY DEF OnGrid, n
<1>3. a = n * q /\ q \in Int /\ b = n * p /\ p \in Int
  BY <1>1, <1>2
<1> DEFINE d == p - q
<1>4. d \in Int /\ n * d = b - a
  BY <1>1, <1>3
<1> HIDE DEF q, p, d
<1>5. d >= 1
  <2>1. CASE d <= 0
    <3>1. n * d <= 0
      BY <1>1, <1>4, <2>1
    <3> QED
      BY <1>4, <3>1
  <2> QED
    BY <1>4, <2>1
<1>6. n * d >= n
  BY <1>1, <1>4, <1>5
<1> QED
  BY <1>1, <1>4, <1>6 DEF n

LEMMA DistFacts ==
  ASSUME NEW a \in Nat
  PROVE  /\ Dist(a) \in Nat /\ Dist(a) <= PacketSize - 1
         /\ OnGrid(a) => Dist(a) = 0
         /\ OnGrid(a + Dist(a))
         /\ \A b \in Nat : OnGrid(b) /\ a <= b => a + Dist(a) <= b
<1> DEFINE n == PacketSize
           q == a \div n
           r == a % n
<1>1. n \in Nat /\ n > 0
  BY FramerAssumption
<1>2. a = n * q + r /\ q \in Nat /\ r \in 0..(n - 1)
  BY <1>1
<1>3. Dist(a) = (IF r = 0 THEN 0 ELSE n - r) /\ (OnGrid(a) <=> r = 0)
  BY DEF Dist, OnGrid
<1> HIDE DEF n, q, r
<1>4. Dist(a) \in Nat /\ Dist(a) <= n - 1 /\ (OnGrid(a) => Dist(a) = 0)
  BY <1>1, <1>2, <1>3
<1>5. OnGrid(a + Dist(a))
  <2>1. CASE r = 0
    <3>1. a + Dist(a) = a
      BY <1>3, <2>1
    <3> QED
      BY <1>3, <2>1, <3>1
  <2>2. CASE r # 0
    <3>1. Dist(a) = n - r
      BY <1>3, <2>2
    <3>2. a + Dist(a) = n * q + n
      BY <1>1, <1>2, <3>1
    <3>3. n * q + n = n * (q + 1)
      BY <1>1, <1>2
    <3>4. OnGrid(n * (q + 1))
      BY <1>2, Multiple DEF n
    <3> QED
      BY <3>2, <3>3, <3>4
  <2> QED
    BY <2>1, <2>2
<1>6. ASSUME NEW b \in Nat, OnGrid(b), a <= b
      PROVE  a + Dist(a) <= b
  <2>1. CASE b < a + Dist(a)
    <3>1. b + n <= a + Dist(a)
      BY <1>4, <1>5, <1>6, <2>1, NextOnGrid DEF n
    <3> QED
      BY <1>1, <1>4, <1>6, <3>1
  <2> QED
    BY <1>4, <2>1
<1> QED
  BY <1>4, <1>5, <1>6 DEF n

\* Counting parts of finite sets.
LEMMA Part ==
  ASSUME NEW S, IsFiniteSet(S), NEW T, T \subseteq S
  PROVE  /\ IsFiniteSet(T) /\ Cardinality(T) \in Nat /\ Cardinality(S) \in Nat
         /\ Cardinality(T) <= Cardinality(S)
BY FS_Subset, FS_CardinalityType

LEMMA SmallerPart ==
  ASSUME NEW S, IsFiniteSet(S), NEW T, T \subseteq S, NEW x \in S, x \notin T
  PROVE  Cardinality(T) + 1 <= Cardinality(S)
<1>1. T \subseteq S \ {x}
  OBVIOUS
<1>2. IsFiniteSet(S \ {x}) /\ Cardinality(S \ {x}) = Cardinality(S) - 1
  BY FS_RemoveElement
<1>3. Cardinality(T) <= Cardinality(S \ {x}) /\ Cardinality(T) \in Nat /\ Cardinality(S) \in Nat
  BY <1>1, <1>2, Part
<1> QED
  BY <1>2, <1>3

LEMMA OneMore ==
  ASSUME NEW S, IsFiniteSet(S), NEW x, NEW T, T \subseteq S \union {x}
  PROVE  /\ IsFiniteSet(T) /\ Cardinality(T) \in Nat /\ Cardinality(S) \in Nat
         /\ Cardinality(T) <= Cardinality(S) + 1
<1>1. /\ IsFiniteSet(S \union {x})
      /\ Cardinality(S \union {x}) = IF x \in S THEN Cardinality(S) ELSE Cardinality(S) + 1
  BY FS_AddElement
<1>2. /\ IsFiniteSet(T) /\ Cardinality(T) \in Nat
      /\ Cardinality(T) <= Cardinality(S \union {x})
  BY <1>1, Part
<1>3. Cardinality(S) \in Nat
  BY FS_CardinalityType
<1> QED
  BY <1>1, <1>2, <1>3

\* The same of what they cost.
LEMMA CostFacts ==
  ASSUME NEW S, IsFiniteSet(S)
  PROVE  /\ Cost(S) \in Nat
         /\ \A T \in SUBSET S : IsFiniteSet(T) /\ Cost(T) \in Nat /\ Cost(T) <= Cost(S)
         /\ \A T \in SUBSET S : \A x \in S \ T : Cost(T) + 3 * PacketSize <= Cost(S)
         /\ \A x : x \notin S => Cost(S \union {x}) = Cost(S) + 3 * PacketSize
<1> DEFINE w == 3 * PacketSize
           n == Cardinality(S)
<1>1. w \in Nat /\ n \in Nat
  BY FramerAssumption, FS_CardinalityType
<1>2. \A T : Cost(T) = w * Cardinality(T)
  BY DEF Cost
<1> HIDE DEF w
<1>3. Cost(S) \in Nat
  BY <1>1, <1>2
<1>4. ASSUME NEW m \in Nat, NEW k \in Nat, m <= k
      PROVE  w * m <= w * k /\ w * m \in Nat
  <2>1. k - m \in Nat
    BY <1>4
  <2>2. w * (k - m) >= 0
    BY <1>1, <2>1
  <2> QED
    BY <1>1, <2>2
<1>5. ASSUME NEW T \in SUBSET S
      PROVE  IsFiniteSet(T) /\ Cost(T) \in Nat /\ Cost(T) <= Cost(S)
  <2>1. IsFiniteSet(T) /\ Cardinality(T) \in Nat /\ Cardinality(T) <= n
    BY Part
  <2> HIDE DEF n
  <2> QED
    BY <1>1, <1>2, <1>4, <2>1 DEF n
<1>6. ASSUME NEW T \in SUBSET S, NEW x \in S \ T
      PROVE  Cost(T) + w <= Cost(S)
  <2>1. Cardinality(T) + 1 <= n
    BY SmallerPart
  <2> DEFINE m == Cardinality(T)
  <2>2. m \in Nat
    BY Part
  <2>3. Cost(T) = w * m /\ Cost(S) = w * n
    BY <1>2
  <2> HIDE DEF m, n
  <2>4. w * (m + 1) <= w * n
    BY <1>1, <1>4, <2>1, <2>2 DEF m
  <2>5. w * (m + 1) = w * m + w
    BY <1>1, <2>2
  <2> QED
    BY <2>3, <2>4, <2>5
<1>7. ASSUME NEW x, x \notin S
      PROVE  Cost(S \union {x}) = Cost(S) + w
  <2>1. Cardinality(S \union {x}) = n + 1
    BY <1>7, FS_AddElement
  <2>2. Cost(S \union {x}) = w * (n + 1) /\ Cost(S) = w * n
    BY <1>2, <2>1
  <2> HIDE DEF n
  <2> QED
    BY <1>1, <2>2
<1> QED
  BY <1>3, <1>5, <1>6, <1>7 DEF w

\* The bytes ahead, and what can be counted of them.
LEMMA FramerFacts ==
  ASSUME TypeInv, OrderInv
  PROVE  /\ PacketSize \in Nat /\ PacketSize > 0
         /\ stage \in Seq(Nat) /\ Len(stage) \in Nat /\ DOMAIN stage = 1..Len(stage)
         /\ consumed \in Nat /\ consumed <= Len(stage)
         /\ next \in Nat /\ badSync \in Nat /\ gaps \in Nat /\ locked \in BOOLEAN
         /\ \A i \in Nat \ {0} : Byte(i) \in Nat
         /\ \A i, j \in 1..(Len(stage) + 1) : i < j => Byte(i) < Byte(j)
         /\ IsFiniteSet(FakePairs)
<1>1. /\ PacketSize \in Nat /\ PacketSize > 0
      /\ stage \in Seq(Nat) /\ Len(stage) \in Nat /\ DOMAIN stage = 1..Len(stage)
      /\ consumed \in Nat /\ consumed <= Len(stage)
      /\ next \in Nat /\ badSync \in Nat /\ gaps \in Nat /\ locked \in BOOLEAN
  BY FramerAssumption, LenProperties DEF TypeInv, TypeOK
<1>2. /\ \A i, j \in 1..Len(stage) : i < j => stage[i] < stage[j]
      /\ \A i \in 1..Len(stage) : stage[i] < next /\ stage[i] \in Nat
  BY <1>1, ElementOfSeq DEF OrderInv, BytesInOrder
<1>3. \A i \in Nat \ {0} : Byte(i) \in Nat
  BY <1>1, <1>2 DEF Byte
<1>4. ASSUME NEW i \in 1..(Len(stage) + 1), NEW j \in 1..(Len(stage) + 1), i < j
      PROVE  Byte(i) < Byte(j)
  <2>1. i \in 1..Len(stage) /\ Byte(i) = stage[i]
    BY <1>1, <1>4 DEF Byte
  <2>2. CASE j <= Len(stage)
    BY <1>1, <1>2, <1>4, <2>1, <2>2 DEF Byte
  <2>3. CASE ~(j <= Len(stage))
    BY <1>2, <2>1, <2>3 DEF Byte
  <2> QED
    BY <2>2, <2>3
<1>5. IsFiniteSet(FakePairs)
  <2>1. FakePairs \subseteq Fakes
    BY DEF FakePairs, TypeInv, TypeOK
  <2> QED
    BY <2>1, FramerAssumption, Part
<1> QED
  BY <1>1, <1>3, <1>4, <1>5

\* Breaks are where they are, and fewer from further on.
LEMMA BreakFacts ==
  ASSUME TypeInv, OrderInv, NEW i \in Nat \ {0}
  PROVE  /\ IsFiniteSet(Breaks(i)) /\ Cardinality(Breaks(i)) \in Nat
         /\ \A j \in Nat : i <= j => Breaks(j) \subseteq Breaks(i)
         /\ i > Len(stage) => Breaks(i) = {}
         /\ \A j \in Nat : \A k \in i..(j - 1) :
               k <= Len(stage) /\ Byte(k + 1) # stage[k] + 1 =>
                  stage[k] \in Breaks(i) /\ stage[k] \notin Breaks(j)
<1>1. /\ Len(stage) \in Nat /\ next \in Nat
      /\ \A j, k \in 1..(Len(stage) + 1) : j < k => Byte(j) < Byte(k)
  BY FramerFacts
<1>2. \A k \in 1..Len(stage) : stage[k] \in 0..next
  <2>1. \A k \in 1..Len(stage) : stage[k] \in Nat /\ stage[k] < next
    BY ElementOfSeq, FramerFacts DEF OrderInv, BytesInOrder
  <2> QED
    BY <1>1, <2>1
<1>3. Breaks(i) \subseteq 0..next
  BY <1>1, <1>2 DEF Breaks
<1>4. IsFiniteSet(Breaks(i)) /\ Cardinality(Breaks(i)) \in Nat
  <2>1. IsFiniteSet(0..next)
    BY <1>1, FS_Interval
  <2> QED
    BY <1>3, <2>1, Part
<1>5. ASSUME NEW j \in Nat, i <= j PROVE Breaks(j) \subseteq Breaks(i)
  <2>1. j..Len(stage) \subseteq i..Len(stage)
    BY <1>1, <1>5
  <2> QED
    BY <2>1 DEF Breaks
<1>6. i > Len(stage) => Breaks(i) = {}
  <2>1. i > Len(stage) => i..Len(stage) = {}
    BY <1>1
  <2> QED
    BY <2>1 DEF Breaks
<1>7. ASSUME NEW j \in Nat, NEW k \in i..(j - 1), k <= Len(stage), Byte(k + 1) # stage[k] + 1
      PROVE  stage[k] \in Breaks(i) /\ stage[k] \notin Breaks(j)
  <2>1. k \in i..Len(stage)
    BY <1>1, <1>7
  <2>2. stage[k] \in Breaks(i)
    BY <1>7, <2>1 DEF Breaks
  <2>3. ASSUME NEW m \in j..Len(stage) PROVE stage[m] # stage[k]
    <3>1. k < m /\ k \in 1..Len(stage) /\ m \in 1..Len(stage)
      BY <1>1, <2>1, <2>3
    <3>2. stage[k] < stage[m]
      BY <3>1, FramerFacts DEF OrderInv, BytesInOrder
    <3> QED
      BY <1>2, <3>1, <3>2
  <2> QED
    BY <2>2, <2>3 DEF Breaks
<1> QED
  BY <1>4, <1>5, <1>6, <1>7

\* A packet that is not whole in the stream has a break in it.
LEMMA BrokenPacket ==
  ASSUME TypeInv, OrderInv, Spread, NEW i \in Nat \ {0}, i + PacketSize <= Len(stage) + 1,
         Byte(i + PacketSize) # Byte(i) + PacketSize
  PROVE  \E b \in Breaks(i) : b \notin Breaks(i + PacketSize)
<1>1. PacketSize \in Nat /\ PacketSize > 0 /\ Len(stage) \in Nat
      /\ Byte(i) \in Nat /\ Byte(i + PacketSize) \in Nat
  BY FramerFacts
<1> DEFINE j == i + PacketSize
<1>2. /\ i \in 1..(Len(stage) + 1) /\ j \in 1..(Len(stage) + 1) /\ i < j /\ j \in Nat
      /\ Byte(j) - Byte(i) # j - i
  BY <1>1
<1> HIDE DEF j
<1>3. PICK k \in i..(j - 1) : Byte(k + 1) # stage[k] + 1
  BY <1>2 DEF Spread
<1>4. k <= Len(stage)
  BY <1>1, <1>2, <1>3
<1>5. stage[k] \in Breaks(i) /\ stage[k] \notin Breaks(j)
  BY <1>2, <1>3, <1>4, BreakFacts
<1> QED
  BY <1>5 DEF j

\* A start off the grid is a pair of false sync values, or its packet is broken.
LEMMA FalseStart ==
  ASSUME TypeInv, OrderInv, Spread, NEW i \in Nat \ {0}, NEW j \in Starts(i),
         ~OnGrid(stage[j])
  PROVE  \/ stage[j] \in FakePairs
         \/ \E b \in Breaks(j) : b \notin Breaks(j + PacketSize)
<1> DEFINE k == j + PacketSize
<1>1. PacketSize \in Nat /\ PacketSize > 0 /\ Len(stage) \in Nat
  BY FramerFacts
<1>2. /\ j \in 1..Len(stage) /\ j \in Nat \ {0} /\ k \in 1..Len(stage)
      /\ IsSync(stage[j]) /\ IsSync(stage[k])
  BY <1>1 DEF Starts
<1>3. stage[j] \in Nat /\ stage[k] \in Nat
  BY <1>2, FramerFacts, ElementOfSeq
<1>4. CASE stage[k] = stage[j] + PacketSize
  <2>1. ~OnGrid(stage[k])
    BY <1>3, <1>4, SamePlace
  <2> QED
    BY <1>2, <1>4, <2>1 DEF IsSync, OnGrid, FakePairs
<1>5. CASE stage[k] # stage[j] + PacketSize
  <2>1. Byte(j) = stage[j] /\ Byte(k) = stage[k]
    BY <1>2 DEF Byte
  <2>2. j + PacketSize <= Len(stage) + 1 /\ Byte(j + PacketSize) # Byte(j) + PacketSize
    BY <1>1, <1>2, <1>5, <2>1
  <2> QED
    BY <1>2, <2>2, BrokenPacket
<1> QED
  BY <1>4, <1>5

\* Locking on to a place costs what is ahead of it at most a break or a pair of
\* false sync values: off the grid, the packet there is broken or is such a pair.
LEMMA LocksOn ==
  ASSUME TypeInv, OrderInv, Spread, NEW i \in Nat \ {0}, NEW j \in Starts(i),
         NEW P, P \subseteq FakePairs, {f \in FakePairs : f >= stage[j]} \subseteq P
  PROVE  /\ OnGrid(stage[j]) =>
               Cardinality(Breaks(j)) + Cardinality({f \in FakePairs : f > stage[j]})
                  <= Cardinality(Breaks(i)) + Cardinality(P)
         /\ ~OnGrid(stage[j]) =>
               1 + Cardinality(Breaks(j + PacketSize))
                 + Cardinality({f \in FakePairs : f > stage[j]})
                  <= Cardinality(Breaks(i)) + Cardinality(P)
<1> DEFINE later == {f \in FakePairs : f > stage[j]}
           k == j + PacketSize
<1>1. /\ PacketSize \in Nat /\ PacketSize > 0 /\ Len(stage) \in Nat
      /\ IsFiniteSet(FakePairs)
  BY FramerFacts
<1>2. /\ j \in 1..Len(stage) /\ i <= j /\ j \in Nat \ {0}
      /\ k \in 1..Len(stage) /\ k \in Nat \ {0} /\ j <= k
      /\ IsSync(stage[j]) /\ IsSync(stage[k])
  BY <1>1 DEF Starts
<1>3. stage[j] \in Nat /\ stage[k] \in Nat
  BY <1>2, FramerFacts, ElementOfSeq
<1>4. later \subseteq P /\ stage[j] \notin later
  <2>1. FakePairs \subseteq Nat
    BY FramerAssumption DEF FakePairs, TypeInv, TypeOK
  <2>2. \A f \in Nat : f > stage[j] => f >= stage[j] /\ f # stage[j]
    BY <1>3
  <2>3. \A f \in later : f \in FakePairs /\ f >= stage[j] /\ f # stage[j]
    BY <2>1, <2>2
  <2> QED
    BY <2>3
<1>5. /\ IsFiniteSet(P) /\ Cardinality(P) \in Nat
      /\ Cardinality(later) \in Nat /\ Cardinality(later) <= Cardinality(P)
  <2>1. IsFiniteSet(P)
    BY <1>1, Part
  <2> QED
    BY <1>4, <2>1, Part
<1>6. /\ IsFiniteSet(Breaks(i)) /\ Cardinality(Breaks(i)) \in Nat
      /\ Breaks(j) \subseteq Breaks(i) /\ Breaks(k) \subseteq Breaks(j)
      /\ Cardinality(Breaks(j)) \in Nat /\ Cardinality(Breaks(k)) \in Nat
      /\ IsFiniteSet(Breaks(j))
  BY <1>2, BreakFacts
<1>7. /\ Cardinality(Breaks(j)) <= Cardinality(Breaks(i))
      /\ Cardinality(Breaks(k)) <= Cardinality(Breaks(j))
  BY <1>6, Part
<1> HIDE DEF later, k
<1>8. OnGrid(stage[j]) =>
         Cardinality(Breaks(j)) + Cardinality(later) <= Cardinality(Breaks(i)) + Cardinality(P)
  BY <1>5, <1>6, <1>7
<1>9. ASSUME ~OnGrid(stage[j])
      PROVE  1 + Cardinality(Breaks(k)) + Cardinality(later)
                <= Cardinality(Breaks(i)) + Cardinality(P)
  <2>1. CASE stage[j] \in FakePairs
    <3>1. stage[j] \in P
      BY <1>3, <2>1
    <3>2. Cardinality(later) + 1 <= Cardinality(P)
      BY <1>4, <1>5, <3>1, SmallerPart
    <3> QED
      BY <1>5, <1>6, <1>7, <3>2
  <2>2. CASE \E b \in Breaks(j) : b \notin Breaks(k)
    <3>1. Cardinality(Breaks(k)) + 1 <= Cardinality(Breaks(j))
      BY <1>6, <2>2, SmallerPart
    <3> QED
      BY <1>5, <1>6, <1>7, <3>1
  <2> QED
    BY <1>9, <2>1, <2>2, FalseStart DEF k
<1> QED
  BY <1>8, <1>9 DEF later, k

\* A step that leaves the stage and the ring alone moves no byte.
LEMMA SameBytes ==
  ASSUME Spread, Segments, stage' = stage, next' = next, fakes' = fakes
  PROVE  /\ \A i : Byte(i)' = Byte(i) /\ Breaks(i)' = Breaks(i)
         /\ \A i, j : NoStart(i, j)' <=> NoStart(i, j)
         /\ Spread' /\ Segments'
         /\ FakePairs' = FakePairs
         /\ \A byte : IsSync(byte)' = IsSync(byte)
<1>1. \A i : Byte(i)' = Byte(i)
  BY DEF Byte
<1>2. \A i : Breaks(i)' = Breaks(i)
  BY <1>1 DEF Breaks
<1>3. Spread'
  BY <1>1 DEF Spread
<1>4. FakePairs' = FakePairs /\ \A byte : IsSync(byte)' = IsSync(byte)
  BY DEF FakePairs, IsSync
<1>5. \A i, j : NoStart(i, j)' <=> NoStart(i, j)
  BY <1>4 DEF NoStart
<1>6. \A i, j : Run(i, j)' <=> Run(i, j)
  BY <1>1 DEF Run
<1>7. \A i : Cost(Breaks(i))' = Cost(Breaks(i)) /\ Dist(Byte(i))' = Dist(Byte(i))
  BY <1>1, <1>2
<1>8. Segments'
  BY <1>5, <1>6, <1>7 DEF Segments
<1> QED
  BY <1>1, <1>2, <1>3, <1>4, <1>5, <1>8

\* A step that cuts the front off the stage moves every byte by as much.
LEMMA Reindexed ==
  ASSUME TypeInv, OrderInv, Spread, Segments, NEW k \in Nat \ {0}, k <= Len(stage) + 1,
         stage' = From(k), next' = next, fakes' = fakes
  PROVE  /\ Len(stage') = Len(stage) - k + 1
         /\ \A i \in Nat \ {0} :
               Byte(i)' = Byte(i + k - 1) /\ Breaks(i)' = Breaks(i + k - 1)
         /\ \A i \in Nat \ {0} : \A j \in i..(Len(stage') + 1) :
               NoStart(i, j)' <=> NoStart(i + k - 1, j + k - 1)
         /\ Spread' /\ Segments'
         /\ FakePairs' = FakePairs
         /\ \A byte : IsSync(byte)' = IsSync(byte)
<1>1. Len(stage) \in Nat /\ stage \in Seq(Nat)
  BY FramerFacts
<1>2. /\ Len(stage') \in Nat /\ Len(stage') = Len(stage) - k + 1
      /\ \A i \in 1..Len(stage') : stage'[i] = stage[i + k - 1]
  <2>1. /\ Len(From(k)) = Len(stage) - k + 1
        /\ \A i \in 1..Len(From(k)) : From(k)[i] = stage[k + i - 1]
    BY <1>1, FromProperties
  <2>2. \A i \in 1..Len(stage') : k + i - 1 = i + k - 1
    OBVIOUS
  <2>3. Len(stage) - k + 1 \in Nat
    BY <1>1
  <2> QED
    BY <2>1, <2>2, <2>3
<1>3. ASSUME NEW i \in Nat \ {0}
      PROVE  Byte(i)' = Byte(i + k - 1)
  <2>1. i <= Len(stage') <=> i + k - 1 <= Len(stage)
    BY <1>1, <1>2
  <2>2. CASE i <= Len(stage')
    BY <1>2, <2>1, <2>2 DEF Byte
  <2>3. CASE ~(i <= Len(stage'))
    BY <2>1, <2>3 DEF Byte
  <2> QED
    BY <2>2, <2>3
<1>4. ASSUME NEW i \in Nat \ {0}
      PROVE  Breaks(i)' = Breaks(i + k - 1)
  <2> DEFINE broken(m) == Byte(m + 1) # stage[m] + 1
  <2>1. ASSUME NEW m \in i..Len(stage')
        PROVE  /\ m + k - 1 \in (i + k - 1)..Len(stage)
               /\ stage'[m] = stage[m + k - 1]
               /\ Byte(m + 1)' = Byte((m + k - 1) + 1)
    <3>1. m \in 1..Len(stage') /\ m + 1 \in Nat \ {0}
      BY <1>2, <2>1
    <3>2. (m + 1) + k - 1 = (m + k - 1) + 1
      BY <3>1
    <3>3. Byte(m + 1)' = Byte((m + 1) + k - 1)
      BY <1>3, <3>1
    <3>4. m + k - 1 \in (i + k - 1)..Len(stage)
      BY <1>1, <1>2, <2>1
    <3> QED
      BY <1>2, <3>1, <3>2, <3>3, <3>4
  <2>2. \A m \in (i + k - 1)..Len(stage) : m - k + 1 \in i..Len(stage') /\ (m - k + 1) + k - 1 = m
    BY <1>1, <1>2
  <2>3. Breaks(i)' = {stage'[m] : m \in {m \in i..Len(stage') : Byte(m + 1)' # stage'[m] + 1}}
    BY DEF Breaks
  <2>4. Breaks(i)' \subseteq Breaks(i + k - 1)
    <3> SUFFICES ASSUME NEW m \in i..Len(stage'), Byte(m + 1)' # stage'[m] + 1
                 PROVE  stage'[m] \in Breaks(i + k - 1)
      BY <2>3
    <3>1. broken(m + k - 1) /\ m + k - 1 \in (i + k - 1)..Len(stage)
      BY <2>1
    <3> QED
      BY <2>1, <3>1 DEF Breaks
  <2>5. Breaks(i + k - 1) \subseteq Breaks(i)'
    <3> SUFFICES ASSUME NEW m \in (i + k - 1)..Len(stage), Byte(m + 1) # stage[m] + 1
                 PROVE  stage[m] \in Breaks(i)'
      BY DEF Breaks
    <3> DEFINE n == m - k + 1
    <3>1. n \in i..Len(stage') /\ n + k - 1 = m
      BY <2>2
    <3> HIDE DEF n
    <3>2. stage'[n] = stage[m] /\ Byte(n + 1)' = Byte(m + 1)
      BY <2>1, <3>1
    <3> QED
      BY <2>3, <3>1, <3>2
  <2> QED
    BY <2>4, <2>5
<1>5. Spread'
  <2> SUFFICES ASSUME NEW i \in 1..(Len(stage') + 1), NEW j \in 1..(Len(stage') + 1),
                      i < j, Byte(j)' - Byte(i)' # j - i
               PROVE  \E m \in i..(j - 1) : Byte(m + 1)' # stage'[m] + 1
    BY DEF Spread
  <2> DEFINE a == i + k - 1
             b == j + k - 1
  <2>1. a \in 1..(Len(stage) + 1) /\ b \in 1..(Len(stage) + 1) /\ a < b /\ b - a = j - i
    BY <1>1, <1>2
  <2>2. Byte(j)' = Byte(b) /\ Byte(i)' = Byte(a)
    BY <1>2, <1>3
  <2> HIDE DEF a, b
  <2>3. PICK q \in a..(b - 1) : Byte(q + 1) # stage[q] + 1
    BY <2>1, <2>2 DEF Spread
  <2> DEFINE m == q - k + 1
  <2>4. /\ m \in i..(j - 1) /\ m \in 1..Len(stage') /\ m + k - 1 = q
        /\ m + 1 \in Nat \ {0} /\ (m + 1) + k - 1 = q + 1
    <3>1. q \in Int /\ i + k - 1 <= q /\ q <= j + k - 1 - 1
      BY <2>1, <2>3 DEF a, b
    <3>2. i \in Nat /\ 1 <= i /\ j \in Nat /\ j <= Len(stage') + 1
      BY <1>2
    <3>3. m \in Int /\ m = q - k + 1 /\ i <= m /\ m <= j - 1
      BY <3>1, <3>2
    <3> HIDE DEF m
    <3> QED
      BY <1>2, <3>1, <3>2, <3>3
  <2> HIDE DEF m
  <2>5. Byte(m + 1)' = Byte(q + 1) /\ stage'[m] = stage[q]
    BY <1>2, <1>3, <2>4
  <2> QED
    BY <2>3, <2>4, <2>5
<1>6. FakePairs' = FakePairs /\ \A byte : IsSync(byte)' = IsSync(byte)
  BY DEF FakePairs, IsSync
<1>7. PacketSize \in Nat /\ PacketSize > 0
  BY FramerFacts
<1>8. ASSUME NEW i \in Nat \ {0}, NEW j \in i..(Len(stage') + 1)
      PROVE  NoStart(i, j)' <=> NoStart(i + k - 1, j + k - 1)
  <2> DEFINE a == i + k - 1
             b == j + k - 1
             start(m) == IsSync(stage[m]) /\ IsSync(stage[m + PacketSize])
  <2>1. \A m \in i..(j - 1 - PacketSize) :
           /\ m + k - 1 \in a..(b - 1 - PacketSize)
           /\ stage'[m] = stage[m + k - 1]
           /\ stage'[m + PacketSize] = stage[(m + k - 1) + PacketSize]
    <3> TAKE m \in i..(j - 1 - PacketSize)
    <3>1. m + k - 1 \in a..(b - 1 - PacketSize)
      BY <1>2, <1>7
    <3>2. m \in 1..Len(stage') /\ m + PacketSize \in 1..Len(stage')
      BY <1>2, <1>7
    <3>3. (m + PacketSize) + k - 1 = (m + k - 1) + PacketSize
      BY <1>7
    <3> QED
      BY <1>2, <3>1, <3>2, <3>3
  <2>2. \A m \in a..(b - 1 - PacketSize) :
           /\ m - k + 1 \in i..(j - 1 - PacketSize)
           /\ (m - k + 1) + k - 1 = m
    BY <1>7
  <2>3. NoStart(i, j)' <=>
           \A m \in i..(j - 1 - PacketSize) :
              ~(IsSync(stage'[m]) /\ IsSync(stage'[m + PacketSize]))
    BY <1>6 DEF NoStart
  <2>4. NoStart(a, b) <=> \A m \in a..(b - 1 - PacketSize) : ~start(m)
    BY DEF NoStart
  <2>5. NoStart(i, j)' <=> \A m \in i..(j - 1 - PacketSize) : ~start(m + k - 1)
    BY <2>1, <2>3
  <2> HIDE DEF a, b, start
  <2>6. NoStart(i, j)' <=> NoStart(a, b)
    BY <2>1, <2>2, <2>4, <2>5
  <2> QED
    BY <2>6 DEF a, b
<1>9. Segments'
  <2> SUFFICES ASSUME NEW i \in 1..(Len(stage') + 1), NEW j \in 1..(Len(stage') + 1),
                      i <= j, NoStart(i, j)'
               PROVE  \E m \in i..j :
                         /\ Run(m, j)'
                         /\ \/ m = i
                            \/ (m - i) + 2 * PacketSize + Cost(Breaks(m)')
                                 <= Dist(Byte(i)') + Cost(Breaks(i)')
    BY DEF Segments
  <2> PICK a \in Nat : a = i + k - 1
    BY <1>2
  <2> PICK b \in Nat : b = j + k - 1
    BY <1>2
  <2>1. /\ a \in 1..(Len(stage) + 1) /\ b \in 1..(Len(stage) + 1) /\ a <= b
        /\ i \in Nat \ {0} /\ j \in Nat \ {0} /\ j \in i..(Len(stage') + 1)
    BY <1>1, <1>2
  <2>2. NoStart(a, b)
    BY <1>8, <2>1
  <2>3. PICK q \in a..b :
           /\ Run(q, b)
           /\ \/ q = a
              \/ (q - a) + 2 * PacketSize + Cost(Breaks(q)) <= Dist(Byte(a)) + Cost(Breaks(a))
    BY <2>1, <2>2 DEF Segments
  <2> PICK m \in Nat \ {0} : m = q - k + 1
    BY <1>2, <2>1
  <2>4. m \in i..j /\ m + k - 1 = q /\ m - i = q - a /\ (m = i <=> q = a)
    BY <2>1
  <2>5. /\ Breaks(m)' = Breaks(q) /\ Breaks(i)' = Breaks(a) /\ Byte(i)' = Byte(a)
        /\ Byte(m)' = Byte(q)
    BY <1>3, <1>4, <2>1, <2>4
  <2>6. Run(m, j)'
    <3>1. \A p \in m..j : p \in Nat \ {0} /\ p + k - 1 \in q..b /\ (p + k - 1) - q = p - m
      BY <2>1, <2>4
    <3>2. \A p \in m..j : Byte(p)' = Byte(p + k - 1)
      BY <1>3, <3>1
    <3>3. Byte(q) \in Nat
      <4>1. q \in Nat \ {0}
        BY <2>1
      <4> QED
        BY <4>1, FramerFacts
    <3>4. \A p \in m..j : Byte(q) + (p + k - 1) - q = Byte(q) + p - m
      BY <2>4, <3>1, <3>3
    <3> QED
      BY <2>3, <2>5, <3>1, <3>2, <3>4 DEF Run
  <2> QED
    BY <2>3, <2>4, <2>5, <2>6
<1> QED
  BY <1>2, <1>3, <1>4, <1>5, <1>6, <1>8, <1>9

\* In a run, and where nothing looks like a start, the next packet but one would
\* have been found.
LEMMA RunLength ==
  ASSUME TypeInv, OrderInv, NEW i \in Nat \ {0}, NEW k \in Nat, NEW j \in Nat,
         i <= k, k <= j, j <= Len(stage) + 1, NoStart(i, j), Run(k, j)
  PROVE  /\ Breaks(k) = Breaks(j)
         /\ Dist(Byte(k)) \in Nat /\ Dist(Byte(k)) <= PacketSize - 1
         /\ Dist(Byte(j)) \in Nat /\ Dist(Byte(j)) <= PacketSize - 1
         /\ (j - k) + Dist(Byte(j)) <= Dist(Byte(k)) + PacketSize
<1> DEFINE N == PacketSize
           d == Dist(Byte(k))
<1>1. N \in Nat /\ N > 0 /\ Len(stage) \in Nat /\ k \in Nat \ {0} /\ j \in Nat \ {0}
  BY FramerFacts
<1>2. Byte(k) \in Nat /\ Byte(j) \in Nat
  BY <1>1, FramerFacts
<1>3. Byte(j) = Byte(k) + j - k
  BY <1>1 DEF Run
<1>4. /\ d \in Nat /\ d <= N - 1 /\ OnGrid(Byte(k) + d)
      /\ Dist(Byte(j)) \in Nat /\ Dist(Byte(j)) <= N - 1
  BY <1>2, DistFacts
<1>5. OnGrid(Byte(k) + d + N)
  <2>1. Byte(k) + d \in Nat
    BY <1>2, <1>4
  <2> QED
    BY <1>4, <2>1, SamePlace
<1> HIDE DEF N, d
<1>6. j - k <= d + N
  <2> SUFFICES ASSUME j - k > d + N PROVE FALSE
    BY <1>1, <1>4
  <2> PICK g \in Nat \ {0} : g = k + d
    BY <1>1, <1>4
  <2>1. /\ g \in i..(j - 1 - N) /\ g \in k..j /\ g + N \in k..j
        /\ g \in 1..Len(stage) /\ g + N \in 1..Len(stage)
    BY <1>1, <1>4
  <2>2. Byte(g) = stage[g] /\ Byte(g + N) = stage[g + N]
    BY <2>1 DEF Byte
  <2>3. Byte(g) = Byte(k) + d /\ Byte(g + N) = Byte(k) + d + N
    <3>1. Byte(g) = Byte(k) + g - k /\ Byte(g + N) = Byte(k) + (g + N) - k
      BY <2>1 DEF Run
    <3> QED
      BY <1>1, <1>2, <1>4, <3>1
  <2>4. IsSync(stage[g]) /\ IsSync(stage[g + N])
    BY <1>4, <1>5, <2>2, <2>3 DEF IsSync, OnGrid
  <2> QED
    BY <2>1, <2>4 DEF NoStart, N
<1>7. Byte(j) + Dist(Byte(j)) <= Byte(k) + d + N
  <2>1. Byte(k) + d + N \in Nat /\ Byte(j) <= Byte(k) + d + N
    BY <1>1, <1>2, <1>3, <1>4, <1>6
  <2> QED
    BY <1>2, <1>5, <2>1, DistFacts
<1>8. (j - k) + Dist(Byte(j)) <= d + N
  BY <1>1, <1>2, <1>3, <1>4, <1>7
<1>9. Breaks(k) = Breaks(j)
  <2>1. \A m \in k..(j - 1) : Byte(m + 1) = stage[m] + 1
    <3> TAKE m \in k..(j - 1)
    <3>1. m \in k..j /\ m + 1 \in k..j /\ m <= Len(stage)
      BY <1>1
    <3>2. Byte(m) = stage[m] /\ Byte(m) = Byte(k) + m - k /\ Byte(m + 1) = Byte(k) + (m + 1) - k
      BY <3>1 DEF Byte, Run
    <3> QED
      BY <1>1, <1>2, <3>2
  <2>2. Breaks(j) \subseteq Breaks(k)
    BY <1>1, BreakFacts
  <2>3. Breaks(k) \subseteq Breaks(j)
    <3> SUFFICES ASSUME NEW m \in k..Len(stage), Byte(m + 1) # stage[m] + 1
                 PROVE  stage[m] \in Breaks(j)
      BY DEF Breaks
    <3>1. m \in j..Len(stage)
      BY <1>1, <2>1
    <3> QED
      BY <3>1 DEF Breaks
  <2> QED
    BY <2>2, <2>3
<1> QED
  BY <1>4, <1>8, <1>9 DEF N, d

\* What is passed without coming upon a start is paid by the breaks behind, and
\* by less than two packets.
LEMMA Walk ==
  ASSUME TypeInv, OrderInv, Segments, NEW i \in Nat \ {0}, NEW j \in Nat,
         i <= j, j <= Len(stage) + 1, NoStart(i, j)
  PROVE  /\ Dist(Byte(i)) \in Nat /\ Dist(Byte(i)) <= PacketSize - 1
         /\ Dist(Byte(j)) \in Nat /\ Dist(Byte(j)) <= PacketSize - 1
         /\ Cost(Breaks(i)) \in Nat /\ Cost(Breaks(j)) \in Nat
         /\ (j - i) + Dist(Byte(j)) + Cost(Breaks(j))
               <= Dist(Byte(i)) + PacketSize + Cost(Breaks(i))
         /\ \/ Run(i, j)
            \/ (j - i) + Dist(Byte(j)) + Cost(Breaks(j)) + 1
                  <= Dist(Byte(i)) + Cost(Breaks(i))
<1>1. /\ PacketSize \in Nat /\ PacketSize > 0 /\ Len(stage) \in Nat
      /\ i \in 1..(Len(stage) + 1) /\ j \in 1..(Len(stage) + 1) /\ j \in Nat \ {0}
  <2>1. PacketSize \in Nat /\ PacketSize > 0 /\ Len(stage) \in Nat
    BY FramerFacts
  <2> QED
    BY <2>1
<1>2. /\ Dist(Byte(i)) \in Nat /\ Dist(Byte(i)) <= PacketSize - 1
  <2>1. Byte(i) \in Nat
    BY FramerFacts
  <2> QED
    BY <2>1, DistFacts
<1>3. \A m \in Nat \ {0} : Cost(Breaks(m)) \in Nat
  BY BreakFacts, CostFacts
<1>4. PICK k \in i..j :
         /\ Run(k, j)
         /\ \/ k = i
            \/ (k - i) + 2 * PacketSize + Cost(Breaks(k)) <= Dist(Byte(i)) + Cost(Breaks(i))
  BY <1>1 DEF Segments
<1>5. k \in Nat \ {0} /\ i <= k /\ k <= j
  OBVIOUS
<1>6. /\ Breaks(k) = Breaks(j)
      /\ Dist(Byte(k)) \in Nat /\ Dist(Byte(k)) <= PacketSize - 1
      /\ Dist(Byte(j)) \in Nat /\ Dist(Byte(j)) <= PacketSize - 1
      /\ (j - k) + Dist(Byte(j)) <= Dist(Byte(k)) + PacketSize
  BY <1>4, <1>5, RunLength
<1>7. Cost(Breaks(i)) \in Nat /\ Cost(Breaks(j)) \in Nat /\ Cost(Breaks(k)) = Cost(Breaks(j))
  BY <1>1, <1>3, <1>6
<1>8. CASE k = i
  <2>1. (j - i) + Dist(Byte(j)) + Cost(Breaks(j)) <= Dist(Byte(i)) + PacketSize + Cost(Breaks(i))
    BY <1>1, <1>2, <1>6, <1>7, <1>8
  <2> QED
    BY <1>2, <1>4, <1>6, <1>7, <1>8, <2>1
<1>9. CASE k # i
  <2>1. (k - i) + 2 * PacketSize + Cost(Breaks(j)) <= Dist(Byte(i)) + Cost(Breaks(i))
    BY <1>4, <1>7, <1>9
  <2> DEFINE di == Dist(Byte(i))
             dk == Dist(Byte(k))
             dj == Dist(Byte(j))
             ci == Cost(Breaks(i))
             cj == Cost(Breaks(j))
  <2>a. di \in Nat /\ dk \in Nat /\ dj \in Nat /\ ci \in Nat /\ cj \in Nat
    BY <1>2, <1>6, <1>7
  <2>b. /\ (k - i) + 2 * PacketSize + cj <= di + ci
        /\ dk <= PacketSize - 1 /\ (j - k) + dj <= dk + PacketSize
    BY <1>6, <2>1
  <2> HIDE DEF di, dk, dj, ci, cj
  <2>c. (j - i) + dj + cj + 1 <= di + ci
    BY <1>1, <1>5, <2>a, <2>b
  <2>d. (j - i) + dj + cj <= di + PacketSize + ci
    BY <1>1, <2>a, <2>c
  <2>2. (j - i) + Dist(Byte(j)) + Cost(Breaks(j)) + 1 <= Dist(Byte(i)) + Cost(Breaks(i))
    BY <2>c DEF di, dj, ci, cj
  <2>3. (j - i) + Dist(Byte(j)) + Cost(Breaks(j)) <= Dist(Byte(i)) + PacketSize + Cost(Breaks(i))
    BY <2>d DEF di, dj, ci, cj
  <2> QED
    BY <1>2, <1>6, <1>7, <2>2, <2>3
<1> QED
  BY <1>8, <1>9

\* The first start, if a run leads to it and it is a packet, is the next packet.
LEMMA RunToPacket ==
  ASSUME TypeInv, OrderInv, NEW i \in Nat \ {0}, NEW j \in First(Starts(i)),
         Run(i, j), OnGrid(stage[j])
  PROVE  j - i <= Dist(Byte(i))
<1> DEFINE N == PacketSize
           d == Dist(Byte(i))
<1>1. /\ N \in Nat /\ N > 0 /\ Len(stage) \in Nat
      /\ j \in Nat \ {0} /\ i <= j /\ j + N <= Len(stage) /\ j \in 1..Len(stage)
  <2>1. /\ N \in Nat /\ N > 0 /\ Len(stage) \in Nat /\ j \in i..(Len(stage) - N)
    BY FramerFacts DEF First, Starts
  <2> HIDE DEF N
  <2> QED
    BY <2>1
<1>2. Byte(i) \in Nat /\ Byte(j) \in Nat /\ Byte(j) = stage[j]
  BY <1>1, FramerFacts DEF Byte
<1>3. d \in Nat /\ d <= N - 1 /\ OnGrid(Byte(i) + d)
  BY <1>2, DistFacts
<1> SUFFICES ASSUME j - i > d PROVE FALSE
  BY <1>1, <1>3
<1> HIDE DEF N, d
<1> PICK g \in Nat \ {0} : g = i + d
  BY <1>3
<1>4. g \in i..j /\ g < j /\ g \in 1..Len(stage) /\ g \in i..(Len(stage) - N)
  BY <1>1, <1>3
<1>5. Byte(g) = Byte(i) + d /\ Byte(g) = stage[g] /\ Byte(j) = Byte(i) + j - i
  <2>1. Byte(g) = Byte(i) + g - i /\ Byte(j) = Byte(i) + j - i
    BY <1>1, <1>4 DEF Run
  <2>2. Byte(g) = stage[g]
    BY <1>4 DEF Byte
  <2> QED
    BY <1>2, <1>3, <2>1, <2>2
<1>6. Byte(g) + N <= Byte(j)
  <2>1. Byte(g) \in Nat /\ Byte(g) < Byte(j)
    <3>1. Byte(g) = Byte(i) + d /\ Byte(j) = Byte(i) + j - i
      BY <1>5
    <3> QED
      BY <1>1, <1>2, <1>3, <3>1
  <2> QED
    BY <1>2, <1>3, <1>5, <2>1, NextOnGrid DEF N
<1>7. g + N \in i..j /\ g + N \in 1..Len(stage)
  BY <1>1, <1>2, <1>3, <1>4, <1>5, <1>6
<1>8. Byte(g + N) = Byte(i) + d + N /\ Byte(g + N) = stage[g + N]
  <2>1. Byte(g + N) = Byte(i) + (g + N) - i
    BY <1>7 DEF Run
  <2>2. Byte(g + N) = stage[g + N]
    BY <1>7 DEF Byte
  <2> QED
    BY <1>1, <1>2, <1>3, <2>1, <2>2
<1>9. OnGrid(Byte(i) + d + N)
  <2>1. Byte(i) + d \in Nat
    BY <1>2, <1>3
  <2> QED
    BY <1>3, <2>1, SamePlace DEF N
<1>10. g \in Starts(i)
  BY <1>3, <1>4, <1>5, <1>8, <1>9 DEF Starts, IsSync, OnGrid, N
<1> QED
  BY <1>1, <1>4, <1>10 DEF First

\* Locking on to a place, with what was skipped up to it paid, leaves the budget
\* for being locked there.
LEMMA LockPays ==
  ASSUME TypeInv, OrderInv, Spread, NEW i \in Nat \ {0}, NEW j \in Starts(i),
         NEW P, P \subseteq FakePairs, {f \in FakePairs : f >= stage[j]} \subseteq P,
         NEW x \in Nat, NEW all \in Nat,
         x + Cost(Breaks(j)) + Cost(P) <= all + PacketSize + 1,
         OnGrid(stage[j]) => x + Cost(Breaks(j)) + Cost(P) <= all
  PROVE  \/ x + (IF OnGrid(stage[j]) THEN 0 ELSE 2 * PacketSize - 1)
               + Cost(Breaks(j)) + Cost({f \in FakePairs : f > stage[j]}) <= all
         \/ x + (2 * PacketSize - 1)
               + Cost(Breaks(j + PacketSize)) + Cost({f \in FakePairs : f > stage[j]}) <= all
<1> DEFINE later == {f \in FakePairs : f > stage[j]}
           k == j + PacketSize
<1>1. /\ PacketSize \in Nat /\ PacketSize > 0 /\ Len(stage) \in Nat
      /\ IsFiniteSet(FakePairs)
  BY FramerFacts
<1>2. /\ j \in 1..Len(stage) /\ j \in Nat \ {0} /\ k \in Nat \ {0} /\ j <= k
  BY <1>1 DEF Starts
<1>3. stage[j] \in Nat
  BY <1>2, FramerFacts, ElementOfSeq
<1>4. later \subseteq P /\ stage[j] \notin later
  <2>1. FakePairs \subseteq Nat
    BY FramerAssumption DEF FakePairs, TypeInv, TypeOK
  <2>2. \A f \in Nat : f > stage[j] => f >= stage[j] /\ f # stage[j]
    BY <1>3
  <2>3. \A f \in later : f \in FakePairs /\ f >= stage[j] /\ f # stage[j]
    BY <2>1, <2>2
  <2> QED
    BY <2>3
<1>5. /\ IsFiniteSet(P) /\ Cost(P) \in Nat /\ Cost(later) \in Nat /\ Cost(later) <= Cost(P)
      /\ stage[j] \in FakePairs => Cost(later) + 3 * PacketSize <= Cost(P)
  <2>1. IsFiniteSet(P)
    BY <1>1, Part
  <2>2. stage[j] \in FakePairs => stage[j] \in P
    BY <1>3
  <2> QED
    BY <1>4, <2>1, <2>2, CostFacts
<1>6. /\ Cost(Breaks(j)) \in Nat /\ Cost(Breaks(k)) \in Nat
      /\ (\E b \in Breaks(j) : b \notin Breaks(k)) =>
            Cost(Breaks(k)) + 3 * PacketSize <= Cost(Breaks(j))
  <2>1. IsFiniteSet(Breaks(j)) /\ Breaks(k) \subseteq Breaks(j)
    BY <1>2, BreakFacts
  <2> QED
    BY <2>1, CostFacts
<1> HIDE DEF later, k
<1>7. CASE OnGrid(stage[j])
  <2>1. x + 0 + Cost(Breaks(j)) + Cost(later) <= all
    BY <1>5, <1>6, <1>7
  <2> QED
    BY <1>7, <2>1 DEF later
<1>8. CASE ~OnGrid(stage[j]) /\ stage[j] \in FakePairs
  <2> DEFINE n == PacketSize
             bj == Cost(Breaks(j))
             p == Cost(P)
             q == Cost(later)
  <2>a. /\ n \in Nat /\ bj \in Nat /\ p \in Nat /\ q \in Nat
        /\ q + 3 * n <= p /\ x + bj + p <= all + n + 1 /\ n > 0
    BY <1>1, <1>5, <1>6, <1>8
  <2> HIDE DEF n, bj, p, q
  <2>b. x + (2 * n - 1) + bj + q <= all
    BY <2>a
  <2>1. x + (2 * PacketSize - 1) + Cost(Breaks(j)) + Cost(later) <= all
    BY <2>b DEF n, bj, q
  <2> QED
    BY <1>8, <2>1 DEF later
<1>9. CASE ~OnGrid(stage[j]) /\ \E b \in Breaks(j) : b \notin Breaks(k)
  <2> DEFINE n == PacketSize
             bj == Cost(Breaks(j))
             bk == Cost(Breaks(k))
             p == Cost(P)
             q == Cost(later)
  <2>a. /\ n \in Nat /\ bj \in Nat /\ bk \in Nat /\ p \in Nat /\ q \in Nat
        /\ bk + 3 * n <= bj /\ q <= p /\ x + bj + p <= all + n + 1 /\ n > 0
    BY <1>1, <1>5, <1>6, <1>9
  <2> HIDE DEF n, bj, bk, p, q
  <2>b. x + (2 * n - 1) + bk + q <= all
    BY <2>a
  <2>1. x + (2 * PacketSize - 1) + Cost(Breaks(k)) + Cost(later) <= all
    BY <2>b DEF n, bk, q
  <2> QED
    BY <2>1 DEF later, k
<1> QED
  BY <1>7, <1>8, <1>9, FalseStart DEF k

\* Before the first start nothing looks like one; without a start, nothing does.
LEMMA BeforeFirst ==
  ASSUME TypeInv, OrderInv, NEW i \in Nat \ {0}
  PROVE  /\ \A j \in First(Starts(i)) : NoStart(i, j)
         /\ Starts(i) = {} => NoStart(i, Len(stage) + 1)
<1>1. PacketSize \in Nat /\ PacketSize > 0 /\ Len(stage) \in Nat
  BY FramerFacts
<1>2. ASSUME NEW j \in First(Starts(i)) PROVE NoStart(i, j)
  <2>1. j \in Nat /\ j + PacketSize <= Len(stage)
    BY <1>1 DEF First, Starts
  <2>2. \A k \in i..(j - 1 - PacketSize) : k \in i..(Len(stage) - PacketSize) /\ ~(j <= k)
    BY <1>1, <2>1
  <2> QED
    BY <2>2 DEF NoStart, First, Starts
<1>3. ASSUME Starts(i) = {} PROVE NoStart(i, Len(stage) + 1)
  <2>1. \A k \in i..((Len(stage) + 1) - 1 - PacketSize) : k \in i..(Len(stage) - PacketSize)
    BY <1>1
  <2> QED
    BY <1>3, <2>1 DEF NoStart, Starts
<1> QED
  BY <1>2, <1>3

\* What is ahead can be counted, and paid.
LEMMA AheadFacts ==
  ASSUME TypeInv, OrderInv
  PROVE  /\ consumed + 1 \in Nat \ {0} /\ consumed + 1 <= Len(stage) + 1
         /\ consumed + 1 + PacketSize \in Nat \ {0}
         /\ Ahead \in Nat
         /\ FakePairs \subseteq Nat
         /\ IsFiniteSet(BreaksAhead) /\ Cardinality(BreaksAhead) \in Nat
         /\ PairsAhead \subseteq FakePairs
         /\ IsFiniteSet(PairsAhead) /\ Cardinality(PairsAhead) \in Nat
         /\ Cardinality(FakePairs) \in Nat
<1>1. /\ consumed + 1 \in Nat \ {0} /\ consumed + 1 <= Len(stage) + 1
      /\ consumed + 1 + PacketSize \in Nat \ {0}
  <2>1. consumed \in Nat /\ Len(stage) \in Nat /\ consumed <= Len(stage) /\ PacketSize \in Nat
    BY FramerFacts
  <2> QED
    BY <2>1
<1>2. Ahead \in Nat
  BY <1>1, FramerFacts DEF Ahead
<1>3. FakePairs \subseteq Nat
  BY FramerAssumption DEF FakePairs, TypeInv, TypeOK
<1>4. IsFiniteSet(BreaksAhead) /\ Cardinality(BreaksAhead) \in Nat
  BY <1>1, BreakFacts DEF BreaksAhead
<1>5. PairsAhead \subseteq FakePairs
  BY DEF PairsAhead
<1>6. /\ IsFiniteSet(PairsAhead) /\ Cardinality(PairsAhead) \in Nat
      /\ Cardinality(FakePairs) \in Nat
  <2>1. IsFiniteSet(FakePairs)
    BY FramerFacts
  <2> QED
    BY <1>5, <2>1, Part
<1> QED
  BY <1>1, <1>2, <1>3, <1>4, <1>5, <1>6

LEMMA BudgetFacts ==
  ASSUME TypeInv, OrderInv
  PROVE  /\ PacketSize \in Nat /\ PacketSize > 0 /\ skipped \in Nat /\ Allowed \in Nat
         /\ Dist(Ahead) \in Nat /\ Dist(Ahead) <= PacketSize - 1
         /\ \A i \in Nat \ {0} :
               IsFiniteSet(Breaks(i)) /\ Cost(Breaks(i)) \in Nat
         /\ Cost(PairsAhead) \in Nat
         /\ \A P \in SUBSET PairsAhead : Cost(P) \in Nat /\ Cost(P) <= Cost(PairsAhead)
         /\ Budget => skipped + Cost(PairsAhead) <= Allowed
<1>1. PacketSize \in Nat /\ PacketSize > 0 /\ skipped \in Nat /\ gaps \in Nat
  BY FramerFacts DEF TypeInv, TypeOK
<1>2. Allowed \in Nat
  <2>1. Cost(FakePairs) \in Nat
    BY FramerFacts, CostFacts
  <2>2. 3 * PacketSize * gaps \in Nat
    BY <1>1
  <2> QED
    BY <1>1, <2>1, <2>2 DEF Allowed
<1>3. Dist(Ahead) \in Nat /\ Dist(Ahead) <= PacketSize - 1
  BY AheadFacts, DistFacts
<1>4. \A i \in Nat \ {0} : IsFiniteSet(Breaks(i)) /\ Cost(Breaks(i)) \in Nat
  BY BreakFacts, CostFacts
<1>5. /\ Cost(PairsAhead) \in Nat
      /\ \A P \in SUBSET PairsAhead : Cost(P) \in Nat /\ Cost(P) <= Cost(PairsAhead)
  BY AheadFacts, CostFacts
<1>6. ASSUME Budget PROVE skipped + Cost(PairsAhead) <= Allowed
  <2>1. CASE locked
    <3>1. Cost(Breaks(consumed + 1)) \in Nat /\ Cost(Breaks(consumed + 1 + PacketSize)) \in Nat
      BY <1>4, AheadFacts
    <3> DEFINE b1 == Cost(Breaks(consumed + 1))
               b2 == Cost(Breaks(consumed + 1 + PacketSize))
               pa == Cost(PairsAhead)
               all == Allowed
               n == PacketSize
    <3>2. \/ skipped + (IF OnGrid(Ahead) THEN 0 ELSE 2 * n - 1) + b1 + pa <= all
          \/ skipped + (2 * n - 1) + b2 + pa <= all
      BY <1>6, <2>1 DEF Budget, LockedBudget
    <3>3. /\ b1 \in Nat /\ b2 \in Nat /\ pa \in Nat /\ all \in Nat /\ n \in Nat /\ n > 0
          /\ skipped \in Nat
      BY <1>1, <1>2, <1>5, <3>1
    <3> HIDE DEF b1, b2, pa, all, n
    <3>4. skipped + pa <= all
      <4>1. CASE OnGrid(Ahead)
        BY <3>2, <3>3, <4>1
      <4>2. CASE ~OnGrid(Ahead)
        BY <3>2, <3>3, <4>2
      <4> QED
        BY <4>1, <4>2
    <3> QED
      BY <3>4 DEF pa, all
  <2>2. CASE ~locked
    <3>1. PICK k \in (consumed + 1)..(Len(stage) + 1) :
             skipped + (IF k = consumed + 1 THEN Dist(Ahead) ELSE k - (consumed + 1) + 2 * PacketSize)
               + Cost(Breaks(k)) + Cost(PairsAhead) <= Allowed
      BY <1>6, <2>2 DEF Budget, SearchBudget
    <3>2. k \in Nat \ {0} /\ k >= consumed + 1 /\ consumed + 1 \in Nat
      <4>1. consumed + 1 \in Nat \ {0}
        BY AheadFacts
      <4> QED
        BY <4>1
    <3> DEFINE c == consumed + 1
               bk == Cost(Breaks(k))
               pa == Cost(PairsAhead)
               all == Allowed
               d == Dist(Ahead)
               n == PacketSize
    <3>3. /\ bk \in Nat /\ pa \in Nat /\ all \in Nat /\ d \in Nat /\ n \in Nat
          /\ c \in Nat /\ k \in Nat /\ k >= c /\ skipped \in Nat
      BY <1>1, <1>2, <1>3, <1>4, <1>5, <3>2
    <3>4. (k = c => skipped + d + bk + pa <= all)
          /\ (k # c => skipped + (k - c + 2 * n) + bk + pa <= all)
      BY <3>1
    <3> HIDE DEF c, bk, pa, all, d, n
    <3>5. skipped + pa <= all
      BY <3>3, <3>4
    <3> QED
      BY <3>5 DEF pa, all
  <2> QED
    BY <2>1, <2>2
<1> QED
  BY <1>1, <1>2, <1>3, <1>4, <1>5, <1>6

\* A step that leaves the framer and the counts alone keeps what is owed.
LEMMA QuietStep ==
  ASSUME LossInv, UNCHANGED <<stage, consumed, locked, badSync, next, fakes, gaps, skipped>>
  PROVE  LossInv'
<1>1. /\ \A i : Byte(i)' = Byte(i) /\ Breaks(i)' = Breaks(i)
      /\ \A i, j : NoStart(i, j)' <=> NoStart(i, j)
      /\ Spread' /\ Segments'
      /\ FakePairs' = FakePairs
      /\ \A byte : IsSync(byte)' = IsSync(byte)
  BY SameBytes DEF LossInv
<1>2. Ahead' = Ahead
  BY DEF Ahead, Byte
<1>3. Astray' = Astray
  BY <1>2 DEF Astray
<1>4. PairsAhead' = PairsAhead
  BY <1>1, <1>2 DEF PairsAhead
<1>5. BreaksAhead' = BreaksAhead
  BY <1>1, <1>2, <1>3 DEF BreaksAhead
<1>6. Balance'
  BY <1>1, <1>3, <1>4, <1>5 DEF LossInv, Balance
<1>7. Allowed' = Allowed
  BY <1>1 DEF Allowed
<1>8. Budget'
  <2>1. CASE locked
    BY <1>1, <1>2, <1>4, <1>7, <2>1 DEF LossInv, Budget, LockedBudget
  <2>2. CASE ~locked
    BY <1>1, <1>2, <1>4, <1>7, <2>2 DEF LossInv, Budget, SearchBudget
  <2> QED
    BY <2>1, <2>2
<1> QED
  BY <1>1, <1>6, <1>8 DEF LossInv

\* An overflow leaves a break behind what is staged, if anything is.
LEMMA OverflowMoves ==
  ASSUME TypeInv, OrderInv, Spread, NEW n \in 1..PacketSize, Overflow(n)
  PROVE  /\ consumed = 0 /\ consumed' = 0 /\ gaps' = gaps + 1
         /\ UNCHANGED <<stage, locked, badSync, fakes, skipped>>
         /\ FakePairs' = FakePairs
         /\ \A byte : IsSync(byte)' = IsSync(byte)
         /\ \A i, j : NoStart(i, j)' <=> NoStart(i, j)
         /\ \A i \in 1..Len(stage) : Byte(i)' = Byte(i)
         /\ Byte(Len(stage) + 1)' \in Nat
         /\ \A i \in 1..Len(stage) : Breaks(i)' = Breaks(i) \union {stage[Len(stage)]}
         /\ \A i \in Nat \ {0} : i > Len(stage) => Breaks(i)' = {} /\ Breaks(i) = {}
         /\ Len(stage) # 0 => Ahead' = Ahead
         /\ PairsAhead' \subseteq PairsAhead
         /\ Spread'
<1>0. /\ Len(stage) \in Nat /\ next \in Nat /\ n \in Nat /\ n > 0
      /\ \A i \in 1..Len(stage) : stage[i] \in Nat /\ stage[i] < next
  <2>1. /\ Len(stage) \in Nat /\ stage \in Seq(Nat) /\ next \in Nat
        /\ PacketSize \in Nat /\ DOMAIN stage = 1..Len(stage)
    BY FramerFacts
  <2>2. \A i \in 1..Len(stage) : stage[i] \in Nat /\ stage[i] < next
    BY <2>1, ElementOfSeq DEF OrderInv, BytesInOrder
  <2> QED
    BY <2>1, <2>2
<1>1. /\ consumed = 0 /\ consumed' = 0
      /\ next' = next + n /\ gaps' = gaps + 1
      /\ UNCHANGED <<stage, locked, badSync, fakes, skipped>>
  BY DEF Overflow, TypeInv, Staged, main, framer, counts, history
<1>2. /\ FakePairs' = FakePairs
      /\ \A byte : IsSync(byte)' = IsSync(byte)
      /\ \A i, j : NoStart(i, j)' <=> NoStart(i, j)
  BY <1>1 DEF FakePairs, IsSync, NoStart
<1>3. /\ \A i \in 1..Len(stage) : Byte(i)' = Byte(i) /\ Byte(i) = stage[i]
      /\ Byte(Len(stage) + 1)' = next + n /\ Byte(Len(stage) + 1) = next
  BY <1>0, <1>1 DEF Byte
<1>4. Byte(Len(stage) + 1)' \in Nat
  BY <1>0, <1>3
<1>5. Spread'
  <2> SUFFICES ASSUME NEW i \in 1..(Len(stage) + 1), NEW j \in 1..(Len(stage) + 1),
                      i < j, Byte(j)' - Byte(i)' # j - i
               PROVE  \E k \in i..(j - 1) : Byte(k + 1)' # stage[k] + 1
    BY <1>1 DEF Spread
  <2>1. CASE j <= Len(stage)
    <3>1. i \in 1..Len(stage) /\ j \in 1..Len(stage)
      BY <1>0, <2>1
    <3>2. PICK k \in i..(j - 1) : Byte(k + 1) # stage[k] + 1
      BY <1>3, <3>1 DEF Spread
    <3>3. k + 1 \in 1..Len(stage)
      BY <3>1, <3>2
    <3> QED
      BY <1>3, <3>2, <3>3
  <2>2. CASE ~(j <= Len(stage))
    <3> PICK k \in Nat : k = Len(stage)
      BY <1>0
    <3>1. k \in 1..k /\ k \in i..(j - 1)
      BY <1>0, <2>2
    <3>2. stage[k] \in Nat /\ stage[k] < next /\ Byte(k + 1)' = next + n
      BY <1>0, <1>1, <1>3, <3>1 DEF Byte
    <3>3. Byte(k + 1)' # stage[k] + 1
      BY <1>0, <3>2
    <3> QED
      BY <3>1, <3>3
  <2> QED
    BY <2>1, <2>2
<1>6. \A i \in 1..Len(stage) : Breaks(i)' = Breaks(i) \union {stage[Len(stage)]}
  <2> TAKE i \in 1..Len(stage)
  <2> PICK last \in 1..Len(stage) : last = Len(stage)
    BY <1>0
  <2>1. Breaks(i)' = {stage[k] : k \in {k \in i..last : Byte(k + 1)' # stage[k] + 1}}
    BY <1>1 DEF Breaks
  <2>2. Breaks(i) = {stage[k] : k \in {k \in i..last : Byte(k + 1) # stage[k] + 1}}
    BY DEF Breaks
  <2>3. \A k \in i..last : k # last => Byte(k + 1)' = Byte(k + 1)
    <3> SUFFICES ASSUME NEW k \in i..last, k # last PROVE Byte(k + 1)' = Byte(k + 1)
      OBVIOUS
    <3>1. k + 1 \in 1..Len(stage)
      BY <1>0
    <3> QED
      BY <1>3, <3>1
  <2>4. last \in i..last /\ Byte(last + 1)' # stage[last] + 1
    <3>1. stage[last] \in Nat /\ stage[last] < next /\ Byte(last + 1)' = next + n
      BY <1>0, <1>1 DEF Byte
    <3> QED
      BY <1>0, <3>1
  <2>5. Breaks(i)' \subseteq Breaks(i) \union {stage[last]}
    BY <2>1, <2>2, <2>3
  <2>6. Breaks(i) \union {stage[last]} \subseteq Breaks(i)'
    BY <2>1, <2>2, <2>3, <2>4
  <2> QED
    BY <2>5, <2>6
<1>7. \A i \in Nat \ {0} : i > Len(stage) => Breaks(i)' = {} /\ Breaks(i) = {}
  <2> SUFFICES ASSUME NEW i \in Nat \ {0}, i > Len(stage) PROVE Breaks(i)' = {} /\ Breaks(i) = {}
    OBVIOUS
  <2>1. i..Len(stage) = {}
    BY <1>0
  <2> QED
    BY <1>1, <2>1 DEF Breaks
<1>8. Len(stage) # 0 => Ahead' = Ahead
  BY <1>0, <1>1, <1>3 DEF Ahead
<1>9. PairsAhead' \subseteq PairsAhead
  <2>1. CASE Len(stage) = 0
    <3>1. Ahead = next /\ Ahead' = next + n
      BY <1>1, <1>3, <2>1 DEF Ahead
    <3>2. \A f \in Nat : f >= next + n => f > next
      BY <1>0
    <3>3. \A f \in FakePairs : f \in Nat
      BY AheadFacts
    <3>4. \A f \in PairsAhead' : f \in FakePairs /\ f >= next + n
      BY <1>0, <1>2, <3>1, <3>3 DEF PairsAhead
    <3> QED
      BY <3>1, <3>2, <3>3, <3>4 DEF PairsAhead
  <2>2. CASE Len(stage) # 0
    BY <1>1, <1>2, <1>8, <2>2 DEF PairsAhead
  <2> QED
    BY <2>1, <2>2
<1> QED
  BY <1>1, <1>2, <1>3, <1>4, <1>5, <1>6, <1>7, <1>8, <1>9

\* An overflow is one more gap, which pays for the break it makes.
LEMMA OverflowKeepsLoss ==
  ASSUME TypeInv, OrderInv, LossInv, NEW n \in 1..PacketSize, Overflow(n)
  PROVE  LossInv'
<1> DEFINE N == PacketSize
<1>0. /\ Len(stage) \in Nat /\ N \in Nat /\ N > 0
      /\ badSync \in Nat /\ gaps \in Nat
      /\ skipped \in Nat /\ Allowed \in Nat
  BY FramerFacts, BudgetFacts
<1>1. /\ consumed = 0 /\ consumed' = 0 /\ gaps' = gaps + 1
      /\ UNCHANGED <<stage, locked, badSync, fakes, skipped>>
      /\ FakePairs' = FakePairs
      /\ \A byte : IsSync(byte)' = IsSync(byte)
      /\ \A i, j : NoStart(i, j)' <=> NoStart(i, j)
      /\ Spread'
  BY OverflowMoves DEF LossInv
<1>2. /\ \A i \in 1..Len(stage) : Breaks(i)' = Breaks(i) \union {stage[Len(stage)]}
      /\ \A i \in Nat \ {0} : i > Len(stage) => Breaks(i)' = {} /\ Breaks(i) = {}
  BY OverflowMoves DEF LossInv
<1>3. /\ \A i \in 1..Len(stage) : Byte(i)' = Byte(i)
      /\ Byte(Len(stage) + 1)' \in Nat
      /\ Len(stage) # 0 => Ahead' = Ahead
      /\ PairsAhead' \subseteq PairsAhead
  BY OverflowMoves DEF LossInv
<1>4. Balance'
  <2>1. /\ Cardinality(PairsAhead') <= Cardinality(PairsAhead)
        /\ Cardinality(PairsAhead') \in Nat
    BY <1>3, AheadFacts, Part
  <2>2. CASE Len(stage) = 0
    <3>1. BreaksAhead' = {}
      <4>1. 1 \in Nat \ {0} /\ 1 + PacketSize \in Nat \ {0} /\ 1 > Len(stage) /\ 1 + PacketSize > Len(stage)
        BY <1>0, <2>2
      <4> QED
        BY <1>1, <1>2, <4>1 DEF BreaksAhead
    <3>2. Cardinality(BreaksAhead') = 0
      BY <3>1, FS_EmptySet
    <3> DEFINE owed == IF Astray THEN 1 ELSE 0
               owes == IF Astray' THEN 1 ELSE 0
               b == Cardinality(BreaksAhead)
               p == Cardinality(PairsAhead)
               q == Cardinality(PairsAhead')
               w == Cardinality(FakePairs)
    <3>3. /\ owed \in {0, 1} /\ owes \in {0, 1}
          /\ b \in Nat /\ p \in Nat /\ q \in Nat /\ q <= p /\ w \in Nat
          /\ badSync \in Nat /\ gaps \in Nat
      <4>1. badSync \in Nat /\ gaps \in Nat
        BY FramerFacts
      <4> QED
        BY <2>1, <4>1, AheadFacts
    <3>4. badSync + owed + b + p <= gaps + w
      BY DEF LossInv, Balance
    <3> HIDE DEF owed, owes, b, p, q, w
    <3>5. badSync + owes + 0 + q <= (gaps + 1) + w
      BY <3>3, <3>4
    <3> QED
      BY <1>1, <3>2, <3>5 DEF Balance, owes, q, w
  <2>3. CASE Len(stage) # 0
    <3>1. Astray' = Astray /\ PairsAhead' = PairsAhead
      BY <1>1, <1>3, <2>3 DEF Astray, PairsAhead
    <3>2. \A i \in Nat \ {0} : Breaks(i)' \subseteq Breaks(i) \union {stage[Len(stage)]}
      <4> TAKE i \in Nat \ {0}
      <4>1. i \in 1..Len(stage) \/ i > Len(stage)
        BY <1>0
      <4> QED
        BY <1>2, <4>1
    <3>3. BreaksAhead' \subseteq BreaksAhead \union {stage[Len(stage)]}
      <4>1. 1 \in Nat \ {0} /\ 1 + PacketSize \in Nat \ {0}
        BY <1>0
      <4> QED
        BY <1>1, <1>3, <2>3, <3>1, <3>2, <4>1 DEF BreaksAhead
    <3>4. /\ Cardinality(BreaksAhead') \in Nat
          /\ Cardinality(BreaksAhead') <= Cardinality(BreaksAhead) + 1
      BY <3>3, AheadFacts, OneMore
    <3> DEFINE owed == IF Astray THEN 1 ELSE 0
               b == Cardinality(BreaksAhead)
               c == Cardinality(BreaksAhead')
               p == Cardinality(PairsAhead)
               w == Cardinality(FakePairs)
    <3>5. /\ owed \in {0, 1} /\ b \in Nat /\ p \in Nat /\ w \in Nat
          /\ c \in Nat /\ c <= b + 1 /\ badSync \in Nat /\ gaps \in Nat
      <4>1. badSync \in Nat /\ gaps \in Nat
        BY FramerFacts
      <4> QED
        BY <3>4, <4>1, AheadFacts
    <3>6. badSync + owed + b + p <= gaps + w
      BY DEF LossInv, Balance
    <3> HIDE DEF owed, b, c, p, w
    <3>7. badSync + owed + c + p <= (gaps + 1) + w
      BY <3>5, <3>6
    <3> QED
      BY <1>1, <3>1, <3>7 DEF Balance, owed, c, p, w
  <2> QED
    BY <2>2, <2>3
<1> PICK last \in Nat : last = Len(stage)
  BY <1>0
<1>a. Byte(last + 1)' \in Nat
  BY <1>1, <1>3
<1>b. \A i \in Nat \ {0} :
         IsFiniteSet(Breaks(i)) /\ Cost(Breaks(i)) \in Nat /\ Dist(Byte(i)) \in Nat
  <2> TAKE i \in Nat \ {0}
  <2>1. Byte(i) \in Nat
    BY FramerFacts
  <2> QED
    BY <2>1, DistFacts, BudgetFacts
\* What the break costs is the same wherever it is counted from.
<1>5. PICK more \in {0, 3 * N} :
         /\ \A i \in 1..last : Cost(Breaks(i)') = Cost(Breaks(i)) + more
         /\ last # 0 /\ Byte(last + 1) = stage[last] + 1 => more = 3 * N
  <2>0. CASE last = 0
    <3>1. 1..last = {}
      BY <2>0
    <3> QED
      BY <2>0, <3>1
  <2>1. CASE last # 0 /\ Byte(last + 1) # stage[last] + 1
    <3>1. \A i \in 1..last : stage[last] \in Breaks(i)
      BY <2>1 DEF Breaks
    <3>2. \A i \in 1..last : Breaks(i)' = Breaks(i)
      BY <1>2, <3>1
    <3>3. \A i \in 1..last : Cost(Breaks(i)) \in Nat
      BY BudgetFacts
    <3>4. \A i \in 1..last : Cost(Breaks(i)') = Cost(Breaks(i)) + 0
      BY <3>2, <3>3
    <3> QED
      BY <2>1, <3>4
  <2>2. CASE last # 0 /\ Byte(last + 1) = stage[last] + 1
    <3>1. \A i \in 1..last : stage[last] \notin Breaks(i)
      <4> SUFFICES ASSUME NEW i \in 1..last, NEW m \in i..last, Byte(m + 1) # stage[m] + 1
                   PROVE  stage[m] # stage[last]
        BY DEF Breaks
      <4>1. m < last /\ m \in DOMAIN stage /\ last \in DOMAIN stage
        <5>1. m # last
          BY <2>2
        <5>2. m \in 1..last /\ last \in 1..last /\ m < last
          BY <2>2, <5>1
        <5>3. DOMAIN stage = 1..last
          BY FramerFacts
        <5> QED
          BY <5>2, <5>3
      <4>2. stage[m] < stage[last] /\ stage[m] \in Nat /\ stage[last] \in Nat
        BY <4>1, FramerFacts, ElementOfSeq DEF OrderInv, BytesInOrder
      <4> QED
        BY <4>2
    <3>2. \A i \in 1..last : Cost(Breaks(i) \union {stage[last]}) = Cost(Breaks(i)) + 3 * N
      <4> TAKE i \in 1..last
      <4>1. IsFiniteSet(Breaks(i))
        BY <1>b
      <4> QED
        BY <3>1, <4>1, CostFacts
    <3> QED
      BY <1>2, <3>2
  <2> QED
    BY <2>0, <2>1, <2>2
<1>6. more \in Nat /\ more <= 3 * N
  BY <1>0, <1>5
<1>7. Cost({}) = 0
  BY <1>0, FS_EmptySet DEF Cost
<1> HIDE DEF N
<1>8. \A i \in Nat \ {0} : Cost(Breaks(i)') \in Nat /\ Cost(Breaks(i)') <= Cost(Breaks(i)) + 3 * N
  <2> TAKE i \in Nat \ {0}
  <2>1. Cost(Breaks(i)) \in Nat
    BY <1>b
  <2>2. CASE i \in 1..last
    <3>1. Cost(Breaks(i)') = Cost(Breaks(i)) + more
      BY <1>5, <2>2
    <3> QED
      BY <1>0, <1>6, <2>1, <3>1
  <2>3. CASE i > last
    <3>1. Cost(Breaks(i)') = 0
      BY <1>2, <1>7, <2>3
    <3> QED
      BY <1>0, <2>1, <3>1
  <2> QED
    BY <2>2, <2>3
<1>9. Segments'
  <2> SUFFICES ASSUME NEW i \in 1..(last + 1), NEW j \in 1..(last + 1), i <= j, NoStart(i, j)
               PROVE  \E k \in i..j :
                         /\ Run(k, j)'
                         /\ \/ k = i
                            \/ (k - i) + 2 * N + Cost(Breaks(k)')
                                 <= Dist(Byte(i)') + Cost(Breaks(i)')
    BY <1>1 DEF Segments, N
  <2>0. i \in Nat \ {0} /\ j \in Nat \ {0} /\ i \in 1..(Len(stage) + 1) /\ j \in 1..(Len(stage) + 1)
    OBVIOUS
  <2>1. PICK k \in i..j :
           /\ Run(k, j)
           /\ \/ k = i
              \/ (k - i) + 2 * N + Cost(Breaks(k)) <= Dist(Byte(i)) + Cost(Breaks(i))
    BY <2>0 DEF LossInv, Segments, N
  <2>2. CASE j <= last
    <3>1. i \in 1..last /\ k \in 1..last /\ \A m \in k..j : m \in 1..last
      BY <2>2
    <3>2. Run(k, j)'
      BY <1>3, <2>1, <3>1 DEF Run
    <3>3. Byte(i)' = Byte(i)
      BY <1>3, <3>1
    <3>4. /\ Cost(Breaks(i)) \in Nat /\ Cost(Breaks(k)) \in Nat
          /\ Cost(Breaks(i)') = Cost(Breaks(i)) + more /\ Cost(Breaks(k)') = Cost(Breaks(k)) + more
      <4>1. k \in Nat \ {0}
        OBVIOUS
      <4> QED
        BY <1>5, <1>b, <2>0, <3>1, <4>1
    <3>5. Dist(Byte(i)) \in Nat
      BY <1>b, <2>0
    <3>6. k # i => (k - i) + 2 * N + Cost(Breaks(k)') <= Dist(Byte(i)') + Cost(Breaks(i)')
      BY <1>0, <1>6, <2>1, <3>3, <3>4, <3>5
    <3> QED
      BY <3>2, <3>6
  <2>3. CASE j = last + 1
    <3>1. Run(j, j)'
      <4>1. Byte(j)' \in Nat
        BY <1>a, <2>3
      <4>2. \A m \in j..j : m = j
        OBVIOUS
      <4>3. Byte(j)' = Byte(j)' + j - j
        BY <4>1
      <4> QED
        BY <4>2, <4>3 DEF Run
    <3>2. CASE i = j
      BY <3>1, <3>2
    <3>3. CASE i # j
      <4>1. i \in 1..last /\ Byte(i)' = Byte(i)
        BY <1>3, <2>3, <3>3
      <4>2. /\ Dist(Byte(i)) \in Nat /\ Cost(Breaks(i)) \in Nat
            /\ Cost(Breaks(i)') = Cost(Breaks(i)) + more
            /\ Cost(Breaks(j)') = 0 /\ Cost(Breaks(j)) = 0
        <5>1. Cost(Breaks(j)') = 0 /\ Cost(Breaks(j)) = 0
          <6>1. j > Len(stage)
            BY <2>3
          <6>2. Breaks(j)' = {} /\ Breaks(j) = {}
            BY <1>2, <2>0, <6>1
          <6> QED
            BY <1>7, <6>2
        <5> QED
          BY <1>5, <1>b, <2>0, <4>1, <5>1
      <4>3. CASE more = 3 * N
        <5>1. /\ Dist(Byte(j)) \in Nat
              /\ (j - i) + Dist(Byte(j)) + Cost(Breaks(j))
                   <= Dist(Byte(i)) + N + Cost(Breaks(i))
          BY <2>0, Walk DEF LossInv, N
        <5>2. (j - i) + 2 * N + Cost(Breaks(j)') <= Dist(Byte(i)') + Cost(Breaks(i)')
          <6> DEFINE di == Dist(Byte(i))
                     dj == Dist(Byte(j))
                     bi == Cost(Breaks(i))
          <6>1. /\ di \in Nat /\ dj \in Nat /\ bi \in Nat
                /\ (j - i) + dj + 0 <= di + N + bi
            BY <4>2, <5>1
          <6> HIDE DEF di, dj, bi
          <6>2. (j - i) + 2 * N + 0 <= di + (bi + 3 * N)
            BY <1>0, <2>0, <6>1
          <6> QED
            BY <4>1, <4>2, <4>3, <6>2 DEF di, bi
        <5> QED
          BY <3>1, <5>2
      <4>4. CASE more # 3 * N
        <5>1. k = j
          <6> SUFFICES ASSUME k # j PROVE FALSE
            OBVIOUS
          <6>1. last \in k..j /\ last + 1 \in k..j /\ last # 0 /\ last \in 1..Len(stage)
            BY <2>3, <4>1
          <6>2. Byte(last) = Byte(k) + last - k /\ Byte(last + 1) = Byte(k) + (last + 1) - k
            BY <2>1, <6>1 DEF Run
          <6>3. Byte(last) = stage[last] /\ Byte(k) \in Nat
            <7>1. k \in Nat \ {0}
              OBVIOUS
            <7> QED
              BY <6>1, <7>1, FramerFacts DEF Byte
          <6>4. Byte(last + 1) = stage[last] + 1
            BY <6>2, <6>3
          <6> QED
            BY <1>5, <4>4, <6>1, <6>4
        <5>2. (j - i) + 2 * N + Cost(Breaks(j)) <= Dist(Byte(i)) + Cost(Breaks(i))
          BY <2>1, <3>3, <5>1
        <5>3. (j - i) + 2 * N + Cost(Breaks(j)') <= Dist(Byte(i)') + Cost(Breaks(i)')
          BY <1>0, <1>6, <2>0, <4>1, <4>2, <5>2
        <5> QED
          BY <3>1, <5>3
      <4> QED
        BY <4>3, <4>4
    <3> QED
      BY <3>2, <3>3
  <2> QED
    BY <2>2, <2>3
<1>10. Allowed' = Allowed + 3 * N
  <2>1. Cost(FakePairs) \in Nat /\ 3 * N * gaps \in Nat
    BY <1>0, FramerFacts, CostFacts
  <2>2. 3 * N * (gaps + 1) = 3 * N * gaps + 3 * N
    BY <1>0
  <2> QED
    BY <1>0, <1>1, <2>1, <2>2 DEF Allowed, N
<1>11. Cost(PairsAhead') \in Nat /\ Cost(PairsAhead') <= Cost(PairsAhead) /\ Cost(PairsAhead) \in Nat
  BY <1>3, BudgetFacts
<1>12. consumed + 1 = 1 /\ consumed' + 1 = 1 /\ 1 \in Nat \ {0} /\ 1 + N \in Nat \ {0}
  BY <1>0, <1>1
<1>13. CASE last = 0
  <2>1. skipped + Cost(PairsAhead') <= Allowed
    BY <1>0, <1>11, BudgetFacts DEF LossInv
  <2>2. Cost(Breaks(1)') = 0
    <3>1. Breaks(1)' = {}
      <4>1. 1 \in Nat \ {0} /\ 1 > Len(stage)
        BY <1>13
      <4> QED
        BY <1>2, <4>1
    <3> QED
      BY <1>7, <3>1
  <2>3. CASE locked
    <3>1. skipped + (IF OnGrid(Ahead') THEN 0 ELSE 2 * N - 1) + Cost(Breaks(1)') + Cost(PairsAhead')
             <= Allowed'
      <4>1. 0 <= 3 * N /\ 2 * N - 1 <= 3 * N /\ 2 * N - 1 \in Nat
        BY <1>0
      <4> QED
        BY <1>0, <1>10, <1>11, <2>1, <2>2, <4>1
    <3> QED
      BY <1>1, <1>4, <1>9, <1>12, <2>3, <3>1 DEF LossInv, Budget, LockedBudget, N
  <2>4. CASE ~locked
    <3>1. Dist(Ahead') \in Nat /\ Dist(Ahead') <= N - 1
      <4>1. Ahead' \in Nat
        BY <1>1, <1>3, <1>12, <1>13 DEF Ahead
      <4> QED
        BY <4>1, DistFacts DEF N
    <3>2. skipped + Dist(Ahead') + Cost(Breaks(1)') + Cost(PairsAhead') <= Allowed'
      BY <1>0, <1>10, <1>11, <2>1, <2>2, <3>1
    <3>3. NoStart(1, 1)
      <4>1. 1..(1 - 1 - PacketSize) = {}
        BY <1>0 DEF N
      <4> QED
        BY <4>1 DEF NoStart
    <3>4. 1 \in 1..(Len(stage') + 1)
      BY <1>0, <1>1
    <3>5. SearchBudget'
      BY <1>1, <1>12, <3>2, <3>3, <3>4 DEF SearchBudget
    <3> QED
      BY <1>1, <1>4, <1>9, <2>4, <3>5 DEF LossInv, Budget
  <2> QED
    BY <2>3, <2>4
<1>14. CASE last # 0
  <2>1. Ahead' = Ahead
    BY <1>3, <1>14
  <2>2. CASE locked
    <3> DEFINE debt == IF OnGrid(Ahead) THEN 0 ELSE 2 * PacketSize - 1
    <3>0. debt \in Nat /\ 2 * N - 1 \in Nat
      BY <1>0 DEF N
    <3>1. CASE skipped + debt + Cost(Breaks(1)) + Cost(PairsAhead) <= Allowed
      <4> HIDE DEF debt
      <4>1. Cost(Breaks(1)) \in Nat /\ Cost(Breaks(1)') \in Nat /\ Cost(Breaks(1)') <= Cost(Breaks(1)) + 3 * N
        BY <1>8, <1>12, BudgetFacts
      <4>2. skipped + debt + Cost(Breaks(1)') + Cost(PairsAhead') <= Allowed'
        BY <1>0, <1>10, <1>11, <3>0, <3>1, <4>1
      <4>3. LockedBudget'
        BY <1>1, <1>12, <2>1, <4>2 DEF LockedBudget, debt
      <4> QED
        BY <1>1, <1>4, <1>9, <2>2, <4>3 DEF LossInv, Budget
    <3>2. CASE /\ IsSync(Ahead)
               /\ skipped + (2 * N - 1) + Cost(Breaks(1 + N)) + Cost(PairsAhead) <= Allowed
      <4>1. /\ Cost(Breaks(1 + N)) \in Nat /\ Cost(Breaks(1 + N)') \in Nat
            /\ Cost(Breaks(1 + N)') <= Cost(Breaks(1 + N)) + 3 * N
        BY <1>8, <1>12, BudgetFacts
      <4>2. skipped + (2 * N - 1) + Cost(Breaks(1 + N)') + Cost(PairsAhead') <= Allowed'
        BY <1>0, <1>10, <1>11, <3>0, <3>2, <4>1
      <4>3. LockedBudget'
        BY <1>1, <1>12, <2>1, <3>2, <4>2 DEF LockedBudget, N
      <4> QED
        BY <1>1, <1>4, <1>9, <2>2, <4>3 DEF LossInv, Budget
    <3> QED
      BY <1>12, <2>2, <3>1, <3>2 DEF LossInv, Budget, LockedBudget, N
  <2>3. CASE ~locked
    <3>1. PICK k \in 1..(Len(stage) + 1) :
             /\ NoStart(1, k)
             /\ skipped + (IF k = 1 THEN Dist(Ahead) ELSE k - 1 + 2 * PacketSize)
                  + Cost(Breaks(k)) + Cost(PairsAhead) <= Allowed
      BY <1>12, <2>3 DEF LossInv, Budget, SearchBudget
    <3> DEFINE debt == IF k = 1 THEN Dist(Ahead) ELSE k - 1 + 2 * PacketSize
    <3>2. debt \in Nat
      BY <1>0, BudgetFacts DEF N
    <3>3. skipped + debt + Cost(Breaks(k)) + Cost(PairsAhead) <= Allowed
      BY <3>1
    <3> HIDE DEF debt
    <3>4. Cost(Breaks(k)) \in Nat /\ Cost(Breaks(k)') \in Nat /\ Cost(Breaks(k)') <= Cost(Breaks(k)) + 3 * N
      <4>1. k \in Nat \ {0}
        BY <1>0
      <4> QED
        BY <1>8, <4>1, BudgetFacts
    <3>5. skipped + debt + Cost(Breaks(k)') + Cost(PairsAhead') <= Allowed'
      <4> DEFINE bk == Cost(Breaks(k))
                 ck == Cost(Breaks(k)')
                 pa == Cost(PairsAhead)
                 pb == Cost(PairsAhead')
                 all == Allowed
      <4>1. /\ bk \in Nat /\ ck \in Nat /\ ck <= bk + 3 * N /\ pa \in Nat /\ pb \in Nat
            /\ pb <= pa /\ all \in Nat /\ N \in Nat /\ skipped \in Nat
        BY <1>0, <1>11, <3>4
      <4>2. skipped + debt + bk + pa <= all
        BY <3>3
      <4> HIDE DEF bk, ck, pa, pb, all
      <4>3. skipped + debt + ck + pb <= all + 3 * N
        BY <3>2, <4>1, <4>2
      <4> QED
        BY <1>10, <4>3 DEF ck, pb, all
    <3>6. SearchBudget'
      BY <1>1, <1>12, <2>1, <3>1, <3>5 DEF SearchBudget, debt
    <3> QED
      BY <1>1, <1>4, <1>9, <2>3, <3>6 DEF LossInv, Budget
  <2> QED
    BY <2>2, <2>3
<1> QED
  BY <1>13, <1>14

\* A read moves bytes from the ring to the stage: they stay where they are, and
\* the new ones follow one another.
LEMMA ReadKeepsLoss ==
  ASSUME TypeInv, OrderInv, LossInv, NEW n \in 1..ReadSize, Read(n)
  PROVE  LossInv'
<1>0. /\ Len(stage) \in Nat /\ stage \in Seq(Nat) /\ next \in Nat
      /\ n \in Nat /\ n > 0
  BY FramerFacts, FramerAssumption DEF FramerAssumption
<1> PICK L \in Nat : L = Len(stage)
  BY <1>0
<1>1. /\ consumed = 0 /\ consumed' = 0
      /\ stage' = stage \o [i \in 1..n |-> next + i - 1]
      /\ next' = next + n
      /\ UNCHANGED <<locked, badSync, fakes, gaps, skipped>>
  BY DEF Read, TypeInv, Staged, counts, history
<1>2. /\ FakePairs' = FakePairs
      /\ \A byte : IsSync(byte)' = IsSync(byte)
  BY <1>1 DEF FakePairs, IsSync
<1>3. /\ Len(stage') = L + n
      /\ \A k \in 1..L : stage'[k] = stage[k]
      /\ \A k \in (L + 1)..(L + n) : stage'[k] = next + k - L - 1
  BY <1>0, <1>1, AppendedByte
<1>4. \A i \in 1..L : Byte(i)' = stage[i] /\ Byte(i) = stage[i] /\ stage'[i] = stage[i]
  BY <1>0, <1>3 DEF Byte
<1>5. Byte(L + 1) = next
  BY <1>0 DEF Byte
<1>6. \A i \in (L + 1)..(L + n + 1) : Byte(i)' = next + i - L - 1
  <2> TAKE i \in (L + 1)..(L + n + 1)
  <2>1. CASE i <= L + n
    BY <1>0, <1>3, <2>1 DEF Byte
  <2>2. CASE i = L + n + 1
    BY <1>0, <1>1, <1>3, <2>2 DEF Byte
  <2> QED
    BY <1>0, <2>1, <2>2
<1>7. \A i \in 1..(L + 1) : Byte(i)' = Byte(i)
  <2>1. \A i \in 1..L : Byte(i)' = Byte(i)
    BY <1>4
  <2>2. Byte(L + 1)' = Byte(L + 1)
    <3>1. L + 1 \in (L + 1)..(L + n + 1) /\ next + (L + 1) - L - 1 = next
      BY <1>0
    <3>2. Byte(L + 1)' = next + (L + 1) - L - 1
      BY <1>6, <3>1
    <3> QED
      BY <1>5, <3>1, <3>2
  <2>3. \A i \in 1..(L + 1) : i \in 1..L \/ i = L + 1
    OBVIOUS
  <2> QED
    BY <2>1, <2>2, <2>3
<1>8. L \in Nat /\ Len(stage) = L
  OBVIOUS
<1>9. \A k \in (L + 1)..(L + n) : Byte(k + 1)' = stage'[k] + 1
  <2> TAKE k \in (L + 1)..(L + n)
  <2>1. k \in Nat /\ k + 1 \in (L + 1)..(L + n + 1)
    BY <1>0
  <2>2. Byte(k + 1)' = next + (k + 1) - L - 1 /\ stage'[k] = next + k - L - 1
    BY <1>3, <1>6, <2>1
  <2>3. next + (k + 1) - L - 1 = (next + k - L - 1) + 1
    BY <1>0, <2>1
  <2> QED
    BY <2>2, <2>3
<1>10. \A i \in Nat \ {0} : Breaks(i)' = Breaks(i)
  <2> TAKE i \in Nat \ {0}
  <2>1. Breaks(i)' = {stage'[k] : k \in {k \in i..(L + n) : Byte(k + 1)' # stage'[k] + 1}}
    BY <1>3 DEF Breaks
  <2>2. Breaks(i)' \subseteq Breaks(i)
    <3> SUFFICES ASSUME NEW k \in i..(L + n), Byte(k + 1)' # stage'[k] + 1
                 PROVE  stage'[k] \in Breaks(i)
      BY <2>1
    <3>1. k \in 1..L /\ k \in i..L /\ k + 1 \in 1..(L + 1)
      BY <1>0, <1>8, <1>9
    <3>2. stage'[k] = stage[k] /\ Byte(k + 1) # stage[k] + 1
      BY <1>4, <1>7, <3>1
    <3> QED
      BY <1>8, <3>1, <3>2 DEF Breaks
  <2>3. Breaks(i) \subseteq Breaks(i)'
    <3> SUFFICES ASSUME NEW k \in i..L, Byte(k + 1) # stage[k] + 1
                 PROVE  stage[k] \in Breaks(i)'
      BY <1>8 DEF Breaks
    <3>1. k \in 1..L /\ k \in i..(L + n) /\ k + 1 \in 1..(L + 1)
      BY <1>0, <1>8
    <3>2. stage'[k] = stage[k] /\ Byte(k + 1)' # stage'[k] + 1
      BY <1>4, <1>7, <3>1
    <3> QED
      BY <2>1, <3>1, <3>2
  <2> QED
    BY <2>2, <2>3
<1>11. Spread'
  <2> SUFFICES ASSUME NEW i \in 1..(L + n + 1), NEW j \in 1..(L + n + 1),
                      i < j, Byte(j)' - Byte(i)' # j - i
               PROVE  \E k \in i..(j - 1) : Byte(k + 1)' # stage'[k] + 1
    BY <1>3 DEF Spread
  <2>1. i \in 1..L
    <3> SUFFICES ASSUME ~(i <= L) PROVE FALSE
      OBVIOUS
    <3>1. i \in (L + 1)..(L + n + 1) /\ j \in (L + 1)..(L + n + 1)
      BY <1>0
    <3>2. Byte(i)' = next + i - L - 1 /\ Byte(j)' = next + j - L - 1
      BY <1>6, <3>1
    <3>3. (next + j - L - 1) - (next + i - L - 1) = j - i
      BY <1>0, <3>1
    <3> QED
      BY <3>2, <3>3
  <2> PICK m \in 1..(L + 1) : IF j <= L + 1 THEN m = j ELSE m = L + 1
    BY <1>8
  <2>2. i < m /\ m <= j
    BY <1>8, <2>1
  <2>3. Byte(m) - Byte(i) # m - i
    <3>1. Byte(i)' = Byte(i) /\ Byte(m)' = Byte(m) /\ Byte(i) \in Nat
      <4>1. i \in 1..(L + 1) /\ i \in Nat \ {0}
        BY <1>8, <2>1
      <4>2. Byte(i) \in Nat
        BY <4>1, FramerFacts
      <4> QED
        BY <1>7, <4>1, <4>2
    <3>2. CASE j <= L + 1
      <4>1. m = j
        BY <3>2
      <4> QED
        BY <3>1, <4>1
    <3>3. CASE ~(j <= L + 1)
      <4>1. m = L + 1
        BY <3>3
      <4>2. Byte(m) = next
        BY <1>5, <4>1
      <4>3. Byte(j)' = next + j - L - 1
        BY <1>0, <1>6, <1>8, <3>3
      <4>4. Byte(i)' # next + i - L - 1
        BY <1>0, <1>8, <3>1, <4>3
      <4> DEFINE b == Byte(i)
      <4>5. b \in Nat /\ b # next + i - L - 1
        BY <3>1, <4>4
      <4> HIDE DEF b
      <4>6. next - b # (L + 1) - i
        BY <1>0, <2>1, <4>5
      <4> QED
        BY <4>1, <4>2, <4>6 DEF b
    <3> QED
      BY <3>2, <3>3
  <2>4. PICK k \in i..(m - 1) : Byte(k + 1) # stage[k] + 1
    <3>1. i \in 1..(Len(stage) + 1) /\ m \in 1..(Len(stage) + 1)
      BY <1>8, <2>1
    <3> QED
      BY <2>2, <2>3, <3>1 DEF LossInv, Spread
  <2>5. k \in i..(j - 1) /\ k \in 1..L /\ k + 1 \in 1..(L + 1)
    BY <1>8, <2>1, <2>2, <2>4
  <2> QED
    BY <1>4, <1>7, <2>4, <2>5
<1>12. Ahead' = Ahead
  BY <1>1, <1>7, <1>8 DEF Ahead
<1>13. Astray' = Astray /\ PairsAhead' = PairsAhead
  BY <1>1, <1>2, <1>12 DEF Astray, PairsAhead
<1>14. BreaksAhead' = BreaksAhead
  <2>1. consumed + 1 \in Nat \ {0} /\ consumed + 1 + PacketSize \in Nat \ {0}
    BY <1>1, FramerFacts
  <2> QED
    BY <1>1, <1>2, <1>10, <1>12, <1>13, <2>1 DEF BreaksAhead
<1>15. Balance'
  BY <1>1, <1>2, <1>13, <1>14 DEF LossInv, Balance
<1>16. PacketSize \in Nat /\ PacketSize > 0
  BY FramerFacts
<1>17. \A i \in Nat \ {0} : \A j \in 1..(L + 1) : NoStart(i, j)' <=> NoStart(i, j)
  <2> TAKE i \in Nat \ {0}
  <2> TAKE j \in 1..(L + 1)
  <2>1. \A k \in i..(j - 1 - PacketSize) :
           stage'[k] = stage[k] /\ stage'[k + PacketSize] = stage[k + PacketSize]
    <3> TAKE k \in i..(j - 1 - PacketSize)
    <3>1. k \in 1..L /\ k + PacketSize \in 1..L
      BY <1>8, <1>16
    <3> QED
      BY <1>4, <3>1
  <2>2. NoStart(i, j)' <=>
           \A k \in i..(j - 1 - PacketSize) :
              ~(IsSync(stage'[k]) /\ IsSync(stage'[k + PacketSize]))
    BY <1>2 DEF NoStart
  <2> QED
    BY <2>1, <2>2 DEF NoStart
<1>18. Segments'
  <2> SUFFICES ASSUME NEW i \in 1..(L + n + 1), NEW j \in 1..(L + n + 1), i <= j, NoStart(i, j)'
               PROVE  \E k \in i..j :
                         /\ Run(k, j)'
                         /\ \/ k = i
                            \/ (k - i) + 2 * PacketSize + Cost(Breaks(k)')
                                 <= Dist(Byte(i)') + Cost(Breaks(i)')
    BY <1>3 DEF Segments
  <2>0. i \in Nat \ {0} /\ j \in Nat \ {0}
    BY <1>0, <1>8
  <2>1. CASE i <= L + 1
    <3> PICK b \in 1..(L + 1) : IF j <= L + 1 THEN b = j ELSE b = L + 1
      BY <1>8, <2>0
    <3>1. i \in 1..(Len(stage) + 1) /\ b \in 1..(Len(stage) + 1) /\ i <= b /\ b <= j
      BY <1>8, <2>0, <2>1
    <3>2. NoStart(i, b)
      <4>1. NoStart(i, b)'
        <5>1. i..(b - 1 - PacketSize) \subseteq i..(j - 1 - PacketSize)
          BY <1>8, <1>16, <2>0, <3>1
        <5> QED
          BY <5>1 DEF NoStart
      <4> QED
        BY <1>17, <2>0, <4>1
    <3>3. PICK k \in i..b :
             /\ Run(k, b)
             /\ \/ k = i
                \/ (k - i) + 2 * PacketSize + Cost(Breaks(k)) <= Dist(Byte(i)) + Cost(Breaks(i))
      BY <3>1, <3>2 DEF LossInv, Segments
    <3>4. /\ k \in i..j /\ k \in 1..(L + 1) /\ i \in 1..(L + 1) /\ k \in Nat \ {0}
          /\ b \in k..b
      BY <1>8, <2>0, <3>1
    <3>5. Byte(k)' = Byte(k) /\ Byte(k) \in Nat /\ Byte(i)' = Byte(i) /\ Byte(b)' = Byte(b)
      BY <1>7, <3>4, FramerFacts
    <3>6. Run(k, j)'
      <4> SUFFICES ASSUME NEW m \in k..j PROVE Byte(m)' = Byte(k)' + m - k
        BY DEF Run
      <4>1. CASE m <= b
        <5>1. m \in k..b /\ m \in 1..(L + 1)
          BY <1>8, <3>4, <4>1
        <5> QED
          BY <1>7, <3>3, <3>5, <5>1 DEF Run
      <4>2. CASE ~(m <= b)
        <5>1. b = L + 1 /\ m \in (L + 1)..(L + n + 1)
          BY <1>0, <1>8, <2>0, <3>1, <3>4, <4>2
        <5>2. Byte(m)' = next + m - L - 1
          BY <1>6, <5>1
        <5>3. next = Byte(k) + (L + 1) - k
          BY <1>5, <3>3, <3>4, <5>1 DEF Run
        <5> DEFINE y == Byte(k)
        <5>4. y \in Nat /\ next = y + (L + 1) - k /\ Byte(k)' = y
          BY <3>5, <5>3
        <5>5. k \in Nat /\ m \in Nat
          BY <3>4, <5>1
        <5> HIDE DEF y
        <5>6. next + m - L - 1 = y + m - k
          BY <1>0, <5>4, <5>5
        <5> QED
          BY <5>2, <5>4, <5>6
      <4> QED
        BY <1>8, <2>0, <3>4, <4>1, <4>2
    <3>7. Breaks(k)' = Breaks(k) /\ Breaks(i)' = Breaks(i)
      BY <1>10, <2>0, <3>4
    <3> QED
      BY <3>3, <3>4, <3>5, <3>6, <3>7
  <2>2. CASE ~(i <= L + 1)
    <3>1. Run(i, j)'
      <4> SUFFICES ASSUME NEW m \in i..j PROVE Byte(m)' = Byte(i)' + m - i
        BY DEF Run
      <4>1. m \in (L + 1)..(L + n + 1) /\ i \in (L + 1)..(L + n + 1)
        BY <1>0, <1>8, <2>0, <2>2
      <4>2. Byte(m)' = next + m - L - 1 /\ Byte(i)' = next + i - L - 1
        BY <1>6, <4>1
      <4> QED
        BY <1>0, <1>8, <4>1, <4>2
    <3> QED
      BY <2>0, <3>1
  <2> QED
    BY <2>1, <2>2
<1>19. Allowed' = Allowed
  BY <1>1, <1>2 DEF Allowed
<1>20. Budget'
  <2>1. consumed + 1 = 1 /\ consumed' + 1 = 1 /\ 1 \in Nat \ {0} /\ 1 + PacketSize \in Nat \ {0}
    BY <1>1, <1>16
  <2>2. CASE locked
    <3>1. Breaks(1)' = Breaks(1) /\ Breaks(1 + PacketSize)' = Breaks(1 + PacketSize)
      BY <1>10, <2>1
    <3> QED
      BY <1>1, <1>2, <1>12, <1>13, <1>19, <2>1, <2>2, <3>1 DEF LossInv, Budget, LockedBudget
  <2>3. CASE ~locked
    <3>1. PICK k \in 1..(Len(stage) + 1) :
             /\ NoStart(1, k)
             /\ skipped + (IF k = 1 THEN Dist(Ahead) ELSE k - 1 + 2 * PacketSize)
                  + Cost(Breaks(k)) + Cost(PairsAhead) <= Allowed
      BY <2>1, <2>3 DEF LossInv, Budget, SearchBudget
    <3>2. k \in Nat \ {0} /\ k \in 1..(L + 1) /\ k \in 1..(Len(stage') + 1)
      BY <1>0, <1>3, <1>8
    <3>3. Breaks(k)' = Breaks(k) /\ (NoStart(1, k)' <=> NoStart(1, k))
      BY <1>10, <1>17, <2>1, <3>2
    <3>4. SearchBudget'
      BY <1>1, <1>12, <1>13, <1>19, <2>1, <3>1, <3>2, <3>3 DEF SearchBudget
    <3> QED
      BY <1>1, <2>3, <3>4 DEF Budget
  <2> QED
    BY <2>2, <2>3
<1> QED
  BY <1>11, <1>15, <1>18, <1>20 DEF LossInv

\* Acquisition keeps what is ahead of the place it locks on to; a failed one
\* drops some of it.
LEMMA AcquireKeepsLoss ==
  ASSUME TypeInv, OrderInv, LossInv, Acquire
  PROVE  LossInv'
<1>1. PICK i \in First(Starts(1)) : AcquireAt(i)
  BY DEF Acquire
<1>2. i \in Starts(1) /\ i \in Nat \ {0} /\ i <= Len(stage)
  BY <1>1, StartInStage, FramerFacts, FramerAssumption DEF First
<1>3. /\ consumed = 0 /\ ~locked /\ locked'
      /\ stage' = From(i) /\ skipped' = skipped + i - 1
      /\ UNCHANGED <<consumed, badSync, next, fakes, gaps>>
  BY <1>1 DEF Acquire, AcquireAt, TypeInv, Staged, counts, ring
<1>4. i <= Len(stage) + 1
  BY <1>2, FramerFacts
<1>5. /\ \A k \in Nat \ {0} : Byte(k)' = Byte(k + i - 1) /\ Breaks(k)' = Breaks(k + i - 1)
      /\ Spread' /\ Segments'
      /\ FakePairs' = FakePairs
      /\ \A byte : IsSync(byte)' = IsSync(byte)
  BY <1>2, <1>3, <1>4, Reindexed DEF LossInv
<1>6. 1 + i - 1 = i /\ 1 + PacketSize \in Nat \ {0} /\ 1 + PacketSize + i - 1 = i + PacketSize
  <2>1. i \in Nat /\ PacketSize \in Nat
    BY <1>2, FramerFacts
  <2> QED
    BY <2>1
<1>7. Ahead' = stage[i] /\ stage[i] \in Nat /\ IsSync(stage[i])
  <2>1. Ahead' = Byte(i)
    BY <1>3, <1>5, <1>6 DEF Ahead
  <2>2. i \in DOMAIN stage
    BY <1>2, FramerFacts
  <2> QED
    BY <1>2, <2>1, <2>2, FramerFacts, ElementOfSeq DEF Byte, Starts
<1>8. PairsAhead' = {f \in FakePairs : f > stage[i]}
  BY <1>3, <1>5, <1>7 DEF PairsAhead
<1>9. {f \in FakePairs : f >= stage[i]} \subseteq PairsAhead
  <2>1. Ahead \in Nat /\ Ahead <= stage[i]
    <3>1. Ahead = Byte(1) /\ Byte(i) = stage[i]
      BY <1>2, <1>3 DEF Ahead, Byte
    <3>2. i # 1 => 1 \in 1..(Len(stage) + 1) /\ i \in 1..(Len(stage) + 1) /\ 1 < i
      BY <1>2, FramerFacts
    <3>3. Byte(1) \in Nat /\ (i # 1 => Byte(1) < Byte(i))
      BY <3>2, FramerFacts
    <3> QED
      BY <1>7, <3>1, <3>3
  <2>2. \A f \in Nat : f >= stage[i] => f > Ahead \/ f = Ahead
    BY <1>7, <2>1
  <2>3. \A f \in FakePairs : f \in Nat
    BY AheadFacts
  <2> QED
    BY <1>3, <2>2, <2>3 DEF PairsAhead
<1>10. BreaksAhead = Breaks(1)
  BY <1>3 DEF BreaksAhead, Astray
<1>11. Astray' <=> ~OnGrid(stage[i])
  BY <1>3, <1>7 DEF Astray
<1>12. BreaksAhead' = IF OnGrid(stage[i]) THEN Breaks(i) ELSE Breaks(i + PacketSize)
  BY <1>3, <1>5, <1>6, <1>7, <1>11 DEF BreaksAhead
<1>13. /\ OnGrid(stage[i]) =>
            Cardinality(BreaksAhead') + Cardinality(PairsAhead')
               <= Cardinality(BreaksAhead) + Cardinality(PairsAhead)
       /\ ~OnGrid(stage[i]) =>
            1 + Cardinality(BreaksAhead') + Cardinality(PairsAhead')
               <= Cardinality(BreaksAhead) + Cardinality(PairsAhead)
  <2>1. PairsAhead \subseteq FakePairs /\ 1 \in Nat \ {0}
    BY AheadFacts
  <2> QED
    BY <1>2, <1>8, <1>9, <1>10, <1>12, <2>1, LocksOn DEF LossInv
<1>14. Cardinality(BreaksAhead') \in Nat /\ Cardinality(PairsAhead') \in Nat
  <2>1. /\ i + PacketSize \in Nat \ {0}
        /\ IsFiniteSet(FakePairs) /\ PairsAhead' \subseteq FakePairs
    <3>1. i \in Nat \ {0}
      BY <1>2
    <3>2. PacketSize \in Nat /\ IsFiniteSet(FakePairs)
      BY FramerFacts
    <3>3. i + PacketSize \in Nat \ {0}
      BY <3>1, <3>2
    <3> QED
      BY <1>8, <3>2, <3>3
  <2> QED
    BY <1>2, <1>12, <2>1, BreakFacts, Part
<1>15. Balance'
  <2>1. badSync \in Nat /\ gaps \in Nat
    BY FramerFacts
  <2>2. badSync + Cardinality(BreaksAhead) + Cardinality(PairsAhead) <= gaps + Cardinality(FakePairs)
    BY <1>3, <2>1, AheadFacts DEF LossInv, Balance, Astray
  <2> DEFINE b == Cardinality(BreaksAhead)
             p == Cardinality(PairsAhead)
             c == Cardinality(BreaksAhead')
             q == Cardinality(PairsAhead')
             w == gaps + Cardinality(FakePairs)
  <2>3. b \in Nat /\ p \in Nat /\ c \in Nat /\ q \in Nat /\ w \in Nat
    BY <1>14, <2>1, AheadFacts
  <2>4. badSync + b + p <= w
    BY <2>2
  <2>5. (OnGrid(stage[i]) => c + q <= b + p) /\ (~OnGrid(stage[i]) => 1 + c + q <= b + p)
    BY <1>13
  <2> HIDE DEF b, p, c, q, w
  <2>6. badSync + (IF Astray' THEN 1 ELSE 0) + c + q <= w
    <3>1. CASE OnGrid(stage[i])
      <4>1. badSync + 0 + c + q <= w
        BY <2>1, <2>3, <2>4, <2>5, <3>1
      <4> QED
        BY <1>11, <3>1, <4>1
    <3>2. CASE ~OnGrid(stage[i])
      <4>1. badSync + 1 + c + q <= w
        BY <2>1, <2>3, <2>4, <2>5, <3>2
      <4> QED
        BY <1>11, <3>2, <4>1
    <3> QED
      BY <3>1, <3>2
  <2>7. badSync + (IF Astray' THEN 1 ELSE 0) + Cardinality(BreaksAhead') + Cardinality(PairsAhead')
           <= gaps + Cardinality(FakePairs)
    BY <2>6 DEF c, q, w
  <2> QED
    BY <1>3, <1>5, <2>7 DEF Balance
<1>16. Allowed' = Allowed
  BY <1>3, <1>5 DEF Allowed
<1>17. /\ PacketSize \in Nat /\ PacketSize > 0 /\ skipped \in Nat /\ Allowed \in Nat
       /\ Cost(PairsAhead) \in Nat /\ Cost(PairsAhead') \in Nat
       /\ Cost(PairsAhead') <= Cost(PairsAhead)
       /\ Cost(Breaks(1)) \in Nat /\ Cost(Breaks(i)) \in Nat
       /\ Cost(Breaks(i + PacketSize)) \in Nat
  <2>1. PairsAhead' \subseteq PairsAhead
    <3>1. \A f \in FakePairs : f > stage[i] => f >= stage[i]
      BY <1>7, AheadFacts
    <3> QED
      BY <1>8, <1>9, <3>1
  <2>2. 1 \in Nat \ {0} /\ i + PacketSize \in Nat \ {0}
    <3>1. i \in Nat \ {0}
      BY <1>2
    <3>2. PacketSize \in Nat
      BY FramerFacts
    <3> QED
      BY <3>1, <3>2
  <2> QED
    BY <1>2, <2>1, <2>2, BudgetFacts
<1>18. NoStart(1, i)
  BY <1>1, BeforeFirst
<1> PICK x \in Nat : x = skipped + i - 1
  BY <1>2, <1>17
<1> DEFINE N == PacketSize
           b1 == Cost(Breaks(1))
           bi == Cost(Breaks(i))
           bn == Cost(Breaks(i + PacketSize))
           pa == Cost(PairsAhead)
           pb == Cost(PairsAhead')
           all == Allowed
<1>a. /\ N \in Nat /\ N > 0 /\ skipped \in Nat /\ all \in Nat
      /\ b1 \in Nat /\ bi \in Nat /\ bn \in Nat
      /\ pa \in Nat /\ pb \in Nat /\ pb <= pa
  BY <1>17
<1>b. i \in Nat \ {0}
  BY <1>2
<1> HIDE DEF N, b1, bi, bn, pa, pb, all
<1>19. SUFFICES \/ x + (IF OnGrid(stage[i]) THEN 0 ELSE 2 * PacketSize - 1)
                      + Cost(Breaks(i)) + Cost(PairsAhead') <= Allowed
                \/ x + (2 * PacketSize - 1)
                      + Cost(Breaks(i + PacketSize)) + Cost(PairsAhead') <= Allowed
  <2>1. Breaks(1)' = Breaks(i) /\ Breaks(1 + PacketSize)' = Breaks(i + PacketSize)
    BY <1>5, <1>6
  <2>2. IsSync(Ahead)'
    BY <1>5, <1>7
  <2>3. consumed' + 1 = 1 /\ skipped' = x
    BY <1>3
  <2>4. LockedBudget'
    BY <1>7, <1>16, <1>19, <2>1, <2>2, <2>3 DEF LockedBudget
  <2> QED
    BY <1>3, <1>5, <1>15, <2>4 DEF LossInv, Budget
<1>20. ASSUME /\ x + Cost(Breaks(i)) + Cost(PairsAhead) <= Allowed + PacketSize + 1
              /\ OnGrid(stage[i]) => x + Cost(Breaks(i)) + Cost(PairsAhead) <= Allowed
       PROVE  \/ x + (IF OnGrid(stage[i]) THEN 0 ELSE 2 * PacketSize - 1)
                    + Cost(Breaks(i)) + Cost(PairsAhead') <= Allowed
              \/ x + (2 * PacketSize - 1)
                    + Cost(Breaks(i + PacketSize)) + Cost(PairsAhead') <= Allowed
  <2>1. PairsAhead \subseteq FakePairs /\ 1 \in Nat \ {0}
    BY AheadFacts
  <2> QED
    BY <1>2, <1>8, <1>9, <1>17, <1>20, <2>1, LockPays DEF LossInv
<1>21. PICK k \in 1..(Len(stage) + 1) :
          /\ NoStart(1, k)
          /\ skipped + (IF k = 1 THEN Dist(Ahead) ELSE k - 1 + 2 * PacketSize)
               + Cost(Breaks(k)) + Cost(PairsAhead) <= Allowed
  <2>1. consumed + 1 = 1
    BY <1>3
  <2> QED
    BY <1>3, <2>1 DEF LossInv, Budget, SearchBudget
<1>22. k \in Nat \ {0} /\ k <= Len(stage) + 1 /\ Cost(Breaks(k)) \in Nat
  <2>1. k \in Nat \ {0} /\ k <= Len(stage) + 1
    BY FramerFacts
  <2> QED
    BY <2>1, BudgetFacts
<1>23. CASE k = 1
  <2>1. Ahead = Byte(1) /\ 1 \in Nat \ {0}
    BY <1>3 DEF Ahead
  <2>2. skipped + Dist(Byte(1)) + Cost(Breaks(1)) + Cost(PairsAhead) <= Allowed
    BY <1>21, <1>23, <2>1
  <2>3. /\ Dist(Byte(1)) \in Nat /\ Dist(Byte(i)) \in Nat
        /\ (i - 1) + Dist(Byte(i)) + Cost(Breaks(i)) <= Dist(Byte(1)) + PacketSize + Cost(Breaks(1))
        /\ \/ Run(1, i)
           \/ (i - 1) + Dist(Byte(i)) + Cost(Breaks(i)) + 1 <= Dist(Byte(1)) + Cost(Breaks(1))
    BY <1>2, <1>4, <1>18, <2>1, Walk DEF LossInv
  <2> DEFINE d1 == Dist(Byte(1))
             di == Dist(Byte(i))
  <2>a. /\ d1 \in Nat /\ di \in Nat
        /\ skipped + d1 + b1 + pa <= all
        /\ (i - 1) + di + bi <= d1 + N + b1
    BY <2>2, <2>3 DEF N, b1, bi, pa, all
  <2>b. Run(1, i) \/ (i - 1) + di + bi + 1 <= d1 + b1
    BY <2>3 DEF b1, bi
  <2> HIDE DEF d1, di
  <2>c. x + bi + pa <= all + N + 1
    BY <1>a, <1>b, <2>a
  <2>4. x + Cost(Breaks(i)) + Cost(PairsAhead) <= Allowed + PacketSize + 1
    BY <2>c DEF N, bi, pa, all
  <2>5. ASSUME OnGrid(stage[i])
        PROVE  x + Cost(Breaks(i)) + Cost(PairsAhead) <= Allowed
    <3>1. CASE Run(1, i)
      <4>1. i - 1 <= Dist(Byte(1))
        BY <1>1, <2>1, <2>5, <3>1, RunToPacket
      <4>2. Cost(Breaks(i)) = Cost(Breaks(1))
        BY <1>2, <1>4, <1>18, <2>1, <3>1, RunLength
      <4>3. i - 1 <= d1 /\ bi = b1
        BY <4>1, <4>2 DEF d1, bi, b1
      <4>4. x + bi + pa <= all
        BY <1>a, <1>b, <2>a, <4>3
      <4> QED
        BY <4>4 DEF bi, pa, all
    <3>2. CASE (i - 1) + di + bi + 1 <= d1 + b1
      <4>1. x + bi + pa <= all
        BY <1>a, <1>b, <2>a, <3>2
      <4> QED
        BY <4>1 DEF bi, pa, all
    <3> QED
      BY <2>b, <3>1, <3>2
  <2> QED
    BY <1>20, <2>4, <2>5
<1>24. CASE k # 1 /\ k <= i
  <2>1. skipped + (k - 1 + 2 * PacketSize) + Cost(Breaks(k)) + Cost(PairsAhead) <= Allowed
    BY <1>21, <1>24
  <2>2. NoStart(k, i)
    <3>1. k..(i - 1 - PacketSize) \subseteq 1..(i - 1 - PacketSize)
      BY <1>2, <1>17, <1>22
    <3> QED
      BY <1>18, <3>1 DEF NoStart
  <2>3. /\ Dist(Byte(k)) \in Nat /\ Dist(Byte(k)) <= PacketSize - 1 /\ Dist(Byte(i)) \in Nat
        /\ (i - k) + Dist(Byte(i)) + Cost(Breaks(i)) <= Dist(Byte(k)) + PacketSize + Cost(Breaks(k))
    BY <1>2, <1>4, <1>22, <1>24, <2>2, Walk DEF LossInv
  <2> DEFINE dk == Dist(Byte(k))
             di == Dist(Byte(i))
             bk == Cost(Breaks(k))
  <2>a. /\ dk \in Nat /\ dk <= N - 1 /\ di \in Nat /\ bk \in Nat /\ k \in Nat
        /\ skipped + (k - 1 + 2 * N) + bk + pa <= all
        /\ (i - k) + di + bi <= dk + N + bk
    BY <1>22, <2>1, <2>3 DEF N, bi, pa, all
  <2> HIDE DEF dk, di, bk
  <2>b. x + bi + pa <= all /\ x + bi + pa <= all + N + 1
    BY <1>a, <1>b, <2>a
  <2>4. /\ x + Cost(Breaks(i)) + Cost(PairsAhead) <= Allowed
        /\ x + Cost(Breaks(i)) + Cost(PairsAhead) <= Allowed + PacketSize + 1
    BY <2>b DEF N, bi, pa, all
  <2> QED
    BY <1>20, <2>4
<1>25. CASE k # 1 /\ i < k
  <2>1. skipped + (k - 1 + 2 * PacketSize) + Cost(Breaks(k)) + Cost(PairsAhead) <= Allowed
    BY <1>21, <1>25
  <2>2. k <= i + PacketSize
    <3>1. CASE k > i + PacketSize
      <4>1. i \in 1..(k - 1 - PacketSize)
        BY <1>2, <1>17, <1>22, <3>1
      <4> QED
        BY <1>2, <1>21, <4>1 DEF NoStart, Starts
    <3> QED
      BY <1>2, <1>17, <1>22, <3>1
  <2>3. Cost(Breaks(i + PacketSize)) <= Cost(Breaks(k))
    <3>1. i + PacketSize \in Nat
      BY <1>2, <1>17
    <3>2. Breaks(i + PacketSize) \subseteq Breaks(k) /\ IsFiniteSet(Breaks(k))
      BY <1>22, <2>2, <3>1, BreakFacts
    <3> QED
      BY <3>2, CostFacts
  <2> DEFINE bk == Cost(Breaks(k))
  <2>a. /\ bk \in Nat /\ k \in Nat /\ i < k
        /\ skipped + (k - 1 + 2 * N) + bk + pa <= all /\ bn <= bk
    BY <1>22, <1>25, <2>1, <2>3 DEF N, bn, pa, all
  <2> HIDE DEF bk
  <2>b. x + (2 * N - 1) + bn + pb <= all
    BY <1>a, <1>b, <2>a
  <2>4. x + (2 * PacketSize - 1) + Cost(Breaks(i + PacketSize)) + Cost(PairsAhead') <= Allowed
    BY <2>b DEF N, bn, pb, all
  <2> QED
    BY <2>4
<1> QED
  BY <1>2, <1>22, <1>23, <1>24, <1>25

LEMMA NotAcquiredKeepsLoss ==
  ASSUME TypeInv, OrderInv, LossInv, NotAcquired
  PROVE  LossInv'
<1> PICK k \in Nat \ {0} : k = KeepFrom /\ k <= Len(stage) + 1
  BY KeepFromInStage, FramerFacts, FramerAssumption
<1>1. /\ consumed = 0 /\ ~locked
      /\ stage' = From(k) /\ skipped' = skipped + k - 1
      /\ UNCHANGED <<consumed, locked, badSync, next, fakes, gaps>>
      /\ Starts(1) = {}
  BY DEF NotAcquired, AcquireAt, TypeInv, Staged, counts, ring
<1>2. /\ \A i \in Nat \ {0} : Byte(i)' = Byte(i + k - 1) /\ Breaks(i)' = Breaks(i + k - 1)
      /\ Spread' /\ Segments'
      /\ FakePairs' = FakePairs
      /\ Len(stage') = Len(stage) - k + 1
      /\ \A i \in Nat \ {0} : \A j \in i..(Len(stage') + 1) :
            NoStart(i, j)' <=> NoStart(i + k - 1, j + k - 1)
  BY <1>1, Reindexed DEF LossInv
<1>3. 1 + k - 1 = k /\ 1 <= k
  OBVIOUS
<1>4. ~Astray /\ ~Astray'
  BY <1>1 DEF Astray
<1>5. BreaksAhead = Breaks(1) /\ BreaksAhead' = Breaks(k)
  BY <1>1, <1>2, <1>3, <1>4 DEF BreaksAhead
<1>6. BreaksAhead' \subseteq BreaksAhead
  BY <1>3, <1>5, BreakFacts
<1>7. PairsAhead' \subseteq PairsAhead
  <2>1. Ahead = Byte(1) /\ Ahead' = Byte(k)
    BY <1>1, <1>2, <1>3 DEF Ahead
  <2>2. Ahead \in Nat /\ Ahead' \in Nat /\ Ahead <= Ahead'
    <3>1. k # 1 => 1 \in 1..(Len(stage) + 1) /\ k \in 1..(Len(stage) + 1) /\ 1 < k
      BY FramerFacts
    <3>2. Byte(1) \in Nat /\ Byte(k) \in Nat /\ (k # 1 => Byte(1) < Byte(k))
      BY <3>1, FramerFacts
    <3> QED
      BY <2>1, <3>2
  <2>3. \A f \in Nat : f > Ahead' \/ f = Ahead' => f > Ahead \/ f = Ahead
    BY <2>2
  <2>4. \A f \in FakePairs : f \in Nat
    BY AheadFacts
  <2>5. \A f \in PairsAhead' : f \in FakePairs /\ (f > Ahead' \/ f = Ahead')
    BY <1>2 DEF PairsAhead
  <2> QED
    BY <1>1, <2>3, <2>4, <2>5 DEF PairsAhead
<1>8. /\ Cardinality(BreaksAhead') \in Nat /\ Cardinality(PairsAhead') \in Nat
      /\ Cardinality(BreaksAhead') <= Cardinality(BreaksAhead)
      /\ Cardinality(PairsAhead') <= Cardinality(PairsAhead)
  BY <1>6, <1>7, AheadFacts, Part
<1>9. Balance'
  <2>1. /\ badSync \in Nat /\ gaps \in Nat /\ Cardinality(BreaksAhead) \in Nat
        /\ Cardinality(PairsAhead) \in Nat /\ Cardinality(FakePairs) \in Nat
    BY AheadFacts, FramerFacts
  <2>2. badSync + Cardinality(BreaksAhead) + Cardinality(PairsAhead) <= gaps + Cardinality(FakePairs)
    BY <1>4, <2>1 DEF LossInv, Balance
  <2>3. badSync + Cardinality(BreaksAhead') + Cardinality(PairsAhead') <= gaps + Cardinality(FakePairs)
    BY <1>8, <2>1, <2>2
  <2>4. badSync + 0 = badSync
    BY <2>1
  <2> QED
    BY <1>1, <1>2, <1>4, <2>3, <2>4 DEF Balance
<1>10. Allowed' = Allowed
  BY <1>1, <1>2 DEF Allowed
<1>11. /\ PacketSize \in Nat /\ PacketSize > 0 /\ skipped \in Nat /\ Allowed \in Nat
       /\ Cost(PairsAhead) \in Nat /\ Cost(PairsAhead') \in Nat
       /\ Cost(PairsAhead') <= Cost(PairsAhead)
       /\ Len(stage) \in Nat /\ Len(stage') \in Nat
       /\ consumed + 1 = 1 /\ consumed' + 1 = 1 /\ 1 \in Nat \ {0}
  <2>1. Len(stage) \in Nat
    BY FramerFacts
  <2>2. Len(stage') \in Nat
    BY <1>2, <2>1
  <2>3. consumed + 1 = 1 /\ consumed' + 1 = 1 /\ 1 \in Nat \ {0}
    BY <1>1
  <2>4. /\ PacketSize \in Nat /\ PacketSize > 0 /\ skipped \in Nat /\ Allowed \in Nat
        /\ Cost(PairsAhead) \in Nat /\ Cost(PairsAhead') \in Nat
        /\ Cost(PairsAhead') <= Cost(PairsAhead)
    BY <1>7, BudgetFacts
  <2> QED
    BY <2>1, <2>2, <2>3, <2>4
<1>12. NoStart(1, Len(stage) + 1)
  BY <1>1, <1>11, BeforeFirst
\* The rest of the stage can be written off to a place that is kept.
<1>13. \E q \in k..(Len(stage) + 1) :
          IF q = 1
          THEN k = 1 /\ skipped + Dist(Byte(1)) + Cost(Breaks(1)) + Cost(PairsAhead) <= Allowed
          ELSE /\ k = 1 \/ k < q
               /\ skipped + (q - 1 + 2 * PacketSize) + Cost(Breaks(q)) + Cost(PairsAhead) <= Allowed
  <2>1. PICK q \in 1..(Len(stage) + 1) :
           skipped + (IF q = 1 THEN Dist(Ahead) ELSE q - 1 + 2 * PacketSize)
             + Cost(Breaks(q)) + Cost(PairsAhead) <= Allowed
    BY <1>1, <1>11 DEF LossInv, Budget, SearchBudget
  <2>2. q \in Nat \ {0} /\ q <= Len(stage) + 1 /\ Ahead = Byte(1)
    BY <1>1, <1>11 DEF Ahead
  <2>3. CASE k = 1
    <3>1. q \in k..(Len(stage) + 1)
      BY <2>2, <2>3
    <3> QED
      BY <2>1, <2>2, <2>3, <3>1
  <2>4. CASE k # 1 /\ k < q
    <3>1. q \in k..(Len(stage) + 1) /\ q # 1
      BY <2>2, <2>4
    <3> QED
      BY <2>1, <2>4, <3>1
  <2>5. CASE k # 1 /\ q <= k
    <3>1. Len(stage) + 1 = k + 2 * PacketSize
      <4>1. CASE Len(stage) > 2 * PacketSize
        <5>1. k = Len(stage) - 2 * PacketSize + 1
          BY <4>1 DEF KeepFrom
        <5> QED
          BY <1>11, <5>1
      <4>2. CASE ~(Len(stage) > 2 * PacketSize)
        <5>1. k = 1
          BY <4>2 DEF KeepFrom
        <5> QED
          BY <2>5, <5>1
      <4> QED
        BY <4>1, <4>2
    <3>2. NoStart(q, Len(stage) + 1)
      <4>1. q..((Len(stage) + 1) - 1 - PacketSize) \subseteq 1..((Len(stage) + 1) - 1 - PacketSize)
        BY <1>11, <2>2
      <4> QED
        BY <1>12, <4>1 DEF NoStart
    <3> PICK e \in Nat \ {0} : e = Len(stage) + 1
      BY <1>11
    <3>3. q \in 1..(Len(stage) + 1) /\ e \in 1..(Len(stage) + 1) /\ q <= e
      BY <1>11, <2>2
    <3>4. PICK r \in q..e :
             /\ Run(r, e)
             /\ \/ r = q
                \/ (r - q) + 2 * PacketSize + Cost(Breaks(r)) <= Dist(Byte(q)) + Cost(Breaks(q))
      BY <3>2, <3>3 DEF LossInv, Segments
    <3>5. r \in Nat \ {0} /\ q <= r /\ r <= e /\ Cost(Breaks(r)) \in Nat /\ Cost(Breaks(q)) \in Nat
      <4>1. r \in Nat \ {0} /\ q <= r /\ r <= e
        BY <2>2
      <4> QED
        BY <2>2, <4>1, BudgetFacts
    <3>6. /\ Dist(Byte(r)) \in Nat /\ Dist(Byte(r)) <= PacketSize - 1
          /\ Dist(Byte(e)) \in Nat /\ (e - r) + Dist(Byte(e)) <= Dist(Byte(r)) + PacketSize
      BY <2>2, <3>2, <3>4, <3>5, RunLength
    <3>7. k < r
      <4> DEFINE dr == Dist(Byte(r))
                 de == Dist(Byte(e))
                 n == PacketSize
      <4>1. /\ dr \in Nat /\ de \in Nat /\ n \in Nat /\ dr <= n - 1
            /\ (e - r) + de <= dr + n /\ e = k + 2 * n /\ r \in Nat
        BY <1>11, <3>1, <3>5, <3>6
      <4> HIDE DEF dr, de, n
      <4> QED
        BY <4>1
    <3>8. r # q /\ r # 1 /\ r \in k..(Len(stage) + 1)
      BY <1>11, <2>2, <2>5, <3>5, <3>7
    <3>9. Dist(Byte(q)) \in Nat /\ Dist(Byte(q)) <= PacketSize - 1
      <4>1. Byte(q) \in Nat
        BY <2>2, FramerFacts
      <4> QED
        BY <4>1, DistFacts
    <3>10. (r - q) + 2 * PacketSize + Cost(Breaks(r)) <= Dist(Byte(q)) + Cost(Breaks(q))
      BY <3>4, <3>8
    <3>11. skipped + (r - 1 + 2 * PacketSize) + Cost(Breaks(r)) + Cost(PairsAhead) <= Allowed
      <4> DEFINE N == PacketSize
                 dq == Dist(Byte(q))
                 bq == Cost(Breaks(q))
                 br == Cost(Breaks(r))
                 pa == Cost(PairsAhead)
                 all == Allowed
      <4>1. /\ N \in Nat /\ dq \in Nat /\ dq <= N - 1 /\ bq \in Nat /\ br \in Nat
            /\ pa \in Nat /\ all \in Nat /\ skipped \in Nat
            /\ (r - q) + 2 * N + br <= dq + bq
        BY <1>11, <3>5, <3>9, <3>10
      <4>2. q = 1 => skipped + dq + bq + pa <= all
        BY <2>1, <2>2
      <4>3. q # 1 => skipped + (q - 1 + 2 * N) + bq + pa <= all
        BY <2>1
      <4> HIDE DEF N, dq, bq, br, pa, all
      <4>4. skipped + (r - 1 + 2 * N) + br + pa <= all
        <5>1. CASE q = 1
          BY <4>1, <4>2, <5>1
        <5>2. CASE q # 1
          BY <4>1, <4>3, <5>2
        <5> QED
          BY <5>1, <5>2
      <4> QED
        BY <4>4 DEF N, br, pa, all
    <3> QED
      BY <3>7, <3>8, <3>11
  <2> QED
    BY <2>2, <2>3, <2>4, <2>5
<1>14. PICK q \in k..(Len(stage) + 1) :
          IF q = 1
          THEN k = 1 /\ skipped + Dist(Byte(1)) + Cost(Breaks(1)) + Cost(PairsAhead) <= Allowed
          ELSE /\ k = 1 \/ k < q
               /\ skipped + (q - 1 + 2 * PacketSize) + Cost(Breaks(q)) + Cost(PairsAhead) <= Allowed
  BY <1>13
<1> PICK p \in Nat \ {0} : p = q - k + 1
  BY <1>11
<1>15. /\ p \in 1..(Len(stage') + 1) /\ q \in Nat \ {0} /\ p + k - 1 = q
       /\ Len(stage') = Len(stage) - k + 1
  <2>1. Len(stage') = Len(stage) - k + 1
    BY <1>2
  <2>2. q \in Nat \ {0} /\ p + k - 1 = q /\ p <= Len(stage) - k + 1 + 1
    BY <1>11
  <2> QED
    BY <1>11, <2>1, <2>2
<1>16. Breaks(p)' = Breaks(q) /\ Cost(Breaks(q)) \in Nat
  <2>1. Breaks(p)' = Breaks(p + k - 1)
    BY <1>2
  <2> QED
    BY <1>15, <2>1, BudgetFacts
<1>17. NoStart(1, p)'
  <2>1. NoStart(1, p)' <=> NoStart(1 + k - 1, p + k - 1)
    BY <1>2, <1>11, <1>15
  <2>2. k..(q - 1 - PacketSize) \subseteq 1..((Len(stage) + 1) - 1 - PacketSize)
    BY <1>11, <1>15
  <2>3. NoStart(k, q)
    BY <1>12, <2>2 DEF NoStart
  <2> QED
    BY <1>3, <1>15, <2>1, <2>3
<1>18. skipped' + (IF p = 1 THEN Dist(Ahead') ELSE p - 1 + 2 * PacketSize)
         + Cost(Breaks(p)') + Cost(PairsAhead') <= Allowed
  <2>1. CASE q = 1
    <3>1. p = 1 /\ k = 1 /\ skipped' = skipped
      BY <1>1, <1>11, <1>14, <2>1
    <3>2. Ahead' = Byte(1) /\ Dist(Byte(1)) \in Nat
      <4>1. Ahead' = Byte(1)'
        BY <1>11 DEF Ahead
      <4>2. Byte(1)' = Byte(1 + k - 1) /\ 1 + k - 1 = 1
        BY <1>2, <1>11, <3>1
      <4>3. Byte(1) \in Nat
        BY <1>11, FramerFacts
      <4> QED
        BY <4>1, <4>2, <4>3, DistFacts
    <3>3. skipped + Dist(Byte(1)) + Cost(Breaks(q)) + Cost(PairsAhead) <= Allowed
      BY <1>14, <2>1
    <3>4. skipped + Dist(Byte(1)) + Cost(Breaks(q)) + Cost(PairsAhead') <= Allowed
      BY <1>11, <1>16, <3>2, <3>3
    <3> QED
      BY <1>16, <3>1, <3>2, <3>4
  <2>2. CASE q # 1
    <3>1. /\ p # 1
          /\ skipped + (q - 1 + 2 * PacketSize) + Cost(Breaks(q)) + Cost(PairsAhead) <= Allowed
      BY <1>14, <1>15, <2>2
    <3>2. skipped' = skipped + k - 1
      BY <1>1
    <3>3. skipped' + (p - 1 + 2 * PacketSize) + Cost(Breaks(q)) + Cost(PairsAhead') <= Allowed
      BY <1>11, <1>15, <1>16, <3>1, <3>2
    <3> QED
      BY <1>16, <3>1, <3>3
  <2> QED
    BY <2>1, <2>2
<1>19. SearchBudget'
  BY <1>10, <1>11, <1>15, <1>17, <1>18 DEF SearchBudget
<1> QED
  BY <1>1, <1>2, <1>9, <1>19 DEF LossInv, Budget

\* What is left of the stage when it is compacted is what was ahead.
LEMMA CompactKeepsLoss ==
  ASSUME TypeInv, OrderInv, LossInv, Compact
  PROVE  LossInv'
<1> PICK k \in Nat \ {0} : k = consumed + 1 /\ k <= Len(stage) + 1
  BY AheadFacts
<1>1. /\ consumed' = 0
      /\ stage' = From(k)
      /\ UNCHANGED <<locked, badSync, next, fakes, gaps, skipped>>
  BY DEF Compact, Rest, counts, ring, history
<1>2. /\ \A i \in Nat \ {0} : Byte(i)' = Byte(i + k - 1) /\ Breaks(i)' = Breaks(i + k - 1)
      /\ Spread' /\ Segments'
      /\ FakePairs' = FakePairs
      /\ \A byte : IsSync(byte)' = IsSync(byte)
      /\ Len(stage') = Len(stage) - k + 1
      /\ \A i \in Nat \ {0} : \A j \in i..(Len(stage') + 1) :
            NoStart(i, j)' <=> NoStart(i + k - 1, j + k - 1)
  BY <1>1, Reindexed DEF LossInv
<1>3. 1 + k - 1 = k /\ 1 + PacketSize \in Nat \ {0} /\ 1 + PacketSize + k - 1 = k + PacketSize
  <2>1. k \in Nat /\ PacketSize \in Nat
    BY FramerFacts
  <2> QED
    BY <2>1
<1>4. Ahead' = Ahead
  BY <1>1, <1>2, <1>3 DEF Ahead
<1>5. Astray' = Astray /\ PairsAhead' = PairsAhead
  BY <1>1, <1>2, <1>4 DEF Astray, PairsAhead
<1>6. BreaksAhead' = BreaksAhead
  BY <1>1, <1>2, <1>3, <1>4, <1>5 DEF BreaksAhead
<1>7. Balance'
  BY <1>1, <1>2, <1>5, <1>6 DEF LossInv, Balance
<1>8. Allowed' = Allowed
  BY <1>1, <1>2 DEF Allowed
<1>9. Budget'
  <2>1. CASE locked
    <3>1. Breaks(1)' = Breaks(k) /\ Breaks(1 + PacketSize)' = Breaks(k + PacketSize)
      BY <1>2, <1>3
    <3>2. consumed' + 1 = 1
      BY <1>1
    <3> QED
      BY <1>1, <1>2, <1>4, <1>5, <1>8, <2>1, <3>1, <3>2 DEF LossInv, Budget, LockedBudget
  <2>2. CASE ~locked
    <3>1. PICK q \in k..(Len(stage) + 1) :
             /\ NoStart(k, q)
             /\ skipped + (IF q = k THEN Dist(Ahead) ELSE q - k + 2 * PacketSize)
                  + Cost(Breaks(q)) + Cost(PairsAhead) <= Allowed
      BY <2>2 DEF LossInv, Budget, SearchBudget
    <3>a. q \in Int /\ k \in Int /\ k <= q /\ q <= Len(stage) + 1
      <4>1. Len(stage) \in Nat
        BY FramerFacts
      <4> QED
        BY <4>1
    <3> PICK p \in Nat \ {0} : p = q - k + 1
      BY <3>a
    <3>2. /\ p \in 1..(Len(stage') + 1) /\ p + k - 1 = q /\ p - 1 = q - k /\ (p = 1 <=> q = k)
      <4>1. Len(stage') = Len(stage) - k + 1 /\ Len(stage) \in Nat
        BY <1>2, FramerFacts
      <4>2. q \in Nat /\ p + k - 1 = q /\ p - 1 = q - k /\ p <= Len(stage) - k + 1 + 1
        <5>1. k >= 1 /\ q \in Nat
          BY <3>a
        <5>2. p + k - 1 = q /\ p - 1 = q - k
          BY <3>a
        <5>3. p <= Len(stage) - k + 1 + 1
          BY <3>a, <4>1
        <5> QED
          BY <5>1, <5>2, <5>3
      <4>3. p \in 1..(Len(stage') + 1)
        BY <4>1, <4>2
      <4>4. CASE q = k
        <5>1. p = 1
          BY <4>2, <4>4
        <5> QED
          BY <4>2, <4>3, <4>4, <5>1
      <4>5. CASE q # k
        <5>1. p # 1
          BY <4>2, <4>5
        <5> QED
          BY <4>2, <4>3, <4>5, <5>1
      <4> QED
        BY <4>4, <4>5
    <3>3. Breaks(p)' = Breaks(q)
      BY <1>2, <3>2
    <3>4. NoStart(1, p)'
      <4>1. 1 \in Nat \ {0} /\ p \in 1..(Len(stage') + 1)
        BY <3>2
      <4>2. NoStart(1, p)' <=> NoStart(1 + k - 1, p + k - 1)
        BY <1>2, <4>1
      <4> QED
        BY <1>3, <3>1, <3>2, <4>2
    <3>5. consumed' + 1 = 1
      BY <1>1
    <3>6. skipped' + (IF p = 1 THEN Dist(Ahead') ELSE p - 1 + 2 * PacketSize)
            + Cost(Breaks(p)') + Cost(PairsAhead') <= Allowed'
      BY <1>1, <1>4, <1>5, <1>8, <3>1, <3>2, <3>3
    <3>7. SearchBudget'
      BY <3>2, <3>4, <3>5, <3>6 DEF SearchBudget
    <3> QED
      BY <1>1, <2>2, <3>7 DEF Budget
  <2> QED
    BY <2>1, <2>2
<1> QED
  BY <1>2, <1>7, <1>9 DEF LossInv

\* Framing a packet: off the grid nothing more is owed for it, on the grid it may
\* be broken.
LEMMA EmitKeepsLoss ==
  ASSUME TypeInv, OrderInv, LossInv, NEW match, NEW ok, Emit(match, ok)
  PROVE  LossInv'
<1>1. /\ pc = "frame" /\ consumed + PacketSize <= Len(stage)
      /\ IsSync(stage[consumed + 1])
      /\ consumed' \in {consumed, consumed + PacketSize}
      /\ UNCHANGED <<stage, locked, badSync, next, fakes, gaps, skipped>>
  BY DEF Emit, Whole, ring
<1>2. CASE consumed' = consumed
  BY <1>1, <1>2, QuietStep
<1>3. CASE consumed' = consumed + PacketSize
  <2> PICK c \in Nat \ {0} : c = consumed + 1
    BY AheadFacts
  <2> PICK d \in Nat \ {0} : d = c + PacketSize
    BY FramerFacts
  <2>1. /\ consumed + 1 = c /\ consumed' + 1 = d /\ consumed + 1 + PacketSize = d
        /\ d + PacketSize \in Nat \ {0} /\ d <= d + PacketSize /\ c <= d
        /\ c \in 1..Len(stage) /\ c \in 1..(Len(stage) + 1) /\ d \in 1..(Len(stage) + 1)
        /\ c < d
    <3>1. /\ PacketSize \in Nat /\ PacketSize > 0 /\ Len(stage) \in Nat
          /\ consumed \in Nat
      BY FramerFacts
    <3> QED
      BY <1>1, <1>3, <3>1
  <2>2. /\ \A i : Byte(i)' = Byte(i) /\ Breaks(i)' = Breaks(i)
        /\ Spread' /\ Segments'
        /\ FakePairs' = FakePairs
        /\ \A byte : IsSync(byte)' = IsSync(byte)
    BY <1>1, SameBytes DEF LossInv
  <2>3. Ahead = Byte(c) /\ Ahead' = Byte(d) /\ Ahead = stage[c]
    <3>1. Ahead' = Byte(d)'
      BY <2>1 DEF Ahead
    <3>2. Byte(d)' = Byte(d)
      BY <2>2
    <3> QED
      BY <2>1, <3>1, <3>2 DEF Ahead, Byte
  <2>4. Byte(c) \in Nat /\ Byte(d) \in Nat /\ Byte(c) < Byte(d)
    BY <2>1, FramerFacts
  <2>5. locked /\ IsSync(Ahead)
    <3>1. consumed # Len(stage)
      BY <1>1, FramerFacts
    <3> QED
      BY <1>1, <2>1, <2>3, <3>1 DEF TypeInv, TypeOK, Staged
  <2>6. PairsAhead' \subseteq PairsAhead
    <3>1. \A f \in Nat : f > Byte(d) => f > Byte(c)
      BY <2>4
    <3>2. \A f \in PairsAhead' : f \in FakePairs /\ f > Byte(d)
      BY <1>1, <2>2, <2>3, <2>5 DEF PairsAhead
    <3>3. \A f \in FakePairs : f \in Nat
      BY AheadFacts
    <3> QED
      BY <2>3, <3>1, <3>2, <3>3 DEF PairsAhead
  <2>7. Breaks(d) \subseteq Breaks(c) /\ Breaks(d + PacketSize) \subseteq Breaks(d)
    BY <2>1, BreakFacts
  <2>8. BreaksAhead' \subseteq Breaks(d)
    <3>1. BreaksAhead' \in {Breaks(d)', Breaks(d + PacketSize)'}
      BY <2>1 DEF BreaksAhead
    <3>2. Breaks(d)' = Breaks(d) /\ Breaks(d + PacketSize)' = Breaks(d + PacketSize)
      BY <2>2
    <3> QED
      BY <2>7, <3>1, <3>2
  <2>9. /\ IsFiniteSet(Breaks(d)) /\ Cardinality(Breaks(d)) \in Nat
        /\ IsFiniteSet(Breaks(c)) /\ Cardinality(Breaks(c)) \in Nat
        /\ Cardinality(BreaksAhead') \in Nat
        /\ Cardinality(BreaksAhead') <= Cardinality(Breaks(d))
    <3>1. /\ IsFiniteSet(Breaks(d)) /\ Cardinality(Breaks(d)) \in Nat
          /\ IsFiniteSet(Breaks(c)) /\ Cardinality(Breaks(c)) \in Nat
      BY BreakFacts
    <3> QED
      BY <2>8, <3>1, Part
  <2>10. /\ Cardinality(PairsAhead') \in Nat
         /\ Cardinality(PairsAhead') <= Cardinality(PairsAhead)
    BY <2>6, AheadFacts, Part
  <2>11. (IF Astray' THEN 1 ELSE 0) + Cardinality(BreaksAhead')
            <= (IF Astray THEN 1 ELSE 0) + Cardinality(BreaksAhead)
    <3>1. CASE Astray
      <4>1. BreaksAhead = Breaks(d)
        BY <2>1, <2>5, <3>1 DEF BreaksAhead
      <4> QED
        BY <2>9, <3>1, <4>1
    <3>2. CASE ~Astray /\ ~Astray'
      <4>1. BreaksAhead = Breaks(c)
        BY <2>1, <3>2 DEF BreaksAhead
      <4>2. Cardinality(Breaks(d)) <= Cardinality(Breaks(c))
        BY <2>7, <2>9, Part
      <4> QED
        BY <2>9, <3>2, <4>1, <4>2
    <3>3. CASE ~Astray /\ Astray'
      <4>1. BreaksAhead = Breaks(c)
        BY <2>1, <3>3 DEF BreaksAhead
      <4>2. OnGrid(Byte(c)) /\ ~OnGrid(Byte(d))
        BY <1>1, <2>3, <2>5, <3>3 DEF Astray
      <4>3. Byte(d) # Byte(c) + PacketSize
        BY <2>4, <4>2, SamePlace
      <4>4. PICK b \in Breaks(c) : b \notin Breaks(d)
        <5>1. c + PacketSize <= Len(stage) + 1 /\ Byte(c + PacketSize) # Byte(c) + PacketSize
          BY <2>1, <4>3
        <5>2. \E b \in Breaks(c) : b \notin Breaks(c + PacketSize)
          BY <5>1, BrokenPacket DEF LossInv
        <5> QED
          BY <5>2
      <4>5. Cardinality(BreaksAhead') + 1 <= Cardinality(Breaks(c))
        BY <2>7, <2>8, <2>9, <4>4, SmallerPart
      <4> QED
        BY <2>9, <3>3, <4>1, <4>5
    <3> QED
      BY <3>1, <3>2, <3>3
  <2>12. Balance'
    <3>1. badSync \in Nat /\ gaps \in Nat
      BY FramerFacts
    <3> DEFINE owed == IF Astray THEN 1 ELSE 0
               owes == IF Astray' THEN 1 ELSE 0
    <3>2. owed \in Nat /\ owes \in Nat
      OBVIOUS
    <3>3. badSync + owed + Cardinality(BreaksAhead) + Cardinality(PairsAhead)
             <= gaps + Cardinality(FakePairs)
      BY DEF LossInv, Balance
    <3>4. owes + Cardinality(BreaksAhead') <= owed + Cardinality(BreaksAhead)
      BY <2>11
    <3> HIDE DEF owed, owes
    <3>5. badSync + owes + Cardinality(BreaksAhead') + Cardinality(PairsAhead')
             <= gaps + Cardinality(FakePairs)
      <4>1. /\ Cardinality(BreaksAhead) \in Nat
            /\ Cardinality(PairsAhead) \in Nat /\ Cardinality(FakePairs) \in Nat
        BY AheadFacts
      <4> QED
        BY <2>9, <2>10, <3>1, <3>2, <3>3, <3>4, <4>1
    <3> QED
      BY <1>1, <2>2, <3>5 DEF Balance, owes
  <2>13. Allowed' = Allowed
    BY <1>1, <2>2 DEF Allowed
  <2>14. Budget'
    <3> DEFINE N == PacketSize
               bc == Cost(Breaks(c))
               bd == Cost(Breaks(d))
               pa == Cost(PairsAhead)
               pb == Cost(PairsAhead')
               all == Allowed
    <3>1. /\ N \in Nat /\ N > 0 /\ skipped \in Nat /\ all \in Nat
          /\ pa \in Nat /\ pb \in Nat /\ pb <= pa
      BY <2>6, BudgetFacts
    <3>2. bc \in Nat /\ bd \in Nat /\ bd <= bc
      BY <2>7, <2>9, CostFacts
    <3>3. \/ skipped + (IF OnGrid(Byte(c)) THEN 0 ELSE 2 * N - 1) + bc + pa <= all
          \/ skipped + (2 * N - 1) + bd + pa <= all
      <4>1. LockedBudget
        BY <2>5 DEF LossInv, Budget
      <4> QED
        BY <2>1, <2>3, <4>1 DEF LockedBudget
    <3>4. OnGrid(Byte(c)) /\ ~OnGrid(Byte(d)) => bd + 3 * N <= bc
      <4> SUFFICES ASSUME OnGrid(Byte(c)), ~OnGrid(Byte(d)) PROVE bd + 3 * N <= bc
        OBVIOUS
      <4>1. c + PacketSize <= Len(stage) + 1 /\ Byte(c + PacketSize) # Byte(c) + PacketSize
        BY <2>1, <2>4, SamePlace
      <4>2. PICK b \in Breaks(c) : b \notin Breaks(d)
        BY <4>1, BrokenPacket DEF LossInv
      <4> QED
        BY <2>7, <2>9, <4>2, CostFacts
    <3> HIDE DEF N, bc, bd, pa, pb, all
    <3>5. skipped + (IF OnGrid(Byte(d)) THEN 0 ELSE 2 * N - 1) + bd + pb <= all
      <4>1. CASE OnGrid(Byte(d))
        <5>1. skipped + 0 + bd + pb <= all
          <6>1. CASE OnGrid(Byte(c))
            BY <3>1, <3>2, <3>3, <6>1
          <6>2. CASE ~OnGrid(Byte(c))
            BY <3>1, <3>2, <3>3, <6>2
          <6> QED
            BY <6>1, <6>2
        <5> QED
          BY <4>1, <5>1
      <4>2. CASE ~OnGrid(Byte(d))
        <5>1. skipped + (2 * N - 1) + bd + pb <= all
          <6>1. CASE OnGrid(Byte(c))
            BY <3>1, <3>2, <3>3, <3>4, <4>2, <6>1
          <6>2. CASE ~OnGrid(Byte(c))
            BY <3>1, <3>2, <3>3, <6>2
          <6> QED
            BY <6>1, <6>2
        <5> QED
          BY <4>2, <5>1
      <4> QED
        BY <4>1, <4>2
    <3>6. LockedBudget'
      <4>1. /\ skipped' = skipped /\ Breaks(d)' = Breaks(d) /\ Ahead' = Byte(d)
            /\ consumed' + 1 = d
        BY <1>1, <2>1, <2>2, <2>3
      <4>2. skipped' + (IF OnGrid(Ahead') THEN 0 ELSE 2 * PacketSize - 1)
              + Cost(Breaks(d)') + Cost(PairsAhead') <= Allowed'
        BY <2>13, <3>5, <4>1 DEF N, bd, pb, all
      <4> QED
        BY <4>1, <4>2 DEF LockedBudget
    <3> QED
      BY <1>1, <2>5, <3>6 DEF Budget
  <2> QED
    BY <2>2, <2>12, <2>14 DEF LossInv
<1> QED
  BY <1>1, <1>2, <1>3

\* A loss that is counted was owed; what is ahead pays for the next one.
LEMMA ResyncKeepsLoss ==
  ASSUME TypeInv, OrderInv, LossInv, Resync
  PROVE  LossInv'
<1>1. PICK j \in First(Starts(consumed + 1)) : ResyncTo(j - 1)
  BY DEF Resync
<1>2. /\ consumed + PacketSize <= Len(stage) /\ ~IsSync(stage[consumed + 1])
      /\ badSync' = badSync + 1 /\ consumed' = j - 1
      /\ skipped' = skipped + (j - 1) - consumed
      /\ UNCHANGED <<stage, locked, next, fakes, gaps>>
      /\ pc = "frame"
  BY <1>1 DEF Resync, ResyncTo, Whole, ring
<1> PICK c \in Nat \ {0} : c = consumed + 1
  BY AheadFacts
<1>3. /\ j \in Starts(c) /\ j \in Nat \ {0} /\ c <= j /\ j <= Len(stage)
      /\ j \in 1..Len(stage) /\ c \in 1..Len(stage)
      /\ consumed' + 1 = j /\ consumed' + 1 + PacketSize = j + PacketSize
  <2>1. j \in Starts(c)
    BY <1>1 DEF First
  <2>2. j \in Nat \ {0} /\ c <= j /\ j <= Len(stage)
    BY <1>1, StartInStage, FramerFacts, FramerAssumption
  <2>3. /\ PacketSize \in Nat /\ PacketSize > 0 /\ Len(stage) \in Nat
        /\ consumed \in Nat
    BY FramerFacts
  <2> QED
    BY <1>2, <2>1, <2>2, <2>3
<1>4. /\ \A i : Byte(i)' = Byte(i) /\ Breaks(i)' = Breaks(i)
      /\ Spread' /\ Segments'
      /\ FakePairs' = FakePairs
      /\ \A byte : IsSync(byte)' = IsSync(byte)
  BY <1>2, SameBytes DEF LossInv
<1>5. Ahead = stage[c] /\ Ahead' = stage[j] /\ IsSync(stage[j])
  <2>1. Ahead = Byte(c) /\ Ahead' = Byte(j)'
    BY <1>3 DEF Ahead
  <2>2. Byte(c) = stage[c] /\ Byte(j) = stage[j] /\ Byte(j)' = Byte(j)
    BY <1>3, <1>4 DEF Byte
  <2> QED
    BY <1>3, <2>1, <2>2 DEF Starts
<1>6. locked /\ Astray /\ ~IsSync(Ahead)
  <2>1. consumed # Len(stage)
    BY <1>2, FramerFacts
  <2>2. locked
    BY <1>2, <2>1 DEF TypeInv, TypeOK, Staged
  <2> QED
    BY <1>2, <1>5, <2>2 DEF Astray, OnGrid, IsSync
<1>7. stage[c] \in Nat /\ stage[j] \in Nat /\ stage[c] < stage[j]
  <2>1. j # c
    BY <1>2, <1>5
  <2>2. c < j /\ c \in DOMAIN stage /\ j \in DOMAIN stage
    BY <1>3, <2>1, FramerFacts
  <2> QED
    BY <2>2, FramerFacts, ElementOfSeq DEF OrderInv, BytesInOrder
<1>8. BreaksAhead = Breaks(c)
  BY <1>6 DEF BreaksAhead
<1>9. PairsAhead = {f \in FakePairs : f > stage[c]}
  BY <1>5, <1>6 DEF PairsAhead
<1>10. PairsAhead' = {f \in FakePairs : f > stage[j]}
  BY <1>2, <1>4, <1>5, <1>6 DEF PairsAhead
<1>11. {f \in FakePairs : f >= stage[j]} \subseteq PairsAhead
  <2>1. \A f \in Nat : f >= stage[j] => f > stage[c]
    BY <1>7
  <2>2. \A f \in FakePairs : f \in Nat
    BY AheadFacts
  <2> QED
    BY <1>9, <2>1, <2>2
<1>12. Astray' <=> ~OnGrid(stage[j])
  BY <1>2, <1>5, <1>6 DEF Astray
<1>13. BreaksAhead' = IF OnGrid(stage[j]) THEN Breaks(j) ELSE Breaks(j + PacketSize)
  <2>1. BreaksAhead' = IF OnGrid(stage[j]) THEN Breaks(j)' ELSE Breaks(j + PacketSize)'
    BY <1>3, <1>4, <1>5, <1>12 DEF BreaksAhead
  <2>2. Breaks(j)' = Breaks(j) /\ Breaks(j + PacketSize)' = Breaks(j + PacketSize)
    BY <1>4
  <2> QED
    BY <2>1, <2>2
<1>14. /\ OnGrid(stage[j]) =>
            Cardinality(BreaksAhead') + Cardinality(PairsAhead')
               <= Cardinality(BreaksAhead) + Cardinality(PairsAhead)
       /\ ~OnGrid(stage[j]) =>
            1 + Cardinality(BreaksAhead') + Cardinality(PairsAhead')
               <= Cardinality(BreaksAhead) + Cardinality(PairsAhead)
  <2>1. PairsAhead \subseteq FakePairs
    BY AheadFacts
  <2> QED
    BY <1>3, <1>8, <1>10, <1>11, <1>13, <2>1, LocksOn DEF LossInv
<1>15. Cardinality(BreaksAhead') \in Nat /\ Cardinality(PairsAhead') \in Nat
  <2>1. /\ j + PacketSize \in Nat \ {0}
        /\ IsFiniteSet(FakePairs) /\ PairsAhead' \subseteq FakePairs
    <3>1. j \in Nat \ {0} /\ PacketSize \in Nat /\ IsFiniteSet(FakePairs)
      BY <1>3, FramerFacts
    <3>2. j + PacketSize \in Nat \ {0}
      BY <3>1
    <3> QED
      BY <1>10, <3>1, <3>2
  <2> QED
    BY <1>3, <1>13, <2>1, BreakFacts, Part
<1>16. Balance'
  <2>1. badSync \in Nat /\ gaps \in Nat
    BY FramerFacts
  <2>2. badSync + 1 + Cardinality(BreaksAhead) + Cardinality(PairsAhead) <= gaps + Cardinality(FakePairs)
    BY <1>6 DEF LossInv, Balance
  <2> DEFINE owes == IF Astray' THEN 1 ELSE 0
             b == Cardinality(BreaksAhead)
             p == Cardinality(PairsAhead)
             bs == Cardinality(BreaksAhead')
             q == Cardinality(PairsAhead')
             w == Cardinality(FakePairs)
  <2>3. /\ b \in Nat /\ p \in Nat /\ bs \in Nat /\ q \in Nat /\ w \in Nat
        /\ owes \in {0, 1} /\ owes + bs + q <= b + p
    <3>1. b \in Nat /\ p \in Nat /\ w \in Nat
      BY AheadFacts
    <3>2. bs \in Nat /\ q \in Nat
      BY <1>15
    <3>3. owes = IF OnGrid(stage[j]) THEN 0 ELSE 1
      BY <1>12
    <3>4. /\ OnGrid(stage[j]) => bs + q <= b + p
          /\ ~OnGrid(stage[j]) => 1 + bs + q <= b + p
      BY <1>14
    <3> HIDE DEF owes, b, p, bs, q, w
    <3>5. CASE OnGrid(stage[j])
      BY <3>1, <3>2, <3>3, <3>4, <3>5
    <3>6. CASE ~OnGrid(stage[j])
      BY <3>1, <3>2, <3>3, <3>4, <3>6
    <3> QED
      BY <3>5, <3>6
  <2>4. badSync + 1 + b + p <= gaps + w
    BY <2>2
  <2> HIDE DEF owes, b, p, bs, q, w
  <2>5. badSync + 1 + owes + bs + q <= gaps + w
    BY <2>1, <2>3, <2>4
  <2> QED
    BY <1>2, <1>4, <2>5 DEF Balance, owes, bs, q, w
<1>17. Allowed' = Allowed
  BY <1>2, <1>4 DEF Allowed
<1>18. PairsAhead' \subseteq PairsAhead
  <2>1. \A f \in Nat : f > stage[j] => f >= stage[j]
    BY <1>7
  <2>2. \A f \in FakePairs : f \in Nat
    BY AheadFacts
  <2> QED
    BY <1>10, <1>11, <2>1, <2>2
<1> DEFINE N == PacketSize
           bc == Cost(Breaks(c))
           bj == Cost(Breaks(j))
           pa == Cost(PairsAhead)
           all == Allowed
           dc == Dist(Byte(c))
           dj == Dist(Byte(j))
<1>19. /\ N \in Nat /\ N > 0 /\ skipped \in Nat /\ all \in Nat /\ pa \in Nat
       /\ consumed \in Nat
  BY FramerFacts, BudgetFacts
<1>20. NoStart(c, j)
  BY <1>1, BeforeFirst
<1>21. /\ dc \in Nat /\ dc <= N - 1 /\ dj \in Nat /\ bc \in Nat /\ bj \in Nat
       /\ (j - c) + dj + bj <= dc + N + bc
  <2>1. j \in Nat /\ j <= Len(stage) + 1
    BY <1>3, FramerFacts
  <2> QED
    BY <1>3, <1>20, <2>1, Walk DEF LossInv
<1>22. skipped + (2 * N - 1) + bc + pa <= all
  <2>1. LockedBudget
    BY <1>6 DEF LossInv, Budget
  <2>2. ~OnGrid(Ahead) /\ consumed + 1 = c
    BY <1>6 DEF Astray
  <2> QED
    BY <1>6, <2>1, <2>2 DEF LockedBudget
<1> HIDE DEF N, bc, bj, pa, all, dc, dj
<1> PICK x \in Nat : x = skipped + (j - c)
  BY <1>3, <1>19
<1>23. skipped' = x
  BY <1>2, <1>3, <1>19
<1>24. x + bj + pa <= all /\ x + bj + pa <= all + N + 1
  BY <1>3, <1>19, <1>21, <1>22
<1>25. \/ x + (IF OnGrid(stage[j]) THEN 0 ELSE 2 * PacketSize - 1)
            + Cost(Breaks(j)) + Cost(PairsAhead') <= Allowed
       \/ x + (2 * PacketSize - 1)
            + Cost(Breaks(j + PacketSize)) + Cost(PairsAhead') <= Allowed
  <2>1. PairsAhead \subseteq FakePairs /\ Allowed \in Nat
    BY AheadFacts, BudgetFacts
  <2>2. /\ x + Cost(Breaks(j)) + Cost(PairsAhead) <= Allowed + PacketSize + 1
        /\ x + Cost(Breaks(j)) + Cost(PairsAhead) <= Allowed
    BY <1>24 DEF N, bj, pa, all
  <2> QED
    BY <1>3, <1>10, <1>11, <2>1, <2>2, LockPays DEF LossInv
<1>26. Budget'
  <2>1. Breaks(j)' = Breaks(j) /\ Breaks(j + PacketSize)' = Breaks(j + PacketSize)
    BY <1>4
  <2>2. IsSync(Ahead)'
    BY <1>4, <1>5
  <2>3. LockedBudget'
    BY <1>3, <1>5, <1>17, <1>23, <1>25, <2>1, <2>2 DEF LockedBudget
  <2> QED
    BY <1>2, <1>6, <2>3 DEF Budget
<1> QED
  BY <1>4, <1>16, <1>26 DEF LossInv

LEMMA SyncLostKeepsLoss ==
  ASSUME TypeInv, OrderInv, LossInv, SyncLost
  PROVE  LossInv'
<1>1. /\ consumed + PacketSize <= Len(stage) /\ ~IsSync(stage[consumed + 1])
      /\ badSync' = badSync + 1 /\ consumed' = Len(stage) /\ ~locked'
      /\ skipped' = skipped + Len(stage) - consumed /\ Starts(consumed + 1) = {}
      /\ UNCHANGED <<stage, next, fakes, gaps>>
      /\ pc = "frame"
  BY DEF SyncLost, ResyncTo, Whole, ring, LockAfterLoss
<1> PICK c \in Nat \ {0} : c = consumed + 1
  BY AheadFacts
<1> PICK e \in Nat \ {0} : e = Len(stage) + 1
  BY FramerFacts
<1>2. /\ c \in 1..Len(stage) /\ c \in 1..(Len(stage) + 1) /\ e \in 1..(Len(stage) + 1)
      /\ c < e /\ e > Len(stage) /\ consumed' + 1 = e
  <2>1. /\ PacketSize \in Nat /\ PacketSize > 0 /\ Len(stage) \in Nat
        /\ consumed \in Nat
    BY FramerFacts
  <2> QED
    BY <1>1, <2>1
<1>3. /\ \A i : Byte(i)' = Byte(i) /\ Breaks(i)' = Breaks(i)
      /\ \A i, j : NoStart(i, j)' <=> NoStart(i, j)
      /\ Spread' /\ Segments'
      /\ FakePairs' = FakePairs
  BY <1>1, SameBytes DEF LossInv
<1>4. Ahead = Byte(c) /\ Ahead' = Byte(e) /\ Ahead = stage[c]
  <2>1. Ahead' = Byte(e)'
    BY <1>2 DEF Ahead
  <2>2. Byte(e)' = Byte(e)
    BY <1>3
  <2> QED
    BY <1>2, <2>1, <2>2 DEF Ahead, Byte
<1>5. locked /\ Astray /\ ~Astray'
  <2>1. consumed # Len(stage)
    BY <1>1, FramerFacts
  <2>2. locked
    BY <1>1, <2>1 DEF TypeInv, TypeOK, Staged
  <2> QED
    BY <1>1, <1>4, <2>2 DEF Astray, OnGrid, IsSync
<1>6. Cardinality(BreaksAhead') = 0
  <2>1. BreaksAhead' = Breaks(e)'
    BY <1>2, <1>5 DEF BreaksAhead
  <2>2. Breaks(e)' = Breaks(e) /\ Breaks(e) = {}
    BY <1>2, <1>3, BreakFacts
  <2> QED
    BY <2>1, <2>2, FS_EmptySet
<1>7. PairsAhead' \subseteq PairsAhead
  <2>1. Byte(c) \in Nat /\ Byte(e) \in Nat /\ Byte(c) < Byte(e)
    BY <1>2, FramerFacts
  <2>2. \A f \in Nat : f > Byte(e) \/ f = Byte(e) => f > Byte(c)
    BY <2>1
  <2>3. \A f \in FakePairs : f \in Nat
    BY AheadFacts
  <2>4. \A f \in PairsAhead' : f \in FakePairs /\ (f > Byte(e) \/ f = Byte(e))
    BY <1>3, <1>4 DEF PairsAhead
  <2> QED
    BY <1>4, <2>2, <2>3, <2>4 DEF PairsAhead
<1>8. Cardinality(PairsAhead') \in Nat /\ Cardinality(PairsAhead') <= Cardinality(PairsAhead)
  BY <1>7, AheadFacts, Part
<1>9. Balance'
  <2>1. /\ badSync \in Nat /\ gaps \in Nat /\ Cardinality(BreaksAhead) \in Nat
        /\ Cardinality(PairsAhead) \in Nat /\ Cardinality(FakePairs) \in Nat
    BY AheadFacts, FramerFacts
  <2>2. badSync + 1 + Cardinality(BreaksAhead) + Cardinality(PairsAhead) <= gaps + Cardinality(FakePairs)
    BY <1>5 DEF LossInv, Balance
  <2>3. badSync + 1 + 0 + 0 + Cardinality(PairsAhead') <= gaps + Cardinality(FakePairs)
    BY <1>8, <2>1, <2>2
  <2> QED
    BY <1>1, <1>3, <1>5, <1>6, <2>3 DEF Balance
<1>10. Allowed' = Allowed
  BY <1>1, <1>3 DEF Allowed
<1> DEFINE N == PacketSize
           bc == Cost(Breaks(c))
           be == Cost(Breaks(e))
           pa == Cost(PairsAhead)
           pb == Cost(PairsAhead')
           all == Allowed
           dc == Dist(Byte(c))
           de == Dist(Byte(e))
<1>11. /\ N \in Nat /\ N > 0 /\ skipped \in Nat /\ all \in Nat
       /\ consumed \in Nat /\ Len(stage) \in Nat
  BY FramerFacts, BudgetFacts
<1>12. pa \in Nat /\ pb \in Nat /\ pb <= pa
  BY <1>7, BudgetFacts
<1>13. NoStart(c, e)
  BY <1>1, BeforeFirst
<1>14. /\ dc \in Nat /\ dc <= N - 1 /\ de \in Nat /\ bc \in Nat /\ be \in Nat
       /\ (e - c) + de + be <= dc + N + bc
  <2>1. e \in Nat /\ c <= e /\ e <= Len(stage) + 1
    BY <1>2, <1>11
  <2> QED
    BY <1>13, <2>1, Walk DEF LossInv
<1>15. skipped + (2 * N - 1) + bc + pa <= all
  <2>1. LockedBudget
    BY <1>5 DEF LossInv, Budget
  <2>2. ~OnGrid(Ahead) /\ ~IsSync(Ahead) /\ consumed + 1 = c
    BY <1>1, <1>4, <1>5 DEF Astray
  <2> QED
    BY <2>1, <2>2 DEF LockedBudget
<1> HIDE DEF N, bc, be, pa, pb, all, dc, de
<1>16. skipped' = skipped + (e - c)
  BY <1>1, <1>11
<1>17. skipped + (e - c) + de + be + pb <= all
  BY <1>2, <1>11, <1>12, <1>14, <1>15
<1>18. Budget'
  <2>1. skipped' + Dist(Ahead') + Cost(Breaks(e)') + Cost(PairsAhead') <= Allowed'
    BY <1>3, <1>4, <1>10, <1>16, <1>17 DEF de, be, pb, all
  <2>2. NoStart(e, e)'
    <3>1. e..(e - 1 - PacketSize) = {}
      BY <1>11 DEF N
    <3> QED
      BY <3>1 DEF NoStart
  <2>3. e \in e..(Len(stage') + 1)
    BY <1>1
  <2>4. SearchBudget'
    BY <1>2, <2>1, <2>2, <2>3 DEF SearchBudget
  <2> QED
    BY <1>1, <2>4 DEF Budget
<1> QED
  BY <1>3, <1>9, <1>18 DEF LossInv

LEMMA LossInvStep == TypeInv /\ OrderInv /\ LossInv /\ [Next]_vars => LossInv'
<1> SUFFICES ASSUME TypeInv, OrderInv, LossInv, [Next]_vars
             PROVE  LossInv'
  OBVIOUS
<1>1. CASE Args \/ Discover \/ Tune \/ Lock \/ NoLock \/ Alloc \/ ReadError \/ TimeUp
  BY <1>1, QuietStep
  DEF Args, Discover, Tune, Lock, NoLock, Alloc, ReadError, TimeUp, Goto,
      framer, counts, ring, history
<1>2. CASE Clock \/ Summary \/ Shutdown
  BY <1>2, QuietStep DEF Clock, Summary, Shutdown, Goto, framer, counts, ring, history
<1>3. CASE UNCHANGED vars
  BY <1>3, QuietStep DEF vars, framer, counts, ring, history
<1>4. ASSUME NEW n \in 1..PacketSize, Overflow(n) PROVE LossInv'
  BY <1>4, OverflowKeepsLoss
<1>5. ASSUME NEW n \in 1..ReadSize, Read(n) PROVE LossInv'
  BY <1>5, ReadKeepsLoss
<1>6. CASE Acquire \/ NotAcquired
  BY <1>6, AcquireKeepsLoss, NotAcquiredKeepsLoss
<1>7. CASE Frame
  BY <1>7, EmitKeepsLoss, ResyncKeepsLoss, SyncLostKeepsLoss, CompactKeepsLoss DEF Frame
<1> QED
  BY <1>1, <1>2, <1>3, <1>4, <1>5, <1>6, <1>7 DEF Next

LEMMA LossInvInit == Init => LossInv
<1> SUFFICES ASSUME Init PROVE LossInv
  OBVIOUS
<1>1. /\ Len(stage) = 0 /\ consumed = 0 /\ ~locked /\ badSync = 0 /\ gaps = 0
  BY DEF Init
<1>2. TypeInv /\ OrderInv
  BY TypeInvInit, FramerAssumption DEF FramerAssumption, Init, OrderInv, BytesInOrder
<1>3. Spread
  BY <1>1 DEF Spread
<1>4. BreaksAhead = {}
  BY <1>1, <1>2, BreakFacts DEF BreaksAhead, Astray
<1>5. Cardinality(PairsAhead) <= Cardinality(FakePairs)
  BY <1>2, AheadFacts, FramerFacts, Part
<1>6. Balance
  BY <1>1, <1>2, <1>4, <1>5, AheadFacts, FS_EmptySet DEF Balance, Astray
<1>7. Segments
  <2> SUFFICES ASSUME NEW i \in 1..(Len(stage) + 1), NEW j \in 1..(Len(stage) + 1)
               PROVE  i \in i..j /\ Run(i, j)
    BY DEF Segments
  <2>1. i = 1 /\ j = 1
    BY <1>1
  <2>2. \A m \in 1..1 : m = 1 /\ Byte(m) = Byte(1) + m - 1
    BY <1>2, FramerFacts
  <2> QED
    BY <2>1, <2>2 DEF Run
<1>8. Budget
  <2> DEFINE N == PacketSize
             d == Dist(Ahead)
             pa == Cost(PairsAhead)
             pf == Cost(FakePairs)
  <2>1. /\ N \in Nat /\ N > 0 /\ d \in Nat /\ d <= N - 1
    BY <1>2, BudgetFacts
  <2>2. pa \in Nat /\ pf \in Nat /\ pa <= pf
    <3>1. PairsAhead \subseteq FakePairs /\ IsFiniteSet(FakePairs)
      BY <1>2, AheadFacts, FramerFacts
    <3> QED
      BY <3>1, CostFacts
  <2>3. Cost(Breaks(1)) = 0
    <3>1. Breaks(1) = {}
      <4>1. 1 \in Nat \ {0} /\ 1 > Len(stage)
        BY <1>1
      <4> QED
        BY <1>2, <4>1, BreakFacts
    <3>2. Cardinality(Breaks(1)) = 0
      BY <3>1, FS_EmptySet
    <3>3. 3 * N * 0 = 0
      BY <2>1
    <3> QED
      BY <3>2, <3>3 DEF Cost
  <2>4. Allowed = N - 1 + pf
    <3>1. 3 * N * gaps = 0
      BY <1>1, <2>1
    <3> HIDE DEF pf
    <3> QED
      BY <2>1, <2>2, <3>1 DEF Allowed, pf
  <2>5. skipped = 0
    BY DEF Init
  <2> HIDE DEF N, d, pa, pf
  <2>6. 0 + d + 0 + pa <= N - 1 + pf
    BY <2>1, <2>2
  <2>7. skipped + Dist(Ahead) + Cost(Breaks(1)) + Cost(PairsAhead) <= Allowed
    BY <2>3, <2>4, <2>5, <2>6 DEF d, pa
  <2>8. NoStart(1, 1)
    <3>1. 1..(1 - 1 - PacketSize) = {}
      BY <2>1 DEF N
    <3> QED
      BY <3>1 DEF NoStart
  <2>9. consumed + 1 = 1 /\ 1 \in 1..(Len(stage) + 1)
    BY <1>1
  <2>10. SearchBudget
    BY <2>7, <2>8, <2>9 DEF SearchBudget
  <2> QED
    BY <1>1, <2>10 DEF Budget
<1> QED
  BY <1>3, <1>6, <1>7, <1>8 DEF LossInv

\* However often the ring overflows and whatever the payload looks like, an
\* overflow or a pair of false sync values is counted as at most one bad packet.
THEOREM LossesAreCountedOnce == Spec => []BadSyncPerGap
<1>1. Init => OrderInv
  BY FramerAssumption DEF FramerAssumption, Init, OrderInv, BytesInOrder
<1>2. TypeInv /\ OrderInv /\ LossInv => BadSyncPerGap
  <2> SUFFICES ASSUME TypeInv, OrderInv, LossInv PROVE BadSyncPerGap
    OBVIOUS
  <2> DEFINE owed == IF Astray THEN 1 ELSE 0
  <2>1. /\ badSync \in Nat /\ gaps \in Nat /\ Cardinality(BreaksAhead) \in Nat
        /\ Cardinality(PairsAhead) \in Nat /\ Cardinality(FakePairs) \in Nat
        /\ owed \in Nat
    BY AheadFacts, FramerFacts
  <2>2. badSync + owed + Cardinality(BreaksAhead) + Cardinality(PairsAhead)
           <= gaps + Cardinality(FakePairs)
    BY DEF LossInv, Balance
  <2> HIDE DEF owed
  <2> QED
    BY <2>1, <2>2 DEF BadSyncPerGap
<1> QED
  BY <1>1, <1>2, TypeInvInit, TypeInvStep, OrderInvStep, LossInvInit, LossInvStep,
     PTL DEF Spec

\* However often the ring overflows and whatever the payload looks like, what is
\* thrown away is less than a packet to begin with and three for every overflow
\* and every pair of false sync values.
THEOREM LossesAreBounded == Spec => []LossBounded
<1>1. Init => OrderInv
  BY FramerAssumption DEF FramerAssumption, Init, OrderInv, BytesInOrder
<1>2. TypeInv /\ OrderInv /\ LossInv => LossBounded
  <2> SUFFICES ASSUME TypeInv, OrderInv, LossInv PROVE LossBounded
    OBVIOUS
  <2> DEFINE w == 3 * PacketSize
             n == Cardinality(FakePairs)
             pa == Cost(PairsAhead)
  <2>1. /\ w \in Nat /\ n \in Nat /\ gaps \in Nat /\ PacketSize \in Nat
        /\ skipped \in Nat /\ pa \in Nat
    <3>1. PacketSize \in Nat /\ gaps \in Nat
      BY FramerFacts
    <3>2. n \in Nat
      BY AheadFacts
    <3>3. skipped \in Nat /\ pa \in Nat
      BY BudgetFacts
    <3> QED
      BY <3>1, <3>2, <3>3
  <2>2. skipped + pa <= PacketSize - 1 + w * gaps + w * n
    BY BudgetFacts DEF LossInv, Allowed, Cost
  <2> HIDE DEF w, n, pa
  <2>3. w * gaps + w * n = w * (gaps + n) /\ w * gaps \in Nat /\ w * n \in Nat
    BY <2>1
  <2>4. skipped < PacketSize + w * (gaps + n)
    BY <2>1, <2>2, <2>3
  <2> QED
    BY <2>4 DEF LossBounded, w, n
<1> QED
  BY <1>1, <1>2, TypeInvInit, TypeInvStep, OrderInvStep, LossInvInit, LossInvStep,
     PTL DEF Spec
=============================================================================
