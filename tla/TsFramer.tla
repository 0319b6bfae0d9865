------------------------------ MODULE TsFramer ------------------------------
(***************************************************************************)
(* dvb_pid_dump (src/tools/dvb_pid_dump.c): it opens what is plugged in,   *)
(* tunes, waits for lock, and cuts what usbq_stream_read hands out into    *)
(* transport packets, which begin with a sync byte every PacketSize bytes. *)
(*                                                                         *)
(* A byte is its position in the device's stream, as in ByteFifo.  The     *)
(* ring drops its oldest bytes when the tool is slow, so the positions     *)
(* jump between two reads; a read is contiguous.  A payload byte may carry *)
(* the value of the sync byte.                                             *)
(***************************************************************************)
EXTENDS Integers, Sequences, FiniteSets

CONSTANTS PacketSize,  \* 188
          ReadSize,    \* 48 KiB
          Fakes,       \* payload positions that may carry the sync value
          MaxBytes,    \* bound: bytes the device delivers
          MaxGaps      \* bound: overflows of the ring

ASSUME FramerAssumption ==
    /\ PacketSize \in Nat \ {0}
    /\ ReadSize \in Nat /\ ReadSize > PacketSize
    /\ Fakes \subseteq Nat /\ IsFiniteSet(Fakes)
    /\ MaxBytes \in Nat /\ MaxGaps \in Nat

VARIABLES
    pc,        \* where main is
    devices,   \* whether the tool has devices open
    late,      \* the deadline of the loop main is in has passed
    stage,     \* the staging buffer's stage_len bytes
    consumed,  \* bytes of it the frame loop is done with
    locked,    \* whether the stage starts at a packet
    badSync, total, matched,  \* the counters (matched: whether above zero)
    success,
    next,      \* position of the next byte in the ring
    fakes,     \* payload positions that do carry the sync value
    gaps,      \* overflows so far
    written,   \* position of the last byte framed
    skipped    \* bytes read and thrown away

main    == <<pc, devices, late>>
framer  == <<stage, consumed, locked>>
counts  == <<badSync, total, matched, success>>
ring    == <<next, fakes, gaps>>
history == <<written, skipped>>
vars    == <<main, framer, counts, ring, history>>

-----------------------------------------------------------------------------
StageSize == ReadSize + PacketSize

Least(a, b) == IF a < b THEN a ELSE b

From(i) == SubSeq(stage, i, Len(stage))

IsSync(byte) == byte % PacketSize = 0 \/ byte \in fakes

\* Indices of the stage at or after [i] where a packet seems to start: the sync
\* value, and again a packet later.
Starts(i) == {j \in i..(Len(stage) - PacketSize) :
                  IsSync(stage[j]) /\ IsSync(stage[j + PacketSize])}

First(S) == {j \in S : \A k \in S : j <= k}

TypeOK ==
    /\ pc \in {"args", "discover", "tune", "lockWait", "alloc", "read", "acquire",
               "frame", "summary", "shutdown", "exit"}
    /\ devices \in BOOLEAN /\ late \in BOOLEAN
    /\ stage \in Seq(Nat) /\ Len(stage) <= StageSize
    /\ consumed \in Nat /\ consumed <= Len(stage)
    /\ locked \in BOOLEAN
    /\ badSync \in Nat /\ total \in Nat
    /\ matched \in BOOLEAN /\ success \in BOOLEAN
    /\ next \in Nat /\ fakes \subseteq Fakes /\ gaps \in 0..MaxGaps
    /\ written \in Int /\ skipped \in Nat

\* The stream starts anywhere in a packet.
Init ==
    /\ pc = "args"
    /\ devices = FALSE
    /\ late = FALSE
    /\ stage = <<>>
    /\ consumed = 0
    /\ locked = FALSE
    /\ badSync = 0 /\ total = 0
    /\ matched = FALSE
    /\ success = FALSE
    /\ next \in 0..(PacketSize - 1)
    /\ fakes \in SUBSET Fakes
    /\ gaps = 0
    /\ written = -1
    /\ skipped = 0

-----------------------------------------------------------------------------
(***************************************************************************)
(* main, up to the read loop.  Whatever goes wrong after discover_all ends *)
(* in shutdown_all.                                                        *)
(***************************************************************************)
Goto(label) == pc' = label /\ UNCHANGED <<framer, counts, ring, history>>

Args == /\ pc = "args"
        /\ \E ok \in BOOLEAN : Goto(IF ok THEN "discover" ELSE "exit")
        /\ UNCHANGED <<devices, late>>

\* No device, or no device of that index, or just a list of them.
Discover == /\ pc = "discover"
            /\ devices' \in BOOLEAN
            /\ \/ devices' /\ Goto("tune")
               \/ Goto("shutdown")
            /\ UNCHANGED late

Tune == /\ pc = "tune"
        /\ \E ok \in BOOLEAN : Goto(IF ok THEN "lockWait" ELSE "shutdown")
        /\ late' = FALSE
        /\ UNCHANGED devices

\* get_status may report the lock; a poll that does not changes nothing.
Lock == /\ pc = "lockWait" /\ ~late
        /\ Goto("alloc")
        /\ UNCHANGED <<devices, late>>

NoLock == /\ pc = "lockWait" /\ late
          /\ Goto("shutdown")
          /\ UNCHANGED <<devices, late>>

Alloc == /\ pc = "alloc"
         /\ \E ok \in BOOLEAN : Goto(IF ok THEN "read" ELSE "shutdown")
         /\ late' = FALSE
         /\ UNCHANGED devices

Clock == /\ pc \in {"lockWait", "read", "acquire", "frame"} /\ ~late
         /\ late' = TRUE
         /\ UNCHANGED <<pc, devices, framer, counts, ring, history>>

-----------------------------------------------------------------------------
(***************************************************************************)
(* read_ts, with a ring that overflows between two reads.                  *)
(***************************************************************************)
Want == Least(StageSize - Len(stage), ReadSize)

Overflow(n) ==
    /\ pc = "read"
    /\ gaps < MaxGaps /\ next + n < MaxBytes
    /\ next' = next + n
    /\ gaps' = gaps + 1
    /\ UNCHANGED <<main, framer, counts, fakes, history>>

Read(n) ==
    /\ pc = "read" /\ ~late
    /\ n <= Want /\ next + n <= MaxBytes
    /\ stage' = stage \o [i \in 1..n |-> next + i - 1]
    /\ next' = next + n
    /\ pc' = IF locked THEN "frame" ELSE "acquire"
    /\ UNCHANGED <<devices, late, consumed, locked, counts, fakes, gaps, history>>

\* The device is gone and the ring drained, or a read of no bytes (-EINVAL).
ReadError == /\ pc = "read" /\ ~late
             /\ Goto("summary")
             /\ UNCHANGED <<devices, late>>

TimeUp == /\ pc = "read" /\ late
          /\ Goto("summary")
          /\ UNCHANGED <<devices, late>>

-----------------------------------------------------------------------------
(***************************************************************************)
(* Acquisition: the first place where two sync values are a packet apart,  *)
(* or else the last two packets' worth is kept for the next read.          *)
(***************************************************************************)
KeepAll == 1                                                         \* mutant
KeepNone == Len(stage) + 1                                           \* mutant
KeepFrom == IF Len(stage) > 2 * PacketSize
            THEN Len(stage) - 2 * PacketSize + 1 ELSE 1

AcquireAt(i) ==
    /\ stage' = From(i)
    /\ skipped' = skipped + i - 1
    /\ UNCHANGED <<devices, late, consumed, counts, ring, written>>

Acquire ==
    /\ pc = "acquire"
    /\ \E i \in First(Starts(1)) : AcquireAt(i)
    /\ locked' = TRUE
    /\ pc' = "frame"

NotAcquired ==
    /\ pc = "acquire"
    /\ Starts(1) = {}
    /\ AcquireAt(KeepFrom)
    /\ pc' = "read"
    /\ UNCHANGED locked

-----------------------------------------------------------------------------
(***************************************************************************)
(* The frame loop: whole packets go out while they start with the sync     *)
(* value; else the next start is looked for, or the lock is given up.      *)
(***************************************************************************)
Whole == consumed + PacketSize <= Len(stage)

Emit(match, ok) ==
    /\ pc = "frame" /\ Whole
    /\ IsSync(stage[consumed + 1])
    /\ total' = total + 1
    /\ matched' = (matched \/ match)
    /\ written' = stage[consumed + PacketSize]
    /\ IF match /\ ~ok
       THEN pc' = "summary" /\ UNCHANGED consumed
       ELSE consumed' = consumed + PacketSize /\ UNCHANGED pc
    /\ UNCHANGED <<devices, late, stage, locked, badSync, success, ring, skipped>>

ResyncTo(i) ==
    /\ badSync' = badSync + 1
    /\ consumed' = i
    /\ skipped' = skipped + i - consumed
    /\ UNCHANGED <<main, stage, total, matched, success, ring, written>>

Resync ==
    /\ pc = "frame" /\ Whole
    /\ ~IsSync(stage[consumed + 1])
    /\ \E i \in First(Starts(consumed + 1)) : ResyncTo(i - 1)
    /\ UNCHANGED locked

KeepLock == TRUE                                                     \* mutant
LockAfterLoss == FALSE

SyncLost ==
    /\ pc = "frame" /\ Whole
    /\ ~IsSync(stage[consumed + 1])
    /\ Starts(consumed + 1) = {}
    /\ ResyncTo(Len(stage))
    /\ locked' = LockAfterLoss

TailFromStart == SubSeq(stage, 1, Len(stage) - consumed)             \* mutant
Rest == From(consumed + 1)

Compact ==
    /\ pc = "frame" /\ ~Whole
    /\ stage' = Rest
    /\ consumed' = 0
    /\ pc' = "read"
    /\ UNCHANGED <<devices, late, locked, counts, ring, history>>

-----------------------------------------------------------------------------
Summary == /\ pc = "summary"
           /\ success' = (matched /\ badSync * 100 < total)
           /\ pc' = "shutdown"
           /\ UNCHANGED <<devices, late, framer, badSync, total, matched, ring,
                          history>>

Shutdown == /\ pc = "shutdown"
            /\ Goto("exit")
            /\ devices' = FALSE
            /\ UNCHANGED late

Frame == \/ \E match, ok \in BOOLEAN : Emit(match, ok)
         \/ Resync \/ SyncLost \/ Compact

Next == \/ Args \/ Discover \/ Tune \/ Lock \/ NoLock \/ Alloc \/ Clock
        \/ \E n \in 1..PacketSize : Overflow(n)
        \/ \E n \in 1..ReadSize : Read(n)
        \/ ReadError \/ TimeUp
        \/ Acquire \/ NotAcquired \/ Frame
        \/ Summary \/ Shutdown

Spec == Init /\ [][Next]_vars

-----------------------------------------------------------------------------
(***************************************************************************)
(* There is always room for a read: whatever the ring hands out and        *)
(* however often sync is lost, the tool never asks read_ts for no bytes,   *)
(* which usbq_stream_read refuses and which would end the dump (the        *)
(* staging buffer of main).                                                *)
(***************************************************************************)
RoomToRead == pc = "read" => Want > 0

(***************************************************************************)
(* No byte is framed twice or out of order: what the stage still holds is  *)
(* ascending and newer than what was framed, and older than what the ring  *)
(* will give (the memmoves of main).                                       *)
(***************************************************************************)
BytesInOrder ==
    /\ \A i, j \in DOMAIN stage : i < j => stage[i] < stage[j]
    /\ \A i \in DOMAIN stage :
          /\ stage[i] < next
          /\ pc \in {"read", "acquire", "frame"} /\ i > consumed => written < stage[i]

(***************************************************************************)
(* One overflow, or one pair of payload bytes that looks like two packets, *)
(* is counted as at most one bad packet: main fails the run when one       *)
(* packet in a hundred is bad, so a loss must not be counted again with    *)
(* every packet until sync is found (bad_sync_packets).                    *)
(***************************************************************************)
FakePairs == {f \in fakes : f + PacketSize \in fakes}

BadSyncPerGap == badSync <= gaps + Cardinality(FakePairs)

(***************************************************************************)
(* A stream without overflow or fake sync loses nothing but the part of a  *)
(* packet it starts with; an overflow, or a pair of payload bytes that     *)
(* looks like two packets, costs less than three packets' worth: up to     *)
(* where a false start is taken, from there on to where it shows, and on   *)
(* to the next packet (acquisition and resync of main).                    *)
(***************************************************************************)
LossBounded ==
    skipped < PacketSize + 3 * PacketSize * (gaps + Cardinality(FakePairs))
=============================================================================
