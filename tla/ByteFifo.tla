------------------------------ MODULE ByteFifo ------------------------------
(***************************************************************************)
(* What the ring of a usbq stream promises (usbq.h, "overwrite-oldest on   *)
(* overflow"): a bounded first-in first-out queue of bytes.  A push that   *)
(* does not fit discards the oldest bytes, and only as many as needed; a   *)
(* read takes from the front; a flush empties the queue.  Bytes are their  *)
(* positions in the device's stream.                                       *)
(***************************************************************************)
EXTENDS Integers, Sequences

CONSTANTS Cap,       \* capacity in bytes
          MaxLen     \* longest transfer and longest read

VARIABLES queue, pushed, lost, out

vars == <<queue, pushed, lost, out>>

Init == queue = <<>> /\ pushed = 0 /\ lost = 0 /\ out = <<>>

Least(a, b) == IF a < b THEN a ELSE b

Push(len) ==
    LET all  == queue \o [k \in 1..len |-> pushed + k]
        keep == Least(Len(all), Cap)
    IN  /\ queue' = SubSeq(all, Len(all) - keep + 1, Len(all))
        /\ pushed' = pushed + len
        /\ lost' = lost + Len(all) - keep
        /\ UNCHANGED out

Read(cap) ==
    LET n == Least(cap, Len(queue))
    IN  /\ out' = SubSeq(queue, 1, n)
        /\ queue' = SubSeq(queue, n + 1, Len(queue))
        /\ UNCHANGED <<pushed, lost>>

Flush == queue' = <<>> /\ UNCHANGED <<pushed, lost, out>>

Next == \/ \E len \in 1..MaxLen : Push(len)
        \/ \E cap \in 1..MaxLen : Read(cap)
        \/ Flush

Spec == Init /\ [][Next]_vars
=============================================================================
