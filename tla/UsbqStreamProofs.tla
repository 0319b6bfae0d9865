-------------------------- MODULE UsbqStreamProofs --------------------------
(***************************************************************************)
(* Proofs about UsbqStream for every pool depth, ring capacity and setting *)
(* of the environment.                                                     *)
(*                                                                         *)
(* The argument about cancellation: libusb reports each accepted cancel    *)
(* once, so pending_cancel is the number of transfers being cancelled plus *)
(* the one whose callback has started (PendingExact).  Hence the wait ends *)
(* only when there are none, and none can appear outside the cancel loop   *)
(* (WaitDrainsCancels).  Each of the two needs the other to be inductive.  *)
(***************************************************************************)
EXTENDS UsbqStream, FiniteSetTheorems, TLAPS

\* The submit loop stays inside the pool.
CtlIndex == ctl.at \in {"submit", "openfail"} => ctl.i <= PoolDepth

TypeInv == TypeOK /\ CtlIndex

CtlInv == ctl \in CtlRecord /\ CtlIndex

\* Every step of the controlling thread keeps its place and its loop indices in
\* range: the submit loop and the cancel loop stay inside the pool.
LEMMA CtlInvStep ==
  ASSUME CtlInv, Control
  PROVE  CtlInv'
<1> USE StreamAssumption DEF CtlInv, CtlIndex, CtlRecord
<1>1. CASE Open
  BY <1>1 DEF Open, CtlSteps, CtlOps
<1>2. CASE OpenNoMemory
  BY <1>2 DEF OpenNoMemory, CtlSteps
<1>3. CASE Submit
  <2>1. ctl.at = "submit" /\ ctl.i \in 1..PoolDepth
    BY <1>3 DEF Submit
  <2>2. CASE ctl.i < PoolDepth /\ ctl' = [ctl EXCEPT !.i = @ + 1]
    <3>1. ctl.i + 1 \in 1..PoolDepth
      BY <2>1, <2>2
    <3> QED
      BY <2>2, <3>1
  <2>3. CASE ctl' = [ctl EXCEPT !.at = "up", !.op = "none"]
    BY <2>3 DEF CtlSteps, CtlOps
  <2>4. CASE ctl' = [ctl EXCEPT !.at = "openfail"]
    BY <2>1, <2>4 DEF CtlSteps
  <2>5. CASE ctl' = [ctl EXCEPT !.at = "restartfail"]
    BY <2>5 DEF CtlSteps
  <2> QED
    BY <1>3, <2>2, <2>3, <2>4, <2>5 DEF Submit
<1>4. CASE OpenFail
  <2>1. ctl.i - 1 \in 0..PoolDepth
    BY <1>4 DEF OpenFail
  <2>2. ctl' = [ctl EXCEPT !.at = "cancel", !.i = 1, !.hi = ctl.i - 1]
    BY <1>4 DEF OpenFail
  <2>3. 1 \in 1..(PoolDepth + 1)
    OBVIOUS
  <2>4. PICK h \in 0..PoolDepth : ctl' = [ctl EXCEPT !.at = "cancel", !.i = 1, !.hi = h]
    BY <2>1, <2>2
  <2>5. ctl'.at = "cancel"
    BY <2>4
  <2> QED
    BY <2>3, <2>4, <2>5 DEF CtlSteps
<1>5. CASE Cancel
  <2>1. ctl.at = "cancel" /\ ctl.i + 1 \in 1..(PoolDepth + 1)
    BY <1>5 DEF Cancel
  <2>2. ctl' = [ctl EXCEPT !.i = @ + 1]
    BY <1>5 DEF Cancel
  <2> QED
    BY <2>1, <2>2
<1>6. CASE AwaitCancels
  <2>1. CASE ctl' = [ctl EXCEPT !.at = "wait"]
    BY <2>1 DEF CtlSteps
  <2>2. CASE ctl' = [ctl EXCEPT !.at = "wakeselect"]
    BY <2>2 DEF CtlSteps
  <2>3. CASE ctl' = [ctl EXCEPT !.at = "submit", !.i = 1]
    <3>1. 1 <= PoolDepth /\ 1 \in 1..(PoolDepth + 1)
      OBVIOUS
    <3>2. ctl' \in CtlRecord
      BY <2>3, <3>1 DEF CtlSteps
    <3>3. ctl'.i = 1
      BY <2>3
    <3> QED
      BY <3>1, <3>2, <3>3
  <2>4. CASE ctl' = [ctl EXCEPT !.at = "free"]
    BY <2>4 DEF CtlSteps
  <2> QED
    BY <1>6, <2>1, <2>2, <2>3, <2>4 DEF AwaitCancels, AfterCancel
<1>7. CASE Restart
  BY <1>7 DEF Restart, CtlSteps, CtlOps
<1>8. CASE RestartFail
  BY <1>8 DEF RestartFail, CtlSteps
<1>9. CASE WakeSelect
  BY <1>9 DEF WakeSelect, CtlSteps, CtlOps
<1>10. CASE OpenRelease
  BY <1>10 DEF OpenRelease, CtlSteps
<1>11. CASE Flush
  BY <1>11 DEF Flush
<1>12. CASE Close
  BY <1>12 DEF Close, CtlSteps, CtlOps
<1>13. CASE Free
  BY <1>13 DEF Free, CtlSteps
<1> QED
  BY <1>1, <1>2, <1>3, <1>4, <1>5, <1>6, <1>7, <1>8, <1>9, <1>10, <1>11,
     <1>12, <1>13 DEF Control

\* The type invariant, with the bound of the submit loop's index, is kept by
\* every step of the stream, the device and the consumer.
LEMMA TypeInvStep == TypeInv /\ [Next]_vars => TypeInv'
<1> SUFFICES ASSUME TypeInv, [Next]_vars
             PROVE  TypeInv'
  OBVIOUS
<1> USE StreamAssumption DEF TypeInv, TypeOK, CtlIndex, URB, XferStates, CbSteps, ReaderSteps
<1>1. CASE Unplug
  <2>1. plugged' \in BOOLEAN
    BY <1>1 DEF Unplug
  <2>2. UNCHANGED <<xfer, state, pending, stopping, mu, waiters, used, pipe, cb,
                    ctl, rd>>
    BY <1>1 DEF Unplug
  <2> QED
    BY <2>1, <2>2
<1>2. ASSUME NEW u \in URB, Dispatch(u)
      PROVE  TypeInv'
  BY <1>2 DEF Dispatch, NoDataStep
<1>3. CASE Callback
  <2>1. CASE CbCancelled
    BY <2>1 DEF CbCancelled, Broadcast
  <2>2. CASE CbTestStopping
    BY <2>2 DEF CbTestStopping
  <2>3. CASE CbPush
    BY <2>3 DEF CbPush, Pushed, Signal
  <2>4. CASE CbWake
    BY <2>4 DEF CbWake
  <2>5. CASE CbCheck
    BY <2>5 DEF CbCheck
  <2>6. CASE CbResubmit
    BY <2>6 DEF CbResubmit, SubmitAccepted, SubmitRefused
  <2>7. CASE CbFailed
    BY <2>7 DEF CbFailed, MarkDead, Broadcast
  <2>8. CASE CbWakeSelect
    BY <2>8 DEF CbWakeSelect, StreamWakeSelect
  <2> QED
    BY <1>3, <2>1, <2>2, <2>3, <2>4, <2>5, <2>6, <2>7, <2>8 DEF Callback
<1>4. CASE Control
  <2>0. ctl' \in CtlRecord /\ CtlIndex'
    BY <1>4, CtlInvStep DEF CtlInv
  <2>1. CASE Open
    BY <2>0, <2>1 DEF Open
  <2>2. CASE OpenNoMemory
    BY <2>0, <2>2 DEF OpenNoMemory
  <2>3. CASE Submit
    BY <2>0, <2>3 DEF Submit, SubmitAccepted, SubmitRefused
  <2>4. CASE OpenFail
    BY <2>0, <2>4 DEF OpenFail
  <2>5. CASE Cancel
    <3>1. xfer' \in [URB -> XferStates] /\ state' \in [URB -> {0, 1}]
      BY <2>5 DEF Cancel
    <3>2. pending' \in Int
      BY <2>5 DEF Cancel
    <3>3. UNCHANGED <<plugged, stopping, mu, waiters, used, pipe, cb, rd>>
      BY <2>5 DEF Cancel
    <3> QED
      BY <2>0, <3>1, <3>2, <3>3
  <2>6. CASE AwaitCancels
    BY <2>0, <2>6 DEF AwaitCancels, AfterCancel, ClearMarks
  <2>7. CASE Restart
    BY <2>0, <2>7 DEF Restart
  <2>8. CASE RestartFail
    BY <2>0, <2>8 DEF RestartFail, MarkDead, Broadcast
  <2>9. CASE WakeSelect
    BY <2>0, <2>9 DEF WakeSelect, StreamWakeSelect
  <2>10. CASE OpenRelease
    BY <2>0, <2>10 DEF OpenRelease
  <2>11. CASE Flush
    BY <2>0, <2>11 DEF Flush
  <2>12. CASE Close
    BY <2>0, <2>12 DEF Close
  <2>13. CASE Free
    BY <2>0, <2>13 DEF Free
  <2> QED
    BY <1>4, <2>1, <2>2, <2>3, <2>4, <2>5, <2>6, <2>7, <2>8, <2>9, <2>10,
       <2>11, <2>12, <2>13 DEF Control
<1>5. CASE Reader
  <2>1. CASE ReadBlocking
    <3>1. rd' \in ReaderSteps /\ used' \in 0..RingCap
      BY <2>1 DEF ReadBlocking, ReadSleep, ReadReturn
    <3>2. waiters' \in SUBSET {"ctl", "reader"}
      BY <2>1 DEF ReadBlocking, ReadSleep
    <3>3. UNCHANGED <<plugged, xfer, state, pending, stopping, mu, pipe, cb, ctl>>
      BY <2>1 DEF ReadBlocking
    <3> QED
      BY <3>1, <3>2, <3>3
  <2>2. CASE ReadWoken
    <3>1. rd' \in ReaderSteps /\ used' \in 0..RingCap
      BY <2>2 DEF ReadWoken, ReadSleep, ReadReturn
    <3>2. waiters' \in SUBSET {"ctl", "reader"}
      BY <2>2 DEF ReadWoken, ReadSleep
    <3>3. UNCHANGED <<plugged, xfer, state, pending, stopping, mu, pipe, cb, ctl>>
      BY <2>2 DEF ReadWoken
    <3> QED
      BY <3>1, <3>2, <3>3
  <2>3. CASE ReadTimeout
    BY <2>3 DEF ReadTimeout, ReadReturn
  <2>4. CASE Select
    BY <2>4 DEF Select
  <2>5. CASE SelectReady
    BY <2>5 DEF SelectReady
  <2>6. CASE ReadDrain
    BY <2>6 DEF ReadDrain, ReadReturn
  <2> QED
    BY <1>5, <2>1, <2>2, <2>3, <2>4, <2>5, <2>6 DEF Reader
<1>6. CASE UNCHANGED vars
  BY <1>6 DEF vars
<1> QED
  BY <1>1, <1>2, <1>3, <1>4, <1>5, <1>6 DEF Next

\* A closed stream has the types.
LEMMA InitTypeInv == Init => TypeInv
<1> SUFFICES ASSUME Init
             PROVE  TypeInv
  OBVIOUS
<1>1. ctl \in CtlRecord /\ CtlIndex
  BY StreamAssumption DEF Init, CtlRecord, CtlSteps, CtlOps, CtlIndex
<1>2. cb \in [at : CbSteps, u : URB]
  BY StreamAssumption DEF Init, CbSteps, URB
<1>3. /\ xfer \in [URB -> XferStates]
      /\ state \in [URB -> {0, 1}]
      /\ waiters \in SUBSET {"ctl", "reader"}
      /\ mu \in {"free", "ctl"}
      /\ rd \in ReaderSteps
  BY DEF Init, XferStates, ReaderSteps
<1>4. pending \in Int /\ used \in 0..RingCap
  BY StreamAssumption DEF Init
<1>5. plugged \in BOOLEAN /\ stopping \in BOOLEAN /\ pipe \in BOOLEAN
  BY DEF Init
<1> QED
  BY <1>1, <1>2, <1>3, <1>4, <1>5 DEF TypeInv, TypeOK

\* The stream's variables keep their types (struct usbq_stream, urb_slot and the
\* program counters of the three threads), for every instance.
THEOREM TypeCorrect == Spec => []TypeOK
<1>1. Init => TypeInv
  BY InitTypeInv
<1>2. TypeInv => TypeOK
  BY DEF TypeInv
<1> QED
  BY <1>1, <1>2, TypeInvStep, PTL DEF Spec

-----------------------------------------------------------------------------
CancelInv == TypeInv /\ PendingExact /\ WaitDrainsCancels

\* The pool is finite, so its accepted cancellations can be counted.
LEMMA CancellingFinite ==
  ASSUME TypeInv
  PROVE  /\ IsFiniteSet(Cancelling)
         /\ Cardinality(Cancelling) \in Nat
         /\ Cardinality(Cancelling) = 0 <=> Cancelling = {}
<1>1. IsFiniteSet(URB)
  BY FS_Interval, StreamAssumption DEF URB
<1>2. Cancelling \in SUBSET URB
  BY DEF Cancelling
<1>3. IsFiniteSet(Cancelling)
  BY <1>1, <1>2, FS_Subset
<1> QED
  BY <1>3, FS_CardinalityType, FS_EmptySet

\* Steps that leave the transfers being cancelled, the callback's kind and the
\* counter alone leave the count exact.
LEMMA CountKept ==
  ASSUME PendingExact, Cancelling' = Cancelling, pending' = pending,
         CancelInCallback' = CancelInCallback
  PROVE  PendingExact'
<1>1. Cardinality(Cancelling') = Cardinality(Cancelling)
  OBVIOUS
<1> QED
  BY <1>1 DEF PendingExact

\* A submission starts from an idle transfer, so it touches none that is being
\* cancelled.
LEMMA SubmitKeepsCancelling ==
  ASSUME TypeInv, NEW u \in URB, SubmitAccepted(u) \/ SubmitRefused(u)
  PROVE  Cancelling' = Cancelling
BY DEF TypeInv, TypeOK, SubmitAccepted, SubmitRefused, Cancelling

\* libusb reports one transfer: a reported cancellation moves from the count of
\* the pool to the callback.
LEMMA CancelInvDispatch ==
  ASSUME CancelInv, NEW u \in URB, Dispatch(u)
  PROVE  PendingExact' /\ WaitDrainsCancels'
<1> USE DEF CancelInv
<1>1. CASE xfer[u] = "flight"
  <2>1. Cancelling' = Cancelling
    BY <1>1 DEF Dispatch, Cancelling, TypeInv, TypeOK
  <2>2. cb.at = "idle" /\ cb'.at \in {"data", "check"}
    BY <1>1 DEF Dispatch, NoDataStep
  <2>3. CancelInCallback' = CancelInCallback
    BY <2>2 DEF CancelInCallback
  <2>4. pending' = pending /\ ctl' = ctl
    BY DEF Dispatch
  <2> QED
    BY <2>1, <2>2, <2>3, <2>4, CountKept DEF WaitDrainsCancels
<1>2. CASE xfer[u] = "cancelling"
  <2>1. Cancelling' = Cancelling \ {u} /\ u \in Cancelling
    BY <1>2 DEF Dispatch, Cancelling, TypeInv, TypeOK
  <2>2. Cardinality(Cancelling') = Cardinality(Cancelling) - 1
    BY <2>1, CancellingFinite, FS_RemoveElement
  <2>3. CancelInCallback = 0 /\ CancelInCallback' = 1
    BY <1>2 DEF Dispatch, CancelInCallback
  <2>4. pending' = pending /\ ctl' = ctl
    BY DEF Dispatch
  <2>5. ctl.at \in {"cancel", "wait"}
    BY <2>1 DEF WaitDrainsCancels
  <2>6. PendingExact'
    BY <2>2, <2>3, <2>4, CancellingFinite DEF PendingExact
  <2>7. WaitDrainsCancels'
    BY <2>4, <2>5 DEF WaitDrainsCancels
  <2> QED
    BY <2>6, <2>7
<1> QED
  BY <1>1, <1>2 DEF Dispatch

\* A callback takes its own cancellation off the counter, and nothing else.
LEMMA CancelInvCallback ==
  ASSUME CancelInv, Callback
  PROVE  PendingExact' /\ WaitDrainsCancels'
<1> USE DEF CancelInv
<1>1. CASE CbCancelled
  <2>1. Cancelling' = Cancelling /\ ctl' = ctl
    BY <1>1 DEF CbCancelled, Cancelling
  <2>2. CancelInCallback = 1 /\ CancelInCallback' = 0 /\ cb'.at = "idle"
    BY <1>1 DEF CbCancelled, CancelInCallback, TypeInv, TypeOK
  <2>3. pending - 1 = Cardinality(Cancelling)
    BY <2>2, CancellingFinite DEF PendingExact
  <2>4. pending' = Cardinality(Cancelling)
    BY <1>1, <2>3, CancellingFinite DEF CbCancelled
  <2>5. Cardinality(Cancelling') = Cardinality(Cancelling)
    BY <2>1
  <2> QED
    BY <2>1, <2>2, <2>4, <2>5, CancellingFinite
    DEF PendingExact, WaitDrainsCancels
<1>2. CASE ~CbCancelled
  <2>1. /\ cb.at # "cancelled" /\ cb'.at # "cancelled"
        /\ pending' = pending /\ ctl' = ctl
    BY <1>2 DEF Callback, CbTestStopping, CbPush, CbWake, CbCheck, CbResubmit,
       CbFailed, CbWakeSelect, TypeInv, TypeOK, CbSteps
  <2>2. Cancelling' = Cancelling
    <3>1. CASE CbResubmit
      <4>1. cb.u \in URB
        BY DEF TypeInv, TypeOK
      <4> QED
        BY <3>1, <4>1, SubmitKeepsCancelling DEF CbResubmit
    <3>2. CASE ~CbResubmit
      BY <1>2, <3>2 DEF Callback, CbTestStopping, CbPush, CbWake, CbCheck,
         CbFailed, CbWakeSelect, Cancelling
    <3> QED
      BY <3>1, <3>2
  <2>3. CancelInCallback' = CancelInCallback
    BY <2>1 DEF CancelInCallback
  <2> QED
    BY <2>1, <2>2, <2>3, CountKept DEF WaitDrainsCancels
<1> QED
  BY <1>1, <1>2

\* The controlling thread counts what it cancels and leaves the wait only with
\* a counter of zero.
LEMMA CancelInvControl ==
  ASSUME CancelInv, Control
  PROVE  PendingExact' /\ WaitDrainsCancels'
<1> USE DEF CancelInv
<1>1. cb' = cb /\ CancelInCallback' = CancelInCallback
  BY DEF Control, Open, OpenNoMemory, Submit, OpenFail, Cancel, AwaitCancels,
     Restart, RestartFail, WakeSelect, OpenRelease, Flush, Close, Free,
     CancelInCallback
<1>2. CASE Submit
  <2>1. ctl.i \in URB
    BY <1>2 DEF Submit, TypeInv, TypeOK, CtlIndex, CtlRecord, URB
  <2>2. Cancelling' = Cancelling
    BY <1>2, <2>1, SubmitKeepsCancelling DEF Submit
  <2>3. pending' = pending /\ ctl.at = "submit"
    BY <1>2 DEF Submit
  <2> QED
    BY <1>1, <2>2, <2>3, CountKept DEF WaitDrainsCancels
<1>3. CASE Cancel
  <2>1. ctl.i \in URB /\ ctl'.at = "cancel"
    BY <1>3, StreamAssumption DEF Cancel, TypeInv, TypeOK, CtlRecord, URB
  <2>2. CASE CancelQueued(ctl.i)
    <3>1. /\ Cancelling' = Cancelling \union {ctl.i}
          /\ ctl.i \notin Cancelling
          /\ pending' = pending + 1
      BY <1>3, <2>1, <2>2 DEF Cancel, CancelQueued, Cancelling, TypeInv, TypeOK
    <3>2. Cardinality(Cancelling') = Cardinality(Cancelling) + 1
      BY <3>1, CancellingFinite, FS_AddElement
    <3>3. CancelInCallback \in Int
      BY DEF CancelInCallback
    <3> QED
      BY <1>1, <2>1, <3>1, <3>2, <3>3, CancellingFinite
      DEF PendingExact, WaitDrainsCancels
  <2>3. CASE ~CancelQueued(ctl.i)
    <3>1. Cancelling' = Cancelling /\ pending' = pending
      BY <1>3, <2>1, <2>3 DEF Cancel, CancelQueued, Cancelling, TypeInv, TypeOK
    <3> QED
      BY <1>1, <2>1, <3>1, CountKept DEF WaitDrainsCancels
  <2> QED
    BY <2>2, <2>3
<1>4. CASE AwaitCancels
  <2>1. Cancelling' = Cancelling /\ pending' = pending
    BY <1>4 DEF AwaitCancels, Cancelling
  <2>2. PendingExact'
    BY <1>1, <2>1, CountKept
  <2>3. CASE MustWait
    <3>1. ctl'.at = "wait"
      BY <1>4, <2>3 DEF AwaitCancels, TypeInv, TypeOK, CtlRecord
    <3> QED
      BY <2>2, <3>1 DEF WaitDrainsCancels
  <2>4. CASE ~MustWait
    <3>1. pending <= 0
      BY <2>4 DEF MustWait, TypeInv, TypeOK
    <3>2. Cardinality(Cancelling) = 0 /\ CancelInCallback = 0
      BY <3>1, CancellingFinite DEF PendingExact, CancelInCallback
    <3>3. Cancelling' = {} /\ cb'.at # "cancelled"
      BY <1>1, <2>1, <3>2, CancellingFinite DEF CancelInCallback
    <3> QED
      BY <2>2, <3>3 DEF WaitDrainsCancels
  <2> QED
    BY <2>3, <2>4
<1>5. CASE ~(Submit \/ Cancel \/ AwaitCancels)
  <2>1. /\ xfer' = xfer /\ pending' = pending
        /\ ctl.at \notin {"cancel", "wait"}
    BY <1>5 DEF Control, Open, OpenNoMemory, OpenFail, Restart, RestartFail,
       WakeSelect, OpenRelease, Flush, Close, Free
  <2>2. Cancelling' = Cancelling
    BY <2>1 DEF Cancelling
  <2> QED
    BY <1>1, <2>1, <2>2, CountKept DEF WaitDrainsCancels
<1> QED
  BY <1>2, <1>3, <1>4, <1>5

\* Every step keeps the count exact and the wait honest.
LEMMA CancelInvStep == CancelInv /\ [Next]_vars => CancelInv'
<1> SUFFICES ASSUME CancelInv, [Next]_vars
             PROVE  CancelInv'
  OBVIOUS
<1>1. TypeInv'
  BY TypeInvStep DEF CancelInv
<1>2. CASE UNCHANGED <<xfer, pending, cb, ctl>>
  <2>1. Cancelling' = Cancelling /\ CancelInCallback' = CancelInCallback
    BY <1>2 DEF Cancelling, CancelInCallback
  <2> QED
    BY <1>1, <1>2, <2>1, CountKept DEF CancelInv, WaitDrainsCancels
<1>3. Unplug \/ Reader \/ UNCHANGED vars => UNCHANGED <<xfer, pending, cb, ctl>>
  BY DEF Unplug, Reader, ReadBlocking, ReadWoken, ReadTimeout, Select,
     SelectReady, ReadDrain, vars
<1> QED
  BY <1>1, <1>2, <1>3, CancelInvDispatch, CancelInvCallback, CancelInvControl
  DEF Next, CancelInv

\* A closed stream has no cancellation.
LEMMA InitCancelInv == Init => CancelInv
<1> SUFFICES ASSUME Init
             PROVE  CancelInv
  OBVIOUS
<1>1. TypeInv
  BY InitTypeInv
<1>2. Cancelling = {} /\ CancelInCallback = 0 /\ pending = 0
  BY DEF Init, Cancelling, CancelInCallback
<1>3. Cardinality(Cancelling) = 0
  BY <1>2, FS_EmptySet
<1> QED
  BY <1>1, <1>2, <1>3 DEF CancelInv, PendingExact, WaitDrainsCancels,
     CancelInCallback

\* The counter is exact and the wait drains: the two together are inductive.
THEOREM CancelInvariant == Spec => []CancelInv
BY InitCancelInv, CancelInvStep, PTL DEF Spec

\* pending_cancel is exact whatever callbacks interleave with the cancel loops:
\* for every pool depth, with restarts, faults and unplugs.
THEOREM PendingIsExact == Spec => []PendingExact
<1>1. CancelInv => PendingExact
  BY DEF CancelInv
<1> QED
  BY <1>1, CancelInvariant, PTL

\* usbq_stream_restart never resubmits, usbq_stream_close and a failing
\* usbq_stream_open never free, a transfer whose cancellation libusb has not
\* reported.
THEOREM WaitDrainsAllCancels == Spec => []WaitDrainsCancels
<1>1. CancelInv => WaitDrainsCancels
  BY DEF CancelInv
<1> QED
  BY <1>1, CancelInvariant, PTL

-----------------------------------------------------------------------------
(***************************************************************************)
(* The pool stays complete.  During the submission loop the URBs before    *)
(* the loop's index are held already; a callback that decides under the    *)
(* lock sees clear marks and a healthy stream, so it keeps what it holds;  *)
(* every path that gives a URB up marks the stream dead first.             *)
(***************************************************************************)
Held(u) == xfer[u] = "flight" \/ (cb.u = u /\ cb.at # "idle")

MarksClear == ctl.at \in {"closed", "submit"} => \A u \in URB : state[u] = 0

LoopHolds == ctl.at = "submit" /\ ~stopping =>
                 \A u \in URB : u < ctl.i => Held(u)

DeadFirst ==
    /\ cb.at = "wakeselect" => stopping
    /\ ctl.at = "wakeselect" => stopping
    /\ ctl.at \in {"cancel", "wait"} /\ ctl.op = "open" => stopping

PoolParts == MarksClear /\ LoopHolds /\ DeadFirst /\ PoolComplete

PoolInv == CancelInv /\ PoolParts

\* Steps that leave the pool and the threads that work on it alone.
LEMMA PoolKept ==
  ASSUME PoolParts, UNCHANGED <<xfer, state, stopping, cb, ctl>>
  PROVE  PoolParts'
BY DEF PoolParts, MarksClear, LoopHolds, DeadFirst, PoolComplete, Held

\* A reported transfer is held by the callback that will resubmit it.
LEMMA PoolInvDispatch ==
  ASSUME PoolInv, NEW u \in URB, Dispatch(u)
  PROVE  PoolParts'
<1>1. /\ cb.at = "idle" /\ cb'.u = u /\ cb'.at \in {"data", "check", "cancelled"}
      /\ UNCHANGED <<state, stopping, ctl>>
      /\ xfer' = [xfer EXCEPT ![u] = "idle"]
  BY DEF Dispatch, NoDataStep
<1>2. \A v \in URB : xfer[v] = "flight" => Held(v)'
  BY <1>1 DEF Held, PoolInv, CancelInv, TypeInv, TypeOK
<1>3. \A v \in URB : Held(v) => Held(v)'
  BY <1>1, <1>2 DEF Held
<1> QED
  BY <1>1, <1>3
  DEF PoolInv, PoolParts, MarksClear, LoopHolds, DeadFirst, PoolComplete, Held

\* A callback of a healthy stream resubmits its transfer or declares the stream
\* dead.
LEMMA PoolInvCallback ==
  ASSUME PoolInv, Callback
  PROVE  PoolParts'
<1> USE DEF PoolInv, PoolParts
<1>0. /\ TypeOK /\ WaitDrainsCancels /\ cb.u \in URB
      /\ ctl' = ctl /\ state' = state /\ cb'.u = cb.u
  BY DEF CancelInv, TypeInv, TypeOK, Callback, CbCancelled, CbTestStopping,
     CbPush, CbWake, CbCheck, CbResubmit, CbFailed, CbWakeSelect
<1>1. CASE CbCancelled
  <2>1. ctl.at \in {"cancel", "wait"}
    BY <1>0, <1>1 DEF CbCancelled, WaitDrainsCancels
  <2>2. stopping' = stopping /\ cb'.at = "idle"
    BY <1>0, <1>1 DEF CbCancelled, TypeOK
  <2> QED
    BY <1>0, <2>1, <2>2 DEF MarksClear, LoopHolds, DeadFirst, PoolComplete
<1>2. CASE CbTestStopping \/ CbPush \/ CbWake
  <2>1. /\ cb.at # "idle" /\ cb'.at \notin {"idle", "wakeselect"}
        /\ UNCHANGED <<xfer, stopping>>
    BY <1>0, <1>2 DEF CbTestStopping, CbPush, CbWake, TypeOK
  <2> QED
    BY <1>0, <2>1 DEF MarksClear, LoopHolds, DeadFirst, PoolComplete, Held
<1>3. CASE CbCheck
  <2>1. /\ cb.at # "idle" /\ cb'.at # "wakeselect"
        /\ UNCHANGED <<xfer, stopping>>
        /\ ~stopping /\ state[cb.u] = 0 => cb'.at # "idle"
    BY <1>0, <1>3 DEF CbCheck, TypeOK
  <2> QED
    BY <1>0, <2>1 DEF MarksClear, LoopHolds, DeadFirst, PoolComplete, Held
<1>4. CASE CbResubmit
  <2>1. /\ cb.at # "idle" /\ cb'.at # "wakeselect" /\ stopping' = stopping
        /\ \/ xfer' = [xfer EXCEPT ![cb.u] = "flight"]
           \/ xfer' = xfer /\ cb'.at # "idle"
    BY <1>0, <1>4 DEF CbResubmit, SubmitAccepted, SubmitRefused, TypeOK
  <2>2. \A v \in URB : Held(v) => Held(v)'
    BY <1>0, <2>1 DEF Held, TypeOK
  <2> QED
    BY <1>0, <2>1, <2>2 DEF MarksClear, LoopHolds, DeadFirst, PoolComplete, Held
<1>5. CASE CbFailed
  <2>1. stopping'
    BY <1>5 DEF CbFailed, MarkDead
  <2> QED
    BY <1>0, <2>1 DEF MarksClear, LoopHolds, DeadFirst, PoolComplete
<1>6. CASE CbWakeSelect
  <2>1. stopping'
    BY <1>6 DEF CbWakeSelect, DeadFirst
  <2> QED
    BY <1>0, <2>1 DEF MarksClear, LoopHolds, DeadFirst, PoolComplete
<1> QED
  BY <1>1, <1>2, <1>3, <1>4, <1>5, <1>6 DEF Callback

\* The submission loop of open and restart puts the pool in flight one by one.
LEMMA PoolInvSubmit ==
  ASSUME PoolInv, Submit
  PROVE  PoolParts'
<1> USE DEF PoolInv, PoolParts
<1>1. /\ TypeOK /\ ctl.i \in URB /\ ctl.at = "submit"
      /\ UNCHANGED <<state, stopping, cb>>
  BY DEF CancelInv, TypeInv, TypeOK, CtlIndex, CtlRecord, URB, Submit
<1>2. CASE SubmitAccepted(ctl.i)
  <2>1. xfer' = [xfer EXCEPT ![ctl.i] = "flight"]
    BY <1>2 DEF SubmitAccepted
  <2>2. \A v \in URB : Held(v) \/ v = ctl.i => Held(v)'
    BY <1>1, <2>1 DEF Held, TypeOK
  <2>3. ~stopping => \A v \in URB : v <= ctl.i => Held(v)'
    BY <1>1, <2>2 DEF LoopHolds, URB
  <2>4. CASE ctl.i < PoolDepth /\ ctl' = [ctl EXCEPT !.i = @ + 1]
    <3>1. ctl'.at = "submit" /\ ctl'.i = ctl.i + 1
      BY <1>1, <2>4 DEF TypeOK, CtlRecord
    <3>2. \A v \in URB : v < ctl'.i => v <= ctl.i
      BY <1>1, <3>1 DEF URB
    <3> QED
      BY <1>1, <2>3, <3>1, <3>2 DEF MarksClear, LoopHolds, DeadFirst, PoolComplete
  <2>5. CASE ~(ctl.i < PoolDepth) /\ ctl' = [ctl EXCEPT !.at = "up", !.op = "none"]
    <3>1. ctl'.at = "up"
      BY <1>1, <2>5 DEF TypeOK, CtlRecord
    <3>2. \A v \in URB : v <= ctl.i
      BY <1>1, <2>5, StreamAssumption DEF URB
    <3> QED
      BY <1>1, <2>3, <3>1, <3>2
      DEF MarksClear, LoopHolds, DeadFirst, PoolComplete, Held
  <2>6. CASE ctl'.at \in {"openfail", "restartfail"}
    BY <1>1, <2>6 DEF MarksClear, LoopHolds, DeadFirst, PoolComplete
  <2>7. ctl' = [ctl EXCEPT !.at = "openfail"] \/ ctl' = [ctl EXCEPT !.at = "restartfail"]
          => ctl'.at \in {"openfail", "restartfail"}
    BY <1>1 DEF TypeOK, CtlRecord
  <2> QED
    BY <2>4, <2>5, <2>6, <2>7 DEF Submit
<1>3. CASE SubmitRefused(ctl.i) /\ ctl'.at \in {"openfail", "restartfail"}
  BY <1>1, <1>3 DEF MarksClear, LoopHolds, DeadFirst, PoolComplete
<1> QED
  BY <1>1, <1>2, <1>3 DEF Submit, TypeOK, CtlRecord

\* The other steps of open, restart and close keep the pool.
LEMMA PoolInvControl ==
  ASSUME PoolInv, Control
  PROVE  PoolParts'
<1> USE DEF PoolInv, PoolParts
<1>0. TypeOK /\ ctl \in CtlRecord
  BY DEF CancelInv, TypeInv, TypeOK
<1>1. CASE Submit
  BY <1>1, PoolInvSubmit
<1>2. CASE Open
  <2>1. /\ ctl'.at = "submit" /\ ctl'.i = 1 /\ ctl.at = "closed"
        /\ UNCHANGED <<xfer, state, stopping, cb>>
    BY <1>2 DEF Open
  <2>2. \A u \in URB : ~(u < 1)
    BY DEF URB
  <2> QED
    BY <2>1, <2>2 DEF MarksClear, LoopHolds, DeadFirst, PoolComplete
<1>3. CASE OpenNoMemory \/ OpenRelease \/ Free
  <2>1. /\ ctl'.at \in {"gone", "free"}
        /\ UNCHANGED <<xfer, state, stopping, cb>>
    BY <1>0, <1>3 DEF OpenNoMemory, OpenRelease, Free, CtlRecord
  <2> QED
    BY <2>1 DEF MarksClear, LoopHolds, DeadFirst, PoolComplete
<1>4. CASE OpenFail \/ Close
  <2>1. ctl'.at = "cancel" /\ stopping' /\ cb' = cb
    <3>1. stopping' /\ cb' = cb
      BY <1>4 DEF OpenFail, Close
    <3>2. CASE OpenFail
      <4>1. ctl' = [[ctl EXCEPT !.at = "cancel"] EXCEPT !.i = 1, !.hi = ctl.i - 1]
        BY <1>0, <3>2 DEF OpenFail, CtlRecord
      <4> QED
        BY <1>0, <3>1, <4>1 DEF CtlRecord
    <3>3. CASE Close
      BY <3>1, <3>3 DEF Close
    <3> QED
      BY <1>4, <3>2, <3>3
  <2> QED
    BY <2>1 DEF MarksClear, LoopHolds, DeadFirst, PoolComplete
<1>5. CASE Cancel
  <2>1. ctl'.at = "cancel" /\ ctl'.op = ctl.op /\ ctl.at = "cancel"
        /\ UNCHANGED <<stopping, cb>>
    BY <1>0, <1>5 DEF Cancel, CtlRecord
  <2> QED
    BY <2>1 DEF MarksClear, LoopHolds, DeadFirst, PoolComplete
<1>6. CASE AwaitCancels
  <2>1. UNCHANGED <<stopping, cb>> /\ ctl.at \in {"cancel", "wait"}
    BY <1>6 DEF AwaitCancels
  <2>2. CASE ctl' = [ctl EXCEPT !.at = "wait"]
    <3>1. ctl'.at = "wait" /\ ctl'.op = ctl.op
      BY <1>0, <2>2 DEF CtlRecord
    <3> QED
      BY <2>1, <3>1 DEF MarksClear, LoopHolds, DeadFirst, PoolComplete
  <2>3. CASE ctl.op = "open" /\ ctl' = [ctl EXCEPT !.at = "wakeselect"]
    <3>1. ctl'.at = "wakeselect" /\ stopping
      BY <1>0, <2>1, <2>3 DEF CtlRecord, DeadFirst
    <3> QED
      BY <2>1, <3>1 DEF MarksClear, LoopHolds, DeadFirst, PoolComplete
  <2>4. CASE ctl' = [ctl EXCEPT !.at = "submit", !.i = 1] /\ ClearMarks
    <3>1. ctl'.at = "submit" /\ ctl'.i = 1 /\ \A u \in URB : state'[u] = 0
      BY <1>0, <2>4 DEF CtlRecord, ClearMarks
    <3>2. \A u \in URB : ~(u < 1)
      BY DEF URB
    <3> QED
      BY <2>1, <3>1, <3>2 DEF MarksClear, LoopHolds, DeadFirst, PoolComplete
  <2>5. CASE ctl' = [ctl EXCEPT !.at = "free"]
    <3>1. ctl'.at = "free"
      BY <1>0, <2>5 DEF CtlRecord
    <3> QED
      BY <2>1, <3>1 DEF MarksClear, LoopHolds, DeadFirst, PoolComplete
  <2> QED
    BY <1>6, <2>2, <2>3, <2>4, <2>5 DEF AwaitCancels, AfterCancel
<1>7. CASE Restart
  <2>1. ctl'.at = "cancel" /\ ctl'.op = "restart" /\ UNCHANGED <<stopping, cb>>
    BY <1>7 DEF Restart
  <2> QED
    BY <2>1 DEF MarksClear, LoopHolds, DeadFirst, PoolComplete
<1>8. CASE RestartFail
  <2>1. ctl'.at = "wakeselect" /\ stopping' /\ cb' = cb
    BY <1>0, <1>8 DEF RestartFail, MarkDead, CtlRecord
  <2> QED
    BY <2>1 DEF MarksClear, LoopHolds, DeadFirst, PoolComplete
<1>9. CASE WakeSelect
  <2>1. ctl'.at \in {"release", "up"} /\ stopping' /\ cb' = cb
    BY <1>0, <1>9 DEF WakeSelect, DeadFirst, CtlRecord
  <2> QED
    BY <2>1 DEF MarksClear, LoopHolds, DeadFirst, PoolComplete
<1>10. CASE Flush
  BY <1>10, PoolKept DEF Flush
<1> QED
  BY <1>1, <1>2, <1>3, <1>4, <1>5, <1>6, <1>7, <1>8, <1>9, <1>10 DEF Control

\* Every step keeps the pool.
LEMMA PoolInvStep == PoolInv /\ [Next]_vars => PoolInv'
<1> SUFFICES ASSUME PoolInv, [Next]_vars
             PROVE  PoolInv'
  OBVIOUS
<1>1. CancelInv'
  BY CancelInvStep DEF PoolInv
<1>2. Unplug \/ Reader \/ UNCHANGED vars
        => UNCHANGED <<xfer, state, stopping, cb, ctl>>
  BY DEF Unplug, Reader, ReadBlocking, ReadWoken, ReadTimeout, Select,
     SelectReady, ReadDrain, vars
<1>3. CASE UNCHANGED <<xfer, state, stopping, cb, ctl>>
  BY <1>1, <1>3, PoolKept DEF PoolInv
<1> QED
  BY <1>1, <1>2, <1>3, PoolInvDispatch, PoolInvCallback, PoolInvControl
  DEF Next, PoolInv

\* usbq.h's promise that pool_depth URBs stay permanently in flight: a healthy
\* stream never loses one, for every pool depth, over errors, restarts and
\* unplugs.
THEOREM PoolStaysComplete == Spec => []PoolComplete
<1>1. Init => PoolInv
  <2> SUFFICES ASSUME Init
               PROVE  PoolInv
    OBVIOUS
  <2>1. CancelInv
    BY InitCancelInv
  <2> QED
    BY <2>1 DEF Init, PoolInv, PoolParts, MarksClear, LoopHolds, DeadFirst,
       PoolComplete
<1>2. PoolInv => PoolComplete
  BY DEF PoolInv, PoolParts
<1> QED
  BY <1>1, <1>2, PoolInvStep, PTL DEF Spec

-----------------------------------------------------------------------------
(***************************************************************************)
(* The readers: who is owed a wake-up, and what makes a stream stop.       *)
(*                                                                         *)
(* A consumer is inside the stream only while its caller may use the       *)
(* handle.  Hence the two places that set s->stopping without waking       *)
(* anybody, a failing open and close, find nobody asleep; every other      *)
(* place is followed by a broadcast and by a write to the wake pipe, and   *)
(* between the two the thread that owes the write is still on its way.     *)
(***************************************************************************)
\* Which call the controlling thread can be in at each of its places.
CtlPlaces ==
    /\ ctl.at \in {"closed", "up"} => ctl.op = "none"
    /\ ctl.at \in {"submit", "wakeselect"} => ctl.op \in {"open", "restart"}
    /\ ctl.at \in {"openfail", "release"} => ctl.op = "open"
    /\ ctl.at = "restartfail" => ctl.op = "restart"
    /\ ctl.at \in {"cancel", "wait"} => ctl.op \in {"open", "restart", "close"}
    /\ ctl.at = "free" => ctl.op \in {"open", "close"}
    /\ ctl.at = "gone" => ctl.op # "restart"
    /\ ctl.op = "restart" => MayRestart

\* The stream is being torn down: a failing open, or close.
GivenUp == \/ ctl.op = "close" \/ ctl.at = "gone"
           \/ ctl.op = "open" /\ ctl.at # "submit"

\* A step of the controlling thread, without its data: what it does to the
\* thread's place and the call it is in.
Goes(at, op) == ctl'.at = at /\ ctl'.op = op

ReaderPlaces ==
    /\ rd \in {"out", "dead"} \/ Usable
    /\ "reader" \in waiters => rd = "wait"
    /\ "ctl" \in waiters => ctl.at = "wait"
    /\ rd = "select" => HasWakeFd

PlaceInv == TypeInv /\ CtlPlaces /\ ReaderPlaces

-----------------------------------------------------------------------------
\* The controlling thread's steps, by the place they lead to.
LEMMA ControlGoes ==
  ASSUME TypeInv, Control
  PROVE  \/ ctl.at = "closed" /\ Goes("submit", "open")
         \/ ctl.at = "closed" /\ Goes("gone", ctl.op)
         \/ ctl.at = "submit" /\ Goes("submit", ctl.op)
         \/ ctl.at = "submit" /\ Goes("up", "none")
         \/ ctl.at = "submit" /\ ctl.op = "open" /\ Goes("openfail", ctl.op)
         \/ ctl.at = "submit" /\ ctl.op # "open" /\ Goes("restartfail", ctl.op)
         \/ ctl.at = "openfail" /\ Goes("cancel", ctl.op)
         \/ ctl.at = "cancel" /\ Goes("cancel", ctl.op)
         \/ ctl.at \in {"cancel", "wait"} /\ Goes("wait", ctl.op)
         \/ ctl.at \in {"cancel", "wait"} /\ ctl.op = "open"
               /\ Goes("wakeselect", ctl.op)
         \/ ctl.at \in {"cancel", "wait"} /\ ctl.op = "restart"
               /\ Goes("submit", ctl.op)
         \/ ctl.at \in {"cancel", "wait"} /\ ctl.op = "close"
               /\ Goes("free", ctl.op)
         \/ ctl.at = "up" /\ MayRestart /\ Goes("cancel", "restart")
         \/ ctl.at = "restartfail" /\ Goes("wakeselect", ctl.op)
         \/ ctl.at = "wakeselect" /\ ctl.op = "open" /\ Goes("release", ctl.op)
         \/ ctl.at = "wakeselect" /\ ctl.op # "open" /\ Goes("up", "none")
         \/ ctl.at = "release" /\ Goes("free", ctl.op)
         \/ ctl.at = "up" /\ ctl' = ctl
         \/ ctl.at = "up" /\ Goes("cancel", "close") /\ rd \in {"out", "dead"}
         \/ ctl.at = "free" /\ Goes("gone", ctl.op)
<1> USE DEF TypeInv, TypeOK, CtlRecord, Goes
<1>1. CASE Open
  BY <1>1 DEF Open
<1>2. CASE OpenNoMemory
  BY <1>2 DEF OpenNoMemory
<1>3. CASE Submit
  BY <1>3 DEF Submit
<1>4. CASE OpenFail
  <2>1. PICK h : ctl' = [ctl EXCEPT !.at = "cancel", !.i = 1, !.hi = h]
    BY <1>4 DEF OpenFail
  <2>2. ctl'.at = "cancel" /\ ctl'.op = ctl.op
    BY <2>1
  <2> QED
    BY <1>4, <2>2 DEF OpenFail
<1>5. CASE Cancel
  BY <1>5 DEF Cancel
<1>6. CASE AwaitCancels
  BY <1>6 DEF AwaitCancels, AfterCancel
<1>7. CASE Restart
  BY <1>7 DEF Restart
<1>8. CASE RestartFail
  BY <1>8 DEF RestartFail
<1>9. CASE WakeSelect
  BY <1>9 DEF WakeSelect
<1>10. CASE OpenRelease
  BY <1>10 DEF OpenRelease
<1>11. CASE Flush
  BY <1>11 DEF Flush
<1>12. CASE Close
  BY <1>12 DEF Close
<1>13. CASE Free
  BY <1>13 DEF Free
<1> QED
  BY <1>1, <1>2, <1>3, <1>4, <1>5, <1>6, <1>7, <1>8, <1>9, <1>10, <1>11,
     <1>12, <1>13 DEF Control

\* The places of the controlling thread and of the consumer fit together.
LEMMA PlaceInvStep == PlaceInv /\ [Next]_vars => PlaceInv'
<1> SUFFICES ASSUME PlaceInv, [Next]_vars
             PROVE  PlaceInv'
  OBVIOUS
<1>0. TypeInv' /\ TypeInv
  BY TypeInvStep DEF PlaceInv
<1>1. CASE UNCHANGED <<ctl, rd, waiters>>
  BY <1>0, <1>1 DEF PlaceInv, CtlPlaces, ReaderPlaces, Usable
<1>2. CASE Callback
  <2>1. waiters' \subseteq waiters /\ UNCHANGED <<ctl, rd>>
    BY <1>2 DEF Callback, CbCancelled, CbTestStopping, CbPush, CbWake, CbCheck,
       CbResubmit, CbFailed, CbWakeSelect, Broadcast, Signal, MarkDead
  <2> QED
    BY <1>0, <2>1 DEF PlaceInv, CtlPlaces, ReaderPlaces, Usable
<1>3. CASE Control
  <2>1. CtlPlaces'
    BY <1>0, <1>3, ControlGoes DEF PlaceInv, CtlPlaces, Goes, CtlOps, TypeInv,
       TypeOK, CtlRecord
  <2>2. rd' = rd
    BY <1>3 DEF Control, Open, OpenNoMemory, Submit, OpenFail, Cancel,
       AwaitCancels, Restart, RestartFail, WakeSelect, OpenRelease, Flush,
       Close, Free
  <2>3. rd' \in {"out", "dead"} \/ Usable'
    BY <1>0, <1>3, <2>2, ControlGoes DEF PlaceInv, CtlPlaces, ReaderPlaces,
       Usable, Goes, TypeInv, TypeOK, CtlRecord, CtlOps
  <2>4. \/ waiters' \subseteq waiters /\ "ctl" \notin waiters'
        \/ waiters' = waiters \union {"ctl"} /\ ctl'.at = "wait"
    <3>1. CASE AwaitCancels
      <4>1. \/ waiters' = waiters /\ "ctl" \notin waiters
            \/ /\ waiters' = waiters \union {"ctl"}
               /\ ctl' = [ctl EXCEPT !.at = "wait"]
        BY <3>1 DEF AwaitCancels, AfterCancel, PlaceInv, ReaderPlaces
      <4> QED
        BY <1>0, <4>1 DEF TypeInv, TypeOK, CtlRecord
    <3>2. CASE RestartFail
      BY <3>2 DEF RestartFail, MarkDead, Broadcast
    <3>3. CASE ~AwaitCancels /\ ~RestartFail
      <4>1. waiters' = waiters /\ ctl.at # "wait"
        BY <1>3, <3>3 DEF Control, Open, OpenNoMemory, Submit, OpenFail, Cancel,
           Restart, WakeSelect, OpenRelease, Flush, Close, Free
      <4> QED
        BY <4>1 DEF PlaceInv, ReaderPlaces
    <3> QED
      BY <3>1, <3>2, <3>3
  <2> QED
    BY <1>0, <2>1, <2>2, <2>3, <2>4 DEF PlaceInv, ReaderPlaces
<1>4. CASE Reader
  <2>1. UNCHANGED ctl
    BY <1>4 DEF Reader, ReadBlocking, ReadWoken, ReadTimeout, Select,
       SelectReady, ReadDrain
  <2>2. rd' \in {"out", "dead"} \/ Usable
    BY <1>4 DEF Reader, ReadBlocking, ReadWoken, ReadTimeout, Select, PlaceInv,
       SelectReady, ReadDrain, ReadReturn, ReadSleep, ReaderPlaces
  <2>3. /\ waiters' \subseteq waiters \union {"reader"}
        /\ "reader" \in waiters' => rd' = "wait"
    BY <1>4 DEF Reader, ReadBlocking, ReadWoken, ReadTimeout, Select, PlaceInv,
       SelectReady, ReadDrain, ReadReturn, ReadSleep, ReaderPlaces
  <2>4. rd' = "select" => HasWakeFd
    BY <1>4 DEF Reader, ReadBlocking, ReadWoken, ReadTimeout, Select, PlaceInv,
       SelectReady, ReadDrain, ReadReturn, ReadSleep, ReaderPlaces
  <2> QED
    BY <1>0, <2>1, <2>2, <2>3, <2>4
    DEF PlaceInv, CtlPlaces, ReaderPlaces, Usable
<1>5. \/ Callback \/ Control \/ Reader
      \/ UNCHANGED <<ctl, rd, waiters>>
  BY DEF Next, Unplug, Dispatch, vars
<1> QED
  BY <1>1, <1>2, <1>3, <1>4, <1>5

\* A closed stream has no reader and nobody asleep.
LEMMA PlaceInvInit == Init => PlaceInv
BY InitTypeInv DEF Init, PlaceInv, CtlPlaces, ReaderPlaces, Usable

\* While the handle is with the caller the stream is not being torn down.
LEMMA UsableIsKept ==
  ASSUME PlaceInv, Usable
  PROVE  ~GivenUp
BY DEF PlaceInv, CtlPlaces, Usable, GivenUp

-----------------------------------------------------------------------------
(***************************************************************************)
(* The consumer of the wake pipe.                                          *)
(***************************************************************************)
\* Data in the ring has made the pipe readable, or the callback that brought it
\* has the write ahead.
DataOwed == HasWakeFd /\ used > 0 /\ rd # "drain" => pipe \/ cb.at = "wake"

\* So has the death of a stream that is not being torn down.
StopOwed ==
    HasWakeFd /\ stopping /\ ~GivenUp /\ rd \notin {"drain", "dead"} =>
        pipe \/ cb.at = "wakeselect" \/ ctl.at = "wakeselect"

OwedInv == PlaceInv /\ DataOwed /\ StopOwed

\* The callback writes to the pipe after each push and after each give-up.
LEMMA OwedCallback ==
  ASSUME OwedInv, Callback
  PROVE  DataOwed' /\ StopOwed'
<1> USE DEF OwedInv, PlaceInv, DataOwed, StopOwed, GivenUp, TypeInv, TypeOK
<1>1. CASE CbPush
  <2>1. HasWakeFd => cb'.at = "wake" /\ cb.at = "push"
    BY <1>1 DEF CbPush
  <2> QED
    BY <1>1, <2>1 DEF CbPush
<1>2. CASE CbWake
  BY <1>2 DEF CbWake
<1>3. CASE CbFailed
  <2>1. cb'.at = "wakeselect" /\ cb.at = "failed"
    BY <1>3 DEF CbFailed
  <2> QED
    BY <1>3, <2>1 DEF CbFailed
<1>4. CASE CbWakeSelect
  <2>1. HasWakeFd => pipe'
    BY <1>4 DEF CbWakeSelect, StreamWakeSelect
  <2> QED
    BY <1>4, <2>1
<1>5. CASE CbCancelled \/ CbTestStopping \/ CbCheck \/ CbResubmit
  <2>1. /\ cb.at \notin {"wake", "wakeselect"}
        /\ UNCHANGED <<stopping, used, pipe, ctl, rd>>
    BY <1>5 DEF CbCancelled, CbTestStopping, CbCheck, CbResubmit
  <2> QED
    BY <2>1
<1> QED
  BY <1>1, <1>2, <1>3, <1>4, <1>5 DEF Callback

\* restart that gives up has the write ahead, too.
LEMMA OwedControl ==
  ASSUME OwedInv, Control
  PROVE  DataOwed' /\ StopOwed'
<1> USE DEF OwedInv, PlaceInv, DataOwed, StopOwed, TypeInv, TypeOK
<1>1. UNCHANGED <<rd, cb>> /\ used' \in {used, 0}
  BY DEF Control, Open, OpenNoMemory, Submit, OpenFail, Cancel, AwaitCancels,
     Restart, RestartFail, WakeSelect, OpenRelease, Flush, Close, Free
<1>2. pipe => pipe'
  BY DEF Control, Open, OpenNoMemory, Submit, OpenFail, Cancel, AwaitCancels,
     Restart, RestartFail, WakeSelect, OpenRelease, Flush, Close, Free,
     StreamWakeSelect
<1>3. CASE WakeSelect
  <2>1. HasWakeFd => pipe'
    BY <1>3 DEF WakeSelect, StreamWakeSelect
  <2> QED
    BY <1>1, <2>1
<1>4. CASE RestartFail
  <2>1. ctl' = [ctl EXCEPT !.at = "wakeselect"]
    BY <1>4 DEF RestartFail
  <2>2. ctl'.at = "wakeselect"
    BY <2>1 DEF CtlRecord
  <2> QED
    BY <1>1, <1>2, <2>2
<1>5. CASE OpenFail \/ Close
  <2>1. CASE OpenFail
    <3>1. ctl.at = "openfail" /\ ctl.op = "open"
      BY <2>1 DEF OpenFail, CtlPlaces
    <3>2. Goes("cancel", "open")
      BY <3>1, ControlGoes DEF Goes
    <3> QED
      BY <1>1, <1>2, <3>2 DEF Goes, GivenUp
  <2>2. CASE Close
    <3>1. ctl'.op = "close"
      BY <2>2 DEF Close
    <3> QED
      BY <1>1, <1>2, <3>1 DEF GivenUp
  <2> QED
    BY <1>5, <2>1, <2>2
<1>6. CASE ~(WakeSelect \/ RestartFail \/ OpenFail \/ Close)
  <2>1. stopping' = stopping /\ ctl.at # "wakeselect"
    BY <1>6 DEF Control, Open, OpenNoMemory, Submit, Cancel, AwaitCancels,
       Restart, OpenRelease, Flush, Free
  <2>2. GivenUp => GivenUp'
    BY <2>1, ControlGoes DEF GivenUp, CtlPlaces, Goes
  <2> QED
    BY <1>1, <1>2, <2>1, <2>2
<1> QED
  BY <1>3, <1>4, <1>5, <1>6

\* A consumer empties the pipe before it reads, and reads until there is
\* nothing left.
LEMMA OwedReader ==
  ASSUME OwedInv, Reader
  PROVE  DataOwed' /\ StopOwed'
<1> USE DEF OwedInv, PlaceInv, DataOwed, StopOwed, GivenUp, TypeInv, TypeOK
<1>1. UNCHANGED <<stopping, cb, ctl>>
  BY DEF Reader, ReadBlocking, ReadWoken, ReadTimeout, Select, SelectReady,
     ReadDrain
<1>2. CASE ReadBlocking \/ ReadWoken \/ ReadTimeout
  <2>1. /\ used' \in 0..used /\ pipe' = pipe
        /\ rd \notin {"drain", "dead"}
    BY <1>2 DEF ReadBlocking, ReadWoken, ReadTimeout, ReadReturn, ReadSleep
  <2> QED
    BY <1>1, <2>1
<1>3. CASE Select
  BY <1>1, <1>3 DEF Select
<1>4. CASE SelectReady
  BY <1>1, <1>4 DEF SelectReady
<1>5. CASE ReadDrain
  <2>1. /\ used' \in 0..used /\ pipe' = pipe
        /\ \/ rd' = "drain"
           \/ used' = 0 /\ (stopping => rd' = "dead")
    BY <1>5 DEF ReadDrain, ReadReturn
  <2> QED
    BY <1>1, <2>1
<1> QED
  BY <1>2, <1>3, <1>4, <1>5 DEF Reader

\* A consumer that select()s on the wake pipe sleeps only while there is nothing
\* to read and the stream is alive, or the write that wakes it is on its way
\* (stream_wake_select and the two writes of stream_xfer_cb), for every pool
\* depth and ring capacity, with and without restarts.
THEOREM NobodyStrandedInSelect == Spec => []SelectNotStranded
<1>1. Init => OwedInv
  BY PlaceInvInit DEF Init, OwedInv, DataOwed, StopOwed
<1>2. OwedInv /\ [Next]_vars => OwedInv'
  <2> SUFFICES ASSUME OwedInv, [Next]_vars
               PROVE  OwedInv'
    OBVIOUS
  <2>1. PlaceInv'
    BY PlaceInvStep DEF OwedInv
  <2>2. CASE Unplug \/ UNCHANGED vars
    BY <2>1, <2>2 DEF Unplug, vars, OwedInv, DataOwed, StopOwed, GivenUp
  <2>3. ASSUME NEW u \in URB, Dispatch(u)
        PROVE  DataOwed' /\ StopOwed'
    <3>1. cb.at = "idle" /\ UNCHANGED <<stopping, used, pipe, ctl, rd>>
      BY <2>3 DEF Dispatch
    <3> QED
      BY <3>1 DEF OwedInv, DataOwed, StopOwed, GivenUp
  <2> QED
    BY <2>1, <2>2, <2>3, OwedCallback, OwedControl, OwedReader
    DEF Next, OwedInv
<1>3. OwedInv => SelectNotStranded
  BY UsableIsKept
  DEF OwedInv, PlaceInv, ReaderPlaces, DataOwed, StopOwed, SelectNotStranded
<1> QED
  BY <1>1, <1>2, <1>3, PTL DEF Spec

-----------------------------------------------------------------------------
(***************************************************************************)
(* The consumer asleep in usbq_stream_read.                                *)
(***************************************************************************)
AsleepInv == PlaceInv /\ ("reader" \in waiters => used = 0 /\ ~stopping)

\* Without restarts nobody but the reader can take a push's signal: the only
\* other thread that sleeps on s->cv tears the stream down.
LEMMA AsleepInvStep ==
  ASSUME ~MayRestart, AsleepInv, [Next]_vars
  PROVE  AsleepInv'
<1> USE DEF AsleepInv
<1>0. PlaceInv'
  BY PlaceInvStep
<1>1. CASE UNCHANGED <<waiters, used, stopping>>
  BY <1>0, <1>1
<1>2. CASE CbPush
  <2>1. "reader" \in waiters => waiters = {"reader"}
    <3> SUFFICES ASSUME "reader" \in waiters, "ctl" \in waiters
                 PROVE  FALSE
      BY DEF PlaceInv, TypeInv, TypeOK
    <3>1. ctl.at = "wait" /\ Usable
      BY DEF PlaceInv, ReaderPlaces
    <3> QED
      BY <3>1 DEF PlaceInv, CtlPlaces, Usable
  <2>2. "reader" \notin waiters'
    BY <1>2, <2>1 DEF CbPush, Signal
  <2> QED
    BY <1>0, <2>2
<1>3. CASE CbCancelled \/ CbFailed \/ RestartFail
  <2>1. \/ waiters' = {}
        \/ UNCHANGED <<waiters, used, stopping>>
    BY <1>3 DEF CbCancelled, CbFailed, RestartFail, MarkDead, Broadcast
  <2> QED
    BY <1>0, <2>1
<1>4. CASE OpenFail \/ Close
  <2>1. rd \in {"out", "dead"}
    BY <1>4 DEF OpenFail, Close, PlaceInv, ReaderPlaces, CtlPlaces, Usable
  <2>2. "reader" \notin waiters /\ waiters' = waiters
    BY <1>4, <2>1 DEF OpenFail, Close, PlaceInv, ReaderPlaces
  <2> QED
    BY <1>0, <2>2
<1>5. CASE AwaitCancels \/ Flush
  <2>1. /\ "reader" \in waiters' => "reader" \in waiters
        /\ used' \in {used, 0} /\ stopping' = stopping
    BY <1>5 DEF AwaitCancels, AfterCancel, Flush
  <2> QED
    BY <1>0, <2>1
<1>6. CASE ReadBlocking \/ ReadWoken \/ ReadTimeout \/ ReadDrain
  <2>1. stopping' = stopping
    BY <1>6 DEF ReadBlocking, ReadWoken, ReadTimeout, ReadDrain
  <2>2. \/ "reader" \notin waiters'
        \/ used' = used /\ used = 0 /\ ~stopping
    BY <1>6 DEF ReadBlocking, ReadWoken, ReadTimeout, ReadDrain, ReadSleep,
       ReadReturn, PlaceInv, ReaderPlaces
  <2> QED
    BY <1>0, <2>1, <2>2
<1> QED
  <2>1. CASE UNCHANGED vars \/ Unplug \/ (\E u \in URB : Dispatch(u))
    BY <1>1, <2>1 DEF vars, Unplug, Dispatch
  <2>2. CASE Callback
    BY <1>1, <1>2, <1>3, <2>2 DEF Callback, CbTestStopping, CbWake, CbCheck,
       CbResubmit, CbWakeSelect
  <2>3. CASE Control
    BY <1>1, <1>3, <1>4, <1>5, <2>3 DEF Control, Open, OpenNoMemory, Submit,
       Cancel, Restart, WakeSelect, OpenRelease, Free
  <2>4. CASE Reader
    BY <1>1, <1>6, <2>4 DEF Reader, Select, SelectReady
  <2> QED
    BY <2>1, <2>2, <2>3, <2>4 DEF Next

\* usbq_stream_read never sleeps on data or on a dead stream: while it is in
\* the condition's wait set the ring is empty and the stream alive.  With a
\* restart the controlling thread can swallow the signal, so the theorem is for
\* the engines that do not restart (em28xx and dvbsky).
THEOREM NobodyStrandedInRead == ASSUME ~MayRestart PROVE Spec => []ReaderNotStranded
<1>1. Init => AsleepInv
  BY PlaceInvInit DEF Init, AsleepInv
<1>2. AsleepInv => ReaderNotStranded
  BY DEF AsleepInv, ReaderNotStranded
<1> QED
  BY <1>1, <1>2, AsleepInvStep, PTL DEF Spec

-----------------------------------------------------------------------------
(***************************************************************************)
(* Without restarts each transfer is submitted by one thread at a time, so *)
(* a resubmission is refused only by a device that is gone, or by a libusb *)
(* that may refuse anything.                                               *)
(***************************************************************************)
Dead == ~plugged \/ SubmitFaults

\* The transfer in a callback's hands is idle.
CbOwns == cb.at # "idle" => xfer[cb.u] = "idle"

\* The transfers the open loop has still ahead are idle, and in no callback.
LoopOwns ==
    /\ ctl.at = "submit" =>
          \A u \in URB : u >= ctl.i => xfer[u] = "idle"
                                       /\ (cb.at # "idle" => cb.u # u)
    /\ ctl.at = "closed" => cb.at = "idle" /\ \A u \in URB : xfer[u] = "idle"

DeadInv == /\ PlaceInv /\ CbOwns /\ LoopOwns
           /\ cb.at = "failed" => Dead
           /\ stopping /\ ~GivenUp => Dead

\* A callback's own resubmission cannot meet another's.
LEMMA DeadInvCallback ==
  ASSUME ~MayRestart, DeadInv, Callback
  PROVE  DeadInv'
<1> USE DEF DeadInv, CbOwns, LoopOwns, Dead, GivenUp
<1>0. PlaceInv' /\ TypeOK /\ cb.u \in URB /\ cb' \in [at : CbSteps, u : URB]
  BY PlaceInvStep DEF Next, PlaceInv, TypeInv, TypeOK
<1>1. UNCHANGED <<plugged, ctl>> /\ cb'.u = cb.u /\ cb.at # "idle"
  BY <1>0 DEF TypeOK, Callback, CbCancelled, CbTestStopping, CbPush, CbWake,
     CbCheck, CbResubmit, CbFailed, CbWakeSelect
<1>2. CASE CbResubmit
  <2>1. xfer[cb.u] = "idle" /\ stopping' = stopping
    BY <1>1, <1>2 DEF CbResubmit
  <2>2. CASE SubmitAccepted(cb.u) /\ cb' = [cb EXCEPT !.at = "idle"]
    <3>1. cb'.at = "idle" /\ xfer' = [xfer EXCEPT ![cb.u] = "flight"]
      BY <1>0, <2>2 DEF SubmitAccepted, TypeOK
    <3>2. ctl.at # "closed"
      BY <1>1
    <3>3. \A u \in URB : u # cb.u => xfer'[u] = xfer[u]
      BY <1>0, <3>1 DEF TypeOK
    <3> QED
      BY <1>0, <1>1, <2>1, <3>1, <3>2, <3>3
  <2>3. CASE SubmitRefused(cb.u) /\ cb' = [cb EXCEPT !.at = "failed"]
    <3>1. cb'.at = "failed" /\ xfer' = xfer /\ Dead
      BY <1>0, <2>1, <2>3 DEF SubmitRefused, TypeOK
    <3> QED
      BY <1>0, <1>1, <2>1, <3>1
  <2> QED
    BY <1>2, <2>2, <2>3 DEF CbResubmit
<1>3. CASE CbFailed
  <2>1. xfer' = xfer /\ cb.at = "failed" /\ cb'.at = "wakeselect"
    BY <1>0, <1>3 DEF CbFailed, TypeOK
  <2> QED
    BY <1>0, <1>1, <2>1
<1>4. CASE ~CbResubmit /\ ~CbFailed
  <2>1. UNCHANGED <<xfer, stopping>> /\ cb'.at # "failed"
    BY <1>0, <1>4 DEF TypeOK, Callback, CbCancelled, CbTestStopping, CbPush,
       CbWake, CbCheck, CbWakeSelect
  <2> QED
    BY <1>0, <1>1, <2>1
<1> QED
  BY <1>2, <1>3, <1>4

\* open submits each transfer once; nothing else does.
LEMMA DeadInvControl ==
  ASSUME ~MayRestart, DeadInv, Control
  PROVE  DeadInv'
<1> USE DEF DeadInv, CbOwns, LoopOwns, Dead
<1>0. /\ PlaceInv' /\ TypeOK /\ cb.u \in URB /\ ctl.op # "restart"
      /\ UNCHANGED <<plugged, cb>>
  BY PlaceInvStep DEF Next, PlaceInv, TypeInv, TypeOK, CtlPlaces, Control, Open,
     OpenNoMemory, Submit, OpenFail, Cancel, AwaitCancels, Restart, RestartFail,
     WakeSelect, OpenRelease, Flush, Close, Free
<1>1. CASE Open
  <2>1. UNCHANGED <<xfer, stopping>> /\ ctl'.at = "submit" /\ ~GivenUp
    BY <1>1 DEF Open, PlaceInv, CtlPlaces, GivenUp
  <2> QED
    BY <1>0, <1>1, <2>1 DEF Open
<1>2. CASE Submit
  <2>1. stopping' = stopping /\ ctl.i \in URB /\ ~GivenUp /\ ctl.at = "submit"
    BY <1>2 DEF Submit, GivenUp, PlaceInv, CtlPlaces, TypeInv, TypeOK, CtlIndex,
       CtlRecord, URB
  <2>2. CASE SubmitAccepted(ctl.i)
    <3>1. /\ xfer' = [xfer EXCEPT ![ctl.i] = "flight"]
          /\ xfer[ctl.i] = "idle" /\ (cb.at # "idle" => cb.u # ctl.i)
      BY <2>1, <2>2 DEF SubmitAccepted, URB
    <3>2. CbOwns'
      BY <1>0, <2>1, <3>1 DEF TypeOK
    <3>3. CASE ctl' = [ctl EXCEPT !.i = @ + 1]
      <4>1. ctl'.at = "submit" /\ ctl'.i = ctl.i + 1
        BY <1>0, <2>1, <3>3 DEF TypeOK, CtlRecord
      <4>2. \A u \in URB : u >= ctl'.i => u >= ctl.i /\ u # ctl.i
        BY <2>1, <4>1 DEF URB
      <4>3. LoopOwns'
        BY <1>0, <2>1, <3>1, <4>1, <4>2 DEF TypeOK
      <4> QED
        BY <1>0, <2>1, <3>2, <4>3
    <3>4. CASE ctl'.at \in {"up", "openfail"}
      BY <1>0, <2>1, <3>2, <3>4
    <3>5. ctl' = [ctl EXCEPT !.i = @ + 1] \/ ctl'.at \in {"up", "openfail"}
      BY <1>0, <1>2, <2>1 DEF Submit, TypeOK, CtlRecord, PlaceInv, CtlPlaces
    <3> QED
      BY <3>3, <3>4, <3>5
  <2>3. CASE SubmitRefused(ctl.i) /\ ctl' = [ctl EXCEPT !.at = "openfail"]
    <3>1. xfer' = xfer /\ ctl'.at = "openfail"
      BY <1>0, <2>3 DEF SubmitRefused, TypeOK, CtlRecord
    <3> QED
      BY <1>0, <2>1, <3>1
  <2>4. ctl.op = "open"
    BY <1>0, <2>1 DEF PlaceInv, CtlPlaces
  <2> QED
    BY <1>2, <2>2, <2>3, <2>4 DEF Submit
<1>3. CASE OpenFail \/ Close
  <2>1. xfer' = xfer /\ GivenUp' /\ ctl'.at = "cancel"
    <3>1. CASE OpenFail
      <4>1. ctl.at = "openfail" /\ ctl.op = "open" /\ xfer' = xfer
        BY <3>1 DEF OpenFail, PlaceInv, CtlPlaces
      <4>2. Goes("cancel", "open")
        BY <4>1, ControlGoes DEF Goes, PlaceInv
      <4> QED
        BY <4>1, <4>2 DEF Goes, GivenUp
    <3>2. CASE Close
      BY <3>2 DEF Close, GivenUp
    <3> QED
      BY <1>3, <3>1, <3>2
  <2> QED
    BY <1>0, <2>1
<1>4. CASE Cancel
  <2>1. /\ ctl'.at = "cancel" /\ ctl'.op = ctl.op /\ ctl.at = "cancel"
        /\ stopping' = stopping
        /\ \A u \in URB : xfer[u] = "idle" => xfer'[u] = "idle"
    BY <1>0, <1>4 DEF Cancel, TypeOK, CtlRecord
  <2> QED
    BY <1>0, <2>1 DEF GivenUp
<1>5. CASE ~(Open \/ Submit \/ OpenFail \/ Close \/ Cancel)
  <2>1. /\ xfer' = xfer /\ ctl.at # "submit"
        /\ ~Restart /\ ~RestartFail
    BY <1>0, <1>5 DEF Control, OpenNoMemory, AwaitCancels, Restart, RestartFail,
       WakeSelect, OpenRelease, Flush, Free, PlaceInv, CtlPlaces
  <2>2. stopping' = stopping
    BY <1>5, <2>1 DEF Control, OpenNoMemory, AwaitCancels, WakeSelect,
       OpenRelease, Flush, Free
  <2>3. /\ ctl'.at \notin {"submit", "closed"}
        /\ GivenUp => GivenUp'
    <3>1. CASE OpenNoMemory
      <4>1. ctl'.at = "gone"
        BY <1>0, <3>1 DEF OpenNoMemory, TypeOK, CtlRecord
      <4> QED
        BY <4>1 DEF GivenUp
    <3>2. CASE ~OpenNoMemory
      <4>1. ctl.at # "closed"
        BY <1>5, <2>1, <3>2 DEF Control, AwaitCancels, WakeSelect, OpenRelease,
           Flush, Free
      <4> QED
        BY <1>0, <2>1, <4>1, ControlGoes DEF Goes, PlaceInv, CtlPlaces, GivenUp
    <3> QED
      BY <3>1, <3>2
  <2> QED
    BY <1>0, <2>1, <2>2, <2>3
<1> QED
  BY <1>1, <1>2, <1>3, <1>4, <1>5

\* -ENODEV is for a dead device: a stream that nobody closes stops only when the
\* device is gone or libusb refused a submission.  With a restart two threads
\* can submit one URB, and the theorem fails.
THEOREM DeathIsReal == ASSUME ~MayRestart PROVE Spec => []StopsOnlyWhenDead
<1>1. Init => DeadInv
  BY PlaceInvInit DEF Init, DeadInv, CbOwns, LoopOwns, URB
<1>2. DeadInv /\ [Next]_vars => DeadInv'
  <2> SUFFICES ASSUME DeadInv, [Next]_vars
               PROVE  DeadInv'
    OBVIOUS
  <2>0. PlaceInv' /\ TypeOK
    BY PlaceInvStep DEF DeadInv, PlaceInv, TypeInv
  <2>1. CASE Unplug
    BY <2>0, <2>1 DEF Unplug, DeadInv, CbOwns, LoopOwns, Dead, GivenUp
  <2>2. CASE Reader \/ UNCHANGED vars
    <3>1. UNCHANGED <<plugged, xfer, stopping, cb, ctl>>
      BY <2>2 DEF vars, Reader, ReadBlocking, ReadWoken, ReadTimeout, Select,
         SelectReady, ReadDrain
    <3> QED
      BY <2>0, <3>1 DEF DeadInv, CbOwns, LoopOwns, Dead, GivenUp
  <2>3. ASSUME NEW u \in URB, Dispatch(u)
        PROVE  DeadInv'
    <3>1. /\ xfer[u] # "idle" /\ xfer' = [xfer EXCEPT ![u] = "idle"]
          /\ cb'.u = u /\ cb'.at # "failed"
          /\ UNCHANGED <<plugged, stopping, ctl>>
      BY <2>3 DEF Dispatch, NoDataStep
    <3>2. CbOwns' /\ LoopOwns'
      BY <2>0, <3>1 DEF DeadInv, CbOwns, LoopOwns, TypeOK
    <3> QED
      BY <2>0, <3>1, <3>2 DEF DeadInv, Dead, GivenUp
  <2> QED
    BY <2>1, <2>2, <2>3, DeadInvCallback, DeadInvControl DEF Next
<1>3. DeadInv => StopsOnlyWhenDead
  BY UsableIsKept DEF DeadInv, Dead, StopsOnlyWhenDead
<1> QED
  BY <1>1, <1>2, <1>3, PTL DEF Spec
=============================================================================
