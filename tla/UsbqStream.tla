----------------------------- MODULE UsbqStream -----------------------------
(***************************************************************************)
(* One asynchronous bulk-IN stream of src/usbq/src/usbq.c: the pool of     *)
(* URBs, the completion callback on libusb's event thread, the thread that *)
(* opens, restarts, flushes and closes the stream, and one consumer that   *)
(* either blocks in usbq_stream_read or select()s on the wake pipe.        *)
(*                                                                         *)
(* Steps are as fine as the code's locking: what s->mu protects in one     *)
(* critical section is one step, and everything the code does between two  *)
(* critical sections (the unlocked test of s->stopping, libusb_submit, the *)
(* write to the wake pipe) is a step of its own.  The mutex is held across *)
(* steps only by the loop that cancels the pool one URB at a time.         *)
(*                                                                         *)
(* libusb and the device are external: a transfer is idle, in flight, or   *)
(* in flight with its cancellation accepted; it becomes idle just before   *)
(* its callback runs, callbacks run one at a time, and submitting a        *)
(* transfer that is not idle fails with BUSY.  The contents of the ring    *)
(* are left to module RingBuffer: here it is the number of units it holds. *)
(***************************************************************************)
EXTENDS Integers, FiniteSets

CONSTANTS PoolDepth,     \* number of URBs of the pool
          RingCap,       \* ring capacity, in completions
          HasWakeFd,     \* the consumer passed a wake fd at open
          MayRestart,    \* the engine calls usbq_stream_restart (dib0700 does)
          SubmitFaults,  \* libusb may refuse a submission on a plugged device
          EvtShared      \* another stream or hotplug keeps the event thread

ASSUME StreamAssumption ==
    /\ PoolDepth \in Nat \ {0}
    /\ RingCap \in Nat \ {0}
    /\ HasWakeFd \in BOOLEAN
    /\ MayRestart \in BOOLEAN
    /\ SubmitFaults \in BOOLEAN
    /\ EvtShared \in BOOLEAN

URB == 1..PoolDepth

VARIABLES
    plugged,    \* the device is on the bus
    xfer,       \* libusb's view of each transfer
    state,      \* urb_slot.state: 0 normal, 1 cancel-pending
    pending,    \* s->pending_cancel
    stopping,   \* s->stopping
    mu,         \* who holds s->mu between steps
    waiters,    \* threads asleep on s->cv
    used,       \* s->ring_used
    pipe,       \* the wake pipe is readable
    cb,         \* the callback the event thread is running
    ctl,        \* the thread that opens, restarts and closes
    rd          \* the consumer

vars == <<plugged, xfer, state, pending, stopping, mu, waiters, used, pipe,
          cb, ctl, rd>>

-----------------------------------------------------------------------------
XferStates  == {"idle", "flight", "cancelling"}
CbSteps     == {"idle", "cancelled", "data", "push", "wake", "check",
                "resubmit", "failed", "wakeselect"}
CtlSteps    == {"closed", "submit", "openfail", "cancel", "wait", "restartfail",
                "wakeselect", "release", "free", "up", "gone"}
CtlOps      == {"none", "open", "restart", "close"}
ReaderSteps == {"out", "wait", "select", "drain", "dead"}

CtlRecord == [at : CtlSteps, op : CtlOps, i : 1..(PoolDepth + 1),
              hi : 0..PoolDepth]

(***************************************************************************)
(* [ctl.at] is where the thread is, [ctl.op] the call it is in, [ctl.i]    *)
(* the loop index of the submit and cancel loops and [ctl.hi] the last     *)
(* index the cancel loop reaches.                                          *)
(***************************************************************************)
TypeOK ==
    /\ plugged \in BOOLEAN
    /\ xfer \in [URB -> XferStates]
    /\ state \in [URB -> {0, 1}]
    /\ pending \in Int
    /\ stopping \in BOOLEAN
    /\ mu \in {"free", "ctl"}
    /\ waiters \in SUBSET {"ctl", "reader"}
    /\ used \in 0..RingCap
    /\ pipe \in BOOLEAN
    /\ cb \in [at : CbSteps, u : URB]
    /\ ctl \in CtlRecord
    /\ rd \in ReaderSteps

Init ==
    /\ plugged = TRUE
    /\ xfer = [u \in URB |-> "idle"]
    /\ state = [u \in URB |-> 0]
    /\ pending = 0
    /\ stopping = FALSE
    /\ mu = "free"
    /\ waiters = {}
    /\ used = 0
    /\ pipe = FALSE
    /\ cb = [at |-> "idle", u |-> 1]
    /\ ctl = [at |-> "closed", op |-> "none", i |-> 1, hi |-> 0]
    /\ rd = "out"

\* The event thread runs, and the stream it works on has not been freed.
Running == ctl.at \notin {"closed", "gone"}
           /\ (ctl.op = "open" /\ ctl.at = "free" => EvtShared)

\* The handle is with the caller and usbq_stream_close has not been called.
Usable == ctl.at = "up" \/ ctl.op = "restart"

\* pthread_cond_broadcast wakes all sleepers, pthread_cond_signal one of them.
NoBroadcast == UNCHANGED waiters                            \* mutant
Broadcast == waiters' = {}

Signal == IF waiters = {} THEN waiters' = {}
          ELSE \E t \in waiters : waiters' = waiters \ {t}

\* A path that gives up on the device: s->stopping = 1 and a broadcast.
ForgetDead == UNCHANGED stopping /\ Broadcast               \* mutant
MarkDeadSilently == stopping' = TRUE /\ UNCHANGED waiters   \* mutant
MarkDead == stopping' = TRUE /\ Broadcast

\* stream_wake_select: takes the lock to read the fd, writes after the unlock.
WakeSelectForgotten == mu = "free" /\ UNCHANGED pipe        \* mutant
StreamWakeSelect == mu = "free" /\ pipe' = (pipe \/ HasWakeFd)

\* ring_push_locked on a ring that holds n units: the oldest one gives way.
Pushed(n) == IF n < RingCap THEN n + 1 ELSE RingCap

-----------------------------------------------------------------------------
(***************************************************************************)
(* libusb.                                                                 *)
(***************************************************************************)
SubmitAccepted(u) ==
    /\ plugged
    /\ xfer[u] = "idle"
    /\ xfer' = [xfer EXCEPT ![u] = "flight"]

\* NO_DEVICE, BUSY, or a shortage of kernel memory.
SubmitRefused(u) ==
    /\ ~plugged \/ xfer[u] # "idle" \/ SubmitFaults
    /\ UNCHANGED xfer

Unplug ==
    /\ plugged
    /\ plugged' = FALSE
    /\ UNCHANGED <<xfer, state, pending, stopping, mu, waiters, used, pipe,
                   cb, ctl, rd>>

\* Where stream_xfer_cb goes with a transfer that brought no bytes, or an error:
\* past the success branch.
NoDataDies == "failed"                                      \* mutant
NoDataStep == "check"

\* libusb reports a transfer and calls stream_xfer_cb, which branches on its
\* status: data, no data, or cancelled.
Dispatch(u) ==
    /\ Running
    /\ cb.at = "idle"
    /\ \/ /\ xfer[u] = "flight"
          /\ \E at \in {"data", NoDataStep} : cb' = [at |-> at, u |-> u]
       \/ /\ xfer[u] = "cancelling"
          /\ cb' = [at |-> "cancelled", u |-> u]
    /\ xfer' = [xfer EXCEPT ![u] = "idle"]
    /\ UNCHANGED <<plugged, state, pending, stopping, mu, waiters, used, pipe,
                   ctl, rd>>

-----------------------------------------------------------------------------
(***************************************************************************)
(* stream_xfer_cb, on the event thread.                                    *)
(***************************************************************************)
CbCancelled ==
    /\ Running
    /\ cb.at = "cancelled"
    /\ mu = "free"
    /\ IF pending - 1 <= 0
       THEN pending' = 0 /\ Broadcast
       ELSE pending' = pending - 1 /\ UNCHANGED waiters
    /\ cb' = [cb EXCEPT !.at = "idle"]
    /\ UNCHANGED <<plugged, xfer, state, stopping, mu, used, pipe, ctl, rd>>

\* The success branch tests s->stopping without the lock.
CbTestStopping ==
    /\ Running
    /\ cb.at = "data"
    /\ cb' = [cb EXCEPT !.at = IF stopping THEN "check" ELSE "push"]
    /\ UNCHANGED <<plugged, xfer, state, pending, stopping, mu, waiters, used,
                   pipe, ctl, rd>>

\* ring_push_locked drops the oldest bytes of a full ring.
CbPush ==
    /\ Running
    /\ cb.at = "push"
    /\ mu = "free"
    /\ used' = Pushed(used)
    /\ Signal
    /\ cb' = [cb EXCEPT !.at = IF HasWakeFd THEN "wake" ELSE "check"]
    /\ UNCHANGED <<plugged, xfer, state, pending, stopping, mu, pipe, ctl, rd>>

CbWake ==
    /\ Running
    /\ cb.at = "wake"
    /\ pipe' = TRUE
    /\ cb' = [cb EXCEPT !.at = "check"]
    /\ UNCHANGED <<plugged, xfer, state, pending, stopping, mu, waiters, used,
                   ctl, rd>>

\* The decision to resubmit is taken under the lock ...
CbCheck ==
    /\ Running
    /\ cb.at = "check"
    /\ mu = "free"
    /\ cb' = [cb EXCEPT !.at = IF stopping \/ state[cb.u] # 0
                               THEN "idle" ELSE "resubmit"]
    /\ UNCHANGED <<plugged, xfer, state, pending, stopping, mu, waiters, used,
                   pipe, ctl, rd>>

\* ... and acted on after the unlock.
CbResubmit ==
    /\ Running
    /\ cb.at = "resubmit"
    /\ \/ SubmitAccepted(cb.u) /\ cb' = [cb EXCEPT !.at = "idle"]
       \/ SubmitRefused(cb.u) /\ cb' = [cb EXCEPT !.at = "failed"]
    /\ UNCHANGED <<plugged, state, pending, stopping, mu, waiters, used, pipe,
                   ctl, rd>>

CbFailed ==
    /\ Running
    /\ cb.at = "failed"
    /\ mu = "free"
    /\ MarkDead
    /\ cb' = [cb EXCEPT !.at = "wakeselect"]
    /\ UNCHANGED <<plugged, xfer, state, pending, mu, used, pipe, ctl, rd>>

CbWakeSelect ==
    /\ Running
    /\ cb.at = "wakeselect"
    /\ StreamWakeSelect
    /\ cb' = [cb EXCEPT !.at = "idle"]
    /\ UNCHANGED <<plugged, xfer, state, pending, stopping, mu, waiters, used,
                   ctl, rd>>

-----------------------------------------------------------------------------
(***************************************************************************)
(* usbq_stream_open.                                                       *)
(***************************************************************************)
Open ==
    /\ ctl.at = "closed"
    /\ ctl' = [at |-> "submit", op |-> "open", i |-> 1, hi |-> 0]
    /\ UNCHANGED <<plugged, xfer, state, pending, stopping, mu, waiters, used,
                   pipe, cb, rd>>

\* calloc, malloc, libusb_alloc_transfer or usbq_evt_acquire failed.
OpenNoMemory ==
    /\ ctl.at = "closed"
    /\ ctl' = [ctl EXCEPT !.at = "gone"]
    /\ UNCHANGED <<plugged, xfer, state, pending, stopping, mu, waiters, used,
                   pipe, cb, rd>>

\* One turn of the submission loop, of open and of restart alike.
Submit ==
    /\ ctl.at = "submit"
    /\ \/ /\ SubmitAccepted(ctl.i)
          /\ ctl' = IF ctl.i < PoolDepth
                    THEN [ctl EXCEPT !.i = @ + 1]
                    ELSE [ctl EXCEPT !.at = "up", !.op = "none"]
       \/ /\ SubmitRefused(ctl.i)
          /\ ctl' = [ctl EXCEPT !.at = IF ctl.op = "open"
                                       THEN "openfail" ELSE "restartfail"]
    /\ UNCHANGED <<plugged, state, pending, stopping, mu, waiters, used, pipe,
                   cb, rd>>

\* URBs 1 .. i-1 are running: cancel those.
OpenFail ==
    /\ ctl.at = "openfail"
    /\ mu = "free"
    /\ stopping' = TRUE
    /\ mu' = "ctl"
    /\ ctl' = [ctl EXCEPT !.at = "cancel", !.i = 1, !.hi = ctl.i - 1]
    /\ UNCHANGED <<plugged, xfer, state, pending, waiters, used, pipe, cb, rd>>

-----------------------------------------------------------------------------
(***************************************************************************)
(* Cancelling the pool, common to a failing open, restart and close.       *)
(***************************************************************************)
\* Only a cancel that libusb queued is counted.
CountEveryCancel(u) == state[u] = 0                         \* mutant
CancelQueued(u) == state[u] = 0 /\ xfer[u] = "flight"

Cancel ==
    /\ ctl.at = "cancel"
    /\ ctl.i <= ctl.hi
    /\ LET u == ctl.i IN
       /\ state' = [state EXCEPT ![u] = 1]
       /\ xfer' = [xfer EXCEPT ![u] = IF state[u] = 0 /\ @ = "flight"
                                      THEN "cancelling" ELSE @]
       /\ pending' = IF CancelQueued(u) THEN pending + 1 ELSE pending
    /\ ctl' = [ctl EXCEPT !.i = @ + 1]
    /\ UNCHANGED <<plugged, stopping, mu, waiters, used, pipe, cb, rd>>

\* restart clears the cancel marks, so that callbacks resubmit again.
KeepMarks == UNCHANGED state                                \* mutant
ClearMarks == state' = [u \in URB |-> 0]

\* Where each caller goes once no cancellation is pending.
AfterCancel ==
    /\ mu' = "free"
    /\ UNCHANGED waiters
    /\ \/ /\ ctl.op = "open"
          /\ ctl' = [ctl EXCEPT !.at = "wakeselect"]
          /\ UNCHANGED state
       \/ /\ ctl.op = "restart"
          /\ ctl' = [ctl EXCEPT !.at = "submit", !.i = 1]
          /\ ClearMarks
       \/ /\ ctl.op = "close"
          /\ ctl' = [ctl EXCEPT !.at = "free"]
          /\ UNCHANGED state

\* while (s->pending_cancel > 0) pthread_cond_wait(&s->cv, &s->mu)
OneMayStay == pending > 1                                   \* mutant
MustWait == pending > 0

AwaitCancels ==
    /\ \/ ctl.at = "cancel" /\ ctl.i > ctl.hi
       \/ ctl.at = "wait" /\ "ctl" \notin waiters /\ mu = "free"
    /\ IF MustWait
       THEN /\ mu' = "free"
            /\ waiters' = waiters \union {"ctl"}
            /\ ctl' = [ctl EXCEPT !.at = "wait"]
            /\ UNCHANGED state
       ELSE AfterCancel
    /\ UNCHANGED <<plugged, xfer, pending, stopping, used, pipe, cb, rd>>

-----------------------------------------------------------------------------
(***************************************************************************)
(* usbq_stream_restart, usbq_stream_flush, usbq_stream_close.              *)
(***************************************************************************)
\* A stopping stream is refused with -EINVAL and nothing changes.
Restart ==
    /\ MayRestart
    /\ ctl.at = "up"
    /\ mu = "free"
    /\ ~stopping
    /\ mu' = "ctl"
    /\ ctl' = [at |-> "cancel", op |-> "restart", i |-> 1, hi |-> PoolDepth]
    /\ UNCHANGED <<plugged, xfer, state, pending, stopping, waiters, used, pipe,
                   cb, rd>>

RestartFail ==
    /\ ctl.at = "restartfail"
    /\ mu = "free"
    /\ MarkDead
    /\ ctl' = [ctl EXCEPT !.at = "wakeselect"]
    /\ UNCHANGED <<plugged, xfer, state, pending, mu, used, pipe, cb, rd>>

\* On the way out of a failing open or restart.
WakeSelect ==
    /\ ctl.at = "wakeselect"
    /\ StreamWakeSelect
    /\ ctl' = IF ctl.op = "open" THEN [ctl EXCEPT !.at = "release"]
              ELSE [ctl EXCEPT !.at = "up", !.op = "none"]
    /\ UNCHANGED <<plugged, xfer, state, pending, stopping, mu, waiters, used,
                   cb, rd>>

\* The failing open drops the event thread before it frees, so it waits for a
\* running callback when it was the thread's last user (close frees first).
OpenRelease ==
    /\ ctl.at = "release"
    /\ EvtShared \/ cb.at = "idle"
    /\ ctl' = [ctl EXCEPT !.at = "free"]
    /\ UNCHANGED <<plugged, xfer, state, pending, stopping, mu, waiters, used,
                   pipe, cb, rd>>

Flush ==
    /\ ctl.at = "up"
    /\ mu = "free"
    /\ used' = 0
    /\ UNCHANGED <<plugged, xfer, state, pending, stopping, mu, waiters, pipe,
                   cb, ctl, rd>>

\* The caller's contract: no reader inside the stream or asleep on its pipe.
Close ==
    /\ ctl.at = "up"
    /\ rd \in {"out", "dead"}
    /\ mu = "free"
    /\ stopping' = TRUE
    /\ mu' = "ctl"
    /\ ctl' = [at |-> "cancel", op |-> "close", i |-> 1, hi |-> PoolDepth]
    /\ UNCHANGED <<plugged, xfer, state, pending, waiters, used, pipe, cb, rd>>

\* libusb_free_transfer, free, pthread_mutex_destroy: nothing of the stream
\* may be used from here on.
Free ==
    /\ ctl.at = "free"
    /\ ctl' = [ctl EXCEPT !.at = "gone"]
    /\ UNCHANGED <<plugged, xfer, state, pending, stopping, mu, waiters, used,
                   pipe, cb, rd>>

-----------------------------------------------------------------------------
(***************************************************************************)
(* usbq_stream_read and the consumer around it.                            *)
(***************************************************************************)
\* Up to cap bytes, else -ENODEV on a stopping stream, else 0.
ReadReturn(onZero, onData) ==
    IF used > 0
    THEN /\ \E n \in 1..used : used' = used - n
         /\ rd' = onData
    ELSE /\ used' = used
         /\ rd' = IF stopping THEN "dead" ELSE onZero

ReadSleep ==
    /\ waiters' = waiters \union {"reader"}
    /\ rd' = "wait"
    /\ UNCHANGED used

\* A read with a timeout.
ReadBlocking ==
    /\ rd = "out"
    /\ Usable
    /\ mu = "free"
    /\ IF used = 0 /\ ~stopping THEN ReadSleep
       ELSE ReadReturn("out", "out") /\ UNCHANGED waiters
    /\ UNCHANGED <<plugged, xfer, state, pending, stopping, mu, pipe, cb, ctl>>

\* Woken: tests its condition again.
ReadWoken ==
    /\ rd = "wait"
    /\ "reader" \notin waiters
    /\ mu = "free"
    /\ IF used = 0 /\ ~stopping THEN ReadSleep
       ELSE ReadReturn("out", "out") /\ UNCHANGED waiters
    /\ UNCHANGED <<plugged, xfer, state, pending, stopping, mu, pipe, cb, ctl>>

\* The deadline passes: pthread_cond_timedwait fails and the loop ends.
ReadTimeout ==
    /\ rd = "wait"
    /\ mu = "free"
    /\ waiters' = waiters \ {"reader"}
    /\ ReadReturn("out", "out")
    /\ UNCHANGED <<plugged, xfer, state, pending, stopping, mu, pipe, cb, ctl>>

\* The consumer of the wake pipe: sleeps in select(), empties the pipe, then
\* reads without a timeout until there is nothing left, and sleeps again.
Select ==
    /\ HasWakeFd
    /\ rd = "out"
    /\ Usable
    /\ rd' = "select"
    /\ UNCHANGED <<plugged, xfer, state, pending, stopping, mu, waiters, used,
                   pipe, cb, ctl>>

SelectReady ==
    /\ rd = "select"
    /\ pipe
    /\ pipe' = FALSE
    /\ rd' = "drain"
    /\ UNCHANGED <<plugged, xfer, state, pending, stopping, mu, waiters, used,
                   cb, ctl>>

ReadDrain ==
    /\ rd = "drain"
    /\ mu = "free"
    /\ ReadReturn("out", "drain")
    /\ UNCHANGED <<plugged, xfer, state, pending, stopping, mu, waiters, pipe,
                   cb, ctl>>

-----------------------------------------------------------------------------
Callback == CbCancelled \/ CbTestStopping \/ CbPush \/ CbWake \/ CbCheck
            \/ CbResubmit \/ CbFailed \/ CbWakeSelect

Control == Open \/ OpenNoMemory \/ Submit \/ OpenFail \/ Cancel \/ AwaitCancels
           \/ Restart \/ RestartFail \/ WakeSelect \/ OpenRelease \/ Flush
           \/ Close \/ Free

Reader == ReadBlocking \/ ReadWoken \/ ReadTimeout \/ Select \/ SelectReady
          \/ ReadDrain

Next == \/ Unplug
        \/ \E u \in URB : Dispatch(u)
        \/ Callback
        \/ Control
        \/ Reader

Spec == Init /\ [][Next]_vars

(***************************************************************************)
(* Fairness.  The event thread loops until the stream releases it, so a    *)
(* callback that can take a step does; it may find the mutex taken again   *)
(* and again, and gets it in the end (SF).  libusb reports every cancelled *)
(* transfer, and every transfer once the device is gone, whatever else it  *)
(* reports (SF: it reports one at a time).  A thread inside usbq_stream_*  *)
(* keeps running (WF), but nobody has to call anything.                    *)
(***************************************************************************)
InCall == ctl.at \notin {"closed", "up", "gone"}

Fairness ==
    /\ SF_vars(Callback)
    /\ \A u \in URB : SF_vars(Dispatch(u) /\ (xfer[u] = "cancelling" \/ ~plugged))
    /\ WF_vars(InCall /\ Control)
    /\ SF_vars(ReadWoken)
    /\ SF_vars(ReadDrain)
    /\ WF_vars(SelectReady)

FairSpec == Spec /\ Fairness

-----------------------------------------------------------------------------
(***************************************************************************)
(* Safety.                                                                 *)
(***************************************************************************)
Cancelling == {u \in URB : xfer[u] = "cancelling"}

CancelInCallback == IF cb.at = "cancelled" THEN 1 ELSE 0

\* s->pending_cancel counts exactly the cancellations that libusb accepted and
\* has not reported, whatever callbacks run between the cancel loop's turns
\* (usbq.c: cancel loops of open, restart and close; CANCELLED branch).
PendingExact == pending = Cardinality(Cancelling) + CancelInCallback

\* No transfer with an accepted, unreported cancellation outlives the wait:
\* restart never resubmits one, close and a failing open never free one.
WaitDrainsCancels ==
    ctl.at \notin {"cancel", "wait"} => Cancelling = {} /\ cb.at # "cancelled"

\* While a stream reports itself healthy and no call is changing the pool,
\* every URB is in flight or held by a callback that will resubmit it: the
\* pool loses none, over errors, restarts and interleavings of the two.
PoolComplete ==
    ctl.at = "up" /\ ~stopping =>
        \A u \in URB :
            /\ state[u] = 0
            /\ \/ xfer[u] = "flight"
               \/ cb.u = u /\ cb.at # "idle"

\* A consumer that went back to select() with the pipe empty is not owed a
\* wake-up: data in the ring, or a dead stream, has made the pipe readable or
\* has a write to it on the way (stream_wake_select's comment).
SelectNotStranded ==
    rd = "select" /\ ~pipe /\ (used > 0 \/ stopping) =>
        \/ cb.at \in {"wake", "wakeselect"}
        \/ ctl.at = "wakeselect"

\* A consumer asleep in usbq_stream_read is owed nothing: the ring is empty
\* and the stream is not stopping, or it has been signalled.
ReaderNotStranded ==
    rd = "wait" /\ "reader" \in waiters => used = 0 /\ ~stopping

\* -ENODEV is for a dead device: a stream that was opened and is not being
\* closed stops only if the device is gone or libusb refused a submission.
StopsOnlyWhenDead ==
    Usable /\ stopping => ~plugged \/ SubmitFaults

\* close frees transfers nothing will use again: none is in flight and no
\* callback of the stream is still running.
FreesIdlePool ==
    ctl.at = "gone" =>
        /\ cb.at = "idle"
        /\ \A u \in URB : xfer[u] = "idle"

-----------------------------------------------------------------------------
(***************************************************************************)
(* Liveness.                                                               *)
(***************************************************************************)
\* open, restart and close return: the wait for cancellations ends, also when
\* the device is pulled in the middle of it.
CallsReturn == InCall ~> ~InCall

\* An unplug surfaces by itself: with nobody cancelling anything, the stream
\* ends up stopping and its consumer awake without a deadline, or in a call.
UnplugStopsStream ==
    ~plugged /\ ctl.at = "up" ~>
        \/ stopping /\ rd \notin {"wait", "select"}
        \/ ctl.at # "up"
=============================================================================
