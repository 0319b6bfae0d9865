# A TLA+ model of dvb-libusb

dvb-libusb drives DVB tuners from user space: Linux chip drivers, fetched at
build time and compiled against a small kernel API, run over libusb.  This
directory holds TLA+ models of its threads, its bridges and its engines, the TLC
configurations that check them on small instances, and TLAPS proofs for every
value of the constants.  Paths below are relative to `src/`.

    tlc -workers 2 -config UsbqStream_stream.cfg UsbqStream   # one run
    tlapm UsbqStreamProofs.tla                                # one proof module

`PROJECT.json` lists the runs, the source lines behind every definition, the
hazards, and the disagreements between code and documentation.

## The system

| component | state | operations | properties that make it correct | module |
|---|---|---|---|---|
| **usbq stream** (`usbq/src/usbq.c`) | URB pool with cancel marks, `pending_cancel`, `stopping`, mutex and condition variable, wake fd | `usbq_stream_open/read/flush/restart/close`; `stream_xfer_cb` on the event thread | cancellations are counted exactly and drained before memory is freed or resubmitted; no URB is lost; a reader with something to read is woken; an unplug surfaces; calls return | `UsbqStream` |
| **ring buffer** (same file) | bytes, `ring_head`, `ring_tail`, `ring_used`, `overflow_bytes` | `ring_push_locked`, the copying half of read, flush | bytes come out in order, the newest are kept, every byte is accounted for | `RingBuffer`, `ByteFifo` |
| **context and event thread** (same file) | `g_ctx`, `g_init_refcount`, `g_evt` | `usbq_init/shutdown`, `usbq_evt_acquire/release`, `evt_thread_main` | one event thread, alive while someone holds it, never outliving the context; release returns | `UsbqRuntime` |
| **hotplug** (`dvb_hotplug/`) | `g_hp`: initialized, wake fd, queue of 64 events | init, pop, shutdown; `hotplug_cb` on two threads | no wake-up is lost, the consumer's picture of the bus is right, shutdown stops delivery | `Hotplug` |
| **engines** (`bridges/*/dvb/src/dvb_*.c`) | registry of devices; per frontend clients, init flags, capture flag, stream, pipe | open (one device, or all), tune, read, status, capture_stop, shutdown | what is handed out stays usable; a failing open releases what it took, once; a tune that returns 0 has tuned; streaming follows capture | `Em28xxEngine`, `Em28xxBus`, `Dvbsky`, `Dib0700` |
| **bridges** (`bridges/*/bridge/`) | register file and i2c engine; command buffers; `channel_state`; firmware | register access, i2c adapter, TS enable, stream switch, firmware, GPIO | frontends sharing a register or a bus do not undo each other; a command gets its own response; a register read returns its register | `Em28xxBus`, `Dvbsky`, `Dib0700` |
| **linuxdvbkpi** i2c, mux, regmap (`linuxdvbkpi/src/`) | clients, mux cores, regmaps | new and unregister client, mux select/transfer/deselect, regmap access | a tuner is reached through its own gate only, which is closed afterwards | as steps of the bridge modules |
| **board tables** (`bridges/*/dvb/src/boards.c`) | constant tables | attach demod and tuner | a failing attach leaves no client behind | as steps of the bring-ups |
| **dvb_pid_dump** (`tools/`) | staging buffer, lock, counters | discover, tune, dump | the framer resynchronises, frames no byte twice, counts a loss once | `TsFramer` |

### How they interact

An engine's open takes the libusb context (`usbq_init`), opens and claims the
device, runs the bridge's register sequence, lets the board attach the chips
through linuxdvbkpi's i2c (whose adapters call the bridge, which calls usbq's
synchronous transfers), and opens one stream per frontend.  The first stream
starts the event thread; completions push into the ring and write a byte to the
frontend's pipe, on which the consumer sleeps.  Tune goes to the chip drivers,
flushes the stream and toggles the bridge's TS enable; dib0700 also restarts the
stream, dvbsky restarts the bridge's FIFO when the demod locks.  Hotplug shares
the context and the event thread with the engines.  `dvb_pid_dump` is a consumer
of one frontend.

The modules meet at the calls they share.  `UsbqStream` is the stream that the
engines' modules open, restart and close in one step; `RingBuffer` refines its
fill count to bytes and is what `TsFramer` reads from, with gaps where the ring
dropped bytes; `UsbqRuntime` is the event thread that `UsbqStream` and `Hotplug`
assume: whether somebody else holds it too is the constant `EvtShared` in the
former and changes as streams come and go in the latter; `Em28xxEngine` treats
as one step the calls that `Em28xxBus` takes apart into transfers.

### What is hard here

* **Three threads on one stream.** The callback decides to resubmit under the
  mutex and submits after it; restart and close cancel in between.
* **The mutex protects too little.** The wake fds of stream and hotplug are read
  under a lock and written after it; the last release joins the event thread
  after its unlock.
* **Waiting for libusb.** open, restart and close sleep until every accepted
  cancellation has been reported; a wrong count is a hang.
* **Disappearing hardware**, in the middle of any of it, with nobody polling:
  the death of a stream must be noticed by a resubmission that fails.
* **One bus, one register, several users.** Two frontends share an i2c bus, a
  status register and a capture register; a register read is two messages; a
  response says nothing about the command it answers.
* **A transfer that fails may have worked.** The host's shadows of device state
  (`cur_i2c_bus`, `capture_on`, `channel_state`, `last_lock`) must stay right
  over refused and lost transfers, and over a process that dies.
* **Boundaries**: the ring's wrap and overflow, a full hotplug queue, the
  caller's array of handles, a staging buffer with no room.
* **Partial failure** in the long bring-up sequences of the engines.

`PROJECT.json` "hazards" lists these at their lines with the properties that
cover them, and says where a property covers a hazard under a condition only.

## The modules

### UsbqStream

One stream, its event thread, the thread that controls it, and one consumer,
which either blocks in `usbq_stream_read` or selects on the wake pipe.

*State.* `xfer[u]` is libusb's view of a transfer (idle, in flight, in flight
with its cancel accepted); `state`, `pending`, `stopping` are the fields
`urb_slot.state`, `pending_cancel`, `stopping`; `waiters` the threads asleep on
`s->cv`; `used` is the ring's fill in completions; `pipe` says whether the wake
pipe is readable; `cb`, `ctl`, `rd` are the program counters of the callback,
of the controlling thread and of the consumer.

*Steps* are as fine as the locking.  A critical section is one step; what the
callback does between two (the unlocked test of `stopping`, the decision to
resubmit and the resubmission, the wake after the unlock) is a step each:
`CbTestStopping`, `CbPush`, `CbWake`, `CbCheck`, `CbResubmit`, `CbFailed`,
`CbWakeSelect`.  The cancel loops of open, restart and close hold the mutex for
several steps, because libusb completes transfers in the meantime: `Cancel` is
one turn, `AwaitCancels` the `while (pending_cancel > 0)` that all three share.
A waiter leaves `waiters` when signalled and tests its condition again when it
gets the mutex.  Spurious wake-ups of `pthread_cond_wait` are not modelled: they
only make a thread test its condition earlier.

*External*: libusb, whose `SubmitAccepted`, `SubmitRefused` and `Dispatch` say
what `usbq.c` relies on.  A transfer is not in flight while its callback runs,
callbacks run one at a time, submitting a transfer that is not idle is refused,
cancelling one that is not in flight gives NOT_FOUND, and an accepted cancel is
reported as CANCELLED.

### RingBuffer, ByteFifo

`RingBuffer` is the byte arithmetic that `UsbqStream` leaves out: `Push` with
both overflow cases and the two `memcpy`s, `Read`, `Flush`.  A byte is its
position in the device's output, so a lost, repeated or misplaced byte differs
from the right one.  `ByteFifo` says what a reader is promised: a bounded queue
that discards its oldest bytes.  `RingBuffer` refines it with the queue mapped
to `Contents`.

### UsbqRuntime

`g_ctx` with its counter and `g_evt` with its thread, and any number of users
(engines, hotplug).  `Acquire` and the part of `usbq_evt_release` under the lock
are single steps; `CallJoin`, `Joined` and `Relock` are the part after it.  The
event thread is `TestStop` and `Poll`.  A new thread takes any free identity, so
`tid` can be overwritten as in the code.

### Hotplug

The owner that calls init and shutdown, `hotplug_cb` in two contexts (the event
thread, and the owner's thread while libusb enumerates), and the consumer.
`Enqueue` is the critical section of `enqueue_and_wake`, `WriteWake` the write
that follows it.  All failures of init are there: `InitNoUsb` leaves the wake fd
set as the code does, the others forget it, and one that comes after the event
thread was acquired releases it first (`InitUndo`).  Devices come and go at any
time, also while init enumerates.  `shared` says that a stream holds the event
thread as well: the thread then runs before init and after shutdown, nobody
joins it, and a callback of one life of the module can reach into the next.

`excused` is a history variable.  It is set by the three things after which the
code does not repair the consumer's picture, and cleared by the next init: an
event dropped from a full queue, a device that left after libusb had found it
present and before init's own thread had queued that (`Unreported`), and a
callback that outlived a shutdown and queued into the next life
(`OfEarlierLife`).

### Em28xxEngine

The life of the em28xx engine's devices: `dvb_em28xx_discover_all`, `_open` and
`_open_by_addr` with the slots of the caller's array, bring-up with a failure at
every step of the device and of each frontend, unwinding, shutdown.  What exists
(`live`) is kept apart from what the C struct points to (`held`), and `leaked`
and `misused` record what a device leaves behind and what is used after its
release.  `frontend_teardown` is six steps in the order of `Part`; the same
steps serve the three loops that call it, told apart by `ctl.why`.  Devices are
bus addresses, and those of equal remainder modulo `VidPids` have the same
vid:pid: discovery opens libusb's first match of each entry of the board table,
so a second stick of one kind is reached only by its address (`dvb_em28xx.h`
speaks of every device plugged in).  A consumer's call is one step: consumers
have stopped before shutdown (`dvb_em28xx.h`).  Their tunes and stops, and the
teardown, write the capture register through `CaptureStart`, whose transfers are
done, refused, or lost (they take effect and are reported as failed).  `capture`
follows the result in tune and stop; `frontend_teardown` clears it whatever the
result (`dvb_em28xx.c:308-311`), so that a device may stream on after it was
closed.  `doubt` is a history variable, the frontends whose last capture_start
failed; the GPIO sequence of a bring-up and an unplug settle it.  `Faulty` names
the frontends whose own bring-up may fail; a device is not pulled while another
of its frontends comes up, which would be the same failure.

The dib0700 and dvbsky engines repeat `open_device_from_usb`, the discovery
loop and the registry of this one; their modules model what differs.

### Em28xxBus

Two frontends on one em28xx bridge, one USB control transfer per step, each
*done*, *refused* (no effect) or *lost* (it takes effect and is reported as
failed).  `BringUp` are the writes of `open_device_from_usb`, `GpioSet` and the
second TS path; a process may end anywhere and the next one finds the device as
it is (`Forget`).  A call (`tune`, `get_status`, `capture_stop`) goes through
its `Stages`: a message to the demod, the mux's select, the tuner's message, the
deselect.  Each message is the bus switch (`BusRead`, `BusWrite`, skipped when
`cur_i2c_bus` says so), the request, and the polls of the one status register
(`Poll`); the bridge answers on its own time (`Answer`), and a request that
timed out may still be answered, until the next one takes its place: that a new
request resets the status register is an assumption about the chip.
`PacketSize`, `TsRead`, `TsWrite` are the capture's read-modify-write.  `holder`
is the `bridge_lock` that `dvb_handle.h` asks of callers; the bridge itself has
none.

### Dvbsky

Commands and responses on the two bulk endpoints, the stream switch and the
engine above.  A call is the sequence of what is left to do of it (`Opening`,
`Tuning`, `Polling`, `Stopping`, `Closing`), each item a command under
`ctrl_lock`, a stop/start of the stream, or a local step.  A response may come
at once, after the host has given up, or never.  Two threads: one tunes, opens
and closes, the other polls.  `callersLock` says whether they take
`bridge_lock`; it is chosen in the initial state, so one run checks both.  What
the code does not promise, and the properties exempt: after a response was left
behind every later one is read by the wrong command, for nothing drains the
endpoint (`stale`); bring-up does not stop a stream that an earlier process left
on, and the result of the restart on a lock edge is ignored
(`dvb_dvbsky.c:175`; `doubt`); without `bridge_lock` a poll can restart the
stream that a `capture_stop` has just halted, or miss a lock edge.

### Dib0700

Cold boot (`IsCold`, `Record`, `Jump`), version, register access of the chips as
messages under `ctrl_lock` with the chip's one register pointer, the vendor
transfers, `channel_state`, and the engine: tune with its stream restart, status
poll, capture_stop, teardown.  The process may end anywhere (`EndProcess`); the
device keeps its state until `PowerCycle`.

The firmware that a boot starts is of either age: `reports` is what it answers
to the version query, "old" for one before 1.20.1, and `fwVersion` is what the
host has read, `None` when the query failed.  `set_usb_xfer_len` sends the
transfer length only to a version of 1.20.1 or later, so it is left out both for
an old firmware, which has no such request, and for one whose version is unknown
(`Switch`).

### TsFramer

`main` of `dvb_pid_dump` from its arguments to its exit code.  A byte is its
position; the tool's ring drops bytes between two reads, so positions jump.
Payload bytes in `Fakes` may carry the sync value, as they do in a real stream.
`Acquire` looks for two sync values a packet apart, the frame loop goes on
packet by packet and looks again or gives up the lock; what is left is moved to
the front.  The PID filter is a choice per packet.

### Proof modules

Eight modules hold the theorems: `UsbqStreamProofs`, `UsbqBaseProofs` (about
`RingBuffer` and `UsbqRuntime`), `HotplugProofs`, `Em28xxEngineProofs`,
`Em28xxBusProofs`, `DvbskyProofs`, `Dib0700Proofs`, `TsFramerProofs`.

## The runs

| run | checks | instance |
|---|---|---|
| `stream` | a blocked reader is woken (`ReaderNotStranded`); a stream dies only with its device and always does (`StopsOnlyWhenDead`, `UnplugStopsStream`) | 3 URBs, ring of 2, wake fd, no restart, submissions refused only when libusb must |
| `restart` | cancellations counted and drained (`PendingExact`, `WaitDrainsCancels`), no URB lost (`PoolComplete`), selecting readers woken (`SelectNotStranded`), calls return (`CallsReturn`) | 2 URBs, ring of 2, restarts, arbitrary refusals |
| `ring` | `BytesConserved`, and the refinement `ImplementsFifo` | capacity 3, transfers and reads of 1..5 bytes, 12 bytes in all |
| `runtime` | `Singleton`, `ContextInUse`, `ReleaseReturns` | 3 users, 2 thread identities, acquire and release one after another |
| `hotplug` | `ViewCoherent`, `ShutdownStopsWrites`, `ConsumerConverges`, `ShutdownReturns` | 3 devices, one unsupported, queue of 2, 2 messages under way, devices and a stream that come and go at any time |
| `engine` | `ReleasedInOrder`, `HandlesBacked`, `NoUseAfterRelease`, `OthersLeaveNothing`, `CaptureMatches` | 2 devices of 2 kinds with 2 frontends each, of which the first may fail anywhere; 4 slots; 1 frontend at a time whose capture_start failed |
| `bus` | `TuneMeansTuned`, `CaptureMatchesRegister`, `GatesClosed`, `ShadowTrue` | 2 frontends, 2 channels, 2 faults |
| `dvbsky` | `AnswersPaired`, `StreamMatchesCapture`, `LockRestartsFifo`, `CallsReturn`, and types | 2 threads, 2 faults, with and without `bridge_lock` |
| `dib0700` | `WholeFirmwareRuns`, `ReadsItsRegister`, `StreamMatchesCapture`, `EnabledOnFreshUrbs`, `LengthBeforeStream` | 3 firmware records, 2 threads, 4 faults, old and new firmware |
| `framer` | `RoomToRead`, `BytesInOrder`, `BadSyncPerGap`, `LossBounded` | packets of 3, reads of up to 5, 22 bytes, 2 gaps, 3 false sync bytes |
| `close_race`, `engine_second_fails` | one property each, violated: see *Disagreements* | 2 URBs; 1 device of 2 frontends |

**Why the bounds suffice.**  Two URBs are what it takes for one to be in a
callback while the other is being cancelled or submitted, and for a loop to fail
in the middle; three let one callback run while two cancels are outstanding. A
ring of two units has empty, partial and full.  In the ring run the transfer may
be shorter than, equal to and longer than the ring, and twelve bytes wrap it
four times.  Two thread identities show a second thread; a third adds nothing,
since one already violates `Singleton`.  The hotplug queue of two drops events
with three devices; `MaxMessages` limits what is under way, not what happens
over time, as devices come and go for ever.  Two frontends give every teardown
loop an earlier and a later one; two devices give the registry an order, an
array with an offset, and let one be opened while the other streams. `MaxDoubt`
limits the frontends whose last capture_start failed at one time, not how often
one fails: one is enough for a device to stream on after its close, be opened
again and come up quiet, while another is open; two frontends in doubt do not
meet, for each has bits of its own in the register.  `MaxOpens` limits the calls
that raise `g_init_refcount` without ever lowering it.  `MaxFaults` is what a
run may have of failed transfers in all: two make a failure meet the failure of
what should repair it, and `dib0700` has four since its long bring-up may be
tried several times before the stream is used. Packets of three bytes with three
false sync bytes, two of them a packet apart and one alone, give the false
acquisitions there are: by a pair in the payload, and by a sync value before an
overflow and one after it.

**Deadlock** is checked except in `UsbqStream` and `TsFramer`, where a stream
that was closed or failed to open, or a tool that has exited, is finished.

**Fairness.**  The event thread loops as long as it is held, so its steps are
fair; a thread inside a call goes on, and nobody is ever obliged to make a call.
Strong fairness stands where a thread must get a mutex that others take again
and again (callbacks, woken readers, the threads of `Dvbsky`), and where libusb
reports one transfer at a time but reports each in the end.  A healthy device
owes no data: `Dispatch` is fair only for cancelled transfers and for a device
that is gone.  A consumer that was woken pops or reads what there is; a deadline
may pass at any time, so no property counts on one.

**What the passing runs take for granted.**  In `runtime`, users do not overlap
inside `usbq_evt_acquire/release` (`Overlap = FALSE`), as when one application
thread opens and closes, and in `hotplug` these calls do not overlap either; in
`stream`, nobody restarts; in `engine`, the second frontend comes up (`Faulty =
{0}`, which also covers boards of one frontend); in `bus`, callers take
`bridge_lock`.  A frontend that fails leaves its pipe and clients behind in the
`engine` run too: `OthersLeaveNothing` says that nothing else is left.

## Disagreements between code and documentation

Two runs check a statement of the repository that the code does not keep:

* `close_race`: close takes NOT_FOUND to mean that no callback will fire
  (`usbq.c:550`, `usbq.c:631-633`).  It also means that the callback is running,
  and close then frees the stream under it.
* `engine_second_fails`: when the second frontend fails to open, the first is
  torn down twice, with its client pointers still set (`dvb_em28xx.c:392,411`),
  though the comment promises a clean-up of everything allocated.

Others show when a constant of a passing run is changed:

* `MayRestart = TRUE` in `stream`: for the reason of `close_race`, restart and a
  callback may both submit a URB; the second is refused and a healthy stream
  reports `-ENODEV` (`StopsOnlyWhenDead`).
* `Overlap = TRUE` in `runtime`: an acquire between the last release's unlock and
  its join starts a second event thread (`usbq.c:339`; `Singleton`), though the
  head comment calls it a singleton.

Others are what the properties of passing runs name as exceptions, and fail when
the exception is taken out:

* With a stream open, a callback may write to the wake fd after
  `dvb_hotplug_shutdown` has returned (`dvb_hotplug.c:112-115,252`;
  `~shared` in `ShutdownStopsWrites`), and may put an event of the old life into
  the queue that the next init has emptied (`dvb_hotplug.c:101-113,163`;
  `excused` in `ViewCoherent`).
* A device that leaves while init enumerates can be queued as left, then as
  arrived, and stays in the consumer's picture, although the comment promises a
  coherent initial state (`dvb_hotplug.c:192-195`; `excused`).
* `frontend_teardown` does not look at the result of `em28xx_capture_start`: a
  device that refused the write streams on after it was closed
  (`dvb_em28xx.c:308-311`; `doubt` in `CaptureMatches`).
* A dib0700 whose version query failed is never told the transfer length
  (`dib0700_stream.c:32-34`; `fwVersion # None` in `LengthBeforeStream`).

## What is proved

Each argument is one inductive invariant; TLC checked it before it was proved.
The theorems hold for every value of the constants that the module's assumption
admits; a theorem that needs more states it as its own ASSUME.

* **Stream, cancellation** (`UsbqStreamProofs`): `TypeCorrect`, `PendingIsExact`,
  `WaitDrainsAllCancels`.  The count alone is not inductive: the cancel of URB
  `i` must find the earlier ones untouched and a CANCELLED callback must find a
  positive count.  The strengthening (`CancelInv`) adds where cancels can exist
  at all and what marks and loop index say about each other; the counting steps
  rest on lemmas about the cardinality of the set of cancelling URBs.
  `PoolStaysComplete` follows the submit loops: URBs below the loop index are in
  flight or in the hands of the callback, and none keeps a mark once restart has
  cleared them.
* **Stream, readers** (same module): `NobodyStrandedInSelect` from what a
  callback still owes a reader at each of its steps; `NobodyStrandedInRead` and
  `DeathIsReal` for streams that nobody restarts, the latter from the fact that
  every URB is in one place only.
* **Ring** (`UsbqBaseProofs`): the indices, the contents and the account form
  one induction; the contents are a run of consecutive positions, so every step
  of the ring is a step of `ByteFifo` (`RingImplementsFifo`).
* **Runtime** (same module): `CountsExact` without assumption;
  `OneEventThread` and `ContextOutlives` for users that do not overlap, from
  where the event thread is at each step of the one call under way.
* **Hotplug** (`HotplugProofs`): `NoWriteAfterShutdown` from who may be in a
  callback while nobody holds the event thread; `ViewIsCoherent` from an order
  of news about one device: a message under way is newer than the callback that
  runs, that than the queue, that than the consumer's picture, and the newest
  says what is on the bus.  Neither has an assumption beyond the constants'
  types: streams, failing inits and devices that move during init are all in,
  and what the property excuses is what ends the order of news.
* **Engine** (`Em28xxEngineProofs`): at any time at most one device is neither
  closed nor registered, the one in the hands of the thread (`OwnInv`); what it
  has follows from the thread's place while it comes up (`RaiseInv`), and from
  what the loop has still ahead while it is torn down (`TearInv`).
  `NothingOutlivesItsBase`, `OnlyTheFailedLeak`, `CaptureIsAccountedFor` and
  `HandlesStayGood` hold for any set of failing frontends, the third of them
  with any capture transfer refused or lost;
  `NothingReleasedTwice` for `Faulty \subseteq {0}`, which is also where it ends.
* **Bus** (`Em28xxBusProofs`): `BusInv` says at every step of a call what the
  transfers so far have left in bridge and chips, and what a late answer can
  still do.  `TuneTunes`, `CaptureIsRegister`, `GatesAreClosed`, `ShadowIsTrue`
  hold for any number of frontends and of failures.
* **DVBSky** (`DvbskyProofs`): a call is where its first remaining step is, and
  `After` what may follow it.  `AnswersArePaired` needs who is inside a command
  to be who holds `ctrl_lock` (`Locked`) and no answer to be left when the next
  command is written (`Paired`).  `StreamFollowsCapture` and `LockRestarts` need
  that `bridge_lock` keeps the two threads apart (`Alone`); then the switch is
  done before the flag that follows it (`Streams`), an answered poll carries a
  lock that the demod still has (`Polls`), and a lock that was noted is one the
  FIFO was restarted on, or one whose loss no poll has told yet (`Follows`).
  `AnswersArePaired` holds whether or not callers take `bridge_lock`; all hold for any
  number of failures.
* **dib0700** (`Dib0700Proofs`): what the tuner's call has still to do decides
  what bridge and engine must agree on now.  `ReadsItsRegister` needs who is
  inside a transfer to be who holds `ctrl_lock`; the rest (`Plan`) ties the
  remaining steps to the state: records still to come to `ram` (`Loads`), a
  switch in front of a flag to `mask` and `channels` (`Streams`), a restart
  ahead to old URBs (`Fresh`), the length still to be sent to `xferLen` (`Told`).
  `LengthFirst` also needs what the host knows of the firmware (`Knows`): a
  version it has read is the one that runs, and an old firmware was never sent
  the length.
  Each holds for any number of records and of failures, and every planned call
  is shown to be in order however it was put together.
* **Framer** (`TsFramerProofs`): `AlwaysRoom` from what each step leaves in the
  staging buffer, `FramedInOrder` from the positions in it growing strictly and
  lying beyond what was framed.  `LossesAreCountedOnce` and `LossesAreBounded`
  are an accounting (`LossInv`) over the breaks between the bytes that are
  staged.  A tool that is locked off the packet grid owes one loss, and each
  break and each pair of false sync values ahead can make for one more: counted,
  owed and ahead together never exceed the overflows and pairs so far
  (`Balance`).  For the bytes thrown away each of them is worth three packets:
  what is passed without coming upon a start is paid by the breaks left behind
  (`Segments`), and what the tool may still have to skip depends on whether it is
  on the grid, off it or searching (`Budget`).  Both hold for every packet size,
  read size, pattern of overflows and finite set of false sync values.

The bound of `LossBounded` is the work of its proof.  Two packets for each loss,
as one would guess from the `2 * PacketSize` that `main` keeps, hold in small
instances, and the step that should have proved them does not: a sync value
before an overflow and one after it can be a packet apart by chance, the tool
locks on to them and only finds out a packet later.  TLC then found the run (no
pair in the payload, reads of up to ten bytes), and the bound is three.

Only model-checked: the liveness properties (`UnplugStopsStream`, `CallsReturn`,
`ReleaseReturns`, `ConsumerConverges`, `ShutdownReturns`), for the prover does
not reason about fairness.

## Not modelled

* Chip drivers are fetched from the kernel and not part of the repository; in
  the bridge modules a chip is what it is set to.
* The firmware loader only searches files along a path; `dvb_devices` only
  prints; the kpi headers are types and one-line shims; `scan_present`,
  `supported_boards` and `read_ts` change nothing of an engine.
* Of several boards of one bridge the first of the table is modelled: the others
  differ in chip configuration data and in the length of GPIO sequences.
* The list of i2c drivers is filled by constructors before `main` and constant
  afterwards.
* usbq's reset, string descriptors and alternate settings are single libusb
  calls.
* Memory ordering below the level of pthreads (the unlocked read of
  `s->stopping`, the volatile stop flag) is modelled as a read of the current
  value at some moment of the step order.

## What could come next

* `StreamMatchesCapture` over several frontends of one dib0700 stick, once the
  board table has such a board.
