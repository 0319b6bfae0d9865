----------------------------- MODULE Em28xxEngine ----------------------------
(***************************************************************************)
(* The life of devices in the em28xx engine                                *)
(* (src/bridges/em28xx/dvb/src/dvb_em28xx.c): bring-up of a device and its *)
(* frontends with a failure at every step, the unwinding of a failed       *)
(* bring-up, shutdown, and the calls on frontends in between.              *)
(*                                                                         *)
(* A resource is something that has to be given back: of each frontend the *)
(* wake pipe, the demod and tuner clients, the stream and the name.  What  *)
(* is really there ([live]) is kept apart from what the C struct points to *)
(* ([held]), for these differ when a pointer is lost or goes stale.        *)
(*                                                                         *)
(* One thread brings devices up and shuts the engine down.  Consumers tune *)
(* meanwhile and have stopped before shutdown (dvb_em28xx.h); each of      *)
(* their calls is one step here.                                           *)
(***************************************************************************)
EXTENDS Integers, Sequences, FiniteSets

CONSTANTS Devices,        \* devices, by bus address
          VidPids,        \* how many vid:pids em28xx_board_table has
          NumFrontends,   \* board->num_frontends
          MaxHandles,     \* the caller's max
          Faulty,         \* frontends whose own bring-up may fail
          MaxDoubt        \* bound: frontends in doubt at a time

Frontend == 0..(NumFrontends - 1)

ASSUME EngineAssumption ==
    /\ Devices \subseteq Nat
    /\ VidPids \in Nat \ {0}
    /\ NumFrontends \in Nat \ {0}
    /\ MaxHandles \in Nat
    /\ Faulty \subseteq Frontend
    /\ MaxDoubt \in Nat
    /\ Devices # {}

VARIABLES
    plugged,   \* devices on the bus
    usb,       \* devices open and claimed, each with a dvb_em28xx_dev_t
    bridge,    \* devices whose dev->bridge is there
    live,      \* resources that exist, of each device
    held,      \* resources the device's struct points to
    awake,     \* chips with demod_init_done or tuner_init_done
    count,     \* dev->frontend_count
    capture,   \* frontends with capture_on
    tsEnable,  \* frontends the bridge forwards (register 0x5f)
    doubt,     \* frontends whose last capture_start failed
    registry,  \* g_devices
    ctl,       \* where the opening or closing thread is
    failed,    \* frontends whose own bring-up has failed
    leaked,    \* resources left behind when their device was freed
    misused    \* resources used or released after their release

vars == <<plugged, usb, bridge, live, held, awake, count, capture, tsEnable,
          doubt, registry, ctl, failed, leaked, misused>>

-----------------------------------------------------------------------------
Kind == {"pipe", "demod", "tuner", "stream", "name"}

Resource == Kind \X Frontend

\* A client without a driver, which no struct ever points to.
AnyResource == Resource \union ({"ghost"} \X Frontend)

\* The order of frontend_teardown.
PipeFirst  == <<"capture", "pipe", "stream", "sleep", "tuner", "demod">> \* mutant
SleepLast  == <<"capture", "stream", "tuner", "demod", "pipe", "sleep">> \* mutant
Part == <<"capture", "stream", "sleep", "tuner", "demod", "pipe">>

Steps == {"idle", "bridge", "setup", "pipe", "attach", "demodInit", "tunerInit",
          "stream", "publish", "teardown", "close", "next", "table", "addr"}

(***************************************************************************)
(* [ctl.why] is the loop a teardown belongs to: the one inside the loop    *)
(* over frontends, the one at the label fail, or the one of shutdown;      *)
(* [ctl.hi] is that loop's bound and [ctl.part] the step of                *)
(* frontend_teardown.  [ctl.todo] are the vid:pids a call still tries and   *)
(* [ctl.handles] what it has put into the caller's array.                  *)
(***************************************************************************)
Ctl == [at : Steps, dev : Devices, fn : 0..NumFrontends, hi : 0..NumFrontends,
        part : 1..Len(Part), why : {"none", "unwind", "fail", "shutdown"},
        todo : Seq(Nat), handles : Seq(Devices \X Frontend)]

TypeOK ==
    /\ plugged \in SUBSET Devices
    /\ usb \in SUBSET Devices
    /\ bridge \in SUBSET Devices
    /\ live \in [Devices -> SUBSET AnyResource]
    /\ held \in [Devices -> SUBSET Resource]
    /\ awake \in [Devices -> SUBSET ({"demod", "tuner"} \X Frontend)]
    /\ count \in [Devices -> 0..NumFrontends]
    /\ capture \in [Devices -> SUBSET Frontend]
    /\ tsEnable \in [Devices -> SUBSET Frontend]
    /\ doubt \in SUBSET (Devices \X Frontend)
    /\ registry \in Seq(Devices)
    /\ ctl \in Ctl
    /\ failed \in SUBSET (Devices \X Frontend)
    /\ leaked \in SUBSET (Devices \X AnyResource)
    /\ misused \in SUBSET (Devices \X Resource)

Init ==
    /\ plugged = Devices
    /\ usb = {}
    /\ bridge = {}
    /\ live = [d \in Devices |-> {}]
    /\ held = [d \in Devices |-> {}]
    /\ awake = [d \in Devices |-> {}]
    /\ count = [d \in Devices |-> 0]
    /\ capture = [d \in Devices |-> {}]
    /\ tsEnable = [d \in Devices |-> {}]
    /\ doubt = {}
    /\ registry = <<>>
    /\ ctl = [at |-> "idle", dev |-> CHOOSE d \in Devices : TRUE, fn |-> 0,
              hi |-> 0, part |-> 1, why |-> "none", todo |-> <<>>,
              handles |-> <<>>]
    /\ failed = {}
    /\ leaked = {}
    /\ misused = {}

Registered == {registry[i] : i \in 1..Len(registry)}

dev == ctl.dev
fn  == ctl.fn

Goto(step) == ctl' = [ctl EXCEPT !.at = step]

\* The struct gets hold of a resource.
Obtain(rs) ==
    /\ live' = [live EXCEPT ![dev] = @ \union rs]
    /\ held' = [held EXCEPT ![dev] = @ \union rs]

-----------------------------------------------------------------------------
(***************************************************************************)
(* em28xx_capture_start: transfers that are done, or refused before they   *)
(* change register 0x5f, or that change it and whose answer is lost.  A    *)
(* device that is gone refuses.  [doubt] is a history variable; its bound  *)
(* limits the failures while the device is there.                          *)
(***************************************************************************)
Outcome == {"done", "refused", "lost"}

Bits(d, f, enable) == IF enable THEN tsEnable[d] \union {f}
                      ELSE tsEnable[d] \ {f}

CaptureStart(d, f, enable, out) ==
    /\ d \notin plugged => out = "refused"
    /\ tsEnable' = IF out = "refused" THEN tsEnable
                   ELSE [tsEnable EXCEPT ![d] = Bits(d, f, enable)]
    /\ doubt' = IF out = "done" THEN doubt \ {<<d, f>>}
                ELSE doubt \union ({<<d, f>>} \intersect (plugged \X Frontend))
    /\ out # "done" => Cardinality(doubt') <= MaxDoubt

\* What failed earlier says nothing any more of this device's register.
Settle(d) == doubt' = doubt \ ({d} \X Frontend)

-----------------------------------------------------------------------------
(***************************************************************************)
(* The bus.  An unplugged device loses its registers; its address is used  *)
(* again only when nobody holds the old handle.  Frontends that are not    *)
(* faulty come up, so their device stays meanwhile.                        *)
(***************************************************************************)
Opening(d) == dev = d /\ ctl.at \in {"pipe", "attach", "demodInit", "tunerInit",
                                     "stream"}

Unplug(d) ==
    /\ d \in plugged
    /\ Opening(d) => fn \in Faulty
    /\ plugged' = plugged \ {d}
    /\ tsEnable' = [tsEnable EXCEPT ![d] = {}]
    /\ Settle(d)
    /\ UNCHANGED <<usb, bridge, live, held, awake, count, capture, registry,
                   ctl, failed, leaked, misused>>

Plug(d) ==
    /\ d \notin plugged
    /\ d \notin usb
    /\ plugged' = plugged \union {d}
    /\ UNCHANGED <<usb, bridge, live, held, awake, count, capture, tsEnable,
                   doubt, registry, ctl, failed, leaked, misused>>

-----------------------------------------------------------------------------
(***************************************************************************)
(* dvb_em28xx_discover_all, dvb_em28xx_open and dvb_em28xx_open_by_addr,   *)
(* down to open_device_from_usb.  Addresses of equal remainder have the    *)
(* same vid:pid.                                                           *)
(***************************************************************************)
Table == [i \in 1..VidPids |-> i - 1]

\* What libusb_open_device_with_vid_pid opens, whether or not it is open already.
FirstMatch(vidpid) ==
    LET found == {d \in plugged : d % VidPids = vidpid}
    IN  {d \in found : \A e \in found : d <= e}

\* The call that a thread makes: its vid:pids, and an array with nothing in it.
Call(at, vidpids) ==
    /\ ctl.at = "idle"
    /\ ctl' = [ctl EXCEPT !.at = at, !.todo = vidpids, !.handles = <<>>]
    /\ UNCHANGED <<plugged, usb, bridge, live, held, awake, count, capture,
                   tsEnable, doubt, registry, failed, leaked, misused>>

DiscoverAll == Call("table", Table)

OpenVidPid == \E vidpid \in 0..(VidPids - 1) : Call("table", <<vidpid>>)

Room == MaxHandles - Len(ctl.handles)

\* open_device_from_usb allocates the struct of a device that was opened and
\* claimed.  The claim fails when the device is open already.
Allocate(d, todo) ==
    /\ d \in plugged
    /\ d \notin usb
    /\ NumFrontends <= Room
    /\ usb' = usb \union {d}
    /\ held' = [held EXCEPT ![d] = {}]
    /\ awake' = [awake EXCEPT ![d] = {}]
    /\ count' = [count EXCEPT ![d] = 0]
    /\ capture' = [capture EXCEPT ![d] = {}]
    /\ ctl' = [ctl EXCEPT !.at = "bridge", !.dev = d, !.fn = 0, !.todo = todo]
    /\ UNCHANGED <<plugged, bridge, live, tsEnable, doubt, registry, failed,
                   leaked, misused>>

\* What can fail before the allocation (no context, no board, no device at that
\* address, the claim, too few slots, no memory) closes the handle again.
OpenByAddr == Call("addr", <<>>)

AtAddress == /\ ctl.at = "addr"
             /\ \/ \E d \in Devices : Allocate(d, <<>>)
                \/ /\ Goto("idle")
                   /\ UNCHANGED <<plugged, usb, bridge, live, held, awake,
                                  count, capture, tsEnable, doubt, registry,
                                  failed, leaked, misused>>

\* One turn of the loop over the table, or its end.
TableNext ==
    /\ ctl.at = "table"
    /\ \/ /\ ctl.todo # <<>>
          /\ \E d \in FirstMatch(Head(ctl.todo)) : Allocate(d, Tail(ctl.todo))
       \/ /\ ctl' = IF ctl.todo = <<>> THEN [ctl EXCEPT !.at = "idle"]
                    ELSE [ctl EXCEPT !.todo = Tail(@)]
          /\ UNCHANGED <<plugged, usb, bridge, live, held, awake, count,
                         capture, tsEnable, doubt, registry, failed, leaked,
                         misused>>

\* goto fail: the loop over the frontends counted so far.
Fail == ctl' = [ctl EXCEPT !.at = "teardown", !.fn = 0, !.part = 1,
                           !.hi = count[dev], !.why = "fail"]

\* em28xx_open and the check of the chip id.
OpenBridge ==
    /\ ctl.at = "bridge"
    /\ \/ /\ bridge' = bridge \union {dev}
          /\ \/ dev \in plugged /\ Goto("setup")
             \/ Fail
       \/ /\ bridge' = bridge
          /\ Fail
    /\ UNCHANGED <<plugged, usb, live, held, awake, count, capture, tsEnable,
                   doubt, registry, failed, leaked, misused>>

\* Register 0x5f is zeroed by the GPIO sequence, whatever an earlier struct of
\* the device left there.
TsStays == UNCHANGED tsEnable                                       \* mutant
TsOff   == tsEnable' = [tsEnable EXCEPT ![dev] = {}]

\* i2c speed, clock, GPIO sequence and, with two frontends, the second TS path.
\* A failure comes before that write, at it or after it.
Setup ==
    /\ ctl.at = "setup"
    /\ \/ dev \in plugged /\ TsOff /\ Settle(dev) /\ Goto("pipe")
       \/ dev \in plugged /\ TsOff /\ (Settle(dev) \/ UNCHANGED doubt) /\ Fail
       \/ UNCHANGED <<tsEnable, doubt>> /\ Fail
    /\ UNCHANGED <<plugged, usb, bridge, live, held, awake, count, capture,
                   registry, failed, leaked, misused>>

-----------------------------------------------------------------------------
(***************************************************************************)
(* frontend_open, one step for each thing that can fail.                   *)
(***************************************************************************)
\* It returns an error: the caller tears down the frontends before this one.
Unwind == ctl' = [ctl EXCEPT !.at = "teardown", !.fn = 0, !.part = 1,
                             !.hi = fn, !.why = "unwind"]

FrontendFails ==
    /\ fn \in Faulty
    /\ failed' = failed \union {<<dev, fn>>}
    /\ Unwind
    /\ UNCHANGED held

\* The step works and brings [rs].
FrontendGains(rs, step) ==
    /\ Obtain(rs)
    /\ Goto(step)
    /\ UNCHANGED failed

MakePipe ==
    /\ ctl.at = "pipe"
    /\ \/ FrontendGains({<<"pipe", fn>>}, "attach")
       \/ FrontendFails /\ UNCHANGED live
    /\ UNCHANGED <<plugged, usb, bridge, awake, count, capture, tsEnable,
                   doubt, registry, leaked, misused>>

\* board->attach reports both clients or, on failure, neither; it removes the
\* demod again but not a client that found no driver.
Attach ==
    /\ ctl.at = "attach"
    /\ \/ /\ dev \in plugged
          /\ FrontendGains({<<"demod", fn>>, <<"tuner", fn>>}, "demodInit")
       \/ /\ FrontendFails
          /\ \/ UNCHANGED live
             \/ live' = [live EXCEPT ![dev] = @ \union {<<"ghost", fn>>}]
    /\ UNCHANGED <<plugged, usb, bridge, awake, count, capture, tsEnable,
                   doubt, registry, leaked, misused>>

InitChip(chip, step) ==
    /\ \/ /\ dev \in plugged
          /\ awake' = [awake EXCEPT ![dev] = @ \union {<<chip, fn>>}]
          /\ Goto(step)
          /\ UNCHANGED <<held, failed>>
       \/ FrontendFails /\ UNCHANGED awake
    /\ UNCHANGED <<plugged, usb, bridge, live, count, capture, tsEnable, doubt,
                   registry, leaked, misused>>

InitDemod == ctl.at = "demodInit" /\ InitChip("demod", "tunerInit")

InitTuner == ctl.at = "tunerInit" /\ InitChip("tuner", "stream")

AfterFrontend == IF fn + 1 < NumFrontends THEN "pipe" ELSE "publish"

\* usbq_stream_open, then the name; the caller counts the frontend.
OpenStream ==
    /\ ctl.at = "stream"
    /\ \/ /\ dev \in plugged
          /\ Obtain({<<"stream", fn>>, <<"name", fn>>})
          /\ count' = [count EXCEPT ![dev] = fn + 1]
          /\ ctl' = [ctl EXCEPT !.fn = fn + 1, !.at = AfterFrontend]
          /\ UNCHANGED failed
       \/ FrontendFails /\ UNCHANGED <<live, count>>
    /\ UNCHANGED <<plugged, usb, bridge, awake, capture, tsEnable, doubt,
                   registry, leaked, misused>>

\* The handles go into the slots after those that are taken.
OverLast == Len(ctl.handles) - 1                                    \* mutant
Published == Len(ctl.handles)

Publish ==
    /\ ctl.at = "publish"
    /\ registry' = <<dev>> \o registry
    /\ ctl' = [ctl EXCEPT !.at = "table",
                  !.handles = SubSeq(@, 1, Published)
                              \o [i \in 1..NumFrontends |-> <<dev, i - 1>>]]
    /\ UNCHANGED <<plugged, usb, bridge, live, held, awake, count, capture,
                   tsEnable, doubt, failed, leaked, misused>>

-----------------------------------------------------------------------------
(***************************************************************************)
(* frontend_teardown, step by step, of the frontends 0 .. hi-1.            *)
(***************************************************************************)
At(part) == ctl.at = "teardown" /\ fn < ctl.hi /\ Part[ctl.part] = part

NextPart == ctl' = IF ctl.part < Len(Part)
                   THEN [ctl EXCEPT !.part = @ + 1]
                   ELSE [ctl EXCEPT !.part = 1, !.fn = @ + 1]

\* Gives back the resources [rs] the struct points to.
Release(rs) ==
    /\ live' = [live EXCEPT ![dev] = @ \ (rs \intersect held[dev])]
    /\ misused' = misused \union ({dev} \X ((rs \intersect held[dev]) \ live[dev]))

\* The result of em28xx_capture_start is not looked at: capture_on is cleared
\* also when the device did not stop.
TeardownCapture ==
    /\ At("capture")
    /\ capture' = [capture EXCEPT ![dev] = @ \ {fn}]
    /\ IF fn \in capture[dev]
       THEN \E out \in Outcome : CaptureStart(dev, fn, FALSE, out)
       ELSE UNCHANGED <<tsEnable, doubt>>
    /\ NextPart
    /\ UNCHANGED <<plugged, usb, bridge, live, held, awake, count, registry,
                   failed, leaked, misused>>

Forgotten(rs) == {r \in rs : r[1] \notin {"demod", "tuner"}}

\* Pointers to the stream, the pipe and the name are cleared, those to the
\* clients are not.
ReleaseAndForget(rs) ==
    /\ Release(rs)
    /\ held' = [held EXCEPT ![dev] = @ \ Forgotten(rs)]
    /\ NextPart
    /\ UNCHANGED <<plugged, usb, bridge, awake, count, capture, tsEnable,
                   doubt, registry, failed, leaked>>

TeardownStream == At("stream") /\ ReleaseAndForget({<<"stream", fn>>})

\* ops.tuner_ops.sleep and ops.sleep of chips that were initialised.
TeardownSleep ==
    /\ At("sleep")
    /\ LET chips == {c \in awake[dev] : c[2] = fn}
       IN  misused' = misused \union ({dev} \X (chips \ live[dev]))
    /\ NextPart
    /\ UNCHANGED <<plugged, usb, bridge, live, held, awake, count, capture,
                   tsEnable, doubt, registry, failed, leaked>>

TeardownTuner == At("tuner") /\ ReleaseAndForget({<<"tuner", fn>>})

TeardownDemod == At("demod") /\ ReleaseAndForget({<<"demod", fn>>})

TeardownPipe == At("pipe") /\ ReleaseAndForget({<<"pipe", fn>>, <<"name", fn>>})

TeardownDone ==
    /\ ctl.at = "teardown"
    /\ fn = ctl.hi
    /\ IF ctl.why = "unwind" THEN Fail ELSE Goto("close")
    /\ UNCHANGED <<plugged, usb, bridge, live, held, awake, count, capture,
                   tsEnable, doubt, registry, failed, leaked, misused>>

\* em28xx_close, release of the interface, usbq_close and free(dev).
CloseDevice ==
    /\ ctl.at = "close"
    /\ bridge' = bridge \ {dev}
    /\ usb' = usb \ {dev}
    /\ leaked' = leaked \union ({dev} \X live[dev])
    /\ live' = [live EXCEPT ![dev] = {}]
    /\ held' = [held EXCEPT ![dev] = {}]
    /\ awake' = [awake EXCEPT ![dev] = {}]
    /\ count' = [count EXCEPT ![dev] = 0]
    /\ capture' = [capture EXCEPT ![dev] = {}]
    /\ Goto(IF ctl.why = "shutdown" THEN "next" ELSE "table")
    /\ UNCHANGED <<plugged, tsEnable, doubt, registry, failed, misused>>

-----------------------------------------------------------------------------
(***************************************************************************)
(* dvb_em28xx_shutdown: a loop over the registry.                          *)
(***************************************************************************)
\* The caller has stopped using its handles.
Shutdown ==
    /\ ctl.at = "idle"
    /\ ctl' = [ctl EXCEPT !.at = "next", !.handles = <<>>]
    /\ UNCHANGED <<plugged, usb, bridge, live, held, awake, count, capture,
                   tsEnable, doubt, registry, failed, leaked, misused>>

Rest == Tail(registry)

AllButLast(d) == count[d] - 1                                       \* mutant
Counted(d) == count[d]

ShutdownNext ==
    /\ ctl.at = "next"
    /\ IF registry = <<>>
       THEN Goto("idle") /\ UNCHANGED registry
       ELSE /\ registry' = Rest
            /\ ctl' = [ctl EXCEPT !.at = "teardown", !.dev = Head(registry),
                                  !.fn = 0, !.part = 1, !.why = "shutdown",
                                  !.hi = Counted(Head(registry))]
    /\ UNCHANGED <<plugged, usb, bridge, live, held, awake, count, capture,
                   tsEnable, doubt, failed, leaked, misused>>

ShuttingDown == ctl.at = "next" \/ (ctl.at \in {"teardown", "close"}
                                    /\ ctl.why = "shutdown")

-----------------------------------------------------------------------------
(***************************************************************************)
(* The consumers of the frontends that were handed out.                    *)
(***************************************************************************)
Usable(d) == d \in Registered /\ ~ShuttingDown /\ d \in plugged

\* em28xx_v_tune, once set_frontend has succeeded; it leaves the bridge alone
\* when capture_on is set.  capture_on follows a write that was reported done.
Tune(d, f, out) ==
    /\ Usable(d)
    /\ f \notin capture[d]
    /\ CaptureStart(d, f, TRUE, out)
    /\ capture' = IF out = "done" THEN [capture EXCEPT ![d] = @ \union {f}]
                  ELSE capture
    /\ UNCHANGED <<plugged, usb, bridge, live, held, awake, count, registry,
                   ctl, failed, leaked, misused>>

\* em28xx_v_capture_stop returns at once when capture_on is clear.
CaptureStop(d, f, out) ==
    /\ Usable(d)
    /\ f \in capture[d]
    /\ CaptureStart(d, f, FALSE, out)
    /\ capture' = IF out = "done" THEN [capture EXCEPT ![d] = @ \ {f}]
                  ELSE capture
    /\ UNCHANGED <<plugged, usb, bridge, live, held, awake, count, registry,
                   ctl, failed, leaked, misused>>

-----------------------------------------------------------------------------
BringUp == DiscoverAll \/ OpenVidPid \/ OpenByAddr \/ TableNext \/ AtAddress
           \/ OpenBridge \/ Setup \/ MakePipe \/ Attach \/ InitDemod \/ InitTuner
           \/ OpenStream \/ Publish

Teardown == TeardownCapture \/ TeardownStream \/ TeardownSleep \/ TeardownTuner
            \/ TeardownDemod \/ TeardownPipe \/ TeardownDone \/ CloseDevice

Engine == BringUp \/ Teardown \/ Shutdown \/ ShutdownNext

Next ==
    \/ Engine
    \/ \E d \in Devices : \/ Plug(d) \/ Unplug(d)
                         \/ \E f \in Frontend, out \in Outcome :
                               Tune(d, f, out) \/ CaptureStop(d, f, out)

Spec == Init /\ [][Next]_vars

-----------------------------------------------------------------------------
\* The event thread writes to the wake pipe of an open stream and reads its
\* device, so both outlive the stream; the tuner sits on the demod's i2c mux and
\* is removed first (frontend_teardown's comment): on every path that closes.
ReleasedInOrder ==
    \A d \in Devices, f \in Frontend :
        /\ <<"stream", f>> \in live[d] => d \in usb /\ <<"pipe", f>> \in live[d]
        /\ <<"tuner", f>> \in live[d] => <<"demod", f>> \in live[d]

\* What a call put into the caller's array stays usable until shutdown: every
\* frontend of a registered device is complete, and the array has all handles of
\* each device in it, once, within its slots (discover_all's offset and bound,
\* with devices of the same loop that fail, or that other calls opened).
HandlesBacked ==
    /\ \A d \in Registered :
          /\ d \in usb \intersect bridge
          /\ Resource \subseteq live[d] /\ held[d] = Resource
          /\ count[d] = NumFrontends
    /\ Len(ctl.handles) <= MaxHandles
    /\ \A i \in DOMAIN ctl.handles :
          LET d == ctl.handles[i][1]
          IN  /\ d \in Registered
              /\ \A f \in Frontend :
                    Cardinality({j \in DOMAIN ctl.handles :
                                     ctl.handles[j] = <<d, f>>}) = 1

\* No chip is put to sleep and nothing is released after its release.
NoUseAfterRelease == misused = {}

\* What a device leaves behind belongs to a frontend whose own bring-up failed.
OthersLeaveNothing ==
    \A left \in leaked : <<left[1], left[2][2]>> \in failed

\* A device that is open streams what capture_on says and a closed one is quiet,
\* except for a frontend whose last capture_start failed; and a failure counts
\* only until the device is brought up again.  So a device streams on after
\* shutdown only when its frontend was reported not to have obeyed, and never
\* into the next bring-up (em28xx_v_tune, em28xx_v_capture_stop,
\* frontend_teardown, the GPIO sequence of open_device_from_usb).
CaptureMatches ==
    \A d \in plugged, f \in Frontend :
        \/ <<d, f>> \in doubt
        \/ f \in tsEnable[d] <=> d \in usb /\ f \in capture[d]

\* A failing bring-up "cleans up everything else it allocated", and once
\* (open_device_from_usb's comment).
FailedOpenCleansUp == leaked = {} /\ misused = {}
=============================================================================
