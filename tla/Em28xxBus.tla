------------------------------ MODULE Em28xxBus ------------------------------
(***************************************************************************)
(* The em28xx bridge under the two frontends of one device: the control    *)
(* transfers of em28xx_core.c, the i2c engine with its bus switch and its  *)
(* status polling (em28xx_i2c.c), the gate in front of each tuner          *)
(* (linuxdvbkpi i2c_mux.c), the capture bits (em28xx_ts.c) and the         *)
(* bring-up that precedes them (em28xx_gpio.c, dvb_em28xx.c).              *)
(*                                                                         *)
(* A step is one USB control transfer.  It is done, or it is refused and   *)
(* changes nothing, or it takes effect and the answer is lost.  The bridge *)
(* works on an i2c message on its own time.  The bridge has no lock of its *)
(* own; a caller holds handle->bridge_lock (dvb_handle.h) during a call.   *)
(***************************************************************************)
EXTENDS Integers, Sequences, TLC

CONSTANTS Frontends,   \* ts_index of each frontend
          Channels,    \* what a chip can be set to
          Bus,         \* the bus of the chips (em28xx_get_i2c_adapter)
          MaxFaults,   \* bound: transfers that are refused or lost
          None

ASSUME BusAssumption ==
    /\ Bus \in {0, 1}
    /\ MaxFaults \in Nat
    /\ None \notin Frontends \union Channels

VARIABLES
    busBit,    \* the bus-select bit of register 0x06
    status,    \* register 0x05
    request,   \* the i2c message the bridge works on
    gate,      \* frontends whose tuner can be reached
    channel,   \* what each chip is set to, as told by this process
    tsEnable,  \* register 0x5f: frontends forwarded to USB
    setup,     \* how many steps of the bring-up are done
    curBus,    \* dev->cur_i2c_bus
    capture,   \* frontends with capture_on
    holder,    \* who holds bridge_lock
    th,        \* the call each frontend's thread is in, or was in last
    unsure,    \* gates and capture bits whose last write was not reported done
    faults     \* transfers that were refused or lost

device == <<busBit, status, request, gate, channel, tsEnable>>
host   == <<setup, curBus, capture, holder, th, unsure>>
vars   == <<device, host, faults>>

-----------------------------------------------------------------------------
Chip == {"demod", "tuner"} \X Frontends

\* The transfers of set_frontend and of read_status, as far as the bus sees
\* them: tuner messages go through the mux, the others straight to the demod.
TuneStages   == <<"demod", "select", "tuner", "deselect">>
StatusStages == <<"read">>
Stages(op)   == CASE op = "tune" -> TuneStages [] op = "status" -> StatusStages
                  [] OTHER -> <<>>

Messages(stage) == IF stage = "read" THEN 2 ELSE 1

LastMessage(t) == t.msg = Messages(Stages(t.op)[t.stage])

\* The writes of open_device_from_usb, in order.
GpioSequence == <<"reset", "tsOff", "pktSizes">>
GpioSet      == <<"prelude", "vinenable">> \o GpioSequence
DualTs       == <<"dualTsA", "dualTsB">>
BringUp      == <<"chipId", "speed", "xclk">> \o GpioSet \o DualTs

Up == setup = Len(BringUp)

Idle == [at |-> "idle", op |-> "none", ch |-> None, stage |-> 1, msg |-> 1,
         bad |-> FALSE, seen |-> {}]

TypeOK ==
    /\ busBit \in {0, 1}
    /\ status \in {"busy", "ok", "nak"}
    /\ request \in {None} \union [chip : Chip, ch : Channels \union {None},
                                  act : {"set", "open", "close", "get"}]
    /\ gate \subseteq Frontends
    /\ channel \in [Chip -> Channels \union {None}]
    /\ tsEnable \subseteq Frontends
    /\ setup \in -1..Len(BringUp)
    /\ curBus \in {-1, 0, 1}
    /\ capture \subseteq Frontends
    /\ holder \in Frontends \union {None}
    /\ th \in [Frontends ->
                 [at : {"idle", "xfer", "busRead", "busWrite", "msg", "poll",
                        "pkt", "tsRead", "tsWrite", "ret"},
                  op : {"none", "tune", "status", "stop"},
                  ch : Channels \union {None}, stage : 1..4, msg : 1..2,
                  bad : BOOLEAN, seen : SUBSET Frontends]]
    /\ unsure \subseteq {"gate", "ts"} \X Frontends
    /\ faults \in 0..MaxFaults

\* A process finds the device as the last one left it.
Init ==
    /\ busBit \in {0, 1}
    /\ status = "nak"
    /\ request = None
    /\ gate \in SUBSET Frontends
    /\ channel = [c \in Chip |-> None]
    /\ tsEnable \in SUBSET Frontends
    /\ setup = -1
    /\ curBus = -1
    /\ capture = {}
    /\ holder = None
    /\ th = [f \in Frontends |-> Idle]
    /\ unsure = {}
    /\ faults = 0

Outcome == {"done", "refused", "lost"}

\* What [out] costs; the transfer takes effect unless it is refused.
Costs(out) == IF out = "done" THEN UNCHANGED faults
              ELSE faults < MaxFaults /\ faults' = faults + 1

Effect(out) == out # "refused"

-----------------------------------------------------------------------------
(***************************************************************************)
(* Bring-up.  A failing transfer ends it; the process may also end at any  *)
(* point.  Either way the next one starts over on the device as it is.     *)
(***************************************************************************)
Forget == /\ setup' = -1
          /\ curBus' = -1
          /\ capture' = {}
          /\ holder' = None
          /\ th' = [f \in Frontends |-> Idle]
          /\ unsure' = {}
          /\ channel' = [c \in Chip |-> None]

EndProcess == /\ setup >= 0
              /\ Forget
              /\ UNCHANGED <<busBit, status, request, gate, tsEnable, faults>>

\* em28xx_open: cur_i2c_bus is unknown.
OpenBridge ==
    /\ setup = -1
    /\ setup' = 0
    /\ UNCHANGED <<device, curBus, capture, holder, th, unsure, faults>>

\* The reset lines close the gates and end what the bridge was doing.
SetupStep(out) ==
    LET step == BringUp[setup + 1]
    IN  /\ setup \in 0..(Len(BringUp) - 1)
        /\ Costs(out)
        /\ busBit' = IF Effect(out) /\ step = "speed" THEN 0 ELSE busBit
        /\ IF Effect(out) /\ step = "reset"
           THEN /\ gate' = {}
                /\ status' = "nak"
                /\ request' = None
           ELSE UNCHANGED <<gate, status, request>>
        /\ tsEnable' = IF Effect(out) /\ step = "tsOff" THEN {} ELSE tsEnable
        /\ IF out = "done"
           THEN /\ setup' = setup + 1
                /\ curBus' = IF step = "speed" THEN 0 ELSE curBus
                /\ UNCHANGED <<channel, capture, holder, th, unsure>>
           ELSE Forget

-----------------------------------------------------------------------------
(***************************************************************************)
(* The bridge's i2c engine.  A chip answers on its bus, a tuner only       *)
(* through its own gate, and a chip that is busy refuses.                  *)
(***************************************************************************)
Reachable(chip) == /\ busBit = Bus
                   /\ chip[1] = "tuner" => chip[2] \in gate

Answer(answer) ==
    /\ status = "busy"
    /\ status' = answer
    /\ answer = "ok" => Reachable(request.chip)
    /\ IF answer = "ok"
       THEN /\ channel' = IF request.act = "set"
                          THEN [channel EXCEPT ![request.chip] = request.ch]
                          ELSE channel
            /\ gate' = CASE request.act = "open" -> gate \union {request.chip[2]}
                         [] request.act = "close" -> gate \ {request.chip[2]}
                         [] OTHER -> gate
       ELSE UNCHANGED <<channel, gate>>
    /\ request' = None
    /\ UNCHANGED <<busBit, tsEnable, host, faults>>

-----------------------------------------------------------------------------
(***************************************************************************)
(* A call on a frontend: tune, get_status, capture_stop.                   *)
(***************************************************************************)
Goto(f, at) == th' = [th EXCEPT ![f].at = at]

\* The call returns an error.
Fail(f) == th' = [th EXCEPT ![f].at = "ret", ![f].bad = TRUE]

\* capture_stop has nothing to do with the chips.
Entry(op) == IF op = "stop" THEN "pkt" ELSE "xfer"

Begin(f, op, ch) ==
    /\ Up
    /\ th[f].at = "idle"
    /\ holder = None
    /\ op = "stop" => f \in capture
    /\ (op = "tune") = (ch # None)
    /\ holder' = f
    /\ th' = [th EXCEPT ![f] = [Idle EXCEPT !.at = Entry(op), !.op = op, !.ch = ch]]
    /\ UNCHANGED <<device, setup, curBus, capture, unsure, faults>>

LastTuneOk(f) == /\ th[f].op = "tune"
                 /\ th[f].at \in {"ret", "idle"}
                 /\ ~th[f].bad

Return(f) ==
    /\ th[f].at = "ret"
    /\ holder' = None
    /\ th' = [th EXCEPT ![f] = IF LastTuneOk(f)
                               THEN [Idle EXCEPT !.op = "tune", !.ch = th[f].ch]
                               ELSE Idle]
    /\ UNCHANGED <<device, setup, curBus, capture, unsure, faults>>

Stage(f) == Stages(th[f].op)[th[f].stage]

XferFailedNoDeselect(f) == Fail(f) /\ UNCHANGED unsure               \* mutant

\* em28xx_i2c_xfer returned an error.  mux_master_xfer deselects after a
\* transfer that failed and not after a select that failed.
XferFailed(f) ==
    /\ IF Stage(f) = "tuner"
       THEN th' = [th EXCEPT ![f].at = "xfer", ![f].stage = @ + 1,
                             ![f].msg = 1, ![f].bad = TRUE]
       ELSE Fail(f)
    /\ unsure' = IF Stage(f) \in {"select", "deselect"}
                 THEN unsure \union {<<"gate", f>>} ELSE unsure

\* It returned the number of messages.  capture_start follows set_frontend
\* only when capture is off.
XferDone(f) ==
    /\ th' = [th EXCEPT ![f].msg = 1,
                ![f].stage = IF @ < Len(Stages(th[f].op)) THEN @ + 1 ELSE @,
                ![f].at = IF th[f].stage < Len(Stages(th[f].op)) THEN "xfer"
                          ELSE IF /\ th[f].op = "tune" /\ ~th[f].bad
                                  /\ f \notin capture
                          THEN "pkt" ELSE "ret"]
    /\ unsure' = IF Stage(f) = "deselect" THEN unsure \ {<<"gate", f>>}
                 ELSE unsure

StartXfer(f) ==
    /\ th[f].at = "xfer"
    /\ Goto(f, IF curBus = Bus THEN "msg" ELSE "busRead")
    /\ UNCHANGED <<device, setup, curBus, capture, holder, unsure, faults>>

\* em28xx_write_reg_bits on register 0x06; only the bus bit is modelled and the
\* mask covers it, so the value read does not matter here.
BusRead(f, out) ==
    /\ th[f].at = "busRead"
    /\ Costs(out)
    /\ IF out = "done" THEN Goto(f, "busWrite") /\ UNCHANGED unsure
       ELSE XferFailed(f)
    /\ UNCHANGED <<device, setup, curBus, capture, holder>>

KnownBusEarly(out) == Bus                                            \* mutant
KnownBus(out) == IF out = "done" THEN Bus ELSE curBus

BusWrite(f, out) ==
    /\ th[f].at = "busWrite"
    /\ Costs(out)
    /\ busBit' = IF Effect(out) THEN Bus ELSE busBit
    /\ curBus' = KnownBus(out)
    /\ IF out = "done" THEN Goto(f, "msg") /\ UNCHANGED unsure
       ELSE XferFailed(f)
    /\ UNCHANGED <<status, request, gate, channel, tsEnable, setup, capture,
                   holder>>

\* em28xx_i2c_send_bytes, em28xx_i2c_recv_bytes: the request.
MessageOf(f) ==
    LET stage == Stage(f)
    IN  [chip |-> <<IF stage = "tuner" THEN "tuner" ELSE "demod", f>>,
         act  |-> CASE stage = "select" -> "open" [] stage = "deselect" -> "close"
                    [] stage = "read" -> "get" [] OTHER -> "set",
         ch   |-> IF stage \in {"demod", "tuner"} THEN th[f].ch ELSE None]

SendMessage(f, out) ==
    /\ th[f].at = "msg"
    /\ Costs(out)
    /\ IF Effect(out) THEN status' = "busy" /\ request' = MessageOf(f)
       ELSE UNCHANGED <<status, request>>
    /\ IF out = "done" THEN Goto(f, "poll") /\ UNCHANGED unsure
       ELSE XferFailed(f)
    /\ UNCHANGED <<busBit, gate, channel, tsEnable, setup, curBus, capture,
                   holder>>

SucceededAny(s) == s # "busy"                                        \* mutant
Succeeded(s)    == s = "ok"

\* em28xx_i2c_wait_status: busy may last until the deadline has passed.
Poll(f, out) ==
    /\ th[f].at = "poll"
    /\ out # "lost"
    /\ Costs(out)
    /\ IF out = "done" /\ Succeeded(status)
       THEN IF LastMessage(th[f]) THEN XferDone(f)
            ELSE /\ th' = [th EXCEPT ![f].at = "msg", ![f].msg = @ + 1]
                 /\ UNCHANGED unsure
       ELSE XferFailed(f)
    /\ UNCHANGED <<device, setup, curBus, capture, holder>>

-----------------------------------------------------------------------------
(***************************************************************************)
(* em28xx_capture_start: the packet size, then a read and a write of the   *)
(* one register that holds the bits of both frontends.                     *)
(***************************************************************************)
PacketSize(f, out) ==
    /\ th[f].at = "pkt"
    /\ Costs(out)
    /\ IF out = "done" THEN Goto(f, "tsRead") ELSE Fail(f)
    /\ UNCHANGED <<device, setup, curBus, capture, holder, unsure>>

TsRead(f, out) ==
    /\ th[f].at = "tsRead"
    /\ out # "lost"
    /\ Costs(out)
    /\ IF out = "done" THEN th' = [th EXCEPT ![f].at = "tsWrite",
                                             ![f].seen = tsEnable]
       ELSE Fail(f)
    /\ UNCHANGED <<device, setup, curBus, capture, holder, unsure>>

\* The mask of em28xx_capture_start covers the bits of one TS.
NewBitsNoMask(f) == IF th[f].op = "tune" THEN {f} ELSE {}            \* mutant
NewBits(f)       == IF th[f].op = "tune" THEN th[f].seen \union {f}
                    ELSE th[f].seen \ {f}

TsWrite(f, out) ==
    /\ th[f].at = "tsWrite"
    /\ Costs(out)
    /\ tsEnable' = IF Effect(out) THEN NewBits(f) ELSE tsEnable
    /\ IF out = "done"
       THEN /\ capture' = IF th[f].op = "tune" THEN capture \union {f}
                          ELSE capture \ {f}
            /\ unsure' = unsure \ {<<"ts", f>>}
            /\ Goto(f, "ret")
       ELSE /\ Fail(f)
            /\ unsure' = unsure \union {<<"ts", f>>}
            /\ UNCHANGED capture
    /\ UNCHANGED <<busBit, status, request, gate, channel, setup, curBus, holder>>

-----------------------------------------------------------------------------
Transfer(f) == \E out \in Outcome :
    \/ BusRead(f, out) \/ BusWrite(f, out) \/ SendMessage(f, out) \/ Poll(f, out)
    \/ PacketSize(f, out) \/ TsRead(f, out) \/ TsWrite(f, out)

Thread(f) == StartXfer(f) \/ Transfer(f) \/ Return(f)

Next ==
    \/ OpenBridge
    \/ \E out \in Outcome : SetupStep(out)
    \/ EndProcess
    \/ \E answer \in {"ok", "nak"} : Answer(answer)
    \/ \E f \in Frontends : Thread(f)
    \/ \E f \in Frontends, op \in {"tune", "status", "stop"},
          ch \in Channels \union {None} : Begin(f, op, ch)

Spec == Init /\ [][Next]_vars

Symmetry == Permutations(Frontends) \union Permutations(Channels)
-----------------------------------------------------------------------------
(***************************************************************************)
(* A tune that returned 0 has set the demod and the tuner of its own       *)
(* frontend to the channel it was asked for and the bridge forwards that   *)
(* frontend, whatever the other frontend's thread does meanwhile           *)
(* (em28xx_v_tune; status polling, the bus switch, the read-modify-write). *)
(* The one exception: after a capture_stop that was reported as failed and *)
(* took effect, tune finds capture_on still set and leaves the bridge off. *)
(***************************************************************************)
TuneMeansTuned ==
    \A f \in Frontends : LastTuneOk(f) =>
        /\ channel[<<"demod", f>>] = th[f].ch
        /\ channel[<<"tuner", f>>] = th[f].ch
        /\ f \in tsEnable \/ <<"ts", f>> \in unsure

(***************************************************************************)
(* capture_on says what register 0x5f holds for that frontend, unless a    *)
(* write of that frontend's own bit was reported as failed: not for what   *)
(* the other frontend wrote, nor for what an earlier process left there.   *)
(***************************************************************************)
CaptureMatchesRegister ==
    Up => \A f \in Frontends :
            <<"ts", f>> \in unsure \/ (f \in capture <=> f \in tsEnable)

(***************************************************************************)
(* While no call is running every tuner is disconnected from the bus       *)
(* (mux_master_xfer deselects on its error path too), unless a select or a *)
(* deselect of that gate was itself reported as failed.                    *)
(***************************************************************************)
GatesClosed ==
    Up /\ holder = None =>
        \A f \in gate : <<"gate", f>> \in unsure

(***************************************************************************)
(* cur_i2c_bus never claims the chips' bus while the bridge is on another: *)
(* the shadow is set after the write that it stands for and forgotten when *)
(* the device is opened again (em28xx_i2c_xfer, em28xx_open).              *)
(***************************************************************************)
ShadowTrue == curBus = Bus => busBit = Bus

=============================================================================
