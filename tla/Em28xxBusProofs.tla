--------------------------- MODULE Em28xxBusProofs --------------------------
(***************************************************************************)
(* Proofs about Em28xxBus for every number of frontends and channels, and  *)
(* every number of failing transfers.                                      *)
(*                                                                         *)
(* The bridge has no memory of who asked it for what, so the invariant     *)
(* ties each message it works on, and each one it has answered, to the     *)
(* step of the call that sent it (Answered).  With one call at a time      *)
(* (Serial) that gives what a tune that got so far has achieved (Tuned),   *)
(* when a gate may be open (Gates) and what the capture register holds     *)
(* (Register).  The bring-up leaves a bridge that forwards nothing and has *)
(* every gate closed (Fresh).                                              *)
(***************************************************************************)
EXTENDS Em28xxBus, SequenceTheorems, TLAPS

CallSteps  == {"idle", "xfer", "busRead", "busWrite", "msg", "poll", "pkt",
               "tsRead", "tsWrite", "ret"}
CallRecord == [at : CallSteps, op : {"none", "tune", "status", "stop"},
               ch : Channels \union {None}, stage : 1..4, msg : 1..2,
               bad : BOOLEAN, seen : SUBSET Frontends]
Requests   == [chip : Chip, ch : Channels \union {None},
               act : {"set", "open", "close", "get"}]

XferSteps    == {"xfer", "busRead", "busWrite", "msg", "poll"}
InXfer(f)    == th[f].at \in XferSteps
InCapture(f) == th[f].at \in {"pkt", "tsRead", "tsWrite"}

\* What a frontend's call looks like at each of its steps.
Shape(f) ==
    /\ InXfer(f) =>
          /\ th[f].op = "tune" \/ (th[f].op = "status" /\ th[f].stage = 1)
          /\ th[f].msg = 2 => th[f].op = "status"
    /\ InCapture(f) => (th[f].op = "tune" /\ ~th[f].bad) \/ th[f].op = "stop"
    /\ th[f].op = "tune" => th[f].ch \in Channels
    /\ th[f].at = "idle" => th[f].op = "none" \/ (th[f].op = "tune" /\ ~th[f].bad)

TypeInv == TypeOK /\ \A f \in Frontends : Shape(f)

\* One call at a time, and none before the bring-up is done.
Serial ==
    /\ \A f \in Frontends : th[f].at # "idle" <=> holder = f
    /\ holder # None => Up
    /\ ~Up => capture = {} /\ unsure = {} /\ \A f \in Frontends : th[f] = Idle

\* The bridge works on a message.
Pending == status = "busy"

\* What the bring-up has left on the bridge.
Fresh ==
    /\ setup \in 6..9 => gate = {} /\ ~Pending
    /\ setup \in 7..9 => tsEnable = {}

\* The effect of the message that f's call is at.
Took(f) ==
    th[f].op = "tune" =>
        /\ th[f].stage = 1 => channel[<<"demod", f>>] = th[f].ch
        /\ th[f].stage = 3 => channel[<<"tuner", f>>] = th[f].ch
        /\ th[f].stage = 4 => f \notin gate

Answered ==
    /\ Pending => request \in Requests
    /\ \A f \in Frontends : th[f].at = "poll" =>
          /\ Pending => request = MessageOf(f)
          /\ status = "ok" => Took(f)

\* Whether f's tune has its gate open, or is about to.
Window(f) ==
    /\ th[f].op = "tune" /\ InXfer(f)
    /\ (th[f].stage = 2 /\ th[f].at = "poll") \/ th[f].stage \in {3, 4}

Opens(f) == Pending /\ request.act = "open" /\ request.chip[2] = f

Gates ==
    Up => \A f \in Frontends :
              f \in gate \/ Opens(f) => Window(f) \/ <<"gate", f>> \in unsure

Register ==
    /\ CaptureMatchesRegister
    /\ \A f \in Frontends : th[f].at = "tsWrite" => th[f].seen = tsEnable

\* A tune of f without a failure so far, and the stages it has been through.
Fine(f)    == th[f].op = "tune" /\ ~th[f].bad
Past(f, i) == ~InXfer(f) \/ th[f].stage > i

Tuned(f) ==
    Fine(f) =>
        /\ Past(f, 1) => channel[<<"demod", f>>] = th[f].ch
        /\ Past(f, 3) => channel[<<"tuner", f>>] = th[f].ch
        /\ Past(f, 1) /\ th[f].at \notin {"poll", "idle"} => ~Pending
        /\ th[f].at = "idle" => ~Pending \/ request.chip[2] # f
        /\ th[f].at \in {"ret", "idle"} => f \in capture

BusInv ==
    /\ TypeInv /\ Serial /\ Fresh /\ Answered
    /\ Gates /\ Register /\ \A f \in Frontends : Tuned(f)

-----------------------------------------------------------------------------
(***************************************************************************)
(* Facts about the tables.                                                 *)
(***************************************************************************)
LEMMA StagesOf ==
  /\ Len(Stages("tune")) = 4 /\ Len(Stages("status")) = 1
  /\ Stages("tune")[1] = "demod" /\ Stages("tune")[2] = "select"
  /\ Stages("tune")[3] = "tuner" /\ Stages("tune")[4] = "deselect"
  /\ Stages("status")[1] = "read"
BY DEF Stages, TuneStages, StatusStages

\* The stage of a call that is in a transfer, and the message it sends there.
LEMMA StageOf ==
  ASSUME TypeInv, NEW f \in Frontends, InXfer(f)
  PROVE  /\ th[f].op = "status" => th[f].stage = 1 /\ Stage(f) = "read"
         /\ th[f].op = "tune" =>
               /\ th[f].stage = 1 => Stage(f) = "demod"
               /\ th[f].stage = 2 => Stage(f) = "select"
               /\ th[f].stage = 3 => Stage(f) = "tuner"
               /\ th[f].stage = 4 => Stage(f) = "deselect"
         /\ th[f].op \in {"tune", "status"} /\ th[f].stage \in 1..4
<1>1. th[f].stage \in 1..4 /\ Shape(f)
  BY DEF TypeInv, TypeOK
<1> QED
  BY <1>1, StagesOf DEF Stage, Shape

LEMMA MessageIs ==
  ASSUME TypeInv, NEW f \in Frontends, InXfer(f)
  PROVE  /\ MessageOf(f) \in Requests
         /\ MessageOf(f).chip[2] = f
         /\ MessageOf(f).act = "open" <=> th[f].op = "tune" /\ th[f].stage = 2
         /\ MessageOf(f).act = "close" <=> th[f].op = "tune" /\ th[f].stage = 4
         /\ MessageOf(f).act = "set" <=> th[f].op = "tune" /\ th[f].stage \in {1, 3}
         /\ th[f].op = "tune" /\ th[f].stage = 1 =>
               MessageOf(f).chip = <<"demod", f>> /\ MessageOf(f).ch = th[f].ch
         /\ th[f].op = "tune" /\ th[f].stage = 3 =>
               MessageOf(f).chip = <<"tuner", f>> /\ MessageOf(f).ch = th[f].ch
<1>1. th[f].ch \in Channels \union {None}
  BY DEF TypeInv, TypeOK
<1>2. <<"tuner", f>> \in Chip /\ <<"demod", f>> \in Chip
  BY DEF Chip
<1>3. CASE Stage(f) = "demod"
  <2>1. MessageOf(f) = [chip |-> <<"demod", f>>, act |-> "set", ch |-> th[f].ch]
    BY <1>3 DEF MessageOf
  <2>2. th[f].op = "tune" /\ th[f].stage = 1
    BY <1>3, StageOf
  <2> QED
    BY <1>1, <1>2, <2>1, <2>2 DEF Requests
<1>4. CASE Stage(f) = "select"
  <2>1. MessageOf(f) = [chip |-> <<"demod", f>>, act |-> "open", ch |-> None]
    BY <1>4 DEF MessageOf
  <2>2. th[f].op = "tune" /\ th[f].stage = 2
    BY <1>4, StageOf
  <2> QED
    BY <1>2, <2>1, <2>2 DEF Requests
<1>5. CASE Stage(f) = "tuner"
  <2>1. MessageOf(f) = [chip |-> <<"tuner", f>>, act |-> "set", ch |-> th[f].ch]
    BY <1>5 DEF MessageOf
  <2>2. th[f].op = "tune" /\ th[f].stage = 3
    BY <1>5, StageOf
  <2> QED
    BY <1>1, <1>2, <2>1, <2>2 DEF Requests
<1>6. CASE Stage(f) = "deselect"
  <2>1. MessageOf(f) = [chip |-> <<"demod", f>>, act |-> "close", ch |-> None]
    BY <1>6 DEF MessageOf
  <2>2. th[f].op = "tune" /\ th[f].stage = 4
    BY <1>6, StageOf
  <2> QED
    BY <1>2, <2>1, <2>2 DEF Requests
<1>7. CASE Stage(f) = "read"
  <2>1. MessageOf(f) = [chip |-> <<"demod", f>>, act |-> "get", ch |-> None]
    BY <1>7 DEF MessageOf
  <2>2. th[f].op = "status"
    BY <1>7, StageOf
  <2> QED
    BY <1>2, <2>1, <2>2 DEF Requests
<1> QED
  BY <1>3, <1>4, <1>5, <1>6, <1>7, StageOf

\* The writes of the bring-up that the invariant is about.
LEMMA BringUpSteps ==
  /\ Len(BringUp) = 10
  /\ BringUp[6] = "reset" /\ BringUp[7] = "tsOff"
BY DEF BringUp, GpioSet, GpioSequence, DualTs

-----------------------------------------------------------------------------
(***************************************************************************)
(* What a step of f's call means for the other frontends: they are idle    *)
(* and what their last tune achieved stands.                               *)
(***************************************************************************)
StepsOnly(f) == /\ th' \in [Frontends -> CallRecord]
                /\ \A g \in Frontends \ {f} : th'[g] = th[g]

LEMMA OthersIdle ==
  ASSUME BusInv, NEW f \in Frontends, holder = f
  PROVE  /\ Up /\ setup = 10 /\ \A g \in Frontends \ {f} : th[g].at = "idle"
         /\ th[f].at # "idle"
BY BringUpSteps, BusAssumption DEF BusInv, Serial, Up, BusAssumption

LEMMA OthersKeep ==
  ASSUME BusInv, NEW f \in Frontends, holder = f, StepsOnly(f),
         channel' = channel,
         NEW g \in Frontends \ {f},
         g \in capture' <=> g \in capture,
         Pending' => (Pending /\ request' = request) \/ request'.chip[2] = f
  PROVE  Shape(g)' /\ Tuned(g)'
<1>1. th'[g] = th[g] /\ th[g].at = "idle" /\ Shape(g) /\ Tuned(g)
  BY OthersIdle DEF StepsOnly, BusInv, TypeInv
<1>2. Shape(g)'
  BY <1>1 DEF Shape, InXfer, InCapture
<1>3. Tuned(g)'
  BY <1>1 DEF Tuned, Fine, Past, InXfer, Pending, XferSteps
<1> QED
  BY <1>2, <1>3

\* A step of f's call that leaves the device's chips and registers alone keeps
\* the invariant when the new place of f's own call does.
LEMMA StepKeeps ==
  ASSUME BusInv, NEW f \in Frontends, holder = f, StepsOnly(f), TypeOK',
         UNCHANGED <<gate, channel, tsEnable, setup, capture>>,
         \/ holder' = f /\ th'[f].at # "idle"
         \/ holder' = None /\ th'[f].at = "idle",
         Shape(f)', Tuned(f)',
         \A g \in Frontends \ {f} : <<"gate", g>> \in unsure' <=> <<"gate", g>> \in unsure,
         \A g \in Frontends : <<"ts", g>> \in unsure => <<"ts", g>> \in unsure',
         \/ UNCHANGED <<status, request>>
         \/ status' = "busy" /\ request' = MessageOf(f) /\ InXfer(f),
         th'[f].at = "poll" => status' = "busy" /\ request' = MessageOf(f)',
         f \in gate \/ Opens(f)' => Window(f)' \/ <<"gate", f>> \in unsure',
         th'[f].at = "tsWrite" => th'[f].seen = tsEnable
  PROVE  BusInv'
<1>1. /\ Up /\ setup = 10 /\ setup' = 10 /\ Up'
      /\ \A g \in Frontends \ {f} : th[g].at = "idle" /\ th'[g] = th[g]
  BY OthersIdle DEF StepsOnly, Up
<1>2. Pending' => (Pending /\ request' = request) \/ request'.chip[2] = f
  BY MessageIs DEF Pending, BusInv
<1>3. \A g \in Frontends : Shape(g)' /\ Tuned(g)'
  BY <1>2, OthersKeep
<1>4. Serial'
  BY <1>1, BusAssumption DEF Serial, BusAssumption, StepsOnly
<1>5. Fresh'
  BY <1>1 DEF Fresh
<1>6. Answered'
  <2>1. Pending' => request' \in Requests
    BY MessageIs DEF BusInv, Answered, Pending
  <2>2. ASSUME NEW g \in Frontends, th'[g].at = "poll"
        PROVE  /\ Pending' => request' = MessageOf(g)'
               /\ status' = "ok" => Took(g)'
    <3>1. g = f
      BY <1>1, <2>2
    <3> QED
      BY <2>2, <3>1
  <2> QED
    BY <2>1, <2>2 DEF Answered
<1>7. Gates'
  <2>1. ASSUME NEW g \in Frontends \ {f}, g \in gate' \/ Opens(g)'
        PROVE  <<"gate", g>> \in unsure'
    <3>1. g \in gate \/ Opens(g)
      BY <1>2, <2>1 DEF Opens, Pending
    <3>2. ~Window(g)
      BY <1>1 DEF Window, InXfer, XferSteps
    <3>3. <<"gate", g>> \in unsure
      BY <1>1, <3>1, <3>2 DEF BusInv, Gates
    <3> QED
      BY <3>3
  <2> QED
    BY <2>1 DEF Gates
<1>8. Register'
  <2>1. CaptureMatchesRegister'
    BY <1>1 DEF BusInv, Register, CaptureMatchesRegister
  <2>2. \A g \in Frontends : th'[g].at = "tsWrite" => th'[g].seen = tsEnable'
    BY <1>1
  <2> QED
    BY <2>1, <2>2 DEF Register
<1> QED
  BY <1>3, <1>4, <1>5, <1>6, <1>7, <1>8 DEF BusInv, TypeInv

-----------------------------------------------------------------------------
(***************************************************************************)
(* The steps of f's call.                                                  *)
(***************************************************************************)
LEMMA HolderTypes ==
  ASSUME BusInv, NEW f \in Frontends
  PROVE  /\ th \in [Frontends -> CallRecord] /\ th[f] \in CallRecord
         /\ unsure \subseteq {"gate", "ts"} \X Frontends
         /\ TypeOK /\ TypeInv /\ Shape(f) /\ Tuned(f)
BY DEF BusInv, TypeInv, TypeOK, CallRecord, CallSteps

\* What the type invariant asks of a step of f's call that leaves the chips and
\* the capture bits alone.
LEMMA StepTyped ==
  ASSUME TypeInv, NEW f \in Frontends, StepsOnly(f),
         UNCHANGED <<gate, channel, tsEnable, setup, capture>>,
         holder' \in {f, None},
         busBit' \in {0, 1}, curBus' \in {-1, 0, 1}, faults' \in 0..MaxFaults,
         unsure' \subseteq {"gate", "ts"} \X Frontends,
         \/ UNCHANGED <<status, request>>
         \/ status' = "busy" /\ request' = MessageOf(f) /\ InXfer(f)
  PROVE  TypeOK'
<1>1. /\ status' \in {"busy", "ok", "nak"}
      /\ request' \in {None} \union Requests
  BY MessageIs DEF TypeInv, TypeOK, Requests
<1> QED
  BY <1>1 DEF TypeInv, TypeOK, StepsOnly, CallRecord, CallSteps, Requests

LEMMA FailMoves ==
  ASSUME BusInv, NEW f \in Frontends, Fail(f)
  PROVE  th'[f] = [th[f] EXCEPT !.at = "ret", !.bad = TRUE] /\ StepsOnly(f)
<1>1. th' = [th EXCEPT ![f].at = "ret", ![f].bad = TRUE]
  BY DEF Fail
<1>2. th'[f] = [th[f] EXCEPT !.at = "ret", !.bad = TRUE]
  BY <1>1, HolderTypes
<1>3. th'[f] \in CallRecord
  BY <1>2, HolderTypes DEF CallRecord, CallSteps
<1>4. /\ DOMAIN th' = Frontends
      /\ \A g \in Frontends \ {f} : th'[g] = th[g]
  BY <1>1, HolderTypes
<1>5. th' \in [Frontends -> CallRecord]
  BY <1>1, <1>3, HolderTypes
<1> QED
  BY <1>2, <1>4, <1>5 DEF StepsOnly

\* What the call's record says after a transfer to the tuner chip failed.
LEMMA TunerFailed ==
  ASSUME NEW c \in CallRecord,
         NEW d, d = [c EXCEPT !.at = "xfer", !.stage = 4, !.msg = 1, !.bad = TRUE]
  PROVE  /\ d.at = "xfer" /\ d.stage = 4 /\ d.msg = 1 /\ d.bad = TRUE
         /\ d.op = c.op /\ d.ch = c.ch /\ d \in CallRecord
<1>1. /\ d.at = "xfer" /\ d.stage = 4 /\ d.msg = 1 /\ d.bad = TRUE
      /\ d.op = c.op /\ d.ch = c.ch
  BY DEF CallRecord
<1>2. "xfer" \in CallSteps
  BY DEF CallSteps
<1>3. /\ c.op \in {"none", "tune", "status", "stop"}
      /\ c.ch \in Channels \union {None} /\ c.seen \in SUBSET Frontends
  BY DEF CallRecord
<1>4. d = [at |-> "xfer", op |-> c.op, ch |-> c.ch, stage |-> 4, msg |-> 1,
           bad |-> TRUE, seen |-> c.seen]
  BY DEF CallRecord
<1>5. 4 \in 1..4 /\ 1 \in 1..2 /\ TRUE \in BOOLEAN
  OBVIOUS
<1>6. d \in CallRecord
  BY <1>2, <1>3, <1>4, <1>5 DEF CallRecord
<1> QED
  BY <1>1, <1>6

LEMMA XferFailedKeeps ==
  ASSUME BusInv, NEW f \in Frontends, holder = f, InXfer(f), XferFailed(f),
         UNCHANGED <<gate, channel, tsEnable, setup, capture, holder>>,
         busBit' \in {0, 1}, curBus' \in {-1, 0, 1}, faults' \in 0..MaxFaults,
         \/ UNCHANGED <<status, request>>
         \/ status' = "busy" /\ request' = MessageOf(f)
  PROVE  BusInv'
<1>1. CASE Stage(f) = "tuner"
  <2>1. th[f].op = "tune" /\ th[f].stage = 3
    BY <1>1, HolderTypes, StageOf
  <2>2. /\ th' = [th EXCEPT ![f].at = "xfer", ![f].stage = @ + 1,
                            ![f].msg = 1, ![f].bad = TRUE]
        /\ unsure' = unsure
    BY <1>1 DEF XferFailed
  <2>3. /\ th'[f] = [th[f] EXCEPT !.at = "xfer", !.stage = 4, !.msg = 1, !.bad = TRUE]
        /\ StepsOnly(f)
    <3>1. th[f] \in CallRecord /\ th[f].stage + 1 = 4
      BY <2>1, HolderTypes
    <3> DEFINE c == [th[f] EXCEPT !.at = "xfer", !.stage = 4, !.msg = 1, !.bad = TRUE]
    <3>2. c \in CallRecord
      BY <3>1, TunerFailed
    <3>3. th' = [th EXCEPT ![f] = c]
      BY <2>2, <3>1
    <3> HIDE DEF c
    <3>4. th'[f] = c /\ StepsOnly(f)
      BY <3>2, <3>3, HolderTypes DEF StepsOnly
    <3> QED
      BY <3>4 DEF c
  <2>4. /\ th'[f].at = "xfer" /\ th'[f].op = "tune" /\ th'[f].stage = 4
        /\ th'[f].msg = 1 /\ th'[f].bad = TRUE /\ th'[f].ch = th[f].ch
    <3>1. th[f] \in CallRecord
      BY HolderTypes
    <3>2. th[f].op = "tune"
      BY <2>1
    <3> QED
      BY <2>3, <3>1, <3>2, TunerFailed, Zenon
  <2>5. Shape(f)'
    BY <2>1, <2>4, HolderTypes DEF Shape, InXfer, InCapture, XferSteps
  <2>6. Tuned(f)' /\ Window(f)'
    BY <2>4 DEF Tuned, Fine, Window, InXfer, XferSteps
  <2>7. TypeOK'
    BY <2>2, <2>3, HolderTypes, StepTyped
  <2> QED
    BY <2>2, <2>3, <2>4, <2>5, <2>6, <2>7, StepKeeps
<1>2. CASE Stage(f) # "tuner"
  <2>1. /\ th' = [th EXCEPT ![f].at = "ret", ![f].bad = TRUE]
        /\ unsure' = IF Stage(f) \in {"select", "deselect"}
                     THEN unsure \union {<<"gate", f>>} ELSE unsure
    BY <1>2 DEF XferFailed, Fail
  <2>2. /\ th'[f] = [th[f] EXCEPT !.at = "ret", !.bad = TRUE]
        /\ StepsOnly(f)
    BY <2>1, FailMoves DEF Fail
  <2>3. /\ th'[f].at = "ret" /\ th'[f].bad = TRUE
        /\ th'[f].op = th[f].op /\ th'[f].ch = th[f].ch
    BY <2>2, HolderTypes DEF CallRecord
  <2>4. Shape(f)' /\ Tuned(f)'
    BY <2>3, HolderTypes DEF Shape, InXfer, InCapture, XferSteps, Tuned, Fine
  <2>5. unsure' \subseteq {"gate", "ts"} \X Frontends
    BY <2>1, HolderTypes
  <2>6. ASSUME f \in gate \/ Opens(f)'
        PROVE  <<"gate", f>> \in unsure'
    <3>1. CASE Stage(f) \in {"select", "deselect"}
      BY <2>1, <3>1
    <3>2. CASE Stage(f) \notin {"select", "deselect"}
      <4>1. th[f].stage = 1
        BY <1>2, <3>2, HolderTypes, StageOf
      <4>2. f \in gate \/ Opens(f)
        BY <2>6, <4>1, HolderTypes, MessageIs DEF Opens, Pending
      <4>3. ~Window(f)
        BY <4>1 DEF Window
      <4> QED
        BY <2>1, <4>2, <4>3, OthersIdle DEF BusInv, Gates
    <3> QED
      BY <3>1, <3>2
  <2>7. TypeOK'
    BY <2>2, <2>5, HolderTypes, StepTyped
  <2>8. /\ \A g \in Frontends \ {f} :
              <<"gate", g>> \in unsure' <=> <<"gate", g>> \in unsure
        /\ \A g \in Frontends : <<"ts", g>> \in unsure => <<"ts", g>> \in unsure'
    BY <2>1
  <2> QED
    BY <2>2, <2>3, <2>4, <2>6, <2>7, <2>8, StepKeeps
<1> QED
  BY <1>1, <1>2

\* From one step of a transfer to the next one before the poll.
LEMMA MoveKeeps ==
  ASSUME BusInv, NEW f \in Frontends, holder = f, InXfer(f), th[f].at # "poll",
         NEW at \in {"busRead", "busWrite", "msg"}, Goto(f, at),
         UNCHANGED <<status, request, gate, channel, tsEnable, setup, capture,
                     holder, unsure>>,
         busBit' \in {0, 1}, curBus' \in {-1, 0, 1}, faults' \in 0..MaxFaults
  PROVE  BusInv'
<1>1. th'[f] = [th[f] EXCEPT !.at = at] /\ StepsOnly(f)
  BY HolderTypes DEF Goto, StepsOnly, CallRecord, CallSteps
<1>2. /\ th'[f].at = at /\ th'[f].bad = th[f].bad /\ th'[f].stage = th[f].stage
      /\ th'[f].op = th[f].op /\ th'[f].ch = th[f].ch /\ th'[f].msg = th[f].msg
  BY <1>1, HolderTypes DEF CallRecord
<1>3. InXfer(f)' /\ ~InCapture(f)' /\ Window(f)' = Window(f)
  BY <1>2 DEF InXfer, XferSteps, InCapture, Window
<1>4. Shape(f)'
  BY <1>2, <1>3, HolderTypes DEF Shape
<1>5. Tuned(f)'
  BY <1>2, <1>3, HolderTypes DEF Tuned, Fine, Past, Pending, InXfer, XferSteps
<1>6. TypeOK'
  BY <1>1, HolderTypes, StepTyped
<1>7. f \in gate \/ Opens(f)' => Window(f)' \/ <<"gate", f>> \in unsure'
  BY <1>3, OthersIdle DEF Opens, Pending, BusInv, Gates
<1> QED
  BY <1>1, <1>2, <1>4, <1>5, <1>6, <1>7, StepKeeps

\* A message that went out is the one the bridge works on.
LEMMA SentKeeps ==
  ASSUME BusInv, NEW f \in Frontends, holder = f, th[f].at = "msg", Goto(f, "poll"),
         status' = "busy", request' = MessageOf(f),
         UNCHANGED <<busBit, gate, channel, tsEnable, setup, curBus, capture,
                     holder, unsure, faults>>
  PROVE  BusInv'
<1>1. th'[f] = [th[f] EXCEPT !.at = "poll"] /\ StepsOnly(f)
  BY HolderTypes DEF Goto, StepsOnly, CallRecord, CallSteps
<1>2. /\ th'[f].at = "poll" /\ th'[f].bad = th[f].bad /\ th'[f].stage = th[f].stage
      /\ th'[f].op = th[f].op /\ th'[f].ch = th[f].ch /\ th'[f].msg = th[f].msg
  BY <1>1, HolderTypes DEF CallRecord
<1>3. InXfer(f) /\ InXfer(f)' /\ ~InCapture(f)'
  BY <1>2 DEF InXfer, XferSteps, InCapture
<1>4. Shape(f)'
  BY <1>2, <1>3, HolderTypes DEF Shape
<1>5. Tuned(f)'
  BY <1>2, <1>3, HolderTypes DEF Tuned, Fine, Past
<1>6. busBit \in {0, 1} /\ curBus \in {-1, 0, 1} /\ faults \in 0..MaxFaults
  BY HolderTypes DEF TypeOK
<1>7. TypeOK'
  BY <1>1, <1>3, <1>6, HolderTypes, StepTyped
<1>8. MessageOf(f)' = MessageOf(f)
  BY <1>2 DEF MessageOf, Stage
<1>9. f \in gate \/ Opens(f)' => Window(f)' \/ <<"gate", f>> \in unsure'
  <2>1. CASE f \in gate
    <3>1. Window(f) \/ <<"gate", f>> \in unsure
      BY <2>1, OthersIdle DEF BusInv, Gates
    <3>2. Window(f) => Window(f)'
      BY <1>2, <1>3 DEF Window
    <3> QED
      BY <3>1, <3>2
  <2>2. CASE Opens(f)'
    <3>1. th[f].op = "tune" /\ th[f].stage = 2
      BY <1>3, <2>2, HolderTypes, MessageIs DEF Opens
    <3> QED
      BY <1>2, <1>3, <3>1 DEF Window
  <2> QED
    BY <2>1, <2>2
<1> QED
  BY <1>1, <1>2, <1>3, <1>4, <1>5, <1>7, <1>8, <1>9, StepKeeps

\* A read goes on to its second message.
LEMMA NextMessageKeeps ==
  ASSUME BusInv, NEW f \in Frontends, holder = f, th[f].at = "poll",
         ~LastMessage(th[f]),
         th' = [th EXCEPT ![f].at = "msg", ![f].msg = @ + 1],
         UNCHANGED <<device, setup, curBus, capture, holder, unsure, faults>>
  PROVE  BusInv'
<1>1. InXfer(f)
  BY DEF InXfer, XferSteps
<1>2. th[f].op = "status" /\ th[f].stage = 1 /\ th[f].msg = 1
  <2>1. th[f].msg \in 1..2 /\ th[f].stage \in 1..4
    BY HolderTypes DEF CallRecord
  <2>2. CASE th[f].op = "tune"
    <3>1. th[f].msg = 1
      BY <1>1, <2>1, <2>2, HolderTypes DEF Shape
    <3>2. Messages(Stage(f)) = 1
      BY <1>1, <2>1, <2>2, HolderTypes, StageOf DEF Messages
    <3> QED
      BY <3>1, <3>2 DEF LastMessage, Stage
  <2>3. CASE th[f].op = "status"
    <3>1. Messages(Stage(f)) = 2 /\ th[f].stage = 1
      BY <1>1, <2>3, HolderTypes, StageOf DEF Messages
    <3> QED
      BY <2>1, <2>3, <3>1 DEF LastMessage, Stage
  <2> QED
    BY <1>1, <2>2, <2>3, HolderTypes DEF Shape
<1>3. th'[f] = [th[f] EXCEPT !.at = "msg", !.msg = 2] /\ StepsOnly(f)
  BY <1>2, HolderTypes DEF StepsOnly, CallRecord, CallSteps
<1>4. /\ th'[f].at = "msg" /\ th'[f].op = "status" /\ th'[f].stage = 1
      /\ th'[f].msg = 2
  BY <1>2, <1>3, HolderTypes DEF CallRecord
<1>5. Shape(f)' /\ Tuned(f)'
  BY <1>4 DEF Shape, InXfer, XferSteps, InCapture, Tuned, Fine
<1>6. UNCHANGED <<busBit, status, request, gate, channel, tsEnable>>
  BY DEF device
<1>7. busBit \in {0, 1} /\ curBus \in {-1, 0, 1} /\ faults \in 0..MaxFaults
  BY HolderTypes DEF TypeOK
<1>8. TypeOK'
  BY <1>3, <1>6, <1>7, HolderTypes, StepTyped
<1>9. f \in gate \/ Opens(f)' => <<"gate", f>> \in unsure
  <2>1. ~Window(f)
    BY <1>2 DEF Window
  <2> QED
    BY <1>6, <2>1, OthersIdle DEF Opens, Pending, BusInv, Gates
<1> QED
  BY <1>3, <1>4, <1>5, <1>6, <1>8, <1>9, StepKeeps

\* A transfer is done: the bridge has answered its last message, so what the
\* message was for has been achieved.
LEMMA XferDoneKeeps ==
  ASSUME BusInv, NEW f \in Frontends, holder = f, th[f].at = "poll", status = "ok",
         XferDone(f),
         UNCHANGED <<device, setup, curBus, capture, holder, faults>>
  PROVE  BusInv'
<1>1. InXfer(f) /\ Took(f) /\ ~Pending
  BY DEF InXfer, XferSteps, BusInv, Answered, Pending
<1>2. UNCHANGED <<busBit, status, request, gate, channel, tsEnable>>
  BY DEF device
<1>3. busBit \in {0, 1} /\ curBus \in {-1, 0, 1} /\ faults \in 0..MaxFaults
  BY HolderTypes DEF TypeOK
<1>4. /\ unsure' = IF Stage(f) = "deselect" THEN unsure \ {<<"gate", f>>} ELSE unsure
      /\ unsure' \subseteq {"gate", "ts"} \X Frontends
      /\ \A g \in Frontends \ {f} :
            <<"gate", g>> \in unsure' <=> <<"gate", g>> \in unsure
      /\ \A g \in Frontends : <<"ts", g>> \in unsure => <<"ts", g>> \in unsure'
  BY HolderTypes DEF XferDone
<1> DEFINE last == Len(Stages(th[f].op))
<1>5. /\ th[f].op = "status" => last = 1 /\ th[f].stage = 1
      /\ th[f].op = "tune" => last = 4
      /\ th[f].op \in {"tune", "status"} /\ th[f].stage \in 1..4
  BY <1>1, HolderTypes, StageOf, StagesOf
<1> DEFINE stage == IF th[f].stage < last THEN th[f].stage + 1 ELSE th[f].stage
           at == IF th[f].stage < last THEN "xfer"
                 ELSE IF th[f].op = "tune" /\ ~th[f].bad /\ f \notin capture
                 THEN "pkt" ELSE "ret"
<1>6. th' = [th EXCEPT ![f].msg = 1, ![f].stage = stage, ![f].at = at]
  BY DEF XferDone
<1> HIDE DEF last
<1>7. /\ stage \in 1..4 /\ at \in {"xfer", "pkt", "ret"}
      /\ th[f].op = "status" => at = "ret"
      /\ th[f].op = "tune" /\ th[f].stage \in 1..3 =>
            at = "xfer" /\ stage = th[f].stage + 1
      /\ th[f].op = "tune" /\ th[f].stage = 4 =>
            /\ at \in {"pkt", "ret"} /\ stage = 4
            /\ at = "pkt" => ~th[f].bad
            /\ at = "ret" /\ ~th[f].bad => f \in capture
  <2>1. CASE th[f].op = "status"
    <3>1. ~(th[f].stage < last) /\ th[f].op # "tune"
      BY <1>5, <2>1
    <3> QED
      BY <1>5, <2>1, <3>1
  <2>2. CASE th[f].op = "tune" /\ th[f].stage \in 1..3
    <3>1. th[f].stage < last
      BY <1>5, <2>2
    <3>2. at = "xfer" /\ stage = th[f].stage + 1
      BY <3>1
    <3> QED
      BY <2>2, <3>2
  <2>3. CASE th[f].op = "tune" /\ th[f].stage = 4
    <3>1. ~(th[f].stage < last)
      BY <1>5, <2>3
    <3>2. stage = 4
      BY <2>3, <3>1
    <3>3. CASE th[f].bad \/ f \in capture
      BY <2>3, <3>1, <3>2, <3>3
    <3>4. CASE ~th[f].bad /\ f \notin capture
      BY <2>3, <3>1, <3>2, <3>4
    <3> QED
      BY <3>3, <3>4
  <2> QED
    BY <1>5, <2>1, <2>2, <2>3
<1> HIDE DEF stage, at
<1>8. th'[f] = [th[f] EXCEPT !.msg = 1, !.stage = stage, !.at = at]
  BY <1>6, HolderTypes
<1>9. /\ th'[f].msg = 1 /\ th'[f].stage = stage /\ th'[f].at = at
      /\ th'[f].op = th[f].op /\ th'[f].bad = th[f].bad /\ th'[f].ch = th[f].ch
      /\ th'[f].seen = th[f].seen
  BY <1>8, HolderTypes DEF CallRecord
<1>10. th'[f] \in CallRecord
  <2>1. at \in CallSteps
    BY <1>7 DEF CallSteps
  <2>2. th[f] \in CallRecord /\ stage \in 1..4 /\ 1 \in 1..2
    BY <1>7, HolderTypes
  <2> QED
    BY <1>8, <2>1, <2>2 DEF CallRecord
<1>11. StepsOnly(f)
  BY <1>6, <1>10, HolderTypes DEF StepsOnly
<1>12. Shape(f)'
  BY <1>5, <1>7, <1>9, HolderTypes DEF Shape, InXfer, InCapture, XferSteps
<1>13. Tuned(f)'
  <2> SUFFICES ASSUME Fine(f)'
               PROVE  /\ Past(f, 1)' => channel[<<"demod", f>>] = th[f].ch
                      /\ Past(f, 3)' => channel[<<"tuner", f>>] = th[f].ch
                      /\ at = "ret" => f \in capture
    BY <1>1, <1>2, <1>7, <1>9 DEF Tuned, Pending
  <2>1. Fine(f) /\ th[f].op = "tune"
    BY <1>9 DEF Fine
  <2>2. channel[<<"demod", f>>] = th[f].ch
    <3>1. CASE th[f].stage = 1
      BY <1>1, <2>1, <3>1 DEF Took
    <3>2. CASE th[f].stage # 1
      <4>1. Past(f, 1)
        BY <1>5, <3>2 DEF Past
      <4> QED
        BY <2>1, <4>1, HolderTypes DEF Tuned
    <3> QED
      BY <3>1, <3>2
  <2>3. th[f].stage \in {3, 4} => channel[<<"tuner", f>>] = th[f].ch
    <3>1. CASE th[f].stage = 3
      BY <1>1, <2>1, <3>1 DEF Took
    <3>2. CASE th[f].stage = 4
      <4>1. Past(f, 3)
        BY <3>2 DEF Past
      <4> QED
        BY <2>1, <4>1, HolderTypes DEF Tuned
    <3> QED
      BY <3>1, <3>2
  <2>4. Past(f, 3)' => th[f].stage \in {3, 4}
    BY <1>5, <1>7, <1>9, <2>1 DEF Past, InXfer, XferSteps
  <2>5. at = "ret" => f \in capture
    BY <1>5, <1>7, <2>1 DEF Fine
  <2> QED
    BY <2>2, <2>3, <2>4, <2>5
<1>14. f \in gate \/ Opens(f)' => Window(f)' \/ <<"gate", f>> \in unsure'
  <2> SUFFICES ASSUME f \in gate
               PROVE  Window(f)' \/ <<"gate", f>> \in unsure'
    BY <1>1, <1>2 DEF Opens, Pending
  <2>1. Window(f) \/ <<"gate", f>> \in unsure
    BY OthersIdle DEF BusInv, Gates
  <2>2. CASE th[f].op = "tune" /\ th[f].stage \in {2, 3}
    BY <1>7, <1>9, <2>2 DEF Window, InXfer, XferSteps
  <2>3. CASE th[f].op = "tune" /\ th[f].stage = 4
    BY <1>1, <2>3 DEF Took
  <2>4. CASE th[f].op = "status" \/ th[f].stage = 1
    <3>1. ~Window(f)
      BY <2>4 DEF Window
    <3>2. Stage(f) # "deselect"
      BY <1>1, <2>4, HolderTypes, StageOf
    <3> QED
      BY <1>4, <2>1, <3>1, <3>2
  <2> QED
    BY <1>5, <2>2, <2>3, <2>4
<1>15. TypeOK'
  BY <1>2, <1>3, <1>4, <1>11, HolderTypes, StepTyped
<1> QED
  BY <1>2, <1>4, <1>7, <1>9, <1>11, <1>12, <1>13, <1>14, <1>15, StepKeeps

\* capture_start or capture_stop goes on to its next transfer, or gives up before
\* it has written the register.
LEMMA CaptureKeeps ==
  ASSUME BusInv, NEW f \in Frontends, holder = f, th[f].at \in {"pkt", "tsRead"},
         \/ Goto(f, "tsRead")
         \/ th' = [th EXCEPT ![f].at = "tsWrite", ![f].seen = tsEnable]
         \/ Fail(f),
         UNCHANGED <<device, setup, curBus, capture, holder, unsure>>,
         faults' \in 0..MaxFaults
  PROVE  BusInv'
<1>1. UNCHANGED <<busBit, status, request, gate, channel, tsEnable>>
  BY DEF device
<1>2. busBit \in {0, 1} /\ curBus \in {-1, 0, 1} /\ tsEnable \subseteq Frontends
  BY HolderTypes DEF TypeOK
<1>3. InCapture(f) /\ ~InXfer(f) /\ ~Window(f)
  BY DEF InCapture, InXfer, XferSteps, Window
<1>4. f \in gate \/ Opens(f)' => <<"gate", f>> \in unsure
  BY <1>1, <1>3, OthersIdle DEF Opens, Pending, BusInv, Gates
<1>5. CASE Fail(f)
  <2>1. th'[f] = [th[f] EXCEPT !.at = "ret", !.bad = TRUE] /\ StepsOnly(f)
    BY <1>5, FailMoves
  <2>2. /\ th'[f].at = "ret" /\ th'[f].bad = TRUE
        /\ th'[f].op = th[f].op /\ th'[f].ch = th[f].ch
    BY <2>1, HolderTypes DEF CallRecord
  <2>3. Shape(f)' /\ Tuned(f)'
    BY <2>2, HolderTypes DEF Shape, InXfer, InCapture, XferSteps, Tuned, Fine
  <2>4. TypeOK'
    BY <1>1, <1>2, <2>1, HolderTypes, StepTyped
  <2> QED
    BY <1>1, <1>4, <2>1, <2>2, <2>3, <2>4, StepKeeps
<1>6. CASE \/ Goto(f, "tsRead")
           \/ th' = [th EXCEPT ![f].at = "tsWrite", ![f].seen = tsEnable]
  <2>1. /\ th'[f] \in CallRecord
        /\ th'[f].at \in {"tsRead", "tsWrite"}
        /\ th'[f].at = "tsWrite" => th'[f].seen = tsEnable
        /\ th'[f].op = th[f].op /\ th'[f].ch = th[f].ch /\ th'[f].bad = th[f].bad
    <3>1. CASE Goto(f, "tsRead")
      <4>1. th'[f] = [th[f] EXCEPT !.at = "tsRead"]
        BY <3>1, HolderTypes DEF Goto
      <4> QED
        BY <4>1, HolderTypes DEF CallRecord, CallSteps
    <3>2. CASE th' = [th EXCEPT ![f].at = "tsWrite", ![f].seen = tsEnable]
      <4>1. th'[f] = [th[f] EXCEPT !.at = "tsWrite", !.seen = tsEnable]
        BY <3>2, HolderTypes
      <4> QED
        BY <1>2, <4>1, HolderTypes DEF CallRecord, CallSteps
    <3> QED
      BY <1>6, <3>1, <3>2
  <2>2. StepsOnly(f)
    BY <1>6, <2>1, HolderTypes DEF StepsOnly, Goto
  <2>3. InCapture(f)' /\ ~InXfer(f)'
    BY <2>1 DEF InCapture, InXfer, XferSteps
  <2>4. Shape(f)'
    BY <1>3, <2>1, <2>3, HolderTypes DEF Shape
  <2>5. Tuned(f)'
    BY <1>1, <1>3, <2>1, <2>3, HolderTypes DEF Tuned, Fine, Past, Pending
  <2>6. TypeOK'
    BY <1>1, <1>2, <2>2, HolderTypes, StepTyped
  <2> QED
    BY <1>1, <1>4, <2>1, <2>2, <2>4, <2>5, <2>6, StepKeeps
<1> QED
  BY <1>5, <1>6

\* The write of the register that holds the bits of both frontends: the value it
\* starts from is still what the register holds, so only f's bit changes.
LEMMA TsWriteKeeps ==
  ASSUME BusInv, NEW f \in Frontends, holder = f, NEW out \in Outcome, TsWrite(f, out),
         faults' \in 0..MaxFaults
  PROVE  BusInv'
<1>1. /\ th[f].at = "tsWrite" /\ th[f].seen = tsEnable
      /\ UNCHANGED <<busBit, status, request, gate, channel, setup, curBus, holder>>
      /\ tsEnable' = IF Effect(out) THEN NewBits(f) ELSE tsEnable
  BY DEF TsWrite, BusInv, Register
<1>2. /\ Up /\ setup = 10 /\ setup' = 10 /\ Up' /\ InCapture(f) /\ ~InXfer(f) /\ ~Window(f)
      /\ \A g \in Frontends \ {f} : th[g].at = "idle"
  BY <1>1, OthersIdle DEF InCapture, InXfer, XferSteps, Window, Up
<1>3. NewBits(f) = IF th[f].op = "tune" THEN tsEnable \union {f} ELSE tsEnable \ {f}
  BY <1>1 DEF NewBits
<1>4. \A g \in Frontends \ {f} : g \in tsEnable' <=> g \in tsEnable
  BY <1>1, <1>3
<1>5. /\ StepsOnly(f) /\ th'[f].at = "ret"
      /\ th'[f].op = th[f].op /\ th'[f].ch = th[f].ch
      /\ th'[f].bad = (th[f].bad \/ out # "done")
  <2>1. CASE out = "done"
    <3>1. th'[f] = [th[f] EXCEPT !.at = "ret"] /\ StepsOnly(f)
      BY <2>1, HolderTypes DEF TsWrite, Goto, StepsOnly, CallRecord, CallSteps
    <3> QED
      BY <2>1, <3>1, HolderTypes DEF CallRecord
  <2>2. CASE out # "done"
    <3>1. th'[f] = [th[f] EXCEPT !.at = "ret", !.bad = TRUE] /\ StepsOnly(f)
      BY <2>2, FailMoves DEF TsWrite
    <3> QED
      BY <2>2, <3>1, HolderTypes DEF CallRecord
  <2> QED
    BY <2>1, <2>2
<1>6. /\ capture' \subseteq Frontends /\ tsEnable' \subseteq Frontends
      /\ unsure' \subseteq {"gate", "ts"} \X Frontends
      /\ \A g \in Frontends \ {f} : g \in capture' <=> g \in capture
      /\ \A g \in Frontends \ {f} : <<"ts", g>> \in unsure' <=> <<"ts", g>> \in unsure
      /\ \A g \in Frontends : <<"gate", g>> \in unsure' <=> <<"gate", g>> \in unsure
  <2>1. /\ capture' \in {capture, capture \union {f}, capture \ {f}}
        /\ unsure' \in {unsure \ {<<"ts", f>>}, unsure \union {<<"ts", f>>}}
    BY DEF TsWrite
  <2>2. capture \subseteq Frontends /\ tsEnable \subseteq Frontends
    BY HolderTypes DEF TypeOK
  <2> QED
    BY <1>1, <1>3, <2>1, <2>2, HolderTypes
<1>7. <<"ts", f>> \in unsure' \/ (f \in capture' <=> f \in tsEnable')
  <2>1. CASE out = "done"
    <3>1. Effect(out) /\ capture' = IF th[f].op = "tune" THEN capture \union {f}
                                    ELSE capture \ {f}
      BY <2>1 DEF TsWrite, Effect
    <3> QED
      BY <1>1, <1>3, <3>1
  <2>2. CASE out # "done"
    BY <2>2 DEF TsWrite
  <2> QED
    BY <2>1, <2>2
<1>8. TypeOK'
  BY <1>1, <1>5, <1>6, HolderTypes DEF TypeOK, StepsOnly, CallRecord, CallSteps
<1>9. Shape(f)'
  BY <1>5, HolderTypes DEF Shape, InXfer, InCapture, XferSteps
<1>10. Tuned(f)'
  <2> SUFFICES ASSUME Fine(f)'
               PROVE  /\ channel[<<"demod", f>>] = th[f].ch
                      /\ channel[<<"tuner", f>>] = th[f].ch
                      /\ ~Pending /\ f \in capture'
    BY <1>1, <1>5 DEF Tuned, Pending
  <2>1. Fine(f) /\ out = "done" /\ th[f].op = "tune"
    BY <1>5 DEF Fine
  <2>2. f \in capture'
    BY <2>1 DEF TsWrite
  <2> QED
    BY <1>1, <1>2, <2>1, <2>2, HolderTypes DEF Tuned, Past
<1>11. \A g \in Frontends : Shape(g)' /\ Tuned(g)'
  <2>1. Pending' => Pending /\ request' = request
    BY <1>1 DEF Pending
  <2> QED
    BY <1>1, <1>5, <1>6, <1>9, <1>10, <2>1, OthersKeep
<1>12. Serial'
  BY <1>1, <1>2, <1>5, BusAssumption DEF Serial, BusAssumption, BusInv, StepsOnly
<1>13. Answered'
  <2>1. \A g \in Frontends : th'[g].at # "poll"
    BY <1>2, <1>5 DEF StepsOnly
  <2> QED
    BY <1>1, <2>1 DEF Answered, Pending, BusInv
<1>14. Gates'
  <2>1. ASSUME NEW g \in Frontends, g \in gate' \/ Opens(g)'
        PROVE  <<"gate", g>> \in unsure'
    <3>1. g \in gate \/ Opens(g)
      BY <1>1, <2>1 DEF Opens, Pending
    <3>2. ~Window(g)
      BY <1>2 DEF Window, InXfer, XferSteps
    <3> QED
      BY <1>2, <1>6, <3>1, <3>2 DEF BusInv, Gates
  <2> QED
    BY <2>1 DEF Gates
<1>15. Register'
  <2>1. \A g \in Frontends : <<"ts", g>> \in unsure' \/ (g \in capture' <=> g \in tsEnable')
    BY <1>2, <1>4, <1>6, <1>7 DEF BusInv, Register, CaptureMatchesRegister
  <2>2. \A g \in Frontends : th'[g].at # "tsWrite"
    BY <1>2, <1>5 DEF StepsOnly
  <2> QED
    BY <2>1, <2>2 DEF Register, CaptureMatchesRegister
<1>16. Fresh'
  BY <1>2 DEF Fresh
<1> QED
  BY <1>8, <1>11, <1>12, <1>13, <1>14, <1>15, <1>16 DEF BusInv, TypeInv

LEMMA ReturnKeeps ==
  ASSUME BusInv, NEW f \in Frontends, holder = f, Return(f)
  PROVE  BusInv'
<1>1. /\ th[f].at = "ret" /\ holder' = None
      /\ UNCHANGED <<busBit, status, request, gate, channel, tsEnable, setup, curBus,
                     capture, unsure, faults>>
  BY DEF Return, device
<1>2. LastTuneOk(f) <=> Fine(f)
  BY <1>1 DEF LastTuneOk, Fine
<1>3. /\ StepsOnly(f) /\ th'[f].at = "idle"
      /\ Fine(f) => th'[f].op = "tune" /\ th'[f].ch = th[f].ch /\ th'[f].bad = FALSE
      /\ ~Fine(f) => th'[f].op = "none"
  <2>1. th' = [th EXCEPT ![f] = IF LastTuneOk(f)
                                THEN [Idle EXCEPT !.op = "tune", !.ch = th[f].ch]
                                ELSE Idle]
    BY DEF Return
  <2>2. Idle \in CallRecord
    BY DEF Idle, CallRecord, CallSteps
  <2>3. [Idle EXCEPT !.op = "tune", !.ch = th[f].ch] \in CallRecord
    BY <2>2, HolderTypes DEF Idle, CallRecord, CallSteps
  <2> QED
    BY <1>2, <2>1, <2>2, <2>3, HolderTypes DEF StepsOnly, Idle
<1>4. Shape(f)'
  BY <1>3, HolderTypes DEF Shape, InXfer, InCapture, XferSteps, Fine
<1>5. Tuned(f)'
  <2> SUFFICES ASSUME Fine(f)'
               PROVE  /\ channel[<<"demod", f>>] = th'[f].ch
                      /\ channel[<<"tuner", f>>] = th'[f].ch
                      /\ ~Pending /\ f \in capture
    BY <1>1, <1>3 DEF Tuned, Pending
  <2>1. Fine(f) /\ ~InXfer(f)
    BY <1>1, <1>3 DEF Fine, InXfer, XferSteps
  <2> QED
    BY <1>1, <1>3, <2>1, HolderTypes DEF Tuned, Past
<1>6. TypeOK'
  BY <1>1, <1>3, HolderTypes, StepTyped DEF TypeOK
<1>7. f \in gate \/ Opens(f)' => <<"gate", f>> \in unsure
  <2>1. ~Window(f)
    BY <1>1 DEF Window, InXfer, XferSteps
  <2> QED
    BY <1>1, <2>1, OthersIdle DEF Opens, Pending, BusInv, Gates
<1> QED
  BY <1>1, <1>3, <1>4, <1>5, <1>6, <1>7, StepKeeps

\* A call never runs without bridge_lock, and every step it takes keeps the
\* invariant.
LEMMA ThreadKeeps ==
  ASSUME BusInv, NEW f \in Frontends, Thread(f)
  PROVE  BusInv'
<1>1. th[f].at # "idle"
  BY DEF Thread, Transfer, StartXfer, BusRead, BusWrite, SendMessage, Poll,
     PacketSize, TsRead, TsWrite, Return
<1>2. holder = f
  BY <1>1 DEF BusInv, Serial
<1>3. /\ busBit \in {0, 1} /\ curBus \in {-1, 0, 1} /\ faults \in 0..MaxFaults
      /\ Bus \in {0, 1} /\ MaxFaults \in Nat
  BY HolderTypes, BusAssumption DEF TypeOK, BusAssumption
<1>4. \A out \in Outcome : Costs(out) => faults' \in 0..MaxFaults
  BY <1>3 DEF Costs
<1>5. CASE StartXfer(f)
  <2>1. InXfer(f) /\ th[f].at # "poll"
    BY <1>5 DEF StartXfer, InXfer, XferSteps
  <2>2. PICK at \in {"busRead", "msg"} : Goto(f, at)
    BY <1>5 DEF StartXfer
  <2>3. UNCHANGED <<busBit, status, request, gate, channel, tsEnable, setup, curBus,
                    capture, holder, unsure, faults>>
    BY <1>5 DEF StartXfer, device
  <2> QED
    BY <1>2, <1>3, <2>1, <2>2, <2>3, MoveKeeps
<1>6. ASSUME NEW out \in Outcome, BusRead(f, out)
      PROVE  BusInv'
  <2>1. /\ InXfer(f) /\ th[f].at # "poll" /\ faults' \in 0..MaxFaults
        /\ UNCHANGED <<busBit, status, request, gate, channel, tsEnable, setup, curBus,
                       capture, holder>>
    BY <1>4, <1>6 DEF BusRead, device, InXfer, XferSteps
  <2>2. CASE Goto(f, "busWrite") /\ UNCHANGED unsure
    BY <1>2, <1>3, <2>1, <2>2, MoveKeeps
  <2>3. CASE XferFailed(f)
    BY <1>2, <1>3, <2>1, <2>3, XferFailedKeeps
  <2> QED
    BY <1>6, <2>2, <2>3 DEF BusRead
<1>7. ASSUME NEW out \in Outcome, BusWrite(f, out)
      PROVE  BusInv'
  <2>1. /\ InXfer(f) /\ th[f].at # "poll" /\ faults' \in 0..MaxFaults
        /\ busBit' \in {0, 1} /\ curBus' \in {-1, 0, 1}
        /\ UNCHANGED <<status, request, gate, channel, tsEnable, setup, capture, holder>>
    BY <1>3, <1>4, <1>7 DEF BusWrite, KnownBus, InXfer, XferSteps
  <2>2. CASE Goto(f, "msg") /\ UNCHANGED unsure
    BY <1>2, <2>1, <2>2, MoveKeeps
  <2>3. CASE XferFailed(f)
    BY <1>2, <2>1, <2>3, XferFailedKeeps
  <2> QED
    BY <1>7, <2>2, <2>3 DEF BusWrite
<1>8. ASSUME NEW out \in Outcome, SendMessage(f, out)
      PROVE  BusInv'
  <2>1. /\ th[f].at = "msg" /\ InXfer(f) /\ faults' \in 0..MaxFaults
        /\ UNCHANGED <<busBit, gate, channel, tsEnable, setup, curBus, capture, holder>>
        /\ \/ UNCHANGED <<status, request>>
           \/ status' = "busy" /\ request' = MessageOf(f)
    BY <1>4, <1>8 DEF SendMessage, InXfer, XferSteps
  <2>2. CASE out = "done"
    <3>1. /\ status' = "busy" /\ request' = MessageOf(f)
          /\ Goto(f, "poll") /\ UNCHANGED <<unsure, faults>>
      BY <1>8, <2>2 DEF SendMessage, Effect, Costs
    <3> QED
      BY <1>2, <2>1, <3>1, SentKeeps
  <2>3. CASE out # "done"
    <3>1. XferFailed(f)
      BY <1>8, <2>3 DEF SendMessage
    <3> QED
      BY <1>2, <1>3, <2>1, <3>1, XferFailedKeeps
  <2> QED
    BY <2>2, <2>3
<1>9. ASSUME NEW out \in Outcome, Poll(f, out)
      PROVE  BusInv'
  <2>1. /\ th[f].at = "poll" /\ InXfer(f) /\ faults' \in 0..MaxFaults
        /\ UNCHANGED <<device, setup, curBus, capture, holder>>
        /\ UNCHANGED <<busBit, status, request, gate, channel, tsEnable>>
    BY <1>4, <1>9 DEF Poll, InXfer, XferSteps, device
  <2>2. CASE out = "done" /\ Succeeded(status)
    <3>1. status = "ok" /\ UNCHANGED faults
      BY <1>9, <2>2 DEF Poll, Costs, Succeeded
    <3>2. CASE LastMessage(th[f])
      <4>1. XferDone(f)
        BY <1>9, <2>2, <3>2 DEF Poll
      <4> QED
        BY <1>2, <2>1, <3>1, <4>1, XferDoneKeeps
    <3>3. CASE ~LastMessage(th[f])
      <4>1. /\ th' = [th EXCEPT ![f].at = "msg", ![f].msg = @ + 1]
            /\ UNCHANGED unsure
        BY <1>9, <2>2, <3>3 DEF Poll
      <4> QED
        BY <1>2, <2>1, <3>1, <3>3, <4>1, NextMessageKeeps
    <3> QED
      BY <3>2, <3>3
  <2>3. CASE ~(out = "done" /\ Succeeded(status))
    <3>1. XferFailed(f)
      BY <1>9, <2>3 DEF Poll
    <3> QED
      BY <1>2, <1>3, <2>1, <3>1, XferFailedKeeps
  <2> QED
    BY <2>2, <2>3
<1>10. ASSUME NEW out \in Outcome, PacketSize(f, out) \/ TsRead(f, out)
       PROVE  BusInv'
  <2>1. /\ th[f].at \in {"pkt", "tsRead"} /\ faults' \in 0..MaxFaults
        /\ UNCHANGED <<device, setup, curBus, capture, holder, unsure>>
        /\ \/ Goto(f, "tsRead")
           \/ th' = [th EXCEPT ![f].at = "tsWrite", ![f].seen = tsEnable]
           \/ Fail(f)
    BY <1>4, <1>10 DEF PacketSize, TsRead
  <2> QED
    BY <1>2, <2>1, CaptureKeeps
<1>11. ASSUME NEW out \in Outcome, TsWrite(f, out)
       PROVE  BusInv'
  BY <1>2, <1>4, <1>11, TsWriteKeeps DEF TsWrite
<1>12. CASE Return(f)
  BY <1>2, <1>12, ReturnKeeps
<1> QED
  BY <1>5, <1>6, <1>7, <1>8, <1>9, <1>10, <1>11, <1>12 DEF Thread, Transfer

LEMMA BeginKeeps ==
  ASSUME BusInv, NEW f \in Frontends, NEW op \in {"tune", "status", "stop"},
         NEW ch \in Channels \union {None}, Begin(f, op, ch)
  PROVE  BusInv'
<1>1. /\ Up /\ holder = None /\ holder' = f
      /\ UNCHANGED <<busBit, status, request, gate, channel, tsEnable, setup, curBus,
                     capture, unsure, faults>>
  BY DEF Begin, device
<1>2. \A g \in Frontends : th[g].at = "idle"
  BY <1>1, BusAssumption DEF BusInv, Serial, BusAssumption
<1>3. /\ th'[f] = [Idle EXCEPT !.at = Entry(op), !.op = op, !.ch = ch]
      /\ StepsOnly(f)
  <2>1. Entry(op) \in CallSteps
    BY DEF Entry, CallSteps
  <2>2. Idle \in CallRecord
    BY DEF Idle, CallRecord, CallSteps
  <2>3. \A at \in CallSteps :
            [Idle EXCEPT !.at = at, !.op = op, !.ch = ch] \in CallRecord
    BY <2>2 DEF CallRecord
  <2> DEFINE call == [Idle EXCEPT !.at = Entry(op), !.op = op, !.ch = ch]
  <2>4. call \in CallRecord
    BY <2>1, <2>3
  <2>5. th' = [th EXCEPT ![f] = call]
    BY DEF Begin
  <2> HIDE DEF call
  <2>6. th'[f] = call /\ StepsOnly(f)
    BY <2>4, <2>5, HolderTypes DEF StepsOnly
  <2> QED
    BY <2>6 DEF call
<1>4. /\ th'[f].at = Entry(op) /\ th'[f].op = op /\ th'[f].ch = ch
      /\ th'[f].stage = 1 /\ th'[f].msg = 1 /\ th'[f].bad = FALSE
      /\ op = "tune" => ch \in Channels
  <2>1. op = "tune" => ch # None
    BY DEF Begin
  <2> QED
    BY <1>3, <2>1 DEF Idle
<1>5. th'[f].at \in {"pkt", "xfer"} /\ (th'[f].at = "pkt" <=> op = "stop")
  BY <1>4 DEF Entry
<1>6. TypeOK'
  BY <1>1, <1>3, HolderTypes DEF TypeOK, StepsOnly, CallRecord, CallSteps
<1>7. Shape(f)' /\ Tuned(f)' /\ ~Window(f)'
  BY <1>4, <1>5 DEF Shape, InXfer, InCapture, XferSteps, Tuned, Fine, Past, Window
<1>8. ASSUME NEW g \in Frontends \ {f}
      PROVE  Shape(g)' /\ Tuned(g)' /\ ~Window(g)'
  <2>1. th'[g] = th[g] /\ th[g].at = "idle" /\ Shape(g) /\ Tuned(g)
    BY <1>2, <1>3, HolderTypes DEF StepsOnly
  <2> QED
    BY <1>1, <2>1
    DEF Shape, InXfer, InCapture, XferSteps, Tuned, Fine, Past, Pending, Window
<1>9. Serial'
  <2>1. th'[f].at # "idle" /\ holder' = f
    BY <1>1, <1>5
  <2>2. ASSUME NEW g \in Frontends \ {f} PROVE th'[g].at = "idle" /\ holder' # g
    BY <1>1, <1>2, <1>3 DEF StepsOnly
  <2>3. \A g \in Frontends : th'[g].at # "idle" <=> holder' = g
    BY <2>1, <2>2
  <2>4. Up'
    BY <1>1 DEF Up
  <2> QED
    BY <2>3, <2>4 DEF Serial
<1>10. Fresh'
  BY <1>1, BringUpSteps DEF Fresh, Up
<1>11. Answered'
  <2>1. \A g \in Frontends : th'[g].at # "poll"
    BY <1>2, <1>3, <1>5 DEF StepsOnly
  <2> QED
    BY <1>1, <2>1 DEF BusInv, Answered, Pending
<1>12. Gates'
  <2>1. ASSUME NEW g \in Frontends, g \in gate' \/ Opens(g)'
        PROVE  <<"gate", g>> \in unsure'
    <3>1. ~Window(g)
      BY <1>2 DEF Window, InXfer, XferSteps
    <3> QED
      BY <1>1, <2>1, <3>1 DEF BusInv, Gates, Opens, Pending
  <2> QED
    BY <2>1 DEF Gates
<1>13. Register'
  <2>1. \A g \in Frontends : th'[g].at # "tsWrite"
    BY <1>2, <1>3, <1>5 DEF StepsOnly
  <2> QED
    BY <1>1, <2>1 DEF BusInv, Register, CaptureMatchesRegister, Up
<1> QED
  BY <1>6, <1>7, <1>8, <1>9, <1>10, <1>11, <1>12, <1>13 DEF BusInv, TypeInv

\* The bridge answers: the message takes effect before it is reported, and no
\* other chip or gate changes.
LEMMA AnswerKeeps ==
  ASSUME BusInv, NEW answer \in {"ok", "nak"}, Answer(answer)
  PROVE  BusInv'
<1>1. /\ Pending /\ ~Pending' /\ status' = answer /\ request' = None
      /\ request \in Requests
      /\ UNCHANGED <<busBit, tsEnable, setup, curBus, capture, holder, th, unsure, faults>>
  BY DEF Answer, Pending, host, BusInv, Answered
<1>2. /\ request.chip \in Chip /\ request.chip[2] \in Frontends
      /\ request.ch \in Channels \union {None}
  BY <1>1 DEF Requests, Chip
<1>3. /\ \A c \in Chip : \/ channel'[c] = channel[c]
                         \/ /\ c = request.chip /\ request.act = "set"
                            /\ channel'[c] = request.ch
      /\ answer = "ok" /\ request.act = "set" => channel'[request.chip] = request.ch
      /\ channel' \in [Chip -> Channels \union {None}]
  BY <1>2, HolderTypes DEF Answer, BusInv, TypeInv, TypeOK
<1>4. /\ gate' \subseteq Frontends
      /\ \A g \in gate' : g \in gate \/ (request.act = "open" /\ g = request.chip[2])
      /\ answer = "ok" /\ request.act = "close" => request.chip[2] \notin gate'
  <2>1. gate \subseteq Frontends
    BY DEF BusInv, TypeInv, TypeOK
  <2>2. CASE answer # "ok"
    BY <2>1, <2>2 DEF Answer
  <2>3. CASE answer = "ok" /\ request.act = "open"
    BY <1>2, <2>1, <2>3 DEF Answer
  <2>4. CASE answer = "ok" /\ request.act = "close"
    BY <1>2, <2>1, <2>4 DEF Answer
  <2>5. CASE answer = "ok" /\ request.act \notin {"open", "close"}
    BY <2>1, <2>5 DEF Answer
  <2> QED
    BY <2>2, <2>3, <2>4, <2>5
<1>5. \A g \in Frontends : th[g].at = "poll" => request = MessageOf(g) /\ InXfer(g)
  BY <1>1 DEF BusInv, Answered, InXfer, XferSteps
<1>6. TypeOK'
  BY <1>1, <1>3, <1>4 DEF BusInv, TypeInv, TypeOK
<1>7. ASSUME NEW g \in Frontends
      PROVE  Shape(g)'
  BY <1>1 DEF BusInv, TypeInv, Shape, InXfer, InCapture
<1>8. Answered'
  <2>1. ASSUME NEW g \in Frontends, th[g].at = "poll", answer = "ok", th[g].op = "tune"
        PROVE  /\ th[g].stage = 1 => channel'[<<"demod", g>>] = th[g].ch
               /\ th[g].stage = 3 => channel'[<<"tuner", g>>] = th[g].ch
               /\ th[g].stage = 4 => g \notin gate'
    <3>1. request = MessageOf(g) /\ InXfer(g)
      BY <1>5, <2>1
    <3> QED
      BY <1>3, <1>4, <2>1, <3>1, HolderTypes, MessageIs
  <2> QED
    BY <1>1, <2>1 DEF Answered, Took
<1>9. ASSUME NEW g \in Frontends
      PROVE  Tuned(g)'
  <2> SUFFICES ASSUME Fine(g)
               PROVE  /\ Past(g, 1) => channel'[<<"demod", g>>] = th[g].ch
                      /\ Past(g, 3) => channel'[<<"tuner", g>>] = th[g].ch
                      /\ th[g].at \in {"ret", "idle"} => g \in capture
    BY <1>1 DEF Tuned, Fine, Past, InXfer
  <2>1. Tuned(g) /\ <<"demod", g>> \in Chip /\ <<"tuner", g>> \in Chip
    BY DEF BusInv, Chip
  <2>2. CASE th[g].at = "poll"
    <3>1. request = MessageOf(g) /\ InXfer(g) /\ th[g].op = "tune" /\ th[g].stage \in 1..4
      BY <1>5, <2>2, HolderTypes DEF Fine, CallRecord
    <3>2. /\ request.act = "set" <=> th[g].stage \in {1, 3}
          /\ th[g].stage = 3 =>
                request.chip = <<"tuner", g>> /\ request.ch = th[g].ch
      BY <3>1, HolderTypes, MessageIs
    <3>3. Past(g, 1) => channel'[<<"demod", g>>] = channel[<<"demod", g>>]
      BY <1>3, <2>1, <3>1, <3>2 DEF Past
    <3>4. Past(g, 3) => channel'[<<"tuner", g>>] = channel[<<"tuner", g>>]
      BY <1>3, <2>1, <3>1, <3>2 DEF Past
    <3> QED
      BY <2>1, <2>2, <3>3, <3>4 DEF Tuned
  <2>3. CASE th[g].at = "idle"
    <3>1. request.chip[2] # g
      BY <1>1, <2>1, <2>3 DEF Tuned
    <3>2. request.chip # <<"demod", g>> /\ request.chip # <<"tuner", g>>
      BY <3>1
    <3> QED
      BY <1>3, <2>1, <2>3, <3>2 DEF Tuned
  <2>4. CASE th[g].at \notin {"poll", "idle"}
    <3>1. ~Past(g, 1) /\ InXfer(g)
      BY <1>1, <2>1, <2>4 DEF Tuned, Past
    <3>2. ~Past(g, 3)
      BY <3>1, HolderTypes DEF Past, CallRecord
    <3> QED
      BY <3>1, <3>2 DEF InXfer, XferSteps
  <2> QED
    BY <2>2, <2>3, <2>4
<1>10. Gates'
  <2>1. ASSUME Up, NEW g \in gate'
        PROVE  Window(g) \/ <<"gate", g>> \in unsure
    <3>1. g \in gate \/ Opens(g)
      BY <1>1, <1>4 DEF Opens
    <3> QED
      BY <1>4, <2>1, <3>1 DEF BusInv, Gates
  <2> QED
    BY <1>1, <2>1 DEF Gates, Opens, Up, Window, InXfer
<1>11. Register'
  BY <1>1 DEF BusInv, Register, CaptureMatchesRegister, Up
<1>12. Serial'
  BY <1>1 DEF BusInv, Serial, Up
<1>13. Fresh'
  <2>1. setup \notin 6..9
    BY <1>1 DEF BusInv, Fresh
  <2>2. setup \notin 7..9
    BY <2>1
  <2> QED
    BY <1>1, <2>1, <2>2 DEF Fresh
<1> QED
  BY <1>6, <1>7, <1>8, <1>9, <1>10, <1>11, <1>12, <1>13 DEF BusInv, TypeInv

-----------------------------------------------------------------------------
(***************************************************************************)
(* The bring-up, and the life of the process around it.                    *)
(***************************************************************************)
NoCall == /\ holder = None /\ \A f \in Frontends : th[f] = Idle
          /\ capture = {} /\ unsure = {}

LEMMA IdleRecord == Idle \in CallRecord
BY DEF Idle, CallRecord, CallSteps

LEMMA IdleFields == Idle.at = "idle" /\ Idle.op = "none"
BY DEF Idle

\* What is left of the invariant when no call runs.
LEMMA QuietInv ==
  ASSUME TypeOK', NoCall', Fresh',
         Pending' => request' \in Requests,
         Up' => gate' = {} /\ tsEnable' = {} /\ ~Pending'
  PROVE  BusInv'
<1>1. \A f \in Frontends :
         /\ th'[f].at = "idle" /\ th'[f].op = "none" /\ th'[f] = Idle'
  <2>1. \A f \in Frontends : th'[f] = Idle
    BY DEF NoCall, Idle
  <2>2. Idle' = Idle
    BY DEF Idle
  <2> QED
    BY <2>1, <2>2, IdleFields
<1>2. \A f \in Frontends : Shape(f)' /\ Tuned(f)'
  BY <1>1 DEF Shape, InXfer, XferSteps, InCapture, Tuned, Fine
<1>3. Serial'
  BY <1>1, BusAssumption DEF Serial, NoCall, BusAssumption
<1>4. Answered' /\ Gates'
  BY <1>1 DEF Answered, Gates, Opens
<1>5. Register'
  BY <1>1 DEF Register, CaptureMatchesRegister, NoCall
<1> QED
  BY <1>2, <1>3, <1>4, <1>5 DEF BusInv, TypeInv

LEMMA ForgetKeeps ==
  ASSUME BusInv, Forget, busBit' \in {0, 1},
         gate' \subseteq Frontends, tsEnable' \subseteq Frontends,
         faults' \in 0..MaxFaults,
         UNCHANGED <<status, request>> \/ (status' = "nak" /\ request' = None)
  PROVE  BusInv'
<1>1. /\ setup' = -1 /\ curBus' = -1 /\ capture' = {} /\ holder' = None
      /\ th' = [f \in Frontends |-> Idle] /\ unsure' = {}
      /\ channel' = [c \in Chip |-> None]
  BY DEF Forget
<1>2. ~Up' /\ Fresh'
  BY <1>1, BringUpSteps DEF Up, Fresh
<1>3. NoCall'
  BY <1>1 DEF NoCall, Idle
<1>4. Pending' => request' \in Requests
  BY DEF BusInv, Answered, Pending
<1>5. th' \in [Frontends -> CallRecord]
  BY <1>1, IdleRecord
<1>6. TypeOK'
  BY <1>1, <1>5, HolderTypes, BringUpSteps
  DEF BusInv, TypeInv, TypeOK, CallRecord, CallSteps
<1> QED
  BY <1>2, <1>3, <1>4, <1>6, QuietInv

LEMMA SetupKeeps ==
  ASSUME BusInv, NEW out \in Outcome, SetupStep(out)
  PROVE  BusInv'
<1> DEFINE step == BringUp[setup + 1]
<1>1. /\ setup \in 0..9 /\ Costs(out)
      /\ busBit' = IF Effect(out) /\ step = "speed" THEN 0 ELSE busBit
      /\ IF Effect(out) /\ step = "reset"
         THEN gate' = {} /\ status' = "nak" /\ request' = None
         ELSE UNCHANGED <<gate, status, request>>
      /\ tsEnable' = IF Effect(out) /\ step = "tsOff" THEN {} ELSE tsEnable
  BY BringUpSteps DEF SetupStep
<1>2. /\ setup = 5 => step = "reset"
      /\ setup = 6 => step = "tsOff"
  BY BringUpSteps
<1>3. NoCall
  BY <1>1, BringUpSteps, BusAssumption DEF BusInv, Serial, Up, NoCall, BusAssumption
<1>4. /\ TypeOK /\ Fresh /\ (Pending => request \in Requests)
      /\ gate \subseteq Frontends /\ tsEnable \subseteq Frontends
      /\ busBit \in {0, 1} /\ faults \in 0..MaxFaults /\ curBus \in {-1, 0, 1}
      /\ MaxFaults \in Nat
  BY BusAssumption DEF BusInv, TypeInv, TypeOK, Answered, BusAssumption
<1>5. /\ busBit' \in {0, 1} /\ gate' \subseteq Frontends /\ tsEnable' \subseteq Frontends
      /\ faults' \in 0..MaxFaults
      /\ UNCHANGED <<status, request>> \/ (status' = "nak" /\ request' = None)
  BY <1>1, <1>4 DEF Costs
<1>6. CASE out # "done"
  BY <1>5, <1>6, ForgetKeeps DEF SetupStep
<1>7. CASE out = "done"
  <2>1. /\ setup' = setup + 1 /\ Effect(out)
        /\ UNCHANGED <<channel, capture, holder, th, unsure>>
        /\ curBus' = IF step = "speed" THEN 0 ELSE curBus
    BY <1>7 DEF SetupStep, Effect
  <2>2. setup' \in 6..10 => gate' = {} /\ ~Pending'
    <3>1. CASE setup = 5
      BY <1>1, <1>2, <2>1, <3>1 DEF Pending
    <3>2. CASE setup \in 6..9
      <4>1. gate = {} /\ ~Pending
        BY <1>4, <3>2 DEF Fresh
      <4> QED
        BY <1>1, <4>1 DEF Pending
    <3> QED
      BY <1>1, <2>1, <3>1, <3>2
  <2>3. setup' \in 7..10 => tsEnable' = {}
    <3>1. CASE setup = 6
      BY <1>1, <1>2, <2>1, <3>1
    <3>2. CASE setup \in 7..9
      <4>1. tsEnable = {}
        BY <1>4, <3>2 DEF Fresh
      <4> QED
        BY <1>1, <4>1
    <3> QED
      BY <1>1, <2>1, <3>1, <3>2
  <2>4. Fresh' /\ (Up' => gate' = {} /\ tsEnable' = {} /\ ~Pending')
    <3>1. setup' \in 6..9 => setup' \in 6..10
      OBVIOUS
    <3>2. setup' \in 7..9 => setup' \in 7..10
      OBVIOUS
    <3>3. Up' => setup' = 10
      BY BringUpSteps DEF Up
    <3>4. setup' = 10 => setup' \in 6..10 /\ setup' \in 7..10
      OBVIOUS
    <3> QED
      BY <2>2, <2>3, <3>1, <3>2, <3>3, <3>4 DEF Fresh
  <2>5. Pending' => request' \in Requests
    BY <1>4, <1>5 DEF Pending
  <2>6. NoCall'
    BY <1>3, <2>1 DEF NoCall, Idle
  <2>7. setup' \in -1..10 /\ curBus' \in {-1, 0, 1}
    BY <1>1, <1>4, <2>1
  <2>8. TypeOK'
    BY <1>4, <1>5, <2>1, <2>7, BringUpSteps DEF TypeOK
  <2> QED
    BY <2>4, <2>5, <2>6, <2>8, QuietInv
<1> QED
  BY <1>6, <1>7

LEMMA BusInvInit == Init => BusInv
<1> SUFFICES ASSUME Init
             PROVE  BusInv
  OBVIOUS
<1>1. /\ setup = -1 /\ ~Up /\ ~Pending
      /\ \A f \in Frontends : th[f] = Idle
      /\ th \in [Frontends -> CallRecord]
  BY BringUpSteps, IdleRecord DEF Init, Up, Pending
<1>2. \A f \in Frontends : th[f].at = "idle" /\ th[f].op = "none"
  BY <1>1, IdleFields
<1>3. TypeOK
  BY <1>1, BringUpSteps, BusAssumption
  DEF Init, TypeOK, CallRecord, CallSteps, BusAssumption
<1>4. \A f \in Frontends : Shape(f) /\ Tuned(f)
  BY <1>2 DEF Shape, InXfer, XferSteps, InCapture, Tuned, Fine
<1>5. Serial /\ Fresh /\ Answered /\ Gates /\ Register
  BY <1>1, <1>2, BusAssumption
  DEF Init, Serial, Fresh, Answered, Gates, Register, CaptureMatchesRegister,
      BusAssumption
<1> QED
  BY <1>3, <1>4, <1>5 DEF BusInv, TypeInv

LEMMA BusInvStep == BusInv /\ [Next]_vars => BusInv'
<1> SUFFICES ASSUME BusInv, [Next]_vars
             PROVE  BusInv'
  OBVIOUS
<1>1. CASE OpenBridge
  <2>1. /\ setup = -1 /\ setup' = 0
        /\ UNCHANGED <<busBit, status, request, gate, channel, tsEnable, curBus,
                       capture, holder, th, unsure, faults>>
    BY <1>1 DEF OpenBridge, device
  <2>2. ~Up /\ ~Up' /\ Fresh' /\ Len(BringUp) = 10
    BY <2>1, BringUpSteps DEF Up, Fresh
  <2>3. TypeOK'
    BY <2>1, <2>2 DEF BusInv, TypeInv, TypeOK
  <2>4. NoCall'
    BY <2>1, <2>2, BusAssumption DEF BusInv, Serial, NoCall, Idle, BusAssumption
  <2>5. Pending' => request' \in Requests
    BY <2>1 DEF BusInv, Answered, Pending
  <2> QED
    BY <2>2, <2>3, <2>4, <2>5, QuietInv
<1>2. ASSUME NEW out \in Outcome, SetupStep(out)
      PROVE  BusInv'
  BY <1>2, SetupKeeps
<1>3. CASE EndProcess
  <2>1. /\ Forget
        /\ UNCHANGED <<busBit, status, request, gate, tsEnable, faults>>
    BY <1>3 DEF EndProcess
  <2> QED
    BY <2>1, ForgetKeeps DEF BusInv, TypeInv, TypeOK
<1>4. ASSUME NEW answer \in {"ok", "nak"}, Answer(answer)
      PROVE  BusInv'
  BY <1>4, AnswerKeeps
<1>5. ASSUME NEW f \in Frontends, Thread(f)
      PROVE  BusInv'
  BY <1>5, ThreadKeeps
<1>6. ASSUME NEW f \in Frontends, NEW op \in {"tune", "status", "stop"},
             NEW ch \in Channels \union {None}, Begin(f, op, ch)
      PROVE  BusInv'
  BY <1>6, BeginKeeps
<1>7. CASE UNCHANGED vars
  <2>1. UNCHANGED <<busBit, status, request, gate, channel, tsEnable, setup, curBus,
                    capture, holder, th, unsure, faults>>
    BY <1>7 DEF vars, device, host
  <2>2. TypeOK' /\ Serial' /\ Fresh'
    BY <2>1 DEF BusInv, TypeInv, TypeOK, Serial, Up, Fresh, Pending
  <2>3. \A f \in Frontends : Shape(f)' /\ Tuned(f)'
    BY <2>1 DEF BusInv, TypeInv, Shape, InXfer, InCapture, Tuned, Fine, Past, Pending
  <2>4. Answered'
    BY <2>1 DEF BusInv, Answered, Pending, MessageOf, Stage, Took
  <2>5. Gates' /\ Register'
    BY <2>1 DEF BusInv, Gates, Opens, Pending, Window, InXfer, Register,
       CaptureMatchesRegister, Up
  <2> QED
    BY <2>2, <2>3, <2>4, <2>5 DEF BusInv, TypeInv
<1> QED
  BY <1>1, <1>2, <1>3, <1>4, <1>5, <1>6, <1>7 DEF Next

-----------------------------------------------------------------------------
\* At every step of a call, what the transfers of all calls so far have left in the
\* bridge and the chips is what the steps still to come rely on (em28xx_v_tune,
\* em28xx_v_capture_stop, mux_master_xfer, em28xx_i2c_xfer).
THEOREM BusInvariant == Spec => []BusInv
BY BusInvInit, BusInvStep, PTL DEF Spec

\* Every variable keeps its type, for any number of frontends and channels.
THEOREM TypeCorrect == Spec => []TypeOK
<1>1. BusInv => TypeOK
  BY DEF BusInv, TypeInv
<1> QED
  BY <1>1, BusInvariant, PTL

\* A tune that returned 0 has set its own demod and tuner to the channel it was
\* asked for, and the bridge forwards it, whatever transfers failed and whatever
\* the other frontends did (em28xx_v_tune).
THEOREM TuneTunes == Spec => []TuneMeansTuned
<1>1. BusInv => TuneMeansTuned
  <2> SUFFICES ASSUME BusInv, NEW f \in Frontends, LastTuneOk(f)
               PROVE  /\ channel[<<"demod", f>>] = th[f].ch
                      /\ channel[<<"tuner", f>>] = th[f].ch
                      /\ f \in tsEnable \/ <<"ts", f>> \in unsure
    BY DEF TuneMeansTuned
  <2>1. Fine(f) /\ th[f].at \in {"ret", "idle"} /\ Tuned(f)
    BY DEF LastTuneOk, Fine, BusInv
  <2>2. Past(f, 1) /\ Past(f, 3)
    BY <2>1 DEF Past, InXfer, XferSteps
  <2>3. f \in capture
    BY <2>1 DEF Tuned
  <2>4. Up
    BY <2>3 DEF BusInv, Serial
  <2> QED
    BY <2>1, <2>2, <2>3, <2>4 DEF Tuned, BusInv, Register, CaptureMatchesRegister
<1> QED
  BY <1>1, BusInvariant, PTL

\* capture_on is what register 0x5f holds for the frontend, for any number of
\* frontends that share the register.
THEOREM CaptureIsRegister == Spec => []CaptureMatchesRegister
<1>1. BusInv => CaptureMatchesRegister
  BY DEF BusInv, Register
<1> QED
  BY <1>1, BusInvariant, PTL

\* Every tuner is disconnected from the bus between calls.
THEOREM GatesAreClosed == Spec => []GatesClosed
<1>1. BusInv => GatesClosed
  <2> SUFFICES ASSUME BusInv, Up, holder = None, NEW f \in gate
               PROVE  <<"gate", f>> \in unsure
    BY DEF GatesClosed
  <2>1. f \in Frontends
    BY DEF BusInv, TypeInv, TypeOK
  <2>2. th[f].at = "idle"
    BY <2>1, BusAssumption DEF BusInv, Serial, BusAssumption
  <2>3. ~Window(f)
    BY <2>2 DEF Window, InXfer, XferSteps
  <2> QED
    BY <2>1, <2>3 DEF BusInv, Gates
<1> QED
  BY <1>1, BusInvariant, PTL

\* cur_i2c_bus never claims the chips' bus while the bridge is on another.  The
\* formula is inductive by itself.
THEOREM ShadowIsTrue == Spec => []ShadowTrue
<1> USE BusAssumption DEF BusAssumption, ShadowTrue
<1>1. Init => ShadowTrue
  BY DEF Init
<1>2. ShadowTrue /\ [Next]_vars => ShadowTrue'
  <2> SUFFICES ASSUME ShadowTrue, [Next]_vars
               PROVE  ShadowTrue'
    OBVIOUS
  <2>1. ASSUME NEW out \in Outcome, SetupStep(out)
        PROVE  ShadowTrue'
    BY <2>1 DEF SetupStep, Forget, Effect
  <2>2. CASE EndProcess
    BY <2>2 DEF EndProcess, Forget
  <2>3. CASE OpenBridge
    BY <2>3 DEF OpenBridge, device
  <2>4. ASSUME NEW answer \in {"ok", "nak"}, Answer(answer)
        PROVE  ShadowTrue'
    BY <2>4 DEF Answer, host
  <2>5. ASSUME NEW f \in Frontends, NEW out \in Outcome, BusWrite(f, out)
        PROVE  ShadowTrue'
    BY <2>5 DEF BusWrite, KnownBus, Effect
  <2>6. ASSUME NEW f \in Frontends, Thread(f),
               \A out \in Outcome : ~BusWrite(f, out)
        PROVE  ShadowTrue'
    <3>1. UNCHANGED <<busBit, curBus>>
      BY <2>6 DEF Thread, Transfer, StartXfer, BusRead, SendMessage, Poll, PacketSize,
         TsRead, TsWrite, Return, device
    <3> QED
      BY <3>1
  <2>7. ASSUME NEW f \in Frontends, NEW op \in {"tune", "status", "stop"},
               NEW ch \in Channels \union {None}, Begin(f, op, ch)
        PROVE  ShadowTrue'
    BY <2>7 DEF Begin, device
  <2>8. CASE UNCHANGED vars
    BY <2>8 DEF vars, device, host
  <2> QED
    BY <2>1, <2>2, <2>3, <2>4, <2>5, <2>6, <2>7, <2>8 DEF Next
<1> QED
  BY <1>1, <1>2, PTL DEF Spec
=============================================================================
