-------------------------- MODULE Em28xxEngineProofs --------------------------
(***************************************************************************)
(* Proofs about Em28xxEngine for any set of devices, any board table and   *)
(* any number of frontends and handles.                                    *)
(*                                                                         *)
(* At any time at most one device is neither closed nor registered: the    *)
(* one that the opening or closing thread works on.  A registered device   *)
(* is complete.  What the other has follows from the place of the thread:  *)
(* while it comes up, the frontends before fn and the part of fn that is   *)
(* done; while it is torn down, what the loop over the frontends has still *)
(* ahead, and what a frontend that failed has left.                        *)
(***************************************************************************)
EXTENDS Em28xxEngine, FiniteSetTheorems, SequenceTheorems, TLAPS

UpSteps == {"setup", "pipe", "attach", "demodInit", "tunerInit", "stream",
            "publish"}
Raising == ctl.at = "bridge" \/ ctl.at \in UpSteps
Busy    == Raising \/ ctl.at \in {"teardown", "close"}

-----------------------------------------------------------------------------
\* Who owns an open device.
OwnInv ==
    /\ \A i, j \in 1..Len(registry) : registry[i] = registry[j] => i = j
    /\ \A d \in Devices : d \in usb <=> d \in Registered \/ (Busy /\ d = dev)
    /\ Busy => dev \notin Registered
    /\ \A d \in Registered : /\ d \in bridge
                             /\ live[d] = Resource /\ held[d] = Resource
                             /\ count[d] = NumFrontends
    /\ ctl.at \in UpSteps => dev \in bridge
    /\ \A d \in Devices \ usb : live[d] = {}

\* What a frontend that comes up has so far.
Partial == IF ctl.at = "attach" THEN {"pipe"}
           ELSE IF ctl.at \in {"demodInit", "tunerInit", "stream"}
           THEN {"pipe", "demod", "tuner"} ELSE {}

RaiseInv ==
    /\ Raising => /\ live[dev] = (Kind \X (0..(fn - 1))) \union (Partial \X {fn})
                  /\ held[dev] = live[dev]
                  /\ count[dev] = fn
                  /\ capture[dev] = {}
    /\ ctl.at \in {"bridge", "setup"} => fn = 0
    /\ ctl.at \in {"pipe", "attach", "demodInit", "tunerInit", "stream"}
          => fn < NumFrontends
    /\ ctl.at = "publish" => fn = NumFrontends

\* The part of frontend_teardown that gives back a resource.
Slot(k) == IF k = "stream" THEN 2 ELSE IF k = "tuner" THEN 4
           ELSE IF k = "demod" THEN 5 ELSE 6

\* The loop has the resource still ahead.
Ahead(r) == /\ ctl.at = "teardown" /\ r[2] < ctl.hi
            /\ r[2] > fn \/ (r[2] = fn /\ ctl.part <= Slot(r[1]))

TearInv ==
    \* nothing is left but what is ahead, and what a failed frontend made
    /\ ctl.at \in {"teardown", "close"} =>
          \A r \in live[dev] : <<dev, r[2]>> \in failed \/ (r \in Resource /\ Ahead(r))
    /\ ctl.at = "teardown" /\ ctl.why = "shutdown" =>
          ctl.hi = NumFrontends /\ \A r \in Resource : Ahead(r) => r \in live[dev]
    \* a pointer may be stale, but nothing that lives is without one
    /\ \A d \in usb : live[d] \intersect Resource \subseteq held[d]
    /\ ctl.at = "teardown" =>
          /\ fn <= ctl.hi
          /\ fn = ctl.hi => ctl.part = 1
          /\ ctl.part > 2 => <<"stream", fn>> \notin live[dev]
          /\ ctl.part > 4 => <<"tuner", fn>> \notin live[dev]
          /\ \A f \in capture[dev] : f < ctl.hi /\ f >= fn /\ (f = fn => ctl.part = 1)
    /\ ctl.at = "close" => capture[dev] = {}

SwitchInv == /\ CaptureMatches
             /\ \A d \in Devices \ plugged : tsEnable[d] = {}

SwitchTypes == /\ tsEnable \in [Devices -> SUBSET Frontend]
               /\ doubt \in SUBSET (Devices \X Frontend)

\* Where in the array the handle of a frontend is.
OnceIn(s, d, f) == \E j \in DOMAIN s : /\ s[j] = <<d, f>>
                                       /\ \A k \in DOMAIN s : s[k] = <<d, f>> => k = j

HandleInv ==
    /\ Len(ctl.handles) <= MaxHandles
    /\ Raising => NumFrontends <= MaxHandles - Len(ctl.handles)
    /\ ShuttingDown => ctl.handles = <<>>
    /\ \A i \in DOMAIN ctl.handles :
          /\ ctl.handles[i][1] \in Registered
          /\ \A f \in Frontend : OnceIn(ctl.handles, ctl.handles[i][1], f)

EngineInv == /\ TypeOK /\ OwnInv /\ RaiseInv /\ TearInv /\ SwitchInv /\ HandleInv
             /\ ReleasedInOrder /\ OthersLeaveNothing

\* As long as only the first frontend of a device may fail, no loop tears a
\* frontend down a second time.
OnceInv == /\ misused = {}
           /\ ctl.at = "teardown" /\ ctl.why # "shutdown" => ctl.hi = 0 /\ count[dev] = 0

-----------------------------------------------------------------------------
\* Where a step takes the thread.
GoesTo(a, d, n, h, p, w) ==
    /\ ctl' \in Ctl
    /\ ctl'.at = a /\ ctl'.dev = d /\ ctl'.fn = n
    /\ ctl'.hi = h /\ ctl'.part = p /\ ctl'.why = w

LEMMA CtlFields ==
    ASSUME TypeOK
    PROVE  /\ ctl \in Ctl /\ ctl.at \in Steps /\ ctl.dev \in Devices
           /\ ctl.fn \in 0..NumFrontends /\ ctl.hi \in 0..NumFrontends
           /\ ctl.part \in 1..6 /\ ctl.why \in {"none", "unwind", "fail", "shutdown"}
           /\ ctl.todo \in Seq(Nat) /\ ctl.handles \in Seq(Devices \X Frontend)
<1>1. Len(Part) = 6
  BY DEF Part
<1> QED
  BY <1>1 DEF TypeOK, Ctl

LEMMA GotoMoves ==
    ASSUME TypeOK, NEW step \in Steps, Goto(step)
    PROVE  /\ GoesTo(step, ctl.dev, ctl.fn, ctl.hi, ctl.part, ctl.why)
           /\ ctl'.handles = ctl.handles
  BY CtlFields DEF Goto, GoesTo, Ctl

LEMMA FailMoves ==
    ASSUME TypeOK, Fail
    PROVE  /\ GoesTo("teardown", ctl.dev, 0, count[ctl.dev], 1, "fail")
           /\ ctl'.handles = ctl.handles
<1>0. count[ctl.dev] \in 0..NumFrontends
  BY CtlFields DEF TypeOK
<1>1. 0 \in 0..NumFrontends /\ 1 \in 1..Len(Part)
  BY EngineAssumption DEF Part
<1>2. PICK h \in 0..NumFrontends : h = count[ctl.dev]
  BY <1>0
<1>3. ctl' = [ctl EXCEPT !.at = "teardown", !.fn = 0, !.part = 1, !.hi = h, !.why = "fail"]
  BY <1>2 DEF Fail, dev
<1> QED
  BY <1>1, <1>2, <1>3, CtlFields DEF GoesTo, Ctl, Steps

LEMMA UnwindMoves ==
    ASSUME TypeOK, Unwind
    PROVE  /\ GoesTo("teardown", ctl.dev, 0, ctl.fn, 1, "unwind")
           /\ ctl'.handles = ctl.handles
<1>1. 0 \in 0..NumFrontends /\ 1 \in 1..Len(Part)
  BY EngineAssumption DEF Part
<1> QED
  BY <1>1, CtlFields DEF GoesTo, Unwind, fn, Ctl, Steps

LEMMA NextPartMoves ==
    ASSUME TypeOK, NextPart, ctl.fn < NumFrontends
    PROVE  /\ IF ctl.part < 6
              THEN GoesTo(ctl.at, ctl.dev, ctl.fn, ctl.hi, ctl.part + 1, ctl.why)
              ELSE GoesTo(ctl.at, ctl.dev, ctl.fn + 1, ctl.hi, 1, ctl.why)
           /\ ctl'.handles = ctl.handles
<1>1. Len(Part) = 6
  BY DEF Part
<1>2. CASE ctl.part < 6
  <2>1. ctl' = [ctl EXCEPT !.part = ctl.part + 1] /\ ctl.part + 1 \in 1..6
    BY <1>1, <1>2, CtlFields DEF NextPart
  <2> QED
    BY <1>1, <1>2, <2>1, CtlFields DEF GoesTo, Ctl
<1>3. CASE ~(ctl.part < 6)
  <2>1. PICK n \in 0..NumFrontends : n = ctl.fn + 1
    BY CtlFields, EngineAssumption
  <2>2. ctl' = [ctl EXCEPT !.part = 1, !.fn = n]
    BY <1>1, <1>3, <2>1 DEF NextPart
  <2>3. 1 \in 1..Len(Part)
    BY <1>1
  <2>4. GoesTo(ctl.at, ctl.dev, n, ctl.hi, 1, ctl.why) /\ ctl'.handles = ctl.handles
    BY <2>2, <2>3, CtlFields DEF GoesTo, Ctl
  <2> QED
    BY <1>3, <2>1, <2>4
<1> QED
  BY <1>2, <1>3

-----------------------------------------------------------------------------
\* Where a frontend's handle stands behind n others: no two at one place.
LEMMA SamePlace ==
  ASSUME NEW n \in Int
  PROVE  \A a, b \in Int : a - n - 1 = b - n - 1 => a = b
OBVIOUS

LEMMA PlaceBack ==
  ASSUME NEW k, NEW n \in Nat, NEW i \in Nat, k = n + i + 1
  PROVE  k - n - 1 = i
OBVIOUS

LEMMA EmptyFits == ASSUME NEW S PROVE <<>> \in Seq(S)
  BY EmptySeq

LEMMA InvFacts ==
    ASSUME EngineInv
    PROVE  /\ TypeOK /\ OwnInv /\ RaiseInv /\ TearInv /\ SwitchInv /\ HandleInv
           /\ ReleasedInOrder /\ OthersLeaveNothing
  BY DEF EngineInv

\* A step that has nothing to do with the register of any device.
LEMMA SwitchStays ==
    ASSUME EngineInv, UNCHANGED <<plugged, usb, capture, tsEnable, doubt>>
    PROVE  SwitchTypes' /\ SwitchInv'
<1>1. SwitchTypes'
  BY InvFacts DEF SwitchTypes, TypeOK
<1>2. SwitchInv'
  BY InvFacts DEF SwitchInv, CaptureMatches
<1> QED
  BY <1>1, <1>2

\* em28xx_capture_start touches one bit of one device; afterwards either the
\* bit is as it was asked for or the frontend is in doubt.
LEMMA CaptureStartEffect ==
    ASSUME TypeOK, NEW d \in Devices, NEW f \in Frontend, NEW enable \in BOOLEAN,
           NEW out \in Outcome, CaptureStart(d, f, enable, out)
    PROVE  /\ SwitchTypes'
           /\ \A e \in Devices \ {d} : tsEnable'[e] = tsEnable[e]
           /\ \A g \in Frontend \ {f} : g \in tsEnable'[d] <=> g \in tsEnable[d]
           /\ \A e \in Devices, g \in Frontend :
                 <<e, g>> # <<d, f>> => (<<e, g>> \in doubt' <=> <<e, g>> \in doubt)
           /\ d \notin plugged => tsEnable' = tsEnable
           /\ d \in plugged => <<d, f>> \in doubt' \/ out = "done"
           /\ out = "done" => (f \in tsEnable'[d] <=> enable)
<1>1. tsEnable \in [Devices -> SUBSET Frontend] /\ doubt \subseteq Devices \X Frontend
  BY DEF TypeOK
<1>2. PICK now \in SUBSET Frontend :
         /\ now = Bits(d, f, enable)
         /\ \A g \in Frontend : g # f => (g \in now <=> g \in tsEnable[d])
         /\ f \in now <=> enable
  <2>1. CASE enable
    <3>1. Bits(d, f, enable) = tsEnable[d] \union {f}
      BY <2>1 DEF Bits
    <3> QED
      BY <1>1, <2>1, <3>1
  <2>2. CASE ~enable
    <3>1. Bits(d, f, enable) = tsEnable[d] \ {f}
      BY <2>2 DEF Bits
    <3> QED
      BY <1>1, <2>2, <3>1
  <2> QED
    BY <2>1, <2>2
<1>3. tsEnable' = tsEnable \/ tsEnable' = [tsEnable EXCEPT ![d] = now]
  BY <1>2 DEF CaptureStart
<1>4. /\ tsEnable' \in [Devices -> SUBSET Frontend]
      /\ \A e \in Devices \ {d} : tsEnable'[e] = tsEnable[e]
      /\ \A g \in Frontend \ {f} : g \in tsEnable'[d] <=> g \in tsEnable[d]
  BY <1>1, <1>2, <1>3
<1>5. /\ doubt' \subseteq Devices \X Frontend
      /\ \A e \in Devices, g \in Frontend :
            <<e, g>> # <<d, f>> => (<<e, g>> \in doubt' <=> <<e, g>> \in doubt)
  <2>1. CASE out = "done"
    <3>1. doubt' = doubt \ {<<d, f>>}
      BY <2>1 DEF CaptureStart
    <3> QED
      BY <1>1, <3>1
  <2>2. CASE out # "done"
    <3>1. doubt' = doubt \union ({<<d, f>>} \intersect (plugged \X Frontend))
      BY <2>2 DEF CaptureStart
    <3> QED
      BY <1>1, <3>1
  <2> QED
    BY <2>1, <2>2
<1>6. d \notin plugged => tsEnable' = tsEnable
  BY DEF CaptureStart
<1>7. d \in plugged => <<d, f>> \in doubt' \/ out = "done"
  BY DEF CaptureStart
<1>8. out = "done" => (f \in tsEnable'[d] <=> enable)
  BY <1>1, <1>2 DEF CaptureStart
<1> QED
  BY <1>4, <1>5, <1>6, <1>7, <1>8 DEF SwitchTypes

\* The registers stay accounted for when capture_on of the frontend follows a
\* transfer that was done.
LEMMA SwitchAfterStart ==
    ASSUME EngineInv, NEW d \in Devices, NEW f \in Frontend, NEW enable \in BOOLEAN,
           NEW out \in Outcome, CaptureStart(d, f, enable, out),
           d \in usb, UNCHANGED <<plugged, usb>>,
           \A e \in Devices \ {d} : capture'[e] = capture[e],
           \A g \in Frontend \ {f} : g \in capture'[d] <=> g \in capture[d],
           out = "done" => (f \in capture'[d] <=> enable)
    PROVE  SwitchTypes' /\ SwitchInv'
<1>1. /\ SwitchTypes'
      /\ \A e \in Devices \ {d} : tsEnable'[e] = tsEnable[e]
      /\ \A g \in Frontend \ {f} : g \in tsEnable'[d] <=> g \in tsEnable[d]
      /\ \A e \in Devices, g \in Frontend :
            <<e, g>> # <<d, f>> => (<<e, g>> \in doubt' <=> <<e, g>> \in doubt)
      /\ d \notin plugged => tsEnable' = tsEnable
      /\ d \in plugged => <<d, f>> \in doubt' \/ out = "done"
      /\ out = "done" => (f \in tsEnable'[d] <=> enable)
  BY InvFacts, CaptureStartEffect
<1>2. plugged \subseteq Devices
  BY InvFacts DEF TypeOK
<1>3. ASSUME NEW e \in plugged, NEW g \in Frontend
      PROVE  <<e, g>> \in doubt' \/ (g \in tsEnable'[e] <=> e \in usb /\ g \in capture'[e])
  <2>1. CASE e = d /\ g = f
    BY <1>1, <2>1
  <2>2. CASE e # d \/ g # f
    <3>1. g \in capture'[e] <=> g \in capture[e]
      BY <1>2, <2>2
    <3>2. <<e, g>> \in doubt \/ (g \in tsEnable[e] <=> e \in usb /\ g \in capture[e])
      BY InvFacts DEF SwitchInv, CaptureMatches
    <3>3. e \in Devices /\ <<e, g>> # <<d, f>>
      BY <1>2, <2>2
    <3>4. g \in tsEnable'[e] <=> g \in tsEnable[e]
      BY <1>1, <2>2, <3>3
    <3>5. <<e, g>> \in doubt' <=> <<e, g>> \in doubt
      BY <1>1, <3>3
    <3> QED
      BY <3>1, <3>2, <3>4, <3>5
  <2> QED
    BY <2>1, <2>2
<1>4. CaptureMatches'
  BY <1>3 DEF CaptureMatches
<1>5. ASSUME NEW e \in Devices \ plugged PROVE tsEnable'[e] = {}
  <2>1. tsEnable[e] = {}
    BY InvFacts DEF SwitchInv
  <2> QED
    BY <1>1, <2>1
<1> QED
  BY <1>1, <1>4, <1>5 DEF SwitchInv

\* The thread goes from one call to the next while no device is in its hands.
LEMMA IdleStep ==
    ASSUME EngineInv, ~Busy, ctl' \in Ctl,
           ctl'.at \in {"idle", "table", "addr", "next"},
           ctl'.handles = <<>> \/ (ctl'.handles = ctl.handles /\ ctl'.at # "next"),
           UNCHANGED <<plugged, usb, bridge, live, held, awake, count, capture,
                       tsEnable, doubt, registry, failed, leaked, misused>>
    PROVE  EngineInv'
<1>1. TypeOK'
  BY InvFacts DEF TypeOK
<1>2. ~Raising' /\ ~Busy' /\ Registered' = Registered /\ ctl'.at \notin UpSteps
  BY DEF Raising, Busy, UpSteps, Registered
<1>3. OwnInv'
  BY <1>2, InvFacts DEF OwnInv
<1>4. RaiseInv'
  BY <1>2, InvFacts DEF RaiseInv
<1>5. TearInv'
  BY InvFacts DEF TearInv
<1>6. SwitchInv'
  BY InvFacts DEF SwitchInv, CaptureMatches
<1>7. HandleInv'
  <2>1. ctl'.handles = <<>> => Len(ctl'.handles) = 0 /\ DOMAIN ctl'.handles = {}
    OBVIOUS
  <2>2. Len(ctl'.handles) <= MaxHandles
    BY <2>1, InvFacts, EngineAssumption DEF HandleInv
  <2>3. ShuttingDown' => ctl'.handles = <<>>
    BY DEF ShuttingDown
  <2>4. ASSUME NEW i \in DOMAIN ctl'.handles
        PROVE  /\ ctl'.handles[i][1] \in Registered
               /\ \A f \in Frontend : OnceIn(ctl'.handles, ctl'.handles[i][1], f)
    BY <2>1, InvFacts DEF HandleInv
  <2> QED
    BY <1>2, <2>2, <2>3, <2>4 DEF HandleInv
<1>8. ReleasedInOrder' /\ OthersLeaveNothing'
  BY InvFacts DEF ReleasedInOrder, OthersLeaveNothing
<1> QED
  BY <1>1, <1>3, <1>4, <1>5, <1>6, <1>7, <1>8 DEF EngineInv

LEMMA CallKeeps ==
    ASSUME EngineInv, DiscoverAll \/ OpenVidPid \/ OpenByAddr \/ Shutdown
    PROVE  EngineInv'
<1>0. TypeOK /\ ctl.at = "idle" => TypeOK /\ ctl.at = "idle" /\ ~Busy
  BY DEF Busy, Raising, UpSteps
<1>1. ASSUME NEW at \in {"table", "addr"}, NEW vidpids \in Seq(Nat), Call(at, vidpids)
      PROVE  EngineInv'
  <2>1. ctl' = [ctl EXCEPT !.at = at, !.todo = vidpids, !.handles = <<>>]
    BY <1>1 DEF Call
  <2>2. ctl' \in Ctl /\ ctl'.at = at /\ ctl'.handles = <<>>
    BY <2>1, InvFacts, CtlFields, EmptyFits DEF Ctl, Steps
  <2> QED
    BY <1>0, <1>1, <2>2, InvFacts, IdleStep DEF Call
<1>2. Table \in Seq(Nat)
  <2>1. Table \in [1..VidPids -> Nat] /\ VidPids \in Nat
    BY EngineAssumption DEF Table
  <2> QED
    BY <2>1
<1>3. CASE DiscoverAll
  BY <1>1, <1>2, <1>3 DEF DiscoverAll
<1>4. CASE OpenVidPid
  <2>1. PICK v \in 0..(VidPids - 1) : Call("table", <<v>>)
    BY <1>4 DEF OpenVidPid
  <2>2. v \in Nat /\ <<v>> \in Seq(Nat)
    BY EngineAssumption
  <2> QED
    BY <1>1, <2>1, <2>2
<1>5. CASE OpenByAddr
  <2>1. <<>> \in Seq(Nat)
    BY EmptyFits
  <2> QED
    BY <1>1, <1>5, <2>1 DEF OpenByAddr
<1>6. CASE Shutdown
  <2>1. ctl' \in Ctl /\ ctl'.at = "next" /\ ctl'.handles = <<>>
    BY <1>6, InvFacts, CtlFields, EmptyFits DEF Shutdown, Ctl, Steps
  <2> QED
    BY <1>0, <1>6, <2>1, InvFacts, IdleStep DEF Shutdown
<1> QED
  BY <1>3, <1>4, <1>5, <1>6

LEMMA StillCtl ==
    ASSUME TypeOK, ctl' = ctl
    PROVE  ctl' \in Ctl
  BY DEF TypeOK

LEMMA AllocateKeeps ==
    ASSUME EngineInv, ctl.at \in {"table", "addr"}, NEW d \in Devices,
           NEW todo \in Seq(Nat), Allocate(d, todo)
    PROVE  EngineInv'
<1>1. ctl' = [ctl EXCEPT !.at = "bridge", !.dev = d, !.fn = 0, !.todo = todo]
  BY DEF Allocate
<1>2. 0 \in 0..NumFrontends
  BY EngineAssumption
<1>3. /\ ctl' \in Ctl /\ ctl'.at = "bridge" /\ ctl'.dev = d /\ ctl'.fn = 0
      /\ ctl'.handles = ctl.handles
  BY <1>1, <1>2, InvFacts, CtlFields DEF Ctl, Steps
<1>4. ~Busy /\ Busy' /\ Raising' /\ ctl'.at \notin UpSteps /\ Registered' = Registered
  BY <1>3 DEF Allocate, Raising, Busy, UpSteps, Registered
<1>5. d \notin usb /\ d \notin Registered /\ live[d] = {}
  BY <1>4, InvFacts DEF Allocate, OwnInv
<1>6. /\ usb' = usb \union {d} /\ live' = live /\ registry' = registry /\ bridge' = bridge
      /\ held' = [held EXCEPT ![d] = {}] /\ count' = [count EXCEPT ![d] = 0]
      /\ capture' = [capture EXCEPT ![d] = {}] /\ failed' = failed /\ leaked' = leaked
  BY DEF Allocate
<1>7. TypeOK'
  <2>1. awake' = [awake EXCEPT ![d] = {}] /\ awake' \in [Devices -> SUBSET ({"demod", "tuner"} \X Frontend)]
    BY InvFacts DEF TypeOK, Allocate
  <2>2. count' \in [Devices -> 0..NumFrontends]
    BY <1>2, <1>6, InvFacts DEF TypeOK
  <2> QED
    BY <1>3, <1>6, <2>1, <2>2, InvFacts DEF TypeOK, Allocate
<1>8. held'[d] = {} /\ count'[d] = 0 /\ capture'[d] = {}
  BY <1>6, InvFacts DEF TypeOK
<1>9. \A e \in Devices \ {d} : held'[e] = held[e] /\ count'[e] = count[e] /\ capture'[e] = capture[e]
  BY <1>6, InvFacts DEF TypeOK
<1>10. OwnInv'
  <2>1. \A e \in Devices : e \in usb' <=> e \in Registered' \/ (Busy' /\ e = dev')
    BY <1>3, <1>4, <1>6, InvFacts DEF OwnInv, dev
  <2>2. Busy' => dev' \notin Registered'
    BY <1>3, <1>4, <1>5 DEF dev
  <2>3. \A e \in Registered' : /\ e \in bridge'
                               /\ live'[e] = Resource /\ held'[e] = Resource
                               /\ count'[e] = NumFrontends
    <3>1. \A e \in Registered : e \in Devices
      BY InvFacts DEF TypeOK, Registered
    <3> QED
      BY <1>4, <1>5, <1>6, <1>9, <3>1, InvFacts DEF OwnInv
  <2> QED
    BY <1>4, <1>6, <2>1, <2>2, <2>3, InvFacts DEF OwnInv
<1>11. RaiseInv'
  <2>1. Partial' = {} /\ 0..(0 - 1) = {}
    BY <1>3 DEF Partial
  <2>2. (Kind \X (0..(0 - 1))) \union ({} \X {0}) = {}
    BY <2>1
  <2>3. live'[d] = (Kind \X (0..(fn' - 1))) \union (Partial' \X {fn'})
    BY <1>3, <1>5, <1>6, <2>1, <2>2 DEF fn
  <2> QED
    BY <1>3, <1>5, <1>6, <1>8, <2>3 DEF RaiseInv, dev, fn
<1>12. TearInv'
  BY <1>3, <1>5, <1>6, <1>9, InvFacts DEF TearInv
<1>13. SwitchInv'
  <2>1. plugged' = plugged /\ tsEnable' = tsEnable /\ doubt' = doubt
    BY DEF Allocate
  <2>2. ASSUME NEW e \in plugged, NEW f \in Frontend
        PROVE  <<e, f>> \in doubt \/ (f \in tsEnable[e] <=> e \in usb' /\ f \in capture'[e])
    <3>1. e \in Devices /\ (<<e, f>> \in doubt \/ (f \in tsEnable[e] <=> e \in usb /\ f \in capture[e]))
      BY InvFacts DEF SwitchInv, CaptureMatches, TypeOK
    <3> QED
      BY <1>5, <1>6, <1>8, <1>9, <3>1
  <2>3. CaptureMatches'
    BY <2>1, <2>2 DEF CaptureMatches
  <2> QED
    BY <2>1, <2>3, InvFacts DEF SwitchInv
<1>14. HandleInv'
  <2>1. ~ShuttingDown'
    BY <1>3 DEF ShuttingDown
  <2>2. NumFrontends <= MaxHandles - Len(ctl.handles)
    BY DEF Allocate, Room
  <2> QED
    BY <1>3, <1>4, <2>1, <2>2, InvFacts DEF HandleInv
<1>15. ReleasedInOrder' /\ OthersLeaveNothing'
  BY <1>6, InvFacts DEF ReleasedInOrder, OthersLeaveNothing
<1> QED
  BY <1>7, <1>10, <1>11, <1>12, <1>13, <1>14, <1>15 DEF EngineInv

LEMMA TableKeeps ==
    ASSUME EngineInv, TableNext \/ AtAddress
    PROVE  EngineInv'
<1>1. ~Busy
  BY DEF TableNext, AtAddress, Busy, Raising, UpSteps
<1>2. CASE TableNext
  <2>1. ASSUME ctl.todo # <<>>, NEW d \in FirstMatch(Head(ctl.todo)), Allocate(d, Tail(ctl.todo))
        PROVE  EngineInv'
    <3>1. Tail(ctl.todo) \in Seq(Nat) /\ d \in Devices
      BY <2>1, InvFacts, CtlFields DEF FirstMatch, TypeOK
    <3> QED
      BY <1>2, <2>1, <3>1, AllocateKeeps DEF TableNext
  <2>2. ASSUME ctl' = (IF ctl.todo = <<>> THEN [ctl EXCEPT !.at = "idle"]
                       ELSE [ctl EXCEPT !.todo = Tail(@)]),
               UNCHANGED <<plugged, usb, bridge, live, held, awake, count, capture,
                           tsEnable, doubt, registry, failed, leaked, misused>>
        PROVE  EngineInv'
    <3>1. ctl.at = "table" /\ "idle" \in Steps
      BY <1>2 DEF TableNext, Steps
    <3>2. ctl.todo # <<>> => Tail(ctl.todo) \in Seq(Nat)
      BY InvFacts, CtlFields
    <3>3. /\ ctl' \in Ctl /\ ctl'.at \in {"idle", "table"} /\ ctl'.handles = ctl.handles
      BY <2>2, <3>1, <3>2, InvFacts, CtlFields DEF Ctl
    <3> QED
      BY <1>1, <2>2, <3>3, IdleStep
  <2> QED
    BY <1>2, <2>1, <2>2 DEF TableNext
<1>3. CASE AtAddress
  <2>1. ASSUME NEW d \in Devices, Allocate(d, <<>>)
        PROVE  EngineInv'
    BY <1>3, <2>1, EmptyFits, AllocateKeeps DEF AtAddress
  <2>2. ASSUME Goto("idle"),
               UNCHANGED <<plugged, usb, bridge, live, held, awake, count, capture,
                           tsEnable, doubt, registry, failed, leaked, misused>>
        PROVE  EngineInv'
    <3>1. "idle" \in Steps
      BY DEF Steps
    <3>2. ctl' \in Ctl /\ ctl'.at = "idle" /\ ctl'.handles = ctl.handles
      BY <2>2, <3>1, InvFacts, GotoMoves DEF GoesTo
    <3> QED
      BY <1>1, <2>2, <3>2, IdleStep
  <2> QED
    BY <1>3, <2>1, <2>2 DEF AtAddress
<1> QED
  BY <1>2, <1>3

-----------------------------------------------------------------------------
\* The thread gives up on the device it brings up, for whose frontend fn there
\* may be a client that no struct points to.
LEMMA RaisingFails ==
    ASSUME EngineInv, Raising,
           NEW w \in {"unwind", "fail"}, GoesTo("teardown", ctl.dev, 0, ctl.fn, 1, w),
           ctl'.handles = ctl.handles,
           bridge' = bridge \/ bridge' = bridge \union {ctl.dev},
           NEW X, X \subseteq {<<"ghost", ctl.fn>>},
           live' = [live EXCEPT ![ctl.dev] = live[ctl.dev] \union X],
           failed \subseteq failed', failed' \subseteq Devices \X Frontend,
           \/ ctl.at \in {"bridge", "setup"} /\ X = {}
           \/ <<ctl.dev, ctl.fn>> \in failed' /\ ctl.fn < NumFrontends,
           SwitchTypes', SwitchInv',
           UNCHANGED <<plugged, usb, held, awake, count, capture, registry, leaked,
                       misused>>
    PROVE  EngineInv'
<1>1. /\ ctl' \in Ctl /\ ctl'.at = "teardown" /\ ctl'.dev = ctl.dev /\ ctl'.fn = 0
      /\ ctl'.hi = ctl.fn /\ ctl'.part = 1 /\ ctl'.why = w
  BY DEF GoesTo
<1>2. /\ ctl.dev \in Devices /\ ctl.fn \in 0..NumFrontends /\ NumFrontends \in Nat \ {0}
  BY InvFacts, CtlFields, EngineAssumption
<1>3. /\ Busy /\ Busy' /\ ~Raising' /\ ctl'.at \notin UpSteps /\ Registered' = Registered
  BY <1>1 DEF Raising, Busy, UpSteps, Registered
<1>4. /\ live[ctl.dev] = (Kind \X (0..(ctl.fn - 1))) \union (Partial \X {ctl.fn})
      /\ held[ctl.dev] = live[ctl.dev] /\ capture[ctl.dev] = {}
  BY InvFacts DEF RaiseInv, dev, fn
<1>5. ctl.dev \in usb /\ ctl.dev \notin Registered
  BY <1>2, <1>3, InvFacts DEF OwnInv, dev
<1>6. /\ live'[ctl.dev] = live[ctl.dev] \union X
      /\ \A e \in Devices \ {ctl.dev} : live'[e] = live[e]
  BY <1>2, InvFacts DEF TypeOK
<1>7. X = {} \/ (X = {<<"ghost", ctl.fn>>} /\ ctl.fn \in Frontend)
  BY <1>2 DEF Frontend
<1>8. X \subseteq AnyResource /\ X \intersect Resource = {}
  BY <1>7 DEF AnyResource, Resource, Kind
<1>9. TypeOK'
  <2>1. live' \in [Devices -> SUBSET AnyResource]
    BY <1>8, InvFacts DEF TypeOK
  <2>2. bridge' \in SUBSET Devices
    BY <1>2, InvFacts DEF TypeOK
  <2> QED
    BY <1>1, <2>1, <2>2, InvFacts DEF TypeOK, SwitchTypes
<1>10. OwnInv'
  <2>1. \A e \in Registered' : e # ctl.dev /\ e \in Devices
    BY <1>3, <1>5, InvFacts DEF TypeOK, Registered
  <2>2. \A e \in Registered' : /\ e \in bridge'
                               /\ live'[e] = Resource /\ held'[e] = Resource
                               /\ count'[e] = NumFrontends
    BY <1>3, <1>6, <2>1, InvFacts DEF OwnInv
  <2>3. \A e \in Devices \ usb' : live'[e] = {}
    BY <1>5, <1>6, InvFacts DEF OwnInv
  <2>4. \A e \in Devices : e \in usb' <=> e \in Registered' \/ (Busy' /\ e = dev')
    BY <1>1, <1>3, InvFacts DEF OwnInv, dev
  <2> QED
    BY <1>1, <1>3, <1>5, <2>2, <2>3, <2>4, InvFacts DEF OwnInv, dev
<1>11. RaiseInv'
  BY <1>1, <1>3 DEF RaiseInv
<1>12. TearInv'
  <2>1. ASSUME NEW r \in live'[dev'] PROVE <<dev', r[2]>> \in failed' \/ (r \in Resource /\ Ahead(r)')
    <3>1. r \in live[ctl.dev] \union X
      BY <1>1, <1>6 DEF dev
    <3>2. CASE r \in Kind \X (0..(ctl.fn - 1))
      <4>1. r[1] \in Kind /\ r[2] \in 0..(ctl.fn - 1) /\ r = <<r[1], r[2]>>
        BY <3>2
      <4>2. r \in Resource
        BY <1>2, <4>1 DEF Resource, Frontend
      <4>3. Ahead(r)'
        BY <1>1, <1>2, <4>1 DEF Ahead, Slot, fn
      <4> QED
        BY <4>2, <4>3
    <3>3. CASE r \in (Partial \X {ctl.fn}) \union X
      <4>1. r[2] = ctl.fn
        BY <3>3, <1>7
      <4>2. ctl.at \notin {"bridge", "setup"} \/ X # {}
        BY <3>3 DEF Partial
      <4> QED
        BY <1>1, <4>1, <4>2 DEF dev
    <3> QED
      BY <1>4, <3>1, <3>2, <3>3
  <2>2. \A d \in usb' : live'[d] \intersect Resource \subseteq held'[d]
    <3>1. usb \subseteq Devices
      BY InvFacts DEF TypeOK
    <3> QED
      BY <1>4, <1>6, <1>8, <3>1, InvFacts DEF TearInv
  <2>3. capture'[dev'] = {}
    BY <1>1, <1>4 DEF dev
  <2> QED
    BY <1>1, <1>2, <2>1, <2>2, <2>3 DEF TearInv, dev, fn
<1>13. SwitchInv'
  OBVIOUS
<1>14. HandleInv'
  <2>1. ~ShuttingDown'
    BY <1>1 DEF ShuttingDown
  <2> QED
    BY <1>3, <2>1, InvFacts DEF HandleInv
<1>15. ReleasedInOrder'
  <2>1. ASSUME NEW d \in Devices, NEW f \in Frontend
        PROVE  \A k \in Kind : <<k, f>> \in live'[d] <=> <<k, f>> \in live[d]
    <3>1. \A k \in Kind : <<k, f>> \in Resource
      BY DEF Resource
    <3> QED
      BY <1>6, <1>8, <3>1
  <2>2. {"stream", "pipe", "tuner", "demod"} \subseteq Kind
    BY DEF Kind
  <2> QED
    BY <2>1, <2>2, InvFacts DEF ReleasedInOrder
<1>16. OthersLeaveNothing'
  BY InvFacts DEF OthersLeaveNothing
<1> QED
  BY <1>9, <1>10, <1>11, <1>12, <1>13, <1>14, <1>15, <1>16 DEF EngineInv

\* The thread goes on with the device it brings up, which gets hold of X.
LEMMA RaisingGoesOn ==
    ASSUME EngineInv, Raising, ctl' \in Ctl, ctl'.at \in UpSteps,
           ctl'.dev = ctl.dev, ctl'.handles = ctl.handles,
           ctl.dev \in bridge', bridge' = bridge \/ bridge' = bridge \union {ctl.dev},
           NEW X, X \subseteq Resource,
           live' = [live EXCEPT ![ctl.dev] = live[ctl.dev] \union X],
           held' = [held EXCEPT ![ctl.dev] = held[ctl.dev] \union X],
           count' \in [Devices -> 0..NumFrontends],
           \A d \in Devices \ {ctl.dev} : count'[d] = count[d],
           awake' \in [Devices -> SUBSET ({"demod", "tuner"} \X Frontend)],
           UNCHANGED <<plugged, usb, capture, registry, failed, leaked, misused>>,
           SwitchTypes', SwitchInv', RaiseInv'
    PROVE  EngineInv'
<1>1. ctl.dev \in Devices
  BY InvFacts, CtlFields
<1>2. /\ Busy /\ Busy' /\ Raising' /\ Registered' = Registered
      /\ ctl'.at \notin {"teardown", "close", "next"}
  BY DEF Raising, Busy, UpSteps, Registered
<1>3. ctl.dev \in usb /\ ctl.dev \notin Registered
  BY <1>1, <1>2, InvFacts DEF OwnInv, dev
<1>4. /\ \A e \in Devices \ {ctl.dev} : live'[e] = live[e] /\ held'[e] = held[e]
      /\ held'[ctl.dev] = held[ctl.dev] \union X
      /\ live'[ctl.dev] = live[ctl.dev] \union X
  BY <1>1, InvFacts DEF TypeOK
<1>5. TypeOK'
  <2>1. Resource \subseteq AnyResource
    BY DEF AnyResource
  <2>2. live' \in [Devices -> SUBSET AnyResource] /\ held' \in [Devices -> SUBSET Resource]
    BY <1>1, <2>1, InvFacts DEF TypeOK
  <2>3. bridge' \in SUBSET Devices
    BY <1>1, InvFacts DEF TypeOK
  <2> QED
    BY <2>2, <2>3, InvFacts DEF TypeOK, SwitchTypes
<1>6. OwnInv'
  <2>1. \A e \in Registered' : e # ctl.dev /\ e \in Devices
    BY <1>2, <1>3, InvFacts DEF TypeOK, Registered
  <2>2. \A e \in Registered' : /\ e \in bridge'
                               /\ live'[e] = Resource /\ held'[e] = Resource
                               /\ count'[e] = NumFrontends
    BY <1>2, <1>4, <2>1, InvFacts DEF OwnInv
  <2>3. \A e \in Devices \ usb' : live'[e] = {}
    BY <1>3, <1>4, InvFacts DEF OwnInv
  <2>4. \A e \in Devices : e \in usb' <=> e \in Registered' \/ (Busy' /\ e = dev')
    BY <1>2, InvFacts DEF OwnInv, dev
  <2> QED
    BY <1>2, <1>3, <2>2, <2>3, <2>4, InvFacts DEF OwnInv, dev
<1>7. TearInv'
  <2>1. usb \subseteq Devices
    BY InvFacts DEF TypeOK
  <2>2. held'[ctl.dev] = live'[ctl.dev]
    BY <1>2 DEF RaiseInv, dev
  <2>3. \A d \in usb' : live'[d] \intersect Resource \subseteq held'[d]
    BY <1>4, <2>1, <2>2, InvFacts DEF TearInv
  <2> QED
    BY <1>2, <2>3 DEF TearInv
<1>8. SwitchInv'
  OBVIOUS
<1>9. HandleInv'
  <2>1. ~ShuttingDown'
    BY <1>2 DEF ShuttingDown
  <2> QED
    BY <1>2, <2>1, InvFacts DEF HandleInv
<1>10. ReleasedInOrder'
  <2>1. ASSUME NEW f \in Frontend
        PROVE  /\ <<"stream", f>> \in live'[ctl.dev] => <<"pipe", f>> \in live'[ctl.dev]
               /\ <<"tuner", f>> \in live'[ctl.dev] => <<"demod", f>> \in live'[ctl.dev]
    <3>1. live'[ctl.dev] = (Kind \X (0..(fn' - 1))) \union (Partial' \X {fn'})
      BY <1>2 DEF RaiseInv, dev
    <3>2. "stream" \notin Partial' /\ ("tuner" \in Partial' => "demod" \in Partial')
      BY DEF Partial
    <3>3. {"stream", "pipe", "tuner", "demod"} \subseteq Kind
      BY DEF Kind
    <3> QED
      BY <3>1, <3>2, <3>3
  <2>2. ASSUME NEW d \in Devices \ {ctl.dev}, NEW f \in Frontend
        PROVE  /\ <<"stream", f>> \in live'[d] => d \in usb' /\ <<"pipe", f>> \in live'[d]
               /\ <<"tuner", f>> \in live'[d] => <<"demod", f>> \in live'[d]
    BY <1>4, InvFacts DEF ReleasedInOrder
  <2> QED
    BY <1>3, <2>1, <2>2 DEF ReleasedInOrder
<1>11. OthersLeaveNothing'
  BY InvFacts DEF OthersLeaveNothing
<1> QED
  BY <1>5, <1>6, <1>7, <1>8, <1>9, <1>10, <1>11 DEF EngineInv

\* A step that brings the struct nothing.
LEMMA NothingGained ==
    ASSUME TypeOK
    PROVE  /\ live = [live EXCEPT ![ctl.dev] = live[ctl.dev] \union {}]
           /\ held = [held EXCEPT ![ctl.dev] = held[ctl.dev] \union {}]
  BY CtlFields DEF TypeOK

\* The GPIO sequence leaves the device that comes up quiet, and with it what is
\* not in doubt.
LEMMA QuietAfterSetup ==
    ASSUME EngineInv, ctl.dev \in Devices, capture[ctl.dev] = {}, TsOff,
           Settle(dev) \/ UNCHANGED doubt, UNCHANGED <<plugged, usb, capture>>
    PROVE  SwitchTypes' /\ SwitchInv'
<1>1. /\ tsEnable' = [tsEnable EXCEPT ![ctl.dev] = {}]
      /\ tsEnable \in [Devices -> SUBSET Frontend] /\ doubt \subseteq Devices \X Frontend
      /\ plugged \subseteq Devices
  BY InvFacts DEF TsOff, TypeOK, dev
<1>2. doubt' = doubt \/ doubt' = doubt \ ({ctl.dev} \X Frontend)
  BY DEF Settle, dev
<1>3. SwitchTypes'
  BY <1>1, <1>2 DEF SwitchTypes
<1>4. tsEnable'[ctl.dev] = {} /\ \A e \in Devices \ {ctl.dev} : tsEnable'[e] = tsEnable[e]
  BY <1>1
<1>5. ASSUME NEW e \in plugged, NEW f \in Frontend
      PROVE  <<e, f>> \in doubt' \/ (f \in tsEnable'[e] <=> e \in usb /\ f \in capture[e])
  <2>1. CASE e = ctl.dev
    BY <1>4, <2>1
  <2>2. CASE e # ctl.dev
    <3>1. <<e, f>> \in doubt => <<e, f>> \in doubt'
      BY <1>2, <2>2
    <3>2. <<e, f>> \in doubt \/ (f \in tsEnable[e] <=> e \in usb /\ f \in capture[e])
      BY InvFacts DEF SwitchInv, CaptureMatches
    <3> QED
      BY <1>1, <1>4, <2>2, <3>1, <3>2
  <2> QED
    BY <2>1, <2>2
<1>6. CaptureMatches'
  BY <1>5 DEF CaptureMatches
<1>7. \A e \in Devices \ plugged' : tsEnable'[e] = {}
  BY <1>4, InvFacts DEF SwitchInv
<1> QED
  BY <1>3, <1>6, <1>7 DEF SwitchInv

LEMMA BridgeKeeps ==
    ASSUME EngineInv, OpenBridge \/ Setup
    PROVE  EngineInv'
<1>1. /\ Raising /\ ctl.at \in {"bridge", "setup"} /\ ctl.fn = 0 /\ count[ctl.dev] = 0
      /\ capture[ctl.dev] = {}
  BY InvFacts DEF OpenBridge, Setup, RaiseInv, Raising, UpSteps, dev, fn
<1>2. ctl.dev \in Devices /\ NumFrontends \in Nat \ {0} /\ Partial = {}
  BY <1>1, InvFacts, CtlFields, EngineAssumption DEF Partial
<1>3. ASSUME Fail, bridge' = bridge \/ bridge' = bridge \union {ctl.dev},
             SwitchTypes', SwitchInv',
             UNCHANGED <<plugged, usb, live, held, awake, count, capture, registry,
                         failed, leaked, misused>>
      PROVE  EngineInv'
  <2>1. GoesTo("teardown", ctl.dev, 0, ctl.fn, 1, "fail") /\ ctl'.handles = ctl.handles
    BY <1>1, <1>3, InvFacts, FailMoves
  <2>2. live' = [live EXCEPT ![ctl.dev] = live[ctl.dev] \union {}]
    BY <1>3, InvFacts, NothingGained
  <2>3. failed \subseteq failed' /\ failed' \subseteq Devices \X Frontend
    BY <1>3, InvFacts DEF TypeOK
  <2> QED
    BY <1>1, <1>3, <2>1, <2>2, <2>3, RaisingFails
<1>4. ASSUME NEW step \in {"setup", "pipe"}, Goto(step), ctl.dev \in bridge',
             bridge' = bridge \/ bridge' = bridge \union {ctl.dev},
             SwitchTypes', SwitchInv',
             UNCHANGED <<plugged, usb, live, held, awake, count, capture, registry,
                         failed, leaked, misused>>
      PROVE  EngineInv'
  <2>1. step \in Steps
    BY DEF Steps
  <2>2. /\ ctl' \in Ctl /\ ctl'.at = step /\ ctl'.dev = ctl.dev /\ ctl'.fn = ctl.fn
        /\ ctl'.handles = ctl.handles
    BY <1>4, <2>1, InvFacts, GotoMoves DEF GoesTo
  <2>3. /\ live' = [live EXCEPT ![ctl.dev] = live[ctl.dev] \union {}]
        /\ held' = [held EXCEPT ![ctl.dev] = held[ctl.dev] \union {}]
    BY <1>4, InvFacts, NothingGained
  <2>4. ctl'.at \in UpSteps /\ Partial' = {}
    BY <2>2 DEF UpSteps, Partial
  <2>5. RaiseInv'
    <3>1. /\ live'[dev'] = (Kind \X (0..(fn' - 1))) \union (Partial' \X {fn'})
          /\ held'[dev'] = live'[dev'] /\ count'[dev'] = fn' /\ capture'[dev'] = {}
      BY <1>1, <1>2, <1>4, <2>2, <2>4, InvFacts DEF RaiseInv, dev, fn
    <3> QED
      BY <1>1, <1>2, <2>2, <3>1 DEF RaiseInv, fn
  <2>6. /\ count' \in [Devices -> 0..NumFrontends]
        /\ \A d \in Devices \ {ctl.dev} : count'[d] = count[d]
        /\ awake' \in [Devices -> SUBSET ({"demod", "tuner"} \X Frontend)]
    BY <1>4, InvFacts DEF TypeOK
  <2> QED
    BY <1>1, <1>4, <2>2, <2>3, <2>4, <2>5, <2>6, RaisingGoesOn
<1>5. CASE OpenBridge
  <2>1. SwitchTypes' /\ SwitchInv'
    BY <1>5, SwitchStays DEF OpenBridge
  <2> QED
    BY <1>2, <1>3, <1>4, <1>5, <2>1 DEF OpenBridge, dev
<1>6. CASE Setup
  <2>1. ctl.dev \in bridge
    BY <1>6, InvFacts DEF Setup, OwnInv, UpSteps, dev
  <2>2. UNCHANGED <<plugged, usb, bridge, live, held, awake, count, capture, registry,
                    failed, leaked, misused>>
    BY <1>6 DEF Setup
  <2>3. CASE UNCHANGED <<tsEnable, doubt>>
    BY <1>3, <1>6, <2>1, <2>2, <2>3, SwitchStays, <1>4 DEF Setup
  <2>4. CASE dev \in plugged /\ TsOff /\ (Settle(dev) \/ UNCHANGED doubt)
    <3>1. SwitchTypes' /\ SwitchInv'
      BY <1>1, <1>2, <2>2, <2>4, QuietAfterSetup
    <3> QED
      BY <1>3, <1>4, <1>6, <2>1, <2>2, <3>1 DEF Setup
  <2> QED
    BY <1>6, <2>3, <2>4 DEF Setup
<1> QED
  BY <1>5, <1>6

\* The steps of frontend_open.
FrontendSteps == {"pipe", "attach", "demodInit", "tunerInit", "stream"}

LEMMA InFrontend ==
    ASSUME EngineInv, ctl.at \in FrontendSteps
    PROVE  /\ Raising /\ ctl.fn < NumFrontends /\ ctl.fn \in Nat /\ ctl.fn \in Frontend
           /\ ctl.dev \in Devices /\ ctl.dev \in bridge /\ NumFrontends \in Nat
           /\ live[ctl.dev] = (Kind \X (0..(ctl.fn - 1))) \union (Partial \X {ctl.fn})
           /\ held[ctl.dev] = live[ctl.dev] /\ count[ctl.dev] = ctl.fn
           /\ capture[ctl.dev] = {}
<1>1. Raising /\ ctl.at \in UpSteps
  BY DEF Raising, UpSteps, FrontendSteps
<1>2. ctl.fn < NumFrontends /\ NumFrontends \in Nat
  BY InvFacts, EngineAssumption DEF RaiseInv, FrontendSteps, fn
<1>3. ctl.fn \in Nat /\ ctl.fn \in Frontend /\ ctl.dev \in Devices
  BY <1>2, InvFacts, CtlFields DEF Frontend
<1> QED
  BY <1>1, <1>2, <1>3, InvFacts DEF RaiseInv, OwnInv, dev, fn

LEMMA FrontendFailsKeeps ==
    ASSUME EngineInv, ctl.at \in FrontendSteps, FrontendFails,
           live' = live \/ live' = [live EXCEPT ![ctl.dev] = live[ctl.dev] \union {<<"ghost", ctl.fn>>}],
           UNCHANGED <<plugged, usb, bridge, awake, count, capture, tsEnable, doubt,
                       registry, leaked, misused>>
    PROVE  EngineInv'
<1>1. GoesTo("teardown", ctl.dev, 0, ctl.fn, 1, "unwind") /\ ctl'.handles = ctl.handles
  BY InvFacts, UnwindMoves DEF FrontendFails
<1>2. /\ failed \subseteq failed' /\ failed' \subseteq Devices \X Frontend
      /\ <<ctl.dev, ctl.fn>> \in failed' /\ held' = held
  BY InFrontend, InvFacts DEF FrontendFails, TypeOK, dev, fn
<1>3. PICK X \in {{}, {<<"ghost", ctl.fn>>}} :
         live' = [live EXCEPT ![ctl.dev] = live[ctl.dev] \union X]
  BY InvFacts, NothingGained
<1>4. X \subseteq {<<"ghost", ctl.fn>>}
  OBVIOUS
<1>5. SwitchTypes' /\ SwitchInv'
  BY SwitchStays
<1> QED
  BY <1>1, <1>2, <1>3, <1>4, <1>5, InFrontend, RaisingFails

LEMMA FrontendGainsKeeps ==
    ASSUME EngineInv, ctl.at \in FrontendSteps, NEW X, X \subseteq Resource,
           NEW step \in {"attach", "demodInit", "tunerInit", "stream"},
           Goto(step), Partial' = Partial \union {x[1] : x \in X},
           \A x \in X : x = <<x[1], ctl.fn>>,
           live' = [live EXCEPT ![ctl.dev] = live[ctl.dev] \union X],
           held' = [held EXCEPT ![ctl.dev] = held[ctl.dev] \union X],
           awake' \in [Devices -> SUBSET ({"demod", "tuner"} \X Frontend)],
           UNCHANGED <<plugged, usb, bridge, count, capture, tsEnable, doubt, registry,
                       failed, leaked, misused>>
    PROVE  EngineInv'
<1>1. step \in Steps
  BY DEF Steps
<1>2. /\ ctl' \in Ctl /\ ctl'.at = step /\ ctl'.dev = ctl.dev /\ ctl'.fn = ctl.fn
      /\ ctl'.handles = ctl.handles
  BY <1>1, InvFacts, GotoMoves DEF GoesTo
<1>3. ctl'.at \in UpSteps /\ ctl'.at \notin {"bridge", "setup", "publish"}
  BY <1>2 DEF UpSteps
<1>4. live'[ctl.dev] = live[ctl.dev] \union X /\ held'[ctl.dev] = held[ctl.dev] \union X
  BY InFrontend, InvFacts DEF TypeOK
<1>5. Partial' \X {ctl.fn} = (Partial \X {ctl.fn}) \union X
  <2>1. ASSUME NEW x \in X PROVE x \in Partial' \X {ctl.fn}
    OBVIOUS
  <2>2. ASSUME NEW x \in Partial' \X {ctl.fn} PROVE x \in (Partial \X {ctl.fn}) \union X
    <3>1. x = <<x[1], ctl.fn>> /\ x[1] \in Partial \union {y[1] : y \in X}
      OBVIOUS
    <3>2. CASE x[1] \in Partial
      BY <3>1, <3>2
    <3>3. CASE x[1] \in {y[1] : y \in X}
      <4>1. PICK y \in X : x[1] = y[1]
        BY <3>3
      <4> QED
        BY <3>1, <4>1
    <3> QED
      BY <3>1, <3>2, <3>3
  <2>3. ASSUME NEW x \in Partial \X {ctl.fn} PROVE x \in Partial' \X {ctl.fn}
    OBVIOUS
  <2> QED
    BY <2>1, <2>2, <2>3
<1>6. RaiseInv'
  <2>1. live'[ctl.dev] = (Kind \X (0..(ctl.fn - 1))) \union (Partial' \X {ctl.fn})
    BY <1>4, <1>5, InFrontend
  <2> QED
    BY <1>2, <1>3, <1>4, <2>1, InFrontend DEF RaiseInv, dev, fn
<1>7. count' \in [Devices -> 0..NumFrontends] /\ \A d \in Devices \ {ctl.dev} : count'[d] = count[d]
  BY InvFacts DEF TypeOK
<1>8. SwitchTypes' /\ SwitchInv'
  BY SwitchStays
<1> QED
  BY <1>2, <1>3, <1>6, <1>7, <1>8, InFrontend, RaisingGoesOn

LEMMA FrontendKeeps ==
    ASSUME EngineInv, MakePipe \/ Attach \/ InitDemod \/ InitTuner
    PROVE  EngineInv'
<1>1. ctl.at \in FrontendSteps
  BY DEF MakePipe, Attach, InitDemod, InitTuner, FrontendSteps
<1>2. {"pipe", "demod", "tuner"} \subseteq Kind /\ ctl.fn \in Frontend
  BY <1>1, InFrontend DEF Kind
<1>3. awake \in [Devices -> SUBSET ({"demod", "tuner"} \X Frontend)]
  BY InvFacts DEF TypeOK
<1>4. ASSUME FrontendFails,
             live' = live \/ live' = [live EXCEPT ![ctl.dev] = live[ctl.dev] \union {<<"ghost", ctl.fn>>}],
             UNCHANGED <<plugged, usb, bridge, awake, count, capture, tsEnable, doubt,
                         registry, leaked, misused>>
      PROVE  EngineInv'
  BY <1>1, <1>4, FrontendFailsKeeps
<1>5. ASSUME NEW step \in Steps, Goto(step)
      PROVE  ctl'.at = step
  BY <1>5, InvFacts, GotoMoves DEF GoesTo
<1>6. CASE MakePipe
  <2>1. ASSUME FrontendGains({<<"pipe", fn>>}, "attach"),
               UNCHANGED <<plugged, usb, bridge, awake, count, capture, tsEnable, doubt,
                           registry, leaked, misused>>
        PROVE  EngineInv'
    <3> DEFINE X == {<<"pipe", ctl.fn>>}
    <3>1. X \subseteq Resource /\ \A x \in X : x = <<x[1], ctl.fn>>
      BY <1>2 DEF Resource
    <3>2. ctl'.at = "attach" /\ ctl.at = "pipe"
      BY <1>5, <1>6, <2>1 DEF FrontendGains, MakePipe, Steps
    <3>3. {x[1] : x \in X} = {"pipe"}
      OBVIOUS
    <3>4. Partial' = Partial \union {x[1] : x \in X}
      BY <3>2, <3>3 DEF Partial
    <3>5. /\ live' = [live EXCEPT ![ctl.dev] = live[ctl.dev] \union X]
          /\ held' = [held EXCEPT ![ctl.dev] = held[ctl.dev] \union X]
      BY <2>1 DEF FrontendGains, Obtain, dev, fn
    <3>6. Goto("attach") /\ failed' = failed
      BY <2>1 DEF FrontendGains
    <3> HIDE DEF X
    <3> QED
      BY <1>1, <1>3, <2>1, <3>1, <3>4, <3>5, <3>6, FrontendGainsKeeps
  <2> QED
    BY <1>4, <1>6, <2>1 DEF MakePipe
<1>7. CASE Attach
  <2>1. ASSUME FrontendGains({<<"demod", fn>>, <<"tuner", fn>>}, "demodInit"),
               UNCHANGED <<plugged, usb, bridge, awake, count, capture, tsEnable, doubt,
                           registry, leaked, misused>>
        PROVE  EngineInv'
    <3> DEFINE X == {<<"demod", ctl.fn>>, <<"tuner", ctl.fn>>}
    <3>1. X \subseteq Resource /\ \A x \in X : x = <<x[1], ctl.fn>>
      BY <1>2 DEF Resource
    <3>2. ctl'.at = "demodInit" /\ ctl.at = "attach"
      BY <1>5, <1>7, <2>1 DEF FrontendGains, Attach, Steps
    <3>3. {x[1] : x \in X} = {"demod", "tuner"}
      OBVIOUS
    <3>4. Partial' = Partial \union {x[1] : x \in X}
      BY <3>2, <3>3 DEF Partial
    <3>5. /\ live' = [live EXCEPT ![ctl.dev] = live[ctl.dev] \union X]
          /\ held' = [held EXCEPT ![ctl.dev] = held[ctl.dev] \union X]
      BY <2>1 DEF FrontendGains, Obtain, dev, fn
    <3>6. Goto("demodInit") /\ failed' = failed
      BY <2>1 DEF FrontendGains
    <3> HIDE DEF X
    <3> QED
      BY <1>1, <1>3, <2>1, <3>1, <3>4, <3>5, <3>6, FrontendGainsKeeps
  <2> QED
    BY <1>4, <1>7, <2>1 DEF Attach, dev, fn
<1>8. ASSUME NEW chip \in {"demod", "tuner"}, NEW step \in {"tunerInit", "stream"},
             ctl.at \in {"demodInit", "tunerInit"}, InitChip(chip, step)
      PROVE  EngineInv'
  <2>1. ASSUME awake' = [awake EXCEPT ![dev] = @ \union {<<chip, fn>>}], Goto(step),
               UNCHANGED <<plugged, usb, bridge, live, held, count, capture, tsEnable, doubt,
                           registry, failed, leaked, misused>>
        PROVE  EngineInv'
    <3>1. awake' \in [Devices -> SUBSET ({"demod", "tuner"} \X Frontend)]
      <4> DEFINE Chips == {"demod", "tuner"} \X Frontend
      <4>1. <<chip, ctl.fn>> \in Chips
        BY <1>2
      <4>2. awake \in [Devices -> SUBSET Chips]
        BY <1>3
      <4>3. awake' = [awake EXCEPT ![ctl.dev] = awake[ctl.dev] \union {<<chip, ctl.fn>>}]
        BY <2>1 DEF dev, fn
      <4> HIDE DEF Chips
      <4>4. awake' \in [Devices -> SUBSET Chips]
        BY <4>1, <4>2, <4>3
      <4> QED
        BY <4>4 DEF Chips
    <3>2. ctl'.at = step
      BY <1>5, <2>1 DEF Steps
    <3>3. PICK X \in SUBSET Resource : X = {}
      OBVIOUS
    <3>4. {x[1] : x \in X} = {} /\ Partial' = Partial
      BY <1>8, <3>2, <3>3 DEF Partial
    <3>5. /\ Partial' = Partial \union {x[1] : x \in X}
          /\ \A x \in X : x = <<x[1], ctl.fn>>
          /\ live' = [live EXCEPT ![ctl.dev] = live[ctl.dev] \union X]
          /\ held' = [held EXCEPT ![ctl.dev] = held[ctl.dev] \union X]
      BY <2>1, <3>3, <3>4, InvFacts, NothingGained
    <3>6. step \in {"attach", "demodInit", "tunerInit", "stream"}
      OBVIOUS
    <3>7. UNCHANGED <<plugged, usb, bridge, count, capture, tsEnable, doubt, registry,
                      failed, leaked, misused>>
      BY <2>1
    <3> QED
      BY <1>1, <2>1, <3>1, <3>5, <3>6, <3>7, FrontendGainsKeeps
  <2> QED
    BY <1>4, <1>8, <2>1 DEF InitChip
<1>9. CASE InitDemod
  BY <1>8, <1>9 DEF InitDemod
<1>10. CASE InitTuner
  BY <1>8, <1>10 DEF InitTuner
<1> QED
  BY <1>6, <1>7, <1>9, <1>10

LEMMA StreamKeeps ==
    ASSUME EngineInv, OpenStream
    PROVE  EngineInv'
<1>1. ctl.at \in FrontendSteps /\ ctl.at = "stream"
  BY DEF OpenStream, FrontendSteps
<1>2. ASSUME Obtain({<<"stream", fn>>, <<"name", fn>>}),
             count' = [count EXCEPT ![dev] = fn + 1],
             ctl' = [ctl EXCEPT !.fn = fn + 1, !.at = AfterFrontend],
             UNCHANGED <<plugged, usb, bridge, awake, capture, tsEnable, doubt, registry,
                         failed, leaked, misused>>
      PROVE  EngineInv'
  <2> DEFINE X == {<<"stream", ctl.fn>>, <<"name", ctl.fn>>}
  <2>1. X \subseteq Resource
    BY <1>1, InFrontend DEF Resource, Kind
  <2>2. PICK n \in 0..NumFrontends : n = ctl.fn + 1
    BY <1>1, InFrontend
  <2>3. PICK step \in {"pipe", "publish"} : step = AfterFrontend
    BY DEF AfterFrontend
  <2>4. ctl' = [ctl EXCEPT !.fn = n, !.at = step]
    BY <1>2, <2>2, <2>3 DEF fn
  <2>5. /\ ctl' \in Ctl /\ ctl'.at = step /\ ctl'.dev = ctl.dev /\ ctl'.fn = n
        /\ ctl'.handles = ctl.handles
    BY <2>4, InvFacts, CtlFields DEF Ctl, Steps
  <2>6. /\ live' = [live EXCEPT ![ctl.dev] = live[ctl.dev] \union X]
        /\ held' = [held EXCEPT ![ctl.dev] = held[ctl.dev] \union X]
    BY <1>2 DEF Obtain, dev, fn
  <2>7. live'[ctl.dev] = live[ctl.dev] \union X /\ held'[ctl.dev] = held[ctl.dev] \union X
    BY <1>1, <2>6, InFrontend, InvFacts DEF TypeOK
  <2>8. count' = [count EXCEPT ![ctl.dev] = n]
    BY <1>2, <2>2 DEF dev, fn
  <2>9. /\ count' \in [Devices -> 0..NumFrontends] /\ count'[ctl.dev] = n
        /\ \A d \in Devices \ {ctl.dev} : count'[d] = count[d]
    BY <1>1, <2>8, InFrontend, InvFacts DEF TypeOK
  <2>10. Partial = {"pipe", "demod", "tuner"} /\ Partial' = {}
    BY <1>1, <2>5 DEF Partial
  <2>11. live'[ctl.dev] = (Kind \X (0..(n - 1))) \union (Partial' \X {n})
    <3>1. 0..(n - 1) = (0..(ctl.fn - 1)) \union {ctl.fn}
      BY <1>1, <2>2, InFrontend
    <3>2. Kind \X (0..(n - 1)) = (Kind \X (0..(ctl.fn - 1))) \union (Kind \X {ctl.fn})
      BY <3>1
    <3>3. Kind = {"pipe", "demod", "tuner"} \union {"stream", "name"}
      BY DEF Kind
    <3>4. Kind \X {ctl.fn} = (Partial \X {ctl.fn}) \union ({"stream", "name"} \X {ctl.fn})
      BY <2>10, <3>3
    <3>5. X = {"stream", "name"} \X {ctl.fn}
      OBVIOUS
    <3> HIDE DEF X
    <3> QED
      BY <1>1, <2>7, <2>10, <3>2, <3>4, <3>5, InFrontend
  <2>12. RaiseInv'
    <3>1. step = "pipe" => n < NumFrontends
      BY <2>2, <2>3 DEF AfterFrontend, fn
    <3>2. step = "publish" => n = NumFrontends
      BY <1>1, <2>2, <2>3, InFrontend DEF AfterFrontend, fn
    <3>3. held'[ctl.dev] = live'[ctl.dev]
      BY <1>1, <2>7, InFrontend
    <3> QED
      BY <1>1, <1>2, <2>5, <2>9, <2>11, <3>1, <3>2, <3>3, InFrontend DEF RaiseInv, dev, fn
  <2>13. ctl'.at \in UpSteps
    BY <2>5 DEF UpSteps
  <2>14. awake' \in [Devices -> SUBSET ({"demod", "tuner"} \X Frontend)]
    BY <1>2, InvFacts DEF TypeOK
  <2>15. SwitchTypes' /\ SwitchInv'
    BY <1>2, SwitchStays
  <2> HIDE DEF X
  <2> QED
    BY <1>1, <1>2, <2>1, <2>5, <2>6, <2>9, <2>12, <2>13, <2>14, <2>15, InFrontend,
       RaisingGoesOn
<1>3. ASSUME FrontendFails, UNCHANGED <<live, count>>,
             UNCHANGED <<plugged, usb, bridge, awake, capture, tsEnable, doubt, registry,
                         leaked, misused>>
      PROVE  EngineInv'
  BY <1>1, <1>3, FrontendFailsKeeps
<1> QED
  BY <1>2, <1>3 DEF OpenStream

LEMMA PublishKeeps ==
    ASSUME EngineInv, Publish
    PROVE  EngineInv'
<1> DEFINE d == ctl.dev
           h == ctl.handles
           g == [i \in 1..NumFrontends |-> <<d, i - 1>>]
<1>1. /\ d \in Devices /\ NumFrontends \in Nat \ {0} /\ h \in Seq(Devices \X Frontend)
      /\ registry \in Seq(Devices) /\ Registered \subseteq Devices
  BY InvFacts, CtlFields, EngineAssumption DEF TypeOK, Registered
<1>2. Raising /\ Busy /\ ctl.at = "publish" /\ ctl.fn = NumFrontends
  BY InvFacts DEF Publish, RaiseInv, Raising, Busy, UpSteps, fn
<1>3. /\ d \in usb /\ d \notin Registered /\ d \in bridge
      /\ count[d] = NumFrontends /\ held[d] = live[d] /\ live[d] = Resource
  <2>1. 0..(NumFrontends - 1) = Frontend /\ Partial = {}
    BY <1>2 DEF Frontend, Partial
  <2>2. live[d] = (Kind \X Frontend) \union ({} \X {ctl.fn})
    BY <1>2, <2>1, InvFacts DEF RaiseInv, dev, fn
  <2>3. d \in bridge
    BY <1>2, InvFacts DEF OwnInv, UpSteps, dev
  <2> QED
    BY <1>1, <1>2, <2>2, <2>3, InvFacts DEF OwnInv, RaiseInv, Resource, dev, fn
<1>4. /\ g \in Seq(Devices \X Frontend) /\ Len(g) = NumFrontends
      /\ \A i \in 1..NumFrontends : g[i] = <<d, i - 1>>
  <2>1. \A i \in 1..NumFrontends : <<d, i - 1>> \in Devices \X Frontend
    BY <1>1 DEF Frontend
  <2>2. g \in [1..NumFrontends -> Devices \X Frontend]
    BY <2>1
  <2> QED
    BY <1>1, <2>2
<1>5. SubSeq(h, 1, Published) = h
  BY <1>1 DEF Published
<1>6. PICK s \in Seq(Devices \X Frontend) :
         /\ s = h \o g /\ Len(s) = Len(h) + NumFrontends
         /\ \A i \in 1..Len(h) : s[i] = h[i]
         /\ \A i \in (Len(h) + 1)..(Len(h) + NumFrontends) : s[i] = <<d, i - Len(h) - 1>>
  <2>1. h \o g \in Seq(Devices \X Frontend) /\ Len(h \o g) = Len(h) + NumFrontends
    BY <1>1, <1>4
  <2>2. \A i \in 1..Len(h) : (h \o g)[i] = h[i]
    BY <1>1, <1>4
  <2>3. \A i \in (Len(h) + 1)..(Len(h) + NumFrontends) :
            (h \o g)[i] = g[i - Len(h)] /\ i - Len(h) \in 1..NumFrontends
    BY <1>1, <1>4
  <2> QED
    BY <1>4, <2>1, <2>2, <2>3
<1>7. /\ ctl' \in Ctl /\ ctl'.at = "table" /\ ctl'.handles = s
  <2>1. ctl' = [ctl EXCEPT !.at = "table", !.handles = s]
    BY <1>5, <1>6 DEF Publish, dev
  <2> QED
    BY <2>1, InvFacts, CtlFields DEF Ctl, Steps
<1>8. /\ registry' = <<d>> \o registry
      /\ UNCHANGED <<plugged, usb, bridge, live, held, awake, count, capture,
                     tsEnable, doubt, failed, leaked, misused>>
  BY DEF Publish, dev
<1> HIDE DEF g
<1>9. /\ registry' \in Seq(Devices) /\ Len(registry') = Len(registry) + 1
      /\ registry'[1] = d /\ \A i \in 1..Len(registry) : registry'[i + 1] = registry[i]
      /\ \A i \in 2..Len(registry') : registry'[i] = registry[i - 1] /\ i - 1 \in 1..Len(registry)
  <2>1. <<d>> \in Seq(Devices) /\ Len(<<d>>) = 1 /\ <<d>>[1] = d
    BY <1>1
  <2>2. PICK e \in Seq(Devices) : e = <<d>> /\ Len(e) = 1 /\ e[1] = d
    BY <2>1
  <2>3. registry' = e \o registry
    BY <1>8, <2>2
  <2>4. registry' \in Seq(Devices) /\ Len(registry') = Len(registry) + 1
    BY <1>1, <2>2, <2>3
  <2>5. registry'[1] = d
    BY <1>1, <2>2, <2>3
  <2>6. \A i \in 1..Len(registry) : registry'[i + 1] = registry[i]
    BY <1>1, <2>2, <2>3
  <2>7. \A i \in 2..Len(registry') : registry'[i] = registry[i - 1] /\ i - 1 \in 1..Len(registry)
    BY <1>1, <2>2, <2>3
  <2> QED
    BY <2>4, <2>5, <2>6, <2>7
<1>10. Registered' = Registered \union {d}
  <2>1. \A x \in Registered' : x \in Registered \union {d}
    <3>1. ASSUME NEW i \in 1..Len(registry') PROVE registry'[i] \in Registered \union {d}
      <4>1. CASE i = 1
        BY <1>9, <4>1
      <4>2. CASE i # 1
        <5>1. i \in 2..Len(registry')
          BY <1>9, <4>2
        <5> QED
          BY <1>9, <5>1 DEF Registered
      <4> QED
        BY <4>1, <4>2
    <3> QED
      BY <3>1 DEF Registered
  <2>2. d \in Registered'
    <3>1. 1 \in 1..Len(registry')
      BY <1>1, <1>9
    <3> QED
      BY <1>9, <3>1 DEF Registered
  <2>3. \A x \in Registered : x \in Registered'
    <3>1. ASSUME NEW i \in 1..Len(registry) PROVE registry[i] \in Registered'
      <4>1. i + 1 \in 1..Len(registry')
        BY <1>1, <1>9
      <4> QED
        BY <1>9, <4>1 DEF Registered
    <3> QED
      BY <3>1 DEF Registered
  <2> QED
    BY <2>1, <2>2, <2>3
<1> HIDE DEF h
<1>11. ~Busy' /\ ~Raising' /\ ctl'.at \notin UpSteps
  BY <1>7 DEF Busy, Raising, UpSteps
<1>12. TypeOK'
  BY <1>7, <1>8, <1>9, InvFacts DEF TypeOK
<1>13. OwnInv'
  <2>1. ASSUME NEW i \in 1..Len(registry'), NEW j \in 1..Len(registry'),
               registry'[i] = registry'[j]
        PROVE  i = j
    <3>1. \A k \in 2..Len(registry') : registry'[k] \in Registered
      BY <1>9 DEF Registered
    <3>2. i \in 2..Len(registry') \/ i = 1
      BY <1>9
    <3>3. j \in 2..Len(registry') \/ j = 1
      BY <1>9
    <3>4. i = 1 <=> j = 1
      BY <1>3, <1>9, <2>1, <3>1, <3>2, <3>3
    <3>5. CASE i # 1 /\ j # 1
      <4>1. registry[i - 1] = registry[j - 1] /\ i - 1 \in 1..Len(registry) /\ j - 1 \in 1..Len(registry)
        BY <1>9, <2>1, <3>2, <3>3, <3>5
      <4>2. i - 1 = j - 1
        BY <4>1, InvFacts DEF OwnInv
      <4> QED
        BY <4>2
    <3> QED
      BY <3>4, <3>5
  <2>2. \A e \in Devices : e \in usb' <=> e \in Registered' \/ (Busy' /\ e = dev')
    BY <1>2, <1>8, <1>10, <1>11, InvFacts DEF OwnInv, dev
  <2>3. \A e \in Registered' : /\ e \in bridge'
                               /\ live'[e] = Resource /\ held'[e] = Resource
                               /\ count'[e] = NumFrontends
    BY <1>3, <1>8, <1>10, InvFacts DEF OwnInv
  <2> QED
    BY <1>8, <1>11, <2>1, <2>2, <2>3, InvFacts DEF OwnInv
<1>14. RaiseInv'
  BY <1>7, <1>11 DEF RaiseInv
<1>15. TearInv'
  BY <1>7, <1>8, InvFacts DEF TearInv
<1>16. SwitchInv'
  BY <1>8, InvFacts DEF SwitchInv, CaptureMatches
<1>17. HandleInv'
  <2>1. Len(s) <= MaxHandles
    BY <1>1, <1>2, <1>6, InvFacts, EngineAssumption DEF HandleInv, h
  <2>2. ~ShuttingDown'
    BY <1>7 DEF ShuttingDown
  <2>3. \A i \in 1..Len(h) : h[i][1] \in Registered
    BY <1>1, InvFacts DEF HandleInv, h
  <2>4. DOMAIN s = 1..Len(s) /\ Len(h) \in Nat /\ DOMAIN h = 1..Len(h)
    BY <1>1, <1>6
  <2>5. \A k \in DOMAIN s : k \in 1..Len(h) \/ k \in (Len(h) + 1)..(Len(h) + NumFrontends)
    BY <1>6, <2>4
  <2>6. \A k \in 1..Len(h) : k \in DOMAIN s /\ s[k][1] # d
    BY <1>1, <1>3, <1>6, <2>3, <2>4
  <2>7. \A k \in DOMAIN s : k \notin 1..Len(h) => s[k] = <<d, k - Len(h) - 1>>
    BY <1>6, <2>5
  <2>9. \A a, b \in Int : a - Len(h) - 1 = b - Len(h) - 1 => a = b
    BY <2>4, SamePlace
  <2>8. ASSUME NEW i \in DOMAIN s, NEW f \in Frontend
        PROVE  s[i][1] \in Registered' /\ OnceIn(s, s[i][1], f)
    <3>1. CASE i \in 1..Len(h)
      <4>1. s[i][1] \in Registered /\ s[i][1] # d /\ s[i] = h[i]
        BY <1>6, <2>3, <2>6, <3>1
      <4>2. OnceIn(h, h[i][1], f)
        BY <2>4, <3>1, InvFacts DEF HandleInv, h
      <4>3. PICK j \in DOMAIN h : /\ h[j] = <<h[i][1], f>>
                                  /\ \A k \in DOMAIN h : h[k] = <<h[i][1], f>> => k = j
        BY <4>2 DEF OnceIn
      <4>4. j \in DOMAIN s /\ s[j] = <<s[i][1], f>>
        BY <1>6, <2>4, <2>6, <4>1, <4>3
      <4>5. ASSUME NEW k \in DOMAIN s, s[k] = <<s[i][1], f>> PROVE k = j
        <5>1. k \in 1..Len(h)
          BY <2>7, <4>1, <4>5
        <5> QED
          BY <1>6, <2>4, <4>1, <4>3, <4>5, <5>1
      <4> QED
        BY <1>10, <4>1, <4>4, <4>5 DEF OnceIn
    <3>2. CASE i \notin 1..Len(h)
      <4>1. s[i][1] = d
        BY <2>7, <3>2
      <4>2. PICK j \in DOMAIN s : /\ j = Len(h) + f + 1 /\ j \notin 1..Len(h)
                                 /\ f \in Nat /\ j \in Int
        BY <1>1, <1>6, <2>4 DEF Frontend
      <4>5. j - Len(h) - 1 = f
        BY <2>4, <4>2, PlaceBack
      <4>3. s[j] = <<d, f>>
        BY <2>7, <4>2, <4>5
      <4>4. ASSUME NEW k \in DOMAIN s, s[k] = <<d, f>> PROVE k = j
        <5>1. k \notin 1..Len(h)
          BY <2>6, <4>4
        <5>2. <<d, k - Len(h) - 1>> = <<d, f>>
          <6>1. s[k] = <<d, k - Len(h) - 1>>
            BY <2>7, <4>4, <5>1
          <6> QED
            BY <4>4, <6>1
        <5>3. k - Len(h) - 1 = f
          BY <5>2
        <5>4. k \in Int /\ Len(h) \in Int /\ f \in Int
          <6>1. k \in 1..Len(s)
            BY <2>4, <4>4
          <6>2. k \in Int
            BY <6>1
          <6>3. Len(h) \in Int
            BY <2>4
          <6>4. f \in Int
            BY <4>2
          <6> QED
            BY <6>2, <6>3, <6>4
        <5>5. k - Len(h) - 1 = j - Len(h) - 1
          BY <4>5, <5>3
        <5> QED
          BY <2>9, <4>2, <5>4, <5>5
      <4> QED
        BY <1>10, <4>1, <4>3, <4>4 DEF OnceIn
    <3> QED
      BY <3>1, <3>2
  <2> QED
    BY <1>7, <1>11, <2>1, <2>2, <2>8 DEF HandleInv
<1>18. ReleasedInOrder' /\ OthersLeaveNothing'
  BY <1>8, InvFacts DEF ReleasedInOrder, OthersLeaveNothing
<1> QED
  BY <1>12, <1>13, <1>14, <1>15, <1>16, <1>17, <1>18 DEF EngineInv

-----------------------------------------------------------------------------
\* What frontend_teardown gives back in the part it is in.
InPart(r) == r \in Resource /\ r[2] = ctl.fn /\ Slot(r[1]) = ctl.part

LEMMA TearFacts ==
    ASSUME EngineInv, ctl.at = "teardown"
    PROVE  /\ Busy /\ ~Raising /\ ctl.dev \in Devices /\ ctl.dev \in usb /\ ctl.dev \notin Registered
           /\ ctl.fn \in Nat /\ ctl.hi \in Nat /\ ctl.hi <= NumFrontends /\ ctl.part \in 1..6
           /\ ctl.fn <= ctl.hi
           /\ NumFrontends \in Nat
<1>1. Busy /\ ~Raising
  BY DEF Busy, Raising, UpSteps
<1>2. /\ ctl.dev \in Devices /\ ctl.fn \in Nat /\ ctl.hi \in Nat /\ ctl.hi <= NumFrontends
      /\ ctl.part \in 1..6 /\ NumFrontends \in Nat
  BY InvFacts, CtlFields, EngineAssumption
<1>3. ctl.fn <= ctl.hi
  BY InvFacts DEF TearInv, fn
<1> QED
  BY <1>1, <1>2, <1>3, InvFacts DEF OwnInv, dev

LEMMA TearStep ==
    ASSUME EngineInv, ctl.at = "teardown", ctl.fn < ctl.hi, NextPart,
           NEW X, \A r \in X : InPart(r),
           live' = [live EXCEPT ![ctl.dev] = live[ctl.dev] \ X],
           \A r \in live'[ctl.dev] : ~InPart(r),
           held' \in [Devices -> SUBSET Resource],
           \A d \in Devices \ {ctl.dev} : held'[d] = held[d],
           live'[ctl.dev] \intersect Resource \subseteq held'[ctl.dev],
           capture' \in [Devices -> SUBSET Frontend],
           SwitchTypes',
           capture'[ctl.dev] \subseteq capture[ctl.dev],
           ctl.part = 1 => ctl.fn \notin capture'[ctl.dev],
           misused' \in SUBSET (Devices \X Resource), SwitchInv',
           UNCHANGED <<plugged, usb, bridge, awake, count, registry, failed, leaked>>
    PROVE  EngineInv'
<1>1. /\ Busy /\ ~Raising /\ ctl.dev \in Devices /\ ctl.dev \in usb /\ ctl.dev \notin Registered
      /\ ctl.fn \in Nat /\ ctl.hi \in Nat /\ ctl.hi <= NumFrontends /\ ctl.part \in 1..6
      /\ NumFrontends \in Nat
  BY TearFacts
<1>2. /\ IF ctl.part < 6
         THEN GoesTo(ctl.at, ctl.dev, ctl.fn, ctl.hi, ctl.part + 1, ctl.why)
         ELSE GoesTo(ctl.at, ctl.dev, ctl.fn + 1, ctl.hi, 1, ctl.why)
      /\ ctl'.handles = ctl.handles
  BY <1>1, InvFacts, NextPartMoves
<1>3. /\ ctl' \in Ctl /\ ctl'.at = "teardown" /\ ctl'.dev = ctl.dev /\ ctl'.hi = ctl.hi
      /\ ctl'.why = ctl.why
      /\ \/ ctl.part < 6 /\ ctl'.fn = ctl.fn /\ ctl'.part = ctl.part + 1
         \/ ctl.part = 6 /\ ctl'.fn = ctl.fn + 1 /\ ctl'.part = 1
  BY <1>1, <1>2 DEF GoesTo
<1>4. /\ Busy' /\ ~Raising' /\ ctl'.at \notin UpSteps /\ Registered' = Registered
  BY <1>3 DEF Busy, Raising, UpSteps, Registered
<1>5. /\ live'[ctl.dev] = live[ctl.dev] \ X
      /\ \A e \in Devices \ {ctl.dev} : live'[e] = live[e]
  BY <1>1, InvFacts DEF TypeOK
<1>6. TypeOK'
  <2>1. live' \in [Devices -> SUBSET AnyResource]
    BY <1>1, InvFacts DEF TypeOK
  <2> QED
    BY <1>3, <2>1, InvFacts DEF TypeOK, SwitchTypes
<1>7. OwnInv'
  <2>1. \A e \in Registered' : e # ctl.dev /\ e \in Devices
    BY <1>1, <1>4, InvFacts DEF TypeOK, Registered
  <2>2. \A e \in Registered' : /\ e \in bridge'
                               /\ live'[e] = Resource /\ held'[e] = Resource
                               /\ count'[e] = NumFrontends
    BY <1>4, <1>5, <2>1, InvFacts DEF OwnInv
  <2>3. \A e \in Devices \ usb' : live'[e] = {}
    BY <1>1, <1>5, InvFacts DEF OwnInv
  <2>4. \A e \in Devices : e \in usb' <=> e \in Registered' \/ (Busy' /\ e = dev')
    BY <1>1, <1>3, <1>4, InvFacts DEF OwnInv, dev
  <2> QED
    BY <1>1, <1>3, <1>4, <2>2, <2>3, <2>4, InvFacts DEF OwnInv, dev
<1>8. RaiseInv'
  BY <1>3, <1>4 DEF RaiseInv
<1>9. \A r \in Resource : Ahead(r)' <=> Ahead(r) /\ ~InPart(r)
  <2>1. ASSUME NEW r \in Resource PROVE Slot(r[1]) \in 1..6 /\ r[2] \in Nat
    BY <1>1 DEF Slot, Resource, Frontend
  <2>2. ASSUME NEW r \in Resource PROVE Ahead(r)' <=> Ahead(r) /\ ~InPart(r)
    <3>1. PICK k \in 1..6 : k = Slot(r[1])
      BY <2>1
    <3>2. PICK m \in Nat : m = r[2]
      BY <2>1
    <3>3. Ahead(r) <=> m < ctl.hi /\ (m > ctl.fn \/ (m = ctl.fn /\ ctl.part <= k))
      BY <3>1, <3>2 DEF Ahead, fn
    <3>4. Ahead(r)' <=> m < ctl.hi /\ (m > ctl'.fn \/ (m = ctl'.fn /\ ctl'.part <= k))
      BY <1>3, <3>1, <3>2 DEF Ahead, fn
    <3>5. InPart(r) <=> m = ctl.fn /\ k = ctl.part
      BY <3>1, <3>2 DEF InPart
    <3> QED
      BY <1>1, <1>3, <3>3, <3>4, <3>5
  <2> QED
    BY <2>2
<1>10. TearInv'
  <2>1. \A r \in live'[dev'] : <<dev', r[2]>> \in failed' \/ (r \in Resource /\ Ahead(r)')
    BY <1>3, <1>5, <1>9, InvFacts DEF TearInv, dev
  <2>2. ctl'.why = "shutdown" =>
           ctl'.hi = NumFrontends /\ \A r \in Resource : Ahead(r)' => r \in live'[dev']
    BY <1>3, <1>5, <1>9, InvFacts DEF TearInv, dev
  <2>3. \A d \in usb' : live'[d] \intersect Resource \subseteq held'[d]
    <3>1. usb \subseteq Devices
      BY InvFacts DEF TypeOK
    <3> QED
      BY <1>5, <3>1, InvFacts DEF TearInv
  <2>4. fn' <= ctl'.hi /\ (fn' = ctl'.hi => ctl'.part = 1)
    BY <1>1, <1>3 DEF fn
  <2>5. ctl'.part > 2 => <<"stream", fn'>> \notin live'[dev']
    <3>1. CASE ctl.part > 2
      BY <1>1, <1>3, <1>5, <3>1, InvFacts DEF TearInv, dev, fn
    <3>2. CASE ctl.part = 2
      <4>1. InPart(<<"stream", ctl.fn>>)
        BY <1>1, <3>2 DEF InPart, Slot, Resource, Kind, Frontend
      <4> QED
        BY <1>3, <3>2, <4>1 DEF dev, fn
    <3> QED
      BY <1>1, <1>3, <3>1, <3>2
  <2>6. ctl'.part > 4 => <<"tuner", fn'>> \notin live'[dev']
    <3>1. CASE ctl.part > 4
      BY <1>1, <1>3, <1>5, <3>1, InvFacts DEF TearInv, dev, fn
    <3>2. CASE ctl.part = 4
      <4>1. InPart(<<"tuner", ctl.fn>>)
        BY <1>1, <3>2 DEF InPart, Slot, Resource, Kind, Frontend
      <4> QED
        BY <1>3, <3>2, <4>1 DEF dev, fn
    <3> QED
      BY <1>1, <1>3, <3>1, <3>2
  <2>7. \A f \in capture'[dev'] : f < ctl'.hi /\ f >= fn' /\ (f = fn' => ctl'.part = 1)
    <3>1. \A f \in capture[ctl.dev] : /\ f < ctl.hi /\ f >= ctl.fn /\ (f = ctl.fn => ctl.part = 1)
                                      /\ f \in Nat
      BY <1>1, InvFacts DEF TearInv, TypeOK, Frontend, dev, fn
    <3>2. ASSUME NEW f \in capture'[ctl.dev]
          PROVE  f < ctl'.hi /\ f >= ctl'.fn /\ (f = ctl'.fn => ctl'.part = 1)
      <4>1. f \in capture[ctl.dev] /\ (ctl.part = 1 => f # ctl.fn)
        BY <3>2
      <4> QED
        BY <1>1, <1>3, <3>1, <4>1
    <3> QED
      BY <1>3, <3>2 DEF dev, fn
  <2> QED
    BY <1>3, <2>1, <2>2, <2>3, <2>4, <2>5, <2>6, <2>7 DEF TearInv
<1>11. HandleInv'
  <2>1. ShuttingDown' <=> ShuttingDown
    BY <1>3 DEF ShuttingDown
  <2> QED
    BY <1>2, <1>4, <2>1, InvFacts DEF HandleInv
<1>12. ReleasedInOrder'
  <2>1. ASSUME NEW f \in Frontend
        PROVE  /\ <<"stream", f>> \in live'[ctl.dev] => <<"pipe", f>> \in live'[ctl.dev]
               /\ <<"tuner", f>> \in live'[ctl.dev] => <<"demod", f>> \in live'[ctl.dev]
    <3>1. /\ <<"stream", f>> \in live[ctl.dev] => <<"pipe", f>> \in live[ctl.dev]
          /\ <<"tuner", f>> \in live[ctl.dev] => <<"demod", f>> \in live[ctl.dev]
      BY <1>1, InvFacts DEF ReleasedInOrder
    <3>2. /\ ctl.part > 2 => <<"stream", ctl.fn>> \notin live[ctl.dev]
          /\ ctl.part > 4 => <<"tuner", ctl.fn>> \notin live[ctl.dev]
      BY InvFacts DEF TearInv, dev, fn
    <3>3. <<"pipe", f>> \in X => f = ctl.fn /\ ctl.part = 6
      BY DEF InPart, Slot
    <3>4. <<"demod", f>> \in X => f = ctl.fn /\ ctl.part = 5
      BY DEF InPart, Slot
    <3> QED
      BY <1>5, <3>1, <3>2, <3>3, <3>4
  <2>2. ASSUME NEW d \in Devices \ {ctl.dev}, NEW f \in Frontend
        PROVE  /\ <<"stream", f>> \in live'[d] => d \in usb' /\ <<"pipe", f>> \in live'[d]
               /\ <<"tuner", f>> \in live'[d] => <<"demod", f>> \in live'[d]
    BY <1>5, InvFacts DEF ReleasedInOrder
  <2> QED
    BY <1>1, <2>1, <2>2 DEF ReleasedInOrder
<1>13. OthersLeaveNothing'
  BY InvFacts DEF OthersLeaveNothing
<1> QED
  BY <1>6, <1>7, <1>8, <1>10, <1>11, <1>12, <1>13 DEF EngineInv

\* Which part is which.
LEMMA PartNumbers ==
    ASSUME TypeOK, NEW part, At(part)
    PROVE  /\ ctl.at = "teardown" /\ ctl.fn < ctl.hi
           /\ part = "capture" => ctl.part = 1
           /\ part = "stream" => ctl.part = 2
           /\ part = "sleep" => ctl.part = 3
           /\ part = "tuner" => ctl.part = 4
           /\ part = "demod" => ctl.part = 5
           /\ part = "pipe" => ctl.part = 6
<1>1. ctl.part \in 1..6
  BY CtlFields
<1>2. Part[ctl.part] = part /\ ctl.at = "teardown" /\ ctl.fn < ctl.hi
  BY DEF At, fn
<1>3. /\ Part[1] = "capture" /\ Part[2] = "stream" /\ Part[3] = "sleep"
      /\ Part[4] = "tuner" /\ Part[5] = "demod" /\ Part[6] = "pipe"
  BY DEF Part
<1>4. /\ ctl.part = 1 \/ ctl.part = 2 \/ ctl.part = 3 \/ ctl.part = 4 \/ ctl.part = 5
         \/ ctl.part = 6
  BY <1>1
<1> QED
  BY <1>2, <1>3, <1>4

LEMMA ReleaseKeeps ==
    ASSUME EngineInv, ctl.at = "teardown", ctl.fn < ctl.hi, ctl.part # 1,
           NEW rs, \A r : r \in rs <=> InPart(r), ReleaseAndForget(rs)
    PROVE  EngineInv'
<1> DEFINE X == rs \intersect held[ctl.dev]
<1>1. ctl.dev \in Devices /\ ctl.dev \in usb
  BY TearFacts
<1>2. rs \subseteq Resource
  BY DEF InPart
<1>3. live' = [live EXCEPT ![ctl.dev] = live[ctl.dev] \ X] /\ \A r \in X : InPart(r)
  BY DEF ReleaseAndForget, Release, dev
<1>4. held' = [held EXCEPT ![ctl.dev] = held[ctl.dev] \ Forgotten(rs)]
  BY DEF ReleaseAndForget, dev
<1>5. live[ctl.dev] \intersect Resource \subseteq held[ctl.dev]
  BY <1>1, InvFacts DEF TearInv
<1>6. live'[ctl.dev] = live[ctl.dev] \ X /\ held'[ctl.dev] = held[ctl.dev] \ Forgotten(rs)
  BY <1>1, <1>3, <1>4, InvFacts DEF TypeOK
<1>7. \A r \in live'[ctl.dev] : ~InPart(r)
  BY <1>5, <1>6 DEF InPart
<1>8. Forgotten(rs) \subseteq rs
  BY DEF Forgotten
<1>9. live'[ctl.dev] \intersect Resource \subseteq held'[ctl.dev]
  BY <1>5, <1>6, <1>8
<1>10. /\ held' \in [Devices -> SUBSET Resource]
       /\ \A d \in Devices \ {ctl.dev} : held'[d] = held[d]
  BY <1>1, <1>4, InvFacts DEF TypeOK
<1>11. misused' \in SUBSET (Devices \X Resource)
  <2>1. misused' = misused \union ({ctl.dev} \X ((rs \intersect held[ctl.dev]) \ live[ctl.dev]))
    BY DEF ReleaseAndForget, Release, dev
  <2> QED
    BY <1>1, <1>2, <2>1, InvFacts DEF TypeOK
<1>12. /\ UNCHANGED <<plugged, usb, bridge, awake, count, registry, failed, leaked>>
       /\ UNCHANGED <<capture, tsEnable, doubt>> /\ NextPart
  BY DEF ReleaseAndForget
<1>13. SwitchTypes' /\ SwitchInv'
  BY <1>12, SwitchStays
<1>14. /\ capture' \in [Devices -> SUBSET Frontend]
       /\ capture'[ctl.dev] \subseteq capture[ctl.dev]
  BY <1>12, InvFacts DEF TypeOK
<1> HIDE DEF X
<1> QED
  BY <1>3, <1>7, <1>9, <1>10, <1>11, <1>12, <1>13, <1>14, TearStep

LEMMA TeardownCaptureKeeps ==
    ASSUME EngineInv, TeardownCapture
    PROVE  EngineInv'
<1>1. ctl.at = "teardown" /\ ctl.fn < ctl.hi /\ ctl.part = 1
  BY InvFacts, PartNumbers DEF TeardownCapture
<1>2. ctl.dev \in Devices /\ ctl.dev \in usb
  BY <1>1, TearFacts
<1>3. /\ capture' = [capture EXCEPT ![ctl.dev] = capture[ctl.dev] \ {ctl.fn}]
      /\ NextPart
      /\ UNCHANGED <<plugged, usb, bridge, live, held, awake, count, registry,
                     failed, leaked, misused>>
  BY DEF TeardownCapture, dev, fn
<1>4. /\ capture'[ctl.dev] = capture[ctl.dev] \ {ctl.fn}
      /\ \A d \in Devices \ {ctl.dev} : capture'[d] = capture[d]
      /\ capture' \in [Devices -> SUBSET Frontend]
  BY <1>2, <1>3, InvFacts DEF TypeOK
<1>5. SwitchTypes' /\ SwitchInv'
  <2>1. CASE ctl.fn \in capture[ctl.dev]
    <3>1. PICK out \in Outcome : CaptureStart(ctl.dev, ctl.fn, FALSE, out)
      BY <2>1 DEF TeardownCapture, dev, fn
    <3>2. ctl.fn \in Frontend
      BY <1>2, <2>1, InvFacts DEF TypeOK
    <3>3. \A f \in Frontend \ {ctl.fn} : f \in capture'[ctl.dev] <=> f \in capture[ctl.dev]
      BY <1>4
    <3>4. ctl.fn \notin capture'[ctl.dev]
      BY <1>4
    <3> QED
      BY <1>2, <1>3, <1>4, <3>1, <3>2, <3>3, <3>4, SwitchAfterStart
  <2>2. CASE ctl.fn \notin capture[ctl.dev]
    <3>1. capture' = capture
      BY <1>2, <1>3, <2>2, InvFacts DEF TypeOK
    <3>2. UNCHANGED <<tsEnable, doubt>>
      BY <2>2 DEF TeardownCapture, dev, fn
    <3> QED
      BY <1>3, <3>1, <3>2, SwitchStays
  <2> QED
    BY <2>1, <2>2
<1>7. PICK X \in SUBSET Resource : X = {} /\ live' = [live EXCEPT ![ctl.dev] = live[ctl.dev] \ X]
  <2>1. live' = [live EXCEPT ![ctl.dev] = live[ctl.dev]]
    BY <1>2, <1>3, InvFacts DEF TypeOK
  <2>2. PICK X \in SUBSET Resource : X = {}
    OBVIOUS
  <2>3. live[ctl.dev] \ X = live[ctl.dev]
    BY <2>2
  <2> QED
    BY <2>1, <2>2, <2>3
<1>8. \A r \in live'[ctl.dev] : ~InPart(r)
  BY <1>1 DEF InPart, Slot
<1>9. /\ held' \in [Devices -> SUBSET Resource] /\ \A d \in Devices \ {ctl.dev} : held'[d] = held[d]
      /\ live'[ctl.dev] \intersect Resource \subseteq held'[ctl.dev]
      /\ misused' \in SUBSET (Devices \X Resource)
  BY <1>2, <1>3, InvFacts DEF TypeOK, TearInv
<1>10. \A r \in X : InPart(r)
  BY <1>7
<1> QED
  BY <1>1, <1>3, <1>4, <1>5, <1>7, <1>8, <1>9, <1>10, TearStep

LEMMA TeardownSleepKeeps ==
    ASSUME EngineInv, TeardownSleep
    PROVE  EngineInv'
<1>1. ctl.at = "teardown" /\ ctl.fn < ctl.hi /\ ctl.part = 3
  BY InvFacts, PartNumbers DEF TeardownSleep
<1>2. ctl.dev \in Devices /\ ctl.dev \in usb
  BY <1>1, TearFacts
<1>3. /\ NextPart
      /\ UNCHANGED <<plugged, usb, bridge, live, held, awake, count, capture,
                     tsEnable, doubt, registry, failed, leaked>>
  BY DEF TeardownSleep
<1>4. misused' \in SUBSET (Devices \X Resource)
  <2> DEFINE chips == {c \in awake[ctl.dev] : c[2] = ctl.fn}
  <2>1. misused' = misused \union ({ctl.dev} \X (chips \ live[ctl.dev]))
    BY DEF TeardownSleep, dev, fn
  <2>2. {"demod", "tuner"} \X Frontend \subseteq Resource
    BY DEF Resource, Kind
  <2>3. awake[ctl.dev] \subseteq {"demod", "tuner"} \X Frontend
    BY <1>2, InvFacts DEF TypeOK
  <2>4. chips \subseteq Resource
    BY <2>2, <2>3
  <2> HIDE DEF chips
  <2> QED
    BY <1>2, <2>1, <2>4, InvFacts DEF TypeOK
<1>5. SwitchTypes' /\ SwitchInv'
  BY <1>3, SwitchStays
<1>6. PICK X \in SUBSET Resource : X = {} /\ live' = [live EXCEPT ![ctl.dev] = live[ctl.dev] \ X]
  <2>1. live' = [live EXCEPT ![ctl.dev] = live[ctl.dev]]
    BY <1>2, <1>3, InvFacts DEF TypeOK
  <2>2. PICK X \in SUBSET Resource : X = {}
    OBVIOUS
  <2>3. live[ctl.dev] \ X = live[ctl.dev]
    BY <2>2
  <2> QED
    BY <2>1, <2>2, <2>3
<1>7. \A r \in live'[ctl.dev] : ~InPart(r)
  BY <1>1 DEF InPart, Slot
<1>8. /\ held' \in [Devices -> SUBSET Resource] /\ \A d \in Devices \ {ctl.dev} : held'[d] = held[d]
      /\ live'[ctl.dev] \intersect Resource \subseteq held'[ctl.dev]
      /\ capture' \in [Devices -> SUBSET Frontend]
      /\ capture'[ctl.dev] \subseteq capture[ctl.dev]
  BY <1>2, <1>3, InvFacts DEF TypeOK, TearInv
<1>9. \A r \in X : InPart(r)
  BY <1>6
<1>10. ctl.part = 1 => ctl.fn \notin capture'[ctl.dev]
  BY <1>1
<1>11. UNCHANGED <<plugged, usb, bridge, awake, count, registry, failed, leaked>>
  BY <1>3
<1> QED
  BY <1>1, <1>3, <1>4, <1>5, <1>6, <1>7, <1>8, <1>9, <1>10, <1>11, TearStep

LEMMA TeardownPartsKeep ==
    ASSUME EngineInv, TeardownStream \/ TeardownTuner \/ TeardownDemod \/ TeardownPipe
    PROVE  EngineInv'
<1>1. ASSUME ctl.at = "teardown", ctl.fn < ctl.hi PROVE ctl.fn \in Frontend
  BY <1>1, TearFacts DEF Frontend
<1>2. CASE TeardownStream
  <2>1. ctl.at = "teardown" /\ ctl.fn < ctl.hi /\ ctl.part = 2
    BY <1>2, InvFacts, PartNumbers DEF TeardownStream
  <2>2. \A r : r \in {<<"stream", ctl.fn>>} <=> InPart(r)
    BY <1>1, <2>1 DEF InPart, Slot, Resource, Kind
  <2> QED
    BY <1>2, <2>1, <2>2, ReleaseKeeps DEF TeardownStream, fn
<1>3. CASE TeardownTuner
  <2>1. ctl.at = "teardown" /\ ctl.fn < ctl.hi /\ ctl.part = 4
    BY <1>3, InvFacts, PartNumbers DEF TeardownTuner
  <2>2. \A r : r \in {<<"tuner", ctl.fn>>} <=> InPart(r)
    BY <1>1, <2>1 DEF InPart, Slot, Resource, Kind
  <2> QED
    BY <1>3, <2>1, <2>2, ReleaseKeeps DEF TeardownTuner, fn
<1>4. CASE TeardownDemod
  <2>1. ctl.at = "teardown" /\ ctl.fn < ctl.hi /\ ctl.part = 5
    BY <1>4, InvFacts, PartNumbers DEF TeardownDemod
  <2>2. \A r : r \in {<<"demod", ctl.fn>>} <=> InPart(r)
    BY <1>1, <2>1 DEF InPart, Slot, Resource, Kind
  <2> QED
    BY <1>4, <2>1, <2>2, ReleaseKeeps DEF TeardownDemod, fn
<1>5. CASE TeardownPipe
  <2>1. ctl.at = "teardown" /\ ctl.fn < ctl.hi /\ ctl.part = 6
    BY <1>5, InvFacts, PartNumbers DEF TeardownPipe
  <2>2. \A r : r \in {<<"pipe", ctl.fn>>, <<"name", ctl.fn>>} <=> InPart(r)
    BY <1>1, <2>1 DEF InPart, Slot, Resource, Kind
  <2> QED
    BY <1>5, <2>1, <2>2, ReleaseKeeps DEF TeardownPipe, fn
<1> QED
  BY <1>2, <1>3, <1>4, <1>5

LEMMA TeardownDoneKeeps ==
    ASSUME EngineInv, TeardownDone
    PROVE  EngineInv'
<1>1. ctl.at = "teardown" /\ ctl.fn = ctl.hi
  BY DEF TeardownDone, fn
<1>2. /\ Busy /\ ctl.dev \in Devices /\ ctl.dev \in usb /\ ctl.dev \notin Registered
      /\ ctl.fn \in Nat /\ ctl.hi \in Nat /\ NumFrontends \in Nat
  BY <1>1, TearFacts
<1>3. UNCHANGED <<plugged, usb, bridge, live, held, awake, count, capture,
                  tsEnable, doubt, registry, failed, leaked, misused>>
  BY DEF TeardownDone
<1>4. /\ ctl' \in Ctl /\ ctl'.dev = ctl.dev /\ ctl'.handles = ctl.handles
      /\ \/ /\ ctl'.at = "teardown" /\ ctl'.why = "fail" /\ ctl'.part = 1 /\ ctl'.fn = 0
            /\ ctl'.hi = count[ctl.dev]
         \/ ctl'.at = "close" /\ ctl'.why = ctl.why
  <2>1. CASE Fail
    BY <2>1, InvFacts, FailMoves DEF GoesTo
  <2>2. CASE Goto("close")
    <3>1. "close" \in Steps
      BY DEF Steps
    <3> QED
      BY <2>2, <3>1, InvFacts, GotoMoves DEF GoesTo
  <2> QED
    BY <2>1, <2>2 DEF TeardownDone
<1>5. /\ Busy' /\ ~Raising' /\ ctl'.at \notin UpSteps /\ Registered' = Registered
  BY <1>3, <1>4 DEF Busy, Raising, UpSteps, Registered
<1>6. TypeOK'
  BY <1>3, <1>4, InvFacts DEF TypeOK
<1>7. OwnInv'
  BY <1>2, <1>3, <1>4, <1>5, InvFacts DEF OwnInv, dev
<1>8. RaiseInv'
  BY <1>4, <1>5 DEF RaiseInv
<1>9. TearInv'
  <2>1. ASSUME NEW r \in Resource PROVE ~Ahead(r)
    <3>1. r[2] \in Nat
      BY <1>2 DEF Resource, Frontend
    <3> QED
      BY <1>1, <1>2, <3>1 DEF Ahead, fn
  <2>2. \A r \in live[ctl.dev] : <<ctl.dev, r[2]>> \in failed
    BY <1>1, <2>1, InvFacts DEF TearInv, dev
  <2>3. ASSUME NEW f \in capture[ctl.dev] PROVE FALSE
    <3>1. f < ctl.hi /\ f >= ctl.fn /\ f \in Nat
      BY <1>1, <1>2, InvFacts DEF TearInv, TypeOK, Frontend, dev, fn
    <3> QED
      BY <1>1, <1>2, <3>1
  <2>4. capture[ctl.dev] = {}
    BY <2>3
  <2>5. count[ctl.dev] \in Nat
    BY <1>2, InvFacts DEF TypeOK
  <2> QED
    BY <1>2, <1>3, <1>4, <2>2, <2>4, <2>5, InvFacts DEF TearInv, dev, fn
<1>10. SwitchInv'
  BY <1>3, InvFacts DEF SwitchInv, CaptureMatches
<1>11. HandleInv'
  <2>1. ShuttingDown' => ShuttingDown
    BY <1>1, <1>4 DEF ShuttingDown
  <2> QED
    BY <1>4, <1>5, <2>1, InvFacts DEF HandleInv
<1>12. ReleasedInOrder' /\ OthersLeaveNothing'
  BY <1>3, InvFacts DEF ReleasedInOrder, OthersLeaveNothing
<1> QED
  BY <1>6, <1>7, <1>8, <1>9, <1>10, <1>11, <1>12 DEF EngineInv

LEMMA CloseKeeps ==
    ASSUME EngineInv, CloseDevice
    PROVE  EngineInv'
<1> DEFINE d == ctl.dev
<1>1. ctl.at = "close" /\ Busy /\ d \in Devices
  BY InvFacts, CtlFields DEF CloseDevice, Busy
<1>2. d \in usb /\ d \notin Registered
  BY <1>1, InvFacts DEF OwnInv, dev
<1>3. PICK step \in {"next", "table"} :
         (step = "next" <=> ctl.why = "shutdown") /\ Goto(step)
  BY DEF CloseDevice
<1>4. /\ ctl' \in Ctl /\ ctl'.at = step /\ ctl'.handles = ctl.handles
  <2>1. step \in Steps
    BY DEF Steps
  <2> QED
    BY <1>3, <2>1, InvFacts, GotoMoves DEF GoesTo
<1>5. /\ bridge' = bridge \ {d} /\ usb' = usb \ {d}
      /\ leaked' = leaked \union ({d} \X live[d])
      /\ live' = [live EXCEPT ![d] = {}] /\ held' = [held EXCEPT ![d] = {}]
      /\ awake' = [awake EXCEPT ![d] = {}] /\ count' = [count EXCEPT ![d] = 0]
      /\ capture' = [capture EXCEPT ![d] = {}]
      /\ UNCHANGED <<plugged, tsEnable, doubt, registry, failed, misused>>
  BY DEF CloseDevice, dev
<1> HIDE DEF d
<1>6. /\ ~Busy' /\ ~Raising' /\ ctl'.at \notin UpSteps /\ Registered' = Registered
  BY <1>4, <1>5 DEF Busy, Raising, UpSteps, Registered
<1>7. TypeOK'
  <2>1. live' \in [Devices -> SUBSET AnyResource] /\ held' \in [Devices -> SUBSET Resource]
    BY <1>5, InvFacts DEF TypeOK
  <2>2. 0 \in 0..NumFrontends
    BY EngineAssumption
  <2>3. /\ awake' \in [Devices -> SUBSET ({"demod", "tuner"} \X Frontend)]
        /\ count' \in [Devices -> 0..NumFrontends] /\ capture' \in [Devices -> SUBSET Frontend]
    BY <1>5, <2>2, InvFacts DEF TypeOK
  <2>4. leaked' \in SUBSET (Devices \X AnyResource)
    <3>1. live[d] \subseteq AnyResource /\ leaked \subseteq Devices \X AnyResource
      BY <1>1, InvFacts DEF TypeOK
    <3>2. {d} \X live[d] \subseteq Devices \X AnyResource
      BY <1>1, <3>1
    <3> QED
      BY <1>5, <3>1, <3>2
  <2>5. /\ plugged' \in SUBSET Devices /\ usb' \in SUBSET Devices /\ bridge' \in SUBSET Devices
        /\ tsEnable' \in [Devices -> SUBSET Frontend] /\ doubt' \in SUBSET (Devices \X Frontend)
        /\ registry' \in Seq(Devices)
        /\ failed' \in SUBSET (Devices \X Frontend) /\ misused' \in SUBSET (Devices \X Resource)
    BY <1>5, InvFacts DEF TypeOK
  <2> QED
    BY <1>4, <2>1, <2>3, <2>4, <2>5 DEF TypeOK
<1>8. /\ live'[d] = {} /\ capture'[d] = {}
      /\ \A e \in Devices \ {d} : /\ live'[e] = live[e] /\ held'[e] = held[e]
                                  /\ count'[e] = count[e] /\ capture'[e] = capture[e]
  BY <1>1, <1>5, InvFacts DEF TypeOK
<1>9. OwnInv'
  <2>1. \A e \in Registered' : e # d /\ e \in Devices
    <3>1. Registered \subseteq Devices
      BY InvFacts DEF TypeOK, Registered
    <3> QED
      BY <1>2, <1>6, <3>1
  <2>2. \A e \in Registered' : /\ e \in bridge'
                               /\ live'[e] = Resource /\ held'[e] = Resource
                               /\ count'[e] = NumFrontends
    BY <1>5, <1>6, <1>8, <2>1, InvFacts DEF OwnInv
  <2>3. \A e \in Devices \ usb' : live'[e] = {}
    BY <1>1, <1>5, <1>8, InvFacts DEF OwnInv
  <2>4. \A e \in Devices : e \in usb' <=> e \in Registered'
    <3>1. \A e \in Devices : e \in usb <=> e \in Registered \/ e = d
      BY <1>1, InvFacts DEF OwnInv, dev, d
    <3> QED
      BY <1>2, <1>5, <1>6, <3>1
  <2>5. \A i, j \in 1..Len(registry') : registry'[i] = registry'[j] => i = j
    BY <1>5, InvFacts DEF OwnInv
  <2> QED
    BY <1>6, <2>2, <2>3, <2>4, <2>5 DEF OwnInv
<1>10. RaiseInv'
  BY <1>4, <1>6 DEF RaiseInv
<1>11. TearInv'
  <2>1. usb' \subseteq Devices \ {d} /\ usb' \subseteq usb
    BY <1>5, InvFacts DEF TypeOK
  <2>2. \A e \in usb' : live'[e] \intersect Resource \subseteq held'[e]
    BY <1>8, <2>1, InvFacts DEF TearInv
  <2> QED
    BY <1>4, <2>2 DEF TearInv
<1>12. SwitchInv'
  <2>1. capture[d] = {}
    BY <1>1, InvFacts DEF TearInv, dev, d
  <2>2. ASSUME NEW e \in plugged, NEW f \in Frontend
        PROVE  <<e, f>> \in doubt \/ (f \in tsEnable[e] <=> e \in usb' /\ f \in capture'[e])
    <3>1. e \in Devices /\ (<<e, f>> \in doubt \/ (f \in tsEnable[e] <=> e \in usb /\ f \in capture[e]))
      BY InvFacts DEF SwitchInv, CaptureMatches, TypeOK
    <3> QED
      BY <1>2, <1>5, <1>8, <2>1, <3>1
  <2>3. CaptureMatches'
    BY <1>5, <2>2 DEF CaptureMatches
  <2> QED
    BY <1>5, <2>3, InvFacts DEF SwitchInv
<1>13. HandleInv'
  <2>1. ShuttingDown' => ShuttingDown
    BY <1>1, <1>3, <1>4 DEF ShuttingDown
  <2> QED
    BY <1>4, <1>6, <2>1, InvFacts DEF HandleInv
<1>14. ReleasedInOrder'
  <2>1. ASSUME NEW e \in Devices, NEW f \in Frontend
        PROVE  /\ <<"stream", f>> \in live'[e] => e \in usb' /\ <<"pipe", f>> \in live'[e]
               /\ <<"tuner", f>> \in live'[e] => <<"demod", f>> \in live'[e]
    <3>1. CASE e = d
      BY <1>8, <3>1
    <3>2. CASE e # d
      BY <1>5, <1>8, <3>2, InvFacts DEF ReleasedInOrder
    <3> QED
      BY <3>1, <3>2
  <2> QED
    BY <2>1 DEF ReleasedInOrder
<1>15. OthersLeaveNothing'
  <2>1. ASSUME NEW left \in leaked' PROVE <<left[1], left[2][2]>> \in failed
    <3>1. CASE left \in leaked
      BY <3>1, InvFacts DEF OthersLeaveNothing
    <3>2. CASE left \in {d} \X live[d]
      <4>1. left[1] = d /\ left[2] \in live[d]
        BY <3>2
      <4>2. <<d, left[2][2]>> \in failed
        BY <1>1, <4>1, InvFacts DEF TearInv, Ahead, dev, d
      <4> QED
        BY <4>1, <4>2
    <3> QED
      BY <1>5, <3>1, <3>2
  <2> QED
    BY <1>5, <2>1 DEF OthersLeaveNothing
<1> QED
  BY <1>7, <1>9, <1>10, <1>11, <1>12, <1>13, <1>14, <1>15 DEF EngineInv

LEMMA ShutdownNextKeeps ==
    ASSUME EngineInv, ShutdownNext
    PROVE  EngineInv'
<1>1. ctl.at = "next" /\ ~Busy /\ ctl.handles = <<>>
  BY InvFacts DEF ShutdownNext, Busy, Raising, UpSteps, HandleInv, ShuttingDown
<1>2. CASE registry = <<>>
  <2>1. Goto("idle") /\ "idle" \in Steps /\ registry' = registry
    BY <1>2 DEF ShutdownNext, Steps
  <2>2. ctl' \in Ctl /\ ctl'.at = "idle" /\ ctl'.handles = ctl.handles
    BY <2>1, InvFacts, GotoMoves DEF GoesTo
  <2> QED
    BY <1>1, <2>1, <2>2, IdleStep DEF ShutdownNext
<1>3. CASE registry # <<>>
  <2> DEFINE d == Head(registry)
  <2>1. registry \in Seq(Devices) /\ NumFrontends \in Nat \ {0}
    BY InvFacts, EngineAssumption DEF TypeOK
  <2>2. /\ Len(registry) \in Nat \ {0} /\ d = registry[1] /\ d \in Devices /\ 1 \in 1..Len(registry)
        /\ Rest \in Seq(Devices) /\ Len(Rest) = Len(registry) - 1
        /\ \A i \in 1..Len(Rest) : Rest[i] = registry[i + 1] /\ i + 1 \in 1..Len(registry)
    BY <1>3, <2>1 DEF Rest
  <2>3. d \in Registered
    BY <2>2 DEF Registered
  <2>4. /\ count[d] = NumFrontends /\ live[d] = Resource /\ held[d] = Resource /\ d \in usb
    BY <2>2, <2>3, InvFacts DEF OwnInv
  <2>5. /\ registry' = Rest
        /\ UNCHANGED <<plugged, usb, bridge, live, held, awake, count, capture,
                       tsEnable, doubt, failed, leaked, misused>>
    BY <1>3 DEF ShutdownNext
  <2>6. PICK n \in 0..NumFrontends : n = Counted(d) /\ n = NumFrontends
    BY <2>1, <2>4 DEF Counted
  <2>7. ctl' = [ctl EXCEPT !.at = "teardown", !.dev = d, !.fn = 0, !.part = 1,
                           !.why = "shutdown", !.hi = n]
    BY <1>3, <2>6 DEF ShutdownNext
  <2> HIDE DEF d
  <2>8. /\ ctl' \in Ctl /\ ctl'.at = "teardown" /\ ctl'.dev = d /\ ctl'.fn = 0
        /\ ctl'.part = 1 /\ ctl'.why = "shutdown" /\ ctl'.hi = NumFrontends
        /\ ctl'.handles = ctl.handles
    <3>1. 0 \in 0..NumFrontends /\ 1 \in 1..Len(Part)
      BY <2>1 DEF Part
    <3> QED
      BY <2>2, <2>6, <2>7, <3>1, InvFacts, CtlFields DEF Ctl, Steps
  <2>9. /\ Busy' /\ ~Raising' /\ ctl'.at \notin UpSteps /\ ShuttingDown'
    BY <2>8 DEF Busy, Raising, UpSteps, ShuttingDown
  <2>10. Registered = Registered' \union {d} /\ d \notin Registered'
    <3>1. \A x \in Registered' : x \in Registered /\ x # d
      <4>1. ASSUME NEW i \in 1..Len(Rest) PROVE Rest[i] \in Registered /\ Rest[i] # d
        <5>1. i + 1 # 1 /\ i + 1 \in 1..Len(registry) /\ Rest[i] = registry[i + 1]
          BY <2>2
        <5> QED
          BY <2>2, <5>1, InvFacts DEF OwnInv, Registered
      <4> QED
        BY <2>5, <4>1 DEF Registered
    <3>2. \A x \in Registered : x \in Registered' \/ x = d
      <4>1. ASSUME NEW i \in 1..Len(registry) PROVE registry[i] \in Registered' \/ registry[i] = d
        <5>1. CASE i = 1
          BY <2>2, <5>1
        <5>2. CASE i # 1
          <6>1. i - 1 \in 1..Len(Rest) /\ Rest[i - 1] = registry[i]
            BY <2>2, <5>2
          <6> QED
            BY <2>5, <6>1 DEF Registered
        <5> QED
          BY <5>1, <5>2
      <4> QED
        BY <4>1 DEF Registered
    <3> QED
      BY <2>3, <3>1, <3>2
  <2>11. TypeOK'
    BY <2>2, <2>5, <2>8, InvFacts DEF TypeOK
  <2>12. OwnInv'
    <3>1. ASSUME NEW i \in 1..Len(Rest), NEW j \in 1..Len(Rest), Rest[i] = Rest[j] PROVE i = j
      <4>1. i + 1 = j + 1
        BY <2>2, <3>1, InvFacts DEF OwnInv
      <4> QED
        BY <2>2, <4>1
    <3>2. \A e \in Devices : e \in usb' <=> e \in Registered' \/ (Busy' /\ e = dev')
      BY <1>1, <2>5, <2>8, <2>9, <2>10, InvFacts DEF OwnInv, dev
    <3>3. \A e \in Registered' : /\ e \in bridge'
                                 /\ live'[e] = Resource /\ held'[e] = Resource
                                 /\ count'[e] = NumFrontends
      BY <2>5, <2>10, InvFacts DEF OwnInv
    <3>4. Busy' => dev' \notin Registered'
      BY <2>8, <2>10 DEF dev
    <3>5. \A e \in Devices \ usb' : live'[e] = {}
      BY <2>5, InvFacts DEF OwnInv
    <3>6. \A i, j \in 1..Len(registry') : registry'[i] = registry'[j] => i = j
      BY <2>5, <3>1
    <3> QED
      BY <2>9, <3>2, <3>3, <3>4, <3>5, <3>6 DEF OwnInv
  <2>13. RaiseInv'
    BY <2>8, <2>9 DEF RaiseInv
  <2>14. TearInv'
    <3>1. ASSUME NEW r \in Resource PROVE Ahead(r)'
      <4>1. r[2] \in 0..(NumFrontends - 1) /\ Slot(r[1]) \in 1..6
        BY DEF Resource, Frontend, Slot
      <4> QED
        BY <2>1, <2>8, <4>1 DEF Ahead, fn
    <3>2. \A f \in capture[d] : f \in Nat /\ f < NumFrontends
      BY <2>1, <2>2, InvFacts DEF TypeOK, Frontend
    <3> QED
      BY <2>1, <2>4, <2>5, <2>8, <3>1, <3>2, InvFacts DEF TearInv, dev, fn
  <2>15. SwitchInv'
    BY <2>5, InvFacts DEF SwitchInv, CaptureMatches
  <2>16. HandleInv'
    <3>1. ctl'.handles = <<>> /\ Len(<<>>) = 0 /\ DOMAIN <<>> = {}
      BY <1>1, <2>8
    <3> QED
      BY <2>9, <3>1, EngineAssumption DEF HandleInv
  <2>17. ReleasedInOrder' /\ OthersLeaveNothing'
    BY <2>5, InvFacts DEF ReleasedInOrder, OthersLeaveNothing
  <2> QED
    BY <2>11, <2>12, <2>13, <2>14, <2>15, <2>16, <2>17 DEF EngineInv
<1> QED
  BY <1>2, <1>3

-----------------------------------------------------------------------------
\* What happens to the registers of one device that may be plugged and unplugged,
\* and what its consumers do.
LEMMA DeviceKeeps ==
    ASSUME EngineInv, NEW d \in Devices,
           UNCHANGED <<usb, bridge, live, held, awake, count, registry, ctl, failed,
                       leaked, misused>>,
           plugged' \in SUBSET Devices,
           capture' \in [Devices -> SUBSET Frontend], SwitchTypes',
           \/ capture' = capture
           \/ d \in Registered /\ \A e \in Devices \ {d} : capture'[e] = capture[e],
           SwitchInv'
    PROVE  EngineInv'
<1>1. ctl' = ctl /\ ctl' \in Ctl /\ ctl.dev \in Devices
  BY InvFacts, CtlFields
<1>2. /\ Busy' = Busy /\ Raising' = Raising /\ Registered' = Registered
      /\ Partial' = Partial /\ ShuttingDown' = ShuttingDown
  BY <1>1 DEF Busy, Raising, Registered, Partial, ShuttingDown
<1>3. Busy => capture'[ctl.dev] = capture[ctl.dev]
  <2>1. Busy => ctl.dev \notin Registered
    BY InvFacts DEF OwnInv, dev
  <2> QED
    BY <1>1, <2>1
<1>4. TypeOK'
  BY <1>1, InvFacts DEF TypeOK, SwitchTypes
<1>5. OwnInv'
  BY <1>1, <1>2, InvFacts DEF OwnInv, dev
<1>6. RaiseInv'
  BY <1>1, <1>2, <1>3, InvFacts DEF RaiseInv, Busy, dev, fn
<1>7. TearInv'
  <2>1. \A r : Ahead(r)' <=> Ahead(r)
    BY <1>1 DEF Ahead, fn
  <2>2. ctl.at \in {"teardown", "close"} => capture'[ctl.dev] = capture[ctl.dev]
    BY <1>3 DEF Busy
  <2>3. ctl'.at \in {"teardown", "close"} =>
          \A r \in live'[dev'] : <<dev', r[2]>> \in failed' \/ (r \in Resource /\ Ahead(r)')
    BY <1>1, <2>1, InvFacts DEF TearInv, dev
  <2>4. ctl'.at = "teardown" /\ ctl'.why = "shutdown" =>
          ctl'.hi = NumFrontends /\ \A r \in Resource : Ahead(r)' => r \in live'[dev']
    BY <1>1, <2>1, InvFacts DEF TearInv, dev
  <2>5. \A e \in usb' : live'[e] \intersect Resource \subseteq held'[e]
    BY InvFacts DEF TearInv
  <2>6. ctl'.at = "teardown" =>
          /\ fn' <= ctl'.hi
          /\ fn' = ctl'.hi => ctl'.part = 1
          /\ ctl'.part > 2 => <<"stream", fn'>> \notin live'[dev']
          /\ ctl'.part > 4 => <<"tuner", fn'>> \notin live'[dev']
          /\ \A f \in capture'[dev'] : f < ctl'.hi /\ f >= fn' /\ (f = fn' => ctl'.part = 1)
    BY <1>1, <2>2, InvFacts DEF TearInv, dev, fn
  <2>7. ctl'.at = "close" => capture'[dev'] = {}
    BY <1>1, <2>2, InvFacts DEF TearInv, dev
  <2> QED
    BY <2>3, <2>4, <2>5, <2>6, <2>7 DEF TearInv
<1>8. HandleInv'
  BY <1>1, <1>2, InvFacts DEF HandleInv
<1>9. ReleasedInOrder' /\ OthersLeaveNothing'
  BY InvFacts DEF ReleasedInOrder, OthersLeaveNothing
<1> QED
  BY <1>4, <1>5, <1>6, <1>7, <1>8, <1>9 DEF EngineInv

LEMMA EnvironmentKeeps ==
    ASSUME EngineInv, NEW d \in Devices, NEW f \in Frontend, NEW out \in Outcome,
           Plug(d) \/ Unplug(d) \/ Tune(d, f, out) \/ CaptureStop(d, f, out)
    PROVE  EngineInv'
<1>1. /\ plugged \in SUBSET Devices /\ capture \in [Devices -> SUBSET Frontend]
      /\ tsEnable \in [Devices -> SUBSET Frontend] /\ doubt \subseteq Devices \X Frontend
  BY InvFacts DEF TypeOK
<1>2. /\ \A e \in plugged, g \in Frontend :
            <<e, g>> \in doubt \/ (g \in tsEnable[e] <=> e \in usb /\ g \in capture[e])
      /\ \A e \in Devices \ plugged : tsEnable[e] = {}
  BY InvFacts DEF SwitchInv, CaptureMatches
<1>3. CASE Plug(d)
  <2>1. SwitchTypes'
    BY <1>1, <1>3 DEF Plug, SwitchTypes
  <2>2. SwitchInv'
    BY <1>1, <1>2, <1>3 DEF Plug, SwitchInv, CaptureMatches
  <2> QED
    BY <1>1, <1>3, <2>1, <2>2, DeviceKeeps DEF Plug
<1>4. CASE Unplug(d)
  <2>1. /\ plugged' = plugged \ {d} /\ tsEnable' = [tsEnable EXCEPT ![d] = {}]
        /\ doubt' = doubt \ ({d} \X Frontend) /\ usb' = usb /\ capture' = capture
    BY <1>4 DEF Unplug, Settle
  <2>2. SwitchTypes' /\ plugged' \in SUBSET Devices
    BY <1>1, <2>1 DEF SwitchTypes
  <2>3. tsEnable'[d] = {} /\ \A e \in Devices \ {d} : tsEnable'[e] = tsEnable[e]
    BY <1>1, <2>1
  <2>4. CaptureMatches'
    BY <1>1, <1>2, <2>1, <2>3 DEF CaptureMatches
  <2>5. \A e \in Devices \ plugged' : tsEnable'[e] = {}
    BY <1>2, <2>1, <2>3
  <2>6. SwitchInv'
    BY <2>4, <2>5 DEF SwitchInv
  <2> QED
    BY <1>1, <1>4, <2>1, <2>2, <2>6, DeviceKeeps DEF Unplug
<1>5. ASSUME NEW enable \in BOOLEAN, Usable(d), CaptureStart(d, f, enable, out),
             capture' \in [Devices -> SUBSET Frontend],
             \A e \in Devices \ {d} : capture'[e] = capture[e],
             \A g \in Frontend \ {f} : g \in capture'[d] <=> g \in capture[d],
             out = "done" => (f \in capture'[d] <=> enable),
             UNCHANGED <<plugged, usb, bridge, live, held, awake, count, registry,
                         ctl, failed, leaked, misused>>
      PROVE  EngineInv'
  <2>1. d \in Registered /\ d \in usb
    BY <1>5, InvFacts DEF Usable, OwnInv
  <2>2. SwitchTypes' /\ SwitchInv'
    BY <1>5, <2>1, SwitchAfterStart
  <2> QED
    BY <1>1, <1>5, <2>1, <2>2, DeviceKeeps
<1>6. CASE Tune(d, f, out)
  <2>1. capture' = capture \/ capture' = [capture EXCEPT ![d] = capture[d] \union {f}]
    BY <1>6 DEF Tune
  <2>2. /\ capture' \in [Devices -> SUBSET Frontend]
        /\ \A e \in Devices \ {d} : capture'[e] = capture[e]
        /\ \A g \in Frontend \ {f} : g \in capture'[d] <=> g \in capture[d]
    BY <1>1, <2>1
  <2>3. out = "done" => f \in capture'[d]
    BY <1>1, <1>6 DEF Tune
  <2> QED
    BY <1>5, <1>6, <2>2, <2>3 DEF Tune
<1>7. CASE CaptureStop(d, f, out)
  <2>1. capture' = capture \/ capture' = [capture EXCEPT ![d] = capture[d] \ {f}]
    BY <1>7 DEF CaptureStop
  <2>2. /\ capture' \in [Devices -> SUBSET Frontend]
        /\ \A e \in Devices \ {d} : capture'[e] = capture[e]
        /\ \A g \in Frontend \ {f} : g \in capture'[d] <=> g \in capture[d]
    BY <1>1, <2>1
  <2>3. out = "done" => f \notin capture'[d]
    BY <1>1, <1>7 DEF CaptureStop
  <2> QED
    BY <1>5, <1>7, <2>2, <2>3 DEF CaptureStop
<1> QED
  BY <1>3, <1>4, <1>6, <1>7

LEMMA StutterKeeps ==
    ASSUME EngineInv, UNCHANGED vars
    PROVE  EngineInv'
<1>1. \E d \in Devices : TRUE
  BY EngineAssumption
<1>2. /\ UNCHANGED <<usb, bridge, live, held, awake, count, registry, ctl, failed,
                     leaked, misused>>
      /\ UNCHANGED <<plugged, capture, tsEnable, doubt>>
  BY DEF vars
<1>3. SwitchTypes' /\ SwitchInv'
  BY <1>2, SwitchStays
<1>4. plugged' \in SUBSET Devices /\ capture' \in [Devices -> SUBSET Frontend]
  BY <1>2, InvFacts DEF TypeOK
<1> QED
  BY <1>1, <1>2, <1>3, <1>4, DeviceKeeps

LEMMA InitEstablishes ==
    ASSUME Init
    PROVE  EngineInv
<1> DEFINE d == CHOOSE e \in Devices : TRUE
<1>1. d \in Devices
  BY EngineAssumption
<1> HIDE DEF d
<1>2. /\ ctl = [at |-> "idle", dev |-> d, fn |-> 0, hi |-> 0, part |-> 1, why |-> "none",
                todo |-> <<>>, handles |-> <<>>]
  BY DEF Init, d
<1>3. ctl \in Ctl
  <2>1. <<>> \in Seq(Nat) /\ <<>> \in Seq(Devices \X Frontend)
    BY EmptyFits
  <2>2. 0 \in 0..NumFrontends /\ 1 \in 1..Len(Part)
    BY EngineAssumption DEF Part
  <2> QED
    BY <1>1, <1>2, <2>1, <2>2 DEF Ctl, Steps
<1>4. ctl.at = "idle" /\ ctl.handles = <<>> /\ Len(ctl.handles) = 0
  BY <1>2
<1>5. DOMAIN ctl.handles = {}
  BY <1>4
<1>6. ~Busy /\ ~Raising /\ ctl.at \notin UpSteps /\ ~ShuttingDown
  BY <1>4 DEF Busy, Raising, UpSteps, ShuttingDown
<1>7. registry \in Seq(Devices) /\ Len(registry) = 0
  BY EmptyFits DEF Init
<1>8. Registered = {}
  BY <1>7 DEF Registered
<1>9. TypeOK
  <2>1. count \in [Devices -> 0..NumFrontends]
    BY EngineAssumption DEF Init
  <2> QED
    BY <1>3, <1>7, <2>1 DEF Init, TypeOK
<1>10. OwnInv
  BY <1>6, <1>7, <1>8 DEF OwnInv, Init
<1>11. RaiseInv
  BY <1>4, <1>6 DEF RaiseInv
<1>12. TearInv
  BY <1>4 DEF TearInv, Init
<1>13. SwitchInv
  BY DEF SwitchInv, CaptureMatches, Init
<1>14. HandleInv
  BY <1>4, <1>5, <1>6, EngineAssumption DEF HandleInv
<1>15. ReleasedInOrder /\ OthersLeaveNothing
  BY DEF ReleasedInOrder, OthersLeaveNothing, Init
<1> QED
  BY <1>9, <1>10, <1>11, <1>12, <1>13, <1>14, <1>15 DEF EngineInv

LEMMA EngineInvHolds == Spec => []EngineInv
<1>1. Init => EngineInv
  BY InitEstablishes
<1>2. EngineInv /\ [Next]_vars => EngineInv'
  <2> SUFFICES ASSUME EngineInv, [Next]_vars PROVE EngineInv'
    OBVIOUS
  <2>1. CASE BringUp
    BY <2>1, CallKeeps, TableKeeps, BridgeKeeps, FrontendKeeps, StreamKeeps, PublishKeeps
       DEF BringUp
  <2>2. CASE Teardown
    BY <2>2, TeardownCaptureKeeps, TeardownSleepKeeps, TeardownPartsKeep,
       TeardownDoneKeeps, CloseKeeps DEF Teardown
  <2>3. CASE Shutdown \/ ShutdownNext
    BY <2>3, CallKeeps, ShutdownNextKeeps
  <2>4. ASSUME NEW d \in Devices, Plug(d) \/ Unplug(d) PROVE EngineInv'
    <3>1. 0 \in Frontend /\ "done" \in Outcome
      BY EngineAssumption DEF Frontend, Outcome
    <3> QED
      BY <2>4, <3>1, EnvironmentKeeps
  <2>5. ASSUME NEW d \in Devices, NEW f \in Frontend, NEW out \in Outcome,
               Tune(d, f, out) \/ CaptureStop(d, f, out)
        PROVE  EngineInv'
    BY <2>5, EnvironmentKeeps
  <2>6. CASE UNCHANGED vars
    BY <2>6, StutterKeeps
  <2> QED
    BY <2>1, <2>2, <2>3, <2>4, <2>5, <2>6 DEF Next, Engine
<1> QED
  BY <1>1, <1>2, PTL DEF Spec

-----------------------------------------------------------------------------
\* Every variable keeps its type: in particular the loops of frontend_teardown
\* stay within the board's frontends.
THEOREM TypeCorrect == Spec => []TypeOK
<1>1. EngineInv => TypeOK
  BY DEF EngineInv
<1> QED
  BY <1>1, EngineInvHolds, PTL

\* On every path on which open_device_from_usb fails, and in shutdown, the stream
\* goes before the wake pipe that its event thread writes to, and the tuner before
\* the demod whose i2c mux it sits on.
THEOREM NothingOutlivesItsBase == Spec => []ReleasedInOrder
<1>1. EngineInv => ReleasedInOrder
  BY DEF EngineInv
<1> QED
  BY <1>1, EngineInvHolds, PTL

\* A device that is freed leaves nothing behind but what belongs to a frontend
\* whose own bring-up failed, whichever frontends may fail.
THEOREM OnlyTheFailedLeak == Spec => []OthersLeaveNothing
<1>1. EngineInv => OthersLeaveNothing
  BY DEF EngineInv
<1> QED
  BY <1>1, EngineInvHolds, PTL

\* The TS paths that the bridge forwards are those of the frontends with
\* capture_on, and none once the device is closed, except for frontends whose
\* last em28xx_capture_start failed on a device that was there: frontend_teardown
\* ignores that, and such a device streams on after it is closed, until it is
\* unplugged or comes up again.
THEOREM CaptureIsAccountedFor == Spec => []CaptureMatches
<1>1. EngineInv => CaptureMatches
  BY DEF EngineInv, SwitchInv
<1> QED
  BY <1>1, EngineInvHolds, PTL

\* The handles that dvb_em28xx_discover_all, _open and _open_by_addr put into the
\* caller's array stay within it, belong to complete devices, and are all there
\* once.
THEOREM HandlesStayGood == Spec => []HandlesBacked
<1>1. ASSUME EngineInv PROVE HandlesBacked
  <2>1. \A d \in Registered : /\ d \in usb \intersect bridge
                              /\ Resource \subseteq live[d] /\ held[d] = Resource
                              /\ count[d] = NumFrontends
    <3>1. Registered \subseteq Devices
      BY <1>1, InvFacts DEF TypeOK, Registered
    <3> QED
      BY <1>1, <3>1, InvFacts DEF OwnInv
  <2>2. ASSUME NEW i \in DOMAIN ctl.handles, NEW f \in Frontend
        PROVE  Cardinality({j \in DOMAIN ctl.handles :
                               ctl.handles[j] = <<ctl.handles[i][1], f>>}) = 1
    <3> DEFINE Those == {j \in DOMAIN ctl.handles : ctl.handles[j] = <<ctl.handles[i][1], f>>}
    <3>1. OnceIn(ctl.handles, ctl.handles[i][1], f)
      BY <1>1, InvFacts DEF HandleInv
    <3>2. PICK j \in DOMAIN ctl.handles : Those = {j}
      BY <3>1 DEF OnceIn
    <3> HIDE DEF Those
    <3>3. Cardinality(Those) = 1
      BY <3>2, FS_Singleton
    <3> QED
      BY <3>3 DEF Those
  <2> QED
    BY <1>1, <2>1, <2>2, InvFacts DEF HandlesBacked, HandleInv
<1> QED
  BY <1>1, EngineInvHolds, PTL

\* Until a frontend after the first fails, only shutdown tears frontends down that
\* were counted, and what its loop has ahead is there.
LEMMA OnceKeeps ==
    ASSUME Faulty \subseteq {0}, EngineInv, OnceInv, [Next]_vars
    PROVE  OnceInv'
<1>1. TypeOK /\ ctl.dev \in Devices /\ ctl.hi \in Nat /\ ctl.fn \in Nat
  BY InvFacts, CtlFields
<1>2. ASSUME misused' = misused, ctl'.at # "teardown" PROVE OnceInv'
  BY <1>2 DEF OnceInv
<1>3. ASSUME misused' = misused, count' = count, ctl.fn = 0, count[ctl.dev] = 0,
             GoesTo("teardown", ctl.dev, 0, 0, 1, "fail")
             \/ GoesTo("teardown", ctl.dev, 0, 0, 1, "unwind")
      PROVE  OnceInv'
  BY <1>3 DEF OnceInv, GoesTo, dev
<1>4. ASSUME misused' = misused, ctl' = ctl, count' = count PROVE OnceInv'
  BY <1>4 DEF OnceInv, dev
<1>5. ASSUME NEW step \in Steps \ {"teardown"}, Goto(step), misused' = misused
      PROVE  OnceInv'
  BY <1>1, <1>2, <1>5, GotoMoves DEF GoesTo
<1>6. Steps \ {"teardown"} = {"idle", "bridge", "setup", "pipe", "attach", "demodInit",
                              "tunerInit", "stream", "publish", "close", "next", "table", "addr"}
  BY DEF Steps
<1>7. CASE DiscoverAll \/ OpenVidPid \/ OpenByAddr \/ Shutdown
  <2>1. misused' = misused /\ ctl'.at # "teardown"
    BY <1>1, <1>7, CtlFields DEF DiscoverAll, OpenVidPid, OpenByAddr, Shutdown, Call, Ctl
  <2> QED
    BY <1>2, <2>1
<1>8. CASE TableNext \/ AtAddress
  <2>1. ASSUME NEW d \in Devices, NEW todo, Allocate(d, todo) PROVE OnceInv'
    BY <1>1, <1>2, <2>1, CtlFields DEF Allocate, Ctl
  <2>2. CASE TableNext
    <3>1. FirstMatch(Head(ctl.todo)) \subseteq Devices
      BY <1>1 DEF FirstMatch, TypeOK
    <3>2. ASSUME ctl' = (IF ctl.todo = <<>> THEN [ctl EXCEPT !.at = "idle"]
                         ELSE [ctl EXCEPT !.todo = Tail(@)]), misused' = misused
          PROVE  OnceInv'
      BY <1>1, <1>2, <2>2, <3>2, CtlFields DEF TableNext, Ctl
    <3> QED
      BY <2>1, <2>2, <3>1, <3>2 DEF TableNext
  <2>3. CASE AtAddress
    BY <1>5, <1>6, <2>1, <2>3 DEF AtAddress
  <2> QED
    BY <1>8, <2>2, <2>3
<1>9. CASE OpenBridge \/ Setup
  <2>1. ctl.fn = 0 /\ count[ctl.dev] = 0
    BY <1>9, InvFacts DEF OpenBridge, Setup, RaiseInv, Raising, UpSteps, dev, fn
  <2>2. ASSUME Fail, misused' = misused, count' = count PROVE OnceInv'
    <3>1. GoesTo("teardown", ctl.dev, 0, 0, 1, "fail")
      BY <1>1, <2>1, <2>2, FailMoves
    <3> QED
      BY <1>3, <2>1, <2>2, <3>1
  <2> QED
    BY <1>5, <1>6, <1>9, <2>2 DEF OpenBridge, Setup
<1>10. ASSUME ctl.at \in FrontendSteps, FrontendFails, misused' = misused, count' = count
       PROVE  OnceInv'
  <2>1. ctl.fn = 0 /\ count[ctl.dev] = 0
    BY <1>10, InFrontend DEF FrontendFails, fn
  <2>2. GoesTo("teardown", ctl.dev, 0, 0, 1, "unwind")
    BY <1>1, <1>10, <2>1, UnwindMoves DEF FrontendFails
  <2> QED
    BY <1>3, <1>10, <2>1, <2>2
<1>11. CASE MakePipe \/ Attach \/ InitDemod \/ InitTuner
  BY <1>5, <1>6, <1>10, <1>11
     DEF MakePipe, Attach, InitDemod, InitTuner, InitChip, FrontendGains, FrontendSteps
<1>12. CASE OpenStream
  <2>1. ASSUME ctl' = [ctl EXCEPT !.fn = fn + 1, !.at = AfterFrontend], misused' = misused
        PROVE  OnceInv'
    <3>1. PICK step \in {"pipe", "publish"} : step = AfterFrontend
      BY DEF AfterFrontend
    <3>2. PICK n : n = fn + 1
      OBVIOUS
    <3>3. ctl' = [ctl EXCEPT !.fn = n, !.at = step]
      BY <2>1, <3>1, <3>2
    <3>4. ctl'.at = step
      BY <1>1, <3>3, CtlFields DEF Ctl
    <3> QED
      BY <1>2, <2>1, <3>4
  <2> QED
    BY <1>10, <1>12, <2>1 DEF OpenStream, FrontendSteps
<1>13. CASE Publish
  <2>1. PICK hs : ctl' = [ctl EXCEPT !.at = "table", !.handles = hs]
    BY <1>13 DEF Publish
  <2>2. ctl'.at = "table" /\ misused' = misused
    BY <1>1, <1>13, <2>1, CtlFields DEF Publish, Ctl
  <2> QED
    BY <1>2, <2>2
<1>14. ASSUME NextPart, ctl.at = "teardown", ctl.fn < ctl.hi,
              ctl.why = "shutdown" => misused' = misused, count' = count
       PROVE  OnceInv'
  <2>1. ctl.why = "shutdown"
    BY <1>1, <1>14 DEF OnceInv
  <2>2. ctl.fn < NumFrontends
    BY <1>1, <1>14, TearFacts
  <2>3. ctl'.why = "shutdown"
    BY <1>1, <1>14, <2>1, <2>2, NextPartMoves DEF GoesTo
  <2> QED
    BY <1>14, <2>1, <2>3 DEF OnceInv
<1>15. CASE TeardownCapture
  <2>1. ctl.at = "teardown" /\ ctl.fn < ctl.hi
    BY <1>1, <1>15, PartNumbers DEF TeardownCapture
  <2> QED
    BY <1>14, <1>15, <2>1 DEF TeardownCapture
<1>16. ASSUME ctl.at = "teardown", ctl.why = "shutdown", ctl.fn < ctl.hi,
              NEW r \in Resource, r[2] = ctl.fn, ctl.part <= Slot(r[1])
       PROVE  r \in live[ctl.dev]
  <2>1. Ahead(r)
    BY <1>1, <1>16 DEF Ahead, fn
  <2> QED
    BY <1>16, <2>1, InvFacts DEF TearInv, dev
<1>17. CASE TeardownSleep
  <2> DEFINE chips == {c \in awake[ctl.dev] : c[2] = ctl.fn}
  <2>1. ctl.at = "teardown" /\ ctl.fn < ctl.hi /\ ctl.part = 3
    BY <1>1, <1>17, PartNumbers DEF TeardownSleep
  <2>2. misused' = misused \union ({ctl.dev} \X (chips \ live[ctl.dev]))
    BY <1>17 DEF TeardownSleep, dev, fn
  <2>3. ASSUME ctl.why = "shutdown", NEW c \in chips PROVE c \in live[ctl.dev]
    <3>1. c \in {"demod", "tuner"} \X Frontend /\ c[2] = ctl.fn
      BY <1>1 DEF TypeOK
    <3>2. c \in Resource /\ ctl.part <= Slot(c[1])
      BY <2>1, <3>1 DEF Resource, Kind, Slot
    <3> QED
      BY <1>16, <2>1, <2>3, <3>1, <3>2
  <2> HIDE DEF chips
  <2>4. ctl.why = "shutdown" => misused' = misused
    BY <2>2, <2>3
  <2> QED
    BY <1>14, <1>17, <2>1, <2>4 DEF TeardownSleep
<1>18. ASSUME NEW rs, ctl.at = "teardown", ctl.fn < ctl.hi, ReleaseAndForget(rs),
              \A r \in rs : r[2] = ctl.fn /\ ctl.part = Slot(r[1])
       PROVE  OnceInv'
  <2>1. misused' = misused \union ({ctl.dev} \X ((rs \intersect held[ctl.dev]) \ live[ctl.dev]))
    BY <1>18 DEF ReleaseAndForget, Release, dev
  <2>2. ASSUME ctl.why = "shutdown", NEW r \in rs \intersect held[ctl.dev]
        PROVE  r \in live[ctl.dev]
    <3>1. r \in Resource /\ r[2] = ctl.fn
      BY <1>1, <1>18 DEF TypeOK
    <3>2. ctl.part <= Slot(r[1])
      BY <1>1, <1>18, CtlFields
    <3> QED
      BY <1>16, <1>18, <2>2, <3>1, <3>2
  <2>3. ctl.why = "shutdown" => misused' = misused
    BY <2>1, <2>2
  <2> QED
    BY <1>14, <1>18, <2>3 DEF ReleaseAndForget
<1>19. CASE TeardownStream
  <2>1. ctl.at = "teardown" /\ ctl.fn < ctl.hi /\ ctl.part = 2
    BY <1>1, <1>19, PartNumbers DEF TeardownStream
  <2>2. \A r \in {<<"stream", ctl.fn>>} : r[2] = ctl.fn /\ ctl.part = Slot(r[1])
    BY <2>1 DEF Slot
  <2> QED
    BY <1>18, <1>19, <2>1, <2>2 DEF TeardownStream, fn
<1>20. CASE TeardownTuner
  <2>1. ctl.at = "teardown" /\ ctl.fn < ctl.hi /\ ctl.part = 4
    BY <1>1, <1>20, PartNumbers DEF TeardownTuner
  <2>2. \A r \in {<<"tuner", ctl.fn>>} : r[2] = ctl.fn /\ ctl.part = Slot(r[1])
    BY <2>1 DEF Slot
  <2> QED
    BY <1>18, <1>20, <2>1, <2>2 DEF TeardownTuner, fn
<1>21. CASE TeardownDemod
  <2>1. ctl.at = "teardown" /\ ctl.fn < ctl.hi /\ ctl.part = 5
    BY <1>1, <1>21, PartNumbers DEF TeardownDemod
  <2>2. \A r \in {<<"demod", ctl.fn>>} : r[2] = ctl.fn /\ ctl.part = Slot(r[1])
    BY <2>1 DEF Slot
  <2> QED
    BY <1>18, <1>21, <2>1, <2>2 DEF TeardownDemod, fn
<1>22. CASE TeardownPipe
  <2>1. ctl.at = "teardown" /\ ctl.fn < ctl.hi /\ ctl.part = 6
    BY <1>1, <1>22, PartNumbers DEF TeardownPipe
  <2>2. \A r \in {<<"pipe", ctl.fn>>, <<"name", ctl.fn>>} : r[2] = ctl.fn /\ ctl.part = Slot(r[1])
    BY <2>1 DEF Slot
  <2> QED
    BY <1>18, <1>22, <2>1, <2>2 DEF TeardownPipe, fn
<1>23. CASE TeardownDone
  <2>1. CASE ctl.why = "unwind" /\ Fail
    <3>1. GoesTo("teardown", ctl.dev, 0, count[ctl.dev], 1, "fail")
      BY <1>1, <2>1, FailMoves
    <3>2. misused' = misused /\ count' = count /\ ctl.at = "teardown"
      BY <1>23 DEF TeardownDone
    <3>3. count[ctl.dev] = 0
      BY <2>1, <3>2 DEF OnceInv, dev
    <3> QED
      BY <3>1, <3>2, <3>3 DEF OnceInv, GoesTo, dev
  <2> QED
    BY <1>5, <1>6, <1>23, <2>1 DEF TeardownDone
<1>24. CASE CloseDevice
  <2>1. PICK step \in {"next", "table"} : Goto(step)
    BY <1>24 DEF CloseDevice
  <2> QED
    BY <1>5, <1>6, <1>24, <2>1 DEF CloseDevice
<1>25. CASE ShutdownNext
  <2>1. CASE registry = <<>>
    BY <1>5, <1>6, <1>25, <2>1 DEF ShutdownNext
  <2>2. CASE registry # <<>>
    <3>1. PICK d, n : ctl' = [ctl EXCEPT !.at = "teardown", !.dev = d, !.fn = 0,
                                         !.part = 1, !.why = "shutdown", !.hi = n]
      BY <1>25, <2>2 DEF ShutdownNext
    <3>2. ctl'.why = "shutdown" /\ misused' = misused
      BY <1>1, <1>25, <3>1, CtlFields DEF ShutdownNext, Ctl
    <3> QED
      BY <3>2 DEF OnceInv
  <2> QED
    BY <2>1, <2>2
<1>26. ASSUME NEW d \in Devices, Plug(d) \/ Unplug(d) PROVE OnceInv'
  BY <1>4, <1>26 DEF Plug, Unplug
<1>27. ASSUME NEW d \in Devices, NEW f \in Frontend, NEW out \in Outcome,
              Tune(d, f, out) \/ CaptureStop(d, f, out)
       PROVE  OnceInv'
  BY <1>4, <1>27 DEF Tune, CaptureStop
<1>28. CASE UNCHANGED vars
  BY <1>4, <1>28 DEF vars
<1> QED
  BY <1>7, <1>8, <1>9, <1>11, <1>12, <1>13, <1>15, <1>17, <1>19, <1>20, <1>21, <1>22,
     <1>23, <1>24, <1>25, <1>26, <1>27, <1>28 DEF Next, Engine, BringUp, Teardown

\* No chip is used and nothing is released after its release, in any number of
\* bring-ups and shutdowns, as long as no frontend but the first of a device
\* fails.  One that fails later makes the loops of open_device_from_usb tear down
\* the same frontends twice.
THEOREM NothingReleasedTwice ==
    ASSUME Faulty \subseteq {0}
    PROVE  Spec => []NoUseAfterRelease
<1>1. Init => OnceInv
  <2>1. ASSUME Init PROVE misused = {} /\ ctl.at = "idle"
    BY <2>1 DEF Init
  <2> QED
    BY <2>1 DEF OnceInv
<1>2. EngineInv /\ OnceInv /\ [Next]_vars => OnceInv'
  BY OnceKeeps
<1>3. OnceInv => NoUseAfterRelease
  BY DEF OnceInv, NoUseAfterRelease
<1> QED
  BY <1>1, <1>2, <1>3, EngineInvHolds, PTL DEF Spec

=============================================================================
