---------------------------- MODULE Dib0700Proofs ----------------------------
(***************************************************************************)
(* Proofs about Dib0700 for every number of firmware records and of        *)
(* failing transfers.                                                      *)
(*                                                                         *)
(* The properties speak of the device; what keeps them is what the tuner   *)
(* thread has still to do.  The inductive invariant therefore says, for    *)
(* every place in a call, what is left of it (Purpose, InOrder) and what   *)
(* the device and the engine know by then: which records the boot loader   *)
(* has taken (Loads), what is streamed between the switch and the flag     *)
(* after it (Streams), that the restart of the URBs (Fresh) and the length *)
(* (Told) come before the switch.  ctrl_lock (Locked) keeps the other      *)
(* thread's messages out of a register read.  What the engine knows of the *)
(* firmware (Knows) is a second invariant, inductive relative to this one. *)
(***************************************************************************)
EXTENDS Dib0700, SequenceTheorems, TLAPS

Step == Reads \union Writes \union Vendor \union Boot \union Local

ThreadRecord == [todo : Seq(Step),
                 at : {"idle", "next", "first", "second", "vendor"}]

\* What a call that opens, one that tunes and one that stops or closes is made of.
OpenSteps == {"isCold", "file", "record", "jump", "version", "gpio", "pipe",
              "readId", "updateCfg", "writeCfg", "stream", "publish"}
TuneSteps == {"updateCfg", "writeCfg", "restart", "switch", "xferLen", "enable",
              "captureOn"}
StopSteps == {"disable", "captureOff", "closeStream", "updateCfg", "writeCfg",
              "release"}

\* What the tuner has still to do.
Todo == th["tuner"].todo

Has(s, step) == \E i \in 1..Len(s) : s[i] = step

Starts(s, step) == s # <<>> /\ s[1] = step

\* ctrl_lock is held by the thread that is inside a transfer.
Locked ==
    /\ th \in [Threads -> ThreadRecord]
    /\ \A t \in Threads :
          /\ th[t].at = "idle" <=> th[t].todo = <<>>
          /\ th[t].at \in {"first", "second", "vendor"} <=> ctrl = t
          /\ th[t].at = "first"  => th[t].todo[1] \in Reads \union Writes
          /\ th[t].at = "second" => th[t].todo[1] \in Reads
          /\ th[t].at = "vendor" => th[t].todo[1] \in Vendor

\* The calls of the tuner: what is left of one that opens (or of none), of one
\* that tunes, of one that stops or closes.
Fits(s, open) ==
    \/ ~open /\ s \in Seq(OpenSteps)
    \/ open /\ s \in Seq(TuneSteps)
    \/ open /\ s \in Seq(StopSteps)

Purpose == th["poller"].todo \in Seq({"readStatus"}) /\ Fits(Todo, published)

\* The order within the tuner's call.
InOrder(s) ==
    \A i \in 1..Len(s) :
       /\ s[i] \in {"publish", "switch", "captureOn", "release"} => i = Len(s)
       /\ s[i] = "enable" => i < Len(s) /\ s[i + 1] = "captureOn"
       /\ s[i] = "disable" => i < Len(s) /\ s[i + 1] = "captureOff"
       /\ s[i] = "captureOn" /\ i > 1 => s[i - 1] = "enable"
       /\ s[i] = "captureOff" /\ i > 1 => s[i - 1] = "disable"

\* A download is what is left of the records, then the jump.
Loads(s, runs, taken) ==
    \A i \in 1..Len(s) :
       /\ s[i] = "jump" =>
             /\ \A j \in 1..(i - 1) : s[j] = "record" \/ (j = 1 /\ s[j] = "file")
             /\ s[1] = "file" => i = NumRecords + 2
             /\ s[1] # "file" =>
                   /\ i <= NumRecords + 1
                   /\ runs = None /\ i <= NumRecords => taken = NumRecords - i + 1
       /\ s[i] = "record" => \E j \in 1..Len(s) : j > i /\ s[j] = "jump"

\* The restart comes before the switch, the length before the stream.
Restarts(s) ==
    \A i \in 1..Len(s) : s[i] \in {"switch", "enable"} =>
       \E j \in 1..(i - 1) : s[j] = "restart"

Tells(s) == \A i \in 1..Len(s) : s[i] = "captureOn" => i = 3 /\ s[1] = "xferLen"

\* What bridge and channel_state are, between the switch and the flag that
\* follows it and outside.
Streams ==
    /\ captureOn => published
    /\ captureOn /\ Has(Todo, "release") => Has(Todo, "captureOff")
    /\ "stream" \notin doubt =>
          /\ Starts(Todo, "captureOn") => mask # {}
          /\ Starts(Todo, "captureOff") => mask = {}
          /\ ~Starts(Todo, "captureOn") /\ ~Starts(Todo, "captureOff") =>
                (mask # {} <=> captureOn)
          /\ published \/ Todo # <<>> => mask = channels

Fresh == /\ mask # {} /\ "urbs" \notin doubt => urbs # "old"
         /\ urbs # "old" \/ "urbs" \in doubt \/ Restarts(Todo)

Told == /\ captureOn /\ fwVersion = "new" => xferLen
        /\ fwVersion = "new" /\ ~xferLen => Tells(Todo)

Plan == /\ InOrder(Todo) /\ Loads(Todo, running, ram) /\ WholeFirmwareRuns
        /\ Streams /\ Fresh /\ Told

DibInv == TypeOK /\ Locked /\ ReadsItsRegister /\ Purpose /\ Plan

-----------------------------------------------------------------------------
(***************************************************************************)
(* Sequences: what is left after a step, and a register write put in front *)
(***************************************************************************)
LEMMA Rest ==
  ASSUME NEW S, NEW s \in Seq(S), s # <<>>
  PROVE  /\ Len(s) \in Nat \ {0} /\ Head(s) = s[1] /\ s[1] \in S
         /\ Tail(s) \in Seq(S) /\ Len(Tail(s)) = Len(s) - 1
         /\ \A i \in 1..(Len(s) - 1) : Tail(s)[i] = s[i + 1]
BY HeadTailProperties, EmptySeq, LenProperties, ElementOfSeq

\* r is s with its first element replaced by a register write.
Rewrites(r, s) ==
    /\ Len(r) = Len(s) /\ r[1] = "writeCfg"
    /\ \A i \in 2..Len(s) : r[i] = s[i]

LEMMA Rewritten ==
  ASSUME NEW S, NEW s \in Seq(S), s # <<>>, "writeCfg" \in S
  PROVE  /\ <<"writeCfg">> \o Tail(s) \in Seq(S)
         /\ <<"writeCfg">> \o Tail(s) # <<>>
         /\ Rewrites(<<"writeCfg">> \o Tail(s), s)
<1> DEFINE w == <<"writeCfg">>
<1>1. w \in Seq(S) /\ Len(w) = 1 /\ w[1] = "writeCfg"
  OBVIOUS
<1> HIDE DEF w
<1>2. /\ Len(s) \in Nat \ {0} /\ Tail(s) \in Seq(S) /\ Len(Tail(s)) = Len(s) - 1
      /\ \A i \in 1..(Len(s) - 1) : Tail(s)[i] = s[i + 1]
  BY Rest
<1>0. /\ w \o Tail(s) \in Seq(S)
      /\ Len(w \o Tail(s)) = Len(w) + Len(Tail(s))
      /\ \A i \in 1..(Len(w) + Len(Tail(s))) :
            (w \o Tail(s))[i] = IF i <= Len(w) THEN w[i] ELSE Tail(s)[i - Len(w)]
  <2>1. w \in Seq(S) /\ Tail(s) \in Seq(S)
    BY <1>1, <1>2
  <2> QED
    BY ONLY <2>1, ConcatProperties
<1>3. /\ w \o Tail(s) \in Seq(S)
      /\ Len(w \o Tail(s)) = 1 + (Len(s) - 1)
      /\ \A i \in 1..(1 + (Len(s) - 1)) :
            (w \o Tail(s))[i] = IF i <= 1 THEN w[i] ELSE Tail(s)[i - 1]
  BY <1>0, <1>1, <1>2
<1>4. Len(w \o Tail(s)) = Len(s)
  <2>1. Len(s) \in Nat
    BY <1>2
  <2>2. Len(w \o Tail(s)) = 1 + (Len(s) - 1)
    BY <1>3
  <2> QED
    BY ONLY <2>1, <2>2
<1>5. (w \o Tail(s))[1] = "writeCfg"
  BY <1>1, <1>2, <1>3
<1>6. ASSUME NEW i \in 2..Len(s)
      PROVE  (w \o Tail(s))[i] = s[i]
  <2>1. i - 1 \in 1..(Len(s) - 1) /\ i \in 1..(1 + (Len(s) - 1)) /\ ~(i <= 1)
        /\ (i - 1) + 1 = i
    BY <1>2
  <2> QED
    BY <2>1, <1>2, <1>3
<1>7. w \o Tail(s) # <<>>
  BY <1>2, <1>3, <1>4, EmptySeq
<1> QED
  BY <1>3, <1>4, <1>5, <1>6, <1>7 DEF w, Rewrites

LEMMA OrderedOnward ==
  ASSUME NEW s \in Seq(Step), s # <<>>, InOrder(s)
  PROVE  InOrder(Tail(s))
<1> DEFINE r == Tail(s)
           n == Len(s)
<1>1. /\ n \in Nat \ {0} /\ Len(r) = n - 1
      /\ \A i \in 1..(n - 1) : r[i] = s[i + 1]
  BY Rest
<1>2. \A i \in 1..n :
         /\ s[i] \in {"publish", "switch", "captureOn", "release"} => i = n
         /\ s[i] = "enable" => i < n /\ s[i + 1] = "captureOn"
         /\ s[i] = "disable" => i < n /\ s[i + 1] = "captureOff"
         /\ s[i] = "captureOn" /\ i > 1 => s[i - 1] = "enable"
         /\ s[i] = "captureOff" /\ i > 1 => s[i - 1] = "disable"
  BY DEF InOrder
<1> HIDE DEF r, n
<1>3. ASSUME NEW i \in 1..(n - 1)
      PROVE  /\ r[i] \in {"publish", "switch", "captureOn", "release"} => i = n - 1
             /\ r[i] = "enable" => i < n - 1 /\ r[i + 1] = "captureOn"
             /\ r[i] = "disable" => i < n - 1 /\ r[i + 1] = "captureOff"
             /\ r[i] = "captureOn" /\ i > 1 => r[i - 1] = "enable"
             /\ r[i] = "captureOff" /\ i > 1 => r[i - 1] = "disable"
  <2>1. i + 1 \in 1..n /\ r[i] = s[i + 1] /\ i \in Nat
    BY <1>1
  <2>2. i < n - 1 => r[i + 1] = s[(i + 1) + 1]
    BY <1>1
  <2>3. i > 1 => r[i - 1] = s[(i + 1) - 1]
    BY <1>1
  <2> QED
    BY <1>1, <1>2, <2>1, <2>2, <2>3
<1> QED
  BY <1>1, <1>3 DEF InOrder, r

LEMMA OrderedRewrite ==
  ASSUME NEW s \in Seq(Step), s # <<>>, s[1] = "updateCfg", InOrder(s),
         NEW r, Rewrites(r, s)
  PROVE  InOrder(r)
<1>1. Len(s) \in Nat \ {0} /\ Len(r) = Len(s)
  BY Rest DEF Rewrites
<1>2. ASSUME NEW i \in 1..Len(s)
      PROVE  /\ r[i] \in {"publish", "switch", "captureOn", "release"} => i = Len(s)
             /\ r[i] = "enable" => i < Len(s) /\ r[i + 1] = "captureOn"
             /\ r[i] = "disable" => i < Len(s) /\ r[i + 1] = "captureOff"
             /\ r[i] = "captureOn" /\ i > 1 => r[i - 1] = "enable"
             /\ r[i] = "captureOff" /\ i > 1 => r[i - 1] = "disable"
  <2>1. CASE i = 1
    BY <2>1 DEF Rewrites
  <2>2. CASE i > 1
    <3>1. r[i] = s[i]
      BY <2>2, <1>1 DEF Rewrites
    <3>2. i < Len(s) => r[i + 1] = s[i + 1]
      BY <2>2, <1>1 DEF Rewrites
    <3>3. i - 1 > 1 => r[i - 1] = s[i - 1]
      BY <2>2, <1>1 DEF Rewrites
    <3>4. i - 1 = 1 => s[i - 1] = "updateCfg"
      OBVIOUS
    <3> QED
      BY <1>1, <2>2, <3>1, <3>2, <3>3, <3>4 DEF InOrder
  <2> QED
    BY <1>1, <2>1, <2>2
<1> QED
  BY <1>1, <1>2 DEF InOrder

LEMMA HasOnward ==
  ASSUME NEW s \in Seq(Step), s # <<>>, NEW step
  PROVE  Has(s, step) <=> s[1] = step \/ Has(Tail(s), step)
<1> DEFINE r == Tail(s)
           n == Len(s)
<1>1. /\ n \in Nat \ {0} /\ Len(r) = n - 1
      /\ \A i \in 1..(n - 1) : r[i] = s[i + 1]
  BY Rest
<1> HIDE DEF r, n
<1>2. ASSUME NEW i \in 1..n, s[i] = step, i # 1
      PROVE  \E j \in 1..(n - 1) : r[j] = step
  <2>1. i - 1 \in 1..(n - 1) /\ (i - 1) + 1 = i
    BY <1>1, <1>2
  <2> QED
    BY <1>1, <1>2, <2>1
<1>3. ASSUME NEW j \in 1..(n - 1), r[j] = step
      PROVE  \E i \in 1..n : s[i] = step
  <2>1. j + 1 \in 1..n /\ s[j + 1] = step
    BY <1>1, <1>3
  <2> QED
    BY <2>1
<1>4. 1 \in 1..n
  BY <1>1
<1> QED
  BY <1>1, <1>2, <1>3, <1>4 DEF Has, r, n

LEMMA HasRewrite ==
  ASSUME NEW s \in Seq(Step), s # <<>>, s[1] = "updateCfg",
         NEW r, Rewrites(r, s), NEW step, step \notin {"updateCfg", "writeCfg"}
  PROVE  Has(r, step) <=> Has(s, step)
<1>1. Len(s) \in Nat \ {0} /\ Len(r) = Len(s)
  BY Rest DEF Rewrites
<1>2. ASSUME NEW i \in 1..Len(s)
      PROVE  r[i] = step <=> s[i] = step
  <2>1. CASE i = 1
    BY <2>1 DEF Rewrites
  <2>2. CASE i > 1
    BY <2>2, <1>1 DEF Rewrites
  <2> QED
    BY <1>1, <2>1, <2>2
<1> QED
  BY <1>1, <1>2 DEF Has

\* A step other than the restart itself leaves the restart ahead.
LEMMA RestartsOnward ==
  ASSUME NEW s \in Seq(Step), s # <<>>, Restarts(s), s[1] # "restart"
  PROVE  Restarts(Tail(s))
<1> DEFINE r == Tail(s)
           n == Len(s)
<1>1. /\ n \in Nat \ {0} /\ Len(r) = n - 1
      /\ \A i \in 1..(n - 1) : r[i] = s[i + 1]
  BY Rest
<1>2. \A i \in 1..n : s[i] \in {"switch", "enable"} =>
         \E j \in 1..(i - 1) : s[j] = "restart"
  BY DEF Restarts
<1> HIDE DEF r, n
<1>3. ASSUME NEW i \in 1..(n - 1), r[i] \in {"switch", "enable"}
      PROVE  \E j \in 1..(i - 1) : r[j] = "restart"
  <2>1. i + 1 \in 1..n /\ r[i] = s[i + 1] /\ i \in Nat
    BY <1>1
  <2>2. PICK k \in 1..((i + 1) - 1) : s[k] = "restart"
    BY <1>2, <1>3, <2>1
  <2>3. k # 1
    BY <2>2
  <2>4. k - 1 \in 1..(i - 1) /\ k - 1 \in 1..(n - 1) /\ (k - 1) + 1 = k
    BY <2>1, <2>2, <2>3, <1>1
  <2>5. r[k - 1] = "restart"
    BY <1>1, <2>2, <2>4
  <2> QED
    BY <2>4, <2>5
<1> QED
  BY <1>1, <1>3 DEF Restarts, r

LEMMA RestartsRewrite ==
  ASSUME NEW s \in Seq(Step), s # <<>>, s[1] = "updateCfg", Restarts(s),
         NEW r, Rewrites(r, s)
  PROVE  Restarts(r)
<1>1. Len(s) \in Nat \ {0} /\ Len(r) = Len(s)
  BY Rest DEF Rewrites
<1>2. ASSUME NEW i \in 1..Len(s), r[i] \in {"switch", "enable"}
      PROVE  \E j \in 1..(i - 1) : r[j] = "restart"
  <2>1. i > 1
    BY <1>1, <1>2 DEF Rewrites
  <2>2. s[i] = r[i]
    BY <2>1, <1>1 DEF Rewrites
  <2>3. PICK j \in 1..(i - 1) : s[j] = "restart"
    BY <1>2, <2>2 DEF Restarts
  <2>4. j > 1
    BY <2>3
  <2>5. j \in 2..Len(s)
    BY <1>1, <2>3, <2>4
  <2> QED
    BY <2>3, <2>5 DEF Rewrites
<1> QED
  BY <1>1, <1>2 DEF Restarts

\* What is told of a length is told before anything else is done.
LEMMA TellsOnward ==
  ASSUME NEW s \in Seq(Step), s # <<>>, Tells(s), s[1] # "xferLen"
  PROVE  Tells(Tail(s))
<1>1. ~Has(s, "captureOn")
  BY DEF Tells, Has
<1>2. ~Has(Tail(s), "captureOn")
  BY <1>1, HasOnward
<1> QED
  BY <1>2 DEF Tells, Has

LEMMA TellsRewrite ==
  ASSUME NEW s \in Seq(Step), s # <<>>, s[1] = "updateCfg", Tells(s),
         NEW r, Rewrites(r, s)
  PROVE  Tells(r)
<1>1. ~Has(s, "captureOn")
  BY DEF Tells, Has
<1>2. ~Has(r, "captureOn")
  BY <1>1, HasRewrite
<1> QED
  BY <1>2 DEF Tells, Has

\* What a step of the download leaves to be done, when the boot loader has taken
\* what the step sent.
TakenAfter(s, taken) ==
    IF s[1] = "record"
    THEN IF \A i \in 1..NumRecords : i \in DOMAIN s /\ s[i] = "record" THEN 1
         ELSE taken + 1
    ELSE taken

LEMMA LoadsOnward ==
  ASSUME NEW s \in Seq(Step), s # <<>>, NEW runs, NEW taken \in Nat,
         Loads(s, runs, taken)
  PROVE  Loads(Tail(s), runs, TakenAfter(s, taken))
<1> DEFINE r == Tail(s)
           n == Len(s)
           after == TakenAfter(s, taken)
<1>1. /\ n \in Nat \ {0} /\ Len(r) = n - 1 /\ DOMAIN s = 1..n
      /\ \A i \in 1..(n - 1) : r[i] = s[i + 1]
  BY Rest, LenProperties
<1>2. \A i \in 1..n : s[i] = "jump" =>
         /\ \A j \in 1..(i - 1) : s[j] = "record" \/ (j = 1 /\ s[j] = "file")
         /\ s[1] = "file" => i = NumRecords + 2
         /\ s[1] # "file" =>
               /\ i <= NumRecords + 1
               /\ runs = None /\ i <= NumRecords => taken = NumRecords - i + 1
  BY DEF Loads
<1>3. \A i \in 1..n : s[i] = "record" => \E j \in 1..n : j > i /\ s[j] = "jump"
  BY DEF Loads
<1>4. /\ s[1] # "record" => after = taken
      /\ s[1] = "record" /\ (\A i \in 1..NumRecords : i \in 1..n /\ s[i] = "record")
            => after = 1
      /\ s[1] = "record" /\ ~(\A i \in 1..NumRecords : i \in 1..n /\ s[i] = "record")
            => after = taken + 1
  BY <1>1 DEF TakenAfter
<1>5. NumRecords \in Nat \ {0}
  BY DibAssumption
<1> HIDE DEF r, n, after
<1>6. ASSUME NEW i \in 1..(n - 1), r[i] = "jump"
      PROVE  /\ \A j \in 1..(i - 1) : r[j] = "record" \/ (j = 1 /\ r[j] = "file")
             /\ r[1] = "file" => i = NumRecords + 2
             /\ r[1] # "file" =>
                   /\ i <= NumRecords + 1
                   /\ runs = None /\ i <= NumRecords => after = NumRecords - i + 1
  <2>1. i + 1 \in 1..n /\ s[i + 1] = "jump" /\ i \in Nat \ {0}
    BY <1>1, <1>6
  <2>2. \A j \in 1..i : s[j] = "record" \/ (j = 1 /\ s[j] = "file")
    BY <1>2, <2>1
  <2>3. \A j \in 1..(i - 1) : r[j] = "record"
    <3> SUFFICES ASSUME NEW j \in 1..(i - 1) PROVE r[j] = "record"
      OBVIOUS
    <3>1. j + 1 \in 1..i /\ j + 1 # 1 /\ j \in 1..(n - 1)
      BY <1>1, <2>1
    <3> QED
      BY <1>1, <2>2, <3>1
  <2>4. r[1] # "file"
    <3>1. CASE i = 1
      BY <1>6, <3>1
    <3>2. CASE i # 1
      BY <2>1, <2>3, <3>2
    <3> QED
      BY <3>1, <3>2
  <2>5. s[1] \in {"record", "file"}
    BY <2>1, <2>2
  <2>6. CASE s[1] = "file"
    BY <1>2, <1>5, <2>1, <2>3, <2>4, <2>6
  <2>7. CASE s[1] = "record"
    <3>1. i <= NumRecords
      BY <1>2, <1>5, <2>1, <2>7
    <3>2. CASE i = NumRecords
      <4>1. \A j \in 1..NumRecords : j \in 1..n /\ s[j] = "record"
        BY <1>1, <1>5, <2>1, <2>2, <2>7, <3>2
      <4>2. after = 1
        BY <1>4, <2>7, <4>1
      <4> QED
        BY <1>5, <2>3, <2>4, <3>2, <4>2
    <3>3. CASE i < NumRecords
      <4>1. i + 1 \in 1..NumRecords /\ s[i + 1] # "record"
        BY <1>5, <2>1, <3>3
      <4>2. after = taken + 1
        BY <1>4, <2>7, <4>1
      <4>3. runs = None => taken = NumRecords - (i + 1) + 1
        BY <1>2, <1>5, <2>1, <2>7, <3>3
      <4> QED
        BY <1>5, <2>1, <2>3, <2>4, <3>3, <4>2, <4>3
    <3> QED
      BY <1>5, <2>1, <3>1, <3>2, <3>3
  <2> QED
    BY <2>5, <2>6, <2>7
<1>7. ASSUME NEW i \in 1..(n - 1), r[i] = "record"
      PROVE  \E j \in 1..(n - 1) : j > i /\ r[j] = "jump"
  <2>1. i + 1 \in 1..n /\ s[i + 1] = "record" /\ i \in Nat \ {0}
    BY <1>1, <1>7
  <2>2. PICK k \in 1..n : k > i + 1 /\ s[k] = "jump"
    BY <1>3, <2>1
  <2>3. k - 1 \in 1..(n - 1) /\ k - 1 > i /\ (k - 1) + 1 = k
    BY <1>1, <2>1, <2>2
  <2> QED
    BY <1>1, <2>2, <2>3
<1> QED
  BY <1>1, <1>6, <1>7 DEF Loads, r, after

\* A register is written only where no download is ahead.
LEMMA LoadsRewrite ==
  ASSUME NEW s \in Seq(Step), s # <<>>, s[1] = "updateCfg",
         NEW runs, NEW taken, Loads(s, runs, taken), NEW r, Rewrites(r, s)
  PROVE  Loads(r, runs, taken)
<1>1. Len(s) \in Nat \ {0} /\ Len(r) = Len(s)
  BY Rest DEF Rewrites
<1>2. ~Has(s, "jump")
  BY <1>1 DEF Loads, Has
<1>3. ~Has(s, "record")
  BY <1>2 DEF Loads, Has
<1>4. ~Has(r, "jump") /\ ~Has(r, "record")
  BY <1>2, <1>3, HasRewrite
<1> QED
  BY <1>4 DEF Loads, Has

-----------------------------------------------------------------------------
(***************************************************************************)
(* What the steps of one thread leave of its call.                         *)
(***************************************************************************)
LEMMA StepsAreSteps ==
  ASSUME NEW s
  PROVE  /\ s \in Seq(OpenSteps) => s \in Seq(Step)
         /\ s \in Seq(TuneSteps) => s \in Seq(Step)
         /\ s \in Seq(StopSteps) => s \in Seq(Step)
         /\ s \in Seq({"readStatus"}) => s \in Seq(Step)
<1>1. /\ OpenSteps \subseteq Step /\ TuneSteps \subseteq Step
      /\ StopSteps \subseteq Step /\ {"readStatus"} \subseteq Step
  BY DEF OpenSteps, TuneSteps, StopSteps, Step, Reads, Writes, Vendor, Boot, Local
<1> QED
  BY <1>1, SeqMonotonic

LEMMA FitsOnward ==
  ASSUME NEW open, NEW s \in Seq(Step), s # <<>>, Fits(s, open)
  PROVE  /\ Fits(Tail(s), open)
         /\ s[1] = "updateCfg" => Fits(<<"writeCfg">> \o Tail(s), open)
<1>1. /\ s \in Seq(OpenSteps) => Tail(s) \in Seq(OpenSteps)
      /\ s \in Seq(TuneSteps) => Tail(s) \in Seq(TuneSteps)
      /\ s \in Seq(StopSteps) => Tail(s) \in Seq(StopSteps)
  BY Rest
<1>2. /\ "writeCfg" \in OpenSteps /\ "writeCfg" \in TuneSteps
      /\ "writeCfg" \in StopSteps
  BY DEF OpenSteps, TuneSteps, StopSteps
<1>3. /\ s \in Seq(OpenSteps) => <<"writeCfg">> \o Tail(s) \in Seq(OpenSteps)
      /\ s \in Seq(TuneSteps) => <<"writeCfg">> \o Tail(s) \in Seq(TuneSteps)
      /\ s \in Seq(StopSteps) => <<"writeCfg">> \o Tail(s) \in Seq(StopSteps)
  BY <1>2, Rewritten
<1> QED
  BY <1>1, <1>3 DEF Fits

\* What the first step tells of the rest.
LEMMA FitsFirst ==
  ASSUME NEW open, NEW s, s # <<>>, Fits(s, open)
  PROVE  /\ ~open => s[1] \in OpenSteps
         /\ open => s[1] \in TuneSteps \union StopSteps
         /\ open /\ s[1] \notin TuneSteps => s \in Seq(StopSteps)
         /\ open /\ s[1] \notin StopSteps => s \in Seq(TuneSteps)
BY Rest DEF Fits

LEMMA NothingToDo ==
  ASSUME NEW open \in BOOLEAN, NEW runs, NEW taken
  PROVE  /\ <<>> \in Seq(Step) /\ Len(<<>>) = 0 /\ Fits(<<>>, open)
         /\ <<>> \in Seq({"readStatus"})
         /\ InOrder(<<>>) /\ Loads(<<>>, runs, taken)
         /\ Restarts(<<>>) /\ Tells(<<>>)
         /\ \A step : ~Has(<<>>, step) /\ ~Starts(<<>>, step)
<1>1. Len(<<>>) = 0 /\ <<>> \in Seq(Step) /\ <<>> \in Seq({"readStatus"})
      /\ <<>> \in Seq(OpenSteps) /\ <<>> \in Seq(TuneSteps)
  BY EmptySeq
<1> QED
  BY <1>1 DEF Fits, InOrder, Loads, Restarts, Tells, Has, Starts

\* A thread goes on with what is left; the other one is where it was.
LEMMA Continues ==
  ASSUME th \in [Threads -> ThreadRecord], NEW t \in Threads,
         NEW rest \in Seq(Step), Continue(t, rest)
  PROVE  /\ th' \in [Threads -> ThreadRecord]
         /\ th'[t].todo = rest
         /\ th'[t].at \in {"idle", "next"} /\ (th'[t].at = "idle" <=> rest = <<>>)
         /\ \A u \in Threads : u # t => th'[u] = th[u]
<1> DEFINE a == IF rest = <<>> THEN "idle" ELSE "next"
           rec == [todo |-> rest, at |-> a]
<1>1. a \in {"idle", "next"} /\ (a = "idle" <=> rest = <<>>)
  OBVIOUS
<1>2. th' = [th EXCEPT ![t] = rec]
  BY DEF Continue
<1> HIDE DEF a
<1>3. rec \in ThreadRecord
  BY <1>1 DEF ThreadRecord
<1>4. rec.todo = rest /\ rec.at = a
  OBVIOUS
<1> HIDE DEF rec
<1>5. th'[t] = rec
  BY <1>2
<1> QED
  BY <1>1, <1>2, <1>3, <1>4, <1>5

\* A thread goes to another place of the transfer it is in.
LEMMA Moves ==
  ASSUME th \in [Threads -> ThreadRecord], NEW t \in Threads,
         NEW a \in {"first", "second", "vendor"}, th' = [th EXCEPT ![t].at = a]
  PROVE  /\ th' \in [Threads -> ThreadRecord]
         /\ th'[t].todo = th[t].todo /\ th'[t].at = a
         /\ \A u \in Threads : u # t => th'[u] = th[u]
<1>1. th[t] \in ThreadRecord
  OBVIOUS
<1> DEFINE rec == [todo |-> th[t].todo, at |-> a]
<1>2. [th[t] EXCEPT !.at = a] = rec
  BY <1>1 DEF ThreadRecord
<1>3. rec \in ThreadRecord
  BY <1>1 DEF ThreadRecord
<1>4. th' = [th EXCEPT ![t] = rec]
  BY <1>2
<1>5. rec.todo = th[t].todo /\ rec.at = a
  OBVIOUS
<1> HIDE DEF rec
<1> QED
  BY <1>3, <1>4, <1>5

\* What TypeOK says of the threads.
LEMMA ThreadTypes ==
  ASSUME NEW f \in [Threads -> ThreadRecord], NEW t \in Threads
  PROVE  /\ f[t].todo \in Seq(Step)
         /\ f[t].at \in {"idle", "next", "first", "second", "vendor"}
         /\ \A i \in DOMAIN f[t].todo :
               f[t].todo[i] \in Reads \union Writes \union Vendor \union Boot
                                 \union Local
<1>1. f[t].todo \in Seq(Step)
      /\ f[t].at \in {"idle", "next", "first", "second", "vendor"}
  BY DEF ThreadRecord
<1>2. \A i \in DOMAIN f[t].todo : f[t].todo[i] \in Step
  BY <1>1, LenProperties, ElementOfSeq
<1> QED
  BY <1>1, <1>2 DEF Step

\* The thread at work, what it does, and where the other one is.
LEMMA AtWork ==
  ASSUME DibInv, NEW t \in Threads, th[t].todo # <<>>
  PROVE  /\ th[t].todo \in Seq(Step) /\ Head(th[t].todo) = th[t].todo[1]
         /\ Tail(th[t].todo) \in Seq(Step)
         /\ t = "poller" => /\ th[t].todo[1] = "readStatus"
                            /\ Tail(th[t].todo) \in Seq({"readStatus"})
                            /\ ~Has(th[t].todo, "release")
         /\ th[t].at # "idle"
         /\ th[t].todo[1] \notin Reads \union Writes \union Vendor =>
               th[t].at = "next" /\ ctrl # t
<1>1. th[t].todo \in Seq(Step) /\ th \in [Threads -> ThreadRecord]
      /\ th[t].at \in {"idle", "next", "first", "second", "vendor"}
  BY ThreadTypes DEF DibInv, Locked
<1>2. t = "poller" => th[t].todo \in Seq({"readStatus"})
  BY DEF DibInv, Purpose
<1>3. t = "poller" => /\ th[t].todo[1] = "readStatus"
                      /\ Tail(th[t].todo) \in Seq({"readStatus"})
  BY <1>2, Rest
<1>4. t = "poller" => ~Has(th[t].todo, "release")
  BY <1>2, ElementOfSeq DEF Has
<1> QED
  BY <1>1, <1>3, <1>4, Rest DEF DibInv, Locked

\* The lock, and the register pointer under it, when a thread goes on.
LEMMA LockedOnward ==
  ASSUME DibInv, NEW t \in Threads, NEW rest \in Seq(Step), Continue(t, rest),
         Leave(t) \/ (ctrl' = ctrl /\ ctrl # t),
         pointer' = pointer \/ ctrl = t
  PROVE  Locked' /\ ReadsItsRegister'
<1>1. /\ th \in [Threads -> ThreadRecord]
      /\ \A u \in Threads : /\ th[u].at = "idle" <=> th[u].todo = <<>>
                            /\ th[u].at \in {"first", "second", "vendor"} <=> ctrl = u
                            /\ th[u].at = "first"  => th[u].todo[1] \in Reads \union Writes
                            /\ th[u].at = "second" => th[u].todo[1] \in Reads
                            /\ th[u].at = "vendor" => th[u].todo[1] \in Vendor
  BY DEF DibInv, Locked
<1>2. /\ th' \in [Threads -> ThreadRecord]
      /\ th'[t].todo = rest
      /\ th'[t].at \in {"idle", "next"} /\ (th'[t].at = "idle" <=> rest = <<>>)
      /\ \A u \in Threads : u # t => th'[u] = th[u]
  BY <1>1, Continues
<1>3. ctrl' # t /\ \A u \in Threads : u # t => (ctrl' = u <=> ctrl = u)
  BY DibAssumption DEF Leave, Threads
<1>4. ASSUME NEW u \in Threads
      PROVE  /\ th'[u].at = "idle" <=> th'[u].todo = <<>>
             /\ th'[u].at \in {"first", "second", "vendor"} <=> ctrl' = u
             /\ th'[u].at = "first"  => th'[u].todo[1] \in Reads \union Writes
             /\ th'[u].at = "second" => th'[u].todo[1] \in Reads
             /\ th'[u].at = "vendor" => th'[u].todo[1] \in Vendor
  <2>1. CASE u = t
    BY <2>1, <1>2, <1>3
  <2>2. CASE u # t
    BY <2>2, <1>1, <1>2, <1>3
  <2> QED
    BY <2>1, <2>2
<1>5. ASSUME NEW u \in Threads, th'[u].at = "second"
      PROVE  pointer' = Reg(Head(th'[u].todo))
  <2>1. u # t /\ th'[u] = th[u]
    BY <1>2, <1>5
  <2>2. ctrl = u
    BY <1>1, <1>5, <2>1
  <2>3. pointer = Reg(Head(th[u].todo))
    BY <1>5, <2>1 DEF DibInv, ReadsItsRegister
  <2> QED
    BY <2>1, <2>2, <2>3
<1> QED
  BY <1>2, <1>4, <1>5 DEF Locked, ReadsItsRegister

\* The first step and the one after it.
LEMMA Neighbours ==
  ASSUME NEW s \in Seq(Step), s # <<>>, InOrder(s)
  PROVE  /\ Starts(Tail(s), "captureOn") => s[1] = "enable"
         /\ Starts(Tail(s), "captureOff") => s[1] = "disable"
         /\ s[1] = "enable" => Starts(Tail(s), "captureOn")
         /\ s[1] = "disable" => Starts(Tail(s), "captureOff")
         /\ s[1] \in {"publish", "switch", "captureOn", "release"} => Tail(s) = <<>>
<1> DEFINE r == Tail(s)
           n == Len(s)
<1>1. /\ n \in Nat \ {0} /\ Len(r) = n - 1 /\ r \in Seq(Step)
      /\ \A i \in 1..(n - 1) : r[i] = s[i + 1]
  BY Rest
<1>2. \A i \in 1..n :
         /\ s[i] \in {"publish", "switch", "captureOn", "release"} => i = n
         /\ s[i] = "enable" => i < n /\ s[i + 1] = "captureOn"
         /\ s[i] = "disable" => i < n /\ s[i + 1] = "captureOff"
         /\ s[i] = "captureOn" /\ i > 1 => s[i - 1] = "enable"
         /\ s[i] = "captureOff" /\ i > 1 => s[i - 1] = "disable"
  BY DEF InOrder
<1> HIDE DEF r, n
<1>3. r # <<>> <=> Len(r) # 0
  BY <1>1, EmptySeq
<1>4. r # <<>> <=> n > 1
  BY <1>1, <1>3
<1>5. n > 1 => r[1] = s[1 + 1] /\ 1 + 1 \in 1..n
  BY <1>1
<1>6. 1 \in 1..n
  BY <1>1
<1>7. s[1] \in {"publish", "switch", "captureOn", "release"} => n = 1
  BY <1>2, <1>6
<1>8. n > 1 => /\ r[1] = "captureOn" => s[1] = "enable"
               /\ r[1] = "captureOff" => s[1] = "disable"
  <2> SUFFICES ASSUME n > 1
               PROVE  /\ r[1] = "captureOn" => s[1] = "enable"
                      /\ r[1] = "captureOff" => s[1] = "disable"
    OBVIOUS
  <2>1. 2 \in 1..n /\ r[1] = s[2] /\ 2 > 1 /\ 2 - 1 = 1
    BY <1>1
  <2> QED
    BY <1>2, <2>1
<1>9. /\ s[1] = "enable" => n > 1 /\ s[1 + 1] = "captureOn"
      /\ s[1] = "disable" => n > 1 /\ s[1 + 1] = "captureOff"
  BY <1>1, <1>2, <1>6
<1>10. n = 1 => ~(n > 1)
  OBVIOUS
<1> QED
  BY <1>4, <1>5, <1>7, <1>8, <1>9, <1>10 DEF Starts, r

\* What is left after a step keeps what was planned.
LEMMA Onward ==
  ASSUME Plan, Todo \in Seq(Step), Todo # <<>>
  PROVE  /\ InOrder(Tail(Todo))
         /\ Todo[1] # "restart" /\ Restarts(Todo) => Restarts(Tail(Todo))
         /\ Todo[1] # "xferLen" /\ Tells(Todo) => Tells(Tail(Todo))
         /\ Todo[1] # "record" /\ ram \in Nat => Loads(Tail(Todo), running, ram)
         /\ Starts(Tail(Todo), "captureOn") => Todo[1] = "enable"
         /\ Starts(Tail(Todo), "captureOff") => Todo[1] = "disable"
         /\ Todo[1] = "enable" => Starts(Tail(Todo), "captureOn")
         /\ Todo[1] = "disable" => Starts(Tail(Todo), "captureOff")
         /\ Todo[1] \in {"publish", "switch", "captureOn", "release"} =>
               Tail(Todo) = <<>>
<1> DEFINE s == Todo
           r == Tail(s)
<1>1. s \in Seq(Step) /\ s # <<>> /\ InOrder(s) /\ Loads(s, running, ram)
  BY DEF Plan
<1> HIDE DEF s
<1>3. /\ InOrder(r)
      /\ s[1] # "restart" /\ Restarts(s) => Restarts(r)
      /\ s[1] # "xferLen" /\ Tells(s) => Tells(r)
  BY <1>1, OrderedOnward, RestartsOnward, TellsOnward
<1>4. s[1] # "record" /\ ram \in Nat => Loads(r, running, ram)
  <2> SUFFICES ASSUME s[1] # "record", ram \in Nat PROVE Loads(r, running, ram)
    OBVIOUS
  <2>1. TakenAfter(s, ram) = ram
    BY DEF TakenAfter
  <2> QED
    BY <1>1, <2>1, LoadsOnward
<1>5. /\ Starts(r, "captureOn") => s[1] = "enable"
      /\ Starts(r, "captureOff") => s[1] = "disable"
      /\ s[1] = "enable" => Starts(r, "captureOn")
      /\ s[1] = "disable" => Starts(r, "captureOff")
      /\ s[1] \in {"publish", "switch", "captureOn", "release"} => r = <<>>
  BY <1>1, Neighbours
<1> QED
  BY <1>3, <1>4, <1>5 DEF s

\* Most steps leave device and engine alone: the tuner stays where it is,
LEMMA PlanStays ==
  ASSUME Plan, Todo' = Todo,
         UNCHANGED <<running, reports, ram, mask, xferLen, urbs, published,
                     fwVersion, channels, captureOn, doubt>>
  PROVE  Plan'
BY DEF Plan, WholeFirmwareRuns, Streams, Fresh, Told

\* goes on with the rest of the call,
LEMMA RestOnward ==
  ASSUME Plan, Todo \in Seq(Step), Todo # <<>>,
         Todo[1] \notin {"restart", "enable", "disable", "captureOn", "captureOff"},
         Todo' = Tail(Todo),
         UNCHANGED <<mask, urbs, published, channels, captureOn, doubt>>
  PROVE  InOrder(Todo)' /\ Streams' /\ Fresh'
<1>1. /\ InOrder(Tail(Todo))
      /\ Restarts(Todo) => Restarts(Tail(Todo))
      /\ ~Starts(Tail(Todo), "captureOn") /\ ~Starts(Tail(Todo), "captureOff")
      /\ ~Starts(Todo, "captureOn") /\ ~Starts(Todo, "captureOff")
  BY Onward DEF Starts
<1>2. /\ Has(Todo, "captureOff") => Has(Tail(Todo), "captureOff")
      /\ Has(Tail(Todo), "release") => Has(Todo, "release")
  BY HasOnward
<1>3. InOrder(Todo)'
  BY <1>1
<1>4. Streams'
  BY <1>1, <1>2 DEF Plan, Streams
<1>5. Fresh'
  BY <1>1 DEF Plan, Fresh
<1> QED
  BY <1>3, <1>4, <1>5

LEMMA PlanOnward ==
  ASSUME Plan, Todo \in Seq(Step), Todo # <<>>, ram \in Nat,
         Todo[1] \notin {"record", "restart", "xferLen", "enable", "disable",
                         "captureOn", "captureOff"},
         Todo' = Tail(Todo),
         UNCHANGED <<running, reports, ram, mask, xferLen, urbs, published,
                     fwVersion, channels, captureOn, doubt>>
  PROVE  Plan'
<1>1. /\ Loads(Tail(Todo), running, ram)
      /\ Tells(Todo) => Tells(Tail(Todo))
  BY Onward
<1>2. InOrder(Todo)' /\ Streams' /\ Fresh'
  BY RestOnward
<1>3. Loads(Todo, running, ram)' /\ WholeFirmwareRuns'
  BY <1>1 DEF Plan, WholeFirmwareRuns
<1>4. Told'
  BY <1>1 DEF Plan, Told
<1> QED
  BY <1>2, <1>3, <1>4 DEF Plan

\* has a register to write,
LEMMA PlanRewrite ==
  ASSUME Plan, Todo \in Seq(Step), Todo # <<>>, Todo[1] = "updateCfg",
         Todo' = <<"writeCfg">> \o Tail(Todo),
         UNCHANGED <<running, reports, ram, mask, xferLen, urbs, published,
                     fwVersion, channels, captureOn, doubt>>
  PROVE  Plan'
<1> DEFINE r == <<"writeCfg">> \o Tail(Todo)
<1>1. "writeCfg" \in Step
  BY DEF Step, Writes
<1>2. Rewrites(r, Todo) /\ r # <<>>
  BY <1>1, Rewritten
<1>3. Todo' = r
  OBVIOUS
<1> HIDE DEF r
<1>4. /\ InOrder(r) /\ Loads(r, running, ram)
      /\ Restarts(Todo) => Restarts(r)
      /\ Tells(Todo) => Tells(r)
  BY <1>2, OrderedRewrite, LoadsRewrite, RestartsRewrite, TellsRewrite DEF Plan
<1>5. /\ ~Starts(r, "captureOn") /\ ~Starts(r, "captureOff")
      /\ ~Starts(Todo, "captureOn") /\ ~Starts(Todo, "captureOff")
  BY <1>2 DEF Starts, Rewrites
<1>6. /\ Has(r, "captureOff") <=> Has(Todo, "captureOff")
      /\ Has(r, "release") <=> Has(Todo, "release")
  BY <1>2, HasRewrite
<1>7. InOrder(Todo)' /\ Loads(Todo, running, ram)' /\ WholeFirmwareRuns'
  BY <1>3, <1>4 DEF Plan, WholeFirmwareRuns
<1>8. Streams'
  BY <1>3, <1>5, <1>6 DEF Plan, Streams
<1>9. Fresh' /\ Told'
  BY <1>3, <1>4 DEF Plan, Fresh, Told
<1> QED
  BY <1>7, <1>8, <1>9 DEF Plan

\* or gives the call up.
LEMMA RestEnds ==
  ASSUME Plan, published \in BOOLEAN, Todo # <<>>,
         Todo[1] \notin {"captureOn", "captureOff"}, Todo' = <<>>,
         UNCHANGED <<mask, urbs, published, channels, captureOn, doubt>>
  PROVE  InOrder(Todo)' /\ Loads(Todo, running, ram)' /\ Streams' /\ Fresh'
<1>1. /\ InOrder(<<>>) /\ Loads(<<>>, running', ram') /\ Restarts(<<>>)
      /\ \A step : ~Has(<<>>, step) /\ ~Starts(<<>>, step)
  BY NothingToDo
<1>2. InOrder(Todo)' /\ Loads(Todo, running, ram)'
  BY <1>1
<1>3. ~Starts(Todo, "captureOn") /\ ~Starts(Todo, "captureOff")
  BY DEF Starts
<1>4. ~Starts(Todo, "captureOn")' /\ ~Starts(Todo, "captureOff")' /\ ~Has(Todo, "release")'
  BY <1>1
<1>5. Streams'
  BY <1>3, <1>4 DEF Plan, Streams
<1>6. Fresh'
  BY <1>1 DEF Plan, Fresh
<1> QED
  BY <1>2, <1>5, <1>6

LEMMA PlanEnds ==
  ASSUME Plan, published \in BOOLEAN, Todo # <<>>,
         Todo[1] \notin {"captureOn", "captureOff"}, Todo' = <<>>,
         UNCHANGED <<running, mask, xferLen, urbs, published, fwVersion,
                     channels, captureOn, doubt>>
  PROVE  Plan'
<1>1. Tells(<<>>)
  BY NothingToDo
<1>2. InOrder(Todo)' /\ Loads(Todo, running, ram)' /\ Streams' /\ Fresh'
  BY RestEnds
<1>3. WholeFirmwareRuns' /\ Told'
  BY <1>1 DEF Plan, WholeFirmwareRuns, Told
<1> QED
  BY <1>2, <1>3 DEF Plan

-----------------------------------------------------------------------------
(***************************************************************************)
(* The calls.                                                              *)
(***************************************************************************)
\* What is left of a call fits the device and is in order, whatever the boot
\* loader has taken.
Planned(s, open, runs) ==
    /\ s \in Seq(Step) /\ s # <<>> /\ Fits(s, open) /\ InOrder(s)
    /\ \A taken : Loads(s, runs, taken)
    /\ Restarts(s) /\ Tells(s)

LEMMA Joined ==
  ASSUME NEW S, NEW a \in Seq(S), NEW b \in Seq(S)
  PROVE  /\ a \o b \in Seq(S) /\ Len(a \o b) = Len(a) + Len(b)
         /\ Len(a) \in Nat /\ Len(b) \in Nat
         /\ \A i \in 1..Len(a) : (a \o b)[i] = a[i]
         /\ \A i \in 1..Len(b) : (a \o b)[Len(a) + i] = b[i]
<1>1. /\ a \o b \in Seq(S) /\ Len(a \o b) = Len(a) + Len(b)
      /\ \A i \in 1..(Len(a) + Len(b)) :
            (a \o b)[i] = IF i <= Len(a) THEN a[i] ELSE b[i - Len(a)]
  BY ConcatProperties
<1>2. Len(a) \in Nat /\ Len(b) \in Nat
  BY LenProperties
<1> DEFINE m == Len(a)
           n == Len(b)
           c == a \o b
<1>3. /\ m \in Nat /\ n \in Nat
      /\ \A i \in 1..(m + n) : c[i] = IF i <= m THEN a[i] ELSE b[i - m]
  BY <1>1, <1>2
<1> HIDE DEF m, n, c
<1>4. \A i \in 1..m : c[i] = a[i]
  BY <1>3
<1>5. ASSUME NEW i \in 1..n PROVE c[m + i] = b[i]
  <2>1. m + i \in 1..(m + n) /\ ~(m + i <= m) /\ (m + i) - m = i
    BY <1>3
  <2> QED
    BY <1>3, <2>1
<1> QED
  BY <1>1, <1>2, <1>4, <1>5 DEF m, n, c

\* The steps of a bring-up before it publishes the device.
Probing == {"version", "gpio", "pipe", "readId", "updateCfg", "stream"}

LEMMA BringUpSteps ==
  \E front \in Seq(Probing) : BringUp = front \o <<"publish">>
<1> DEFINE a == <<"version">>
           b == <<"gpio", "gpio", "gpio", "gpio", "gpio">>
           c == <<"pipe">>
           d == <<"readId">>
           e == <<"updateCfg", "updateCfg">>
           f == <<"stream">>
<1>1. /\ a \in Seq(Probing) /\ b \in Seq(Probing) /\ c \in Seq(Probing)
      /\ d \in Seq(Probing) /\ e \in Seq(Probing) /\ f \in Seq(Probing)
  BY DEF Probing
<1>2. BringUp = a \o b \o (c \o (d \o d) \o e \o f) \o <<"publish">>
  BY DEF BringUp, XboxOneBringup, FrontendOpen, Attach, NewClient, InitChips
<1> HIDE DEF a, b, c, d, e, f
<1>3. a \o b \in Seq(Probing) /\ d \o d \in Seq(Probing)
  BY <1>1, ConcatProperties
<1>4. c \o (d \o d) \in Seq(Probing)
  BY <1>1, <1>3, ConcatProperties
<1>5. c \o (d \o d) \o e \in Seq(Probing)
  BY <1>1, <1>4, ConcatProperties
<1>6. c \o (d \o d) \o e \o f \in Seq(Probing)
  BY <1>1, <1>5, ConcatProperties
<1>7. a \o b \o (c \o (d \o d) \o e \o f) \in Seq(Probing)
  BY <1>3, <1>6, ConcatProperties
<1> QED
  BY <1>2, <1>7

\* A bring-up publishes the device at its end and downloads nothing.
LEMMA BringUpShape ==
  /\ BringUp \in Seq(OpenSteps) /\ Len(BringUp) \in Nat \ {0}
  /\ BringUp[Len(BringUp)] = "publish"
  /\ \A i \in 1..(Len(BringUp) - 1) : BringUp[i] \in Probing
<1>1. PICK front \in Seq(Probing) : BringUp = front \o <<"publish">>
  BY BringUpSteps
<1> DEFINE p == <<"publish">>
           s == front \o p
<1>2. Probing \subseteq OpenSteps /\ "publish" \in OpenSteps
  BY DEF Probing, OpenSteps
<1>3. front \in Seq(OpenSteps)
  BY <1>1, <1>2, SeqMonotonic
<1>4. p \in Seq(OpenSteps) /\ Len(p) = 1 /\ p[1] = "publish"
  BY <1>2
<1> HIDE DEF p
<1>5. /\ s \in Seq(OpenSteps) /\ Len(s) = Len(front) + Len(p) /\ Len(front) \in Nat
      /\ \A i \in 1..Len(front) : s[i] = front[i]
      /\ \A i \in 1..Len(p) : s[Len(front) + i] = p[i]
  <2>1. front \in Seq(OpenSteps) /\ p \in Seq(OpenSteps)
    BY <1>3, <1>4
  <2> QED
    BY ONLY <2>1, Joined
<1>6. \A i \in 1..Len(front) : front[i] \in Probing
  BY <1>1, ElementOfSeq
<1> DEFINE n == Len(front)
           m == Len(s)
<1>7. n \in Nat /\ m = n + 1 /\ m - 1 = n
  BY <1>4, <1>5
<1>8. s[m] = "publish"
  BY <1>4, <1>5, <1>7
<1>9. \A i \in 1..(m - 1) : s[i] \in Probing
  BY <1>5, <1>6, <1>7
<1>10. m \in Nat \ {0}
  BY <1>7
<1> HIDE DEF s
<1>11. BringUp = s
  BY <1>1 DEF s, p
<1> QED
  BY <1>5, <1>8, <1>9, <1>10, <1>11

LEMMA BringUpPlanned ==
  ASSUME NEW runs
  PROVE  Planned(BringUp, FALSE, runs)
<1> DEFINE s == BringUp
           n == Len(s)
<1>1. /\ s \in Seq(OpenSteps) /\ n \in Nat \ {0} /\ s[n] = "publish"
      /\ \A i \in 1..(n - 1) : s[i] \in Probing
  BY BringUpShape
<1> HIDE DEF s, n
<1>2. ASSUME NEW i \in 1..n
      PROVE  /\ i = n => s[i] = "publish"
             /\ i # n => s[i] \in Probing
  BY <1>1
<1>3. ASSUME NEW i \in 1..n
      PROVE  s[i] \notin {"switch", "captureOn", "release", "enable", "disable",
                          "captureOff", "jump", "record"}
  BY <1>2 DEF Probing
<1>4. ASSUME NEW i \in 1..n PROVE s[i] = "publish" => i = n
  BY <1>2 DEF Probing
<1>5. InOrder(s)
  BY <1>3, <1>4 DEF InOrder, n
<1>6. /\ \A taken : Loads(s, runs, taken)
      /\ Restarts(s) /\ Tells(s)
  BY <1>3 DEF Loads, Restarts, Tells, n
<1>7. s \in Seq(Step) /\ s # <<>>
  BY <1>1, StepsAreSteps, EmptySeq DEF n
<1>8. Fits(s, FALSE)
  BY <1>1 DEF Fits
<1> QED
  BY <1>5, <1>6, <1>7, <1>8 DEF Planned, s

\* The firmware, all of it, and the jump.
LEMMA DownloadShape ==
  /\ Download \in Seq(OpenSteps) /\ Len(Download) = NumRecords + 2
  /\ Download[1] = "file" /\ Download[NumRecords + 2] = "jump"
  /\ \A i \in 2..(NumRecords + 1) : Download[i] = "record"
<1> DEFINE f == <<"file">>
           r == [i \in 1..NumRecords |-> "record"]
           j == <<"jump">>
<1>1. "file" \in OpenSteps /\ "record" \in OpenSteps /\ "jump" \in OpenSteps
  BY DEF OpenSteps
<1>2. NumRecords \in Nat \ {0}
  BY DibAssumption
<1>3. r \in Seq(OpenSteps) /\ Len(r) = NumRecords
      /\ \A i \in 1..NumRecords : r[i] = "record"
  BY <1>1, <1>2
<1>4. /\ f \in Seq(OpenSteps) /\ Len(f) = 1 /\ f[1] = "file"
      /\ j \in Seq(OpenSteps) /\ Len(j) = 1 /\ j[1] = "jump"
  BY <1>1
<1>5. Download = (f \o r) \o j
  BY DEF Download
<1> HIDE DEF f, r, j
<1>6. /\ f \o r \in Seq(OpenSteps) /\ Len(f \o r) = Len(f) + Len(r)
      /\ \A i \in 1..Len(f) : (f \o r)[i] = f[i]
      /\ \A i \in 1..Len(r) : (f \o r)[Len(f) + i] = r[i]
  <2>1. f \in Seq(OpenSteps) /\ r \in Seq(OpenSteps)
    BY <1>3, <1>4
  <2> QED
    BY ONLY <2>1, Joined
<1> DEFINE a == f \o r
<1>7. a \in Seq(OpenSteps) /\ Len(a) = NumRecords + 1 /\ a[1] = "file"
  BY <1>2, <1>3, <1>4, <1>6
<1>8. ASSUME NEW i \in 2..(NumRecords + 1) PROVE a[i] = "record"
  <2>1. i - 1 \in 1..NumRecords /\ 1 + (i - 1) = i
    BY <1>2
  <2> QED
    BY <1>3, <1>4, <1>6, <2>1
<1> HIDE DEF a
<1>9. /\ a \o j \in Seq(OpenSteps) /\ Len(a \o j) = Len(a) + Len(j)
      /\ \A i \in 1..Len(a) : (a \o j)[i] = a[i]
      /\ \A i \in 1..Len(j) : (a \o j)[Len(a) + i] = j[i]
  <2>1. a \in Seq(OpenSteps) /\ j \in Seq(OpenSteps)
    BY <1>4, <1>7
  <2> QED
    BY ONLY <2>1, Joined
<1>10. Len(a \o j) = NumRecords + 2
  BY <1>2, <1>4, <1>7, <1>9
<1>11. (a \o j)[1] = "file"
  BY <1>2, <1>7, <1>9
<1>12. (a \o j)[NumRecords + 2] = "jump"
  <2>1. (a \o j)[(NumRecords + 1) + 1] = "jump"
    BY <1>4, <1>7, <1>9
  <2>2. (NumRecords + 1) + 1 = NumRecords + 2
    BY <1>2
  <2> QED
    BY ONLY <2>1, <2>2
<1>13. \A i \in 2..(NumRecords + 1) : (a \o j)[i] = "record"
  BY <1>2, <1>7, <1>8, <1>9
<1>14. Download = a \o j
  BY <1>5 DEF a
<1> QED
  BY <1>9, <1>10, <1>11, <1>12, <1>13, <1>14

\* A cold boot is the download and then the bring-up of a warm device.
LEMMA ColdBootPlanned ==
  ASSUME NEW runs
  PROVE  Planned(Download \o BringUp, FALSE, runs)
<1> DEFINE a == Download
           b == BringUp
           s == a \o b
           k == NumRecords + 2
           m == Len(b)
           n == Len(s)
<1>1. /\ a \in Seq(OpenSteps) /\ Len(a) = k /\ a[1] = "file" /\ a[k] = "jump"
      /\ \A i \in 2..(NumRecords + 1) : a[i] = "record"
  BY DownloadShape
<1>2. /\ b \in Seq(OpenSteps) /\ m \in Nat \ {0} /\ b[m] = "publish"
      /\ \A i \in 1..(m - 1) : b[i] \in Probing
  BY BringUpShape
<1> HIDE DEF a, b
<1>3. /\ s \in Seq(OpenSteps) /\ n = Len(a) + Len(b)
      /\ \A i \in 1..Len(a) : s[i] = a[i]
      /\ \A i \in 1..Len(b) : s[Len(a) + i] = b[i]
  <2>1. a \in Seq(OpenSteps) /\ b \in Seq(OpenSteps)
    BY <1>1, <1>2
  <2> QED
    BY ONLY <2>1, Joined
<1>4. NumRecords \in Nat \ {0}
  BY DibAssumption
<1>5. n = k + m /\ (\A i \in 1..k : s[i] = a[i]) /\ (\A i \in 1..m : s[k + i] = b[i])
  BY <1>1, <1>3
<1>6. k \in Nat \ {0} /\ k = NumRecords + 2
  BY <1>4
<1> HIDE DEF s, n, m
<1>7. /\ s[1] = "file" /\ s[k] = "jump"
      /\ \A i \in 2..(NumRecords + 1) : s[i] = "record"
  BY <1>1, <1>4, <1>5
<1>8. ASSUME NEW i \in 1..n, i > k
      PROVE  /\ i = n => s[i] = "publish"
             /\ i # n => s[i] \in Probing
  <2>1. i - k \in 1..m /\ k + (i - k) = i
    BY <1>2, <1>5, <1>6, <1>8
  <2>2. s[i] = b[i - k]
    BY <1>5, <2>1
  <2>3. i = n => i - k = m
    BY <1>2, <1>5, <1>6
  <2>4. i # n => i - k \in 1..(m - 1)
    BY <1>2, <1>5, <1>6, <2>1
  <2> QED
    BY <1>2, <2>2, <2>3, <2>4
<1>9. ASSUME NEW i \in 1..n
      PROVE  \/ i = 1 /\ s[i] = "file"
             \/ i \in 2..(NumRecords + 1) /\ s[i] = "record"
             \/ i = k /\ s[i] = "jump"
             \/ i > k /\ i # n /\ s[i] \in Probing
             \/ i > k /\ i = n /\ s[i] = "publish"
  <2>1. CASE i > k
    BY <1>8, <2>1
  <2>2. CASE i <= k
    BY <1>4, <1>6, <1>7, <2>2
  <2> QED
    BY <1>6, <2>1, <2>2
<1>10. ASSUME NEW i \in 1..n
       PROVE  s[i] \notin {"switch", "captureOn", "release", "enable", "disable",
                           "captureOff"}
  BY <1>9 DEF Probing
<1>11. ASSUME NEW i \in 1..n PROVE s[i] = "publish" => i = n
  BY <1>9 DEF Probing
<1>12. InOrder(s)
  BY <1>10, <1>11 DEF InOrder, n
<1>13. Restarts(s) /\ Tells(s)
  BY <1>10 DEF Restarts, Tells, n
<1>14. ASSUME NEW i \in 1..n
       PROVE  /\ s[i] = "jump" => i = k
              /\ s[i] = "record" => i \in 2..(NumRecords + 1)
  BY <1>9 DEF Probing
<1>15. ASSUME NEW taken PROVE Loads(s, runs, taken)
  <2>1. \A j \in 1..(k - 1) : s[j] = "record" \/ (j = 1 /\ s[j] = "file")
    BY <1>4, <1>6, <1>7
  <2>2. ASSUME NEW i \in 1..n, s[i] = "record"
        PROVE  \E j \in 1..n : j > i /\ s[j] = "jump"
    <3>1. i \in 2..(NumRecords + 1)
      BY <1>14, <2>2
    <3>2. k \in 1..n /\ k > i
      BY <1>2, <1>4, <1>5, <1>6, <3>1
    <3> QED
      BY <1>7, <3>2
  <2>3. ASSUME NEW i \in 1..n, s[i] = "jump"
        PROVE  /\ \A j \in 1..(i - 1) : s[j] = "record" \/ (j = 1 /\ s[j] = "file")
               /\ i = NumRecords + 2
    BY <1>14, <1>6, <2>1, <2>3
  <2> QED
    BY <1>7, <2>2, <2>3 DEF Loads, n
<1>16. s \in Seq(Step) /\ s # <<>>
  <2>1. n # 0
    BY <1>2, <1>5, <1>6
  <2> QED
    BY <1>3, <2>1, StepsAreSteps, EmptySeq DEF n
<1>17. Fits(s, FALSE)
  BY <1>3 DEF Fits
<1> QED
  BY <1>12, <1>13, <1>15, <1>16, <1>17 DEF Planned, s, a, b

LEMMA OpenPlanned ==
  ASSUME NEW runs
  PROVE  Planned(<<"isCold">>, FALSE, runs)
<1> DEFINE s == <<"isCold">>
<1>1. s \in Seq(OpenSteps) /\ Len(s) = 1 /\ s[1] = "isCold" /\ s # <<>>
  BY DEF OpenSteps
<1> HIDE DEF s
<1>2. \A i \in 1..Len(s) : s[i] = "isCold"
  BY <1>1
<1> QED
  BY <1>1, <1>2, StepsAreSteps
     DEF Planned, Fits, InOrder, Loads, Restarts, Tells, s

LEMMA TunePlanned ==
  ASSUME NEW runs
  PROVE  Planned(Tuning, TRUE, runs)
<1> DEFINE s == Tuning
<1>1. /\ s \in Seq(TuneSteps) /\ Len(s) = 3 /\ s # <<>>
      /\ s[1] = "updateCfg" /\ s[2] = "restart" /\ s[3] = "switch"
  BY DEF TuneSteps, Tuning
<1> HIDE DEF s
<1>2. \A i \in 1..Len(s) : \/ i = 1 /\ s[i] = "updateCfg"
                           \/ i = 2 /\ s[i] = "restart"
                           \/ i = 3 /\ s[i] = "switch"
  BY <1>1
<1>3. InOrder(s)
  BY <1>1, <1>2 DEF InOrder
<1>4. Restarts(s)
  <2>1. 2 \in 1..(3 - 1)
    OBVIOUS
  <2> QED
    BY <1>1, <1>2, <2>1 DEF Restarts
<1>5. Tells(s) /\ \A taken : Loads(s, runs, taken)
  BY <1>2 DEF Tells, Loads
<1> QED
  BY <1>1, <1>3, <1>4, <1>5, StepsAreSteps DEF Planned, Fits, s

LEMMA StopPlanned ==
  ASSUME NEW runs
  PROVE  /\ Planned(Stopping, TRUE, runs) /\ Stopping \in Seq(StopSteps)
         /\ ~Has(Stopping, "release") /\ Stopping[1] = "disable"
<1> DEFINE s == Stopping
<1>1. /\ s \in Seq(StopSteps) /\ Len(s) = 2 /\ s # <<>>
      /\ s[1] = "disable" /\ s[2] = "captureOff"
  BY DEF StopSteps, Stopping
<1> HIDE DEF s
<1>2. \A i \in 1..Len(s) : \/ i = 1 /\ s[i] = "disable"
                           \/ i = 2 /\ s[i] = "captureOff"
  BY <1>1
<1>3. InOrder(s)
  BY <1>1, <1>2 DEF InOrder
<1>4. Restarts(s) /\ Tells(s) /\ (\A taken : Loads(s, runs, taken)) /\ ~Has(s, "release")
  BY <1>2 DEF Restarts, Tells, Loads, Has
<1> QED
  BY <1>1, <1>3, <1>4, StepsAreSteps DEF Planned, Fits, s

\* A frontend that captures is stopped before its stream is closed.
LEMMA ClosePlanned ==
  ASSUME NEW runs
  PROVE  /\ Planned(Closing, TRUE, runs) /\ Closing \in Seq(StopSteps)
         /\ captureOn => Has(Closing, "captureOff")
         /\ Closing[1] \notin {"captureOn", "captureOff"}
<1>1. CASE captureOn
  <2> DEFINE s == Closing
  <2> DEFINE a == <<"disable", "captureOff">>
             b == <<"closeStream", "updateCfg", "updateCfg", "release">>
  <2>1. s = a \o b
    BY <1>1 DEF Closing, Stopping
  <2>2. /\ a \in Seq(StopSteps) /\ Len(a) = 2 /\ a[1] = "disable" /\ a[2] = "captureOff"
        /\ b \in Seq(StopSteps) /\ Len(b) = 4 /\ b[1] = "closeStream"
        /\ b[2] = "updateCfg" /\ b[3] = "updateCfg" /\ b[4] = "release"
    BY DEF StopSteps
  <2>3. /\ s \in Seq(StopSteps) /\ Len(s) = 6 /\ s # <<>>
        /\ s[1] = "disable" /\ s[2] = "captureOff" /\ s[3] = "closeStream"
        /\ s[4] = "updateCfg" /\ s[5] = "updateCfg" /\ s[6] = "release"
    <3> HIDE DEF a, b
    <3>1. /\ a \o b \in Seq(StopSteps) /\ Len(a \o b) = Len(a) + Len(b)
          /\ \A i \in 1..Len(a) : (a \o b)[i] = a[i]
          /\ \A i \in 1..Len(b) : (a \o b)[Len(a) + i] = b[i]
      <4>1. a \in Seq(StopSteps) /\ b \in Seq(StopSteps)
        BY <2>2
      <4> QED
        BY ONLY <4>1, Joined
    <3>2. (a \o b)[1] = "disable" /\ (a \o b)[2] = "captureOff"
      BY <2>2, <3>1
    <3>3. /\ (a \o b)[2 + 1] = "closeStream" /\ (a \o b)[2 + 2] = "updateCfg"
          /\ (a \o b)[2 + 3] = "updateCfg" /\ (a \o b)[2 + 4] = "release"
      BY <2>2, <3>1
    <3>4. Len(a \o b) = 6
      BY <2>2, <3>1
    <3>5. a \o b # <<>>
      BY <3>4, EmptySeq
    <3> HIDE DEF s
    <3> QED
      BY <2>1, <3>1, <3>2, <3>3, <3>4, <3>5
  <2> HIDE DEF s
  <2>4. \A i \in 1..Len(s) : \/ i = 1 /\ s[i] = "disable"
                             \/ i = 2 /\ s[i] = "captureOff"
                             \/ i = 3 /\ s[i] = "closeStream"
                             \/ i \in 4..5 /\ s[i] = "updateCfg"
                             \/ i = 6 /\ s[i] = "release"
    BY <2>3
  <2>5. InOrder(s)
    BY <2>3, <2>4 DEF InOrder
  <2>6. Restarts(s) /\ Tells(s) /\ (\A taken : Loads(s, runs, taken))
    BY <2>4 DEF Restarts, Tells, Loads
  <2>7. Has(s, "captureOff")
    BY <2>3 DEF Has
  <2> QED
    BY <2>3, <2>5, <2>6, <2>7, StepsAreSteps DEF Planned, Fits, s
<1>2. CASE ~captureOn
  <2> DEFINE s == Closing
  <2>1. s = <<>> \o <<"closeStream", "updateCfg", "updateCfg", "release">>
    BY <1>2 DEF Closing
  <2>2. s = <<"closeStream", "updateCfg", "updateCfg", "release">>
    BY <2>1
  <2>3. /\ s \in Seq(StopSteps) /\ Len(s) = 4 /\ s # <<>>
        /\ s[1] = "closeStream" /\ s[2] = "updateCfg" /\ s[3] = "updateCfg"
        /\ s[4] = "release"
    BY <2>2 DEF StopSteps
  <2> HIDE DEF s
  <2>4. \A i \in 1..Len(s) : \/ i = 1 /\ s[i] = "closeStream"
                             \/ i \in 2..3 /\ s[i] = "updateCfg"
                             \/ i = 4 /\ s[i] = "release"
    BY <2>3
  <2>5. InOrder(s)
    BY <2>3, <2>4 DEF InOrder
  <2>6. Restarts(s) /\ Tells(s) /\ (\A taken : Loads(s, runs, taken))
    BY <2>4 DEF Restarts, Tells, Loads
  <2> QED
    BY <1>2, <2>3, <2>5, <2>6, StepsAreSteps DEF Planned, Fits, s
<1> QED
  BY <1>1, <1>2

\* The switch sends the length first where the firmware is known to take it.
LEMMA SwitchShape ==
  /\ captureOn => Switch = <<>>
  /\ ~captureOn => /\ Switch \in Seq(TuneSteps) /\ Switch # <<>> /\ InOrder(Switch)
                   /\ Switch[1] \notin {"captureOn", "captureOff"}
                   /\ ~Has(Switch, "release")
                   /\ \A runs, taken : Loads(Switch, runs, taken)
                   /\ fwVersion = "new" => Tells(Switch)
<1>1. CASE captureOn
  BY <1>1 DEF Switch
<1>2. CASE ~captureOn /\ fwVersion = "new"
  <2> DEFINE s == Switch
  <2> DEFINE a == <<"xferLen">>
             b == <<"enable", "captureOn">>
  <2>1. s = a \o b
    BY <1>2 DEF Switch
  <2>2. /\ a \in Seq(TuneSteps) /\ Len(a) = 1 /\ a[1] = "xferLen"
        /\ b \in Seq(TuneSteps) /\ Len(b) = 2 /\ b[1] = "enable" /\ b[2] = "captureOn"
    BY DEF TuneSteps
  <2>3. /\ s \in Seq(TuneSteps) /\ Len(s) = 3 /\ s # <<>>
        /\ s[1] = "xferLen" /\ s[2] = "enable" /\ s[3] = "captureOn"
    <3> HIDE DEF a, b
    <3>1. /\ a \o b \in Seq(TuneSteps) /\ Len(a \o b) = Len(a) + Len(b)
          /\ \A i \in 1..Len(a) : (a \o b)[i] = a[i]
          /\ \A i \in 1..Len(b) : (a \o b)[Len(a) + i] = b[i]
      <4>1. a \in Seq(TuneSteps) /\ b \in Seq(TuneSteps)
        BY <2>2
      <4> QED
        BY ONLY <4>1, Joined
    <3>2. (a \o b)[1] = "xferLen"
      BY <2>2, <3>1
    <3>3. (a \o b)[1 + 1] = "enable" /\ (a \o b)[1 + 2] = "captureOn"
      BY <2>2, <3>1
    <3>4. Len(a \o b) = 3
      BY <2>2, <3>1
    <3>5. a \o b # <<>>
      BY <3>4, EmptySeq
    <3> HIDE DEF s
    <3> QED
      BY <2>1, <3>1, <3>2, <3>3, <3>4, <3>5
  <2> HIDE DEF s
  <2>4. \A i \in 1..Len(s) : \/ i = 1 /\ s[i] = "xferLen"
                             \/ i = 2 /\ s[i] = "enable"
                             \/ i = 3 /\ s[i] = "captureOn"
    BY <2>3
  <2>5. InOrder(s)
    BY <2>3, <2>4 DEF InOrder
  <2>6. Tells(s) /\ (\A runs, taken : Loads(s, runs, taken)) /\ ~Has(s, "release")
    BY <2>3, <2>4 DEF Tells, Loads, Has
  <2> QED
    BY <1>2, <2>3, <2>5, <2>6 DEF s
<1>3. CASE ~captureOn /\ fwVersion # "new"
  <2> DEFINE s == Switch
  <2>1. s = <<>> \o <<"enable", "captureOn">>
    BY <1>3 DEF Switch
  <2>2. s = <<"enable", "captureOn">>
    BY <2>1
  <2>3. /\ s \in Seq(TuneSteps) /\ Len(s) = 2 /\ s # <<>>
        /\ s[1] = "enable" /\ s[2] = "captureOn"
    BY <2>2 DEF TuneSteps
  <2> HIDE DEF s
  <2>4. \A i \in 1..Len(s) : \/ i = 1 /\ s[i] = "enable"
                             \/ i = 2 /\ s[i] = "captureOn"
    BY <2>3
  <2>5. InOrder(s)
    BY <2>3, <2>4 DEF InOrder
  <2>6. (\A runs, taken : Loads(s, runs, taken)) /\ ~Has(s, "release")
    BY <2>4 DEF Loads, Has
  <2> QED
    BY <1>3, <2>3, <2>5, <2>6 DEF s
<1> QED
  BY <1>1, <1>2, <1>3

-----------------------------------------------------------------------------
(***************************************************************************)
(* What every step has to show.                                            *)
(***************************************************************************)
LEMMA TypesAfter ==
  ASSUME Locked',
         running' \in 0..NumRecords \union {None}, ram' \in 0..NumRecords,
         pointer' \in {"id", "cfg", "status"}, mask' \in SUBSET {0},
         xferLen' \in BOOLEAN, urbs' \in {"none", "fresh", "old"},
         reports' \in {None, "old", "new"}, fwVersion' \in {None, "old", "new"},
         published' \in BOOLEAN, captureOn' \in BOOLEAN,
         channels' \in SUBSET {0}, ctrl' \in Threads \union {None},
         doubt' \subseteq {"stream", "urbs"}, faults' \in 0..MaxFaults
  PROVE  TypeOK'
<1>1. ASSUME NEW t \in Threads
      PROVE  /\ th'[t].at \in {"idle", "next", "first", "second", "vendor"}
             /\ \A i \in DOMAIN th'[t].todo :
                   th'[t].todo[i] \in Reads \union Writes \union Vendor \union Boot
                                     \union Local
             /\ th'[t].at = "idle" <=> th'[t].todo = <<>>
  BY ThreadTypes DEF Locked
<1> QED
  BY <1>1 DEF TypeOK

\* The scalars of TypeOK.
LEMMA Types ==
  ASSUME DibInv
  PROVE  /\ running \in 0..NumRecords \union {None} /\ ram \in 0..NumRecords
         /\ ram \in Nat
         /\ pointer \in {"id", "cfg", "status"} /\ mask \in SUBSET {0}
         /\ xferLen \in BOOLEAN /\ urbs \in {"none", "fresh", "old"}
         /\ reports \in {None, "old", "new"} /\ fwVersion \in {None, "old", "new"}
         /\ published \in BOOLEAN /\ captureOn \in BOOLEAN
         /\ channels \in SUBSET {0} /\ ctrl \in Threads \union {None}
         /\ doubt \subseteq {"stream", "urbs"} /\ faults \in 0..MaxFaults
         /\ Plan
<1>1. ram \in 0..NumRecords
  BY DEF DibInv, TypeOK
<1>2. ram \in Nat
  BY <1>1, DibAssumption
<1> QED
  BY <1>1, <1>2 DEF DibInv, TypeOK

LEMMA FaultsCount ==
  ASSUME faults \in 0..MaxFaults, NEW out, Costs(out)
  PROVE  faults' \in 0..MaxFaults
BY DibAssumption DEF Costs

LEMMA CtrlLeft ==
  ASSUME ctrl \in Threads \union {None}, NEW t \in Threads, Leave(t) \/ ctrl' = ctrl
  PROVE  ctrl' \in Threads \union {None}
BY DEF Leave

\* A step of the tuner.
LEMMA TunerGoes ==
  ASSUME DibInv, NEW rest \in Seq(Step), Continue("tuner", rest),
         Leave("tuner") \/ (ctrl' = ctrl /\ ctrl # "tuner"),
         pointer' = pointer, Fits(rest, published')
  PROVE  Locked' /\ ReadsItsRegister' /\ Purpose' /\ Todo' = rest
<1>1. "tuner" \in Threads /\ "poller" \in Threads
  BY DEF Threads
<1>2. Locked' /\ ReadsItsRegister'
  BY <1>1, LockedOnward
<1>3. th'["tuner"].todo = rest /\ th'["poller"] = th["poller"]
  BY <1>1, Continues DEF DibInv, Locked
<1> QED
  BY <1>2, <1>3 DEF DibInv, Purpose, Todo

\* A step of either thread that leaves all but the register pointer alone.
LEMMA Quiet ==
  ASSUME DibInv, NEW t \in Threads, th[t].todo # <<>>,
         NEW rest, Continue(t, rest),
         rest \in {<<>>, Tail(th[t].todo)} \/
            (t = "tuner" /\ th[t].todo[1] = "updateCfg" /\
                rest = <<"writeCfg">> \o Tail(th[t].todo)),
         Leave(t) \/ (ctrl' = ctrl /\ ctrl # t),
         pointer' = pointer \/ (ctrl = t /\ pointer' \in {"id", "cfg", "status"}),
         th[t].todo[1] \notin {"record", "restart", "xferLen", "enable", "disable",
                               "captureOn", "captureOff"},
         faults' \in 0..MaxFaults,
         UNCHANGED <<running, reports, ram, mask, xferLen, urbs, published,
                     fwVersion, channels, captureOn, doubt>>
  PROVE  DibInv'
<1>1. /\ th[t].todo \in Seq(Step) /\ Tail(th[t].todo) \in Seq(Step)
      /\ t = "poller" => Tail(th[t].todo) \in Seq({"readStatus"})
  BY AtWork
<1>2. /\ ram \in Nat /\ published \in BOOLEAN /\ Plan
  BY Types
<1>3. "writeCfg" \in Step
  BY DEF Step, Writes
<1>4. rest \in Seq(Step)
  BY <1>1, <1>3, Rewritten, NothingToDo
<1>5. Locked' /\ ReadsItsRegister'
  BY <1>4, LockedOnward
<1>6. TypeOK'
  <2>1. pointer' \in {"id", "cfg", "status"}
    BY Types
  <2>2. ctrl' \in Threads \union {None}
    BY Types, CtrlLeft
  <2> QED
    BY <1>5, <2>1, <2>2, Types, TypesAfter
<1>7. th'[t].todo = rest /\ \A u \in Threads : u # t => th'[u] = th[u]
  BY <1>4, Continues DEF DibInv, Locked
<1>8. CASE t = "poller"
  <2>1. Todo' = Todo
    BY <1>7, <1>8 DEF Todo, Threads
  <2>2. th'["poller"].todo \in Seq({"readStatus"})
    BY <1>1, <1>7, <1>8, NothingToDo
  <2>3. Purpose'
    BY <2>1, <2>2 DEF DibInv, Purpose
  <2>4. Plan'
    BY <1>2, <2>1, PlanStays
  <2> QED
    BY <1>5, <1>6, <2>3, <2>4 DEF DibInv
<1>9. CASE t = "tuner"
  <2>1. Todo = th[t].todo /\ Todo' = rest /\ th'["poller"] = th["poller"]
    BY <1>7, <1>9 DEF Todo, Threads
  <2>2. Fits(Todo, published) /\ th["poller"].todo \in Seq({"readStatus"})
    BY DEF DibInv, Purpose
  <2>3. /\ Todo \in Seq(Step) /\ Todo # <<>>
        /\ Todo[1] \notin {"record", "restart", "xferLen", "enable", "disable",
                           "captureOn", "captureOff"}
        /\ \/ rest = <<>> \/ rest = Tail(Todo)
           \/ Todo[1] = "updateCfg" /\ rest = <<"writeCfg">> \o Tail(Todo)
    BY <1>1, <2>1
  <2>4. Purpose'
    <3>1. Fits(<<>>, published)
      BY <1>2, NothingToDo
    <3>2. /\ Fits(Tail(Todo), published)
          /\ Todo[1] = "updateCfg" => Fits(<<"writeCfg">> \o Tail(Todo), published)
      BY <2>2, <2>3, FitsOnward
    <3>3. Fits(rest, published)
      BY <2>3, <3>1, <3>2
    <3> QED
      BY <2>1, <2>2, <3>3 DEF Purpose
  <2>5. ASSUME rest = <<>> PROVE Plan'
    <3>1. Todo' = <<>>
      BY <2>1, <2>5
    <3> QED
      BY <1>2, <2>3, <3>1, PlanEnds
  <2>6. ASSUME rest = Tail(Todo) PROVE Plan'
    <3>1. Todo' = Tail(Todo)
      BY <2>1, <2>6
    <3> QED
      BY <1>2, <2>3, <3>1, PlanOnward
  <2>7. ASSUME Todo[1] = "updateCfg", rest = <<"writeCfg">> \o Tail(Todo)
        PROVE  Plan'
    <3>1. Todo' = <<"writeCfg">> \o Tail(Todo)
      BY <2>1, <2>7
    <3> QED
      BY <1>2, <2>3, <2>7, <3>1, PlanRewrite
  <2>8. Plan'
    BY <2>3, <2>5, <2>6, <2>7
  <2> QED
    BY <1>5, <1>6, <2>4, <2>8 DEF DibInv
<1> QED
  BY <1>8, <1>9 DEF Threads

\* A step inside a transfer: the call stays what it is.
LEMMA Inside ==
  ASSUME DibInv, NEW t \in Threads, NEW a \in {"first", "second", "vendor"},
         th[t].todo # <<>>,
         th' = [th EXCEPT ![t].at = a],
         ctrl' = t, ctrl \in {t, None},
         pointer' = pointer \/ ctrl = t, pointer' \in {"id", "cfg", "status"},
         a = "first"  => th[t].todo[1] \in Reads \union Writes,
         a = "second" => th[t].todo[1] \in Reads /\ pointer' = Reg(Head(th[t].todo)),
         a = "vendor" => th[t].todo[1] \in Vendor,
         faults' \in 0..MaxFaults,
         UNCHANGED <<running, reports, ram, mask, xferLen, urbs, published,
                     fwVersion, channels, captureOn, doubt>>
  PROVE  DibInv'
<1>1. /\ th \in [Threads -> ThreadRecord]
      /\ \A u \in Threads : /\ th[u].at = "idle" <=> th[u].todo = <<>>
                            /\ th[u].at \in {"first", "second", "vendor"} <=> ctrl = u
                            /\ th[u].at = "first"  => th[u].todo[1] \in Reads \union Writes
                            /\ th[u].at = "second" => th[u].todo[1] \in Reads
                            /\ th[u].at = "vendor" => th[u].todo[1] \in Vendor
  BY DEF DibInv, Locked
<1>2. /\ th' \in [Threads -> ThreadRecord]
      /\ th'[t].todo = th[t].todo /\ th'[t].at = a
      /\ \A u \in Threads : u # t => th'[u] = th[u]
  BY <1>1, Moves
<1>3. \A u \in Threads : u # t => ctrl # u /\ ctrl' # u
  BY DibAssumption DEF Threads
<1>4. ASSUME NEW u \in Threads
      PROVE  /\ th'[u].at = "idle" <=> th'[u].todo = <<>>
             /\ th'[u].at \in {"first", "second", "vendor"} <=> ctrl' = u
             /\ th'[u].at = "first"  => th'[u].todo[1] \in Reads \union Writes
             /\ th'[u].at = "second" => th'[u].todo[1] \in Reads
             /\ th'[u].at = "vendor" => th'[u].todo[1] \in Vendor
  <2>1. CASE u = t
    BY <2>1, <1>2
  <2>2. CASE u # t
    BY <2>2, <1>1, <1>2, <1>3
  <2> QED
    BY <2>1, <2>2
<1>5. Locked'
  BY <1>2, <1>4 DEF Locked
<1>6. ASSUME NEW u \in Threads, th'[u].at = "second"
      PROVE  pointer' = Reg(Head(th'[u].todo))
  <2>1. CASE u = t
    BY <2>1, <1>2, <1>6
  <2>2. CASE u # t
    BY <2>2, <1>1, <1>2, <1>3, <1>6
  <2> QED
    BY <2>1, <2>2
<1>7. ReadsItsRegister'
  BY <1>6 DEF ReadsItsRegister
<1>8. TypeOK'
  BY <1>5, Types, TypesAfter
<1>9. \A u \in Threads : th'[u].todo = th[u].todo
  BY <1>2
<1>10. Todo' = Todo /\ th'["poller"].todo = th["poller"].todo
  BY <1>9 DEF Todo, Threads
<1>11. Purpose'
  BY <1>10 DEF DibInv, Purpose
<1>12. Plan'
  BY <1>10, Types, PlanStays
<1> QED
  BY <1>5, <1>7, <1>8, <1>11, <1>12 DEF DibInv

-----------------------------------------------------------------------------
(***************************************************************************)
(* The transfers of either thread.                                         *)
(***************************************************************************)
LEMMA FailGoes ==
  ASSUME DibInv, NEW t \in Threads, th[t].todo # <<>>, Fail(t)
  PROVE  \E rest \in {<<>>, Tail(th[t].todo)} :
            /\ Continue(t, rest)
            /\ Has(th[t].todo, "release")
                  \/ th[t].todo[1] \in {"version", "restart"} \/ rest = <<>>
<1>1. Head(th[t].todo) = th[t].todo[1] /\ DOMAIN th[t].todo = 1..Len(th[t].todo)
  BY AtWork, LenProperties
<1>2. Ignored(t) => \/ Has(th[t].todo, "release")
                    \/ th[t].todo[1] \in {"version", "restart"}
  BY <1>1 DEF Ignored, IsClosing, Doing, Has
<1>3. CASE Ignored(t)
  BY <1>2, <1>3 DEF Fail
<1>4. CASE ~Ignored(t)
  BY <1>4 DEF Fail
<1> QED
  BY <1>3, <1>4

\* The thread that does something of what.
LEMMA Busy ==
  ASSUME DibInv, NEW t \in Threads, NEW what, Doing(t, what)
  PROVE  th[t].todo # <<>> /\ th[t].todo[1] \in what
BY AtWork DEF Doing

LEMMA EnterKeeps ==
  ASSUME DibInv, NEW t \in Threads, Enter(t)
  PROVE  DibInv'
<1>1. th[t].todo # <<>> /\ th[t].todo[1] \in Reads \union Writes \union Vendor
  BY Busy DEF Enter
<1>2. Head(th[t].todo) = th[t].todo[1]
  BY <1>1, AtWork
<1>3. ctrl = None /\ ctrl' = t
  BY DEF Enter, LocksTransfer
<1>4. UNCHANGED <<running, reports, ram, pointer, mask, xferLen, urbs,
                  published, fwVersion, channels, captureOn, doubt, faults>>
  BY DEF Enter, device, engine
<1>5. pointer' \in {"id", "cfg", "status"} /\ faults' \in 0..MaxFaults
  BY <1>4, Types
<1>6. CASE th[t].todo[1] \in Vendor
  <2>1. th' = [th EXCEPT ![t].at = "vendor"]
    BY <1>1, <1>2, <1>6 DEF Enter, Doing
  <2> QED
    BY <1>1, <1>3, <1>4, <1>5, <1>6, <2>1, Inside
<1>7. CASE th[t].todo[1] \notin Vendor
  <2>1. th' = [th EXCEPT ![t].at = "first"]
    BY <1>1, <1>2, <1>7 DEF Enter, Doing
  <2>2. th[t].todo[1] \in Reads \union Writes
    BY <1>1, <1>7
  <2> QED
    BY <1>1, <1>3, <1>4, <1>5, <2>1, <2>2, Inside
<1> QED
  BY <1>6, <1>7

\* Who is inside a transfer holds ctrl_lock and has something to do.
LEMMA Holding ==
  ASSUME DibInv, NEW t \in Threads, th[t].at \in {"first", "second", "vendor"}
  PROVE  /\ ctrl = t /\ th[t].todo # <<>> /\ Head(th[t].todo) = th[t].todo[1]
         /\ th[t].at = "first"  => th[t].todo[1] \in Reads \union Writes
         /\ th[t].at = "second" => th[t].todo[1] \in Reads
         /\ th[t].at = "vendor" => th[t].todo[1] \in Vendor
<1>1. th[t].todo # <<>> /\ ctrl = t
  BY DEF DibInv, Locked
<1> QED
  BY <1>1, AtWork DEF DibInv, Locked

LEMMA FirstMessageKeeps ==
  ASSUME DibInv, NEW t \in Threads, NEW out, FirstMessage(t, out)
  PROVE  DibInv'
<1>1. /\ ctrl = t /\ th[t].todo # <<>> /\ Head(th[t].todo) = th[t].todo[1]
      /\ th[t].todo[1] \in Reads \union Writes
  BY Holding DEF FirstMessage
<1>2. UNCHANGED <<running, reports, ram, mask, xferLen, urbs, published, fwVersion,
                  channels, captureOn, doubt>>
  BY DEF FirstMessage, engine
<1>3. faults' \in 0..MaxFaults
  BY Types, FaultsCount DEF FirstMessage
<1>4. pointer' \in {"id", "cfg", "status"}
  BY Types DEF FirstMessage, Reg
<1>5. th[t].todo[1] \notin {"record", "restart", "xferLen", "enable", "disable",
                            "captureOn", "captureOff"}
  BY <1>1 DEF Reads, Writes
<1>6. CASE out # "done"
  <2>1. Fail(t) /\ Leave(t)
    BY <1>6 DEF FirstMessage
  <2>2. PICK rest \in {<<>>, Tail(th[t].todo)} : Continue(t, rest)
    BY <1>1, <2>1, FailGoes
  <2> QED
    BY <1>1, <1>2, <1>3, <1>4, <1>5, <2>1, <2>2, Quiet
<1>7. CASE out = "done" /\ th[t].todo[1] \in Reads
  <2>1. th' = [th EXCEPT ![t].at = "second"] /\ ctrl' = ctrl
    BY <1>1, <1>7 DEF FirstMessage, Doing
  <2>2. pointer' = Reg(Head(th[t].todo))
    BY <1>7 DEF FirstMessage, Obeyed
  <2> QED
    BY <1>1, <1>2, <1>3, <1>4, <1>7, <2>1, <2>2, Inside
<1>8. CASE out = "done" /\ th[t].todo[1] \notin Reads
  <2>1. Continue(t, Tail(th[t].todo)) /\ Leave(t)
    BY <1>1, <1>8 DEF FirstMessage, Doing, Proceed
  <2>2. \E rest \in {<<>>, Tail(th[t].todo)} : Continue(t, rest)
    BY <2>1
  <2> QED
    BY <1>1, <1>2, <1>3, <1>4, <1>5, <2>1, <2>2, Quiet
<1> QED
  BY <1>6, <1>7, <1>8

LEMMA SecondMessageKeeps ==
  ASSUME DibInv, NEW t \in Threads, NEW out, NEW equal \in BOOLEAN,
         SecondMessage(t, out, equal)
  PROVE  DibInv'
<1>1. /\ ctrl = t /\ th[t].todo # <<>> /\ Head(th[t].todo) = th[t].todo[1]
      /\ th[t].todo[1] \in Reads
  BY Holding DEF SecondMessage
<1>2. UNCHANGED <<running, reports, ram, pointer, mask, xferLen, urbs,
                  published, fwVersion, channels, captureOn, doubt>>
  BY DEF SecondMessage, device, engine
<1>3. faults' \in 0..MaxFaults /\ Leave(t)
  BY Types, FaultsCount DEF SecondMessage
<1>4. th[t].todo[1] \notin {"record", "restart", "xferLen", "enable", "disable",
                            "captureOn", "captureOff"}
  BY <1>1 DEF Reads
<1>5. CASE out # "done"
  <2>1. Fail(t)
    BY <1>5 DEF SecondMessage
  <2>2. PICK rest \in {<<>>, Tail(th[t].todo)} : Continue(t, rest)
    BY <1>1, <2>1, FailGoes
  <2> QED
    BY <1>1, <1>2, <1>3, <1>4, <2>2, Quiet
<1>6. CASE out = "done" /\ th[t].todo[1] = "updateCfg" /\ ~equal
  <2>1. Continue(t, <<"writeCfg">> \o Tail(th[t].todo))
    BY <1>1, <1>6 DEF SecondMessage, Doing
  <2>2. t = "tuner"
    BY <1>1, <1>6, AtWork DEF Threads
  <2> QED
    BY <1>1, <1>2, <1>3, <1>4, <1>6, <2>1, <2>2, Quiet
<1>7. CASE out = "done" /\ ~(th[t].todo[1] = "updateCfg" /\ ~equal)
  <2>1. Continue(t, Tail(th[t].todo))
    BY <1>1, <1>7 DEF SecondMessage, Doing, Proceed
  <2> QED
    BY <1>1, <1>2, <1>3, <1>4, <2>1, Quiet
<1> QED
  BY <1>5, <1>6, <1>7

-----------------------------------------------------------------------------
(***************************************************************************)
(* The steps of the tuner alone.                                           *)
(***************************************************************************)
LEMMA OnlyTuner ==
  ASSUME DibInv, NEW t \in Threads, NEW what, Doing(t, what),
         "readStatus" \notin what
  PROVE  /\ t = "tuner" /\ Todo # <<>> /\ Todo \in Seq(Step) /\ Todo[1] \in what
         /\ Head(th[t].todo) = Todo[1] /\ th[t].todo = Todo
         /\ Tail(Todo) \in Seq(Step)
         /\ Fits(Todo, published) /\ Fits(Tail(Todo), published)
<1>1. th[t].todo # <<>> /\ th[t].todo[1] \in what
  BY Busy
<1>2. t = "tuner"
  BY <1>1, AtWork DEF Threads
<1>3. /\ Todo # <<>> /\ Todo \in Seq(Step) /\ Todo[1] \in what
      /\ Head(th[t].todo) = Todo[1] /\ th[t].todo = Todo
      /\ Tail(Todo) \in Seq(Step)
  BY <1>1, <1>2, AtWork DEF Todo
<1>4. Fits(Todo, published)
  BY DEF DibInv, Purpose
<1> QED
  BY <1>2, <1>3, <1>4, FitsOnward

\* Outside the transfers under ctrl_lock the tuner does not hold it.
LEMMA Unlocked ==
  ASSUME DibInv, Todo # <<>>, Todo[1] \notin Reads \union Writes \union Vendor
  PROVE  th["tuner"].at = "next" /\ ctrl # "tuner"
BY AtWork DEF Todo, Threads

\* A call begins, on a device whose channels are as the handle has them.
LEMMA PlanBegins ==
  ASSUME Plan, NEW s, Todo' = s, Planned(s, published, running),
         ~Starts(Todo, "captureOn"), ~Starts(Todo, "captureOff"),
         ~Starts(s, "captureOn"), ~Starts(s, "captureOff"),
         captureOn /\ Has(s, "release") => Has(s, "captureOff"),
         captureOn => fwVersion' = fwVersion,
         "stream" \notin doubt => mask = channels',
         UNCHANGED <<running, reports, ram, mask, xferLen, urbs, published,
                     captureOn, doubt>>
  PROVE  Plan'
<1>1. InOrder(s) /\ Loads(s, running, ram) /\ Restarts(s) /\ Tells(s)
  BY DEF Planned
<1>2. InOrder(Todo)' /\ Loads(Todo, running, ram)' /\ WholeFirmwareRuns'
  BY <1>1 DEF Plan, WholeFirmwareRuns
<1>3. Streams'
  BY DEF Plan, Streams
<1>4. Fresh' /\ Told'
  BY <1>1 DEF Plan, Fresh, Told
<1> QED
  BY <1>2, <1>3, <1>4 DEF Plan

LEMMA IsColdKeeps ==
  ASSUME DibInv, NEW t \in Threads, NEW out, IsCold(t, out)
  PROVE  DibInv'
<1>1. /\ t = "tuner" /\ Todo # <<>> /\ Todo[1] = "isCold"
      /\ Fits(Todo, published)
  BY OnlyTuner DEF IsCold
<1>2. ~published
  BY <1>1, FitsFirst DEF TuneSteps, StopSteps
<1>3. ctrl # "tuner"
  BY <1>1, Unlocked DEF Reads, Writes, Vendor
<1>4. /\ UNCHANGED <<running, reports, ram, pointer, mask, xferLen, urbs,
                     published, fwVersion, channels, captureOn, ctrl, doubt>>
      /\ faults' \in 0..MaxFaults
  BY Types, FaultsCount DEF IsCold, device, engine
<1>5. PICK rest \in {BringUp, Download \o BringUp} : Continue(t, rest)
  BY DEF IsCold
<1>6. Planned(rest, FALSE, running)
  <2>1. Planned(BringUp, FALSE, running)
    BY BringUpPlanned
  <2>2. Planned(Download \o BringUp, FALSE, running)
    BY ColdBootPlanned
  <2> QED
    BY <1>5, <2>1, <2>2
<1>10. published = FALSE /\ published' = FALSE
  BY <1>2, <1>4, Types
<1>7. rest \in Seq(Step) /\ rest # <<>> /\ Fits(rest, published')
  BY <1>6, <1>10 DEF Planned
<1>8. Locked' /\ ReadsItsRegister' /\ Purpose' /\ Todo' = rest
  BY <1>1, <1>3, <1>4, <1>5, <1>7, TunerGoes
<1>9. TypeOK'
  BY <1>4, <1>8, Types, TypesAfter
<1>11. Planned(rest, published, running)
  BY <1>6, <1>10
<1>12. ~Starts(rest, "captureOn") /\ ~Starts(rest, "captureOff")
  <2>1. rest[1] \in OpenSteps
    BY <1>2, <1>4, <1>7, FitsFirst
  <2> QED
    BY <2>1 DEF Starts, OpenSteps
<1>13. ~Starts(Todo, "captureOn") /\ ~Starts(Todo, "captureOff")
  BY <1>1 DEF Starts
<1>14. ~captureOn /\ ("stream" \notin doubt => mask = channels)
  BY <1>1, <1>2 DEF DibInv, Plan, Streams
<1>15. Plan'
  BY <1>4, <1>8, <1>11, <1>12, <1>13, <1>14, Types, PlanBegins
<1> QED
  BY <1>8, <1>9, <1>15 DEF DibInv

\* The boot loader never takes more records than there are.
LEMMA TakenFits ==
  ASSUME NEW s \in Seq(Step), s # <<>>, s[1] = "record",
         NEW taken \in 0..NumRecords, Loads(s, None, taken)
  PROVE  TakenAfter(s, taken) \in 0..NumRecords
<1> DEFINE n == Len(s)
<1>1. n \in Nat \ {0} /\ DOMAIN s = 1..n /\ NumRecords \in Nat \ {0}
  BY Rest, LenProperties, DibAssumption
<1>2. PICK k \in 1..n : k > 1 /\ s[k] = "jump"
  BY <1>1 DEF Loads
<1>3. /\ \A j \in 1..(k - 1) : s[j] = "record"
      /\ k <= NumRecords + 1
      /\ k <= NumRecords => taken = NumRecords - k + 1
  BY <1>1, <1>2 DEF Loads
<1> HIDE DEF n
<1>4. CASE k = NumRecords + 1
  <2>1. \A j \in 1..NumRecords : j \in DOMAIN s /\ s[j] = "record"
    BY <1>1, <1>2, <1>3, <1>4
  <2>2. TakenAfter(s, taken) = 1
    BY <2>1 DEF TakenAfter
  <2> QED
    BY <1>1, <2>2
<1>5. CASE k <= NumRecords
  <2>1. k \in 1..NumRecords /\ s[k] # "record"
    BY <1>1, <1>2, <1>5
  <2>2. TakenAfter(s, taken) = taken + 1
    BY <2>1 DEF TakenAfter
  <2>3. taken = NumRecords - k + 1
    BY <1>3, <1>5
  <2> QED
    BY <1>1, <1>2, <1>5, <2>2, <2>3
<1> QED
  BY <1>1, <1>2, <1>3, <1>4, <1>5

LEMMA RecordKeeps ==
  ASSUME DibInv, NEW t \in Threads, NEW out, Record(t, out)
  PROVE  DibInv'
<1>1. /\ t = "tuner" /\ Todo # <<>> /\ Todo \in Seq(Step) /\ Todo[1] = "record"
      /\ th[t].todo = Todo /\ Tail(Todo) \in Seq(Step)
      /\ Fits(Todo, published) /\ Fits(Tail(Todo), published)
  BY OnlyTuner DEF Record
<1>2. ~published
  BY <1>1, FitsFirst DEF TuneSteps, StopSteps
<1>3. ctrl # "tuner"
  BY <1>1, Unlocked DEF Reads, Writes, Vendor
<1>4. /\ UNCHANGED <<running, reports, pointer, mask, xferLen, urbs, published,
                     fwVersion, channels, captureOn, ctrl, doubt>>
      /\ faults' \in 0..MaxFaults
  BY Types, FaultsCount DEF Record, engine
<1>5. ram' \in {ram, TakenAfter(Todo, ram)}
      /\ (running # None => ram' = ram)
      /\ (out = "done" /\ running = None => ram' = TakenAfter(Todo, ram))
  BY <1>1 DEF Record, TakenAfter, Obeyed
<1>6. Loads(Todo, running, ram) /\ ram \in 0..NumRecords /\ ram \in Nat
  BY Types DEF Plan
<1>7. ram' \in 0..NumRecords
  <2>1. CASE running # None
    BY <1>5, <1>6, <2>1
  <2>2. CASE running = None
    <3>1. TakenAfter(Todo, ram) \in 0..NumRecords
      BY <1>1, <1>6, <2>2, TakenFits
    <3> QED
      BY <1>5, <1>6, <3>1
  <2> QED
    BY <2>1, <2>2
<1>8. ~Has(Todo, "release")
  <2>1. Todo \in Seq(OpenSteps)
    BY <1>1, <1>2 DEF Fits
  <2>2. \A i \in 1..Len(Todo) : Todo[i] \in OpenSteps
    BY <2>1, ElementOfSeq
  <2> QED
    BY <2>2 DEF Has, OpenSteps
<1>9. CASE out = "done"
  <2>1. Continue(t, Tail(Todo))
    BY <1>1, <1>9 DEF Record, AfterRecord, Proceed
  <2>2. Locked' /\ ReadsItsRegister' /\ Purpose' /\ Todo' = Tail(Todo)
    BY <1>1, <1>3, <1>4, <2>1, TunerGoes
  <2>3. TypeOK'
    BY <1>4, <1>7, <2>2, Types, TypesAfter
  <2>4. InOrder(Todo)' /\ Streams' /\ Fresh'
    BY <1>1, <1>4, <2>2, Types, RestOnward
  <2>5. Loads(Tail(Todo), running, TakenAfter(Todo, ram))
    BY <1>1, <1>6, LoadsOnward
  <2>6. Loads(Tail(Todo), running, ram')
    <3>1. CASE running = None
      BY <1>5, <1>9, <2>5, <3>1
    <3>2. CASE running # None
      BY <2>5, <3>2 DEF Loads
    <3> QED
      BY <3>1, <3>2
  <2>7. Loads(Todo, running, ram)' /\ WholeFirmwareRuns'
    BY <1>4, <2>2, <2>6, Types DEF Plan, WholeFirmwareRuns
  <2>8. Tells(Todo) => Tells(Tail(Todo))
    BY <1>1, Types, Onward
  <2>9. Told'
    BY <1>4, <2>2, <2>8, Types DEF Plan, Told
  <2> QED
    BY <2>2, <2>3, <2>4, <2>7, <2>9 DEF DibInv, Plan
<1>10. CASE out # "done"
  <2>1. Fail(t)
    BY <1>10 DEF Record, AfterRecord
  <2>2. Continue(t, <<>>)
    BY <1>1, <1>8, <2>1, FailGoes
  <2>3. <<>> \in Seq(Step) /\ Fits(<<>>, published')
    BY <1>4, Types, NothingToDo
  <2>4. Locked' /\ ReadsItsRegister' /\ Purpose' /\ Todo' = <<>>
    BY <1>1, <1>3, <1>4, <2>2, <2>3, TunerGoes
  <2>5. TypeOK'
    BY <1>4, <1>7, <2>4, Types, TypesAfter
  <2>6. Plan'
    BY <1>1, <1>4, <2>4, Types, PlanEnds
  <2> QED
    BY <2>4, <2>5, <2>6 DEF DibInv
<1> QED
  BY <1>9, <1>10

LEMMA JumpKeeps ==
  ASSUME DibInv, NEW t \in Threads, NEW out, Jump(t, out)
  PROVE  DibInv'
<1>1. /\ t = "tuner" /\ Todo # <<>> /\ Todo \in Seq(Step) /\ Todo[1] = "jump"
      /\ th[t].todo = Todo /\ Tail(Todo) \in Seq(Step)
      /\ Fits(Tail(Todo), published)
  BY OnlyTuner DEF Jump
<1>2. ctrl # "tuner"
  BY <1>1, Unlocked DEF Reads, Writes, Vendor
<1>3. /\ UNCHANGED <<ram, pointer, mask, xferLen, urbs, published, fwVersion,
                     channels, captureOn, ctrl, doubt>>
      /\ faults' \in 0..MaxFaults /\ reports' \in {None, "old", "new"}
  BY Types, FaultsCount DEF Jump, engine
<1>4. running = None => ram = NumRecords
  <2> SUFFICES ASSUME running = None PROVE ram = NumRecords
    OBVIOUS
  <2>1. Loads(Todo, running, ram) /\ Len(Todo) \in Nat \ {0}
    BY <1>1, Types, Rest DEF Plan
  <2>2. 1 \in 1..Len(Todo) /\ NumRecords \in Nat \ {0}
    BY <2>1, DibAssumption
  <2>3. 1 <= NumRecords => ram = NumRecords - 1 + 1
    BY <1>1, <2>1, <2>2 DEF Loads
  <2> QED
    BY <2>2, <2>3
<1>5. running' \in {None, NumRecords} /\ running' \in 0..NumRecords \union {None}
  <2>1. running \in {None, NumRecords} /\ NumRecords \in 0..NumRecords
    BY Types, DibAssumption DEF Plan, WholeFirmwareRuns
  <2> QED
    BY <1>4, <2>1 DEF Jump
<1>6. PICK rest \in {<<>>, Tail(Todo)} : Continue(t, rest)
  <2>1. CASE out = "done"
    BY <1>1, <2>1 DEF Jump, Proceed
  <2>2. CASE out # "done"
    BY <1>1, <2>2, FailGoes DEF Jump
  <2> QED
    BY <2>1, <2>2
<1>7. rest \in Seq(Step) /\ Fits(rest, published')
  BY <1>1, <1>3, <1>6, Types, NothingToDo
<1>8. Locked' /\ ReadsItsRegister' /\ Purpose' /\ Todo' = rest
  BY <1>1, <1>2, <1>3, <1>6, <1>7, TunerGoes
<1>9. TypeOK'
  BY <1>3, <1>5, <1>8, Types, TypesAfter
<1>10. InOrder(Todo)' /\ Streams' /\ Fresh'
  <2>1. CASE rest = <<>>
    <3>1. Todo' = <<>>
      BY <1>8, <2>1
    <3> QED
      BY <1>1, <1>3, <3>1, Types, RestEnds
  <2>2. CASE rest = Tail(Todo)
    <3>1. Todo' = Tail(Todo)
      BY <1>8, <2>2
    <3> QED
      BY <1>1, <1>3, <3>1, Types, RestOnward
  <2> QED
    BY <1>6, <2>1, <2>2
<1>11. Tells(Todo) => Tells(rest)
  <2>1. Tells(Todo) => Tells(Tail(Todo))
    BY <1>1, Types, Onward
  <2> QED
    BY <1>6, <2>1, NothingToDo
<1>12. Told'
  BY <1>3, <1>8, <1>11, Types DEF Plan, Told
<1>13. Loads(rest, running', ram)
  <2>1. Loads(<<>>, running', ram)
    BY NothingToDo
  <2>2. Loads(Tail(Todo), running', ram)
    <3>1. ~Has(Todo, "jump") \/ Todo[1] = "jump"
      BY <1>1
    <3>2. Loads(Todo, running, ram)
      BY Types DEF Plan
    <3>3. \A i \in 1..Len(Todo) : Todo[i] = "jump" => i = 1
      BY <1>1, <3>2 DEF Loads
    <3>4. \A i \in 1..Len(Todo) : Todo[i] # "record"
      BY <3>2, <3>3 DEF Loads
    <3>5. ~Has(Todo, "record")
      BY <3>4 DEF Has
    <3>6. ~Has(Tail(Todo), "record")
      BY <1>1, <3>5, HasOnward
    <3>7. /\ Len(Todo) \in Nat \ {0} /\ Len(Tail(Todo)) = Len(Todo) - 1
          /\ \A i \in 1..(Len(Todo) - 1) : Tail(Todo)[i] = Todo[i + 1]
      BY <1>1, Rest
    <3>8. ASSUME NEW i \in 1..(Len(Todo) - 1) PROVE Tail(Todo)[i] # "jump"
      <4>1. i + 1 \in 1..Len(Todo) /\ i + 1 # 1
        BY <3>7
      <4> QED
        BY <3>3, <3>7, <4>1
    <3> QED
      BY <3>6, <3>7, <3>8 DEF Loads, Has
  <2> QED
    BY <1>6, <2>1, <2>2
<1>14. Loads(Todo, running, ram)' /\ WholeFirmwareRuns'
  BY <1>3, <1>5, <1>8, <1>13 DEF WholeFirmwareRuns
<1> QED
  BY <1>8, <1>9, <1>10, <1>12, <1>14 DEF DibInv, Plan

LEMMA VersionKeeps ==
  ASSUME DibInv, NEW t \in Threads, NEW out, Version(t, out)
  PROVE  DibInv'
<1>1. /\ t = "tuner" /\ Todo # <<>> /\ Todo \in Seq(Step) /\ Todo[1] = "version"
      /\ th[t].todo = Todo /\ Tail(Todo) \in Seq(Step)
      /\ Fits(Todo, published) /\ Fits(Tail(Todo), published)
  BY OnlyTuner DEF Version
<1>2. ~published
  BY <1>1, FitsFirst DEF TuneSteps, StopSteps
<1>3. ctrl # "tuner"
  BY <1>1, Unlocked DEF Reads, Writes, Vendor
<1>4. /\ UNCHANGED <<running, reports, ram, pointer, mask, xferLen, urbs, published,
                     channels, captureOn, ctrl, doubt>>
      /\ faults' \in 0..MaxFaults
  BY Types, FaultsCount DEF Version, device
<1>5. fwVersion' \in {None, "old", "new"}
  BY Types DEF Version
<1>6. Continue(t, Tail(Todo))
  BY <1>1 DEF Version, Proceed
<1>7. Locked' /\ ReadsItsRegister' /\ Purpose' /\ Todo' = Tail(Todo)
  BY <1>1, <1>3, <1>4, <1>6, TunerGoes
<1>8. TypeOK'
  BY <1>4, <1>5, <1>7, Types, TypesAfter
<1>9. InOrder(Todo)' /\ Streams' /\ Fresh'
  BY <1>1, <1>4, <1>7, Types, RestOnward
<1>10. Loads(Todo, running, ram)' /\ WholeFirmwareRuns'
  <2>1. Loads(Tail(Todo), running, ram)
    BY <1>1, Types, Onward
  <2> QED
    BY <1>4, <1>7, <2>1, Types DEF Plan, WholeFirmwareRuns
<1>11. Told'
  <2>1. ~captureOn'
    BY <1>2, <1>4, Types DEF Plan, Streams
  <2>2. Tail(Todo) \in Seq(OpenSteps)
    BY <1>1, <1>2 DEF Fits
  <2>3. \A i \in 1..Len(Tail(Todo)) : Tail(Todo)[i] \in OpenSteps
    BY <2>2, ElementOfSeq
  <2>4. Tells(Tail(Todo))
    BY <2>3 DEF Tells, OpenSteps
  <2> QED
    BY <1>7, <2>1, <2>4 DEF Told
<1> QED
  BY <1>7, <1>8, <1>9, <1>10, <1>11 DEF DibInv, Plan

\* What a failure of a transfer under ctrl_lock leaves of the tuner's call.
LEMMA VendorRest ==
  ASSUME DibInv, NEW t \in Threads, NEW out, VendorWrite(t, out)
  PROVE  /\ t = "tuner" /\ Todo # <<>> /\ Todo \in Seq(Step)
         /\ Todo[1] \in {"gpio", "xferLen", "enable", "disable"}
         /\ Head(th[t].todo) = Todo[1] /\ th[t].todo = Todo
         /\ ctrl = "tuner" /\ Leave("tuner") /\ Tail(Todo) \in Seq(Step)
         /\ Fits(Todo, published) /\ Fits(Tail(Todo), published)
         /\ \E rest \in {<<>>, Tail(Todo)} :
               /\ Continue("tuner", rest)
               /\ out = "done" => rest = Tail(Todo)
               /\ out # "done" => rest = <<>> \/ Has(Todo, "release")
<1>1. /\ ctrl = t /\ th[t].todo # <<>> /\ Head(th[t].todo) = th[t].todo[1]
      /\ th[t].todo[1] \in {"gpio", "xferLen", "enable", "disable"}
  BY Holding DEF VendorWrite, Vendor
<1>2. Doing(t, {"gpio", "xferLen", "enable", "disable"})
  BY <1>1 DEF Doing
<1>3. /\ t = "tuner" /\ Todo # <<>> /\ Todo \in Seq(Step) /\ th[t].todo = Todo
      /\ Tail(Todo) \in Seq(Step) /\ Fits(Todo, published)
      /\ Fits(Tail(Todo), published)
  BY <1>2, OnlyTuner
<1>4. Leave(t)
  BY DEF VendorWrite
<1>5. \E rest \in {<<>>, Tail(Todo)} :
         /\ Continue("tuner", rest)
         /\ out = "done" => rest = Tail(Todo)
         /\ out # "done" => rest = <<>> \/ Has(Todo, "release")
  <2>1. CASE out = "done"
    BY <1>3, <2>1 DEF VendorWrite, Proceed
  <2>2. CASE out # "done"
    <3>1. Fail(t)
      BY <2>2 DEF VendorWrite
    <3> QED
      BY <1>1, <1>3, <2>2, <3>1, FailGoes
  <2> QED
    BY <2>1, <2>2
<1> QED
  BY <1>1, <1>3, <1>4, <1>5

LEMMA VendorWriteKeeps ==
  ASSUME DibInv, NEW t \in Threads, NEW out, VendorWrite(t, out)
  PROVE  DibInv'
<1>1. /\ t = "tuner" /\ Todo # <<>> /\ Todo \in Seq(Step)
      /\ Todo[1] \in {"gpio", "xferLen", "enable", "disable"}
      /\ Head(th[t].todo) = Todo[1] /\ th[t].todo = Todo
      /\ ctrl = "tuner" /\ Leave("tuner") /\ Tail(Todo) \in Seq(Step)
      /\ Fits(Todo, published) /\ Fits(Tail(Todo), published)
  BY VendorRest
<1>2. PICK rest \in {<<>>, Tail(Todo)} :
         /\ Continue("tuner", rest)
         /\ out = "done" => rest = Tail(Todo)
         /\ out # "done" => rest = <<>> \/ Has(Todo, "release")
  BY VendorRest
<1>3. /\ UNCHANGED <<running, reports, ram, pointer, published, fwVersion,
                     captureOn>>
      /\ faults' \in 0..MaxFaults
  BY Types, FaultsCount DEF VendorWrite
<1>4. /\ channels' = Wanted(Todo[1])
      /\ mask' = IF Todo[1] \in {"enable", "disable"} /\ Obeyed(out)
                 THEN Wanted(Todo[1]) ELSE mask
      /\ xferLen' = (xferLen \/ (Todo[1] = "xferLen" /\ Obeyed(out)))
      /\ urbs' = IF Todo[1] = "disable" /\ Obeyed(out) /\ urbs # "none" THEN "old"
                 ELSE urbs
      /\ doubt' = IF Todo[1] \notin {"enable", "disable"} THEN doubt
                  ELSE IF out = "done" THEN doubt \ {"stream"}
                  ELSE doubt \union {"stream"}
  BY <1>1 DEF VendorWrite
<1>5. rest \in Seq(Step) /\ Fits(rest, published')
  BY <1>1, <1>2, <1>3, Types, NothingToDo
<1>6. Locked' /\ ReadsItsRegister' /\ Purpose' /\ Todo' = rest
  BY <1>1, <1>2, <1>3, <1>5, TunerGoes
<1>7. TypeOK'
  <2>1. channels' \in SUBSET {0} /\ mask' \in SUBSET {0}
    BY <1>4, Types DEF Wanted
  <2>2. xferLen' \in BOOLEAN
    BY <1>4
  <2>3. urbs' \in {"none", "fresh", "old"} /\ doubt' \subseteq {"stream", "urbs"}
    BY <1>4, Types
  <2>4. ctrl' \in Threads \union {None}
    BY <1>1, CtrlLeft, Types
  <2> QED
    BY <1>3, <1>6, <2>1, <2>2, <2>3, <2>4, Types, TypesAfter
<1>8. CASE Todo[1] = "gpio"
  <2>1. UNCHANGED <<mask, xferLen, urbs, channels, doubt>>
    BY <1>4, <1>8, Types DEF Wanted
  <2>2. CASE rest = <<>>
    <3>1. Todo' = <<>>
      BY <1>6, <2>2
    <3>2. Plan'
      BY <1>1, <1>3, <1>8, <2>1, <3>1, Types, PlanEnds
    <3> QED
      BY <1>6, <1>7, <3>2 DEF DibInv
  <2>3. CASE rest = Tail(Todo)
    <3>1. Todo' = Tail(Todo)
      BY <1>6, <2>3
    <3>2. Plan'
      BY <1>1, <1>3, <1>8, <2>1, <3>1, Types, PlanOnward
    <3> QED
      BY <1>6, <1>7, <3>2 DEF DibInv
  <2> QED
    BY <1>2, <2>2, <2>3
<1>9. CASE Todo[1] = "xferLen"
  <2>1. UNCHANGED <<mask, urbs, channels, doubt>>
    BY <1>4, <1>9, Types DEF Wanted
  <2>2. published /\ ~Has(Todo, "release")
    <3>1. published
      BY <1>1, <1>9, FitsFirst DEF OpenSteps
    <3>2. Todo \in Seq(TuneSteps)
      BY <1>1, <1>9, <3>1, FitsFirst DEF StopSteps
    <3>3. \A i \in 1..Len(Todo) : Todo[i] \in TuneSteps
      BY <3>2, ElementOfSeq
    <3> QED
      BY <3>1, <3>3 DEF Has, TuneSteps
  <2>3. CASE out # "done"
    <3>1. Todo' = <<>>
      BY <1>2, <1>6, <2>2, <2>3
    <3>2. InOrder(Todo)' /\ Loads(Todo, running, ram)' /\ Streams' /\ Fresh'
      BY <1>1, <1>3, <1>9, <2>1, <3>1, Types, RestEnds
    <3>3. WholeFirmwareRuns'
      BY <1>3, Types DEF Plan, WholeFirmwareRuns
    <3>4. Told'
      <4>1. Tells(<<>>)
        BY NothingToDo
      <4>2. xferLen => xferLen'
        BY <1>4
      <4> QED
        BY <1>3, <3>1, <4>1, <4>2, Types DEF Plan, Told
    <3> QED
      BY <1>6, <1>7, <3>2, <3>3, <3>4 DEF DibInv, Plan
  <2>4. CASE out = "done"
    <3>1. Todo' = Tail(Todo)
      BY <1>2, <1>6, <2>4
    <3>2. InOrder(Todo)' /\ Streams' /\ Fresh'
      BY <1>1, <1>3, <1>9, <2>1, <3>1, Types, RestOnward
    <3>3. Loads(Tail(Todo), running, ram)
      BY <1>1, <1>9, Types, Onward
    <3>4. Loads(Todo, running, ram)' /\ WholeFirmwareRuns'
      BY <1>3, <3>1, <3>3, Types DEF Plan, WholeFirmwareRuns
    <3>5. xferLen'
      BY <1>4, <1>9, <2>4 DEF Obeyed
    <3>6. Told'
      BY <3>5 DEF Told
    <3> QED
      BY <1>6, <1>7, <3>2, <3>4, <3>6 DEF DibInv, Plan
  <2> QED
    BY <2>3, <2>4
<1>10. CASE Todo[1] \in {"enable", "disable"}
  <2>1. /\ InOrder(rest) /\ Loads(rest, running, ram)
        /\ Restarts(Todo) => Restarts(rest)
        /\ Tells(Todo) => Tells(rest)
    <3>1. /\ InOrder(Tail(Todo)) /\ Loads(Tail(Todo), running, ram)
          /\ Restarts(Todo) => Restarts(Tail(Todo))
          /\ Tells(Todo) => Tells(Tail(Todo))
      BY <1>1, <1>10, Types, Onward
    <3>2. InOrder(<<>>) /\ Loads(<<>>, running, ram) /\ Restarts(<<>>) /\ Tells(<<>>)
      BY NothingToDo
    <3> QED
      BY <1>2, <3>1, <3>2
  <2>2. /\ Has(rest, "release") => Has(Todo, "release")
        /\ Has(rest, "release") /\ Has(Todo, "captureOff") => Has(rest, "captureOff")
    <3>1. /\ Has(Tail(Todo), "release") => Has(Todo, "release")
          /\ Has(Todo, "captureOff") => Has(Tail(Todo), "captureOff")
      BY <1>1, <1>10, HasOnward
    <3>2. ~Has(<<>>, "release")
      BY NothingToDo
    <3> QED
      BY <1>2, <3>1, <3>2
  <2>3. xferLen' = xferLen /\ ("urbs" \in doubt' <=> "urbs" \in doubt)
    BY <1>4, <1>10, Types
  <2>4. published
    BY <1>1, <1>10, FitsFirst DEF OpenSteps
  <2>5. Told'
    BY <1>3, <1>6, <2>1, <2>3, Types DEF Plan, Told
  <2>6. InOrder(Todo)' /\ Loads(Todo, running, ram)' /\ WholeFirmwareRuns'
    BY <1>3, <1>6, <2>1, Types DEF Plan, WholeFirmwareRuns
  <2>7. "stream" \notin doubt' => out = "done"
    BY <1>4, <1>10
  <2>8. captureOn => (Has(rest, "release") => Has(rest, "captureOff"))
    BY <2>2, Types DEF Plan, Streams
  <2>9. CASE Todo[1] = "enable"
    <3>1. ASSUME out = "done"
          PROVE  /\ Starts(rest, "captureOn") /\ ~Starts(rest, "captureOff")
                 /\ mask' # {} /\ mask' = channels'
      <4>1. Starts(Tail(Todo), "captureOn")
        BY <1>1, <2>9, Types, Onward
      <4>2. mask' = channels \union {0} /\ channels' = channels \union {0}
        BY <1>4, <2>9, <3>1 DEF Obeyed, Wanted
      <4> QED
        BY <1>2, <3>1, <4>1, <4>2 DEF Starts
    <3>2. Streams'
      BY <1>3, <1>6, <2>4, <2>7, <2>8, <3>1 DEF Streams
    <3>3. ~Restarts(Todo)
      <4>1. Len(Todo) \in Nat \ {0}
        BY <1>1, Rest
      <4>2. 1 \in 1..Len(Todo)
        BY <4>1
      <4> QED
        BY <2>9, <4>2 DEF Restarts
    <3>4. Fresh'
      <4>1. urbs' = urbs
        BY <1>4, <2>9
      <4>2. urbs # "old" \/ "urbs" \in doubt
        BY <3>3, Types DEF Plan, Fresh
      <4> QED
        BY <2>3, <4>1, <4>2 DEF Fresh
    <3> QED
      BY <1>6, <1>7, <2>5, <2>6, <3>2, <3>4 DEF DibInv, Plan
  <2>10. CASE Todo[1] = "disable"
    <3>1. ASSUME out = "done"
          PROVE  /\ Starts(rest, "captureOff") /\ ~Starts(rest, "captureOn")
                 /\ mask' = {} /\ mask' = channels'
      <4>1. Starts(Tail(Todo), "captureOff")
        BY <1>1, <2>10, Types, Onward
      <4>2. mask' = channels \ {0} /\ channels' = channels \ {0}
        BY <1>4, <2>10, <3>1 DEF Obeyed, Wanted
      <4>3. channels \ {0} = {}
        BY Types
      <4> QED
        BY <1>2, <3>1, <4>1, <4>2, <4>3 DEF Starts
    <3>2. Streams'
      BY <1>3, <1>6, <2>4, <2>7, <2>8, <3>1 DEF Streams
    <3>3. Restarts(rest)
      <4>1. Todo \in Seq(StopSteps)
        BY <1>1, <2>4, <2>10, FitsFirst DEF TuneSteps
      <4>2. \A i \in 1..Len(Todo) : Todo[i] \in StopSteps
        BY <4>1, ElementOfSeq
      <4> QED
        BY <2>1, <4>2 DEF Restarts, StopSteps
    <3>4. mask' # {} /\ "urbs" \notin doubt' => urbs' # "old"
      <4>1. CASE Obeyed(out)
        <5>1. mask' = channels \ {0}
          BY <1>4, <2>10, <4>1 DEF Wanted
        <5>2. channels \ {0} = {}
          BY Types
        <5> QED
          BY <5>1, <5>2
      <4>2. CASE ~Obeyed(out)
        <5>1. mask' = mask /\ urbs' = urbs
          BY <1>4, <4>2
        <5> QED
          BY <2>3, <5>1, Types DEF Plan, Fresh
      <4> QED
        BY <4>1, <4>2
    <3>5. Fresh'
      BY <1>6, <3>3, <3>4 DEF Fresh
    <3> QED
      BY <1>6, <1>7, <2>5, <2>6, <3>2, <3>5 DEF DibInv, Plan
  <2> QED
    BY <1>10, <2>9, <2>10
<1> QED
  BY <1>1, <1>8, <1>9, <1>10

-----------------------------------------------------------------------------
(***************************************************************************)
(* The engine's own steps.                                                 *)
(***************************************************************************)
LEMMA LocalGoes ==
  ASSUME DibInv, NEW t \in Threads, LocalStep(t)
  PROVE  /\ t = "tuner" /\ Todo # <<>> /\ Todo \in Seq(Step) /\ Todo[1] \in Local
         /\ Head(th[t].todo) = Todo[1] /\ th[t].todo = Todo /\ ctrl # "tuner"
         /\ Tail(Todo) \in Seq(Step)
         /\ Fits(Todo, published) /\ Fits(Tail(Todo), published)
         /\ Todo[1] # "switch" => Continue("tuner", Tail(Todo))
         /\ Todo[1] = "switch" => Tail(Todo) = <<>> /\ Continue("tuner", Switch \o <<>>)
         /\ UNCHANGED <<running, reports, ram, pointer, mask, xferLen,
                        fwVersion, channels, ctrl, faults>>
         /\ urbs' = CASE Todo[1] \in {"stream", "restart"} -> "fresh"
                      [] Todo[1] = "closeStream" -> "none" [] OTHER -> urbs
         /\ doubt' = IF Todo[1] \in {"stream", "restart"} THEN doubt \ {"urbs"} ELSE doubt
         /\ published' = (Todo[1] = "publish" \/ (published /\ Todo[1] # "release"))
         /\ captureOn' = CASE Todo[1] = "captureOn" -> TRUE
                           [] Todo[1] = "captureOff" -> FALSE [] OTHER -> captureOn
<1>1. /\ t = "tuner" /\ Todo # <<>> /\ Todo \in Seq(Step) /\ Todo[1] \in Local
      /\ Head(th[t].todo) = Todo[1] /\ th[t].todo = Todo
      /\ Tail(Todo) \in Seq(Step)
      /\ Fits(Todo, published) /\ Fits(Tail(Todo), published)
  <2>1. Doing(t, Local) /\ "readStatus" \notin Local
    BY DEF LocalStep, Local
  <2> QED
    BY <2>1, OnlyTuner
<1>2. ctrl # "tuner"
  BY <1>1, Unlocked DEF Local, Reads, Writes, Vendor
<1>3. Continue("tuner", (IF Todo[1] = "switch" THEN Switch ELSE <<>>) \o Tail(Todo))
  BY <1>1 DEF LocalStep
<1>4. Todo[1] # "switch" => Continue("tuner", Tail(Todo))
  <2>1. <<>> \o Tail(Todo) = Tail(Todo)
    BY <1>1, ConcatEmptySeq
  <2> QED
    BY <1>3, <2>1
<1>5. Todo[1] = "switch" => Tail(Todo) = <<>> /\ Continue("tuner", Switch \o <<>>)
  <2>1. Todo[1] = "switch" => Tail(Todo) = <<>>
    BY <1>1, Types, Onward
  <2> QED
    BY <1>3, <2>1
<1>6. /\ UNCHANGED <<running, reports, ram, pointer, mask, xferLen, fwVersion,
                     channels, ctrl, faults>>
      /\ urbs' = CASE Todo[1] \in {"stream", "restart"} -> "fresh"
                   [] Todo[1] = "closeStream" -> "none" [] OTHER -> urbs
      /\ doubt' = IF Todo[1] \in {"stream", "restart"} THEN doubt \ {"urbs"} ELSE doubt
      /\ published' = (Todo[1] = "publish" \/ (published /\ Todo[1] # "release"))
      /\ captureOn' = CASE Todo[1] = "captureOn" -> TRUE
                        [] Todo[1] = "captureOff" -> FALSE [] OTHER -> captureOn
  BY <1>1 DEF LocalStep
<1> QED
  BY <1>1, <1>2, <1>4, <1>5, <1>6

\* The types, and the threads, after a step of the engine itself.
LEMMA LocalTypes ==
  ASSUME DibInv, NEW t \in Threads, LocalStep(t),
         NEW rest \in Seq(Step), Continue("tuner", rest), Fits(rest, published')
  PROVE  TypeOK' /\ Locked' /\ ReadsItsRegister' /\ Purpose' /\ Todo' = rest
<1>1. /\ ctrl # "tuner"
      /\ UNCHANGED <<running, reports, ram, pointer, mask, xferLen, fwVersion,
                     channels, ctrl, faults>>
  BY LocalGoes
<1>2. urbs' \in {"none", "fresh", "old"} /\ doubt' \subseteq {"stream", "urbs"}
  BY LocalGoes, Types
<1>3. published' \in BOOLEAN
  BY LocalGoes
<1>4. captureOn' \in BOOLEAN
  BY LocalGoes, Types
<1>5. Locked' /\ ReadsItsRegister' /\ Purpose' /\ Todo' = rest
  BY <1>1, TunerGoes
<1>6. TypeOK'
  BY <1>1, <1>2, <1>3, <1>4, <1>5, Types, TypesAfter
<1> QED
  BY <1>5, <1>6

\* Opening or restarting the stream makes the URBs fresh, closing it leaves none.
LEMMA UrbStepKeeps ==
  ASSUME DibInv, NEW t \in Threads, LocalStep(t),
         Todo[1] \in {"file", "pipe", "stream", "restart", "closeStream"}
  PROVE  DibInv'
<1>1. /\ Todo # <<>> /\ Todo \in Seq(Step)
      /\ Tail(Todo) \in Seq(Step) /\ Fits(Tail(Todo), published)
      /\ Continue("tuner", Tail(Todo))
      /\ UNCHANGED <<running, reports, ram, mask, xferLen, fwVersion, channels>>
  BY LocalGoes
<1>2. published' = published /\ captureOn' = captureOn
  BY LocalGoes, Types
<1>3. /\ TypeOK' /\ Locked' /\ ReadsItsRegister' /\ Purpose' /\ Todo' = Tail(Todo)
  BY <1>1, <1>2, LocalTypes
<1>4. \/ urbs' \in {"fresh", "none"}
      \/ urbs' = urbs /\ doubt' = doubt /\ Todo[1] # "restart"
  BY LocalGoes
<1>5. /\ InOrder(Tail(Todo)) /\ Loads(Tail(Todo), running, ram)
      /\ Tells(Todo) => Tells(Tail(Todo))
      /\ Todo[1] # "restart" /\ Restarts(Todo) => Restarts(Tail(Todo))
      /\ ~Starts(Tail(Todo), "captureOn") /\ ~Starts(Tail(Todo), "captureOff")
      /\ ~Starts(Todo, "captureOn") /\ ~Starts(Todo, "captureOff")
  BY <1>1, Types, Onward DEF Starts
<1>6. /\ Has(Todo, "captureOff") => Has(Tail(Todo), "captureOff")
      /\ Has(Tail(Todo), "release") => Has(Todo, "release")
  BY <1>1, HasOnward
<1>7. "stream" \in doubt' <=> "stream" \in doubt
  BY LocalGoes
<1>8. InOrder(Todo)' /\ Loads(Todo, running, ram)' /\ WholeFirmwareRuns'
  BY <1>1, <1>3, <1>5, Types DEF Plan, WholeFirmwareRuns
<1>9. Streams'
  BY <1>1, <1>2, <1>3, <1>5, <1>6, <1>7, Types DEF Plan, Streams
<1>10. Fresh'
  BY <1>1, <1>3, <1>4, <1>5, Types DEF Plan, Fresh
<1>11. Told'
  BY <1>1, <1>2, <1>3, <1>5, Types DEF Plan, Told
<1> QED
  BY <1>3, <1>8, <1>9, <1>10, <1>11 DEF DibInv, Plan

\* The device enters the registry as the last step of a bring-up and leaves it
\* as the last step of a shutdown, and a device that leaves does not capture.
LEMMA RegistryStepKeeps ==
  ASSUME DibInv, NEW t \in Threads, LocalStep(t), Todo[1] \in {"publish", "release"}
  PROVE  DibInv'
<1>1. /\ Todo # <<>> /\ Todo \in Seq(Step) /\ Fits(Todo, published)
      /\ Continue("tuner", Tail(Todo))
      /\ UNCHANGED <<running, reports, ram, mask, xferLen, fwVersion, channels>>
  BY LocalGoes
<1>2. /\ published' = (Todo[1] = "publish") /\ published' \in BOOLEAN
      /\ captureOn' = captureOn /\ urbs' = urbs /\ doubt' = doubt
  BY LocalGoes, Types
<1>3. Tail(Todo) = <<>>
  BY <1>1, Types, Onward
<1>4. /\ <<>> \in Seq(Step) /\ Fits(<<>>, published')
      /\ InOrder(<<>>) /\ Loads(<<>>, running, ram) /\ Restarts(<<>>) /\ Tells(<<>>)
      /\ \A step : ~Has(<<>>, step) /\ ~Starts(<<>>, step)
  BY <1>2, NothingToDo
<1>5. TypeOK' /\ Locked' /\ ReadsItsRegister' /\ Purpose' /\ Todo' = <<>>
  BY <1>1, <1>3, <1>4, LocalTypes
<1>6. InOrder(Todo)' /\ Loads(Todo, running, ram)' /\ WholeFirmwareRuns'
  BY <1>1, <1>4, <1>5, Types DEF Plan, WholeFirmwareRuns
<1>7. ~Starts(Todo, "captureOn") /\ ~Starts(Todo, "captureOff")
  BY DEF Starts
<1>8. Todo[1] = "release" => ~captureOn
  <2> SUFFICES ASSUME Todo[1] = "release", captureOn PROVE FALSE
    OBVIOUS
  <2>1. Len(Todo) \in Nat \ {0}
    BY <1>1, Rest
  <2>2. Has(Todo, "release")
    BY <2>1 DEF Has
  <2>3. Has(Todo, "captureOff")
    BY <2>2, Types DEF Plan, Streams
  <2>4. Has(Tail(Todo), "captureOff")
    BY <1>1, <2>3, HasOnward
  <2> QED
    BY <1>3, <1>4, <2>4
<1>9. Streams'
  <2>1. captureOn' => published'
    BY <1>2, <1>8, Types
  <2>2. "stream" \notin doubt' => mask' = channels' /\ (mask' # {} <=> captureOn')
    BY <1>1, <1>2, <1>7, Types DEF Plan, Streams
  <2> QED
    BY <1>4, <1>5, <2>1, <2>2 DEF Streams
<1>10. Fresh' /\ Told'
  BY <1>1, <1>2, <1>4, <1>5, Types DEF Plan, Fresh, Told
<1> QED
  BY <1>5, <1>6, <1>9, <1>10 DEF DibInv, Plan

\* capture_on follows the switch.
LEMMA CaptureStepKeeps ==
  ASSUME DibInv, NEW t \in Threads, LocalStep(t),
         Todo[1] \in {"captureOn", "captureOff"}
  PROVE  DibInv'
<1>1. /\ Todo # <<>> /\ Todo \in Seq(Step)
      /\ Tail(Todo) \in Seq(Step) /\ Fits(Todo, published)
      /\ Fits(Tail(Todo), published)
      /\ Continue("tuner", Tail(Todo))
      /\ UNCHANGED <<running, reports, ram, mask, xferLen, fwVersion, channels>>
  BY LocalGoes
<1>2. /\ published' = published /\ urbs' = urbs /\ doubt' = doubt
      /\ captureOn' = (Todo[1] = "captureOn")
  BY LocalGoes, Types
<1>3. TypeOK' /\ Locked' /\ ReadsItsRegister' /\ Purpose' /\ Todo' = Tail(Todo)
  BY <1>1, <1>2, LocalTypes
<1>4. published
  BY <1>1, FitsFirst DEF OpenSteps
<1>5. /\ InOrder(Tail(Todo)) /\ Loads(Tail(Todo), running, ram)
      /\ Tells(Todo) => Tells(Tail(Todo))
      /\ Restarts(Todo) => Restarts(Tail(Todo))
      /\ ~Starts(Tail(Todo), "captureOn") /\ ~Starts(Tail(Todo), "captureOff")
      /\ Todo[1] = "captureOn" => Tail(Todo) = <<>>
  BY <1>1, Types, Onward
<1>6. InOrder(Todo)' /\ Loads(Todo, running, ram)' /\ WholeFirmwareRuns'
  BY <1>1, <1>3, <1>5, Types DEF Plan, WholeFirmwareRuns
<1>7. captureOn' => ~Has(Todo', "release")
  BY <1>2, <1>3, <1>5, NothingToDo
<1>8. "stream" \notin doubt => mask = channels /\ (mask # {} <=> Todo[1] = "captureOn")
  BY <1>1, <1>4, Types DEF Plan, Streams, Starts
<1>9. Streams'
  BY <1>1, <1>2, <1>3, <1>4, <1>5, <1>7, <1>8 DEF Streams
<1>10. Fresh'
  BY <1>1, <1>2, <1>3, <1>5, Types DEF Plan, Fresh
<1>11. Told'
  <2>1. CASE Todo[1] = "captureOff"
    BY <1>1, <1>2, <1>3, <1>5, <2>1, Types DEF Plan, Told
  <2>2. CASE Todo[1] = "captureOn"
    <3>1. Len(Todo) \in Nat \ {0}
      BY <1>1, Rest
    <3>2. ~Tells(Todo)
      BY <2>2, <3>1 DEF Tells
    <3>3. fwVersion = "new" => xferLen
      BY <3>2, Types DEF Plan, Told
    <3>4. fwVersion' = "new" => xferLen'
      BY <1>1, <3>3
    <3> QED
      BY <3>4, Types DEF Told
  <2> QED
    BY <2>1, <2>2
<1> QED
  BY <1>3, <1>6, <1>9, <1>10, <1>11 DEF DibInv, Plan

\* The switch begins the transfers that turn the stream on, if it is off.
LEMMA SwitchStepKeeps ==
  ASSUME DibInv, NEW t \in Threads, LocalStep(t), Todo[1] = "switch"
  PROVE  DibInv'
<1>1. /\ Todo # <<>> /\ Todo \in Seq(Step) /\ Fits(Todo, published)
      /\ Continue("tuner", Switch \o <<>>)
      /\ UNCHANGED <<running, reports, ram, mask, xferLen, fwVersion, channels>>
  BY LocalGoes
<1>2. published' = published /\ captureOn' = captureOn /\ urbs' = urbs /\ doubt' = doubt
  BY LocalGoes, Types
<1>3. published
  BY <1>1, FitsFirst DEF OpenSteps
<1>4. /\ <<>> \in Seq(Step) /\ Fits(<<>>, published')
      /\ InOrder(<<>>) /\ Loads(<<>>, running, ram) /\ Restarts(<<>>) /\ Tells(<<>>)
      /\ \A step : ~Has(<<>>, step) /\ ~Starts(<<>>, step)
  BY <1>2, Types, NothingToDo
<1>5. /\ Switch \in Seq(Step) /\ Fits(Switch, published') /\ InOrder(Switch)
      /\ Loads(Switch, running, ram) /\ (~captureOn /\ fwVersion = "new" => Tells(Switch))
      /\ (captureOn => Tells(Switch))
      /\ ~Has(Switch, "release")
      /\ ~Starts(Switch, "captureOn") /\ ~Starts(Switch, "captureOff")
  <2>1. CASE captureOn
    BY <1>4, <2>1, SwitchShape
  <2>2. CASE ~captureOn
    <3>1. /\ Switch \in Seq(TuneSteps) /\ Switch # <<>> /\ InOrder(Switch)
          /\ Switch[1] \notin {"captureOn", "captureOff"}
          /\ ~Has(Switch, "release")
          /\ Loads(Switch, running, ram)
          /\ fwVersion = "new" => Tells(Switch)
      BY <2>2, SwitchShape
    <3>2. Fits(Switch, published') /\ Switch \in Seq(Step)
      BY <1>2, <1>3, <3>1, StepsAreSteps DEF Fits
    <3> QED
      BY <2>2, <3>1, <3>2 DEF Starts
  <2> QED
    BY <2>1, <2>2
<1>6. Continue("tuner", Switch)
  <2>1. Switch \o <<>> = Switch
    BY <1>5, ConcatEmptySeq
  <2> QED
    BY <1>1, <2>1
<1>7. TypeOK' /\ Locked' /\ ReadsItsRegister' /\ Purpose' /\ Todo' = Switch
  BY <1>5, <1>6, LocalTypes
<1>8. InOrder(Todo)' /\ Loads(Todo, running, ram)' /\ WholeFirmwareRuns'
  BY <1>1, <1>5, <1>7, Types DEF Plan, WholeFirmwareRuns
<1>9. ~Starts(Todo, "captureOn") /\ ~Starts(Todo, "captureOff")
  BY DEF Starts
<1>10. Streams'
  BY <1>1, <1>2, <1>3, <1>5, <1>7, <1>9, Types DEF Plan, Streams
<1>11. Fresh'
  <2>1. Len(Todo) \in Nat \ {0}
    BY <1>1, Rest
  <2>2. ~Restarts(Todo)
    BY <2>1 DEF Restarts
  <2> QED
    BY <1>1, <1>2, <2>2, Types DEF Plan, Fresh
<1>12. Told'
  <2>1. fwVersion = "new" => Tells(Switch)
    BY <1>5
  <2> QED
    BY <1>1, <1>2, <1>7, <2>1, Types DEF Plan, Told
<1> QED
  BY <1>7, <1>8, <1>10, <1>11, <1>12 DEF DibInv, Plan

LEMMA LocalStepKeeps ==
  ASSUME DibInv, NEW t \in Threads, LocalStep(t)
  PROVE  DibInv'
<1>1. Todo[1] \in Local
  BY LocalGoes
<1> QED
  BY <1>1, UrbStepKeeps, RegistryStepKeeps, CaptureStepKeeps, SwitchStepKeeps
     DEF Local

LEMMA LocalFailureKeeps ==
  ASSUME DibInv, NEW t \in Threads, LocalFailure(t)
  PROVE  DibInv'
<1>1. /\ t = "tuner" /\ Todo # <<>> /\ Todo \in Seq(Step)
      /\ Todo[1] \in {"file", "pipe", "stream", "restart"}
      /\ th[t].todo = Todo /\ Head(th[t].todo) = Todo[1] /\ Tail(Todo) \in Seq(Step)
      /\ Fits(Todo, published) /\ Fits(Tail(Todo), published)
  BY OnlyTuner DEF LocalFailure
<1>2. ctrl # "tuner"
  BY <1>1, Unlocked DEF Reads, Writes, Vendor
<1>3. /\ UNCHANGED <<running, reports, ram, pointer, mask, xferLen, urbs,
                     published, fwVersion, channels, captureOn, ctrl>>
      /\ faults' \in 0..MaxFaults
  BY Types, FaultsCount DEF LocalFailure, device, engine
<1>4. PICK rest \in {<<>>, Tail(Todo)} : Continue(t, rest)
  BY <1>1, FailGoes DEF LocalFailure
<1>5. doubt' = IF Todo[1] = "restart" THEN doubt \union {"urbs"} ELSE doubt
  BY <1>1 DEF LocalFailure, Doing
<1>6. rest \in Seq(Step) /\ Fits(rest, published')
  BY <1>1, <1>3, <1>4, Types, NothingToDo
<1>7. Locked' /\ ReadsItsRegister' /\ Purpose' /\ Todo' = rest
  BY <1>1, <1>2, <1>3, <1>4, <1>6, TunerGoes
<1>8. doubt' \subseteq {"stream", "urbs"}
  BY <1>5, Types
<1>9. TypeOK'
  BY <1>3, <1>7, <1>8, Types, TypesAfter
<1>10. CASE Todo[1] # "restart"
  <2>1. doubt' = doubt
    BY <1>5, <1>10
  <2>2. CASE rest = <<>>
    <3>1. Todo' = <<>>
      BY <1>7, <2>2
    <3>2. Plan'
      BY <1>1, <1>3, <2>1, <3>1, Types, PlanEnds
    <3> QED
      BY <1>7, <1>9, <3>2 DEF DibInv
  <2>3. CASE rest = Tail(Todo)
    <3>1. Todo' = Tail(Todo)
      BY <1>7, <2>3
    <3>2. Plan'
      BY <1>1, <1>3, <1>10, <2>1, <3>1, Types, PlanOnward
    <3> QED
      BY <1>7, <1>9, <3>2 DEF DibInv
  <2> QED
    BY <1>4, <2>2, <2>3
<1>11. CASE Todo[1] = "restart"
  <2>1. "urbs" \in doubt' /\ ("stream" \in doubt' <=> "stream" \in doubt)
    BY <1>5, <1>11
  <2>2. /\ InOrder(rest) /\ Loads(rest, running, ram) /\ (Tells(Todo) => Tells(rest))
        /\ ~Starts(rest, "captureOn") /\ ~Starts(rest, "captureOff")
        /\ ~Starts(Todo, "captureOn") /\ ~Starts(Todo, "captureOff")
    <3>1. /\ InOrder(Tail(Todo)) /\ Loads(Tail(Todo), running, ram)
          /\ Tells(Todo) => Tells(Tail(Todo))
          /\ ~Starts(Tail(Todo), "captureOn") /\ ~Starts(Tail(Todo), "captureOff")
      BY <1>1, <1>11, Types, Onward
    <3>2. /\ InOrder(<<>>) /\ Loads(<<>>, running, ram) /\ Tells(<<>>)
          /\ ~Starts(<<>>, "captureOn") /\ ~Starts(<<>>, "captureOff")
      BY NothingToDo
    <3>3. ~Starts(Todo, "captureOn") /\ ~Starts(Todo, "captureOff")
      BY <1>11 DEF Starts
    <3> QED
      BY <1>4, <3>1, <3>2, <3>3
  <2>3. /\ Has(Todo, "captureOff") /\ Has(rest, "release") => Has(rest, "captureOff")
        /\ Has(rest, "release") => Has(Todo, "release")
    <3>1. /\ Has(Tail(Todo), "release") => Has(Todo, "release")
          /\ Has(Todo, "captureOff") => Has(Tail(Todo), "captureOff")
      BY <1>1, <1>11, HasOnward
    <3>2. ~Has(<<>>, "release")
      BY NothingToDo
    <3> QED
      BY <1>4, <3>1, <3>2
  <2>4. InOrder(Todo)' /\ Loads(Todo, running, ram)' /\ WholeFirmwareRuns'
    BY <1>3, <1>7, <2>2, Types DEF Plan, WholeFirmwareRuns
  <2>5. Streams'
    BY <1>1, <1>3, <1>7, <2>1, <2>2, <2>3, Types DEF Plan, Streams
  <2>6. Fresh'
    BY <2>1 DEF Fresh
  <2>7. Told'
    BY <1>3, <1>7, <2>2, Types DEF Plan, Told
  <2> QED
    BY <1>7, <1>9, <2>4, <2>5, <2>6, <2>7 DEF DibInv, Plan
<1> QED
  BY <1>10, <1>11

-----------------------------------------------------------------------------
(***************************************************************************)
(* The calls, the process and the device.                                  *)
(***************************************************************************)
\* A thread that is idle has nothing to do and holds nothing; its call becomes
\* what it has to do.
LEMMA CallGoes ==
  ASSUME DibInv, NEW t \in Threads, NEW work \in Seq(Step), work # <<>>, Call(t, work)
  PROVE  /\ th[t].todo = <<>> /\ ctrl # t /\ Continue(t, work)
         /\ UNCHANGED <<running, reports, ram, pointer, mask, xferLen, urbs,
                        ctrl, doubt, faults>>
         /\ Locked' /\ ReadsItsRegister'
<1>1. th[t].at = "idle"
  BY DEF Call
<1>2. th[t].todo = <<>> /\ ctrl # t
  BY <1>1 DEF DibInv, Locked
<1>3. Continue(t, work)
  BY DEF Call, Continue
<1>4. UNCHANGED <<running, reports, ram, pointer, mask, xferLen, urbs, ctrl,
                  doubt, faults>>
  BY DEF Call, device
<1>5. Locked' /\ ReadsItsRegister'
  BY <1>2, <1>3, <1>4, LockedOnward
<1> QED
  BY <1>2, <1>3, <1>4, <1>5

\* A call of the tuner on the device as the registry has it.
LEMMA CallKeeps ==
  ASSUME DibInv, NEW work, Call("tuner", work), Planned(work, published, running),
         ~Starts(work, "captureOn"), ~Starts(work, "captureOff"),
         captureOn /\ Has(work, "release") => Has(work, "captureOff"),
         fwVersion' \in {None, "old", "new"}, captureOn => fwVersion' = fwVersion,
         channels' \in SUBSET {0}, "stream" \notin doubt => mask = channels',
         UNCHANGED <<published, captureOn>>
  PROVE  DibInv'
<1>1. "tuner" \in Threads
  BY DEF Threads
<1>2. work \in Seq(Step) /\ work # <<>> /\ Fits(work, published')
  BY DEF Planned
<1>3. /\ th["tuner"].todo = <<>> /\ ctrl # "tuner" /\ Continue("tuner", work)
      /\ UNCHANGED <<running, reports, ram, pointer, mask, xferLen, urbs, ctrl,
                     doubt, faults>>
  BY <1>1, <1>2, CallGoes
<1>4. Locked' /\ ReadsItsRegister' /\ Purpose' /\ Todo' = work
  BY <1>2, <1>3, TunerGoes
<1>5. TypeOK'
  BY <1>3, <1>4, Types, TypesAfter
<1>6. ~Starts(Todo, "captureOn") /\ ~Starts(Todo, "captureOff")
  BY <1>3 DEF Starts, Todo
<1>7. Plan'
  BY <1>3, <1>4, <1>6, Types, PlanBegins
<1> QED
  BY <1>4, <1>5, <1>7 DEF DibInv

LEMMA OpenKeeps ==
  ASSUME DibInv, Open
  PROVE  DibInv'
<1>1. ~published /\ published = FALSE
  BY Types DEF Open
<1>2. Call("tuner", <<"isCold">>)
  BY DEF Open
<1>3. Planned(<<"isCold">>, published, running)
  BY <1>1, OpenPlanned
<1>4. ~captureOn
  BY <1>1, Types DEF Plan, Streams
<1>5. th["tuner"].todo = <<>>
  BY <1>2 DEF DibInv, Locked, Call, Threads
<1>6. "stream" \notin doubt => mask = {}
  BY <1>4, <1>5, Types DEF Plan, Streams, Starts, Todo
<1>7. UNCHANGED <<published, captureOn>> /\ fwVersion' = None /\ channels' = {}
  BY <1>4, Types DEF Open
<1>8. /\ ~Starts(<<"isCold">>, "captureOn") /\ ~Starts(<<"isCold">>, "captureOff")
  BY DEF Starts
<1>9. fwVersion' \in {None, "old", "new"} /\ channels' \in SUBSET {0}
  BY <1>7
<1>10. "stream" \notin doubt => mask = channels'
  BY <1>6, <1>7
<1> QED
  BY <1>2, <1>3, <1>4, <1>7, <1>8, <1>9, <1>10, CallKeeps

\* A call on a device that is in the registry.
LEMMA UseKeeps ==
  ASSUME DibInv, NEW work, Use("tuner", work), Planned(work, TRUE, running),
         ~Starts(work, "captureOn"), ~Starts(work, "captureOff"),
         captureOn /\ Has(work, "release") => Has(work, "captureOff")
  PROVE  DibInv'
<1>1. published /\ published = TRUE /\ Call("tuner", work)
  BY Types DEF Use
<1>2. UNCHANGED <<published, fwVersion, channels, captureOn>>
  BY DEF Use, engine
<1>3. "stream" \notin doubt => mask = channels'
  BY <1>1, <1>2, Types DEF Plan, Streams
<1>4. fwVersion' \in {None, "old", "new"} /\ channels' \in SUBSET {0}
  BY <1>2, Types
<1> QED
  BY <1>1, <1>2, <1>3, <1>4, CallKeeps

LEMMA TuneKeeps ==
  ASSUME DibInv, Tune
  PROVE  DibInv'
<1>1. Planned(Tuning, TRUE, running)
  BY TunePlanned
<1>2. Tuning[1] = "updateCfg" /\ ~Has(Tuning, "release")
  <2>1. /\ Len(Tuning) = 3 /\ Tuning[1] = "updateCfg" /\ Tuning[2] = "restart"
        /\ Tuning[3] = "switch"
    BY DEF Tuning
  <2> HIDE DEF Tuning
  <2>2. \A i \in 1..3 : i = 1 \/ i = 2 \/ i = 3
    OBVIOUS
  <2> QED
    BY <2>1, <2>2 DEF Has
<1>3. ~Starts(Tuning, "captureOn") /\ ~Starts(Tuning, "captureOff")
  BY <1>2 DEF Starts
<1>4. Use("tuner", Tuning)
  BY DEF Tune
<1> QED
  BY <1>1, <1>2, <1>3, <1>4, UseKeeps

LEMMA CaptureStopKeeps ==
  ASSUME DibInv, CaptureStop
  PROVE  DibInv'
<1>1. /\ Planned(Stopping, TRUE, running)
      /\ ~Has(Stopping, "release") /\ Stopping[1] = "disable"
  BY StopPlanned
<1>2. ~Starts(Stopping, "captureOn") /\ ~Starts(Stopping, "captureOff")
  BY <1>1 DEF Starts
<1>3. Use("tuner", Stopping)
  BY DEF CaptureStop
<1> QED
  BY <1>1, <1>2, <1>3, UseKeeps

LEMMA ShutdownKeeps ==
  ASSUME DibInv, Shutdown
  PROVE  DibInv'
<1>1. /\ Planned(Closing, TRUE, running)
      /\ captureOn => Has(Closing, "captureOff")
      /\ Closing[1] \notin {"captureOn", "captureOff"}
  BY ClosePlanned
<1>2. ~Starts(Closing, "captureOn") /\ ~Starts(Closing, "captureOff")
  BY <1>1 DEF Starts
<1>3. Use("tuner", Closing)
  BY DEF Shutdown
<1> QED
  BY <1>1, <1>2, <1>3, UseKeeps

LEMMA GetStatusKeeps ==
  ASSUME DibInv, GetStatus
  PROVE  DibInv'
<1> DEFINE work == <<"readStatus">>
<1>1. work \in Seq({"readStatus"}) /\ work # <<>>
  OBVIOUS
<1>2. work \in Seq(Step) /\ "poller" \in Threads /\ "tuner" \in Threads
  BY <1>1, StepsAreSteps DEF Threads
<1>3. Call("poller", work) /\ UNCHANGED <<published, fwVersion, channels,
                                          captureOn>>
  BY DEF GetStatus, Use, engine
<1> HIDE DEF work
<1>4. /\ Continue("poller", work) /\ Locked' /\ ReadsItsRegister'
      /\ UNCHANGED <<running, reports, ram, pointer, mask, xferLen, urbs, ctrl,
                     doubt, faults>>
  BY <1>1, <1>2, <1>3, CallGoes
<1>5. th'["poller"].todo = work /\ th'["tuner"] = th["tuner"]
  BY <1>2, <1>4, Continues DEF DibInv, Locked
<1>6. Todo' = Todo
  BY <1>5 DEF Todo
<1>7. Purpose'
  BY <1>1, <1>3, <1>5, <1>6 DEF DibInv, Purpose
<1>8. TypeOK'
  BY <1>3, <1>4, Types, TypesAfter
<1>9. Plan'
  BY <1>3, <1>4, <1>6, Types, PlanStays
<1> QED
  BY <1>4, <1>7, <1>8, <1>9 DEF DibInv

\* Two threads with nothing to do.
LEMMA AllIdle ==
  ASSUME NEW f, f = [t \in Threads |-> Idle], NEW lock, lock = None
  PROVE  /\ f \in [Threads -> ThreadRecord]
         /\ f["tuner"].todo = <<>> /\ f["poller"].todo = <<>>
         /\ \A t \in Threads :
               /\ f[t].at = "idle" <=> f[t].todo = <<>>
               /\ f[t].at \in {"first", "second", "vendor"} <=> lock = t
               /\ f[t].at = "idle"
<1>1. Idle.todo = <<>> /\ Idle.at = "idle"
  BY DEF Idle
<1>2. <<>> \in Seq(Step)
  BY EmptySeq
<1>3. Idle \in ThreadRecord
  BY <1>2 DEF Idle, ThreadRecord
<1>4. \A t \in Threads : f[t] = Idle
  OBVIOUS
<1>5. "tuner" \in Threads /\ "poller" \in Threads
  BY DEF Threads
<1>6. \A t \in Threads : lock # t
  BY DibAssumption DEF Threads
<1> QED
  BY <1>1, <1>3, <1>4, <1>5, <1>6

LEMMA EndProcessKeeps ==
  ASSUME DibInv, EndProcess
  PROVE  DibInv'
<1>1. /\ th' = [t \in Threads |-> Idle] /\ ctrl' = None
      /\ published' = FALSE /\ urbs' = "none" /\ captureOn' = FALSE
      /\ doubt' = IF mask # {} THEN {"stream"} ELSE {}
      /\ UNCHANGED <<running, reports, ram, pointer, mask, xferLen, fwVersion,
                     channels, faults>>
  BY DEF EndProcess
<1>2. /\ th' \in [Threads -> ThreadRecord]
      /\ th'["tuner"].todo = <<>> /\ th'["poller"].todo = <<>>
      /\ \A t \in Threads :
            /\ th'[t].at = "idle" <=> th'[t].todo = <<>>
            /\ th'[t].at \in {"first", "second", "vendor"} <=> ctrl' = t
            /\ th'[t].at = "idle"
  BY <1>1, AllIdle
<1>3. Locked' /\ ReadsItsRegister'
  BY <1>2 DEF Locked, ReadsItsRegister
<1>4. /\ <<>> \in Seq({"readStatus"}) /\ Fits(<<>>, FALSE)
      /\ InOrder(<<>>) /\ Loads(<<>>, running, ram) /\ Restarts(<<>>) /\ Tells(<<>>)
      /\ \A step : ~Has(<<>>, step) /\ ~Starts(<<>>, step)
  BY NothingToDo
<1>5. Todo' = <<>>
  BY <1>2 DEF Todo
<1>6. Purpose'
  BY <1>1, <1>2, <1>4, <1>5 DEF Purpose
<1>7. TypeOK'
  <2>1. doubt' \subseteq {"stream", "urbs"}
    BY <1>1
  <2> QED
    BY <1>1, <1>3, <2>1, Types, TypesAfter
<1>8. InOrder(Todo)' /\ Loads(Todo, running, ram)' /\ WholeFirmwareRuns'
  BY <1>1, <1>4, <1>5, Types DEF Plan, WholeFirmwareRuns
<1>9. "stream" \notin doubt' => mask' = {}
  BY <1>1
<1>10. Streams'
  BY <1>1, <1>4, <1>5, <1>9 DEF Streams
<1>11. Fresh' /\ Told'
  BY <1>1, <1>4, <1>5 DEF Fresh, Told
<1> QED
  BY <1>3, <1>6, <1>7, <1>8, <1>10, <1>11 DEF DibInv, Plan

LEMMA PowerCycleKeeps ==
  ASSUME DibInv, PowerCycle
  PROVE  DibInv'
<1>1. /\ ~published /\ th["tuner"].at = "idle"
      /\ running' = None /\ reports' = None /\ ram' = 0
      /\ mask' = {} /\ xferLen' = FALSE /\ doubt' = {}
      /\ UNCHANGED <<pointer, urbs, published, fwVersion, channels, captureOn, th,
                     ctrl, faults>>
  BY DEF PowerCycle, engine
<1>2. Todo = <<>>
  BY <1>1 DEF DibInv, Locked, Threads, Todo
<1>3. Todo' = <<>>
  BY <1>1, <1>2 DEF Todo
<1>4. /\ InOrder(<<>>) /\ Loads(<<>>, None, 0) /\ Restarts(<<>>) /\ Tells(<<>>)
      /\ \A step : ~Has(<<>>, step) /\ ~Starts(<<>>, step)
  BY NothingToDo
<1>5. ~captureOn
  BY <1>1, Types DEF Plan, Streams
<1>6. Locked' /\ ReadsItsRegister' /\ Purpose'
  BY <1>1 DEF DibInv, Locked, ReadsItsRegister, Purpose, Todo
<1>7. TypeOK'
  <2>1. /\ running' \in 0..NumRecords \union {None} /\ ram' \in 0..NumRecords
        /\ mask' \in SUBSET {0} /\ xferLen' \in BOOLEAN
        /\ doubt' \subseteq {"stream", "urbs"}
    <3>1. 0 \in 0..NumRecords /\ None \in 0..NumRecords \union {None}
      BY DibAssumption
    <3>2. {} \in SUBSET {0} /\ {} \subseteq {"stream", "urbs"} /\ FALSE \in BOOLEAN
      OBVIOUS
    <3> QED
      BY <1>1, <3>1, <3>2
  <2>2. /\ pointer' \in {"id", "cfg", "status"} /\ urbs' \in {"none", "fresh", "old"}
        /\ channels' \in SUBSET {0} /\ ctrl' \in Threads \union {None}
        /\ faults' \in 0..MaxFaults
    BY <1>1, Types
  <2>3. /\ published' \in BOOLEAN /\ captureOn' \in BOOLEAN
        /\ reports' \in {None, "old", "new"} /\ fwVersion' \in {None, "old", "new"}
    BY <1>1, Types
  <2> QED
    BY ONLY <1>6, <2>1, <2>2, <2>3, TypesAfter
<1>8. InOrder(Todo)' /\ Loads(Todo, running, ram)' /\ WholeFirmwareRuns'
  BY <1>1, <1>3, <1>4 DEF WholeFirmwareRuns
<1>9. Streams'
  BY <1>1, <1>3, <1>4, <1>5 DEF Streams
<1>10. Fresh' /\ Told'
  BY <1>1, <1>3, <1>4, <1>5 DEF Fresh, Told
<1> QED
  BY <1>6, <1>7, <1>8, <1>9, <1>10 DEF DibInv, Plan

LEMMA ThreadKeeps ==
  ASSUME DibInv, NEW t \in Threads, Thread(t)
  PROVE  DibInv'
<1>1. CASE Enter(t)
  BY <1>1, EnterKeeps
<1>2. CASE LocalStep(t)
  BY <1>2, LocalStepKeeps
<1>3. CASE LocalFailure(t)
  BY <1>3, LocalFailureKeeps
<1>4. ASSUME NEW out \in Outcome, IsCold(t, out) PROVE DibInv'
  BY <1>4, IsColdKeeps
<1>5. ASSUME NEW out \in Outcome, Record(t, out) PROVE DibInv'
  BY <1>5, RecordKeeps
<1>6. ASSUME NEW out \in Outcome, Jump(t, out) PROVE DibInv'
  BY <1>6, JumpKeeps
<1>7. ASSUME NEW out \in Outcome, Version(t, out) PROVE DibInv'
  BY <1>7, VersionKeeps
<1>8. ASSUME NEW out \in Outcome, FirstMessage(t, out) PROVE DibInv'
  BY <1>8, FirstMessageKeeps
<1>9. ASSUME NEW out \in Outcome, VendorWrite(t, out) PROVE DibInv'
  BY <1>9, VendorWriteKeeps
<1>10. ASSUME NEW out \in Outcome, NEW equal \in BOOLEAN, SecondMessage(t, out, equal)
       PROVE  DibInv'
  BY <1>10, SecondMessageKeeps
<1> QED
  BY <1>1, <1>2, <1>3, <1>4, <1>5, <1>6, <1>7, <1>8, <1>9, <1>10 DEF Thread

LEMMA InitEstablishes ==
  ASSUME Init
  PROVE  DibInv
<1>1. /\ th \in [Threads -> ThreadRecord]
      /\ th["tuner"].todo = <<>> /\ th["poller"].todo = <<>>
      /\ \A t \in Threads :
            /\ th[t].at = "idle" <=> th[t].todo = <<>>
            /\ th[t].at \in {"first", "second", "vendor"} <=> ctrl = t
            /\ th[t].at = "idle"
  BY AllIdle DEF Init
<1>2. Locked /\ ReadsItsRegister
  BY <1>1 DEF Locked, ReadsItsRegister
<1>3. /\ <<>> \in Seq({"readStatus"}) /\ Fits(<<>>, FALSE)
      /\ InOrder(<<>>) /\ Loads(<<>>, running, ram) /\ Restarts(<<>>) /\ Tells(<<>>)
      /\ \A step : ~Has(<<>>, step) /\ ~Starts(<<>>, step)
  BY NothingToDo
<1>4. Todo = <<>>
  BY <1>1 DEF Todo
<1>5. Purpose
  BY <1>1, <1>3, <1>4 DEF Init, Purpose
<1>6. TypeOK
  <2>1. ASSUME NEW t \in Threads
        PROVE  /\ th[t].at \in {"idle", "next", "first", "second", "vendor"}
               /\ \A i \in DOMAIN th[t].todo :
                     th[t].todo[i] \in Reads \union Writes \union Vendor \union Boot
                                       \union Local
               /\ th[t].at = "idle" <=> th[t].todo = <<>>
    BY <1>1, ThreadTypes
  <2>2. 0 \in 0..NumRecords /\ 0 \in 0..MaxFaults
    BY DibAssumption
  <2> QED
    BY <2>1, <2>2 DEF Init, TypeOK
<1>7. Plan
  BY <1>3, <1>4 DEF Init, Plan, WholeFirmwareRuns, Streams, Fresh, Told
<1> QED
  BY <1>2, <1>5, <1>6, <1>7 DEF DibInv

LEMMA StutterKeeps ==
  ASSUME DibInv, UNCHANGED vars
  PROVE  DibInv'
<1>1. /\ UNCHANGED <<running, reports, ram, pointer, mask, xferLen, urbs,
                     published, fwVersion, channels, captureOn, doubt, faults>>
      /\ th' = th /\ ctrl' = ctrl
  BY DEF vars, device, engine
<1>2. Todo' = Todo
  BY <1>1 DEF Todo
<1>3. Locked' /\ ReadsItsRegister' /\ Purpose'
  BY <1>1, <1>2 DEF DibInv, Locked, ReadsItsRegister, Purpose
<1>4. Plan'
  BY <1>1, <1>2, Types, PlanStays
<1>5. TypeOK'
  BY <1>1, <1>3, Types, TypesAfter
<1> QED
  BY <1>3, <1>4, <1>5 DEF DibInv

LEMMA NextKeeps ==
  ASSUME DibInv, [Next]_vars
  PROVE  DibInv'
<1>1. ASSUME NEW t \in Threads, Thread(t) PROVE DibInv'
  BY <1>1, ThreadKeeps
<1> QED
  BY <1>1, OpenKeeps, TuneKeeps, GetStatusKeeps, CaptureStopKeeps, ShutdownKeeps,
     EndProcessKeeps, PowerCycleKeeps, StutterKeeps DEF Next

LEMMA Invariance == Spec => []DibInv
BY InitEstablishes, NextKeeps, PTL DEF Spec

-----------------------------------------------------------------------------
\* Every variable has the type TypeOK gives it: no download runs past the records
\* of the firmware, no call past its end.
THEOREM TypeCorrect == Spec => []TypeOK
<1>1. DibInv => TypeOK
  BY DEF DibInv
<1> QED
  BY <1>1, Invariance, PTL

\* However often a download is interrupted and tried again, the jump is sent only
\* when the boot loader has every record (dib0700_download_firmware).
THEOREM WholeFirmware == Spec => []WholeFirmwareRuns
<1>1. DibInv => WholeFirmwareRuns
  BY DEF DibInv, Plan
<1> QED
  BY <1>1, Invariance, PTL

\* ctrl_lock around both messages keeps the register pointer of the chip for the
\* thread that set it (regmap_read over dib0700_i2c_master_xfer).
THEOREM RegisterReads == Spec => []ReadsItsRegister
<1>1. DibInv => ReadsItsRegister
  BY DEF DibInv
<1> QED
  BY <1>1, Invariance, PTL

\* Between calls the bridge streams what channel_state and capture_on say, unless
\* a transfer of streaming_ctrl failed last or an earlier process left it on.
THEOREM StreamFollowsCapture == Spec => []StreamMatchesCapture
<1>1. DibInv => StreamMatchesCapture
  <2> SUFFICES ASSUME DibInv, \A t \in Threads : th[t].at = "idle", "stream" \notin doubt
               PROVE  (mask # {} <=> captureOn) /\ (published => mask = channels)
    BY DEF StreamMatchesCapture
  <2>1. Todo = <<>>
    BY DEF DibInv, Locked, Threads, Todo
  <2>2. ~Starts(Todo, "captureOn") /\ ~Starts(Todo, "captureOff")
    BY <2>1 DEF Starts
  <2> QED
    BY <2>2, Types DEF Plan, Streams
<1> QED
  BY <1>1, Invariance, PTL

\* The endpoint is switched on over fresh URBs only (dib_v_tune).
THEOREM FreshUrbs == Spec => []EnabledOnFreshUrbs
<1>1. DibInv => EnabledOnFreshUrbs
  <2> SUFFICES ASSUME DibInv, mask # {}, "urbs" \notin doubt
               PROVE  urbs # "old"
    BY DEF EnabledOnFreshUrbs
  <2> QED
    BY Types DEF Plan, Fresh
<1> QED
  BY <1>1, Invariance, PTL

-----------------------------------------------------------------------------
(***************************************************************************)
(* What the engine knows of the firmware.  Knows is inductive relative to  *)
(* DibInv: no version is known before the firmware that answers is the one *)
(* that stays, a version that is known is the one the firmware answers     *)
(* with, and the request for the length is about to be sent, or was sent,  *)
(* only where that is one that takes it.                                   *)
(***************************************************************************)
Knows ==
    /\ running = None => reports = None
    /\ Has(Todo, "jump") => fwVersion = None
    /\ Has(Todo, "isCold") => fwVersion = None /\ Todo = <<"isCold">>
    /\ published \/ Todo # <<>> => fwVersion \in {None, reports}
    /\ Has(Todo, "xferLen") => fwVersion = "new"
    /\ xferLen => reports = "new"

LEMMA Lacks ==
  ASSUME NEW S, NEW s \in Seq(S), NEW step, step \notin S
  PROVE  ~Has(s, step)
<1>1. \A i \in 1..Len(s) : s[i] \in S
  BY ElementOfSeq
<1> QED
  BY <1>1 DEF Has

LEMMA KnowsOnward ==
  ASSUME Knows, UNCHANGED <<running, reports, xferLen, fwVersion>>,
         published' \/ Todo' # <<>> => published \/ Todo # <<>>,
         Has(Todo', "xferLen") => Has(Todo, "xferLen"),
         Has(Todo', "jump") => Has(Todo, "jump"),
         Has(Todo', "isCold") => Todo' = Todo
  PROVE  Knows'
BY DEF Knows

\* A step that goes on with a call, or gives it up, adds none of these to it.
LEMMA Shrinks ==
  ASSUME DibInv, Knows, NEW t \in Threads, th[t].todo # <<>>,
         NEW rest, Continue(t, rest),
         rest \in {<<>>, Tail(th[t].todo)} \/
            (t = "tuner" /\ th[t].todo[1] = "updateCfg" /\
                rest = <<"writeCfg">> \o Tail(th[t].todo))
  PROVE  /\ Todo' # <<>> => Todo # <<>>
         /\ t = "tuner" => Todo # <<>>
         /\ Has(Todo', "xferLen") => Has(Todo, "xferLen")
         /\ Has(Todo', "jump") => Has(Todo, "jump")
         /\ Has(Todo', "isCold") => Todo' = Todo
<1>1. th[t].todo \in Seq(Step) /\ Tail(th[t].todo) \in Seq(Step)
  BY AtWork
<1>2. "writeCfg" \in Step
  BY DEF Step, Writes
<1>3. rest \in Seq(Step)
  BY <1>1, <1>2, Rewritten, NothingToDo
<1>4. th'[t].todo = rest /\ \A u \in Threads : u # t => th'[u] = th[u]
  BY <1>3, Continues DEF DibInv, Locked
<1>5. CASE t # "tuner"
  <2>1. Todo' = Todo
    BY <1>4, <1>5 DEF Todo, Threads
  <2> QED
    BY <1>5, <2>1
<1>6. CASE t = "tuner"
  <2>1. Todo = th[t].todo /\ Todo' = rest
    BY <1>4, <1>6 DEF Todo
  <2>2. CASE rest = <<>>
    <3>1. \A step : ~Has(<<>>, step)
      BY NothingToDo
    <3> QED
      BY <2>1, <2>2, <3>1
  <2>3. CASE rest = Tail(Todo)
    <3>1. \A step : Has(Tail(Todo), step) => Has(Todo, step)
      BY <1>1, <2>1, HasOnward
    <3>2. ~Has(Tail(Todo), "isCold")
      <4>0. Tail(<<"isCold">>) = <<>>
        OBVIOUS
      <4>1. Has(Todo, "isCold") => Tail(Todo) = <<>>
        BY <4>0 DEF Knows
      <4>2. ~Has(<<>>, "isCold")
        BY NothingToDo
      <4> QED
        BY <3>1, <4>1, <4>2
    <3> QED
      BY <2>1, <2>3, <3>1, <3>2
  <2>4. CASE Todo[1] = "updateCfg" /\ rest = <<"writeCfg">> \o Tail(Todo)
    <3>1. Rewrites(rest, Todo)
      BY <1>1, <1>2, <2>1, <2>4, Rewritten
    <3>2. /\ Has(rest, "xferLen") => Has(Todo, "xferLen")
          /\ Has(rest, "jump") => Has(Todo, "jump")
          /\ Has(rest, "isCold") => Has(Todo, "isCold")
      BY <1>1, <2>1, <2>4, <3>1, HasRewrite
    <3>3. ~Has(Todo, "isCold")
      BY <2>4 DEF Knows
    <3> QED
      BY <2>1, <3>2, <3>3
  <2> QED
    BY <2>1, <2>2, <2>3, <2>4
<1> QED
  BY <1>5, <1>6

\* A step of a call that leaves what is known and told alone.
LEMMA CallKnows ==
  ASSUME DibInv, Knows, NEW t \in Threads, th[t].todo # <<>>,
         NEW rest, Continue(t, rest),
         rest \in {<<>>, Tail(th[t].todo)} \/
            (t = "tuner" /\ th[t].todo[1] = "updateCfg" /\
                rest = <<"writeCfg">> \o Tail(th[t].todo)),
         published' = published \/ t = "tuner",
         UNCHANGED <<running, reports, xferLen, fwVersion>>
  PROVE  Knows'
<1>1. /\ Todo' # <<>> => Todo # <<>>
      /\ t = "tuner" => Todo # <<>>
      /\ Has(Todo', "xferLen") => Has(Todo, "xferLen")
      /\ Has(Todo', "jump") => Has(Todo, "jump")
      /\ Has(Todo', "isCold") => Todo' = Todo
  BY Shrinks
<1> QED
  BY <1>1, KnowsOnward

\* A step inside a transfer leaves the call what it is.
LEMMA InsideKnows ==
  ASSUME DibInv, Knows, NEW t \in Threads, NEW a \in {"first", "second", "vendor"},
         th' = [th EXCEPT ![t].at = a],
         UNCHANGED <<running, reports, xferLen, fwVersion, published>>
  PROVE  Knows'
<1>1. th'[t].todo = th[t].todo /\ \A u \in Threads : u # t => th'[u] = th[u]
  BY Moves DEF DibInv, Locked
<1>2. \A u \in Threads : th'[u].todo = th[u].todo
  BY <1>1
<1>3. Todo' = Todo
  BY <1>2 DEF Todo, Threads
<1> QED
  BY <1>3, KnowsOnward

LEMMA MessagesKnow ==
  ASSUME DibInv, Knows, NEW t \in Threads, NEW out, NEW equal \in BOOLEAN,
         Enter(t) \/ FirstMessage(t, out) \/ SecondMessage(t, out, equal)
  PROVE  Knows'
<1>1. UNCHANGED <<running, reports, xferLen, fwVersion, published>>
  BY DEF Enter, FirstMessage, SecondMessage, device, engine
<1>2. CASE Enter(t)
  <2>1. \E a \in {"first", "second", "vendor"} : th' = [th EXCEPT ![t].at = a]
    BY <1>2 DEF Enter
  <2> QED
    BY <1>1, <2>1, InsideKnows
<1>3. CASE FirstMessage(t, out) \/ SecondMessage(t, out, equal)
  <2>1. /\ th[t].todo # <<>> /\ Head(th[t].todo) = th[t].todo[1]
        /\ th[t].todo[1] \in Reads \union Writes
    BY <1>3, Holding DEF FirstMessage, SecondMessage
  <2>2. CASE Fail(t)
    <3>1. PICK rest \in {<<>>, Tail(th[t].todo)} : Continue(t, rest)
      BY <2>1, <2>2, FailGoes
    <3> QED
      BY <1>1, <2>1, <3>1, CallKnows
  <2>3. CASE Proceed(t)
    BY <1>1, <2>1, <2>3, CallKnows DEF Proceed
  <2>4. CASE FirstMessage(t, out) /\ ~Fail(t) /\ ~Proceed(t)
    <3>1. th' = [th EXCEPT ![t].at = "second"]
      BY <2>4 DEF FirstMessage
    <3> QED
      BY <1>1, <3>1, InsideKnows
  <2>5. CASE SecondMessage(t, out, equal) /\ ~Fail(t) /\ ~Proceed(t)
    <3>1. /\ Continue(t, <<"writeCfg">> \o Tail(th[t].todo))
          /\ th[t].todo[1] = "updateCfg"
      BY <2>1, <2>5 DEF SecondMessage, Doing
    <3>2. t = "tuner"
      BY <2>1, <3>1, AtWork DEF Threads
    <3> QED
      BY <1>1, <2>1, <3>1, <3>2, CallKnows
  <2> QED
    BY <1>3, <2>2, <2>3, <2>4, <2>5
<1> QED
  BY <1>2, <1>3

\* The steps of a bring-up look at the firmware once only, before all else.
LEMMA OpenLooksOnce ==
  ASSUME NEW rest \in {BringUp, Download \o BringUp}
  PROVE  ~Has(rest, "isCold") /\ ~Has(rest, "xferLen")
<1> DEFINE Others == OpenSteps \ {"isCold"}
<1>1. BringUp \in Seq(Others)
  <2>1. PICK front \in Seq(Probing) : BringUp = front \o <<"publish">>
    BY BringUpSteps
  <2>2. Probing \subseteq Others /\ "publish" \in Others
    BY DEF Probing, OpenSteps
  <2>3. front \in Seq(Others) /\ <<"publish">> \in Seq(Others)
    BY <2>2, SeqMonotonic
  <2> HIDE DEF Others
  <2> QED
    BY <2>1, <2>3, ConcatProperties
<1>2. Download \in Seq(Others)
  <2>1. /\ "file" \in Others /\ "record" \in Others /\ "jump" \in Others
        /\ NumRecords \in Nat \ {0}
    BY DibAssumption DEF OpenSteps
  <2> HIDE DEF Others
  <2> DEFINE f == <<"file">>
             r == [i \in 1..NumRecords |-> "record"]
             j == <<"jump">>
  <2>2. f \in Seq(Others) /\ r \in Seq(Others) /\ j \in Seq(Others)
    BY <2>1
  <2>3. Download = (f \o r) \o j
    BY DEF Download
  <2> HIDE DEF f, r, j
  <2>4. f \o r \in Seq(Others)
    BY <2>2, ConcatProperties
  <2> QED
    BY <2>2, <2>3, <2>4, ConcatProperties
<1>3. "isCold" \notin Others /\ "xferLen" \notin Others
  BY DEF OpenSteps
<1> HIDE DEF Others
<1>4. rest \in Seq(Others)
  BY <1>1, <1>2, ConcatProperties
<1> QED
  BY <1>3, <1>4, Lacks

LEMMA IsColdKnows ==
  ASSUME DibInv, Knows, NEW t \in Threads, NEW out, IsCold(t, out)
  PROVE  Knows'
<1>1. t = "tuner" /\ Todo # <<>> /\ Todo \in Seq(Step) /\ Todo[1] = "isCold"
  BY OnlyTuner DEF IsCold
<1>2. UNCHANGED <<running, reports, xferLen, fwVersion, published>>
  BY DEF IsCold, device, engine
<1>3. PICK rest \in {BringUp, Download \o BringUp} : Continue(t, rest)
  BY DEF IsCold
<1>4. rest \in Seq(Step)
  BY <1>3, BringUpPlanned, ColdBootPlanned DEF Planned
<1>5. Todo' = rest
  BY <1>1, <1>3, <1>4, Continues DEF DibInv, Locked, Todo
<1>6. ~Has(Todo', "isCold") /\ ~Has(Todo', "xferLen")
  BY <1>3, <1>5, OpenLooksOnce
<1>7. Has(Todo, "isCold")
  <2>1. Len(Todo) \in Nat \ {0}
    BY <1>1, Rest
  <2>2. 1 \in 1..Len(Todo)
    BY <2>1
  <2> QED
    BY <1>1, <2>2 DEF Has
<1>8. fwVersion = None
  BY <1>7 DEF Knows
<1> QED
  BY <1>2, <1>6, <1>8 DEF Knows

\* The records, and local calls that fail.
LEMMA LoadingKnows ==
  ASSUME DibInv, Knows, NEW t \in Threads, NEW out,
         Record(t, out) \/ LocalFailure(t)
  PROVE  Knows'
<1>1. UNCHANGED <<running, reports, xferLen, fwVersion, published>>
  BY DEF Record, LocalFailure, device, engine
<1>2. th[t].todo # <<>>
  BY Busy DEF Record, LocalFailure
<1>3. CASE Fail(t)
  <2>1. PICK rest \in {<<>>, Tail(th[t].todo)} : Continue(t, rest)
    BY <1>2, <1>3, FailGoes
  <2> QED
    BY <1>1, <1>2, <2>1, CallKnows
<1>4. CASE Proceed(t)
  BY <1>1, <1>2, <1>4, CallKnows DEF Proceed
<1> QED
  BY <1>3, <1>4 DEF Record, AfterRecord, LocalFailure

\* Whatever version the new firmware is, nothing was known or told before it.
LEMMA JumpKnows ==
  ASSUME DibInv, Knows, NEW t \in Threads, NEW out, Jump(t, out)
  PROVE  Knows'
<1>1. /\ t = "tuner" /\ Todo # <<>> /\ Todo \in Seq(Step) /\ Todo[1] = "jump"
      /\ th[t].todo = Todo
  BY OnlyTuner DEF Jump
<1>2. UNCHANGED <<xferLen, fwVersion, published>>
  BY DEF Jump, engine
<1>3. PICK rest \in {<<>>, Tail(Todo)} : Continue(t, rest)
  <2>1. CASE out = "done"
    BY <1>1, <2>1 DEF Jump, Proceed
  <2>2. CASE out # "done"
    BY <1>1, <2>2, FailGoes DEF Jump
  <2> QED
    BY <2>1, <2>2
<1>4. /\ Has(Todo', "xferLen") => Has(Todo, "xferLen")
      /\ Has(Todo', "isCold") => Todo' = Todo
  BY <1>1, <1>3, Shrinks
<1>5. Has(Todo, "jump")
  <2>1. Len(Todo) \in Nat \ {0}
    BY <1>1, Rest
  <2>2. 1 \in 1..Len(Todo)
    BY <2>1
  <2> QED
    BY <1>1, <2>2 DEF Has
<1>6. fwVersion = None /\ ~Has(Todo, "xferLen")
  BY <1>5, DibAssumption DEF Knows
<1>7. CASE UNCHANGED <<running, reports>>
  BY <1>2, <1>4, <1>6, <1>7 DEF Knows
<1>8. CASE running = None /\ running' = ram
  <2>1. ~xferLen
    BY <1>8, DibAssumption DEF Knows
  <2>2. running' # None
    <3>1. ram \in Nat
      BY Types
    <3> QED
      BY <1>8, <3>1, DibAssumption
  <2> QED
    BY <1>2, <1>4, <1>6, <2>1, <2>2 DEF Knows
<1> QED
  BY <1>7, <1>8 DEF Jump

\* The version that is read is that of the firmware that stays.
LEMMA VersionKnows ==
  ASSUME DibInv, Knows, NEW t \in Threads, NEW out, Version(t, out)
  PROVE  Knows'
<1>1. /\ t = "tuner" /\ Todo # <<>> /\ Todo \in Seq(Step) /\ Todo[1] = "version"
      /\ th[t].todo = Todo /\ Fits(Todo, published)
  BY OnlyTuner DEF Version
<1>2. UNCHANGED <<running, reports, xferLen, published>>
  BY DEF Version, device
<1>3. Continue(t, Tail(Todo))
  BY <1>1 DEF Version, Proceed
<1>4. /\ Has(Todo', "xferLen") => Has(Todo, "xferLen")
      /\ Has(Todo', "jump") => Has(Todo, "jump")
      /\ Has(Todo', "isCold") => Todo' = Todo
  BY <1>1, <1>3, Shrinks
<1>5. ~Has(Todo, "xferLen")
  <2>1. Todo \in Seq(OpenSteps)
    BY <1>1, FitsFirst DEF Fits, TuneSteps, StopSteps
  <2>2. "xferLen" \notin OpenSteps
    BY DEF OpenSteps
  <2> QED
    BY <2>1, <2>2, Lacks
<1>6. ~Has(Todo, "isCold")
  BY <1>1 DEF Knows
<1>7. ~Has(Todo, "jump")
  <2> SUFFICES ASSUME NEW i \in 1..Len(Todo), Todo[i] = "jump"
               PROVE  FALSE
    BY DEF Has
  <2>1. Loads(Todo, running, ram) /\ Len(Todo) \in Nat \ {0}
    BY <1>1, Types, Rest DEF Plan
  <2>2. \A j \in 1..(i - 1) : Todo[j] = "record" \/ (j = 1 /\ Todo[j] = "file")
    BY <2>1 DEF Loads
  <2>3. i # 1 /\ i \in Nat \ {0}
    BY <1>1, <2>1
  <2>4. 1 \in 1..(i - 1)
    BY <2>3
  <2> QED
    BY <1>1, <2>2, <2>4
<1>8. fwVersion' \in {fwVersion, reports}
  BY DEF Version
<1>9. fwVersion' \in {None, reports}
  BY <1>1, <1>8 DEF Knows
<1>10. ~Has(Todo', "xferLen") /\ ~Has(Todo', "jump") /\ ~Has(Todo', "isCold")
  BY <1>4, <1>5, <1>6, <1>7
<1> QED
  BY <1>2, <1>9, <1>10 DEF Knows

\* The request goes out where the firmware is known to take it.
LEMMA VendorWriteKnows ==
  ASSUME DibInv, Knows, NEW t \in Threads, NEW out, VendorWrite(t, out)
  PROVE  Knows'
<1>1. /\ t = "tuner" /\ Todo # <<>> /\ Todo \in Seq(Step)
      /\ Head(th[t].todo) = Todo[1] /\ th[t].todo = Todo
  BY VendorRest
<1>2. PICK rest \in {<<>>, Tail(Todo)} : Continue(t, rest)
  BY <1>1, VendorRest
<1>3. /\ UNCHANGED <<running, reports, published, fwVersion>>
      /\ xferLen' = (xferLen \/ (Todo[1] = "xferLen" /\ Obeyed(out)))
  BY <1>1 DEF VendorWrite
<1>4. CASE Todo[1] # "xferLen"
  <2>1. xferLen' = xferLen
    BY <1>3, <1>4, Types
  <2> QED
    BY <1>1, <1>2, <1>3, <2>1, CallKnows
<1>5. CASE Todo[1] = "xferLen"
  <2>1. /\ Has(Todo', "xferLen") => Has(Todo, "xferLen")
        /\ Has(Todo', "jump") => Has(Todo, "jump")
        /\ Has(Todo', "isCold") => Todo' = Todo
    BY <1>1, <1>2, Shrinks
  <2>2. Has(Todo, "xferLen")
    <3>1. Len(Todo) \in Nat \ {0}
      BY <1>1, Rest
    <3>2. 1 \in 1..Len(Todo)
      BY <3>1
    <3> QED
      BY <1>5, <3>2 DEF Has
  <2>3. fwVersion = "new"
    BY <2>2 DEF Knows
  <2>4. reports = "new"
    BY <1>1, <2>3, DibAssumption DEF Knows
  <2> QED
    BY <1>1, <1>3, <2>1, <2>3, <2>4 DEF Knows
<1> QED
  BY <1>4, <1>5

LEMMA LocalStepKnows ==
  ASSUME DibInv, Knows, NEW t \in Threads, LocalStep(t)
  PROVE  Knows'
<1>1. /\ t = "tuner" /\ Todo # <<>> /\ Todo \in Seq(Step) /\ th[t].todo = Todo
      /\ Fits(Todo, published)
      /\ Todo[1] # "switch" => Continue("tuner", Tail(Todo))
      /\ Todo[1] = "switch" => Continue("tuner", Switch \o <<>>)
      /\ UNCHANGED <<running, reports, xferLen, fwVersion>>
  BY LocalGoes
<1>2. CASE Todo[1] # "switch"
  BY <1>1, <1>2, CallKnows
<1>3. CASE Todo[1] = "switch"
  <2>1. /\ Switch \in Seq(TuneSteps)
        /\ Has(Switch, "xferLen") => fwVersion = "new"
    <3>1. CASE captureOn
      BY <3>1, SwitchShape, EmptySeq, NothingToDo
    <3>2. CASE ~captureOn /\ fwVersion = "new"
      BY <3>2, SwitchShape
    <3>3. CASE ~captureOn /\ fwVersion # "new"
      <4> DEFINE s == <<"enable", "captureOn">>
      <4>1. Switch = <<>> \o s
        BY <3>3 DEF Switch
      <4>2. s \in Seq({"enable", "captureOn"})
        OBVIOUS
      <4> HIDE DEF s
      <4>3. Switch = s
        BY <4>1, <4>2, ConcatEmptySeq
      <4>4. ~Has(s, "xferLen")
        BY <4>2, Lacks
      <4> QED
        BY <3>3, <4>3, <4>4, SwitchShape
    <3> QED
      BY <3>1, <3>2, <3>3
  <2>2. Switch \in Seq(Step) /\ Switch \o <<>> = Switch
    BY <2>1, StepsAreSteps, ConcatEmptySeq
  <2>3. Todo' = Switch
    BY <1>1, <1>3, <2>2, Continues DEF DibInv, Locked, Todo
  <2>4. ~Has(Switch, "jump") /\ ~Has(Switch, "isCold")
    <3>1. "jump" \notin TuneSteps /\ "isCold" \notin TuneSteps
      BY DEF TuneSteps
    <3> QED
      BY <2>1, <3>1, Lacks
  <2> QED
    BY <1>1, <2>1, <2>3, <2>4 DEF Knows
<1> QED
  BY <1>2, <1>3

\* A call begins that neither boots the device nor tells it a length.
LEMMA UseKnows ==
  ASSUME DibInv, Knows, NEW work \in Seq(Step), work # <<>>, Use("tuner", work),
         ~Has(work, "jump"), ~Has(work, "isCold"), ~Has(work, "xferLen")
  PROVE  Knows'
<1>1. Call("tuner", work) /\ published /\ "tuner" \in Threads
  BY DEF Use, Threads
<1>2. UNCHANGED <<running, reports, xferLen, fwVersion, published>>
  BY DEF Use, Call, device, engine
<1>3. Continue("tuner", work)
  BY <1>1, CallGoes
<1>4. Todo' = work
  BY <1>1, <1>3, Continues DEF DibInv, Locked, Todo
<1> QED
  BY <1>1, <1>2, <1>4 DEF Knows

LEMMA TuneKnows ==
  ASSUME DibInv, Knows, Tune
  PROVE  Knows'
<1> DEFINE s == Tuning
<1>1. s \in Seq({"updateCfg", "restart", "switch"}) /\ s # <<>> /\ s \in Seq(Step)
  BY DEF Tuning, Step, Reads, Local
<1> HIDE DEF s
<1>2. ~Has(s, "jump") /\ ~Has(s, "isCold") /\ ~Has(s, "xferLen")
  BY <1>1, Lacks
<1>3. Use("tuner", s)
  BY DEF Tune, s
<1> QED
  BY <1>1, <1>2, <1>3, UseKnows

LEMMA StopKnows ==
  ASSUME DibInv, Knows, CaptureStop \/ Shutdown
  PROVE  Knows'
<1>1. PICK work \in {Stopping, Closing} : Use("tuner", work)
  BY DEF CaptureStop, Shutdown
<1>2. work \in Seq(StopSteps) /\ work # <<>> /\ work \in Seq(Step)
  BY <1>1, StopPlanned, ClosePlanned, StepsAreSteps DEF Planned
<1>3. ~Has(work, "jump") /\ ~Has(work, "isCold") /\ ~Has(work, "xferLen")
  <2>1. "jump" \notin StopSteps /\ "isCold" \notin StopSteps /\ "xferLen" \notin StopSteps
    BY DEF StopSteps
  <2> QED
    BY <1>2, <2>1, Lacks
<1> QED
  BY <1>1, <1>2, <1>3, UseKnows

\* An open starts from a handle that knows nothing.
LEMMA OpenKnows ==
  ASSUME DibInv, Knows, Open
  PROVE  Knows'
<1> DEFINE work == <<"isCold">>
<1>1. /\ Call("tuner", work) /\ "tuner" \in Threads
      /\ UNCHANGED <<running, reports, xferLen, published>> /\ fwVersion' = None
  BY DEF Open, Call, device, Threads
<1>2. work \in Seq({"isCold"}) /\ work \in Seq(Step) /\ work # <<>>
  BY DEF Step, Boot
<1>3. work = <<"isCold">>
  OBVIOUS
<1> HIDE DEF work
<1>4. ~Has(work, "jump") /\ ~Has(work, "xferLen")
  BY <1>2, Lacks
<1>5. Continue("tuner", work)
  BY <1>1, <1>2, CallGoes
<1>6. Todo' = work
  BY <1>1, <1>2, <1>5, Continues DEF DibInv, Locked, Todo
<1> QED
  BY <1>1, <1>3, <1>4, <1>6 DEF Knows

LEMMA GetStatusKnows ==
  ASSUME DibInv, Knows, GetStatus
  PROVE  Knows'
<1> DEFINE work == <<"readStatus">>
<1>1. /\ Call("poller", work) /\ "poller" \in Threads /\ "tuner" \in Threads
      /\ UNCHANGED <<running, reports, xferLen, fwVersion, published>>
  BY DEF GetStatus, Use, Call, device, engine, Threads
<1>2. work \in Seq(Step) /\ work # <<>>
  BY DEF Step, Reads
<1> HIDE DEF work
<1>3. Continue("poller", work)
  BY <1>1, <1>2, CallGoes
<1>4. th'["tuner"] = th["tuner"]
  BY <1>1, <1>2, <1>3, Continues DEF DibInv, Locked
<1>5. Todo' = Todo
  BY <1>4 DEF Todo
<1> QED
  BY <1>1, <1>5, KnowsOnward

\* The process ends, or the device is pulled out and put back.
LEMMA LifeKnows ==
  ASSUME DibInv, Knows, EndProcess \/ PowerCycle
  PROVE  Knows'
<1>1. \A step : ~Has(<<>>, step)
  BY NothingToDo
<1>2. CASE EndProcess
  <2>1. /\ th' = [t \in Threads |-> Idle] /\ ctrl' = None /\ published' = FALSE
        /\ UNCHANGED <<running, reports, xferLen, fwVersion>>
    BY <1>2 DEF EndProcess
  <2>2. Todo' = <<>>
    BY <2>1, AllIdle DEF Todo
  <2> QED
    BY <1>1, <2>1, <2>2 DEF Knows
<1>3. CASE PowerCycle
  <2>1. /\ ~published /\ th["tuner"].at = "idle" /\ th' = th
        /\ published' = published
        /\ running' = None /\ reports' = None /\ xferLen' = FALSE
    BY <1>3 DEF PowerCycle, engine
  <2>2. Todo' = <<>>
    BY <2>1 DEF DibInv, Locked, Threads, Todo
  <2> QED
    BY <1>1, <2>1, <2>2 DEF Knows
<1> QED
  BY <1>2, <1>3

LEMMA ThreadKnows ==
  ASSUME DibInv, Knows, NEW t \in Threads, Thread(t)
  PROVE  Knows'
<1>1. CASE Enter(t)
  BY <1>1, MessagesKnow
<1>2. CASE LocalStep(t)
  BY <1>2, LocalStepKnows
<1>3. CASE LocalFailure(t)
  BY <1>3, LoadingKnows
<1>4. ASSUME NEW out \in Outcome, IsCold(t, out) PROVE Knows'
  BY <1>4, IsColdKnows
<1>5. ASSUME NEW out \in Outcome, Record(t, out) PROVE Knows'
  BY <1>5, LoadingKnows
<1>6. ASSUME NEW out \in Outcome, Jump(t, out) PROVE Knows'
  BY <1>6, JumpKnows
<1>7. ASSUME NEW out \in Outcome, Version(t, out) PROVE Knows'
  BY <1>7, VersionKnows
<1>8. ASSUME NEW out \in Outcome, FirstMessage(t, out) PROVE Knows'
  BY <1>8, MessagesKnow
<1>9. ASSUME NEW out \in Outcome, VendorWrite(t, out) PROVE Knows'
  BY <1>9, VendorWriteKnows
<1>10. ASSUME NEW out \in Outcome, NEW equal \in BOOLEAN, SecondMessage(t, out, equal)
       PROVE  Knows'
  BY <1>10, MessagesKnow
<1> QED
  BY <1>1, <1>2, <1>3, <1>4, <1>5, <1>6, <1>7, <1>8, <1>9, <1>10 DEF Thread

LEMMA NextKnows ==
  ASSUME DibInv, Knows, [Next]_vars
  PROVE  Knows'
<1>1. ASSUME NEW t \in Threads, Thread(t) PROVE Knows'
  BY <1>1, ThreadKnows
<1>2. CASE UNCHANGED vars
  <2>1. UNCHANGED <<running, reports, xferLen, fwVersion,
                    published>> /\ Todo' = Todo
    BY <1>2 DEF vars, device, engine, Todo
  <2> QED
    BY <2>1, KnowsOnward
<1> QED
  BY <1>1, <1>2, OpenKnows, TuneKnows, GetStatusKnows, StopKnows, LifeKnows DEF Next

\* During a capture the bridge has been told the length exactly if its firmware
\* is one that takes it (set_usb_xfer_len before streaming_ctrl), on every device
\* but those whose version could not be read at bring-up: an older firmware is
\* never sent the request, and a device of unread version is not either.
THEOREM LengthFirst == Spec => []LengthBeforeStream
<1>1. Init => Knows
  <2> SUFFICES ASSUME Init PROVE Knows
    OBVIOUS
  <2>1. Todo = <<>>
    BY AllIdle DEF Init, Todo
  <2>2. \A step : ~Has(<<>>, step)
    BY NothingToDo
  <2> QED
    BY <2>1, <2>2 DEF Init, Knows
<1>2. DibInv /\ Knows /\ [Next]_vars => Knows'
  BY NextKnows
<1>3. DibInv /\ Knows => LengthBeforeStream
  <2> SUFFICES ASSUME DibInv, Knows, captureOn, fwVersion # None
               PROVE  xferLen <=> reports = "new"
    BY DEF LengthBeforeStream
  <2>1. published
    BY Types DEF Plan, Streams
  <2>2. fwVersion = reports
    BY <2>1 DEF Knows
  <2>3. fwVersion = "new" => xferLen
    BY Types DEF Plan, Told
  <2>4. xferLen => reports = "new"
    BY DEF Knows
  <2> QED
    BY <2>2, <2>3, <2>4
<1> QED
  BY <1>1, <1>2, <1>3, Invariance, PTL DEF Spec
=============================================================================
