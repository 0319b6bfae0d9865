----------------------------- MODULE DvbskyProofs -----------------------------
(***************************************************************************)
(* Proofs about Dvbsky for every number of faults, with and without        *)
(* bridge_lock.                                                            *)
(*                                                                         *)
(* The calls are fixed sequences, so the first step that is left and the   *)
(* one that may come after it (After) say where a call is.  The inductive  *)
(* invariant says who holds which lock (Locked, Alone), what answers can   *)
(* be on their way (Paired), and what the bridge, the engine and the demod *)
(* know of each other at each step of a call: the stream switch before the *)
(* flag that follows it (Streams), the answer of a status poll until it is *)
(* noted (Polls), and the lock between polls (Follows).                    *)
(***************************************************************************)
EXTENDS Dvbsky, SequenceTheorems, TLAPS

Todo == th["tuner"].todo
Poll == th["poller"].todo

Step == Commands \union Switches \union Local

ThreadRecord == [todo : Seq(Step), got : BOOLEAN,
                 at : {"idle", "next", "write", "read", "stop", "start"}]

\* What comes after a step of the tuner's calls; the last steps have no successor.
After(step) ==
    CASE step = "gpio"        -> {"gpio", "pipe"}
      [] step = "pipe"        -> {"demodClient"}
      [] step = "demodClient" -> {"tunerClient"}
      [] step = "tunerClient" -> {"demodInit"}
      [] step = "demodInit"   -> {"tunerInit"}
      [] step = "tunerInit"   -> {"stream"}
      [] step = "stream"      -> {"publish"}
      [] step = "demod"       -> {"tune"}
      [] step = "tune"        -> {"forget"}
      [] step = "forget"      -> {"restart"}
      [] step = "restart"     -> {"captureOn"}
      [] step = "halt"        -> {"captureOff"}
      [] step = "captureOff"  -> {"closeStream"}
      [] step = "closeStream" -> {"sleep"}
      [] step = "sleep"       -> {"sleep", "release"}
      [] OTHER                -> {}

OpenSteps == {"gpio", "pipe", "demodClient", "tunerClient", "demodInit",
              "tunerInit", "stream", "publish"}
UseSteps  == {"demod", "tune", "forget", "restart", "captureOn", "halt",
              "captureOff", "closeStream", "sleep", "release"}
Last      == {"publish", "captureOn", "captureOff", "release"}

\* What is left of a call of the tuner, and of one of the poller.
Chain(s) ==
    /\ s \in Seq(OpenSteps \union UseSteps)
    /\ \A i \in 1..Len(s) : IF i = Len(s) THEN s[i] \in Last ELSE s[i + 1] \in After(s[i])

PollLeft == {<<>>, <<"status", "edge">>, <<"edge">>, <<"restart", "note">>, <<"note">>}

Starts(s, what) == s # <<>> /\ s[1] \in what

\* Who is inside a command or a switch holds ctrl_lock.
Locked ==
    /\ th \in [Threads -> ThreadRecord]
    /\ \A t \in Threads :
          /\ th[t].at = "idle" <=> th[t].todo = <<>>
          /\ th[t].at \in {"write", "read", "stop", "start"} <=> ctrl = t
          /\ th[t].at \in {"write", "read"} => th[t].todo[1] \in Commands
          /\ th[t].at = "stop"  => th[t].todo[1] \in Switches
          /\ th[t].at = "start" => th[t].todo[1] = "restart"

\* With bridge_lock the two threads do not meet.
Alone ==
    callersLock =>
       /\ \A t \in Threads : call = t => th[t].todo # <<>>
       /\ Poll # <<>> => call = "poller" /\ Todo = <<>> /\ published
       /\ Todo # <<>> /\ published /\ ~IsClosing("tuner") => call = "tuner"

Shape == Poll \in PollLeft /\ Chain(Todo)

Paired ==
    /\ AnswersPaired
    /\ ~stale => late = <<>>
    /\ ~stale /\ answers # <<>> /\ Head(answers).val =>
          Head(answers).kind = "data" /\ (callersLock => locked)

Registered ==
    /\ Todo # <<>> => (published <=> Todo[1] \notin OpenSteps)
    /\ captureOn => published
    /\ Starts(Todo, {"closeStream", "sleep", "release"}) => ~captureOn
    /\ callersLock /\ Starts(Todo, {"restart", "captureOn"}) => ~lastLock

Streams ==
    callersLock /\ "stream" \notin doubt =>
       /\ Starts(Todo, {"captureOn"}) => streaming
       /\ Starts(Todo, {"captureOff"}) => ~streaming
       /\ ~Starts(Todo, {"captureOn", "captureOff"}) /\ (\A t \in Threads : th[t].at # "start") =>
             (streaming <=> captureOn)

Polls ==
    callersLock =>
       /\ Starts(Poll, {"restart"}) => captureOn /\ ~lastLock
       /\ ~stale /\ Starts(Poll, {"edge", "restart", "note"}) /\ th["poller"].got => locked
       /\ ~stale /\ doubt = {} /\ Starts(Poll, {"note"}) /\ th["poller"].got /\ captureOn => fresh
       /\ Starts(Poll, {"restart"}) => th["poller"].got

Follows ==
    callersLock /\ doubt = {} /\ ~stale /\ captureOn /\ lastLock
       /\ ~Starts(Todo, {"demod", "tune", "forget", "captureOff"})
    => IF locked THEN fresh ELSE unseenLoss

SkyInv == TypeOK /\ Locked /\ Alone /\ Shape /\ Paired /\ Registered /\ Streams /\ Polls /\ Follows

-----------------------------------------------------------------------------
(***************************************************************************)
(* Sequences: what is left after a step.                                   *)
(***************************************************************************)
LEMMA Rest ==
  ASSUME NEW S, NEW s \in Seq(S), s # <<>>
  PROVE  /\ Len(s) \in Nat \ {0} /\ Head(s) = s[1] /\ s[1] \in S
         /\ Tail(s) \in Seq(S) /\ Len(Tail(s)) = Len(s) - 1
         /\ \A i \in 1..(Len(s) - 1) : Tail(s)[i] = s[i + 1]
BY HeadTailProperties, EmptySeq, LenProperties, ElementOfSeq

\* Where a call of the tuner can be after a step.
LEMMA ChainOnward ==
  ASSUME NEW s, Chain(s), s # <<>>
  PROVE  /\ s \in Seq(Step) /\ Head(s) = s[1] /\ s[1] \in OpenSteps \union UseSteps
         /\ Chain(Tail(s))
         /\ Tail(s) = <<>> => s[1] \in Last
         /\ Tail(s) # <<>> => Tail(s)[1] \in After(s[1])
         /\ (\E i \in DOMAIN s : s[i] = "release") /\ Tail(s) # <<>> =>
               \E i \in DOMAIN Tail(s) : Tail(s)[i] = "release"
<1> DEFINE S == OpenSteps \union UseSteps
           n == Len(s)
           r == Tail(s)
<1>1. /\ n \in Nat \ {0} /\ Head(s) = s[1] /\ s[1] \in S
      /\ r \in Seq(S) /\ Len(r) = n - 1
      /\ \A i \in 1..(n - 1) : r[i] = s[i + 1]
  BY Rest DEF Chain
<1>2. \A i \in 1..n : IF i = n THEN s[i] \in Last ELSE s[i + 1] \in After(s[i])
  BY DEF Chain
<1>3. s \in Seq(Step)
  BY DEF Chain, OpenSteps, UseSteps, Step, Commands, Switches, Local
<1>4. DOMAIN s = 1..n /\ DOMAIN r = 1..(n - 1)
  BY <1>1, LenProperties DEF Chain
<1>5. r = <<>> <=> n = 1
  <2>1. r = <<>> <=> Len(r) = 0
    BY <1>1, EmptySeq
  <2> HIDE DEF r, n
  <2> QED
    BY <2>1, <1>1
<1> HIDE DEF n, r
<1>6. ASSUME NEW i \in 1..(n - 1)
      PROVE  IF i = n - 1 THEN r[i] \in Last ELSE r[i + 1] \in After(r[i])
  <2>1. i \in Nat /\ i + 1 \in 1..n /\ r[i] = s[i + 1] /\ (i + 1 = n <=> i = n - 1)
    BY <1>1
  <2>2. i # n - 1 => r[i + 1] = s[(i + 1) + 1]
    BY <1>1
  <2> QED
    BY <1>2, <2>1, <2>2
<1>7. Chain(r)
  BY <1>1, <1>6 DEF Chain
<1>8. /\ n = 1 => s[1] \in Last
      /\ n # 1 => s[1 + 1] \in After(s[1]) /\ r[1] = s[1 + 1]
  BY <1>1, <1>2
<1>9. ASSUME NEW i \in 1..n, s[i] = "release", n # 1
      PROVE  \E j \in 1..(n - 1) : r[j] = "release"
  <2>1. i # 1
    <3>1. After("release") = {}
      BY DEF After
    <3> QED
      BY <1>8, <1>9, <3>1
  <2>2. i - 1 \in 1..(n - 1) /\ (i - 1) + 1 = i
    BY <1>1, <2>1
  <2>3. r[i - 1] = s[i]
    BY <1>1, <2>2
  <2> QED
    BY <1>9, <2>2, <2>3
<1> QED
  BY <1>1, <1>3, <1>4, <1>5, <1>7, <1>8, <1>9 DEF r, n, S

\* Two parts of a call, put together.
LEMMA Glue ==
  ASSUME NEW S, NEW a \in Seq(S), NEW b \in Seq(S), NEW c \in Seq(S),
         Len(c) = Len(a) + Len(b),
         \A i \in 1..Len(a) : c[i] = a[i],
         \A i \in 1..Len(b) : c[Len(a) + i] = b[i]
  PROVE  a \o b = c
<1> DEFINE m == Len(a)
           n == Len(b)
           d == a \o b
<1>1. /\ d \in Seq(S) /\ Len(d) = m + n
      /\ \A i \in 1..(m + n) : d[i] = IF i <= m THEN a[i] ELSE b[i - m]
  BY ConcatProperties
<1>2. m \in Nat /\ n \in Nat
  BY LenProperties
<1> HIDE DEF d
<1>3. ASSUME NEW i \in 1..Len(d) PROVE d[i] = c[i]
  <2> HIDE DEF m, n
  <2>1. i \in 1..(m + n) /\ i \in Int
    BY <1>1, <1>2
  <2>2. CASE i <= m
    <3>1. i \in 1..m
      BY <2>1, <2>2, <1>2
    <3> QED
      BY <1>1, <2>1, <2>2, <3>1 DEF m
  <2>3. CASE ~(i <= m)
    <3>1. i - m \in 1..n /\ m + (i - m) = i
      BY <2>1, <2>3, <1>2
    <3>2. c[m + (i - m)] = b[i - m]
      BY <3>1 DEF m, n
    <3> QED
      BY <1>1, <2>1, <2>3, <3>1, <3>2
  <2> QED
    BY <2>2, <2>3
<1>4. d = c
  BY <1>1, <1>3, SeqEqual
<1> QED
  BY <1>4 DEF d

\* Every planned call goes step by step to its end.
LEMMA OpeningPlanned == Chain(Opening) /\ Opening # <<>> /\ Opening[1] = "gpio"
<1> DEFINE gpios == <<"gpio", "gpio", "gpio", "gpio", "gpio">>
           demod == <<"demodClient">>
           tuner == <<"tunerClient">>
           chips == <<"demodClient", "tunerClient">>
           pipe  == <<"pipe">>
           piped == <<"pipe", "demodClient", "tunerClient">>
           inits == <<"demodInit", "tunerInit", "stream">>
           front == <<"pipe", "demodClient", "tunerClient", "demodInit", "tunerInit",
                      "stream">>
           most  == <<"gpio", "gpio", "gpio", "gpio", "gpio", "pipe", "demodClient",
                      "tunerClient", "demodInit", "tunerInit", "stream">>
           last  == <<"publish">>
           all   == <<"gpio", "gpio", "gpio", "gpio", "gpio", "pipe", "demodClient",
                      "tunerClient", "demodInit", "tunerInit", "stream", "publish">>
<1>1. /\ gpios \in Seq(OpenSteps) /\ demod \in Seq(OpenSteps)
      /\ tuner \in Seq(OpenSteps) /\ chips \in Seq(OpenSteps)
      /\ pipe \in Seq(OpenSteps) /\ piped \in Seq(OpenSteps)
      /\ inits \in Seq(OpenSteps) /\ front \in Seq(OpenSteps)
      /\ most \in Seq(OpenSteps) /\ last \in Seq(OpenSteps)
      /\ all \in Seq(OpenSteps)
  BY DEF OpenSteps
<1>2. Opening = gpios \o (pipe \o (demod \o tuner) \o inits) \o last
  BY DEF Opening, T230Bringup, FrontendOpen, Attach, AttachDemod, AttachTuner, NewClient
<1>3. /\ Len(chips) = Len(demod) + Len(tuner)
      /\ \A i \in 1..Len(demod) : chips[i] = demod[i]
      /\ \A i \in 1..Len(tuner) : chips[Len(demod) + i] = tuner[i]
  OBVIOUS
<1>4. /\ Len(piped) = Len(pipe) + Len(chips)
      /\ \A i \in 1..Len(pipe) : piped[i] = pipe[i]
      /\ \A i \in 1..Len(chips) : piped[Len(pipe) + i] = chips[i]
  OBVIOUS
<1>5. /\ Len(front) = Len(piped) + Len(inits)
      /\ \A i \in 1..Len(piped) : front[i] = piped[i]
      /\ \A i \in 1..Len(inits) : front[Len(piped) + i] = inits[i]
  OBVIOUS
<1>6. /\ Len(most) = Len(gpios) + Len(front)
      /\ \A i \in 1..Len(gpios) : most[i] = gpios[i]
      /\ \A i \in 1..Len(front) : most[Len(gpios) + i] = front[i]
  OBVIOUS
<1>7. /\ Len(all) = Len(most) + Len(last)
      /\ \A i \in 1..Len(most) : all[i] = most[i]
      /\ \A i \in 1..Len(last) : all[Len(most) + i] = last[i]
  OBVIOUS
<1>8. Chain(all) /\ all # <<>> /\ all[1] = "gpio"
  BY DEF Chain, After, Last, OpenSteps, UseSteps
<1> HIDE DEF gpios, demod, tuner, chips, pipe, piped, inits, front, most, last, all
<1>9. demod \o tuner = chips
  <2>1. demod \in Seq(OpenSteps) /\ tuner \in Seq(OpenSteps) /\ chips \in Seq(OpenSteps)
    BY <1>1
  <2> QED
    BY ONLY <2>1, <1>3, Glue
<1>10. pipe \o chips = piped
  <2>1. pipe \in Seq(OpenSteps) /\ chips \in Seq(OpenSteps) /\ piped \in Seq(OpenSteps)
    BY <1>1
  <2> QED
    BY ONLY <2>1, <1>4, Glue
<1>11. piped \o inits = front
  <2>1. piped \in Seq(OpenSteps) /\ inits \in Seq(OpenSteps) /\ front \in Seq(OpenSteps)
    BY <1>1
  <2> QED
    BY ONLY <2>1, <1>5, Glue
<1>12. gpios \o front = most
  <2>1. gpios \in Seq(OpenSteps) /\ front \in Seq(OpenSteps) /\ most \in Seq(OpenSteps)
    BY <1>1
  <2> QED
    BY ONLY <2>1, <1>6, Glue
<1>13. most \o last = all
  <2>1. most \in Seq(OpenSteps) /\ last \in Seq(OpenSteps) /\ all \in Seq(OpenSteps)
    BY <1>1
  <2> QED
    BY ONLY <2>1, <1>7, Glue
<1>14. Opening = all
  BY ONLY <1>2, <1>9, <1>10, <1>11, <1>12, <1>13
<1> QED
  BY <1>8, <1>14

LEMMA TuningPlanned ==
  Chain(Tuning) /\ Tuning # <<>> /\ Tuning[1] = "demod"
  /\ \A i \in DOMAIN Tuning : Tuning[i] # "release"
BY DEF Chain, Tuning, After, Last, OpenSteps, UseSteps

LEMMA StoppingPlanned ==
  Chain(Stopping) /\ Stopping # <<>> /\ Stopping[1] = "halt"
  /\ \A i \in DOMAIN Stopping : Stopping[i] # "release"
BY DEF Chain, Stopping, After, Last, OpenSteps, UseSteps

LEMMA ClosingPlanned ==
  /\ Chain(Closing) /\ Closing # <<>>
  /\ \E i \in DOMAIN Closing : Closing[i] = "release"
  /\ Closing[1] = IF captureOn THEN "halt" ELSE "closeStream"
<1>1. CASE captureOn
  <2>1. Closing = <<"halt", "captureOff", "closeStream", "sleep", "sleep", "release">>
    <3> DEFINE a == <<"halt", "captureOff">>
               b == <<"closeStream", "sleep", "sleep", "release">>
               c == <<"halt", "captureOff", "closeStream", "sleep", "sleep", "release">>
    <3>1. Closing = a \o b
      BY <1>1 DEF Closing, Stopping
    <3>2. a \in Seq(UseSteps) /\ b \in Seq(UseSteps) /\ c \in Seq(UseSteps)
      BY DEF UseSteps
    <3>3. /\ Len(c) = Len(a) + Len(b)
          /\ \A i \in 1..Len(a) : c[i] = a[i]
          /\ \A i \in 1..Len(b) : c[Len(a) + i] = b[i]
      OBVIOUS
    <3> HIDE DEF a, b, c
    <3>4. a \o b = c
      BY ONLY <3>2, <3>3, Glue
    <3> QED
      BY <3>1, <3>4 DEF c
  <2>2. Closing[6] = "release" /\ 6 \in DOMAIN Closing
    BY <2>1
  <2> QED
    BY <1>1, <2>1, <2>2 DEF Chain, After, Last, OpenSteps, UseSteps
<1>2. CASE ~captureOn
  <2>1. Closing = <<"closeStream", "sleep", "sleep", "release">>
    BY <1>2 DEF Closing
  <2>2. Closing[4] = "release" /\ 4 \in DOMAIN Closing
    BY <2>1
  <2> QED
    BY <1>2, <2>1, <2>2 DEF Chain, After, Last, OpenSteps, UseSteps
<1> QED
  BY <1>1, <1>2

-----------------------------------------------------------------------------
(***************************************************************************)
(* The threads and the two locks.                                          *)
(***************************************************************************)
\* What TypeOK says of a thread.
LEMMA ThreadTypes ==
  ASSUME NEW f \in [Threads -> ThreadRecord], NEW t \in Threads
  PROVE  /\ f[t].todo \in Seq(Step) /\ f[t].got \in BOOLEAN
         /\ f[t].at \in {"idle", "next", "write", "read", "stop", "start"}
         /\ \A i \in DOMAIN f[t].todo :
               f[t].todo[i] \in Commands \union Switches \union Local
<1>1. /\ f[t].todo \in Seq(Step) /\ f[t].got \in BOOLEAN
      /\ f[t].at \in {"idle", "next", "write", "read", "stop", "start"}
  BY DEF ThreadRecord
<1>2. \A i \in DOMAIN f[t].todo : f[t].todo[i] \in Step
  BY <1>1, LenProperties, ElementOfSeq
<1> QED
  BY <1>1, <1>2 DEF Step

\* The scalars of TypeOK, and the two threads.
LEMMA Types ==
  ASSUME SkyInv
  PROVE  /\ callersLock \in BOOLEAN
         /\ answers \in Seq(Answer) /\ late \in Seq(Answer)
         /\ locked \in BOOLEAN /\ streaming \in BOOLEAN /\ fresh \in BOOLEAN
         /\ published \in BOOLEAN /\ captureOn \in BOOLEAN /\ lastLock \in BOOLEAN
         /\ ctrl \in Threads \union {None} /\ call \in Threads \union {None}
         /\ unseenLoss \in BOOLEAN /\ stale \in BOOLEAN
         /\ doubt \subseteq {"stream", "tune"} /\ faults \in 0..MaxFaults
         /\ "tuner" \in Threads /\ "poller" \in Threads
         /\ \A t \in Threads : t = "tuner" \/ t = "poller"
BY DEF SkyInv, TypeOK, Threads

LEMMA TypesAfter ==
  ASSUME Locked',
         callersLock' \in BOOLEAN,
         answers' \in Seq(Answer), late' \in Seq(Answer),
         locked' \in BOOLEAN, streaming' \in BOOLEAN, fresh' \in BOOLEAN,
         published' \in BOOLEAN, captureOn' \in BOOLEAN, lastLock' \in BOOLEAN,
         ctrl' \in Threads \union {None}, call' \in Threads \union {None},
         unseenLoss' \in BOOLEAN, stale' \in BOOLEAN,
         doubt' \subseteq {"stream", "tune"}, faults' \in 0..MaxFaults
  PROVE  TypeOK'
<1>1. ASSUME NEW t \in Threads
      PROVE  /\ th'[t].at \in {"idle", "next", "write", "read", "stop", "start"}
             /\ th'[t].got \in BOOLEAN
             /\ \A i \in DOMAIN th'[t].todo :
                   th'[t].todo[i] \in Commands \union Switches \union Local
             /\ th'[t].at = "idle" <=> th'[t].todo = <<>>
  BY ThreadTypes DEF Locked
<1> QED
  BY <1>1 DEF TypeOK

LEMMA FaultsCount ==
  ASSUME faults \in 0..MaxFaults, NEW n \in Nat, Costs(n)
  PROVE  faults' \in 0..MaxFaults
BY DvbskyAssumption DEF Costs

\* What the lists of a poll hold.
LEMMA PollsOnward ==
  ASSUME Poll \in PollLeft
  PROVE  /\ Poll \in Seq(Step)
         /\ \A i \in DOMAIN Poll : Poll[i] # "release"
         /\ Poll # <<>> =>
               /\ Head(Poll) = Poll[1] /\ Tail(Poll) \in PollLeft
               /\ Poll[1] \in {"status", "edge", "restart", "note"}
               /\ Poll[1] = "status"  => Tail(Poll) = <<"edge">>
               /\ Poll[1] = "restart" => Tail(Poll) = <<"note">>
               /\ Poll[1] \in {"edge", "note"} => Tail(Poll) = <<>>
<1>1. CASE Poll = <<>>
  BY <1>1 DEF Step
<1>2. CASE Poll = <<"status", "edge">>
  BY <1>2 DEF PollLeft, Step, Commands, Switches, Local
<1>3. CASE Poll = <<"edge">>
  BY <1>3 DEF PollLeft, Step, Commands, Switches, Local
<1>4. CASE Poll = <<"restart", "note">>
  BY <1>4 DEF PollLeft, Step, Commands, Switches, Local
<1>5. CASE Poll = <<"note">>
  BY <1>5 DEF PollLeft, Step, Commands, Switches, Local
<1> QED
  BY <1>1, <1>2, <1>3, <1>4, <1>5 DEF PollLeft

\* A thread's record after its step; the other one is where it was.
LEMMA Becomes ==
  ASSUME th \in [Threads -> ThreadRecord], NEW t \in Threads,
         NEW rest \in Seq(Step), NEW g \in BOOLEAN,
         NEW a \in {"idle", "next", "write", "read", "stop", "start"},
         th' = [th EXCEPT ![t] = [todo |-> rest, at |-> a, got |-> g]]
  PROVE  /\ th' \in [Threads -> ThreadRecord]
         /\ th'[t].todo = rest /\ th'[t].at = a /\ th'[t].got = g
         /\ \A u \in Threads : u # t => th'[u] = th[u]
<1> DEFINE rec == [todo |-> rest, at |-> a, got |-> g]
<1>1. rec \in ThreadRecord
  BY DEF ThreadRecord
<1>2. rec.todo = rest /\ rec.at = a /\ rec.got = g
  OBVIOUS
<1> HIDE DEF rec
<1> QED
  BY <1>1, <1>2 DEF rec

\* A thread goes to another place of the step it is in.
LEMMA Moves ==
  ASSUME th \in [Threads -> ThreadRecord], NEW t \in Threads,
         NEW a \in {"write", "read", "stop", "start"}, th' = [th EXCEPT ![t].at = a]
  PROVE  /\ th' \in [Threads -> ThreadRecord]
         /\ th'[t].todo = th[t].todo /\ th'[t].at = a /\ th'[t].got = th[t].got
         /\ \A u \in Threads : u # t => th'[u] = th[u]
<1>1. th[t] \in ThreadRecord
  OBVIOUS
<1> DEFINE rec == [todo |-> th[t].todo, at |-> a, got |-> th[t].got]
<1>2. [th[t] EXCEPT !.at = a] = rec
  BY <1>1 DEF ThreadRecord
<1>3. rec \in ThreadRecord
  BY <1>1 DEF ThreadRecord
<1>4. th' = [th EXCEPT ![t] = rec]
  BY <1>2
<1>5. rec.todo = th[t].todo /\ rec.at = a /\ rec.got = th[t].got
  OBVIOUS
<1> HIDE DEF rec
<1> QED
  BY <1>3, <1>4, <1>5

\* A thread goes on with [rest]; got becomes g.
Advances(t, rest, g) ==
    /\ th' \in [Threads -> ThreadRecord]
    /\ th'[t].todo = rest /\ th'[t].got = g
    /\ th'[t].at \in {"idle", "next"} /\ (th'[t].at = "idle" <=> rest = <<>>)
    /\ \A u \in Threads : u # t => th'[u] = th[u]
    /\ call' = IF rest = <<>> /\ call = t THEN None ELSE call

LEMMA Continues ==
  ASSUME th \in [Threads -> ThreadRecord], NEW t \in Threads,
         NEW rest \in Seq(Step), Continue(t, rest)
  PROVE  Advances(t, rest, th[t].got)
<1> DEFINE a == IF rest = <<>> THEN "idle" ELSE "next"
           rec == [todo |-> rest, at |-> a, got |-> th[t].got]
<1>1. a \in {"idle", "next"} /\ (a = "idle" <=> rest = <<>>)
  OBVIOUS
<1>2. th[t] \in ThreadRecord
  OBVIOUS
<1>3. th' = [th EXCEPT ![t] = [[th[t] EXCEPT !.todo = rest] EXCEPT !.at = a]]
  BY DEF Continue
<1> HIDE DEF a
<1>4. [[th[t] EXCEPT !.todo = rest] EXCEPT !.at = a] = rec
  <2>1. [th[t] EXCEPT !.todo = rest] = [todo |-> rest, at |-> th[t].at, got |-> th[t].got]
    BY <1>2 DEF ThreadRecord
  <2>2. [[todo |-> rest, at |-> th[t].at, got |-> th[t].got] EXCEPT !.at = a] = rec
    OBVIOUS
  <2> QED
    BY <2>1, <2>2
<1>5. th' = [th EXCEPT ![t] = rec]
  BY <1>3, <1>4
<1>6. th[t].got \in BOOLEAN
  BY <1>2 DEF ThreadRecord
<1>7. /\ th' \in [Threads -> ThreadRecord]
      /\ th'[t].todo = rest /\ th'[t].at = a /\ th'[t].got = th[t].got
      /\ \A u \in Threads : u # t => th'[u] = th[u]
  BY <1>1, <1>5, <1>6, Becomes
<1> QED
  BY <1>1, <1>7 DEF Advances, Continue

\* A thread that goes on, or ends its call, leaves the locks in order.
LEMMA GoesOn ==
  ASSUME SkyInv, NEW t \in Threads, th[t].todo # <<>>, NEW rest, NEW g,
         Advances(t, rest, g), Leave(t),
         t = "tuner"  => rest \in {Tail(Todo), <<>>},
         t = "poller" => rest \in PollLeft,
         callersLock' = callersLock,
         published' = published \/ (t = "tuner" /\ rest = <<>>)
  PROVE  /\ Locked' /\ Alone' /\ Shape'
         /\ ctrl' \in Threads \union {None} /\ call' \in Threads \union {None}
<1>0. "tuner" \in Threads /\ "poller" \in Threads /\ None \notin Threads
      /\ \A u \in Threads : u = "tuner" \/ u = "poller"
  BY DvbskyAssumption DEF Threads
<1>1. /\ th \in [Threads -> ThreadRecord]
      /\ \A u \in Threads :
          /\ th[u].at = "idle" <=> th[u].todo = <<>>
          /\ th[u].at \in {"write", "read", "stop", "start"} <=> ctrl = u
          /\ th[u].at \in {"write", "read"} => th[u].todo[1] \in Commands
          /\ th[u].at = "stop"  => th[u].todo[1] \in Switches
          /\ th[u].at = "start" => th[u].todo[1] = "restart"
  BY DEF SkyInv, Locked
<1>2. /\ th' \in [Threads -> ThreadRecord]
      /\ th'[t].todo = rest /\ th'[t].got = g
      /\ th'[t].at \in {"idle", "next"} /\ (th'[t].at = "idle" <=> rest = <<>>)
      /\ \A u \in Threads : u # t => th'[u] = th[u]
      /\ call' = IF rest = <<>> /\ call = t THEN None ELSE call
  BY DEF Advances
<1>3. ctrl' # t /\ \A u \in Threads : u # t => (ctrl' = u <=> ctrl = u)
  BY <1>0 DEF Leave
<1>4. ASSUME NEW u \in Threads
      PROVE  /\ th'[u].at = "idle" <=> th'[u].todo = <<>>
             /\ th'[u].at \in {"write", "read", "stop", "start"} <=> ctrl' = u
             /\ th'[u].at \in {"write", "read"} => th'[u].todo[1] \in Commands
             /\ th'[u].at = "stop"  => th'[u].todo[1] \in Switches
             /\ th'[u].at = "start" => th'[u].todo[1] = "restart"
  <2>1. CASE u = t
    BY <2>1, <1>2, <1>3
  <2>2. CASE u # t
    BY <2>2, <1>1, <1>2, <1>3
  <2> QED
    BY <2>1, <2>2
<1>5. Locked'
  BY <1>2, <1>4 DEF Locked
<1>6. t = "tuner"  => Todo' = rest /\ Poll' = Poll
  BY <1>0, <1>2 DEF Todo, Poll
<1>7. t = "poller" => Poll' = rest /\ Todo' = Todo
  BY <1>0, <1>2 DEF Todo, Poll
<1>8. t = "tuner" => /\ Todo # <<>> /\ Chain(rest)
                     /\ rest # <<>> => /\ published' = published
                                       /\ IsClosing("tuner") => IsClosing("tuner")'
  <2> SUFFICES ASSUME t = "tuner"
               PROVE  /\ Todo # <<>> /\ Chain(rest)
                      /\ rest # <<>> => /\ published' = published
                                        /\ IsClosing("tuner") => IsClosing("tuner")'
    OBVIOUS
  <2>1. Todo # <<>> /\ Chain(Todo)
    BY DEF Todo, SkyInv, Shape
  <2>2. Chain(<<>>)
    BY DEF Chain
  <2>3. /\ Chain(Tail(Todo))
        /\ (\E i \in DOMAIN Todo : Todo[i] = "release") /\ Tail(Todo) # <<>> =>
               \E i \in DOMAIN Tail(Todo) : Tail(Todo)[i] = "release"
    BY <2>1, ChainOnward
  <2>4. rest # <<>> => rest = Tail(Todo) /\ th'["tuner"].todo = Tail(Todo)
    BY <1>2
  <2>5. Chain(rest)
    BY <2>2, <2>3
  <2>6. rest # <<>> /\ IsClosing("tuner") => IsClosing("tuner")'
    <3> SUFFICES ASSUME rest # <<>>, IsClosing("tuner") PROVE IsClosing("tuner")'
      OBVIOUS
    <3>1. \E i \in DOMAIN Todo : Todo[i] = "release"
      BY DEF IsClosing, Todo
    <3>2. \E i \in DOMAIN Tail(Todo) : Tail(Todo)[i] = "release"
      BY <3>1, <2>3, <2>4
    <3> QED
      BY <3>2, <2>4 DEF IsClosing
  <2> QED
    BY <2>1, <2>5, <2>6
<1>9. Shape'
  BY <1>0, <1>6, <1>7, <1>8 DEF SkyInv, Shape
<1>10. Alone'
  <2> SUFFICES ASSUME callersLock
               PROVE  /\ \A u \in Threads : call' = u => th'[u].todo # <<>>
                      /\ Poll' # <<>> => call' = "poller" /\ Todo' = <<>> /\ published'
                      /\ Todo' # <<>> /\ published' /\ ~IsClosing("tuner")' =>
                            call' = "tuner"
    BY DEF Alone
  <2>1. /\ \A u \in Threads : call = u => th[u].todo # <<>>
        /\ Poll # <<>> => call = "poller" /\ Todo = <<>> /\ published
        /\ Todo # <<>> /\ published /\ ~IsClosing("tuner") => call = "tuner"
    BY DEF SkyInv, Alone
  <2>2. ASSUME NEW u \in Threads, call' = u PROVE th'[u].todo # <<>>
    BY <1>0, <1>2, <2>1, <2>2
  <2>3. CASE t = "tuner"
    BY <2>1, <2>2, <2>3, <1>0, <1>2, <1>6, <1>8
  <2>4. CASE t = "poller"
    <3>1. Poll # <<>> /\ call = "poller" /\ Todo = <<>> /\ published /\ published'
      BY <2>1, <2>4 DEF Poll
    <3> QED
      BY <2>2, <2>4, <3>1, <1>2, <1>7
  <2> QED
    BY <2>3, <2>4, <1>0
<1>11. ctrl' \in Threads \union {None} /\ call' \in Threads \union {None}
  BY <1>2, Types DEF Leave
<1> QED
  BY <1>5, <1>9, <1>10, <1>11

\* So does one that enters a step or goes on within it.
LEMMA Stays ==
  ASSUME SkyInv, NEW t \in Threads, th[t].todo # <<>>,
         NEW a \in {"write", "read", "stop", "start"}, th' = [th EXCEPT ![t].at = a],
         ctrl \in {None, t}, ctrl' = t,
         a \in {"write", "read"} => th[t].todo[1] \in Commands,
         a = "stop"  => th[t].todo[1] \in Switches,
         a = "start" => th[t].todo[1] = "restart",
         callersLock' = callersLock, published' = published, call' = call
  PROVE  /\ Locked' /\ Alone' /\ Shape'
         /\ ctrl' \in Threads \union {None} /\ call' \in Threads \union {None}
         /\ Todo' = Todo /\ Poll' = Poll /\ th'["poller"].got = th["poller"].got
         /\ th'[t].at = a /\ th'[t].todo = th[t].todo
         /\ \A u \in Threads : u # t => th'[u] = th[u]
<1>0. "tuner" \in Threads /\ "poller" \in Threads /\ None \notin Threads
      /\ \A u \in Threads : u = "tuner" \/ u = "poller"
  BY DvbskyAssumption DEF Threads
<1>1. /\ th \in [Threads -> ThreadRecord]
      /\ \A u \in Threads :
          /\ th[u].at = "idle" <=> th[u].todo = <<>>
          /\ th[u].at \in {"write", "read", "stop", "start"} <=> ctrl = u
          /\ th[u].at \in {"write", "read"} => th[u].todo[1] \in Commands
          /\ th[u].at = "stop"  => th[u].todo[1] \in Switches
          /\ th[u].at = "start" => th[u].todo[1] = "restart"
  BY DEF SkyInv, Locked
<1>2. /\ th' \in [Threads -> ThreadRecord]
      /\ th'[t].todo = th[t].todo /\ th'[t].at = a /\ th'[t].got = th[t].got
      /\ \A u \in Threads : u # t => th'[u] = th[u]
  BY <1>1, Moves
<1>3. \A u \in Threads : th'[u].todo = th[u].todo /\ th'[u].got = th[u].got
  BY <1>2
<1>4. ASSUME NEW u \in Threads
      PROVE  /\ th'[u].at = "idle" <=> th'[u].todo = <<>>
             /\ th'[u].at \in {"write", "read", "stop", "start"} <=> ctrl' = u
             /\ th'[u].at \in {"write", "read"} => th'[u].todo[1] \in Commands
             /\ th'[u].at = "stop"  => th'[u].todo[1] \in Switches
             /\ th'[u].at = "start" => th'[u].todo[1] = "restart"
  <2>1. CASE u = t
    BY <2>1, <1>2
  <2>2. CASE u # t
    <3>1. ctrl # u /\ ctrl' # u
      BY <2>2, <1>0
    <3> QED
      BY <2>2, <3>1, <1>1, <1>2
  <2> QED
    BY <2>1, <2>2
<1>5. Locked'
  BY <1>2, <1>4 DEF Locked
<1>6. Todo' = Todo /\ Poll' = Poll /\ th'["poller"].got = th["poller"].got
  BY <1>0, <1>3 DEF Todo, Poll
<1>7. IsClosing("tuner")' <=> IsClosing("tuner")
  BY <1>0, <1>3 DEF IsClosing
<1>8. Shape'
  BY <1>6 DEF SkyInv, Shape
<1>9. Alone'
  BY <1>3, <1>6, <1>7 DEF SkyInv, Alone
<1> QED
  BY <1>2, <1>5, <1>6, <1>8, <1>9, Types

\* Who works alone, and what is left when a call of the tuner ends or goes on.
LEMMA TunerWorks ==
  ASSUME SkyInv, Todo # <<>>
  PROVE  /\ Todo \in Seq(Step) /\ Head(Todo) = Todo[1]
         /\ Todo[1] \in OpenSteps \union UseSteps
         /\ Tail(Todo) \in Seq(Step)
         /\ Tail(Todo) = <<>> => Todo[1] \in Last
         /\ Tail(Todo) # <<>> => Tail(Todo)[1] \in After(Todo[1])
         /\ callersLock => Poll = <<>> /\ th["poller"].at = "idle"
<1>1. /\ Chain(Todo) /\ Chain(Tail(Todo))
      /\ Todo \in Seq(Step) /\ Head(Todo) = Todo[1]
      /\ Todo[1] \in OpenSteps \union UseSteps
      /\ Tail(Todo) = <<>> => Todo[1] \in Last
      /\ Tail(Todo) # <<>> => Tail(Todo)[1] \in After(Todo[1])
  BY ChainOnward DEF SkyInv, Shape
<1>2. Tail(Todo) \in Seq(Step)
  BY <1>1, Rest
<1>3. callersLock => Poll = <<>>
  BY DEF SkyInv, Alone
<1>4. Poll = <<>> => th["poller"].at = "idle"
  <2>1. "poller" \in Threads /\ Locked
    BY DEF Threads, SkyInv
  <2> QED
    BY <2>1 DEF Poll, Locked
<1> QED
  BY <1>1, <1>2, <1>3, <1>4

LEMMA PollerWorks ==
  ASSUME SkyInv, Poll # <<>>
  PROVE  /\ Poll \in Seq(Step) /\ Head(Poll) = Poll[1] /\ Tail(Poll) \in PollLeft
         /\ Tail(Poll) \in Seq(Step)
         /\ Poll[1] \in {"status", "edge", "restart", "note"}
         /\ Poll[1] = "status"  => Tail(Poll) = <<"edge">>
         /\ Poll[1] = "restart" => Tail(Poll) = <<"note">>
         /\ Poll[1] \in {"edge", "note"} => Tail(Poll) = <<>>
         /\ ~IsClosing("poller")
         /\ callersLock => Todo = <<>> /\ th["tuner"].at = "idle"
<1>1. /\ Poll \in Seq(Step) /\ Head(Poll) = Poll[1] /\ Tail(Poll) \in PollLeft
      /\ Poll[1] \in {"status", "edge", "restart", "note"}
      /\ Poll[1] = "status"  => Tail(Poll) = <<"edge">>
      /\ Poll[1] = "restart" => Tail(Poll) = <<"note">>
      /\ Poll[1] \in {"edge", "note"} => Tail(Poll) = <<>>
      /\ \A i \in DOMAIN Poll : Poll[i] # "release"
  BY PollsOnward DEF SkyInv, Shape
<1>2. Tail(Poll) \in Seq(Step)
  BY <1>1, Rest
<1>3. callersLock => Todo = <<>>
  BY DEF SkyInv, Alone
<1>4. Todo = <<>> => th["tuner"].at = "idle"
  <2>1. "tuner" \in Threads /\ Locked
    BY DEF Threads, SkyInv
  <2> QED
    BY <2>1 DEF Todo, Locked
<1>5. ~IsClosing("poller")
  BY <1>1 DEF IsClosing, Poll
<1> QED
  BY <1>1, <1>2, <1>3, <1>4, <1>5

\* The steps before and after each other.
LEMMA AfterFacts ==
  ASSUME NEW x \in OpenSteps \union UseSteps, NEW y \in After(x)
  PROVE  /\ y \in OpenSteps <=> x \in OpenSteps
         /\ y = "closeStream" => x = "captureOff"
         /\ y = "sleep"       => x \in {"closeStream", "sleep"}
         /\ y = "release"     => x = "sleep"
         /\ y = "restart"     => x = "forget"
         /\ y = "captureOn"   => x = "restart"
         /\ y = "captureOff"  => x = "halt"
         /\ x = "demod"   => y = "tune"
         /\ x = "tune"    => y = "forget"
         /\ x = "forget"  => y = "restart"
         /\ x = "restart" => y = "captureOn"
         /\ x = "halt"    => y = "captureOff"
<1>1. CASE x \in OpenSteps
  BY <1>1 DEF OpenSteps, UseSteps, After
<1>2. CASE x \in UseSteps
  BY <1>2 DEF OpenSteps, UseSteps, After
<1> QED
  BY <1>1, <1>2

-----------------------------------------------------------------------------
(***************************************************************************)
(* Steps that change what is known little or not at all.                   *)
(***************************************************************************)
\* Answers stay with the command they answer while others work.
LEMMA PairedStays ==
  ASSUME SkyInv, NEW t \in Threads, th[t].at # "read",
         \A u \in Threads : u # t => th'[u] = th[u],
         \A u \in Threads : u # t /\ ctrl = u => ctrl' = u,
         UNCHANGED <<answers, late, stale, callersLock>>, locked => locked'
  PROVE  Paired'
<1>1. SUFFICES ASSUME ~stale
               PROVE  /\ answers # <<>> =>
                            LET to == Head(answers).to
                            IN  /\ Len(answers) = 1 /\ th'[to].at = "read" /\ ctrl' = to
                                /\ Head(answers).kind = Kind(Head(th'[to].todo))
                      /\ late = <<>>
                      /\ answers # <<>> /\ Head(answers).val =>
                            Head(answers).kind = "data" /\ (callersLock => locked')
  BY DEF Paired, AnswersPaired, Kind
<1>2. /\ answers # <<>> =>
            LET to == Head(answers).to
            IN  /\ Len(answers) = 1 /\ th[to].at = "read" /\ ctrl = to
                /\ Head(answers).kind = Kind(Head(th[to].todo))
      /\ late = <<>>
      /\ answers # <<>> /\ Head(answers).val =>
            Head(answers).kind = "data" /\ (callersLock => locked)
  BY <1>1 DEF SkyInv, Paired, AnswersPaired
<1>3. ASSUME answers # <<>>
      PROVE  LET to == Head(answers).to
             IN  /\ Len(answers) = 1 /\ th'[to].at = "read" /\ ctrl' = to
                 /\ Head(answers).kind = Kind(Head(th'[to].todo))
  <2> DEFINE to == Head(answers).to
  <2>1. Head(answers) \in Answer
    BY <1>3, Types, Rest
  <2>2. to \in Threads /\ to # t
    BY <1>2, <1>3, <2>1 DEF Answer
  <2> QED
    BY <1>2, <1>3, <2>2
<1> QED
  BY <1>2, <1>3

\* Nothing the threads rely on has changed.
LEMMA SameKnowledge ==
  ASSUME SkyInv, Todo' = Todo, Poll' = Poll, th'["poller"].got = th["poller"].got,
         UNCHANGED <<callersLock, locked, streaming, fresh, engine, history>>,
         (\A t \in Threads : th'[t].at # "start") => \A t \in Threads : th[t].at # "start"
  PROVE  Registered' /\ Streams' /\ Polls' /\ Follows'
<1>1. Registered'
  BY DEF SkyInv, Registered, Starts, engine
<1>2. Streams'
  BY DEF SkyInv, Streams, Starts, engine, history
<1>3. Polls'
  BY DEF SkyInv, Polls, Starts, engine, history
<1>4. Follows'
  BY DEF SkyInv, Follows, Starts, engine, history
<1> QED
  BY <1>1, <1>2, <1>3, <1>4

LEMMA EnterKeeps ==
  ASSUME SkyInv, NEW t \in Threads, Enter(t)
  PROVE  SkyInv'
<1> DEFINE a == IF Doing(t, Commands) THEN "write" ELSE "stop"
<1>1. th[t].todo # <<>> /\ Head(th[t].todo) \in Commands \union Switches
      /\ th[t].at = "next" /\ ctrl = None
  BY DEF Enter, Doing, MayEnter
<1>2. Head(th[t].todo) = th[t].todo[1]
  <2>1. th[t].todo \in Seq(Step)
    BY ThreadTypes DEF SkyInv, Locked
  <2> QED
    BY <1>1, <2>1, Rest
<1>3. a \in {"write", "read", "stop", "start"}
      /\ (a \in {"write", "read"} => th[t].todo[1] \in Commands)
      /\ (a = "stop" => th[t].todo[1] \in Switches) /\ a # "start"
  BY <1>1, <1>2 DEF Doing
<1>4. th' = [th EXCEPT ![t].at = a] /\ ctrl' = t
      /\ UNCHANGED <<callersLock, device, engine, call, history, faults>>
  BY DEF Enter
<1> HIDE DEF a
<1>5. /\ Locked' /\ Alone' /\ Shape'
      /\ ctrl' \in Threads \union {None} /\ call' \in Threads \union {None}
      /\ Todo' = Todo /\ Poll' = Poll /\ th'["poller"].got = th["poller"].got
      /\ \A u \in Threads : u # t => th'[u] = th[u]
  BY <1>1, <1>3, <1>4, Stays DEF engine
<1>6. Paired'
  <2>1. \A u \in Threads : u # t /\ ctrl = u => ctrl' = u
    BY <1>1, DvbskyAssumption DEF Threads
  <2> QED
    BY <1>1, <1>4, <1>5, <2>1, PairedStays DEF device, history
<1>7. Registered' /\ Streams' /\ Polls' /\ Follows'
  <2>1. (\A u \in Threads : th'[u].at # "start") => \A u \in Threads : th[u].at # "start"
    BY <1>1, <1>5
  <2> QED
    BY <1>4, <1>5, <2>1, SameKnowledge DEF device
<1>8. TypeOK'
  BY <1>4, <1>5, Types, TypesAfter DEF device, engine, history
<1> QED
  BY <1>5, <1>6, <1>7, <1>8 DEF SkyInv

\* The threads and the locks stay as they are.
LEMMA Steady ==
  ASSUME SkyInv, UNCHANGED <<callersLock, th, ctrl, call, published>>
  PROVE  Locked' /\ Alone' /\ Shape' /\ Todo' = Todo /\ Poll' = Poll
<1>1. Todo' = Todo /\ Poll' = Poll /\ (IsClosing("tuner")' <=> IsClosing("tuner"))
  BY DEF Todo, Poll, IsClosing
<1> QED
  BY <1>1 DEF SkyInv, Locked, Alone, Shape

LEMMA ArriveKeeps ==
  ASSUME SkyInv, Arrive
  PROVE  SkyInv'
<1>1. stale
  BY DEF SkyInv, Paired, Arrive
<1>2. UNCHANGED <<callersLock, locked, streaming, fresh, engine, th, ctrl, call,
                  history, faults>>
  BY DEF Arrive
<1>3. Locked' /\ Alone' /\ Shape' /\ Todo' = Todo /\ Poll' = Poll
  BY <1>2, Steady DEF engine
<1>4. Paired'
  BY <1>1, <1>2 DEF Paired, AnswersPaired, history
<1>5. Registered' /\ Streams' /\ Polls' /\ Follows'
  BY <1>2, <1>3, SameKnowledge
<1>6. answers' \in Seq(Answer) /\ late' \in Seq(Answer)
  <2>1. /\ answers \in Seq(Answer) /\ late \in Seq(Answer) /\ late # <<>>
        /\ answers' = Append(answers, Head(late)) /\ late' = Tail(late)
    BY Types DEF Arrive
  <2>2. Head(late) \in Answer /\ Tail(late) \in Seq(Answer)
    BY <2>1, Rest
  <2> QED
    BY <2>1, <2>2, AppendProperties
<1>7. TypeOK'
  BY <1>2, <1>3, <1>6, Types, TypesAfter DEF engine, history
<1> QED
  BY <1>3, <1>4, <1>5, <1>7 DEF SkyInv

LEMMA StutterKeeps ==
  ASSUME SkyInv, UNCHANGED vars
  PROVE  SkyInv'
<1>1. UNCHANGED <<callersLock, answers, late, locked, streaming, fresh, engine, th,
                  ctrl, call, history, faults>>
  BY DEF vars, device
<1>2. Locked' /\ Alone' /\ Shape' /\ Todo' = Todo /\ Poll' = Poll
  BY <1>1, Steady DEF engine
<1>3. Paired'
  BY <1>1 DEF SkyInv, Paired, AnswersPaired, history
<1>4. Registered' /\ Streams' /\ Polls' /\ Follows'
  BY <1>1, <1>2, SameKnowledge
<1>5. TypeOK'
  BY <1>1, <1>2, Types, TypesAfter DEF engine, history
<1> QED
  BY <1>2, <1>3, <1>4, <1>5 DEF SkyInv

\* Nobody has lock on record when the demod gets it.
LEMMA GetLockKeeps ==
  ASSUME SkyInv, GetLock
  PROVE  SkyInv'
<1>1. /\ ~locked /\ ~unseenLoss /\ locked' = TRUE /\ fresh' = FALSE
      /\ UNCHANGED <<callersLock, answers, late, streaming, engine, th, ctrl, call,
                     history, faults>>
  BY DEF GetLock
<1>2. Locked' /\ Alone' /\ Shape' /\ Todo' = Todo /\ Poll' = Poll
  BY <1>1, Steady DEF engine
<1>3. Paired'
  BY <1>1 DEF SkyInv, Paired, AnswersPaired, history
<1>4. Registered'
  BY <1>1, <1>2 DEF SkyInv, Registered, Starts, engine
<1>5. Streams'
  BY <1>1, <1>2 DEF SkyInv, Streams, Starts, engine, history
<1>6. Polls'
  BY <1>1, <1>2 DEF SkyInv, Polls, Starts, engine, history
<1>7. Follows'
  BY <1>1, <1>2 DEF SkyInv, Follows, Starts, engine, history
<1>8. TypeOK'
  BY <1>1, <1>2, Types, TypesAfter DEF engine, history
<1> QED
  BY <1>2, <1>3, <1>4, <1>5, <1>6, <1>7, <1>8 DEF SkyInv

\* A loss is not missed: it stays unseen until a poll has told of it.
LEMMA LoseLockKeeps ==
  ASSUME SkyInv, LoseLock
  PROVE  SkyInv'
<1>1. /\ locked /\ th["poller"].at = "idle" /\ locked' = FALSE
      /\ unseenLoss' = lastLock
      /\ UNCHANGED <<callersLock, answers, late, streaming, fresh, engine, th, ctrl,
                     call, stale, doubt, faults>>
  BY DEF LoseLock
<1>2. Locked' /\ Alone' /\ Shape' /\ Todo' = Todo /\ Poll' = Poll
  BY <1>1, Steady DEF engine
<1>3. Poll = <<>>
  <2>1. "poller" \in Threads /\ Locked
    BY Types DEF SkyInv
  <2> QED
    BY <1>1, <2>1 DEF Locked, Poll
<1>4. ASSUME ~stale, answers # <<>> PROVE ~Head(answers).val
  <2> DEFINE to == Head(answers).to
  <2>1. /\ th[to].at = "read" /\ Head(answers).kind = Kind(Head(th[to].todo))
        /\ Head(answers).val => Head(answers).kind = "data"
    BY <1>4 DEF SkyInv, Paired, AnswersPaired
  <2>2. to \in Threads
    <3>1. Head(answers) \in Answer
      BY <1>4, Types, Rest
    <3> QED
      BY <3>1 DEF Answer
  <2>3. to = "tuner"
    BY <1>1, <2>1, <2>2 DEF Threads
  <2>4. Todo # <<>> /\ Head(Todo) # "status"
    <3>1. Todo # <<>>
      BY <2>1, <2>3, Types DEF SkyInv, Locked, Todo
    <3> QED
      BY <3>1, TunerWorks DEF OpenSteps, UseSteps
  <2> QED
    BY <2>1, <2>3, <2>4 DEF Kind, Todo
<1>5. Paired'
  BY <1>1, <1>4 DEF SkyInv, Paired, AnswersPaired
<1>6. Registered'
  BY <1>1, <1>2 DEF SkyInv, Registered, Starts, engine
<1>7. Streams'
  BY <1>1, <1>2 DEF SkyInv, Streams, Starts, engine
<1>8. Polls'
  BY <1>2, <1>3 DEF Polls, Starts
<1>9. Follows'
  BY <1>1, <1>2 DEF SkyInv, Follows, Starts, engine
<1>10. TypeOK'
  BY <1>1, <1>2, Types, TypesAfter DEF engine
<1> QED
  BY <1>2, <1>5, <1>6, <1>7, <1>8, <1>9, <1>10 DEF SkyInv

-----------------------------------------------------------------------------
(***************************************************************************)
(* A step that fails ends its call, but in a teardown and for the restart  *)
(* of a poll.                                                              *)
(***************************************************************************)
\* What a failing or an unanswered switch, and a tune that failed, leave in doubt.
DoubtOf(h) == (IF h \in Switches THEN {"stream"} ELSE {}) \union
              (IF h \in {"demod", "tune"} THEN {"tune"} ELSE {})

LEMMA TunerFailGoes ==
  ASSUME SkyInv, Todo # <<>>, Fail("tuner")
  PROVE  /\ doubt' = doubt \union DoubtOf(Todo[1])
         /\ \E rest \in {Tail(Todo), <<>>} : Advances("tuner", rest, th["tuner"].got)
<1>1. /\ "tuner" \in Threads /\ th \in [Threads -> ThreadRecord]
      /\ Head(Todo) = Todo[1] /\ Tail(Todo) \in Seq(Step) /\ <<>> \in Seq(Step)
  BY Types, TunerWorks DEF SkyInv, Locked
<1>2. doubt' = doubt \union DoubtOf(Todo[1])
  BY <1>1 DEF Fail, Doing, DoubtOf, Todo
<1>3. \E rest \in {Tail(Todo), <<>>} : Continue("tuner", rest)
  BY DEF Fail, Todo
<1>4. PICK rest \in {Tail(Todo), <<>>} : Continue("tuner", rest)
  BY <1>3
<1>5. Advances("tuner", rest, th["tuner"].got)
  BY <1>1, <1>4, Continues
<1> QED
  BY <1>2, <1>5

LEMMA PollerFailGoes ==
  ASSUME SkyInv, Poll # <<>>, Fail("poller")
  PROVE  /\ doubt' = doubt \union DoubtOf(Poll[1])
         /\ Advances("poller", IF Poll[1] = "restart" THEN <<"note">> ELSE <<>>,
                     th["poller"].got)
<1>1. /\ "poller" \in Threads /\ th \in [Threads -> ThreadRecord]
      /\ Head(Poll) = Poll[1] /\ Tail(Poll) \in Seq(Step) /\ <<>> \in Seq(Step)
      /\ Poll[1] \in {"status", "edge", "restart", "note"}
      /\ Poll[1] = "restart" => Tail(Poll) = <<"note">>
      /\ ~IsClosing("poller")
  BY Types, PollerWorks DEF SkyInv, Locked
<1>2. doubt' = doubt \union DoubtOf(Poll[1])
  BY <1>1 DEF Fail, Doing, DoubtOf, Poll
<1>3. Ignored("poller") <=> Poll[1] = "restart"
  BY <1>1 DEF Ignored, Doing, Switches, Poll
<1>4. Continue("poller", IF Poll[1] = "restart" THEN Tail(Poll) ELSE <<>>)
  BY <1>3 DEF Fail, Poll
<1>5. CASE Poll[1] = "restart"
  <2>1. Continue("poller", Tail(Poll))
    BY <1>4, <1>5
  <2> QED
    BY <1>1, <1>2, <1>5, <2>1, Continues
<1>6. CASE Poll[1] # "restart"
  <2>1. Continue("poller", <<>>)
    BY <1>4, <1>6
  <2> QED
    BY <1>1, <1>2, <1>6, <2>1, Continues
<1> QED
  BY <1>5, <1>6

\* Where the engine is follows a step of the tuner that leaves it alone.
LEMMA EngineStays ==
  ASSUME SkyInv, Todo # <<>>, NEW rest \in {Tail(Todo), <<>>}, Todo' = rest,
         Todo[1] \in Commands \union Switches \union {"pipe", "stream"},
         UNCHANGED <<callersLock, engine>>
  PROVE  Registered'
<1>1. /\ Todo[1] \in OpenSteps \union UseSteps
      /\ rest # <<>> => rest[1] \in After(Todo[1])
  BY TunerWorks
<1>2. Todo[1] \notin {"captureOff", "closeStream", "forget"}
  BY DEF Commands, Switches
<1>3. /\ Todo # <<>> => (published <=> Todo[1] \notin OpenSteps)
      /\ captureOn => published
      /\ Starts(Todo, {"closeStream", "sleep", "release"}) => ~captureOn
      /\ callersLock /\ Starts(Todo, {"restart", "captureOn"}) => ~lastLock
  BY DEF SkyInv, Registered
<1>4. CASE rest = <<>>
  BY <1>3, <1>4 DEF Registered, Starts, engine
<1>5. CASE rest # <<>>
  <2>1. /\ rest[1] \in OpenSteps <=> Todo[1] \in OpenSteps
        /\ rest[1] # "closeStream" /\ rest[1] # "restart"
        /\ rest[1] = "sleep"       => Todo[1] = "sleep"
        /\ rest[1] = "release"     => Todo[1] = "sleep"
        /\ rest[1] = "captureOn"   => Todo[1] = "restart"
    BY <1>1, <1>2, <1>5, AfterFacts
  <2> QED
    BY <1>3, <1>5, <2>1 DEF Registered, Starts, engine
<1> QED
  BY <1>4, <1>5

LEMMA TunerFails ==
  ASSUME SkyInv, Todo # <<>>, Fail("tuner"), Leave("tuner"),
         UNCHANGED <<callersLock, engine>>,
         Todo[1] \in Commands \union Switches \union {"pipe", "stream"},
         Todo[1] \notin Switches => streaming' = streaming /\ fresh' = fresh,
         Todo[1] \notin {"gpio", "demod", "tune", "sleep"} =>
            UNCHANGED <<locked, unseenLoss>>,
         stale => stale'
  PROVE  /\ Locked' /\ Alone' /\ Shape' /\ Registered' /\ Streams' /\ Polls' /\ Follows'
         /\ ctrl' \in Threads \union {None} /\ call' \in Threads \union {None}
         /\ doubt' = doubt \union DoubtOf(Todo[1])
         /\ th'["poller"] = th["poller"]
<1>1. doubt' = doubt \union DoubtOf(Todo[1])
  BY TunerFailGoes
<1>2. PICK rest \in {Tail(Todo), <<>>} : Advances("tuner", rest, th["tuner"].got)
  BY TunerFailGoes
<1>3. /\ Locked' /\ Alone' /\ Shape'
      /\ ctrl' \in Threads \union {None} /\ call' \in Threads \union {None}
  BY <1>2, Types, GoesOn DEF Todo, engine
<1>4. /\ Todo' = rest /\ th'["poller"] = th["poller"] /\ Poll' = Poll
      /\ th'["tuner"].at \in {"idle", "next"}
  BY <1>2, Types DEF Advances, Todo, Poll
<1>5. Registered'
  BY <1>4, EngineStays
<1>6. /\ Todo[1] \in OpenSteps \union UseSteps
      /\ rest # <<>> => rest[1] \in After(Todo[1])
      /\ callersLock => Poll = <<>> /\ th["poller"].at = "idle"
  BY TunerWorks
<1>7. Todo[1] \notin {"captureOn", "captureOff", "forget"}
  BY DEF Commands, Switches
<1>8. Streams'
  <2> SUFFICES ASSUME callersLock, "stream" \notin doubt'
               PROVE  /\ ~Starts(rest, {"captureOn", "captureOff"})
                      /\ streaming' <=> captureOn
    BY <1>4 DEF Streams, Starts, engine
  <2>1. Todo[1] \notin Switches /\ "stream" \notin doubt
    BY <1>1 DEF DoubtOf
  <2>2. ~Starts(rest, {"captureOn", "captureOff"})
    <3>1. Todo[1] # "restart" /\ Todo[1] # "halt"
      BY <2>1 DEF Switches
    <3> QED
      BY <1>6, <3>1, AfterFacts DEF Starts
  <2>3. \A t \in Threads : th[t].at # "start"
    <3>1. th["tuner"].at # "start"
      BY <2>1, Types DEF SkyInv, Locked, Todo, Switches
    <3> QED
      BY <1>6, <3>1, Types
  <2>4. ~Starts(Todo, {"captureOn", "captureOff"})
    BY <1>7 DEF Starts
  <2>5. streaming <=> captureOn
    BY <2>1, <2>3, <2>4 DEF SkyInv, Streams
  <2> QED
    BY <2>1, <2>2, <2>5
<1>9. Polls'
  BY <1>4, <1>6 DEF Polls, Starts
<1>10. Follows'
  <2> SUFFICES ASSUME callersLock, doubt' = {}, ~stale', captureOn, lastLock
               PROVE  IF locked' THEN fresh' ELSE unseenLoss'
    BY DEF Follows, engine
  <2>1. /\ doubt = {} /\ Todo[1] \notin Switches /\ Todo[1] \notin {"demod", "tune"}
        /\ ~stale
    BY <1>1 DEF DoubtOf
  <2>2. Todo[1] # "gpio" /\ Todo[1] # "sleep"
    BY DEF SkyInv, Registered, Starts, OpenSteps
  <2>3. ~Starts(Todo, {"demod", "tune", "forget", "captureOff"})
    BY <1>7, <2>1 DEF Starts
  <2>4. IF locked THEN fresh ELSE unseenLoss
    BY <2>1, <2>3 DEF SkyInv, Follows
  <2>5. UNCHANGED <<locked, unseenLoss, fresh>>
    BY <2>1, <2>2
  <2> QED
    BY <2>4, <2>5
<1> QED
  BY <1>1, <1>3, <1>4, <1>5, <1>8, <1>9, <1>10

LEMMA PollerFails ==
  ASSUME SkyInv, Poll # <<>>, Fail("poller"), Leave("poller"),
         UNCHANGED <<callersLock, engine, locked, unseenLoss>>,
         Poll[1] \in {"status", "restart"},
         Poll[1] = "status" => UNCHANGED <<streaming, fresh>>,
         stale => stale'
  PROVE  /\ Locked' /\ Alone' /\ Shape' /\ Registered' /\ Streams' /\ Polls' /\ Follows'
         /\ ctrl' \in Threads \union {None} /\ call' \in Threads \union {None}
         /\ doubt' = doubt \union DoubtOf(Poll[1])
         /\ th'["tuner"] = th["tuner"]
<1> DEFINE rest == IF Poll[1] = "restart" THEN <<"note">> ELSE <<>>
<1>1. doubt' = doubt \union DoubtOf(Poll[1])
  BY PollerFailGoes
<1>2. Advances("poller", rest, th["poller"].got)
  BY PollerFailGoes
<1>3. /\ rest \in PollLeft
      /\ Poll[1] = "status" => rest = <<>>
      /\ ~Starts(rest, {"restart"})
      /\ Starts(rest, {"edge", "restart", "note"}) => Poll[1] = "restart"
  BY DEF PollLeft, Starts
<1> HIDE DEF rest
<1>4. /\ Locked' /\ Alone' /\ Shape'
      /\ ctrl' \in Threads \union {None} /\ call' \in Threads \union {None}
  BY <1>2, <1>3, Types, GoesOn DEF Poll, engine
<1>5. /\ Poll' = rest /\ th'["tuner"] = th["tuner"] /\ Todo' = Todo
      /\ th'["poller"].at \in {"idle", "next"} /\ th'["poller"].got = th["poller"].got
  BY <1>2, Types DEF Advances, Todo, Poll
<1>6. Registered'
  BY <1>5 DEF SkyInv, Registered, Starts, engine
<1>7. callersLock => Todo = <<>> /\ th["tuner"].at = "idle"
  BY PollerWorks
<1>8. "restart" \in Switches /\ "status" \notin Switches
  BY DEF Switches
<1>9. Streams'
  <2> SUFFICES ASSUME callersLock, "stream" \notin doubt'
               PROVE  streaming' <=> captureOn
    BY <1>5, <1>7 DEF Streams, Starts, engine
  <2>1. Poll[1] = "status" /\ "stream" \notin doubt
    BY <1>1, <1>8 DEF DoubtOf
  <2>2. \A t \in Threads : th[t].at # "start"
    <3>1. th["poller"].at # "start"
      BY <2>1, Types DEF SkyInv, Locked, Poll
    <3> QED
      BY <1>7, <3>1, Types
  <2>3. streaming <=> captureOn
    BY <1>7, <2>1, <2>2 DEF SkyInv, Streams, Starts
  <2> QED
    BY <2>1, <2>3
<1>10. Polls'
  <2> SUFFICES ASSUME callersLock
               PROVE  /\ ~stale' /\ Starts(rest, {"edge", "restart", "note"})
                            /\ th["poller"].got => locked
                      /\ doubt' = {} => ~Starts(rest, {"note"})
    BY <1>3, <1>5 DEF Polls, engine
  <2>1. doubt' = {} => Poll[1] = "status"
    BY <1>1, <1>8 DEF DoubtOf
  <2>2. ~stale /\ Poll[1] = "restart" /\ th["poller"].got => locked
    BY DEF SkyInv, Polls, Starts
  <2> QED
    BY <1>3, <2>1, <2>2 DEF Starts
<1>11. Follows'
  <2> SUFFICES ASSUME callersLock, doubt' = {}, ~stale', captureOn, lastLock
               PROVE  IF locked THEN fresh' ELSE unseenLoss
    BY DEF Follows, engine
  <2>1. Poll[1] = "status" /\ doubt = {} /\ ~stale
    BY <1>1, <1>8 DEF DoubtOf
  <2>2. IF locked THEN fresh ELSE unseenLoss
    BY <1>7, <2>1 DEF SkyInv, Follows, Starts
  <2> QED
    BY <2>1, <2>2
<1> QED
  BY <1>1, <1>4, <1>5, <1>6, <1>9, <1>10, <1>11

-----------------------------------------------------------------------------
(***************************************************************************)
(* A command and its answer.                                               *)
(***************************************************************************)
\* Who is at a command, and at which.
LEMMA AtCommand ==
  ASSUME SkyInv, NEW t \in Threads, th[t].at \in {"write", "read"}
  PROVE  /\ th[t].todo # <<>> /\ ctrl = t
         /\ Head(th[t].todo) = th[t].todo[1] /\ th[t].todo[1] \in Commands
         /\ t = "poller" => Poll # <<>> /\ Poll[1] = "status"
         /\ t = "tuner"  => Todo # <<>> /\ Todo[1] # "status"
<1>1. /\ th[t].todo # <<>> /\ ctrl = t /\ th[t].todo[1] \in Commands
      /\ th[t].todo \in Seq(Step)
  BY ThreadTypes DEF SkyInv, Locked
<1>2. Head(th[t].todo) = th[t].todo[1]
  BY <1>1, Rest
<1>3. ASSUME t = "poller" PROVE Poll # <<>> /\ Poll[1] = "status"
  <2>1. Poll # <<>> /\ Poll[1] \in Commands
    BY <1>1, <1>3 DEF Poll
  <2>2. Poll[1] \in {"status", "edge", "restart", "note"}
    BY <2>1, PollerWorks
  <2> QED
    BY <2>1, <2>2 DEF Commands
<1>4. ASSUME t = "tuner" PROVE Todo # <<>> /\ Todo[1] # "status"
  <2>1. Todo # <<>>
    BY <1>1, <1>4 DEF Todo
  <2> QED
    BY <2>1, TunerWorks DEF OpenSteps, UseSteps
<1> QED
  BY <1>1, <1>2, <1>3, <1>4

\* While a command is sent, no answer to an earlier one is left.
LEMMA NoAnswerYet ==
  ASSUME SkyInv, NEW t \in Threads, th[t].at # "read", ctrl = t, ~stale
  PROVE  answers = <<>> /\ late = <<>>
<1>1. late = <<>>
  BY DEF SkyInv, Paired
<1>2. answers # <<>> => th[Head(answers).to].at = "read" /\ ctrl = Head(answers).to
  BY DEF SkyInv, Paired, AnswersPaired
<1> QED
  BY <1>1, <1>2

LEMMA WriteDevice ==
  ASSUME SkyInv, NEW t \in Threads, NEW out \in Outcome,
         NEW when \in {"now", "later", "never"}, Write(t, out, when)
  PROVE  /\ answers' \in Seq(Answer) /\ late' \in Seq(Answer)
         /\ locked' \in BOOLEAN /\ unseenLoss' \in BOOLEAN /\ stale' \in BOOLEAN
         /\ faults' \in 0..MaxFaults
         /\ stale => stale'
         /\ th[t].todo[1] \notin {"gpio", "demod", "tune", "sleep"} =>
               UNCHANGED <<locked, unseenLoss>>
<1> DEFINE cmd == Head(th[t].todo)
           answer == [to |-> t, kind |-> Kind(cmd), val |-> cmd = "status" /\ locked]
<1>1. cmd = th[t].todo[1]
  BY AtCommand DEF Write
<1>2. answer \in Answer
  <2>1. Kind(cmd) \in {"ack", "data"} /\ (cmd = "status" /\ locked) \in BOOLEAN
    BY DEF Kind
  <2> QED
    BY <2>1 DEF Answer
<1>3. /\ answers' \in {answers, Append(answers, answer)}
      /\ late' \in {late, Append(late, answer)}
  BY DEF Write
<1>4. answers' \in Seq(Answer) /\ late' \in Seq(Answer)
  <2>1. answers \in Seq(Answer) /\ late \in Seq(Answer)
    BY Types
  <2> HIDE DEF answer
  <2>2. Append(answers, answer) \in Seq(Answer) /\ Append(late, answer) \in Seq(Answer)
    BY <1>2, <2>1, AppendProperties
  <2> QED
    BY <1>3, <2>1, <2>2
<1>5. /\ locked' \in BOOLEAN /\ unseenLoss' \in BOOLEAN
      /\ cmd \notin {"gpio", "demod", "tune", "sleep"} => UNCHANGED <<locked, unseenLoss>>
  BY Types DEF Write, Obey
<1>6. stale' \in BOOLEAN /\ (stale => stale')
  BY Types DEF Write
<1>7. faults' \in 0..MaxFaults
  <2> DEFINE n == (IF out = "done" THEN 0 ELSE 1) + (IF when = "now" THEN 0 ELSE 1)
  <2>1. n \in Nat /\ Costs(n)
    BY DEF Write
  <2> HIDE DEF n
  <2> QED
    BY <2>1, Types, FaultsCount
<1> QED
  BY <1>1, <1>4, <1>5, <1>6, <1>7

\* The answer to a command is the only one, unless one was left behind.
LEMMA WritePaired ==
  ASSUME SkyInv, NEW t \in Threads, NEW out \in Outcome,
         NEW when \in {"now", "later", "never"}, Write(t, out, when),
         out = "done" => th'[t].todo = th[t].todo /\ th'[t].at = "read" /\ ctrl' = t
  PROVE  Paired'
<1> DEFINE cmd == Head(th[t].todo)
           answer == [to |-> t, kind |-> Kind(cmd), val |-> cmd = "status" /\ locked]
<1>1. SUFFICES ASSUME ~stale'
               PROVE  AnswersPaired' /\ late' = <<>>
                      /\ (answers' # <<>> /\ Head(answers').val =>
                            Head(answers').kind = "data" /\ (callersLock' => locked'))
  BY DEF Paired, AnswersPaired
<1>2. /\ ~stale /\ when # "later" /\ ~(out = "lost" /\ when = "now")
      /\ th[t].at = "write"
  BY <1>1, Types DEF Write
<1>3. answers = <<>> /\ late = <<>>
  BY <1>2, AtCommand, NoAnswerYet
<1>4. late' = <<>>
  BY <1>2, <1>3 DEF Write
<1>5. CASE out # "done" \/ when = "never"
  <2>1. answers' = <<>>
    BY <1>2, <1>3, <1>5 DEF Write, Outcome
  <2> QED
    BY <1>4, <2>1 DEF AnswersPaired
<1>6. CASE out = "done" /\ when # "never"
  <2>1. answers' = Append(<<>>, answer) /\ Obey(cmd) /\ callersLock' = callersLock
    BY <1>2, <1>3, <1>6 DEF Write, Outcome
  <2>2. answer.to = t /\ answer.kind = Kind(cmd) /\ answer.val = (cmd = "status" /\ locked)
    OBVIOUS
  <2>3. answer.val => answer.kind = "data" /\ locked'
    BY <2>1 DEF Kind, Obey
  <2> HIDE DEF answer
  <2>4. Head(answers') = answer /\ Len(answers') = 1
    BY <2>1
  <2>5. AnswersPaired'
    <3>1. th'[t].at = "read" /\ ctrl' = t /\ Head(th'[t].todo) = cmd
      BY <1>6
    <3> QED
      BY <2>2, <2>4, <3>1 DEF AnswersPaired, Kind
  <2> QED
    BY <1>4, <2>3, <2>4, <2>5
<1> QED
  BY <1>5, <1>6

LEMMA WriteDone ==
  ASSUME SkyInv, NEW t \in Threads, NEW when \in {"now", "later", "never"},
         Write(t, "done", when)
  PROVE  SkyInv'
<1>1. /\ th[t].at = "write" /\ th' = [th EXCEPT ![t].at = "read"]
      /\ UNCHANGED <<ctrl, call, doubt, callersLock, streaming, fresh, engine>>
  BY DEF Write
<1>2. /\ th[t].todo # <<>> /\ ctrl = t /\ th[t].todo[1] \in Commands
      /\ t = "poller" => Poll # <<>> /\ Poll[1] = "status"
      /\ t = "tuner"  => Todo # <<>> /\ Todo[1] # "status"
  BY <1>1, AtCommand
<1>3. /\ Locked' /\ Alone' /\ Shape'
      /\ ctrl' \in Threads \union {None} /\ call' \in Threads \union {None}
      /\ Todo' = Todo /\ Poll' = Poll /\ th'["poller"].got = th["poller"].got
      /\ th'[t].at = "read" /\ th'[t].todo = th[t].todo
      /\ \A u \in Threads : u # t => th'[u] = th[u]
  BY <1>1, <1>2, Stays DEF engine
<1>4. "done" \in Outcome
  BY DEF Outcome
<1>5. Paired'
  BY <1>1, <1>2, <1>3, <1>4, WritePaired
<1>6. /\ answers' \in Seq(Answer) /\ late' \in Seq(Answer)
      /\ locked' \in BOOLEAN /\ unseenLoss' \in BOOLEAN /\ stale' \in BOOLEAN
      /\ faults' \in 0..MaxFaults
      /\ stale => stale'
      /\ th[t].todo[1] \notin {"gpio", "demod", "tune", "sleep"} =>
            UNCHANGED <<locked, unseenLoss>>
  BY <1>4, WriteDevice
<1>7. Registered'
  BY <1>1, <1>3 DEF SkyInv, Registered, Starts, engine
<1>8. Streams'
  <2>1. (\A u \in Threads : th'[u].at # "start") => \A u \in Threads : th[u].at # "start"
    BY <1>1, <1>3
  <2> QED
    BY <1>1, <1>3, <2>1 DEF SkyInv, Streams, Starts, engine
<1>9. Polls'
  <2>1. CASE t = "poller"
    <3>1. ~Starts(Poll, {"edge", "restart", "note"}) /\ ~Starts(Poll, {"restart"})
          /\ ~Starts(Poll, {"note"})
      BY <1>2, <2>1 DEF Starts
    <3> QED
      BY <1>3, <3>1 DEF Polls, Starts
  <2>2. CASE t = "tuner"
    <3>1. callersLock => Poll = <<>>
      BY <1>2, <2>2, TunerWorks
    <3> QED
      BY <1>1, <1>3, <3>1 DEF Polls, Starts
  <2> QED
    BY <2>1, <2>2, Types
<1>10. Follows'
  <2> SUFFICES ASSUME callersLock, doubt = {}, ~stale', captureOn, lastLock,
                      ~Starts(Todo, {"demod", "tune", "forget", "captureOff"})
               PROVE  IF locked' THEN fresh ELSE unseenLoss'
    BY <1>1, <1>3 DEF Follows, Starts, engine
  <2>1. IF locked THEN fresh ELSE unseenLoss
    BY <1>6 DEF SkyInv, Follows
  <2>2. th[t].todo[1] \notin {"gpio", "demod", "tune", "sleep"}
    <3>1. CASE t = "poller"
      BY <1>2, <3>1 DEF Poll
    <3>2. CASE t = "tuner"
      <4>1. Todo # <<>> /\ th[t].todo[1] = Todo[1]
        BY <1>2, <3>2 DEF Todo
      <4>2. Todo[1] # "gpio" /\ Todo[1] # "sleep"
        BY <4>1 DEF SkyInv, Registered, Starts, OpenSteps
      <4> QED
        BY <4>1, <4>2 DEF Starts
    <3> QED
      BY <3>1, <3>2, Types
  <2> QED
    BY <1>6, <2>1, <2>2
<1>11. TypeOK'
  BY <1>1, <1>3, <1>6, Types, TypesAfter DEF engine
<1> QED
  BY <1>3, <1>5, <1>7, <1>8, <1>9, <1>10, <1>11 DEF SkyInv

\* What a failing step leaves in doubt is something known.
LEMMA DoubtTypes ==
  ASSUME doubt \subseteq {"stream", "tune"}, NEW h
  PROVE  doubt \union DoubtOf(h) \subseteq {"stream", "tune"}
BY DEF DoubtOf

LEMMA WriteFails ==
  ASSUME SkyInv, NEW t \in Threads, NEW out \in Outcome \ {"done"},
         NEW when \in {"now", "later", "never"}, Write(t, out, when)
  PROVE  SkyInv'
<1>1. /\ th[t].at = "write" /\ Fail(t) /\ Leave(t)
      /\ UNCHANGED <<callersLock, streaming, fresh, engine>>
  BY DEF Write
<1>2. /\ th[t].todo # <<>> /\ ctrl = t /\ th[t].todo[1] \in Commands
      /\ t = "poller" => Poll # <<>> /\ Poll[1] = "status"
      /\ t = "tuner"  => Todo # <<>> /\ Todo[1] # "status"
  BY <1>1, AtCommand
<1>3. Paired'
  BY WritePaired
<1>4. /\ answers' \in Seq(Answer) /\ late' \in Seq(Answer)
      /\ locked' \in BOOLEAN /\ unseenLoss' \in BOOLEAN /\ stale' \in BOOLEAN
      /\ faults' \in 0..MaxFaults
      /\ stale => stale'
      /\ th[t].todo[1] \notin {"gpio", "demod", "tune", "sleep"} =>
            UNCHANGED <<locked, unseenLoss>>
  BY WriteDevice
<1>5. /\ Locked' /\ Alone' /\ Shape' /\ Registered' /\ Streams' /\ Polls' /\ Follows'
      /\ ctrl' \in Threads \union {None} /\ call' \in Threads \union {None}
      /\ doubt' = doubt \union DoubtOf(th[t].todo[1])
  <2>1. CASE t = "tuner"
    BY <1>1, <1>2, <1>4, <2>1, TunerFails DEF Todo
  <2>2. CASE t = "poller"
    BY <1>1, <1>2, <1>4, <2>2, PollerFails DEF Poll
  <2> QED
    BY <2>1, <2>2, Types
<1>6. doubt' \subseteq {"stream", "tune"}
  BY <1>5, Types, DoubtTypes
<1>7. TypeOK'
  BY <1>1, <1>4, <1>5, <1>6, Types, TypesAfter DEF engine
<1> QED
  BY <1>3, <1>5, <1>7 DEF SkyInv

\* The tuner's command was answered.
LEMMA TunerAnswered ==
  ASSUME SkyInv, Todo # <<>>, Todo[1] \in Commands, th["tuner"].at = "read",
         NEW g, Advances("tuner", Tail(Todo), g), Leave("tuner"),
         UNCHANGED <<callersLock, engine, locked, streaming, fresh, history>>
  PROVE  /\ Locked' /\ Alone' /\ Shape' /\ Registered' /\ Streams' /\ Polls' /\ Follows'
         /\ ctrl' \in Threads \union {None} /\ call' \in Threads \union {None}
<1> DEFINE rest == Tail(Todo)
<1>1. /\ Locked' /\ Alone' /\ Shape'
      /\ ctrl' \in Threads \union {None} /\ call' \in Threads \union {None}
  BY Types, GoesOn DEF Todo, engine
<1>2. Todo' = rest /\ th'["poller"] = th["poller"] /\ Poll' = Poll
  BY Types DEF Advances, Todo, Poll
<1>3. Registered'
  BY <1>2, EngineStays
<1>4. /\ Todo[1] \in OpenSteps \union UseSteps
      /\ rest = <<>> => Todo[1] \in Last
      /\ rest # <<>> => rest[1] \in After(Todo[1])
      /\ callersLock => Poll = <<>> /\ th["poller"].at = "idle"
  BY TunerWorks
<1>5. Todo[1] \notin {"captureOn", "captureOff", "forget", "restart", "halt"}
  BY DEF Commands
<1>6. Streams'
  <2> SUFFICES ASSUME callersLock, "stream" \notin doubt
               PROVE  /\ ~Starts(rest, {"captureOn", "captureOff"})
                      /\ streaming <=> captureOn
    BY <1>2 DEF Streams, Starts, engine, history
  <2>1. ~Starts(rest, {"captureOn", "captureOff"})
    BY <1>4, <1>5, AfterFacts DEF Starts
  <2>2. \A t \in Threads : th[t].at # "start"
    BY <1>4, Types
  <2>3. ~Starts(Todo, {"captureOn", "captureOff"})
    BY <1>5 DEF Starts
  <2> QED
    BY <2>1, <2>2, <2>3 DEF SkyInv, Streams
<1>7. Polls'
  BY <1>2, <1>4 DEF Polls, Starts
<1>8. Follows'
  <2> SUFFICES ASSUME callersLock, doubt = {}, ~stale, captureOn, lastLock,
                      ~Starts(rest, {"demod", "tune", "forget", "captureOff"})
               PROVE  IF locked THEN fresh ELSE unseenLoss
    BY <1>2 DEF Follows, Starts, engine, history
  <2>1. Todo[1] # "demod" /\ Todo[1] # "tune"
    <3>1. "demod" \notin Last /\ "tune" \notin Last
      BY DEF Last
    <3> QED
      BY <1>4, <3>1, AfterFacts DEF Starts
  <2>2. ~Starts(Todo, {"demod", "tune", "forget", "captureOff"})
    BY <1>5, <2>1 DEF Starts
  <2> QED
    BY <2>2 DEF SkyInv, Follows
<1> QED
  BY <1>1, <1>3, <1>6, <1>7, <1>8

\* The status poll was answered.
LEMMA PollerAnswered ==
  ASSUME SkyInv, Poll # <<>>, Poll[1] = "status", th["poller"].at = "read",
         NEW g, Advances("poller", Tail(Poll), g), Leave("poller"),
         ~stale /\ callersLock /\ g => locked,
         UNCHANGED <<callersLock, engine, locked, streaming, fresh, history>>
  PROVE  /\ Locked' /\ Alone' /\ Shape' /\ Registered' /\ Streams' /\ Polls' /\ Follows'
         /\ ctrl' \in Threads \union {None} /\ call' \in Threads \union {None}
<1>1. /\ Tail(Poll) \in PollLeft /\ Tail(Poll) = <<"edge">>
      /\ callersLock => Todo = <<>> /\ th["tuner"].at = "idle"
  BY PollerWorks
<1>2. /\ Locked' /\ Alone' /\ Shape'
      /\ ctrl' \in Threads \union {None} /\ call' \in Threads \union {None}
  BY <1>1, Types, GoesOn DEF Poll, engine
<1>3. /\ Poll' = <<"edge">> /\ th'["tuner"] = th["tuner"] /\ Todo' = Todo
      /\ th'["poller"].got = g
  BY <1>1, Types DEF Advances, Todo, Poll
<1>4. Registered'
  BY <1>3 DEF SkyInv, Registered, Starts, engine
<1>5. Streams'
  <2> SUFFICES ASSUME callersLock, "stream" \notin doubt
               PROVE  streaming <=> captureOn
    BY <1>1, <1>3 DEF Streams, Starts, engine, history
  <2>1. \A t \in Threads : th[t].at # "start"
    BY <1>1, Types
  <2> QED
    BY <1>1, <2>1 DEF SkyInv, Streams, Starts
<1>6. Polls'
  BY <1>3 DEF Polls, Starts, engine, history
<1>7. Follows'
  BY <1>1, <1>3 DEF SkyInv, Follows, Starts, engine, history
<1> QED
  BY <1>2, <1>4, <1>5, <1>6, <1>7

LEMMA ReadTimesOutKeeps ==
  ASSUME SkyInv, NEW t \in Threads, ReadTimesOut(t)
  PROVE  SkyInv'
<1>1. /\ th[t].at = "read" /\ Fail(t) /\ Leave(t) /\ answers = <<>>
      /\ UNCHANGED <<callersLock, device, engine, unseenLoss, stale, faults>>
  BY DEF ReadTimesOut
<1>2. /\ th[t].todo # <<>> /\ th[t].todo[1] \in Commands
      /\ t = "poller" => Poll # <<>> /\ Poll[1] = "status"
      /\ t = "tuner"  => Todo # <<>> /\ Todo[1] # "status"
  BY <1>1, AtCommand
<1>3. Paired'
  BY <1>1 DEF SkyInv, Paired, AnswersPaired, device
<1>4. /\ Locked' /\ Alone' /\ Shape' /\ Registered' /\ Streams' /\ Polls' /\ Follows'
      /\ ctrl' \in Threads \union {None} /\ call' \in Threads \union {None}
      /\ doubt' = doubt \union DoubtOf(th[t].todo[1])
  <2>1. CASE t = "tuner"
    BY <1>1, <1>2, <2>1, TunerFails DEF Todo, device
  <2>2. CASE t = "poller"
    BY <1>1, <1>2, <2>2, PollerFails DEF Poll, device
  <2> QED
    BY <2>1, <2>2, Types
<1>5. doubt' \subseteq {"stream", "tune"}
  BY <1>4, Types, DoubtTypes
<1>6. TypeOK'
  BY <1>1, <1>4, <1>5, Types, TypesAfter DEF device, engine
<1> QED
  BY <1>3, <1>4, <1>6 DEF SkyInv

LEMMA ReadKeeps ==
  ASSUME SkyInv, NEW t \in Threads, Read(t)
  PROVE  SkyInv'
<1> DEFINE first == Head(answers)
<1>1. /\ th[t].at = "read" /\ Leave(t) /\ answers # <<>> /\ answers' = Tail(answers)
      /\ UNCHANGED <<callersLock, late, locked, streaming, fresh, engine, unseenLoss,
                     stale, faults>>
  BY DEF Read
<1>2. /\ th[t].todo # <<>> /\ th[t].todo[1] \in Commands
      /\ Head(th[t].todo) = th[t].todo[1]
      /\ t = "poller" => Poll # <<>> /\ Poll[1] = "status"
      /\ t = "tuner"  => Todo # <<>> /\ Todo[1] # "status"
  BY <1>1, AtCommand
<1>3. first \in Answer /\ answers' \in Seq(Answer) /\ Len(answers') = Len(answers) - 1
  BY <1>1, Types, Rest
<1>4. Paired'
  <2>1. ~stale => Len(answers) = 1 /\ late = <<>>
    BY <1>1 DEF SkyInv, Paired, AnswersPaired
  <2>2. ~stale => Len(answers') = 0
    <3> SUFFICES ASSUME ~stale PROVE Len(answers') = 0
      OBVIOUS
    <3>1. Len(answers) = 1
      BY <2>1
    <3>2. Len(answers') = Len(answers) - 1
      BY <1>3
    <3> QED
      BY ONLY <3>1, <3>2
  <2>3. Len(answers') = 0 => answers' = <<>>
    BY <1>3, EmptySeq
  <2> QED
    BY <1>1, <2>1, <2>2, <2>3 DEF Paired, AnswersPaired
<1>5. CASE first.kind = Kind(Head(th[t].todo))
  <2>1. UNCHANGED history
    BY <1>1, <1>5 DEF Read, history
  <2>2. Advances(t, Tail(th[t].todo), first.val)
    <3> DEFINE rest == Tail(th[t].todo)
               a == IF rest = <<>> THEN "idle" ELSE "next"
    <3>1. /\ th' = [th EXCEPT ![t] = [todo |-> rest, got |-> first.val, at |-> a]]
          /\ call' = IF rest = <<>> /\ call = t THEN None ELSE call
      BY <1>1, <1>5 DEF Read
    <3>2. a \in {"idle", "next"} /\ (a = "idle" <=> rest = <<>>)
      OBVIOUS
    <3>3. rest \in Seq(Step) /\ th \in [Threads -> ThreadRecord]
      <4>1. th[t].todo \in Seq(Step) /\ th \in [Threads -> ThreadRecord]
        BY ThreadTypes DEF SkyInv, Locked
      <4> QED
        BY <1>2, <4>1, Rest
    <3>4. first.val \in BOOLEAN
      BY <1>3 DEF Answer
    <3> DEFINE v == first.val
    <3> HIDE DEF rest, a, v
    <3>5. th' = [th EXCEPT ![t] = [todo |-> rest, at |-> a, got |-> v]] /\ v \in BOOLEAN
      BY <3>1, <3>4 DEF v
    <3>6. /\ th' \in [Threads -> ThreadRecord]
          /\ th'[t].todo = rest /\ th'[t].at = a /\ th'[t].got = v
          /\ \A u \in Threads : u # t => th'[u] = th[u]
      BY <3>2, <3>3, <3>5, Becomes
    <3> QED
      BY <3>1, <3>2, <3>6 DEF Advances, rest, v
  <2>3. ~stale /\ callersLock /\ first.val => locked
    BY <1>1 DEF SkyInv, Paired
  <2>4. /\ Locked' /\ Alone' /\ Shape' /\ Registered' /\ Streams' /\ Polls' /\ Follows'
        /\ ctrl' \in Threads \union {None} /\ call' \in Threads \union {None}
    <3>1. CASE t = "tuner"
      BY <1>1, <1>2, <2>1, <2>2, <3>1, TunerAnswered DEF Todo
    <3>2. CASE t = "poller"
      BY <1>1, <1>2, <2>1, <2>2, <2>3, <3>2, PollerAnswered DEF Poll
    <3> QED
      BY <3>1, <3>2, Types
  <2>5. TypeOK'
    BY <1>1, <1>3, <2>1, <2>4, Types, TypesAfter DEF engine, history
  <2> QED
    BY <1>4, <2>4, <2>5 DEF SkyInv
<1>6. CASE first.kind # Kind(Head(th[t].todo))
  <2>1. Fail(t)
    BY <1>6 DEF Read
  <2>2. /\ Locked' /\ Alone' /\ Shape' /\ Registered' /\ Streams' /\ Polls' /\ Follows'
        /\ ctrl' \in Threads \union {None} /\ call' \in Threads \union {None}
        /\ doubt' = doubt \union DoubtOf(th[t].todo[1])
    <3>1. CASE t = "tuner"
      BY <1>1, <1>2, <2>1, <3>1, TunerFails DEF Todo
    <3>2. CASE t = "poller"
      BY <1>1, <1>2, <2>1, <3>2, PollerFails DEF Poll
    <3> QED
      BY <3>1, <3>2, Types
  <2>3. doubt' \subseteq {"stream", "tune"}
    BY <2>2, Types, DoubtTypes
  <2>4. TypeOK'
    BY <1>1, <1>3, <2>2, <2>3, Types, TypesAfter DEF engine
  <2> QED
    BY <1>4, <2>2, <2>4 DEF SkyInv
<1> QED
  BY <1>5, <1>6

-----------------------------------------------------------------------------
(***************************************************************************)
(* The stream switch.                                                      *)
(***************************************************************************)
\* Who is at a switch, and at which.
LEMMA AtSwitch ==
  ASSUME SkyInv, NEW t \in Threads, th[t].at \in {"stop", "start"}
  PROVE  /\ th[t].todo # <<>> /\ ctrl = t
         /\ Head(th[t].todo) = th[t].todo[1] /\ th[t].todo[1] \in Switches
         /\ th[t].at = "start" => th[t].todo[1] = "restart"
         /\ t = "poller" => Poll # <<>> /\ Poll[1] = "restart"
         /\ t = "tuner"  => Todo # <<>>
<1>1. /\ th[t].todo # <<>> /\ ctrl = t /\ th[t].todo[1] \in Switches
      /\ th[t].todo \in Seq(Step)
      /\ th[t].at = "start" => th[t].todo[1] = "restart"
  BY ThreadTypes DEF SkyInv, Locked, Switches
<1>2. Head(th[t].todo) = th[t].todo[1]
  BY <1>1, Rest
<1>3. ASSUME t = "poller" PROVE Poll # <<>> /\ Poll[1] = "restart"
  <2>1. Poll # <<>> /\ Poll[1] \in Switches
    BY <1>1, <1>3 DEF Poll
  <2>2. Poll[1] \in {"status", "edge", "restart", "note"}
    BY <2>1, PollerWorks
  <2> QED
    BY <2>1, <2>2 DEF Switches
<1> QED
  BY <1>1, <1>2, <1>3 DEF Todo

\* The tuner's switch was done: the flag comes next.
LEMMA TunerSwitched ==
  ASSUME SkyInv, Todo # <<>>, Todo[1] \in Switches, Proceed("tuner"), Leave("tuner"),
         Todo[1] = "halt" => ~streaming' /\ fresh' = fresh,
         Todo[1] = "restart" => streaming',
         UNCHANGED <<callersLock, locked, engine, unseenLoss, stale>>
  PROVE  /\ Locked' /\ Alone' /\ Shape' /\ Registered' /\ Streams' /\ Polls' /\ Follows'
         /\ ctrl' \in Threads \union {None} /\ call' \in Threads \union {None}
<1> DEFINE rest == Tail(Todo)
<1>1. /\ Todo[1] \in OpenSteps \union UseSteps /\ rest \in Seq(Step)
      /\ rest = <<>> => Todo[1] \in Last
      /\ rest # <<>> => rest[1] \in After(Todo[1])
      /\ callersLock => Poll = <<>> /\ th["poller"].at = "idle"
  BY TunerWorks
<1>2. "tuner" \in Threads /\ "poller" \in Threads /\ th \in [Threads -> ThreadRecord]
  BY Types DEF SkyInv, Locked
<1>3. Advances("tuner", rest, th["tuner"].got)
  BY <1>1, <1>2, Continues DEF Proceed, Todo
<1>4. /\ Locked' /\ Alone' /\ Shape'
      /\ ctrl' \in Threads \union {None} /\ call' \in Threads \union {None}
  BY <1>2, <1>3, GoesOn DEF Todo, engine
<1>5. Todo' = rest /\ th'["poller"] = th["poller"] /\ Poll' = Poll
  BY <1>2, <1>3 DEF Advances, Todo, Poll
<1>6. Registered'
  BY <1>5, EngineStays
<1>7. /\ rest # <<>>
      /\ Todo[1] = "restart" => rest[1] = "captureOn"
      /\ Todo[1] = "halt"    => rest[1] = "captureOff"
      /\ Todo[1] = "restart" \/ Todo[1] = "halt"
  <2>1. Todo[1] \notin Last /\ (Todo[1] = "restart" \/ Todo[1] = "halt")
    BY DEF Switches, Last
  <2> QED
    BY <1>1, <2>1, AfterFacts
<1>8. Streams'
  BY <1>5, <1>7 DEF Streams, Starts
<1>9. Polls'
  BY <1>1, <1>5 DEF Polls, Starts
<1>10. Follows'
  <2>1. CASE Todo[1] = "halt"
    BY <1>5, <1>7, <2>1 DEF Follows, Starts
  <2>2. CASE Todo[1] = "restart"
    <3>1. callersLock => ~lastLock
      BY <2>2 DEF SkyInv, Registered, Starts
    <3> QED
      BY <3>1 DEF Follows, engine
  <2> QED
    BY <1>7, <2>1, <2>2
<1> QED
  BY <1>4, <1>6, <1>8, <1>9, <1>10

\* The poller's restart was done: it notes the lock next.
LEMMA PollerSwitched ==
  ASSUME SkyInv, Poll # <<>>, Poll[1] = "restart", Proceed("poller"), Leave("poller"),
         streaming', locked => fresh',
         UNCHANGED <<callersLock, locked, engine, unseenLoss, stale>>
  PROVE  /\ Locked' /\ Alone' /\ Shape' /\ Registered' /\ Streams' /\ Polls' /\ Follows'
         /\ ctrl' \in Threads \union {None} /\ call' \in Threads \union {None}
<1>1. /\ Tail(Poll) \in PollLeft /\ Tail(Poll) = <<"note">> /\ Tail(Poll) \in Seq(Step)
      /\ callersLock => Todo = <<>> /\ th["tuner"].at = "idle"
  BY PollerWorks
<1>2. "tuner" \in Threads /\ "poller" \in Threads /\ th \in [Threads -> ThreadRecord]
  BY Types DEF SkyInv, Locked
<1>3. Advances("poller", Tail(Poll), th["poller"].got)
  BY <1>1, <1>2, Continues DEF Proceed, Poll
<1>4. /\ Locked' /\ Alone' /\ Shape'
      /\ ctrl' \in Threads \union {None} /\ call' \in Threads \union {None}
  BY <1>1, <1>2, <1>3, GoesOn DEF Poll, engine
<1>5. /\ Poll' = <<"note">> /\ th'["tuner"] = th["tuner"] /\ Todo' = Todo
      /\ th'["poller"].got = th["poller"].got
  BY <1>1, <1>2, <1>3 DEF Advances, Todo, Poll
<1>6. callersLock => captureOn /\ ~lastLock /\ (~stale /\ th["poller"].got => locked)
  BY DEF SkyInv, Polls, Starts
<1>7. Registered'
  BY <1>5 DEF SkyInv, Registered, Starts, engine
<1>8. Streams'
  BY <1>1, <1>5, <1>6 DEF Streams, Starts, engine
<1>9. Polls'
  BY <1>5, <1>6 DEF Polls, Starts, engine
<1>10. Follows'
  BY <1>6 DEF Follows, engine
<1> QED
  BY <1>4, <1>7, <1>8, <1>9, <1>10

\* A thread that goes on keeps the other and its lock as they are.
LEMMA OthersStay ==
  ASSUME SkyInv, NEW t \in Threads, Fail(t) \/ Proceed(t), Leave(t)
  PROVE  /\ \A u \in Threads : u # t => th'[u] = th[u]
         /\ \A u \in Threads : u # t /\ ctrl = u => ctrl' = u
<1>1. th \in [Threads -> ThreadRecord]
  BY DEF SkyInv, Locked
<1>2. \A u \in Threads : u # t => th'[u] = th[u]
  BY <1>1 DEF Fail, Proceed, Continue
<1> QED
  BY <1>2 DEF Leave

LEMMA DoubtRemoved ==
  ASSUME doubt \subseteq {"stream", "tune"}, NEW S
  PROVE  doubt \ S \subseteq {"stream", "tune"}
OBVIOUS

LEMMA StopFrameKeeps ==
  ASSUME SkyInv, NEW t \in Threads, NEW out \in Outcome, StopFrame(t, out)
  PROVE  SkyInv'
<1>1. /\ th[t].at = "stop" /\ streaming' = (streaming /\ out = "refused")
      /\ UNCHANGED <<callersLock, answers, late, locked, fresh, engine, unseenLoss,
                     stale>>
  BY DEF StopFrame
<1>2. /\ th[t].todo # <<>> /\ ctrl = t
      /\ Head(th[t].todo) = th[t].todo[1] /\ th[t].todo[1] \in Switches
      /\ t = "poller" => Poll # <<>> /\ Poll[1] = "restart"
      /\ t = "tuner"  => Todo # <<>>
  BY <1>1, AtSwitch
<1>3. streaming' \in BOOLEAN
  BY <1>1
<1>4. faults' \in 0..MaxFaults
  <2>1. (IF out = "done" THEN 0 ELSE 1) \in Nat
    OBVIOUS
  <2> QED
    BY <2>1, Types, FaultsCount DEF StopFrame
<1>5. CASE out # "done"
  <2>1. Fail(t) /\ Leave(t)
    BY <1>5 DEF StopFrame
  <2>2. /\ Locked' /\ Alone' /\ Shape' /\ Registered' /\ Streams' /\ Polls' /\ Follows'
        /\ ctrl' \in Threads \union {None} /\ call' \in Threads \union {None}
        /\ doubt' = doubt \union DoubtOf(th[t].todo[1])
    <3>1. CASE t = "tuner"
      BY <1>1, <1>2, <2>1, <3>1, TunerFails DEF Todo
    <3>2. CASE t = "poller"
      BY <1>1, <1>2, <2>1, <3>2, PollerFails DEF Poll
    <3> QED
      BY <3>1, <3>2, Types
  <2>3. Paired'
    BY <1>1, <2>1, OthersStay, PairedStays
  <2>4. doubt' \subseteq {"stream", "tune"}
    BY <2>2, Types, DoubtTypes
  <2>5. TypeOK'
    BY <1>1, <1>3, <1>4, <2>2, <2>4, Types, TypesAfter DEF engine
  <2> QED
    BY <2>2, <2>3, <2>5 DEF SkyInv
<1>6. CASE out = "done" /\ th[t].todo[1] = "restart"
  <2>1. th' = [th EXCEPT ![t].at = "start"] /\ UNCHANGED <<ctrl, call, doubt>>
    BY <1>2, <1>6 DEF StopFrame, Doing
  <2>2. /\ Locked' /\ Alone' /\ Shape'
        /\ ctrl' \in Threads \union {None} /\ call' \in Threads \union {None}
        /\ Todo' = Todo /\ Poll' = Poll /\ th'["poller"].got = th["poller"].got
        /\ th'[t].at = "start"
        /\ \A u \in Threads : u # t => th'[u] = th[u]
    BY <1>1, <1>2, <1>6, <2>1, Stays DEF engine
  <2>3. Paired'
    BY <1>1, <2>1, <2>2, PairedStays
  <2>4. Registered'
    BY <1>1, <2>2 DEF SkyInv, Registered, Starts, engine
  <2>5. Streams'
    <3>1. callersLock => ~Starts(Todo, {"captureOn", "captureOff"})
      <4>1. CASE t = "tuner"
        BY <1>6, <4>1 DEF Starts, Todo
      <4>2. CASE t = "poller"
        BY <1>2, <4>2, PollerWorks DEF Starts
      <4> QED
        BY <4>1, <4>2, Types
    <3> QED
      BY <1>1, <2>2, <3>1 DEF Streams, Starts
  <2>6. Polls' /\ Follows'
    BY <1>1, <2>1, <2>2 DEF SkyInv, Polls, Follows, Starts, engine
  <2>7. TypeOK'
    BY <1>1, <1>3, <1>4, <2>1, <2>2, Types, TypesAfter DEF engine
  <2> QED
    BY <2>2, <2>3, <2>4, <2>5, <2>6, <2>7 DEF SkyInv
<1>7. CASE out = "done" /\ th[t].todo[1] # "restart"
  <2>1. Proceed(t) /\ Leave(t) /\ doubt' = doubt \ {"stream"} /\ ~streaming'
    BY <1>1, <1>2, <1>7 DEF StopFrame, Doing
  <2>2. t = "tuner" /\ Todo # <<>> /\ Todo[1] = "halt"
    BY <1>2, <1>7, Types DEF Todo, Poll, Switches
  <2>3. /\ Locked' /\ Alone' /\ Shape' /\ Registered' /\ Streams' /\ Polls' /\ Follows'
        /\ ctrl' \in Threads \union {None} /\ call' \in Threads \union {None}
    BY <1>1, <2>1, <2>2, TunerSwitched DEF Switches
  <2>4. Paired'
    BY <1>1, <2>1, OthersStay, PairedStays
  <2>5. doubt' \subseteq {"stream", "tune"}
    BY <2>1, Types, DoubtRemoved
  <2>6. TypeOK'
    BY <1>1, <1>3, <1>4, <2>3, <2>5, Types, TypesAfter DEF engine
  <2> QED
    BY <2>3, <2>4, <2>6 DEF SkyInv
<1> QED
  BY <1>5, <1>6, <1>7

LEMMA StartFrameKeeps ==
  ASSUME SkyInv, NEW t \in Threads, NEW out \in Outcome, StartFrame(t, out)
  PROVE  SkyInv'
<1>1. /\ th[t].at = "start" /\ Leave(t)
      /\ streaming' = (streaming \/ out # "refused")
      /\ fresh' = (fresh \/ (locked /\ out # "refused"))
      /\ UNCHANGED <<callersLock, answers, late, locked, engine, unseenLoss, stale>>
  BY DEF StartFrame
<1>2. /\ th[t].todo # <<>> /\ th[t].todo[1] = "restart" /\ "restart" \in Switches
      /\ t = "poller" => Poll # <<>> /\ Poll[1] = "restart"
      /\ t = "tuner"  => Todo # <<>> /\ Todo[1] = "restart"
  BY <1>1, AtSwitch DEF Switches, Todo
<1>3. streaming' \in BOOLEAN /\ fresh' \in BOOLEAN
  BY <1>1
<1>4. faults' \in 0..MaxFaults
  <2>1. (IF out = "done" THEN 0 ELSE 1) \in Nat
    OBVIOUS
  <2> QED
    BY <2>1, Types, FaultsCount DEF StartFrame
<1>5. CASE out # "done"
  <2>1. Fail(t)
    BY <1>5 DEF StartFrame
  <2>2. /\ Locked' /\ Alone' /\ Shape' /\ Registered' /\ Streams' /\ Polls' /\ Follows'
        /\ ctrl' \in Threads \union {None} /\ call' \in Threads \union {None}
        /\ doubt' = doubt \union DoubtOf(th[t].todo[1])
    <3>1. CASE t = "tuner"
      BY <1>1, <1>2, <2>1, <3>1, TunerFails DEF Todo
    <3>2. CASE t = "poller"
      BY <1>1, <1>2, <2>1, <3>2, PollerFails DEF Poll
    <3> QED
      BY <3>1, <3>2, Types
  <2>3. Paired'
    BY <1>1, <2>1, OthersStay, PairedStays
  <2>4. doubt' \subseteq {"stream", "tune"}
    BY <2>2, Types, DoubtTypes
  <2>5. TypeOK'
    BY <1>1, <1>3, <1>4, <2>2, <2>4, Types, TypesAfter DEF engine
  <2> QED
    BY <2>2, <2>3, <2>5 DEF SkyInv
<1>6. CASE out = "done"
  <2>1. Proceed(t) /\ doubt' = doubt \ {"stream"} /\ streaming' /\ (locked => fresh')
    BY <1>1, <1>6 DEF StartFrame
  <2>2. /\ Locked' /\ Alone' /\ Shape' /\ Registered' /\ Streams' /\ Polls' /\ Follows'
        /\ ctrl' \in Threads \union {None} /\ call' \in Threads \union {None}
    <3>1. CASE t = "tuner"
      BY <1>1, <1>2, <2>1, <3>1, TunerSwitched
    <3>2. CASE t = "poller"
      BY <1>1, <1>2, <2>1, <3>2, PollerSwitched
    <3> QED
      BY <3>1, <3>2, Types
  <2>3. Paired'
    BY <1>1, <2>1, OthersStay, PairedStays
  <2>4. doubt' \subseteq {"stream", "tune"}
    BY <2>1, Types, DoubtRemoved
  <2>5. TypeOK'
    BY <1>1, <1>3, <1>4, <2>2, <2>4, Types, TypesAfter DEF engine
  <2> QED
    BY <2>2, <2>3, <2>5 DEF SkyInv
<1> QED
  BY <1>5, <1>6

-----------------------------------------------------------------------------
(***************************************************************************)
(* The engine's own steps.                                                 *)
(***************************************************************************)
\* Who takes a step of the engine, and which.
LEMMA AtLocal ==
  ASSUME SkyInv, NEW t \in Threads, th[t].at = "next", Doing(t, Local)
  PROVE  /\ th[t].todo # <<>> /\ Head(th[t].todo) = th[t].todo[1]
         /\ th[t].todo[1] \in Local /\ ctrl # t
         /\ t = "tuner"  => Todo # <<>> /\ Todo[1] \notin {"edge", "note"}
         /\ t = "poller" => Poll # <<>> /\ Poll[1] \in {"edge", "note"}
<1>1. th[t].todo # <<>> /\ ctrl # t /\ th[t].todo \in Seq(Step)
      /\ Head(th[t].todo) \in Local
  BY ThreadTypes DEF SkyInv, Locked, Doing
<1>2. Head(th[t].todo) = th[t].todo[1]
  BY <1>1, Rest
<1>3. ASSUME t = "tuner" PROVE Todo # <<>> /\ Todo[1] \notin {"edge", "note"}
  <2>1. Todo # <<>>
    BY <1>1, <1>3 DEF Todo
  <2> QED
    BY <2>1, TunerWorks DEF OpenSteps, UseSteps
<1>4. ASSUME t = "poller" PROVE Poll # <<>> /\ Poll[1] \in {"edge", "note"}
  <2>1. Poll # <<>> /\ Poll[1] \in Local
    BY <1>1, <1>2, <1>4 DEF Poll
  <2>2. Poll[1] \in {"status", "edge", "restart", "note"}
    BY <2>1, PollerWorks
  <2> QED
    BY <2>1, <2>2 DEF Local
<1> QED
  BY <1>1, <1>2, <1>3, <1>4

LEMMA LocalTypes ==
  ASSUME SkyInv, NEW t \in Threads, LocalStep(t)
  PROVE  /\ published' \in BOOLEAN /\ captureOn' \in BOOLEAN /\ lastLock' \in BOOLEAN
         /\ unseenLoss' \in BOOLEAN /\ doubt' \subseteq {"stream", "tune"}
         /\ answers' \in Seq(Answer) /\ late' \in Seq(Answer)
         /\ callersLock' \in BOOLEAN /\ stale' \in BOOLEAN /\ faults' \in 0..MaxFaults
         /\ locked' \in BOOLEAN /\ streaming' \in BOOLEAN /\ fresh' \in BOOLEAN
<1>1. th[t].got \in BOOLEAN
  BY ThreadTypes DEF SkyInv, Locked
<1>2. published' \in BOOLEAN /\ captureOn' \in BOOLEAN /\ unseenLoss' \in BOOLEAN
  BY Types DEF LocalStep
<1>3. lastLock' \in BOOLEAN
  BY <1>1, Types DEF LocalStep
<1>4. doubt' \subseteq {"stream", "tune"}
  <2>1. doubt' = doubt \/ doubt' = doubt \ {"tune"}
    BY DEF LocalStep
  <2> QED
    BY <2>1, Types
<1>5. UNCHANGED <<callersLock, answers, late, locked, streaming, fresh, stale, faults>>
  BY DEF LocalStep, device
<1> QED
  BY <1>2, <1>3, <1>4, <1>5, Types

\* A step of the tuner: the flag follows the switch, and a lock noted for an
\* earlier tune is forgotten before the next restart.
LEMMA TunerLocal ==
  ASSUME SkyInv, LocalStep("tuner")
  PROVE  SkyInv'
<1> DEFINE rest == Tail(Todo)
           x == Todo[1]
<1>0. "tuner" \in Threads /\ "poller" \in Threads /\ th \in [Threads -> ThreadRecord]
  BY Types DEF SkyInv, Locked
<1>1. /\ th["tuner"].at = "next" /\ ctrl # "tuner"
      /\ Todo # <<>> /\ Head(Todo) = x /\ x \in Local /\ x \notin {"edge", "note"}
  BY <1>0, AtLocal DEF LocalStep, Todo
<1>2. /\ x \in OpenSteps \union UseSteps /\ rest \in Seq(Step)
      /\ rest = <<>> => x \in Last
      /\ rest # <<>> => rest[1] \in After(x)
      /\ callersLock => Poll = <<>> /\ th["poller"].at = "idle"
  BY <1>1, TunerWorks
<1>3. /\ Proceed("tuner")
      /\ published' = (x = "publish" \/ (published /\ x # "release"))
      /\ captureOn' = CASE x = "captureOn" -> TRUE
                        [] x = "captureOff" -> FALSE [] OTHER -> captureOn
      /\ lastLock' = IF x \in {"forget", "captureOff", "publish"} THEN FALSE ELSE lastLock
      /\ unseenLoss' = unseenLoss
      /\ doubt' = IF x = "captureOn" THEN doubt \ {"tune"} ELSE doubt
      /\ UNCHANGED <<callersLock, answers, late, locked, streaming, fresh, ctrl, stale,
                     faults>>
  <2>1. Head(th["tuner"].todo) = x /\ x # "edge" /\ x # "note"
    BY <1>1 DEF Todo
  <2>2. unseenLoss' = unseenLoss
    BY <2>1, Types DEF LocalStep
  <2> QED
    BY <2>1, <2>2 DEF LocalStep, device
<1>4. /\ rest # <<>> => x \notin {"publish", "captureOn", "release"}
      /\ x \notin {"restart", "halt", "sleep"}
  BY <1>1, <1>2 DEF After, Local
<1>5. Advances("tuner", rest, th["tuner"].got) /\ Leave("tuner")
  BY <1>0, <1>1, <1>2, <1>3, Continues DEF Proceed, Todo, Leave
<1>6. published' = published \/ rest = <<>>
  BY <1>3, <1>4, Types
<1>7. /\ Locked' /\ Alone' /\ Shape'
      /\ ctrl' \in Threads \union {None} /\ call' \in Threads \union {None}
  BY <1>0, <1>1, <1>3, <1>5, <1>6, GoesOn DEF Todo
<1>8. /\ Todo' = rest /\ th'["poller"] = th["poller"] /\ Poll' = Poll
      /\ th'["tuner"].at \in {"idle", "next"}
  BY <1>0, <1>5 DEF Advances, Todo, Poll
<1>9. Paired'
  <2>1. \A u \in Threads : u # "tuner" => th'[u] = th[u]
    BY <1>5 DEF Advances
  <2> QED
    BY <1>0, <1>1, <1>3, <2>1, PairedStays
<1>10. /\ published <=> x \notin OpenSteps
       /\ captureOn => published
       /\ x \in {"closeStream", "release"} => ~captureOn
       /\ callersLock /\ x = "captureOn" => ~lastLock
  BY <1>1 DEF SkyInv, Registered, Starts
<1>11. rest # <<>> => /\ rest[1] \in OpenSteps <=> x \in OpenSteps
                      /\ rest[1] = "closeStream" => x = "captureOff"
                      /\ rest[1] = "sleep"       => x = "closeStream"
                      /\ rest[1] = "restart"     => x = "forget"
                      /\ rest[1] \notin {"release", "captureOn", "captureOff"}
  BY <1>2, <1>4, AfterFacts
<1> HIDE DEF rest, x
<1>12. Registered'
  <2>1. CASE rest = <<>>
    <3>1. captureOn' => published'
      BY <1>3, <1>10 DEF OpenSteps
    <3> QED
      BY <1>8, <2>1, <3>1 DEF Registered, Starts
  <2>2. CASE rest # <<>>
    <3>1. published' = published /\ (captureOn' => captureOn)
      BY <1>3, <1>4, <2>2, Types
    <3>2. Starts(rest, {"closeStream", "sleep", "release"}) => ~captureOn'
      BY <1>3, <1>10, <1>11, <2>2 DEF Starts
    <3>3. Starts(rest, {"restart", "captureOn"}) => ~lastLock'
      BY <1>3, <1>11, <2>2 DEF Starts
    <3> QED
      BY <1>8, <1>10, <1>11, <2>2, <3>1, <3>2, <3>3 DEF Registered
  <2> QED
    BY <2>1, <2>2
<1>13. Streams'
  <2> SUFFICES ASSUME callersLock, "stream" \notin doubt'
               PROVE  /\ ~Starts(rest, {"captureOn", "captureOff"})
                      /\ streaming <=> captureOn'
    BY <1>3, <1>8 DEF Streams, Starts
  <2>1. ~Starts(rest, {"captureOn", "captureOff"})
    BY <1>11 DEF Starts
  <2>2. "stream" \notin doubt
    BY <1>3
  <2>3. \A t \in Threads : th[t].at # "start"
    BY <1>1, <1>2, Types
  <2>4. /\ x = "captureOn" => streaming
        /\ x = "captureOff" => ~streaming
        /\ x \notin {"captureOn", "captureOff"} => (streaming <=> captureOn)
    BY <1>1, <2>2, <2>3 DEF SkyInv, Streams, Starts, x
  <2> QED
    BY <1>3, <2>1, <2>4
<1>14. Polls'
  BY <1>2, <1>3, <1>8 DEF Polls, Starts
<1>15. Follows'
  <2> SUFFICES ASSUME callersLock, captureOn', lastLock' PROVE FALSE
    BY <1>3 DEF Follows
  <2>1. lastLock /\ x \notin {"forget", "captureOff", "publish"}
    BY <1>3
  <2>2. x \in {"pipe", "stream", "captureOn", "closeStream", "release"}
    BY <1>1, <2>1 DEF Local
  <2> QED
    BY <1>3, <1>10, <2>1, <2>2 DEF OpenSteps
<1>16. TypeOK'
  BY <1>0, <1>7, LocalTypes, TypesAfter
<1> QED
  BY <1>7, <1>9, <1>12, <1>13, <1>14, <1>15, <1>16 DEF SkyInv

\* A poll with the answer it got: on the edge of a lock it restarts the FIFO,
\* and then it notes what it was told.
LEMMA PollerLocal ==
  ASSUME SkyInv, LocalStep("poller")
  PROVE  SkyInv'
<1> DEFINE got  == th["poller"].got
           edge == got /\ ~lastLock /\ captureOn
           rest == IF Poll[1] = "note" THEN <<>>
                   ELSE IF edge THEN <<"restart", "note">> ELSE <<"note">>
<1>0. "tuner" \in Threads /\ "poller" \in Threads /\ th \in [Threads -> ThreadRecord]
      /\ got \in BOOLEAN
  BY Types, ThreadTypes DEF SkyInv, Locked
<1>1. /\ th["poller"].at = "next" /\ ctrl # "poller"
      /\ Poll # <<>> /\ Head(Poll) = Poll[1] /\ Poll[1] \in {"edge", "note"}
  BY <1>0, AtLocal DEF LocalStep, Poll
<1>2. /\ Poll[1] \in {"edge", "note"} => Tail(Poll) = <<>>
      /\ callersLock => Todo = <<>> /\ th["tuner"].at = "idle"
  BY <1>1, PollerWorks
<1>3. Continue("poller", rest)
  <2>1. Head(th["poller"].todo) = Poll[1] /\ Tail(th["poller"].todo) = <<>>
    BY <1>1, <1>2 DEF Poll
  <2>2. CASE Poll[1] = "edge"
    <3>1. Continue("poller", IF edge THEN <<"restart", "note">> ELSE <<"note">>)
      BY <2>1, <2>2 DEF LocalStep
    <3> QED
      BY <2>2, <3>1
  <2>3. CASE Poll[1] = "note"
    <3>1. Continue("poller", <<>>)
      BY <2>1, <2>3 DEF LocalStep, Proceed
    <3> QED
      BY <2>3, <3>1
  <2> QED
    BY <1>1, <2>2, <2>3
<1>4. /\ UNCHANGED <<callersLock, answers, late, locked, streaming, fresh, ctrl, stale,
                     faults, doubt, published, captureOn>>
      /\ lastLock' = IF Poll[1] = "note" THEN got ELSE lastLock
      /\ unseenLoss' = (unseenLoss /\ ~(Poll[1] = "note" /\ ~got))
  <2>1. Head(th["poller"].todo) \in {"edge", "note"} /\ Head(th["poller"].todo) = Poll[1]
    BY <1>1 DEF Poll
  <2>2. /\ lastLock' = IF Poll[1] = "note" THEN got ELSE lastLock
        /\ unseenLoss' = (unseenLoss /\ ~(Poll[1] = "note" /\ ~got))
    BY <2>1 DEF LocalStep
  <2>3. published' = published /\ captureOn' = captureOn /\ doubt' = doubt
    BY <2>1, Types DEF LocalStep
  <2> QED
    BY <2>2, <2>3 DEF LocalStep, device
<1>5. rest \in PollLeft /\ rest \in Seq(Step)
  <2>1. /\ <<>> \in PollLeft /\ <<"restart", "note">> \in PollLeft /\ <<"note">> \in PollLeft
    BY DEF PollLeft
  <2>2. "restart" \in Step /\ "note" \in Step
    BY DEF Step, Switches, Local
  <2>3. <<>> \in Seq(Step) /\ <<"restart", "note">> \in Seq(Step) /\ <<"note">> \in Seq(Step)
    BY <2>2
  <2> QED
    BY <2>1, <2>3
<1>6. /\ Poll[1] = "note" => rest = <<>>
      /\ Starts(rest, {"restart"}) => Poll[1] = "edge" /\ got /\ ~lastLock /\ captureOn
      /\ Starts(rest, {"note"}) => Poll[1] = "edge" /\ ~edge
      /\ Starts(rest, {"edge", "restart", "note"}) => Poll[1] = "edge"
  BY <1>1 DEF Starts
<1> HIDE DEF rest
<1>7. Advances("poller", rest, got) /\ Leave("poller")
  BY <1>0, <1>1, <1>3, <1>4, <1>5, Continues DEF Leave
<1>8. /\ Locked' /\ Alone' /\ Shape'
      /\ ctrl' \in Threads \union {None} /\ call' \in Threads \union {None}
  BY <1>0, <1>1, <1>4, <1>5, <1>7, GoesOn DEF Poll
<1>9. /\ Poll' = rest /\ th'["tuner"] = th["tuner"] /\ Todo' = Todo
      /\ th'["poller"].at \in {"idle", "next"} /\ th'["poller"].got = got
  BY <1>0, <1>7 DEF Advances, Todo, Poll
<1>10. Paired'
  <2>1. \A u \in Threads : u # "poller" => th'[u] = th[u]
    BY <1>7 DEF Advances
  <2> QED
    BY <1>0, <1>1, <1>4, <2>1, PairedStays
<1>11. Registered'
  BY <1>2, <1>4, <1>9 DEF SkyInv, Registered, Starts
<1>12. Streams'
  <2> SUFFICES ASSUME callersLock, "stream" \notin doubt PROVE streaming <=> captureOn
    BY <1>2, <1>4, <1>9 DEF Streams, Starts
  <2>1. \A t \in Threads : th[t].at # "start"
    BY <1>1, <1>2, Types
  <2> QED
    BY <1>2, <2>1 DEF SkyInv, Streams, Starts
<1>13. callersLock /\ ~stale /\ got => locked
  BY <1>1 DEF SkyInv, Polls, Starts
<1>14. callersLock /\ doubt = {} /\ ~stale /\ captureOn /\ lastLock =>
          IF locked THEN fresh ELSE unseenLoss
  BY <1>2 DEF SkyInv, Follows, Starts
<1>15. Polls'
  <2> SUFFICES ASSUME callersLock
               PROVE  /\ Starts(rest, {"restart"}) => captureOn /\ ~lastLock' /\ got
                      /\ ~stale /\ got => locked
                      /\ ~stale /\ doubt = {} /\ Starts(rest, {"note"}) /\ got
                            /\ captureOn => fresh
    BY <1>4, <1>9 DEF Polls, Starts
  <2>1. Starts(rest, {"restart"}) => captureOn /\ ~lastLock' /\ got
    BY <1>4, <1>6
  <2> QED
    BY <1>6, <1>13, <1>14, <2>1
<1>16. Follows'
  <2> SUFFICES ASSUME callersLock, doubt = {}, ~stale, captureOn, lastLock'
               PROVE  IF locked THEN fresh ELSE unseenLoss'
    BY <1>4 DEF Follows
  <2>1. CASE Poll[1] = "note"
    <3>1. got /\ locked
      BY <1>4, <1>13, <2>1
    <3>2. fresh
      BY <2>1, <3>1, <1>1 DEF SkyInv, Polls, Starts
    <3> QED
      BY <3>1, <3>2
  <2>2. CASE Poll[1] # "note"
    BY <1>4, <1>14, <2>2
  <2> QED
    BY <2>1, <2>2
<1>17. TypeOK'
  BY <1>0, <1>8, LocalTypes, TypesAfter
<1> QED
  BY <1>8, <1>10, <1>11, <1>12, <1>15, <1>16, <1>17 DEF SkyInv

LEMMA LocalStepKeeps ==
  ASSUME SkyInv, NEW t \in Threads, LocalStep(t)
  PROVE  SkyInv'
BY TunerLocal, PollerLocal, Types

\* Only the bring-up makes a pipe and opens a stream.
LEMMA LocalFailureKeeps ==
  ASSUME SkyInv, NEW t \in Threads, LocalFailure(t)
  PROVE  SkyInv'
<1>1. /\ th[t].at = "next" /\ Doing(t, {"pipe", "stream"}) /\ Fail(t) /\ Costs(1)
      /\ UNCHANGED <<callersLock, answers, late, locked, streaming, fresh, engine, ctrl,
                     unseenLoss, stale>>
  BY DEF LocalFailure, device
<1>2. Doing(t, Local)
  BY <1>1 DEF Doing, Local
<1>3. /\ th[t].todo # <<>> /\ Head(th[t].todo) = th[t].todo[1] /\ ctrl # t
      /\ t = "poller" => Poll # <<>> /\ Poll[1] \in {"edge", "note"}
  BY <1>1, <1>2, AtLocal
<1>4. t = "tuner"
  BY <1>1, <1>3, Types DEF Doing, Poll
<1>5. Todo # <<>> /\ Todo[1] \in {"pipe", "stream"} /\ Leave("tuner")
  BY <1>1, <1>3, <1>4 DEF Doing, Todo, Leave
<1>6. /\ Locked' /\ Alone' /\ Shape' /\ Registered' /\ Streams' /\ Polls' /\ Follows'
      /\ ctrl' \in Threads \union {None} /\ call' \in Threads \union {None}
      /\ doubt' = doubt \union DoubtOf(Todo[1])
  BY <1>1, <1>4, <1>5, TunerFails
<1>7. Paired'
  BY <1>1, <1>4, <1>5, OthersStay, PairedStays
<1>8. doubt' \subseteq {"stream", "tune"}
  BY <1>6, Types, DoubtTypes
<1>9. faults' \in 0..MaxFaults
  BY <1>1, Types, FaultsCount
<1>10. TypeOK'
  BY <1>1, <1>6, <1>8, <1>9, Types, TypesAfter DEF engine
<1> QED
  BY <1>6, <1>7, <1>10 DEF SkyInv

-----------------------------------------------------------------------------
(***************************************************************************)
(* Calls begin.                                                            *)
(***************************************************************************)
LEMMA Begins ==
  ASSUME SkyInv, NEW t \in Threads, NEW work, Start(t, work),
         work \in Seq(Step), work # <<>>
  PROVE  /\ Locked' /\ Paired' /\ th[t].todo = <<>> /\ th'[t].todo = work
         /\ \A u \in Threads : u # t => th'[u] = th[u]
         /\ (\A u \in Threads : th'[u].at # "start") => \A u \in Threads : th[u].at # "start"
         /\ UNCHANGED <<callersLock, answers, late, locked, streaming, fresh, engine, ctrl,
                        history, faults>>
<1>1. /\ th[t].at = "idle"
      /\ th' = [th EXCEPT ![t] = [todo |-> work, at |-> "next", got |-> FALSE]]
      /\ UNCHANGED <<callersLock, answers, late, locked, streaming, fresh, engine, ctrl,
                     history, faults>>
  BY DEF Start, device
<1>2. /\ th \in [Threads -> ThreadRecord]
      /\ \A u \in Threads :
          /\ th[u].at = "idle" <=> th[u].todo = <<>>
          /\ th[u].at \in {"write", "read", "stop", "start"} <=> ctrl = u
          /\ th[u].at \in {"write", "read"} => th[u].todo[1] \in Commands
          /\ th[u].at = "stop"  => th[u].todo[1] \in Switches
          /\ th[u].at = "start" => th[u].todo[1] = "restart"
  BY DEF SkyInv, Locked
<1>3. /\ th' \in [Threads -> ThreadRecord]
      /\ th'[t].todo = work /\ th'[t].at = "next" /\ th'[t].got = FALSE
      /\ \A u \in Threads : u # t => th'[u] = th[u]
  BY <1>1, <1>2, Becomes
<1>4. ctrl # t /\ th[t].todo = <<>>
  BY <1>1, <1>2
<1>5. ASSUME NEW u \in Threads
      PROVE  /\ th'[u].at = "idle" <=> th'[u].todo = <<>>
             /\ th'[u].at \in {"write", "read", "stop", "start"} <=> ctrl' = u
             /\ th'[u].at \in {"write", "read"} => th'[u].todo[1] \in Commands
             /\ th'[u].at = "stop"  => th'[u].todo[1] \in Switches
             /\ th'[u].at = "start" => th'[u].todo[1] = "restart"
  <2>1. CASE u = t
    BY <2>1, <1>1, <1>3, <1>4
  <2>2. CASE u # t
    BY <2>2, <1>1, <1>2, <1>3
  <2> QED
    BY <2>1, <2>2
<1>6. Locked'
  BY <1>3, <1>5 DEF Locked
<1>7. Paired'
  <2>1. UNCHANGED <<answers, late, stale, callersLock>> /\ locked' = locked /\ ctrl' = ctrl
    BY <1>1 DEF history
  <2> QED
    BY <1>1, <1>3, <2>1, PairedStays
<1>8. (\A u \in Threads : th'[u].at # "start") => \A u \in Threads : th[u].at # "start"
  BY <1>1, <1>3
<1> QED
  BY <1>1, <1>3, <1>4, <1>6, <1>7, <1>8

\* A call of the tuner begins from what is known between its calls.
LEMMA TunerBegins ==
  ASSUME SkyInv, NEW work, Start("tuner", work), Chain(work), work # <<>>,
         work[1] \notin {"restart", "captureOn", "captureOff"},
         published <=> work[1] \notin OpenSteps,
         work[1] \in {"closeStream", "sleep", "release"} => ~captureOn,
         call' \in Threads \union {None}, Alone'
  PROVE  SkyInv'
<1>0. "tuner" \in Threads /\ "poller" \in Threads
  BY Types
<1>1. work \in Seq(Step)
  BY ChainOnward
<1>2. /\ Locked' /\ Paired' /\ th["tuner"].todo = <<>> /\ th'["tuner"].todo = work
      /\ \A u \in Threads : u # "tuner" => th'[u] = th[u]
      /\ (\A u \in Threads : th'[u].at # "start") => \A u \in Threads : th[u].at # "start"
      /\ UNCHANGED <<callersLock, answers, late, locked, streaming, fresh, engine, ctrl,
                     history, faults>>
  BY <1>0, <1>1, Begins
<1>3. Todo = <<>> /\ Todo' = work /\ Poll' = Poll /\ th'["poller"].got = th["poller"].got
  BY <1>0, <1>2 DEF Todo, Poll
<1>4. Shape'
  BY <1>3 DEF SkyInv, Shape
<1>5. Registered'
  BY <1>2, <1>3 DEF SkyInv, Registered, Starts, engine
<1>6. Streams'
  BY <1>2, <1>3 DEF SkyInv, Streams, Starts, engine, history
<1>7. Polls'
  BY <1>2, <1>3 DEF SkyInv, Polls, Starts, engine, history
<1>8. Follows'
  BY <1>2, <1>3 DEF SkyInv, Follows, Starts, engine, history
<1>9. TypeOK'
  BY <1>2, Types, TypesAfter DEF engine, history
<1> QED
  BY <1>2, <1>4, <1>5, <1>6, <1>7, <1>8, <1>9 DEF SkyInv

\* What the other side of bridge_lock says when the tuner is not in a call.
LEMMA Between ==
  ASSUME SkyInv
  PROVE  callersLock =>
            /\ \A t \in Threads : call = t => th[t].todo # <<>>
            /\ Poll # <<>> => call = "poller" /\ Todo = <<>> /\ published
            /\ Todo # <<>> /\ published /\ ~IsClosing("tuner") => call = "tuner"
BY DEF SkyInv, Alone

LEMMA OpenKeeps ==
  ASSUME SkyInv, Open
  PROVE  SkyInv'
<1>1. ~published /\ Start("tuner", Opening) /\ call' = call
  BY DEF Open
<1>2. Opening[1] \in OpenSteps
      /\ Opening[1] \notin {"restart", "captureOn", "captureOff", "closeStream", "sleep",
                            "release"}
  BY OpeningPlanned DEF OpenSteps
<1>3. call' \in Threads \union {None}
  BY <1>1, Types
<1>4. Alone'
  <2>1. Opening \in Seq(Step)
    BY OpeningPlanned, ChainOnward
  <2>2. /\ th["tuner"].todo = <<>> /\ th'["tuner"].todo = Opening
        /\ th'["poller"] = th["poller"] /\ published' = published
        /\ callersLock' = callersLock
    BY <1>1, <2>1, OpeningPlanned, Begins, Types DEF engine
  <2>3. callersLock => Poll = <<>>
    BY <1>1, Between
  <2>4. ASSUME callersLock, NEW t \in Threads, call' = t PROVE th'[t].todo # <<>>
    BY <1>1, <2>2, <2>4, Between, Types
  <2> QED
    BY <1>1, <2>2, <2>3, <2>4 DEF Alone, Poll
<1> QED
  BY <1>1, <1>2, <1>3, <1>4, OpeningPlanned, TunerBegins

LEMMA ShutdownKeeps ==
  ASSUME SkyInv, Shutdown
  PROVE  SkyInv'
<1>1. published /\ th["poller"].at = "idle" /\ Start("tuner", Closing) /\ call' = call
  BY DEF Shutdown
<1>2. /\ Closing[1] \in {"halt", "closeStream"}
      /\ Closing[1] = "closeStream" => ~captureOn
  BY ClosingPlanned
<1>3. call' \in Threads \union {None}
  BY <1>1, Types
<1>4. Alone'
  <2>1. Closing \in Seq(Step)
    BY ClosingPlanned, ChainOnward
  <2>2. /\ th["tuner"].todo = <<>> /\ th'["tuner"].todo = Closing
        /\ th'["poller"] = th["poller"] /\ published' = published
        /\ callersLock' = callersLock
    BY <1>1, <2>1, ClosingPlanned, Begins, Types DEF engine
  <2>3. Poll = <<>>
    BY <1>1, Types DEF SkyInv, Locked, Poll
  <2>4. ASSUME callersLock, NEW t \in Threads, call' = t PROVE th'[t].todo # <<>>
    BY <1>1, <2>2, <2>4, Between, Types
  <2>5. IsClosing("tuner")'
    BY <2>2, ClosingPlanned DEF IsClosing
  <2> QED
    BY <2>2, <2>3, <2>4, <2>5 DEF Alone, Poll
<1>5. Closing[1] \notin OpenSteps
      /\ Closing[1] \notin {"restart", "captureOn", "captureOff", "sleep", "release"}
  BY <1>2 DEF OpenSteps
<1> QED
  BY <1>1, <1>2, <1>3, <1>4, <1>5, ClosingPlanned, TunerBegins

\* A call that takes bridge_lock, if callers do, finds the other thread idle.
LEMMA TunerCalls ==
  ASSUME SkyInv, NEW work, Call("tuner", work), Chain(work), work # <<>>,
         work[1] \in {"demod", "halt"}
  PROVE  SkyInv'
<1>1. /\ published /\ Start("tuner", work) /\ (callersLock => call = None)
      /\ call' = IF callersLock THEN "tuner" ELSE call
  BY DEF Call
<1>2. call' \in Threads \union {None}
  BY <1>1, Types
<1>3. Alone'
  <2>1. work \in Seq(Step)
    BY ChainOnward
  <2>2. /\ th'["tuner"].todo = work
        /\ th'["poller"] = th["poller"] /\ published' = published
        /\ callersLock' = callersLock
    BY <1>1, <2>1, Begins, Types DEF engine
  <2>3. callersLock => Poll = <<>>
    BY <1>1, Between, DvbskyAssumption
  <2> QED
    BY <1>1, <2>2, <2>3 DEF Alone, Poll
<1>4. work[1] \notin OpenSteps
  BY DEF OpenSteps
<1> QED
  BY <1>1, <1>2, <1>3, <1>4, TunerBegins

LEMMA TuneKeeps ==
  ASSUME SkyInv, Tune
  PROVE  SkyInv'
BY TuningPlanned, TunerCalls DEF Tune

LEMMA CaptureStopKeeps ==
  ASSUME SkyInv, CaptureStop
  PROVE  SkyInv'
BY StoppingPlanned, TunerCalls DEF CaptureStop

LEMMA GetStatusKeeps ==
  ASSUME SkyInv, GetStatus
  PROVE  SkyInv'
<1>0. "tuner" \in Threads /\ "poller" \in Threads
  BY Types
<1>1. /\ published /\ ~IsClosing("tuner") /\ Start("poller", Polling)
      /\ callersLock => call = None
      /\ call' = IF callersLock THEN "poller" ELSE call
  BY DEF GetStatus, Call
<1>2. /\ Polling \in Seq(Step) /\ Polling \in PollLeft /\ Polling # <<>>
      /\ ~Starts(Polling, {"edge", "restart", "note"})
      /\ ~Starts(Polling, {"restart"}) /\ ~Starts(Polling, {"note"})
  BY DEF Polling, PollLeft, Step, Commands, Local, Starts
<1>3. /\ Locked' /\ Paired' /\ th["poller"].todo = <<>> /\ th'["poller"].todo = Polling
      /\ \A u \in Threads : u # "poller" => th'[u] = th[u]
      /\ (\A u \in Threads : th'[u].at # "start") => \A u \in Threads : th[u].at # "start"
      /\ UNCHANGED <<callersLock, answers, late, locked, streaming, fresh, engine, ctrl,
                     history, faults>>
  BY <1>0, <1>1, <1>2, Begins
<1>4. Todo' = Todo /\ Poll' = Polling /\ th'["tuner"] = th["tuner"]
  BY <1>0, <1>3 DEF Todo, Poll
<1>5. callersLock => Todo = <<>>
  BY <1>1, Between, DvbskyAssumption
<1>6. Shape'
  BY <1>2, <1>4 DEF SkyInv, Shape
<1>7. Alone'
  BY <1>1, <1>2, <1>3, <1>4, <1>5 DEF Alone, engine, Poll
<1>8. Registered'
  BY <1>3, <1>4 DEF SkyInv, Registered, Starts, engine
<1>9. Streams'
  BY <1>3, <1>4 DEF SkyInv, Streams, Starts, engine, history
<1>10. Polls'
  BY <1>2, <1>4 DEF Polls
<1>11. Follows'
  BY <1>3, <1>4 DEF SkyInv, Follows, Starts, engine, history
<1>12. call' \in Threads \union {None}
  BY <1>0, <1>1, Types
<1>13. TypeOK'
  BY <1>3, <1>12, Types, TypesAfter DEF engine, history
<1> QED
  BY <1>3, <1>6, <1>7, <1>8, <1>9, <1>10, <1>11, <1>13 DEF SkyInv

-----------------------------------------------------------------------------
(***************************************************************************)
(* The theorems.                                                           *)
(***************************************************************************)
LEMMA InitEstablishes == Init => SkyInv
<1> SUFFICES ASSUME Init PROVE SkyInv
  OBVIOUS
<1>1. /\ callersLock \in BOOLEAN /\ answers = <<>> /\ late = <<>> /\ locked = FALSE
      /\ streaming \in BOOLEAN /\ fresh = FALSE /\ published = FALSE /\ captureOn = FALSE
      /\ lastLock = FALSE /\ th = [t \in Threads |-> Idle] /\ ctrl = None /\ call = None
      /\ unseenLoss = FALSE /\ stale = FALSE
      /\ doubt = (IF streaming THEN {"stream"} ELSE {}) /\ faults = 0
  BY DEF Init
<1>2. Idle \in ThreadRecord /\ Idle.todo = <<>> /\ Idle.at = "idle" /\ Idle.got = FALSE
  BY DEF Idle, ThreadRecord
<1>3. /\ th \in [Threads -> ThreadRecord]
      /\ \A t \in Threads : th[t].todo = <<>> /\ th[t].at = "idle" /\ th[t].got = FALSE
  BY <1>1, <1>2
<1>4. Todo = <<>> /\ Poll = <<>>
  BY <1>3 DEF Todo, Poll, Threads
<1>5. None \notin Threads
  BY DvbskyAssumption DEF Threads
<1>6. Locked
  BY <1>1, <1>3, <1>5 DEF Locked
<1>7. Alone
  BY <1>1, <1>4, <1>5 DEF Alone
<1>8. Shape
  BY <1>4 DEF Shape, Chain, PollLeft
<1>9. Paired
  BY <1>1 DEF Paired, AnswersPaired
<1>10. Registered /\ Polls /\ Follows
  BY <1>1, <1>4 DEF Registered, Polls, Follows, Starts
<1>11. Streams
  BY <1>1, <1>4 DEF Streams, Starts
<1>12. TypeOK
  <2>1. faults \in 0..MaxFaults
    BY <1>1, DvbskyAssumption
  <2>2. \A t \in Threads :
          /\ th[t].at \in {"idle", "next", "write", "read", "stop", "start"}
          /\ th[t].got \in BOOLEAN
          /\ \A i \in DOMAIN th[t].todo :
                th[t].todo[i] \in Commands \union Switches \union Local
          /\ th[t].at = "idle" <=> th[t].todo = <<>>
    BY <1>3, ThreadTypes
  <2>3. answers \in Seq(Answer) /\ late \in Seq(Answer) /\ doubt \subseteq {"stream", "tune"}
    BY <1>1
  <2> QED
    BY <1>1, <2>1, <2>2, <2>3 DEF TypeOK
<1> QED
  BY <1>6, <1>7, <1>8, <1>9, <1>10, <1>11, <1>12 DEF SkyInv

LEMMA ThreadKeeps ==
  ASSUME SkyInv, NEW t \in Threads, Thread(t)
  PROVE  SkyInv'
<1>1. CASE Enter(t)
  BY <1>1, EnterKeeps
<1>2. CASE Read(t)
  BY <1>2, ReadKeeps
<1>3. CASE ReadTimesOut(t)
  BY <1>3, ReadTimesOutKeeps
<1>4. CASE LocalStep(t)
  BY <1>4, LocalStepKeeps
<1>5. CASE LocalFailure(t)
  BY <1>5, LocalFailureKeeps
<1>6. CASE \E out \in Outcome : StopFrame(t, out)
  BY <1>6, StopFrameKeeps
<1>7. CASE \E out \in Outcome : StartFrame(t, out)
  BY <1>7, StartFrameKeeps
<1>8. CASE \E out \in Outcome, when \in {"now", "later", "never"} : Write(t, out, when)
  <2>1. PICK out \in Outcome, when \in {"now", "later", "never"} : Write(t, out, when)
    BY <1>8
  <2>2. CASE out = "done"
    BY <2>1, <2>2, WriteDone
  <2>3. CASE out # "done"
    BY <2>1, <2>3, WriteFails
  <2> QED
    BY <2>2, <2>3
<1> QED
  BY <1>1, <1>2, <1>3, <1>4, <1>5, <1>6, <1>7, <1>8 DEF Thread

LEMMA NextKeeps ==
  ASSUME SkyInv, [Next]_vars
  PROVE  SkyInv'
<1>1. CASE Open
  BY <1>1, OpenKeeps
<1>2. CASE Shutdown
  BY <1>2, ShutdownKeeps
<1>3. CASE Tune
  BY <1>3, TuneKeeps
<1>4. CASE GetStatus
  BY <1>4, GetStatusKeeps
<1>5. CASE CaptureStop
  BY <1>5, CaptureStopKeeps
<1>6. CASE Arrive
  BY <1>6, ArriveKeeps
<1>7. CASE GetLock
  BY <1>7, GetLockKeeps
<1>8. CASE LoseLock
  BY <1>8, LoseLockKeeps
<1>9. CASE \E t \in Threads : Thread(t)
  BY <1>9, ThreadKeeps
<1>10. CASE UNCHANGED vars
  BY <1>10, StutterKeeps
<1> QED
  BY <1>1, <1>2, <1>3, <1>4, <1>5, <1>6, <1>7, <1>8, <1>9, <1>10 DEF Next

LEMMA Invariance == Spec => []SkyInv
<1>1. SkyInv /\ [Next]_vars => SkyInv'
  BY NextKeeps
<1> QED
  BY <1>1, InitEstablishes, PTL DEF Spec

(***************************************************************************)
(* Every thread, lock and flag of the bridge and its engine keeps its      *)
(* type, through failures of every transfer (dvbsky_bulk_rw_locked,        *)
(* dvbsky_stream_ctrl, the calls of dvb_dvbsky.c).                         *)
(***************************************************************************)
THEOREM TypeCorrect == Spec => []TypeOK
<1>1. SkyInv => TypeOK
  BY DEF SkyInv
<1> QED
  BY <1>1, Invariance, PTL

(***************************************************************************)
(* As long as no response was left behind for a command that was given up, *)
(* the one response on the endpoint is read by the thread whose command it *)
(* answers, in the form it expects: ctrl_lock spans write and read         *)
(* (dvbsky_bulk_rw_locked), with or without bridge_lock.                   *)
(***************************************************************************)
THEOREM AnswersArePaired == Spec => []AnswersPaired
<1>1. SkyInv => AnswersPaired
  BY DEF SkyInv, Paired
<1> QED
  BY <1>1, Invariance, PTL

(***************************************************************************)
(* If callers take bridge_lock and the last stream_ctrl was reported done, *)
(* the bridge streams between calls exactly when capture_on is set,        *)
(* however tunes, polls that restart the FIFO, capture_stop and shutdown   *)
(* follow each other and wherever they fail (dvb_dvbsky.c).                *)
(***************************************************************************)
THEOREM StreamFollowsCapture == Spec => []StreamMatchesCapture
<1>1. SkyInv => StreamMatchesCapture
  <2> SUFFICES ASSUME SkyInv, Quiet, callersLock, "stream" \notin doubt
               PROVE  streaming <=> captureOn
    BY DEF StreamMatchesCapture
  <2>1. Todo = <<>> /\ \A t \in Threads : th[t].at # "start"
    BY Types DEF SkyInv, Locked, Quiet, Todo
  <2> QED
    BY <2>1 DEF SkyInv, Streams, Starts
<1> QED
  BY <1>1, Invariance, PTL

(***************************************************************************)
(* If callers take bridge_lock and nothing failed, a lock that a poll has  *)
(* noted on a capturing frontend is one on whose timing the slave FIFO was *)
(* restarted: last_lock is cleared by every tune, and the poll restarts    *)
(* the FIFO before it sets it (dvbsky_v_tune, dvbsky_v_get_status).        *)
(***************************************************************************)
THEOREM LockRestarts == Spec => []LockRestartsFifo
<1>1. SkyInv => LockRestartsFifo
  <2> SUFFICES ASSUME SkyInv, Quiet, callersLock, doubt = {}, ~stale, captureOn, lastLock,
                      locked
               PROVE  fresh
    BY DEF LockRestartsFifo
  <2>1. Todo = <<>>
    BY Types DEF SkyInv, Locked, Quiet, Todo
  <2> QED
    BY <2>1 DEF SkyInv, Follows, Starts
<1> QED
  BY <1>1, Invariance, PTL
=============================================================================
