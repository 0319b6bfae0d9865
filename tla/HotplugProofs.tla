---------------------------- MODULE HotplugProofs ----------------------------
(***************************************************************************)
(* Proofs about Hotplug for any set of devices, any queue and any number   *)
(* of messages under way.                                                  *)
(*                                                                         *)
(* The consumer's view is right in the end because of one fact per device: *)
(* the last thing that is still to happen to it tells the truth.  A        *)
(* message not yet delivered outranks a callback, a callback outranks the  *)
(* queue, and the queue outranks the view.  The two callbacks may overtake *)
(* one another, so while init enumerates both must say the same, which     *)
(* they do until a device leaves that init has yet to report.              *)
(***************************************************************************)
EXTENDS Hotplug, SequenceTheorems, TLAPS

\* No event of [s] is about [d].
Silent(s, d) == \A i \in DOMAIN s : s[i].dev # d

\* The last event of [s] about [d] is of kind [k].
Says(s, d, k) == \E i \in DOMAIN s :
                    /\ s[i].dev = d /\ s[i].kind = k
                    /\ \A j \in DOMAIN s : j > i => s[j].dev # d

Truth(d) == IF d \in plugged THEN "arrived" ELSE "left"

Pending(c, d) == cb[c].at = "enqueue" /\ cb[c].ev.dev = d

-----------------------------------------------------------------------------
\* Appending an event settles its device and leaves the others alone.
LEMMA AppendSays ==
  ASSUME NEW s \in Seq(Event), NEW e \in Event
  PROVE  /\ Append(s, e) \in Seq(Event)
         /\ Says(Append(s, e), e.dev, e.kind)
         /\ \A d : d # e.dev => (Silent(s, d) <=> Silent(Append(s, e), d))
         /\ \A d, k : d # e.dev /\ Says(s, d, k) => Says(Append(s, e), d, k)
         /\ ~Silent(Append(s, e), e.dev)
<1>1. /\ Append(s, e) \in Seq(Event)
      /\ Len(Append(s, e)) = Len(s) + 1
      /\ \A i \in 1..Len(s) : Append(s, e)[i] = s[i]
      /\ Append(s, e)[Len(s) + 1] = e
      /\ Len(s) \in Nat /\ DOMAIN s = 1..Len(s)
      /\ DOMAIN Append(s, e) = 1..(Len(s) + 1)
  BY LenProperties, AppendProperties
<1>2. \A d : d # e.dev => (Silent(s, d) <=> Silent(Append(s, e), d))
  BY <1>1 DEF Silent
<1>3. Says(Append(s, e), e.dev, e.kind)
  BY <1>1 DEF Says
<1>4. ASSUME NEW d, NEW k, d # e.dev, Says(s, d, k)
      PROVE  Says(Append(s, e), d, k)
  BY <1>1, <1>4 DEF Says
<1>5. ~Silent(Append(s, e), e.dev)
  BY <1>1 DEF Silent
<1> QED
  BY <1>1, <1>2, <1>3, <1>4, <1>5

\* Taking the first event away changes what is said only about its device, and
\* only when nothing follows.
LEMMA TailSays ==
  ASSUME NEW s \in Seq(Event), s # <<>>
  PROVE  /\ Tail(s) \in Seq(Event) /\ Head(s) \in Event
         /\ \A d : Silent(s, d) => Silent(Tail(s), d)
         /\ \A d : Head(s).dev # d /\ Silent(Tail(s), d) => Silent(s, d)
         /\ \A d, k : Says(s, d, k) =>
               \/ Says(Tail(s), d, k) /\ ~Silent(Tail(s), d)
               \/ Silent(Tail(s), d) /\ Head(s).dev = d /\ Head(s).kind = k
<1>1. /\ Tail(s) \in Seq(Event) /\ Head(s) \in Event /\ Head(s) = s[1]
      /\ Len(Tail(s)) = Len(s) - 1 /\ Len(s) \in Nat \ {0}
      /\ \A i \in 1..Len(Tail(s)) : Tail(s)[i] = s[i + 1]
      /\ DOMAIN s = 1..Len(s) /\ DOMAIN Tail(s) = 1..(Len(s) - 1)
  BY LenProperties, HeadTailProperties, EmptySeq
<1>2. \A d : Silent(s, d) => Silent(Tail(s), d)
  BY <1>1 DEF Silent
<1>3. \A i \in DOMAIN s : i = 1 \/ (i - 1 \in DOMAIN Tail(s) /\ s[i] = Tail(s)[i - 1])
  BY <1>1
<1>4. \A d : Head(s).dev # d /\ Silent(Tail(s), d) => Silent(s, d)
  BY <1>1, <1>3 DEF Silent
<1>5. ASSUME NEW d, NEW k, Says(s, d, k)
      PROVE  \/ Says(Tail(s), d, k) /\ ~Silent(Tail(s), d)
             \/ Silent(Tail(s), d) /\ Head(s).dev = d /\ Head(s).kind = k
  <2>1. PICK i \in DOMAIN s : /\ s[i].dev = d /\ s[i].kind = k
                              /\ \A j \in DOMAIN s : j > i => s[j].dev # d
    BY <1>5 DEF Says
  <2>2. CASE i = 1
    <3>1. \A j \in DOMAIN Tail(s) : Tail(s)[j].dev # d
      BY <1>1, <2>1, <2>2
    <3> QED
      BY <1>1, <2>1, <2>2, <3>1 DEF Silent
  <2>3. CASE i # 1
    <3>1. i - 1 \in DOMAIN Tail(s) /\ Tail(s)[i - 1] = s[i]
      BY <1>3, <2>3
    <3>2. \A j \in DOMAIN Tail(s) : j > i - 1 => Tail(s)[j].dev # d
      BY <1>1, <2>1
    <3> QED
      BY <2>1, <3>1, <3>2 DEF Says, Silent
  <2> QED
    BY <2>2, <2>3
<1> QED
  BY <1>1, <1>2, <1>4, <1>5

\* Nothing is said by the empty sequence.
LEMMA EmptySilent == \A d : Silent(<<>>, d)
BY DEF Silent

-----------------------------------------------------------------------------
(***************************************************************************)
(* Types, and who may be where.                                            *)
(***************************************************************************)
LifeInv ==
    /\ TypeOK
    /\ registered => owner \in {"enumerate", "on", "deregister"}
    /\ owner \in {"enumerate", "on"} => registered
    /\ cb["owner"].at # "idle" => owner = "enumerate"
    /\ owner = "on" => todo = {}

\* A callback of the event thread runs only while somebody holds that thread.
EvtInLife == EvtRuns \/ cb["evt"].at = "idle"

(***************************************************************************)
(* News about a device, by rank.                                           *)
(***************************************************************************)
OnlySupported ==
    /\ \A i \in DOMAIN queue : queue[i].dev \in Supported
    /\ \A c \in Contexts : cb[c].at = "enqueue" => cb[c].ev.dev \in Supported
    /\ view \subseteq Supported

MessagesTrue == \A d \in Devices : Silent(messages, d) \/ Says(messages, d, Truth(d))

EvtTrue == \A d \in Devices : Pending("evt", d) /\ Silent(messages, d)
                                  => cb["evt"].ev.kind = Truth(d)

InitTrue == owner = "enumerate" /\ ~excused =>
                /\ todo \intersect Supported \subseteq plugged
                /\ cb["owner"].at = "enqueue" => /\ cb["owner"].ev.kind = "arrived"
                                                /\ cb["owner"].ev.dev \in plugged

\* Nothing that outranks the queue is still to happen to [d].
UpToQueue(d) == /\ Silent(messages, d) /\ d \notin todo
                /\ \A c \in Contexts : ~Pending(c, d)

QueueTrue(d) == IF Silent(queue, d) THEN d \in view <=> d \in plugged
                ELSE Says(queue, d, Truth(d))

Known == owner \in {"enumerate", "on"} /\ ~excused =>
             \A d \in Supported : UpToQueue(d) => QueueTrue(d)

Fresh == owner \in {"acquire", "register"} /\ ~excused => queue = <<>> /\ view = {}

-----------------------------------------------------------------------------
\* An empty queue is one, and it is not too long.
LEMMA EmptyFits ==
  /\ <<>> \in Seq(Event) /\ Len(<<>>) <= QueueCap /\ Len(<<>>) <= MaxMessages
  /\ DOMAIN <<>> = {}
<1>1. <<>> \in Seq(Event) /\ Len(<<>>) = 0
  BY EmptySeq
<1>2. QueueCap \in Nat /\ MaxMessages \in Nat
  BY HotplugAssumption DEF HotplugAssumption
<1> QED
  BY <1>1, <1>2

\* The two records a callback's context can hold.
LEMMA CallbackRecords ==
  /\ NoEvent \in Event /\ Idle \in [at : {"idle", "enqueue", "write"}, ev : Event]
  /\ Idle.at = "idle"
  /\ \A d \in Devices : /\ [kind |-> "arrived", dev |-> d] \in Event
                        /\ [kind |-> "left", dev |-> d] \in Event
BY HotplugAssumption DEF NoEvent, Idle, Event, HotplugAssumption

\* What a callback of libusb leaves in its context.
LEMMA CalledLeaves ==
  ASSUME TypeOK, NEW c \in Contexts, NEW ev \in Event, Called(c, ev)
  PROVE  /\ cb' \in [Contexts -> [at : {"idle", "enqueue", "write"}, ev : Event]]
         /\ \A x \in Contexts \ {c} : cb'[x] = cb[x]
         /\ IF Matches(ev) THEN cb'[c].at = "enqueue" /\ cb'[c].ev = ev
            ELSE cb'[c].at = "idle"
BY CallbackRecords DEF TypeOK, Called

\* What enqueue_and_wake does to the queue.
LEMMA EnqueueLeaves ==
  ASSUME TypeOK, NEW c \in Contexts, Enqueue(c)
  PROVE  /\ cb' \in [Contexts -> [at : {"idle", "enqueue", "write"}, ev : Event]]
         /\ \A x \in Contexts \ {c} : cb'[x] = cb[x]
         /\ cb'[c].at \in {"idle", "write"}
         /\ cb[c].ev \in Event
         /\ queue' \in Seq(Event) /\ Len(queue') <= QueueCap
         /\ ~excused' => queue' = Append(queue, cb[c].ev) /\ ~excused
         /\ \A i \in DOMAIN queue' :
               queue'[i] = cb[c].ev \/ \E j \in DOMAIN queue : queue'[i] = queue[j]
<1> DEFINE ev == cb[c].ev
           q  == IF Len(queue) = QueueCap THEN Tail(queue) ELSE queue
<1>1. /\ ev \in Event /\ queue \in Seq(Event) /\ Len(queue) \in Nat
      /\ QueueCap \in Nat \ {0} /\ Len(queue) <= QueueCap
      /\ excused \in BOOLEAN /\ cb[c].at = "enqueue"
  BY HotplugAssumption, LenProperties DEF TypeOK, Enqueue, HotplugAssumption
<1>2. /\ q \in Seq(Event) /\ Len(q) \in Nat /\ Len(q) < QueueCap
      /\ \A i \in DOMAIN q : \E j \in DOMAIN queue : q[i] = queue[j]
  <2>1. CASE Len(queue) = QueueCap
    <3>1. queue # <<>>
      BY <1>1, <2>1, EmptySeq
    <3>2. /\ Tail(queue) \in Seq(Event) /\ Len(Tail(queue)) = Len(queue) - 1
          /\ \A i \in 1..Len(Tail(queue)) : Tail(queue)[i] = queue[i + 1]
          /\ DOMAIN queue = 1..Len(queue)
          /\ DOMAIN Tail(queue) = 1..Len(Tail(queue))
      BY <1>1, <3>1, HeadTailProperties, LenProperties
    <3>3. \A i \in DOMAIN Tail(queue) : i + 1 \in DOMAIN queue
      BY <1>1, <3>2
    <3> QED
      BY <1>1, <2>1, <3>2, <3>3
  <2>2. CASE Len(queue) # QueueCap
    BY <1>1, <2>2
  <2> QED
    BY <2>1, <2>2
<1>3. queue' = Append(q, ev)
  BY DEF Enqueue, Pushed
<1>4. /\ queue' \in Seq(Event) /\ Len(queue') = Len(q) + 1
      /\ DOMAIN q = 1..Len(q) /\ DOMAIN queue' = 1..(Len(q) + 1)
      /\ \A i \in 1..Len(q) : queue'[i] = q[i]
      /\ queue'[Len(q) + 1] = ev
  <2> HIDE DEF q, ev
  <2> QED
    BY <1>1, <1>2, <1>3, AppendProperties, LenProperties
<1>5. \A i \in DOMAIN queue' : queue'[i] = ev \/ \E j \in DOMAIN queue : queue'[i] = queue[j]
  <2> HIDE DEF q, ev
  <2> QED
    BY <1>2, <1>4
<1>6. ~excused' => queue' = Append(queue, ev) /\ ~excused
  BY <1>1, <1>3 DEF Enqueue
<1>7. /\ cb' \in [Contexts -> [at : {"idle", "enqueue", "write"}, ev : Event]]
      /\ \A x \in Contexts \ {c} : cb'[x] = cb[x]
      /\ cb'[c].at \in {"idle", "write"}
  BY CallbackRecords DEF Enqueue, TypeOK
<1>8. Len(queue') <= QueueCap
  <2> HIDE DEF q
  <2> QED
    BY <1>1, <1>2, <1>4
<1> QED
  BY <1>1, <1>4, <1>5, <1>6, <1>7, <1>8

\* The consumer takes the oldest event.
LEMMA PopLeaves ==
  ASSUME TypeOK, Pop
  PROVE  \/ UNCHANGED <<queue, view>> /\ consumer' = "sleep"
         \/ /\ queue # <<>> /\ queue' = Tail(queue) /\ Len(queue') <= QueueCap
            /\ Head(queue) \in Event /\ queue' \in Seq(Event)
            /\ view' = Apply(view, Head(queue)) /\ view' \in SUBSET Devices
            /\ consumer' = "pop" /\ owner = "on"
<1>1. CASE ~initialized \/ queue = <<>>
  BY <1>1 DEF Pop
<1>2. CASE ~(~initialized \/ queue = <<>>)
  <2>1. /\ Head(queue) \in Event /\ Tail(queue) \in Seq(Event)
        /\ Len(Tail(queue)) = Len(queue) - 1
        /\ Len(queue) \in Nat /\ Len(queue) <= QueueCap /\ QueueCap \in Nat
    BY <1>2, HeadTailProperties, LenProperties, HotplugAssumption
    DEF TypeOK, HotplugAssumption
  <2>2. /\ queue' = Tail(queue) /\ view' = Apply(view, Head(queue))
        /\ consumer' = consumer /\ consumer = "pop" /\ owner = "on"
    BY <1>2 DEF Pop, ConsumerRuns
  <2>3. view' \in SUBSET Devices
    BY <2>1, <2>2 DEF TypeOK, Apply, Event
  <2> QED
    BY <1>2, <2>1, <2>2, <2>3
<1> QED
  BY <1>1, <1>2

\* Types, and the order of registration, enumeration and publication, are kept.
LEMMA LifeInvStep == LifeInv /\ [Next]_vars => LifeInv'
<1> SUFFICES ASSUME LifeInv, [Next]_vars
             PROVE  LifeInv'
  OBVIOUS
<1> USE DEF LifeInv
<1>1. ASSUME NEW d \in Devices, Plug(d) \/ Unplug(d)
      PROVE  LifeInv'
  <2>1. PICK k \in {"arrived", "left"} :
           messages' = Append(messages, [kind |-> k, dev |-> d])
    BY <1>1 DEF Plug, Unplug
  <2>2. messages' \in Seq(Event) /\ Len(messages') <= MaxMessages
    <3>1. /\ [kind |-> k, dev |-> d] \in Event /\ messages \in Seq(Event)
          /\ Len(messages) \in Nat /\ Len(messages) < MaxMessages
          /\ MaxMessages \in Nat
      BY <1>1, <2>1, HotplugAssumption, LenProperties
      DEF Event, TypeOK, Plug, Unplug, HotplugAssumption
    <3> QED
      BY <2>1, <3>1, AppendProperties
  <2>3. plugged' \in SUBSET Devices /\ excused' \in BOOLEAN
    BY <1>1 DEF Plug, Unplug, Unreported, TypeOK
  <2> QED
    BY <1>1, <2>2, <2>3 DEF Plug, Unplug, TypeOK
<1>2. CASE Deliver
  <2>1. /\ messages' \in Seq(Event) /\ Head(messages) \in Event
        /\ Len(messages') <= MaxMessages
    <3>1. /\ messages # <<>> /\ messages' = Tail(messages)
          /\ messages \in Seq(Event) /\ Len(messages) \in Nat
          /\ Len(messages) <= MaxMessages /\ MaxMessages \in Nat
      BY <1>2, LenProperties, HotplugAssumption
      DEF Deliver, TypeOK, HotplugAssumption
    <3> QED
      BY <3>1, HeadTailProperties
  <2>2. /\ cb' \in [Contexts -> [at : {"idle", "enqueue", "write"}, ev : Event]]
        /\ cb'["owner"] = cb["owner"]
    BY <1>2, <2>1, CalledLeaves DEF Deliver, TypeOK, Contexts
  <2> QED
    BY <1>2, <2>1, <2>2 DEF Deliver, TypeOK
<1>3. ASSUME NEW c \in Contexts, Enqueue(c)
      PROVE  LifeInv'
  <2>1. excused' \in BOOLEAN
    BY <1>3 DEF Enqueue, TypeOK
  <2>2. cb["owner"].at = "idle" => cb'["owner"].at = "idle"
    BY <1>3, EnqueueLeaves DEF Enqueue, Contexts
  <2> QED
    BY <1>3, <2>1, <2>2, EnqueueLeaves DEF Enqueue, TypeOK
<1>4. ASSUME NEW c \in Contexts, WriteWake(c)
      PROVE  LifeInv'
  BY <1>4, CallbackRecords DEF WriteWake, TypeOK, Contexts
<1>5. CASE InitBegin \/ InitNoUsb \/ InitAcquire \/ InitRegister \/ InitPublish
           \/ InitUndo \/ InitFail
  <2>1. queue' \in Seq(Event) /\ Len(queue') <= QueueCap
    BY <1>5, EmptyFits DEF InitBegin, InitNoUsb, InitAcquire, InitRegister,
       InitPublish, InitUndo, InitFail, ResetQueue, TypeOK
  <2>2. /\ owner' \in OwnerSteps
        /\ todo' \in SUBSET Devices
        /\ registered' \in BOOLEAN /\ initialized' \in BOOLEAN
        /\ wakeFd' \in BOOLEAN /\ excused' \in BOOLEAN /\ pipe' \in BOOLEAN
        /\ shared' = shared
        /\ consumer' \in {"sleep", "pop"} /\ view' \in SUBSET Devices
        /\ UNCHANGED <<plugged, messages, cb>>
    BY <1>5 DEF InitBegin, InitNoUsb, InitAcquire, InitRegister, InitPublish,
       InitUndo, InitFail, OwnerSteps, TypeOK
  <2>3. TypeOK'
    BY <2>1, <2>2 DEF TypeOK
  <2>4. /\ registered' => owner' \in {"enumerate", "on", "deregister"}
        /\ owner' \in {"enumerate", "on"} => registered'
        /\ cb'["owner"].at # "idle" => owner' = "enumerate"
        /\ owner' = "on" => todo' = {}
    BY <1>5 DEF InitBegin, InitNoUsb, InitAcquire, InitRegister, InitPublish,
       InitUndo, InitFail, TypeOK
  <2> QED
    BY <2>3, <2>4
<1>6. ASSUME NEW d \in Devices, Enumerate(d)
      PROVE  LifeInv'
  <2>1. [kind |-> "arrived", dev |-> d] \in Event
    BY CallbackRecords
  <2>2. cb' \in [Contexts -> [at : {"idle", "enqueue", "write"}, ev : Event]]
    BY <1>6, <2>1, CalledLeaves DEF Enumerate, Contexts
  <2> QED
    BY <1>6, <2>2 DEF Enumerate, TypeOK
<1>7. CASE ShutdownBegin \/ Deregister \/ ShutdownRelease
  <2>1. queue' \in Seq(Event) /\ Len(queue') <= QueueCap
    BY <1>7, EmptyFits DEF ShutdownBegin, Deregister, ShutdownRelease,
       ResetQueue, TypeOK
  <2>2. /\ owner' \in {"deregister", "release", "off"}
        /\ UNCHANGED <<plugged, messages, todo, shared, excused, pipe, cb, consumer,
                       view>>
    BY <1>7 DEF ShutdownBegin, Deregister, ShutdownRelease
  <2>3. /\ registered' \in BOOLEAN /\ initialized' \in BOOLEAN
        /\ wakeFd' \in BOOLEAN
    BY <1>7 DEF ShutdownBegin, Deregister, ShutdownRelease, StopDelivery, TypeOK
  <2>4. registered' => owner' = "deregister"
    BY <1>7 DEF ShutdownBegin, Deregister, ShutdownRelease, StopDelivery
  <2>5. cb["owner"].at = "idle"
    BY <1>7 DEF ShutdownBegin, Deregister, ShutdownRelease
  <2>6. TypeOK'
    BY <2>1, <2>2, <2>3 DEF OwnerSteps, TypeOK
  <2> QED
    BY <2>2, <2>4, <2>5, <2>6
<1>8. CASE Wake
  BY <1>8 DEF Wake, TypeOK
<1>9. CASE Pop
  <2>1. UNCHANGED <<plugged, messages, registered, owner, todo, initialized,
                    wakeFd, shared, excused, pipe, cb>>
    BY <1>9 DEF Pop
  <2> QED
    BY <1>9, <2>1, PopLeaves DEF TypeOK
<1>10. CASE StreamOpen \/ StreamClose
  <2>1. /\ shared' \in BOOLEAN
        /\ UNCHANGED <<plugged, messages, registered, owner, todo, initialized,
                       wakeFd, queue, excused, pipe, cb, consumer, view>>
    BY <1>10 DEF StreamOpen, StreamClose
  <2> QED
    BY <2>1 DEF TypeOK
<1>11. CASE UNCHANGED vars
  BY <1>11 DEF vars, TypeOK
<1> QED
  BY <1>1, <1>2, <1>3, <1>4, <1>5, <1>6, <1>7, <1>8, <1>9, <1>10, <1>11
  DEF Next, Callbacks, OwnerStep

\* Before dvb_hotplug_init nothing is registered and no callback runs.
LEMMA LifeInvInit == Init => LifeInv /\ EvtInLife
<1> SUFFICES ASSUME Init
             PROVE  LifeInv /\ EvtInLife
  OBVIOUS
<1>1. /\ messages \in Seq(Event) /\ Len(messages) <= MaxMessages
      /\ queue \in Seq(Event) /\ Len(queue) <= QueueCap
  BY EmptyFits DEF Init
<1>2. /\ cb \in [Contexts -> [at : {"idle", "enqueue", "write"}, ev : Event]]
      /\ \A c \in Contexts : cb[c].at = "idle"
  BY CallbackRecords DEF Init
<1> QED
  BY <1>1, <1>2 DEF Init, LifeInv, EvtInLife, TypeOK, OwnerSteps, Contexts

\* The variables of g_hp, of libusb's side and of the consumer keep their types;
\* the queue never holds more than its 64 slots.
THEOREM TypeCorrect == Spec => []TypeOK
<1>1. LifeInv => TypeOK
  BY DEF LifeInv
<1> QED
  BY <1>1, LifeInvInit, LifeInvStep, PTL DEF Spec

\* Whoever lets go of the event thread last waits for the callback that runs.
LEMMA EvtInLifeStep ==
  ASSUME LifeInv, EvtInLife, [Next]_vars
  PROVE  EvtInLife'
<1> USE DEF EvtInLife, EvtRuns, HotplugHolds
<1>1. CASE Deliver
  BY <1>1 DEF Deliver, EvtRuns
<1>2. ASSUME NEW c \in Contexts, Enqueue(c) \/ WriteWake(c)
      PROVE  EvtInLife'
  BY <1>2, EnqueueLeaves DEF Enqueue, WriteWake, Idle, LifeInv, Contexts, TypeOK
<1>3. ASSUME NEW d \in Devices, Enumerate(d)
      PROVE  EvtInLife'
  BY <1>3 DEF Enumerate
<1>4. CASE ShutdownRelease \/ InitUndo
  BY <1>4 DEF ShutdownRelease, InitUndo, Joined
<1>5. CASE InitBegin \/ InitNoUsb \/ InitAcquire \/ InitRegister \/ InitPublish
           \/ InitFail \/ ShutdownBegin \/ Deregister
  BY <1>5 DEF InitBegin, InitNoUsb, InitAcquire, InitRegister, InitPublish,
     InitFail, ShutdownBegin, Deregister
<1>6. CASE StreamOpen \/ StreamClose
  BY <1>6 DEF StreamOpen, StreamClose, Joined
<1>7. CASE Wake \/ Pop \/ UNCHANGED vars \/ \E d \in Devices : Plug(d) \/ Unplug(d)
  BY <1>7 DEF Wake, Pop, vars, Plug, Unplug
<1> QED
  BY <1>1, <1>2, <1>3, <1>4, <1>5, <1>6, <1>7 DEF Next, Callbacks, OwnerStep

\* When dvb_hotplug_shutdown has returned and no stream holds the event thread,
\* no callback has the caller's wake fd, which the caller closes next: whoever
\* calls usbq_evt_release last has joined the thread, be it hotplug or the last
\* stream, however streams come and go meanwhile.
THEOREM NoWriteAfterShutdown == Spec => []ShutdownStopsWrites
<1>1. EvtInLife => ShutdownStopsWrites
  BY DEF EvtInLife, EvtRuns, HotplugHolds, ShutdownStopsWrites
<1>2. LifeInv /\ EvtInLife /\ [Next]_vars => EvtInLife'
  BY EvtInLifeStep
<1> QED
  BY <1>1, <1>2, LifeInvInit, LifeInvStep, PTL DEF Spec

-----------------------------------------------------------------------------
(***************************************************************************)
(* Every step keeps the news true.                                         *)
(***************************************************************************)
News == OnlySupported /\ MessagesTrue /\ EvtTrue /\ InitTrue /\ Known /\ Fresh

\* A device comes or goes: the message about it is the last word on it.
LEMMA NewsBus ==
  ASSUME LifeInv, News,
         NEW d \in Devices, Plug(d) \/ Unplug(d)
  PROVE  News'
<1> USE DEF News
<1>1. PICK e \in Event : /\ messages' = Append(messages, e) /\ e.dev = d
                         /\ e.kind = Truth(d)'
  <2>1. CASE Plug(d)
    BY <2>1, CallbackRecords DEF Plug, Truth
  <2>2. CASE Unplug(d)
    BY <2>2, CallbackRecords DEF Unplug, Truth
  <2> QED
    BY <2>1, <2>2
<1>2. \A x \in Devices \ {d} : Truth(x)' = Truth(x) /\ (x \in plugged' <=> x \in plugged)
  BY DEF Plug, Unplug, Truth
<1>3. UNCHANGED <<owner, todo, queue, cb, view>> /\ (~excused' => ~excused)
  <2>1. UNCHANGED <<owner, todo, queue, cb, view>>
    BY DEF Plug, Unplug
  <2>2. excused' = excused \/ excused' = (excused \/ Unreported(d))
    BY DEF Plug, Unplug
  <2>3. ~excused' => ~excused
    BY <2>2, Zenon
  <2> QED
    BY <2>1, <2>3
<1>4. /\ messages \in Seq(Event)
      /\ Says(messages', d, Truth(d)') /\ ~Silent(messages', d)
      /\ \A x : x # d => (Silent(messages, x) <=> Silent(messages', x))
      /\ \A x, k : x # d /\ Says(messages, x, k) => Says(messages', x, k)
  BY <1>1, AppendSays DEF LifeInv, TypeOK
<1>5. OnlySupported' /\ Fresh'
  BY <1>3 DEF OnlySupported, Fresh
<1>6. MessagesTrue'
  BY <1>2, <1>4 DEF MessagesTrue
<1>7. EvtTrue'
  BY <1>2, <1>3, <1>4 DEF EvtTrue, Pending
<1>8. InitTrue'
  <2>1. CASE Plug(d)
    BY <1>3, <2>1 DEF Plug, InitTrue
  <2>2. CASE Unplug(d)
    <3>1. plugged' = plugged \ {d} /\ (~excused' => ~Unreported(d))
      BY <2>2 DEF Unplug
    <3>2. cb["owner"].at = "enqueue" => cb["owner"].ev.dev \in Supported
      BY DEF OnlySupported, Contexts
    <3> QED
      BY <1>3, <3>1, <3>2 DEF InitTrue, Unreported
  <2> QED
    BY <2>1, <2>2
<1>9. Known'
  <2>1. SUFFICES ASSUME (owner \in {"enumerate", "on"} /\ ~excused)',
                        NEW x \in Supported, UpToQueue(x)'
                 PROVE  QueueTrue(x)'
    BY DEF Known
  <2>2. x # d /\ Silent(messages, x) /\ x \in Devices
    BY <1>4, <2>1, HotplugAssumption DEF UpToQueue, HotplugAssumption
  <2>3. UpToQueue(x)
    BY <1>3, <2>1, <2>2 DEF UpToQueue, Pending
  <2>4. QueueTrue(x)
    BY <1>3, <2>1, <2>3 DEF Known
  <2>5. Truth(x)' = Truth(x) /\ (x \in plugged' <=> x \in plugged)
    BY <1>2, <2>2
  <2> QED
    BY <1>3, <2>4, <2>5 DEF QueueTrue
<1> QED
  BY <1>5, <1>6, <1>7, <1>8, <1>9

\* libusb calls back with the oldest message: what was the last word on its
\* device is now in the callback's hands.
LEMMA NewsDeliver ==
  ASSUME LifeInv, News, Deliver
  PROVE  News'
<1> USE DEF News
<1> DEFINE e == Head(messages)
<1>1. /\ messages \in Seq(Event) /\ messages # <<>> /\ messages' = Tail(messages)
      /\ cb["evt"].at = "idle" /\ e \in Event /\ e.dev \in Devices
      /\ UNCHANGED <<plugged, owner, todo, queue, excused, view>>
  BY TailSays DEF Deliver, LifeInv, TypeOK, Event
<1>2. /\ \A x : Silent(messages, x) => Silent(messages', x)
      /\ \A x : e.dev # x /\ Silent(messages', x) => Silent(messages, x)
      /\ \A x, k : Says(messages, x, k) =>
            \/ Says(messages', x, k) /\ ~Silent(messages', x)
            \/ Silent(messages', x) /\ e.dev = x /\ e.kind = k
  BY <1>1, TailSays
<1>3. \A x \in Devices : Truth(x)' = Truth(x)
  BY <1>1 DEF Truth
<1>4. /\ cb'["owner"] = cb["owner"]
      /\ cb'["evt"].at = "enqueue" => cb'["evt"].ev = e /\ Matches(e)
      /\ registered /\ Matches(e) => cb'["evt"].at = "enqueue" /\ cb'["evt"].ev = e
  <2>1. CASE registered
    BY <1>1, <2>1, CalledLeaves DEF Deliver, LifeInv, Contexts
  <2>2. CASE ~registered
    BY <1>1, <2>2 DEF Deliver
  <2> QED
    BY <2>1, <2>2
<1> HIDE DEF e
<1>5. OnlySupported' /\ Fresh'
  BY <1>1, <1>4 DEF OnlySupported, Fresh, Contexts, Matches
<1>6. MessagesTrue'
  BY <1>2, <1>3 DEF MessagesTrue
<1>7. EvtTrue'
  <2>1. SUFFICES ASSUME NEW x \in Devices, Pending("evt", x)', Silent(messages, x)'
                 PROVE  cb'["evt"].ev.kind = Truth(x)'
    BY DEF EvtTrue
  <2>2. cb'["evt"].ev = e /\ e.dev = x
    BY <1>4, <2>1 DEF Pending
  <2>3. ~Silent(messages, x)
    <3>1. e = messages[1] /\ 1 \in DOMAIN messages
      BY <1>1, LenProperties, EmptySeq DEF e
    <3> QED
      BY <2>2, <3>1 DEF Silent
  <2>4. Says(messages, x, Truth(x))
    BY <2>3 DEF MessagesTrue
  <2> QED
    BY <1>2, <1>3, <2>1, <2>2, <2>4
<1>8. InitTrue'
  BY <1>1, <1>4 DEF InitTrue
<1>9. Known'
  <2>1. SUFFICES ASSUME (owner \in {"enumerate", "on"} /\ ~excused)',
                        NEW x \in Supported, UpToQueue(x)'
                 PROVE  QueueTrue(x)'
    BY DEF Known
  <2>2. registered /\ x \in Devices
    BY <1>1, <2>1, HotplugAssumption DEF LifeInv, HotplugAssumption
  <2>3. e.dev # x
    BY <1>4, <2>1, <2>2 DEF UpToQueue, Pending, Matches, Contexts
  <2>4. UpToQueue(x)
    BY <1>1, <1>2, <1>4, <2>1, <2>3 DEF UpToQueue, Pending, Contexts
  <2> QED
    BY <1>1, <1>3, <2>1, <2>2, <2>4 DEF Known, QueueTrue
<1> QED
  BY <1>5, <1>6, <1>7, <1>8, <1>9

\* enqueue_and_wake puts true news at the end of the queue, or drops some.
LEMMA NewsEnqueue ==
  ASSUME LifeInv, News, NEW c \in Contexts, Enqueue(c)
  PROVE  News'
<1> USE DEF News
<1> DEFINE e == cb[c].ev
<1>1. /\ cb[c].at = "enqueue" /\ queue \in Seq(Event)
      /\ UNCHANGED <<plugged, messages, owner, todo, view>>
  BY DEF Enqueue, LifeInv, TypeOK
<1>2. /\ \A x \in Contexts \ {c} : cb'[x] = cb[x]
      /\ cb'[c].at # "enqueue" /\ e \in Event /\ e.dev \in Devices
      /\ ~excused' => queue' = Append(queue, e) /\ ~excused
      /\ \A i \in DOMAIN queue' :
               queue'[i] = e \/ \E j \in DOMAIN queue : queue'[i] = queue[j]
  BY EnqueueLeaves DEF LifeInv, Event
<1>3. \A x \in Devices : Truth(x)' = Truth(x)
  BY <1>1 DEF Truth
<1>4. \A x, y : Pending(x, y)' /\ x \in Contexts => Pending(x, y) /\ cb'[x] = cb[x]
  BY <1>2 DEF Pending
<1> HIDE DEF e
<1>5. OnlySupported'
  <2>1. e.dev \in Supported
    BY <1>1 DEF OnlySupported, e
  <2> QED
    BY <1>1, <1>2, <2>1 DEF OnlySupported
<1>6. MessagesTrue' /\ EvtTrue' /\ InitTrue'
  <2>1. MessagesTrue' /\ EvtTrue'
    BY <1>1, <1>3, <1>4 DEF MessagesTrue, EvtTrue, Contexts
  <2>2. cb'["owner"].at = "enqueue" => cb'["owner"] = cb["owner"]
    BY <1>2 DEF Contexts
  <2> QED
    BY <1>1, <1>2, <2>1, <2>2 DEF InitTrue
<1>7. Fresh'
  BY <1>1 DEF Fresh, Enqueue, OfEarlierLife
<1>8. Known'
  <2>1. SUFFICES ASSUME (owner \in {"enumerate", "on"} /\ ~excused)',
                        NEW x \in Supported, UpToQueue(x)'
                 PROVE  QueueTrue(x)'
    BY DEF Known
  <2>2. queue' = Append(queue, e) /\ ~excused /\ owner \in {"enumerate", "on"}
    BY <1>1, <1>2, <2>1
  <2>3. /\ Says(queue', e.dev, e.kind) /\ ~Silent(queue', e.dev)
        /\ \A y : y # e.dev => (Silent(queue, y) <=> Silent(queue', y))
        /\ \A y, k : y # e.dev /\ Says(queue, y, k) => Says(queue', y, k)
    BY <1>1, <1>2, <2>2, AppendSays
  <2>4. x \in Devices /\ Silent(messages, x)
    BY <1>1, <2>1, HotplugAssumption DEF UpToQueue, HotplugAssumption
  <2>5. CASE x = e.dev
    <3>1. Pending(c, x)
      BY <1>1, <2>5 DEF Pending, e
    <3>2. e.kind = Truth(x)
      <4>1. CASE c = "evt"
        BY <2>4, <3>1, <4>1 DEF EvtTrue, e
      <4>2. CASE c = "owner"
        <5>1. owner = "enumerate"
          BY <1>1, <4>2 DEF LifeInv
        <5>2. e.kind = "arrived" /\ x \in plugged
          BY <1>1, <2>2, <2>5, <4>2, <5>1 DEF InitTrue, e
        <5> QED
          BY <5>2 DEF Truth
      <4> QED
        BY <4>1, <4>2 DEF Contexts
    <3> QED
      BY <1>3, <2>3, <2>4, <2>5, <3>2 DEF QueueTrue
  <2>6. CASE x # e.dev
    <3>1. UpToQueue(x)
      BY <1>1, <1>2, <2>1, <2>6 DEF UpToQueue, Pending, e
    <3>2. QueueTrue(x)
      BY <2>2, <3>1 DEF Known
    <3> QED
      BY <1>1, <1>3, <2>3, <2>4, <2>6, <3>2 DEF QueueTrue
  <2> QED
    BY <2>5, <2>6
<1> QED
  BY <1>5, <1>6, <1>7, <1>8

\* The enumeration of init tells the truth, unless a device has left meanwhile.
LEMMA NewsEnumerate ==
  ASSUME LifeInv, News, NEW d \in Devices, Enumerate(d)
  PROVE  News'
<1> USE DEF News
<1> DEFINE e == [kind |-> "arrived", dev |-> d]
<1>1. /\ owner = "enumerate" /\ cb["owner"].at = "idle" /\ d \in todo
      /\ todo' = todo \ {d}
      /\ UNCHANGED <<plugged, messages, owner, queue, excused, view>>
  BY DEF Enumerate
<1>2. /\ cb'["evt"] = cb["evt"]
      /\ cb'["owner"].at = "enqueue" => cb'["owner"].ev = e /\ d \in Supported
      /\ d \in Supported => cb'["owner"].at = "enqueue" /\ cb'["owner"].ev = e
  BY CallbackRecords, CalledLeaves DEF Enumerate, LifeInv, Contexts, Matches
<1>3. \A x \in Devices : Truth(x)' = Truth(x)
  BY <1>1 DEF Truth
<1>4. OnlySupported' /\ MessagesTrue' /\ EvtTrue' /\ Fresh'
  BY <1>1, <1>2, <1>3
  DEF OnlySupported, MessagesTrue, EvtTrue, Fresh, Pending, Contexts
<1>5. InitTrue'
  BY <1>1, <1>2 DEF InitTrue
<1>6. Known'
  <2>1. SUFFICES ASSUME (owner \in {"enumerate", "on"} /\ ~excused)',
                        NEW x \in Supported, UpToQueue(x)'
                 PROVE  QueueTrue(x)'
    BY DEF Known
  <2>2. x # d
    BY <1>2, <2>1 DEF UpToQueue, Pending, Contexts
  <2>3. UpToQueue(x)
    BY <1>1, <1>2, <2>1, <2>2 DEF UpToQueue, Pending, Contexts
  <2> QED
    BY <1>1, <2>1, <2>3 DEF Known, QueueTrue, Truth
<1> QED
  BY <1>4, <1>5, <1>6

\* The consumer takes the oldest news into its view; what is left outranks it.
LEMMA NewsPop ==
  ASSUME LifeInv, News, Pop
  PROVE  News'
<1> USE DEF News
<1>1. UNCHANGED <<plugged, messages, owner, todo, excused, cb>>
  BY DEF Pop
<1>2. \A x \in Devices : Truth(x)' = Truth(x)
  BY <1>1 DEF Truth
<1>3. MessagesTrue' /\ EvtTrue' /\ InitTrue'
  BY <1>1, <1>2 DEF MessagesTrue, EvtTrue, InitTrue, Pending
<1>4. CASE UNCHANGED <<queue, view>>
  BY <1>1, <1>2, <1>3, <1>4
  DEF OnlySupported, Known, Fresh, UpToQueue, QueueTrue, Pending, Truth
<1>5. CASE /\ queue # <<>> /\ queue' = Tail(queue)
           /\ view' = Apply(view, Head(queue)) /\ owner = "on"
  <2> DEFINE e == Head(queue)
  <2>1. /\ queue \in Seq(Event) /\ e \in Event /\ Tail(queue) \in Seq(Event)
        /\ e = queue[1] /\ 1 \in DOMAIN queue
        /\ \A i \in DOMAIN queue' : i + 1 \in DOMAIN queue /\ queue'[i] = queue[i + 1]
    BY <1>5, HeadTailProperties, LenProperties, EmptySeq DEF LifeInv, TypeOK
  <2>2. /\ \A x : Silent(queue, x) => Silent(queue', x)
        /\ \A x : e.dev # x /\ Silent(queue', x) => Silent(queue, x)
        /\ \A x, k : Says(queue, x, k) =>
              \/ Says(queue', x, k) /\ ~Silent(queue', x)
              \/ Silent(queue', x) /\ e.dev = x /\ e.kind = k
    BY <1>5, <2>1, TailSays
  <2>3. view' = IF e.kind = "arrived" THEN view \union {e.dev} ELSE view \ {e.dev}
    BY <1>5 DEF Apply
  <2> HIDE DEF e
  <2>4. OnlySupported'
    BY <1>1, <2>1, <2>3 DEF OnlySupported
  <2>5. Known'
    <3>1. SUFFICES ASSUME (owner \in {"enumerate", "on"} /\ ~excused)',
                          NEW x \in Supported, UpToQueue(x)'
                   PROVE  QueueTrue(x)'
      BY DEF Known
    <3>2. QueueTrue(x) /\ Truth(x)' = Truth(x) /\ plugged' = plugged
      BY <1>1, <3>1 DEF Known, UpToQueue, Pending, Truth
    <3>3. CASE Silent(queue, x)
      <4>1. e.dev # x
        BY <2>1, <3>3 DEF Silent
      <4> QED
        BY <2>2, <2>3, <3>2, <3>3, <4>1 DEF QueueTrue
    <3>4. CASE Says(queue', x, Truth(x)) /\ ~Silent(queue', x)
      BY <3>2, <3>4 DEF QueueTrue
    <3>5. CASE Silent(queue', x) /\ e.dev = x /\ e.kind = Truth(x)
      BY <2>3, <3>2, <3>5 DEF QueueTrue, Truth
    <3> QED
      BY <2>2, <3>2, <3>3, <3>4, <3>5 DEF QueueTrue
  <2>6. Fresh'
    BY <1>1, <1>5 DEF Fresh
  <2> QED
    BY <1>3, <2>4, <2>5, <2>6
<1> QED
  BY <1>4, <1>5, PopLeaves DEF LifeInv

\* init starts with an empty queue and view, and enumerates what is there.
LEMMA NewsInit ==
  ASSUME LifeInv, News,
         InitBegin \/ InitNoUsb \/ InitAcquire \/ InitRegister \/ InitPublish
         \/ InitUndo \/ InitFail
  PROVE  News'
<1> USE DEF News
<1>1. /\ UNCHANGED <<plugged, messages, cb>>
      /\ queue' \in {queue, <<>>} /\ view' \in {view, {}}
  BY DEF InitBegin, InitNoUsb, InitAcquire, InitRegister, InitPublish, InitUndo, InitFail,
     ResetQueue
<1>2. OnlySupported' /\ MessagesTrue' /\ EvtTrue'
  BY <1>1 DEF OnlySupported, MessagesTrue, EvtTrue, Pending, Truth
<1>3. InitTrue' /\ Fresh'
  <2>1. CASE InitBegin
    BY <2>1 DEF InitBegin, ResetQueue, InitTrue, Fresh
  <2>2. CASE InitAcquire
    BY <2>2 DEF InitAcquire, InitTrue, Fresh
  <2>3. CASE InitRegister
    <3>1. /\ owner = "register" /\ owner' \in {"enumerate", "undo"}
          /\ cb["owner"].at = "idle" /\ cb' = cb
          /\ owner' = "enumerate" => todo' = plugged /\ plugged' = plugged
      BY <2>3 DEF InitRegister, LifeInv
    <3> QED
      BY <3>1 DEF InitTrue, Fresh
  <2>4. CASE InitPublish
    BY <2>4 DEF InitPublish, InitTrue, Fresh
  <2>5. CASE InitNoUsb \/ InitUndo \/ InitFail
    BY <2>5 DEF InitNoUsb, InitUndo, InitFail, InitTrue, Fresh
  <2> QED
    BY <2>1, <2>2, <2>3, <2>4, <2>5
<1>4. Known'
  <2>1. CASE InitRegister
    <3>1. SUFFICES ASSUME owner' = "enumerate", ~excused', NEW x \in Supported,
                          UpToQueue(x)'
                   PROVE  QueueTrue(x)'
      BY <2>1 DEF Known, InitRegister
    <3>2. queue = <<>> /\ view = {}
      BY <2>1, <3>1 DEF InitRegister, Fresh
    <3>3. x \notin plugged
      BY <2>1, <3>1 DEF UpToQueue, InitRegister
    <3> QED
      BY <2>1, <3>2, <3>3, EmptySilent DEF InitRegister, QueueTrue
  <2>2. CASE InitPublish
    <3>1. /\ owner = "enumerate"
          /\ UNCHANGED <<todo, queue, excused, view>>
      BY <2>2 DEF InitPublish
    <3> QED
      BY <1>1, <3>1 DEF Known, UpToQueue, QueueTrue, Pending, Truth
  <2>3. CASE ~InitRegister /\ ~InitPublish
    BY <2>3 DEF InitBegin, InitNoUsb, InitAcquire, InitUndo, InitFail, Known
  <2> QED
    BY <2>1, <2>2, <2>3
<1> QED
  BY <1>2, <1>3, <1>4

\* The steps that carry no news.
LEMMA NewsElse ==
  ASSUME LifeInv, News,
         \/ ShutdownBegin \/ Deregister \/ ShutdownRelease \/ Wake
         \/ StreamOpen \/ StreamClose
         \/ UNCHANGED vars \/ \E c \in Contexts : WriteWake(c)
  PROVE  News'
<1> USE DEF News
<1>1. CASE ShutdownBegin \/ Deregister \/ ShutdownRelease
  <2>1. /\ UNCHANGED <<plugged, messages, cb, view>> /\ queue' \in {queue, <<>>}
        /\ owner' \in {"deregister", "release", "off"}
    BY <1>1 DEF ShutdownBegin, Deregister, ShutdownRelease, ResetQueue
  <2>2. cb["owner"].at = "idle"
    BY <1>1 DEF ShutdownBegin, Deregister, ShutdownRelease, LifeInv
  <2> QED
    BY <2>1, <2>2 DEF OnlySupported, MessagesTrue, EvtTrue, InitTrue, Known,
       Fresh, Pending, Truth
<1>2. CASE Wake \/ StreamOpen \/ StreamClose \/ UNCHANGED vars
  <2>1. UNCHANGED <<plugged, messages, cb, view, queue, owner, todo, excused>>
    BY <1>2 DEF Wake, StreamOpen, StreamClose, vars
  <2> QED
    BY <2>1 DEF OnlySupported, MessagesTrue, EvtTrue, InitTrue, Known, Fresh,
       UpToQueue, QueueTrue, Pending, Truth
<1>3. ASSUME NEW c \in Contexts, WriteWake(c)
      PROVE  News'
  <2>1. UNCHANGED <<plugged, messages, view, queue, owner, todo, excused>>
    BY <1>3 DEF WriteWake
  <2>2. \A x, y : x \in Contexts => /\ Pending(x, y)' <=> Pending(x, y)
                                    /\ Pending(x, y) => cb'[x] = cb[x]
    BY <1>3, CallbackRecords DEF WriteWake, Pending, LifeInv, TypeOK
  <2>3. \A x \in Contexts : cb'[x].at = "enqueue" => cb'[x] = cb[x]
    BY <1>3, CallbackRecords DEF WriteWake, LifeInv, TypeOK
  <2> QED
    BY <2>1, <2>2, <2>3 DEF OnlySupported, MessagesTrue, EvtTrue, InitTrue,
       Known, Fresh, UpToQueue, QueueTrue, Truth, Contexts
<1> QED
  BY <1>1, <1>2, <1>3

\* Nothing is on its way before the first device has moved.
LEMMA NewsBegin == Init => News
BY LifeInvInit, EmptySilent
DEF Init, News, OnlySupported, MessagesTrue, EvtTrue, InitTrue, Known, Fresh,
    Pending, LifeInv, Idle, Contexts

\* A consumer that has drained everything knows the supported devices present,
\* for any number of devices, any length of the queue and any history of calls,
\* of streams and of devices coming and going, also while dvb_hotplug_init runs.
\* There are three exceptions, each until the next init: the queue was full and
\* dropped an event, a device left that init had found but not queued yet, or a
\* callback of an earlier life, which a stream kept alive, put its event into the
\* queue before init had registered.
THEOREM ViewIsCoherent == Spec => []ViewCoherent
<1> DEFINE Inv == LifeInv /\ News
<1>1. Init => Inv
  BY LifeInvInit, NewsBegin
<1>2. Inv /\ [Next]_vars => Inv'
  <2> SUFFICES ASSUME Inv, [Next]_vars
               PROVE  Inv'
    OBVIOUS
  <2>1. LifeInv'
    BY LifeInvStep
  <2>2. News'
    BY NewsBus, NewsDeliver, NewsEnqueue, NewsEnumerate, NewsPop, NewsInit,
       NewsElse DEF Next, Callbacks, OwnerStep
  <2> QED
    BY <2>1, <2>2
<1>3. Inv => ViewCoherent
  <2> SUFFICES ASSUME Inv, Settled, ~excused
               PROVE  view = plugged \intersect Supported
    BY DEF ViewCoherent
  <2>1. \A d \in Supported : UpToQueue(d) /\ Silent(queue, d)
    BY EmptySilent DEF Settled, UpToQueue, Pending, LifeInv
  <2>2. \A d \in Supported : d \in view <=> d \in plugged
    BY <2>1 DEF News, Known, QueueTrue, Settled
  <2> QED
    BY <2>2 DEF News, OnlySupported
<1> QED
  BY <1>1, <1>2, <1>3, PTL DEF Spec
=============================================================================
