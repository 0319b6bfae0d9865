------------------------------- MODULE Hotplug ------------------------------
(***************************************************************************)
(* The hotplug module (src/dvb_hotplug/src/dvb_hotplug.c): the owner that  *)
(* calls dvb_hotplug_init and dvb_hotplug_shutdown, hotplug_cb on the      *)
(* event thread and, for devices already present, on the owner's thread    *)
(* inside libusb_hotplug_register_callback, and the consumer that sleeps   *)
(* in select() on the wake pipe and pops.  g_hp.mu makes each critical     *)
(* section one step; the write to the wake fd comes after the unlock, with *)
(* the fd read under it.                                                   *)
(*                                                                         *)
(* libusb is external: it queues one message for each device that comes or *)
(* goes and the event thread delivers them in order; deregistering stops   *)
(* new callbacks and does not wait for a running one.  The event thread is *)
(* the one of usbq.c, which streams hold as well, so that it may run from  *)
(* one life of the module into the next.                                   *)
(***************************************************************************)
EXTENDS Integers, Sequences

CONSTANTS Devices,        \* devices that come and go
          Supported,      \* those in a *_supported_boards table
          QueueCap,       \* HP_QUEUE_CAP
          MaxMessages     \* bound: messages libusb has queued

ASSUME HotplugAssumption ==
    /\ Devices # {}
    /\ Supported \subseteq Devices
    /\ QueueCap \in Nat \ {0}
    /\ MaxMessages \in Nat

VARIABLES
    plugged,      \* devices on the bus
    messages,     \* libusb's undelivered hotplug messages
    registered,   \* our callback is registered with libusb
    owner,        \* where the owner is
    todo,         \* devices register_callback still has to enumerate
    initialized,  \* g_hp.initialized
    wakeFd,       \* g_hp.wake_fd >= 0
    shared,       \* a stream holds the event thread, too
    queue,        \* g_hp.queue, oldest first
    excused,      \* the consumer's view need not be right until the next init
    pipe,         \* the wake pipe is readable
    cb,           \* hotplug_cb on the event thread and on the owner's thread
    consumer,     \* "sleep" in select() or "pop"
    view          \* the devices the consumer believes present

vars == <<plugged, messages, registered, owner, todo, initialized, wakeFd,
          shared, queue, excused, pipe, cb, consumer, view>>

Event == [kind : {"arrived", "left"}, dev : Devices]

OwnerSteps == {"off", "acquire", "register", "enumerate", "undo", "fail",
               "on", "deregister", "release"}

\* A callback is about to enqueue [ev], or to write to the fd it read.
Contexts == {"evt", "owner"}
NoEvent  == [kind |-> "left", dev |-> CHOOSE d \in Devices : TRUE]
Idle     == [at |-> "idle", ev |-> NoEvent]

TypeOK ==
    /\ plugged \in SUBSET Devices
    /\ messages \in Seq(Event) /\ Len(messages) <= MaxMessages
    /\ registered \in BOOLEAN
    /\ owner \in OwnerSteps
    /\ todo \in SUBSET Devices
    /\ initialized \in BOOLEAN
    /\ wakeFd \in BOOLEAN
    /\ shared \in BOOLEAN
    /\ queue \in Seq(Event) /\ Len(queue) <= QueueCap
    /\ excused \in BOOLEAN
    /\ pipe \in BOOLEAN
    /\ cb \in [Contexts -> [at : {"idle", "enqueue", "write"}, ev : Event]]
    /\ consumer \in {"sleep", "pop"}
    /\ view \in SUBSET Devices

Init ==
    /\ plugged \in SUBSET Devices
    /\ messages = <<>>
    /\ registered = FALSE
    /\ owner = "off"
    /\ todo = {}
    /\ initialized = FALSE
    /\ wakeFd = FALSE
    /\ shared = FALSE
    /\ queue = <<>>
    /\ excused = FALSE
    /\ pipe = FALSE
    /\ cb = [c \in Contexts |-> Idle]
    /\ consumer = "sleep"
    /\ view = {}

-----------------------------------------------------------------------------
(***************************************************************************)
(* The bus, and libusb's delivery.                                         *)
(***************************************************************************)
Plug(d) ==
    /\ Len(messages) < MaxMessages
    /\ d \notin plugged
    /\ plugged' = plugged \union {d}
    /\ messages' = Append(messages, [kind |-> "arrived", dev |-> d])
    /\ UNCHANGED <<registered, owner, todo, initialized, wakeFd, shared, queue,
                   excused, pipe, cb, consumer, view>>

\* register_callback has found the device present but hotplug_cb has not queued
\* that yet: the callbacks of both threads may do so in either order.
Unreported(d) ==
    /\ d \in Supported
    /\ d \in todo \/ (cb["owner"].at = "enqueue" /\ cb["owner"].ev.dev = d)

Unplug(d) ==
    /\ Len(messages) < MaxMessages
    /\ d \in plugged
    /\ plugged' = plugged \ {d}
    /\ messages' = Append(messages, [kind |-> "left", dev |-> d])
    /\ excused' = (excused \/ Unreported(d))
    /\ UNCHANGED <<registered, owner, todo, initialized, wakeFd, shared, queue,
                   pipe, cb, consumer, view>>

(***************************************************************************)
(* The event thread exists while hotplug or a stream holds it; the last to *)
(* release it joins it, and so waits for a callback that still runs.  Calls*)
(* of usbq_evt_acquire and usbq_evt_release do not overlap here            *)
(* (UsbqRuntime has what they do to one another).                          *)
(***************************************************************************)
HotplugHolds == owner \notin {"off", "acquire", "fail"}

EvtRuns == shared \/ HotplugHolds

JoinsNever(others) == TRUE                                        \* mutant
Joined(others) == others \/ cb["evt"].at = "idle"

StreamOpen ==
    /\ ~shared
    /\ shared' = TRUE
    /\ UNCHANGED <<plugged, messages, registered, owner, todo, initialized,
                   wakeFd, queue, excused, pipe, cb, consumer, view>>

StreamClose ==
    /\ shared
    /\ Joined(HotplugHolds)
    /\ shared' = FALSE
    /\ UNCHANGED <<plugged, messages, registered, owner, todo, initialized,
                   wakeFd, queue, excused, pipe, cb, consumer, view>>

\* hotplug_cb up to enqueue_and_wake: an unsupported device is dropped.
Matches(ev) == ev.dev \in Supported

Called(c, ev) == cb' = [cb EXCEPT ![c] = IF Matches(ev)
                                         THEN [at |-> "enqueue", ev |-> ev]
                                         ELSE Idle]

Deliver ==
    /\ EvtRuns
    /\ cb["evt"].at = "idle"
    /\ messages # <<>>
    /\ messages' = Tail(messages)
    /\ IF registered THEN Called("evt", Head(messages)) ELSE UNCHANGED cb
    /\ UNCHANGED <<plugged, registered, owner, todo, initialized, wakeFd,
                   shared, queue, excused, pipe, consumer, view>>

-----------------------------------------------------------------------------
(***************************************************************************)
(* enqueue_and_wake.                                                       *)
(***************************************************************************)
\* A full queue gives up its oldest event.
Pushed(q, ev) == Append(IF Len(q) = QueueCap THEN Tail(q) ELSE q, ev)

\* The byte is due when a wake fd was set while the lock was held.
WakeIfSecond == wakeFd /\ Len(queue) = 1                           \* mutant
WakeDue == wakeFd

\* A callback of an earlier registration has outlived shutdown and puts its
\* event into the queue that init has just emptied.
OfEarlierLife == owner \in {"acquire", "register"}

Enqueue(c) ==
    /\ cb[c].at = "enqueue"
    /\ queue' = Pushed(queue, cb[c].ev)
    /\ excused' = (excused \/ Len(queue) = QueueCap \/ OfEarlierLife)
    /\ cb' = [cb EXCEPT ![c] = IF WakeDue THEN [@ EXCEPT !.at = "write"] ELSE Idle]
    /\ UNCHANGED <<plugged, messages, registered, owner, todo, initialized,
                   wakeFd, shared, pipe, consumer, view>>

WriteWake(c) ==
    /\ cb[c].at = "write"
    /\ pipe' = TRUE
    /\ cb' = [cb EXCEPT ![c] = Idle]
    /\ UNCHANGED <<plugged, messages, registered, owner, todo, initialized,
                   wakeFd, shared, queue, excused, consumer, view>>

-----------------------------------------------------------------------------
(***************************************************************************)
(* dvb_hotplug_init.  A second call while initialized is refused with      *)
(* -EBUSY and changes nothing.                                             *)
(***************************************************************************)
KeepQueue == UNCHANGED queue                                      \* mutant
ResetQueue == queue' = <<>>

\* The caller hands over a fresh, empty pipe and starts with an empty view.
InitBegin ==
    /\ owner = "off"
    /\ ~initialized
    /\ ResetQueue
    /\ wakeFd' = TRUE
    /\ owner' = "acquire"
    /\ excused' = FALSE
    /\ pipe' = FALSE
    /\ consumer' = "sleep"
    /\ view' = {}
    /\ UNCHANGED <<plugged, messages, registered, todo, initialized, shared,
                   cb>>

\* usbq_init fails: -EIO, and the wake fd stays set.
InitNoUsb ==
    /\ owner = "acquire"
    /\ owner' = "off"
    /\ UNCHANGED <<plugged, messages, registered, todo, initialized, wakeFd,
                   shared, queue, excused, pipe, cb, consumer, view>>

\* usbq_init and usbq_evt_acquire; libusb lacks hotplug or the latter fails.
InitAcquire ==
    /\ owner = "acquire"
    /\ owner' \in {"register", "fail"}
    /\ UNCHANGED <<plugged, messages, registered, todo, initialized, wakeFd,
                   shared, queue, excused, pipe, cb, consumer, view>>

\* libusb_hotplug_register_callback: from here the event thread delivers to us
\* too; the devices present now are enumerated on this thread.
InitRegister ==
    /\ owner = "register"
    /\ \/ /\ registered' = TRUE
          /\ todo' = plugged
          /\ owner' = "enumerate"
       \/ /\ owner' = "undo"
          /\ UNCHANGED <<registered, todo>>
    /\ UNCHANGED <<plugged, messages, initialized, wakeFd, shared, queue,
                   excused, pipe, cb, consumer, view>>

Enumerate(d) ==
    /\ owner = "enumerate"
    /\ cb["owner"].at = "idle"
    /\ d \in todo
    /\ todo' = todo \ {d}
    /\ Called("owner", [kind |-> "arrived", dev |-> d])
    /\ UNCHANGED <<plugged, messages, registered, owner, initialized, wakeFd,
                   shared, queue, excused, pipe, consumer, view>>

InitPublish ==
    /\ owner = "enumerate"
    /\ todo = {}
    /\ cb["owner"].at = "idle"
    /\ initialized' = TRUE
    /\ owner' = "on"
    /\ UNCHANGED <<plugged, messages, registered, todo, wakeFd, shared, queue,
                   excused, pipe, cb, consumer, view>>

\* Registration failed: usbq_evt_release.
InitUndo ==
    /\ owner = "undo"
    /\ Joined(shared)
    /\ owner' = "fail"
    /\ UNCHANGED <<plugged, messages, registered, todo, initialized, wakeFd,
                   shared, queue, excused, pipe, cb, consumer, view>>

\* These failures forget the fd.
InitFail ==
    /\ owner = "fail"
    /\ wakeFd' = FALSE
    /\ owner' = "off"
    /\ UNCHANGED <<plugged, messages, registered, todo, initialized, shared,
                   queue, excused, pipe, cb, consumer, view>>

-----------------------------------------------------------------------------
(***************************************************************************)
(* dvb_hotplug_shutdown.                                                   *)
(***************************************************************************)
ShutdownBegin ==
    /\ owner = "on"
    /\ initialized' = FALSE
    /\ wakeFd' = FALSE
    /\ ResetQueue
    /\ owner' = "deregister"
    /\ UNCHANGED <<plugged, messages, registered, todo, shared, excused, pipe,
                   cb, consumer, view>>

KeepRegistered == UNCHANGED registered                            \* mutant
StopDelivery == registered' = FALSE

Deregister ==
    /\ owner = "deregister"
    /\ StopDelivery
    /\ owner' = "release"
    /\ UNCHANGED <<plugged, messages, todo, initialized, wakeFd, shared,
                   queue, excused, pipe, cb, consumer, view>>

\* usbq_evt_release, then usbq_shutdown.
ShutdownRelease ==
    /\ owner = "release"
    /\ Joined(shared)
    /\ owner' = "off"
    /\ UNCHANGED <<plugged, messages, registered, todo, initialized, wakeFd,
                   shared, queue, excused, pipe, cb, consumer, view>>

-----------------------------------------------------------------------------
(***************************************************************************)
(* The consumer: sleeps until the pipe is readable, empties the pipe, pops *)
(* until dvb_hotplug_pop returns 0 or an error, and sleeps again.  It      *)
(* starts when dvb_hotplug_init has returned and stops before shutdown.    *)
(***************************************************************************)
ConsumerRuns == owner = "on"

Wake ==
    /\ ConsumerRuns
    /\ consumer = "sleep"
    /\ pipe
    /\ pipe' = FALSE
    /\ consumer' = "pop"
    /\ UNCHANGED <<plugged, messages, registered, owner, todo, initialized,
                   wakeFd, shared, queue, excused, cb, view>>

Apply(v, ev) == IF ev.kind = "arrived" THEN v \union {ev.dev} ELSE v \ {ev.dev}

\* dvb_hotplug_pop: -EINVAL before init has returned, 0 on an empty queue.
Pop ==
    /\ ConsumerRuns
    /\ consumer = "pop"
    /\ IF ~initialized \/ queue = <<>>
       THEN consumer' = "sleep" /\ UNCHANGED <<queue, view>>
       ELSE /\ view' = Apply(view, Head(queue))
            /\ queue' = Tail(queue)
            /\ UNCHANGED consumer
    /\ UNCHANGED <<plugged, messages, registered, owner, todo, initialized,
                   wakeFd, shared, excused, pipe, cb>>

-----------------------------------------------------------------------------
Callbacks == \E c \in Contexts : Enqueue(c) \/ WriteWake(c)

OwnerStep == InitBegin \/ InitNoUsb \/ InitAcquire \/ InitRegister \/ InitPublish
             \/ InitUndo \/ InitFail
             \/ (\E d \in Devices : Enumerate(d))
             \/ ShutdownBegin \/ Deregister \/ ShutdownRelease

Next == \/ \E d \in Devices : Plug(d) \/ Unplug(d)
        \/ StreamOpen \/ StreamClose
        \/ Deliver
        \/ Callbacks
        \/ OwnerStep
        \/ Wake
        \/ Pop

Spec == Init /\ [][Next]_vars

\* The event thread runs, callbacks and calls that have begun go on, and the
\* consumer answers its pipe.
FairSpec ==
    /\ Spec
    /\ WF_vars(Deliver)
    /\ \A c \in Contexts : WF_vars(Enqueue(c) \/ WriteWake(c))
    /\ WF_vars(owner \notin {"off", "on"} /\ OwnerStep)
    /\ WF_vars(Wake)
    /\ WF_vars(Pop)

-----------------------------------------------------------------------------
\* Nothing is left to happen to the events of the past.
Settled ==
    /\ owner = "on"
    /\ messages = <<>>
    /\ \A c \in Contexts : cb[c].at = "idle"
    /\ queue = <<>>
    /\ consumer = "sleep"

\* A consumer that has drained everything knows which supported devices are
\* present: initial state and changes add up, in order, however they come.
\* Three things excuse it until the next dvb_hotplug_init: events dropped from a
\* full queue, a device that left while init had yet to report it, and a
\* callback that outlived the last shutdown because a stream kept the event
\* thread going.
ViewCoherent == Settled /\ ~excused => view = plugged \intersect Supported

\* Once dvb_hotplug_shutdown has returned, no callback still holds the caller's
\* wake fd, which the caller may have closed, unless a stream keeps the event
\* thread going; then none does once that stream is closed, too.
ShutdownStopsWrites == owner = "off" /\ ~shared => cb["evt"].at # "write"

\* Once the bus stays quiet the consumer catches up: it ends up asleep, with
\* nothing queued, and knowing the devices present (unless it is excused).
ConsumerConverges ==
    <>[](owner = "on" /\ messages = <<>>)
        => <>[](Settled /\ (excused \/ view = plugged \intersect Supported))

\* dvb_hotplug_shutdown returns although callbacks keep coming.
ShutdownReturns == owner = "deregister" ~> owner = "off"
=============================================================================
