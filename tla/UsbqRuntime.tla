----------------------------- MODULE UsbqRuntime ----------------------------
(***************************************************************************)
(* The two process-wide singletons of src/usbq/src/usbq.c and the callers  *)
(* that share them: the libusb context, counted by usbq_init and           *)
(* usbq_shutdown, and the event thread, counted by usbq_evt_acquire and    *)
(* usbq_evt_release.  A user is an engine with its streams, or the hotplug *)
(* module: it initialises usbq, opens devices, takes and drops the event   *)
(* thread, and shuts usbq down.  pthread_create, pthread_join and libusb's *)
(* event handling are external.                                            *)
(***************************************************************************)
EXTENDS Integers, FiniteSets

CONSTANTS Users,      \* engines and the hotplug module
          Threads,    \* identities pthread_create can hand out
          MaxOpens,   \* bound: devices a user opens, over all its lifetimes
          Overlap     \* users call acquire and release from threads of their own

ASSUME RuntimeAssumption ==
    /\ IsFiniteSet(Users) /\ Users # {}
    /\ IsFiniteSet(Threads) /\ Threads # {}
    /\ MaxOpens \in Nat
    /\ Overlap \in BOOLEAN

VARIABLES
    ctx,       \* g_ctx # NULL
    initRefs,  \* g_init_refcount
    refs,      \* g_evt.refcount
    alive,     \* g_evt.alive
    stop,      \* g_evt.stop
    tid,       \* g_evt.tid
    thread,    \* where each event thread is
    at,        \* where each user is
    joins,     \* the thread each releasing user waits for
    opens      \* devices each user has opened so far

vars == <<ctx, initRefs, refs, alive, stop, tid, thread, at, joins, opens>>

ThreadSteps == {"none", "test", "poll", "exited"}
UserSteps   == {"down", "up", "holding", "join", "joining", "relock", "stuck"}

TypeOK ==
    /\ ctx \in BOOLEAN
    /\ initRefs \in Nat
    /\ refs \in 0..Cardinality(Users)
    /\ alive \in BOOLEAN
    /\ stop \in BOOLEAN
    /\ tid \in Threads
    /\ thread \in [Threads -> ThreadSteps]
    /\ at \in [Users -> UserSteps]
    /\ joins \in [Users -> Threads]
    /\ opens \in [Users -> 0..MaxOpens]

Init ==
    /\ ctx = FALSE
    /\ initRefs = 0
    /\ refs = 0
    /\ alive = FALSE
    /\ stop = FALSE
    /\ tid \in Threads
    /\ thread = [t \in Threads |-> "none"]
    /\ at = [u \in Users |-> "down"]
    /\ joins = [u \in Users |-> tid]
    /\ opens = [u \in Users |-> 0]

Releasing(u) == at[u] \in {"join", "joining", "relock", "stuck"}

\* Calls into the event thread's counter follow one another, or not.
EvtCallAllowed == Overlap \/ \A u \in Users : ~Releasing(u)

Goes(u, step) == at' = [at EXCEPT ![u] = step]

-----------------------------------------------------------------------------
(***************************************************************************)
(* The context.                                                            *)
(***************************************************************************)
\* usbq_init: the first call makes the context, every call counts.
UsbqInit == ctx' = TRUE /\ initRefs' = initRefs + 1

\* usbq_shutdown: the last call exits the context.
AnyCall == TRUE                                                   \* mutant
LastCall == initRefs = 1

UsbqShutdown ==
    IF initRefs = 0 THEN UNCHANGED <<ctx, initRefs>>
    ELSE /\ initRefs' = initRefs - 1
         /\ ctx' = (ctx /\ ~LastCall)

Start(u) ==
    /\ at[u] = "down"
    /\ UsbqInit
    /\ Goes(u, "up")
    /\ UNCHANGED <<refs, alive, stop, tid, thread, joins, opens>>

\* usbq_open, usbq_open_by_addr and usbq_enumerate call usbq_init again.
OpenDevice(u) ==
    /\ at[u] = "up"
    /\ opens[u] < MaxOpens
    /\ UsbqInit
    /\ opens' = [opens EXCEPT ![u] = @ + 1]
    /\ UNCHANGED <<refs, alive, stop, tid, thread, at, joins>>

\* The engine closes its devices and calls usbq_shutdown once.
Shutdown(u) ==
    /\ at[u] = "up"
    /\ UsbqShutdown
    /\ Goes(u, "down")
    /\ UNCHANGED <<refs, alive, stop, tid, thread, joins, opens>>

-----------------------------------------------------------------------------
(***************************************************************************)
(* The event thread's counter.                                             *)
(***************************************************************************)
AlwaysFirst == TRUE                                               \* mutant
FirstUser == refs = 0

ClearStop == stop' = FALSE

\* usbq_evt_acquire, all of it under g_evt.mu.
Acquire(u) ==
    /\ at[u] = "up"
    /\ EvtCallAllowed
    /\ IF FirstUser
       THEN /\ ClearStop
            /\ \/ \E t \in Threads :
                     /\ thread[t] = "none"
                     /\ thread' = [thread EXCEPT ![t] = "test"]
                     /\ tid' = t
                     /\ alive' = TRUE
                     /\ refs' = refs + 1
                     /\ Goes(u, "holding")
               \/ refs' = 0 /\ UNCHANGED <<alive, tid, thread, at>>
       ELSE /\ refs' = refs + 1
            /\ Goes(u, "holding")
            /\ UNCHANGED <<alive, stop, tid, thread>>
    /\ UNCHANGED <<ctx, initRefs, joins, opens>>

LeaveRunning == UNCHANGED stop                                    \* mutant
AskToStop == stop' = TRUE

AfterLastRelease == "join"

Released == IF refs > 0 THEN refs - 1 ELSE 0

\* usbq_evt_release up to its unlock.
Release(u) ==
    /\ at[u] = "holding"
    /\ EvtCallAllowed
    /\ refs' = Released
    /\ IF refs = 1 /\ alive
       THEN AskToStop /\ Goes(u, AfterLastRelease)
       ELSE Goes(u, "up") /\ UNCHANGED stop
    /\ UNCHANGED <<ctx, initRefs, alive, tid, thread, joins, opens>>

\* pthread_join(g_evt.tid) reads the field after the unlock.  Joining a thread
\* that is gone or that another caller joins is undefined.
CallJoin(u) ==
    /\ at[u] = "join"
    /\ joins' = [joins EXCEPT ![u] = tid]
    /\ Goes(u, IF \/ thread[tid] = "none"
                  \/ \E v \in Users \ {u} : at[v] = "joining" /\ joins[v] = tid
               THEN "stuck" ELSE "joining")
    /\ UNCHANGED <<ctx, initRefs, refs, alive, stop, tid, thread, opens>>

Joined(u) ==
    /\ at[u] = "joining"
    /\ thread[joins[u]] = "exited"
    /\ thread' = [thread EXCEPT ![joins[u]] = "none"]
    /\ Goes(u, "relock")
    /\ UNCHANGED <<ctx, initRefs, refs, alive, stop, tid, joins, opens>>

Relock(u) ==
    /\ at[u] = "relock"
    /\ alive' = FALSE
    /\ Goes(u, "up")
    /\ UNCHANGED <<ctx, initRefs, refs, stop, tid, thread, joins, opens>>

\* evt_thread_main: tests the flag, then handles events for up to 100 ms.
TestStop(t) ==
    /\ thread[t] = "test"
    /\ thread' = [thread EXCEPT ![t] = IF stop THEN "exited" ELSE "poll"]
    /\ UNCHANGED <<ctx, initRefs, refs, alive, stop, tid, at, joins, opens>>

Poll(t) ==
    /\ thread[t] = "poll"
    /\ thread' = [thread EXCEPT ![t] = "test"]
    /\ UNCHANGED <<ctx, initRefs, refs, alive, stop, tid, at, joins, opens>>

-----------------------------------------------------------------------------
InRelease(u) == CallJoin(u) \/ Joined(u) \/ Relock(u)

Next ==
    \/ \E u \in Users : Start(u) \/ OpenDevice(u) \/ Shutdown(u) \/ Acquire(u)
                        \/ Release(u) \/ InRelease(u)
    \/ \E t \in Threads : TestStop(t) \/ Poll(t)

Spec == Init /\ [][Next]_vars

\* The event threads are scheduled, handling events returns within its timeout,
\* and a user inside usbq_evt_release goes on.
FairSpec ==
    /\ Spec
    /\ \A t \in Threads : WF_vars(TestStop(t) \/ Poll(t))
    /\ \A u \in Users : WF_vars(InRelease(u))

-----------------------------------------------------------------------------
Live == {t \in Threads : thread[t] \in {"test", "poll"}}

\* The event thread is a singleton (usbq.c's head comment), and whoever holds it
\* has one: the thread usbq_evt_release will join, which nobody asked to stop.
Singleton ==
    /\ Cardinality(Live) <= 1
    /\ (\E u \in Users : at[u] = "holding") => Live = {tid} /\ alive /\ ~stop

\* The context exists while anybody needs it: a user between its usbq_init and its
\* usbq_shutdown, however often others shut down, and the thread that polls it,
\* which the last release therefore does not leave behind.
ContextInUse == (\E u \in Users : at[u] # "down") \/ Live # {} => ctx

\* usbq_evt_release returns: the thread it joins sees the flag.
ReleaseReturns == \A u \in Users : Releasing(u) ~> ~Releasing(u)
=============================================================================
