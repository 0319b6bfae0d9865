------------------------------- MODULE Dvbsky --------------------------------
(***************************************************************************)
(* A DVBSky stick (src/bridges/dvbsky): the commands and responses on its  *)
(* two bulk endpoints (dvbsky_core.c, dvbsky_i2c.c), its stream switch     *)
(* (dvbsky_stream.c), and the engine above (dvb_dvbsky.c): bring-up, tune, *)
(* the status poll that restarts the slave FIFO on a lock edge,            *)
(* capture_stop and shutdown.                                              *)
(*                                                                         *)
(* A response carries no mark of the command it answers: the next read on  *)
(* the endpoint takes the oldest.  ctrl_lock spans one command with its    *)
(* response, or one stop/start pair.  Whether callers also hold            *)
(* handle->bridge_lock during a call is theirs to decide; both are checked.*)
(***************************************************************************)
EXTENDS Integers, Sequences, TLC

CONSTANTS MaxFaults,   \* bound: transfers that fail, responses late or lost
          None

ASSUME DvbskyAssumption ==
    MaxFaults \in Nat /\ None \notin {"tuner", "poller"}

VARIABLES
    callersLock,  \* whether callers hold bridge_lock
    answers,      \* responses waiting on the in endpoint
    late,         \* responses that will get there
    locked,       \* the demod has lock on what it was last told
    streaming,    \* the bridge pushes TS to the bulk endpoint
    fresh,        \* the FIFO was restarted since the demod got its lock
    published,    \* the device is in the registry, its handle with the caller
    captureOn,    \* fe->capture_on
    lastLock,     \* fe->last_lock
    th,           \* threads: what is left of the call, and where it is
    ctrl,         \* who holds ctrl_lock
    call,         \* who holds bridge_lock
    unseenLoss,   \* the demod lost its lock and no poll has told so yet
    stale,        \* a response was left for a command that was given up
    doubt,        \* what failed: "stream" (or was left on), "tune"
    faults

device  == <<answers, late, locked, streaming, fresh>>
engine  == <<published, captureOn, lastLock>>
history == <<unseenLoss, stale, doubt>>
vars    == <<callersLock, device, engine, th, ctrl, call, history, faults>>

-----------------------------------------------------------------------------
(***************************************************************************)
(* A call is what is left to do of it.  Each of the following is one       *)
(* command, one stream_ctrl, or one local step of the engine.              *)
(***************************************************************************)
Threads == {"tuner", "poller"}   \* the tuner thread also opens and closes

Commands == {"gpio", "demodClient", "tunerClient", "demodInit", "tunerInit",
             "demod", "tune", "sleep", "status"}
Switches == {"restart", "halt"}

\* i2c_new_client_device probes the chip.
NewClient(chip) == <<chip>>
AttachDemod  == NewClient("demodClient")
AttachTuner  == NewClient("tunerClient")
Attach       == AttachDemod \o AttachTuner
FrontendOpen == <<"pipe">> \o Attach \o <<"demodInit", "tunerInit", "stream">>
T230Bringup  == <<"gpio", "gpio", "gpio", "gpio", "gpio">>
Opening      == T230Bringup \o FrontendOpen \o <<"publish">>

TuningNoForget == <<"demod", "tune", "restart", "captureOn">>        \* mutant
Tuning   == <<"demod", "tune", "forget", "restart", "captureOn">>
Polling  == <<"status", "edge">>
Stopping == <<"halt", "captureOff">>

\* frontend_teardown; its results are ignored, so every part is done.
ClosingNoHalt == <<"captureOff", "closeStream", "sleep", "sleep", "release">> \* mutant
Closing == (IF captureOn THEN Stopping ELSE <<>>) \o
           <<"closeStream", "sleep", "sleep", "release">>

Local == {"pipe", "stream", "publish", "forget", "captureOn", "edge", "note",
          "captureOff", "closeStream", "release"}

Idle == [todo |-> <<>>, at |-> "idle", got |-> FALSE]

Answer == [to : Threads, kind : {"ack", "data"}, val : BOOLEAN]

TypeOK ==
    /\ callersLock \in BOOLEAN
    /\ answers \in Seq(Answer)
    /\ late \in Seq(Answer)
    /\ locked \in BOOLEAN /\ streaming \in BOOLEAN /\ fresh \in BOOLEAN
    /\ published \in BOOLEAN
    /\ captureOn \in BOOLEAN /\ lastLock \in BOOLEAN
    /\ \A t \in Threads :
          /\ th[t].at \in {"idle", "next", "write", "read", "stop", "start"}
          /\ th[t].got \in BOOLEAN
          /\ \A i \in DOMAIN th[t].todo :
                th[t].todo[i] \in Commands \union Switches \union Local
          /\ th[t].at = "idle" <=> th[t].todo = <<>>
    /\ ctrl \in Threads \union {None}
    /\ call \in Threads \union {None}
    /\ unseenLoss \in BOOLEAN
    /\ stale \in BOOLEAN
    /\ doubt \subseteq {"stream", "tune"}
    /\ faults \in 0..MaxFaults

\* Nothing in the bring-up stops a stream that an earlier process has left on.
Init ==
    /\ callersLock \in BOOLEAN
    /\ answers = <<>>
    /\ late = <<>>
    /\ locked = FALSE
    /\ streaming \in BOOLEAN
    /\ fresh = FALSE
    /\ published = FALSE
    /\ captureOn = FALSE
    /\ lastLock = FALSE
    /\ th = [t \in Threads |-> Idle]
    /\ ctrl = None
    /\ call = None
    /\ unseenLoss = FALSE
    /\ stale = FALSE
    /\ doubt = IF streaming THEN {"stream"} ELSE {}
    /\ faults = 0

Costs(n) == faults + n <= MaxFaults /\ faults' = faults + n

Doing(t, what) == th[t].todo # <<>> /\ Head(th[t].todo) \in what

Kind(cmd) == IF cmd = "status" THEN "data" ELSE "ack"

ContinueBusy(t, rest) == th' = [th EXCEPT ![t].todo = rest, ![t].at = "next"] \* mutant
                         /\ UNCHANGED call
\* The call goes on with [rest], or is over.
Continue(t, rest) ==
    /\ th' = [th EXCEPT ![t].todo = rest,
                        ![t].at = IF rest = <<>> THEN "idle" ELSE "next"]
    /\ call' = IF rest = <<>> /\ call = t THEN None ELSE call

Proceed(t) == Continue(t, Tail(th[t].todo))

\* What a failing step leaves to do.  The results of stream_ctrl in get_status
\* and of everything in frontend_teardown are ignored.
IsClosing(t) == \E i \in DOMAIN th[t].todo : th[t].todo[i] = "release"
Ignored(t)   == IsClosing(t) \/ (t = "poller" /\ Doing(t, Switches))

\* A failing bring-up frees the device; frontend_count is 0 then, and what the
\* frontend has made so far is left behind (as in Em28xxEngine).
Fail(t) ==
    /\ Continue(t, IF Ignored(t) THEN Tail(th[t].todo) ELSE <<>>)
    /\ doubt' = doubt \union (IF Doing(t, Switches) THEN {"stream"} ELSE {})
                     \union (IF Doing(t, {"demod", "tune"}) THEN {"tune"} ELSE {})

-----------------------------------------------------------------------------
(***************************************************************************)
(* dvbsky_bulk_rw_locked.  The bridge obeys a command when it gets it and  *)
(* answers at once, after the host has given up, or not at all.            *)
(***************************************************************************)
MayEnterAny(t) == TRUE                                               \* mutant
MayEnter(t) == ctrl = None

Enter(t) ==
    /\ th[t].at = "next"
    /\ Doing(t, Commands \union Switches)
    /\ MayEnter(t)
    /\ ctrl' = t
    /\ th' = [th EXCEPT ![t].at = IF Doing(t, Commands) THEN "write" ELSE "stop"]
    /\ UNCHANGED <<callersLock, device, engine, call, history, faults>>

Leave(t) == ctrl' = IF ctrl = t THEN None ELSE ctrl

\* What a command does to the demod.
Obey(cmd) ==
    /\ locked' = IF cmd \in {"gpio", "demod", "tune", "sleep"} THEN FALSE ELSE locked
    /\ unseenLoss' = IF cmd \in {"gpio", "demod", "tune", "sleep"} THEN FALSE
                     ELSE unseenLoss

Write(t, out, when) ==
    LET cmd    == Head(th[t].todo)
        answer == [to |-> t, kind |-> Kind(cmd), val |-> cmd = "status" /\ locked]
    IN  /\ th[t].at = "write"
        /\ out = "refused" => when = "now"
        /\ Costs((IF out = "done" THEN 0 ELSE 1) + (IF when = "now" THEN 0 ELSE 1))
        /\ stale' = (stale \/ when = "later" \/ (out = "lost" /\ when = "now"))
        /\ IF out = "refused" THEN UNCHANGED <<answers, late, locked, unseenLoss>>
           ELSE /\ Obey(cmd)
                /\ answers' = IF when = "now" THEN Append(answers, answer) ELSE answers
                /\ late' = IF when = "later" THEN Append(late, answer) ELSE late
        /\ IF out = "done"
           THEN /\ th' = [th EXCEPT ![t].at = "read"]
                /\ UNCHANGED <<ctrl, call, doubt>>
           ELSE Fail(t) /\ Leave(t)
        /\ UNCHANGED <<callersLock, streaming, fresh, engine>>

Arrive ==
    /\ late # <<>>
    /\ answers' = Append(answers, Head(late))
    /\ late' = Tail(late)
    /\ UNCHANGED <<callersLock, locked, streaming, fresh, engine, th, ctrl, call,
                   history, faults>>

\* A response shorter or longer than the one asked for is an error.
Read(t) ==
    LET first == Head(answers)
    IN  /\ th[t].at = "read"
        /\ answers # <<>>
        /\ answers' = Tail(answers)
        /\ Leave(t)
        /\ IF first.kind = Kind(Head(th[t].todo))
           THEN /\ LET rest == Tail(th[t].todo)
                   IN  /\ th' = [th EXCEPT ![t] = [todo |-> rest, got |-> first.val,
                                    at |-> IF rest = <<>> THEN "idle" ELSE "next"]]
                       /\ call' = IF rest = <<>> /\ call = t THEN None ELSE call
                /\ UNCHANGED doubt
           ELSE Fail(t)
        /\ UNCHANGED <<callersLock, late, locked, streaming, fresh, engine,
                       unseenLoss, stale, faults>>

ReadTimesOutLocked(t) ==                                             \* mutant
    /\ th[t].at = "read"
    /\ answers = <<>>
    /\ Fail(t)
    /\ UNCHANGED <<callersLock, device, engine, ctrl, unseenLoss, stale, faults>>
ReadTimesOut(t) ==
    /\ th[t].at = "read"
    /\ answers = <<>>
    /\ Leave(t)
    /\ Fail(t)
    /\ UNCHANGED <<callersLock, device, engine, unseenLoss, stale, faults>>

-----------------------------------------------------------------------------
(***************************************************************************)
(* dvbsky_stream_ctrl: two frames without a response.                      *)
(***************************************************************************)
StopFrame(t, out) ==
    /\ th[t].at = "stop"
    /\ Costs(IF out = "done" THEN 0 ELSE 1)
    /\ streaming' = (streaming /\ out = "refused")
    /\ IF out # "done" THEN Fail(t) /\ Leave(t)
       ELSE IF Doing(t, {"restart"})
       THEN /\ th' = [th EXCEPT ![t].at = "start"]
            /\ UNCHANGED <<ctrl, call, doubt>>
       ELSE /\ Proceed(t)
            /\ Leave(t)
            /\ doubt' = doubt \ {"stream"}
    /\ UNCHANGED <<callersLock, answers, late, locked, fresh, engine, unseenLoss,
                   stale>>

StartFrame(t, out) ==
    /\ th[t].at = "start"
    /\ Costs(IF out = "done" THEN 0 ELSE 1)
    /\ streaming' = (streaming \/ out # "refused")
    /\ fresh' = (fresh \/ (locked /\ out # "refused"))
    /\ Leave(t)
    /\ IF out = "done"
       THEN Proceed(t) /\ doubt' = doubt \ {"stream"}
       ELSE Fail(t)
    /\ UNCHANGED <<callersLock, answers, late, locked, engine, unseenLoss, stale>>

-----------------------------------------------------------------------------
(***************************************************************************)
(* The engine's own steps.                                                 *)
(***************************************************************************)
LocalStep(t) ==
    LET step == Head(th[t].todo)
        edge == th[t].got /\ ~lastLock /\ captureOn
    IN  /\ th[t].at = "next"
        /\ Doing(t, Local)
        /\ IF step = "edge"
           THEN Continue(t, IF edge THEN <<"restart", "note">> ELSE <<"note">>)
           ELSE Proceed(t)
        /\ published' = (step = "publish" \/ (published /\ step # "release"))
        /\ captureOn' = CASE step = "captureOn" -> TRUE
                          [] step = "captureOff" -> FALSE [] OTHER -> captureOn
        /\ lastLock' = CASE step \in {"forget", "captureOff", "publish"} -> FALSE
                         [] step = "note" -> th[t].got [] OTHER -> lastLock
        /\ unseenLoss' = (unseenLoss /\ ~(step = "note" /\ ~th[t].got))
        /\ doubt' = IF step = "captureOn" THEN doubt \ {"tune"} ELSE doubt
        /\ UNCHANGED <<callersLock, device, ctrl, stale, faults>>

\* pipe() or usbq_stream_open fails.
LocalFailure(t) ==
    /\ th[t].at = "next"
    /\ Doing(t, {"pipe", "stream"})
    /\ Costs(1)
    /\ Fail(t)
    /\ UNCHANGED <<callersLock, device, engine, ctrl, unseenLoss, stale>>

-----------------------------------------------------------------------------
(***************************************************************************)
(* Calls.  One thread tunes, stops, opens and shuts down; the other polls. *)
(* Callers have stopped before shutdown.                                   *)
(***************************************************************************)
Start(t, work) ==
    /\ th[t].at = "idle"
    /\ th' = [th EXCEPT ![t] = [todo |-> work, at |-> "next", got |-> FALSE]]
    /\ UNCHANGED <<callersLock, device, engine, ctrl, history, faults>>

Open == ~published /\ Start("tuner", Opening) /\ UNCHANGED call

Shutdown == /\ published
            /\ th["poller"].at = "idle"
            /\ Start("tuner", Closing)
            /\ UNCHANGED call

Call(t, work) ==
    /\ published
    /\ ~IsClosing("tuner")
    /\ callersLock => call = None
    /\ call' = IF callersLock THEN t ELSE call
    /\ Start(t, work)

Tune        == Call("tuner", Tuning)
GetStatus   == Call("poller", Polling)
CaptureStop == captureOn /\ Call("tuner", Stopping)

(***************************************************************************)
(* The signal.  A loss that a poll could have missed altogether is left    *)
(* out: the demod stays without lock until a poll has told so.             *)
(***************************************************************************)
GetLock ==
    /\ published
    /\ ~locked
    /\ ~unseenLoss
    /\ locked' = TRUE
    /\ fresh' = FALSE
    /\ UNCHANGED <<callersLock, answers, late, streaming, engine, th, ctrl, call,
                   history, faults>>

LoseLock ==
    /\ locked
    /\ th["poller"].at = "idle"
    /\ locked' = FALSE
    /\ unseenLoss' = lastLock
    /\ UNCHANGED <<callersLock, answers, late, streaming, fresh, engine, th, ctrl,
                   call, stale, doubt, faults>>

-----------------------------------------------------------------------------
Outcome == {"done", "refused", "lost"}

Thread(t) ==
    \/ Enter(t) \/ Read(t) \/ ReadTimesOut(t) \/ LocalStep(t) \/ LocalFailure(t)
    \/ \E out \in Outcome : StopFrame(t, out) \/ StartFrame(t, out)
    \/ \E out \in Outcome, when \in {"now", "later", "never"} : Write(t, out, when)

Next == \/ Open \/ Shutdown \/ Tune \/ GetStatus \/ CaptureStop
        \/ Arrive \/ GetLock \/ LoseLock
        \/ \E t \in Threads : Thread(t)

Spec == Init /\ [][Next]_vars /\ \A t \in Threads : SF_vars(Thread(t))

-----------------------------------------------------------------------------
(***************************************************************************)
(* As long as no response was left behind for a command that was given up, *)
(* every response is read by the command it answers, whatever the threads  *)
(* and with or without bridge_lock: ctrl_lock spans write and read         *)
(* (dvbsky_bulk_rw_locked, dvbsky_i2c_master_xfer).                        *)
(***************************************************************************)
AnswersPaired ==
    stale \/ answers = <<>> \/
    LET to == Head(answers).to
    IN  Len(answers) = 1 /\ th[to].at = "read" /\ ctrl = to
        /\ Head(answers).kind = Kind(Head(th[to].todo))

Quiet == \A t \in Threads : th[t].at = "idle"

(***************************************************************************)
(* Between calls the bridge streams exactly when capture_on is set, across *)
(* retunes, FIFO restarts by the poller and a shutdown, if callers take    *)
(* bridge_lock and the last stream_ctrl was reported done (dvbsky_v_tune,  *)
(* dvbsky_v_get_status, dvbsky_v_capture_stop, frontend_teardown).         *)
(***************************************************************************)
StreamMatchesCapture ==
    Quiet /\ callersLock /\ "stream" \notin doubt => (streaming <=> captureOn)

(***************************************************************************)
(* Once a poll has reported lock on a capturing frontend, the slave FIFO   *)
(* has been restarted on the timing of that lock, not of an earlier one or *)
(* of none (the comment in dvbsky_v_get_status), if callers take           *)
(* bridge_lock and neither tune nor restart failed.                        *)
(***************************************************************************)
LockRestartsFifo ==
    Quiet /\ callersLock /\ doubt = {} /\ ~stale
          /\ captureOn /\ lastLock /\ locked => fresh

(***************************************************************************)
(* Every call returns: a response that never comes, a lock held by the     *)
(* other thread or a failure in the middle does not keep it.               *)
(***************************************************************************)
CallsReturn == \A t \in Threads : th[t].at # "idle" ~> th[t].at = "idle"
=============================================================================
