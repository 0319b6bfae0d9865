------------------------------- MODULE Dib0700 -------------------------------
(***************************************************************************)
(* A dib0700 stick (src/bridges/dib0700): cold boot and firmware download  *)
(* (dib0700_fw.c, dib0700_core.c), the register access of its chips        *)
(* (linuxdvbkpi regmap.c over dib0700_i2c.c), its stream switch            *)
(* (dib0700_stream.c), and the engine above (dvb_dib0700.c): bring-up,     *)
(* tune with the stream restart, status poll, capture_stop, shutdown.      *)
(*                                                                         *)
(* A step is one USB transfer: done, refused, or obeyed with the answer    *)
(* lost.  ctrl_lock spans one i2c transfer with all its messages.  One     *)
(* thread tunes while another polls (dib0700_priv.h), without bridge_lock. *)
(***************************************************************************)
EXTENDS Integers, Sequences, TLC

CONSTANTS NumRecords,  \* records of the bridge firmware
          MaxFaults,   \* bound: transfers and local calls that fail
          None

ASSUME DibAssumption ==
    /\ NumRecords \in Nat \ {0} /\ MaxFaults \in Nat
    /\ None \notin {"tuner", "poller", "old", "new"} /\ None \notin Nat

VARIABLES
    running,    \* how much of the firmware runs, None while the device is cold
    reports,    \* the version it answers with: "old" is one before 1.20.1
    ram,        \* records the boot loader has taken in
    pointer,    \* the register the next i2c read of the chip returns
    mask,       \* adapters the bridge streams
    xferLen,    \* whether the bridge was told the length of its transfers
    urbs,       \* "fresh" when submitted after the last disable
    published,  \* the device is in the registry
    fwVersion,  \* dev->fw_version, None while it is 0
    channels,   \* dev->channel_state
    captureOn,  \* fe->capture_on
    th, ctrl,   \* the threads' calls; who holds ctrl_lock
    doubt,      \* what failed or was left on: "stream", "urbs"
    faults

device == <<running, reports, ram, pointer, mask, xferLen, urbs>>
engine == <<published, fwVersion, channels, captureOn>>
vars   == <<device, engine, th, ctrl, doubt, faults>>

-----------------------------------------------------------------------------
Threads == {"tuner", "poller"}   \* the tuner thread also opens and closes

\* i2c transfers, by the register they are about; a read is two messages.
Reads  == {"readId", "updateCfg", "readStatus"}
Writes == {"writeCfg"}
Reg(op) == CASE op = "readId" -> "id" [] op = "readStatus" -> "status"
             [] OTHER -> "cfg"

\* Vendor transfers under ctrl_lock.
Vendor == {"gpio", "xferLen", "enable", "disable"}
\* Transfers of the bring-up, before there is a second thread.
Boot == {"isCold", "record", "jump", "version"}
Local == {"file", "pipe", "stream", "publish", "restart", "switch", "captureOn",
          "captureOff", "closeStream", "release"}

Download == <<"file">> \o [i \in 1..NumRecords |-> "record"] \o <<"jump">>
XboxOneBringup == <<"gpio", "gpio", "gpio", "gpio", "gpio">>
\* i2c_new_client_device probes the chip: it reads the id.
NewClient    == <<"readId">>
Attach       == NewClient \o NewClient
InitChips    == <<"updateCfg", "updateCfg">>
FrontendOpen == <<"pipe">> \o Attach \o InitChips \o <<"stream">>
BringUp      == <<"version">> \o XboxOneBringup \o FrontendOpen \o <<"publish">>

TuningNoRestart == <<"updateCfg", "switch">>                         \* mutant
Tuning   == <<"updateCfg", "restart", "switch">>
Stopping == <<"disable", "captureOff">>
ClosingNoStop == <<"closeStream">> \o InitChips \o <<"release">>       \* mutant
Closing  == (IF captureOn THEN Stopping ELSE <<>>) \o
            <<"closeStream", "updateCfg", "updateCfg", "release">>

Idle == [todo |-> <<>>, at |-> "idle"]

TypeOK ==
    /\ running \in 0..NumRecords \union {None}
    /\ reports \in {None, "old", "new"}
    /\ ram \in 0..NumRecords
    /\ pointer \in {"id", "cfg", "status"}
    /\ mask \in SUBSET {0}
    /\ xferLen \in BOOLEAN
    /\ urbs \in {"none", "fresh", "old"}
    /\ published \in BOOLEAN /\ captureOn \in BOOLEAN
    /\ fwVersion \in {None, "old", "new"}
    /\ channels \in SUBSET {0}
    /\ \A t \in Threads :
          /\ th[t].at \in {"idle", "next", "first", "second", "vendor"}
          /\ \A i \in DOMAIN th[t].todo :
                th[t].todo[i] \in Reads \union Writes \union Vendor \union Boot
                                  \union Local
          /\ th[t].at = "idle" <=> th[t].todo = <<>>
    /\ ctrl \in Threads \union {None}
    /\ doubt \subseteq {"stream", "urbs"}
    /\ faults \in 0..MaxFaults

Init ==
    /\ running = None
    /\ reports = None
    /\ ram = 0
    /\ pointer = "id"
    /\ mask = {}
    /\ xferLen = FALSE
    /\ urbs = "none"
    /\ published = FALSE
    /\ fwVersion = None
    /\ channels = {}
    /\ captureOn = FALSE
    /\ th = [t \in Threads |-> Idle]
    /\ ctrl = None
    /\ doubt = {}
    /\ faults = 0

Outcome == {"done", "refused", "lost"}

Costs(out) == IF out = "done" THEN UNCHANGED faults
              ELSE faults < MaxFaults /\ faults' = faults + 1

Obeyed(out) == out # "refused"

Doing(t, what) == th[t].todo # <<>> /\ Head(th[t].todo) \in what

Continue(t, rest) ==
    th' = [th EXCEPT ![t] = [todo |-> rest,
                             at |-> IF rest = <<>> THEN "idle" ELSE "next"]]

Proceed(t) == Continue(t, Tail(th[t].todo))

\* The results of everything in frontend_teardown are ignored, and so are those
\* of get_firmware_version and of usbq_stream_restart.
IsClosing(t) == \E i \in DOMAIN th[t].todo : th[t].todo[i] = "release"
Ignored(t)   == IsClosing(t) \/ Doing(t, {"version", "restart"})

\* Anything else that fails ends the call.  A failing bring-up frees the device
\* and leaves behind what its frontend has made (as in Em28xxEngine).
Fail(t) == Continue(t, IF Ignored(t) THEN Tail(th[t].todo) ELSE <<>>)

Leave(t) == ctrl' = IF ctrl = t THEN None ELSE ctrl

-----------------------------------------------------------------------------
(***************************************************************************)
(* Bring-up: open_device_from_usb.                                         *)
(***************************************************************************)
\* GET_VERSION; a device that does not answer it counts as cold.
IsCold(t, out) ==
    /\ Doing(t, {"isCold"})
    /\ Costs(out)
    /\ Continue(t, IF out = "done" /\ running # None THEN BringUp
                   ELSE Download \o BringUp)
    /\ UNCHANGED <<device, engine, ctrl, doubt>>

\* dib0700_download_firmware: one record, in order; any failure ends it.  The
\* boot loader takes the first record as the start of a new image; a running
\* firmware is not touched by records.
AfterRecordAlways(t, out) == Proceed(t)                              \* mutant
AfterRecord(t, out) == IF out = "done" THEN Proceed(t) ELSE Fail(t)

Record(t, out) ==
    LET todo  == th[t].todo
        first == \A i \in 1..NumRecords : i \in DOMAIN todo /\ todo[i] = "record"
    IN  /\ Doing(t, {"record"})
        /\ Costs(out)
        /\ ram' = IF running # None \/ ~Obeyed(out) THEN ram
                  ELSE IF first THEN 1 ELSE ram + 1
        /\ AfterRecord(t, out)
        /\ UNCHANGED <<running, reports, pointer, mask, xferLen, urbs, engine,
                       ctrl, doubt>>

\* dib0700_jumpram: a cold device runs what it was given, whatever version of
\* the firmware that file holds.
Jump(t, out) ==
    /\ Doing(t, {"jump"})
    /\ Costs(out)
    /\ IF running = None /\ Obeyed(out)
       THEN running' = ram /\ reports' \in {"old", "new"}
       ELSE UNCHANGED <<running, reports>>
    /\ IF out = "done" THEN Proceed(t) ELSE Fail(t)
    /\ UNCHANGED <<ram, pointer, mask, xferLen, urbs, engine, ctrl, doubt>>

\* dib0700_get_firmware_version leaves the version it has alone on failure.
Version(t, out) ==
    /\ Doing(t, {"version"})
    /\ Costs(out)
    /\ fwVersion' = IF out = "done" THEN reports ELSE fwVersion
    /\ Proceed(t)
    /\ UNCHANGED <<device, published, channels, captureOn, ctrl, doubt>>

-----------------------------------------------------------------------------
(***************************************************************************)
(* dib0700_i2c_master_xfer below regmap_read, regmap_write and             *)
(* regmap_update_bits, which writes only when the value changes.           *)
(***************************************************************************)
LocksNothing(t)  == TRUE                                             \* mutant
LocksTransfer(t) == ctrl = None

Enter(t) ==
    /\ th[t].at = "next"
    /\ Doing(t, Reads \union Writes \union Vendor)
    /\ LocksTransfer(t)
    /\ ctrl' = t
    /\ th' = [th EXCEPT ![t].at = IF Doing(t, Vendor) THEN "vendor" ELSE "first"]
    /\ UNCHANGED <<device, engine, doubt, faults>>

\* A message out: the register, and for a write its value.
FirstMessage(t, out) ==
    /\ th[t].at = "first"
    /\ Costs(out)
    /\ pointer' = IF Obeyed(out) THEN Reg(Head(th[t].todo)) ELSE pointer
    /\ IF out # "done" THEN Fail(t) /\ Leave(t)
       ELSE IF Doing(t, Reads) THEN /\ th' = [th EXCEPT ![t].at = "second"]
                                    /\ UNCHANGED ctrl
       ELSE Proceed(t) /\ Leave(t)
    /\ UNCHANGED <<running, reports, ram, mask, xferLen, urbs, engine, doubt>>

\* A message in.
SecondMessage(t, out, equal) ==
    /\ th[t].at = "second"
    /\ Costs(out)
    /\ Leave(t)
    /\ IF out # "done" THEN Fail(t)
       ELSE IF Doing(t, {"updateCfg"}) /\ ~equal
       THEN Continue(t, <<"writeCfg">> \o Tail(th[t].todo))
       ELSE Proceed(t)
    /\ UNCHANGED <<device, engine, doubt>>

-----------------------------------------------------------------------------
(***************************************************************************)
(* dib0700_set_gpio, set_usb_xfer_len, dib0700_streaming_ctrl.  The last   *)
(* keeps channel_state as it changed it when the transfer fails.           *)
(***************************************************************************)
Wanted(op) == CASE op = "enable" -> channels \union {0}
                [] op = "disable" -> channels \ {0} [] OTHER -> channels

VendorWrite(t, out) ==
    LET op == Head(th[t].todo)
    IN  /\ th[t].at = "vendor"
        /\ Costs(out)
        /\ channels' = Wanted(op)
        /\ mask' = IF op \in {"enable", "disable"} /\ Obeyed(out) THEN Wanted(op)
                   ELSE mask
        /\ xferLen' = (xferLen \/ (op = "xferLen" /\ Obeyed(out)))
        /\ urbs' = IF op = "disable" /\ Obeyed(out) /\ urbs # "none" THEN "old"
                   ELSE urbs
        /\ doubt' = IF op \notin {"enable", "disable"} THEN doubt
                    ELSE IF out = "done" THEN doubt \ {"stream"}
                    ELSE doubt \union {"stream"}
        /\ IF out = "done" THEN Proceed(t) ELSE Fail(t)
        /\ Leave(t)
        /\ UNCHANGED <<running, reports, ram, pointer, published, fwVersion,
                       captureOn>>

-----------------------------------------------------------------------------
(***************************************************************************)
(* The engine's own steps, and the calls into usbq.                        *)
(***************************************************************************)
SwitchNoLen == IF captureOn THEN <<>> ELSE <<"enable", "captureOn">> \* mutant

\* set_usb_xfer_len returns at once on a version below 1.20.1, an unread 0
\* included.
Switch == IF captureOn THEN <<>>
          ELSE (IF fwVersion = "new" THEN <<"xferLen">> ELSE <<>>) \o
               <<"enable", "captureOn">>

LocalStep(t) ==
    LET step == Head(th[t].todo)
    IN  /\ th[t].at = "next"
        /\ Doing(t, Local)
        /\ Continue(t, (IF step = "switch" THEN Switch ELSE <<>>) \o Tail(th[t].todo))
        /\ urbs' = CASE step \in {"stream", "restart"} -> "fresh"
                     [] step = "closeStream" -> "none" [] OTHER -> urbs
        /\ doubt' = IF step \in {"stream", "restart"} THEN doubt \ {"urbs"} ELSE doubt
        /\ published' = (step = "publish" \/ (published /\ step # "release"))
        /\ captureOn' = CASE step = "captureOn" -> TRUE
                          [] step = "captureOff" -> FALSE [] OTHER -> captureOn
        /\ UNCHANGED <<running, reports, ram, pointer, mask, xferLen, fwVersion,
                       channels, ctrl, faults>>

\* No firmware file or a broken one, no pipe, a stream that does not open or
\* does not restart.
LocalFailure(t) ==
    /\ th[t].at = "next"
    /\ Doing(t, {"file", "pipe", "stream", "restart"})
    /\ Costs("refused")
    /\ Fail(t)
    /\ doubt' = IF Doing(t, {"restart"}) THEN doubt \union {"urbs"} ELSE doubt
    /\ UNCHANGED <<device, engine, ctrl>>

-----------------------------------------------------------------------------
(***************************************************************************)
(* Calls, and the life of the process and of the device around them.       *)
(***************************************************************************)
Call(t, work) ==
    /\ th[t].at = "idle"
    /\ th' = [th EXCEPT ![t] = [todo |-> work, at |-> "next"]]
    /\ UNCHANGED <<device, ctrl, doubt, faults>>

\* dib0700_open allocates a handle that knows nothing of the device yet.
Open == /\ ~published
        /\ Call("tuner", <<"isCold">>)
        /\ fwVersion' = None
        /\ channels' = {}
        /\ captureOn' = FALSE
        /\ UNCHANGED published

Use(t, work) == published /\ ~IsClosing("tuner") /\ Call(t, work) /\ UNCHANGED engine

Tune        == Use("tuner", Tuning)
GetStatus   == Use("poller", <<"readStatus">>)
CaptureStop == captureOn /\ Use("tuner", Stopping)
Shutdown    == th["poller"].at = "idle" /\ Use("tuner", Closing)

\* The process ends anywhere; the device stays as it is.
EndProcess ==
    /\ \E t \in Threads : th[t].at # "idle"
    /\ th' = [t \in Threads |-> Idle]
    /\ ctrl' = None
    /\ published' = FALSE
    /\ urbs' = "none"
    /\ captureOn' = FALSE
    /\ doubt' = IF mask # {} THEN {"stream"} ELSE {}
    /\ UNCHANGED <<running, reports, ram, pointer, mask, xferLen, fwVersion,
                   channels, faults>>

\* Pulled out and put back while nobody has it open.
PowerCycle ==
    /\ ~published
    /\ th["tuner"].at = "idle"
    /\ running # None
    /\ running' = None
    /\ reports' = None
    /\ ram' = 0
    /\ mask' = {}
    /\ xferLen' = FALSE
    /\ doubt' = {}
    /\ UNCHANGED <<pointer, urbs, engine, th, ctrl, faults>>

Thread(t) ==
    \/ Enter(t) \/ LocalStep(t) \/ LocalFailure(t)
    \/ \E out \in Outcome :
         \/ IsCold(t, out) \/ Record(t, out) \/ Jump(t, out) \/ Version(t, out)
         \/ FirstMessage(t, out) \/ VendorWrite(t, out)
         \/ \E equal \in BOOLEAN : SecondMessage(t, out, equal)

Next == \/ Open \/ Tune \/ GetStatus \/ CaptureStop \/ Shutdown
        \/ EndProcess \/ PowerCycle
        \/ \E t \in Threads : Thread(t)

Spec == Init /\ [][Next]_vars

-----------------------------------------------------------------------------
(***************************************************************************)
(* The bridge runs the whole firmware or none: whatever transfer of the    *)
(* download fails and however often the bring-up is tried again, the jump  *)
(* is sent only after every record was taken (dib0700_download_firmware).  *)
(***************************************************************************)
WholeFirmwareRuns == running \in {None, NumRecords}

(***************************************************************************)
(* A register read returns the register it asked for, although the chip    *)
(* has one register pointer for both threads and the read is a message out *)
(* and a message in (regmap_read over dib0700_i2c_master_xfer).            *)
(***************************************************************************)
ReadsItsRegister ==
    \A t \in Threads : th[t].at = "second" => pointer = Reg(Head(th[t].todo))

(***************************************************************************)
(* Between calls the bridge streams exactly what channel_state says, and   *)
(* that is whether capture_on is set, unless the last transfer of          *)
(* streaming_ctrl was reported as failed or an earlier process left the    *)
(* stream on (dib0700_streaming_ctrl, dib_v_tune, dib_v_capture_stop).     *)
(***************************************************************************)
StreamMatchesCapture ==
    (\A t \in Threads : th[t].at = "idle") /\ "stream" \notin doubt =>
        /\ mask # {} <=> captureOn
        /\ published => mask = channels

(***************************************************************************)
(* The endpoint is never switched on over URBs that were submitted before  *)
(* it was last switched off (the comment in dib_v_tune), unless the        *)
(* restart of the URBs failed.                                             *)
(***************************************************************************)
EnabledOnFreshUrbs ==
    mask # {} /\ "urbs" \notin doubt => urbs # "old"

(***************************************************************************)
(* During a capture the bridge has been told the length of its transfers   *)
(* exactly if its firmware is one that takes it: the request goes ahead of *)
(* every stream of 1.20.1 or later and never to an older firmware.  Not so *)
(* on a device whose version could not be read at bring-up, which is never *)
(* sent the request (set_usb_xfer_len).                                    *)
(***************************************************************************)
LengthBeforeStream ==
    captureOn /\ fwVersion # None => (xferLen <=> reports = "new")
=============================================================================
