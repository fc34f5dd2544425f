---------------------------- MODULE BulkSrcSink ----------------------------
(***************************************************************************)
(* The bulk source/sink application of the FX3 firmware                    *)
(* (cyfxbulksrcsink.c): the driver's USB thread, in which the set-up and   *)
(* event callbacks run, the DMA thread, in which the buffer callback runs, *)
(* and the application thread with its 10 ms loop.  They share the flags,  *)
(* two DMA channels, one slot for a vendor request and an event group, and *)
(* take no lock.                                                           *)
(*                                                                         *)
(* A connection is SuperSpeed when link is not "none".  Data, time and the *)
(* event log are left out; the sink channel is only there or not there,    *)
(* the source channel has its count of committed buffers.  A definition    *)
(* marked "mutant" is a faulty variant that no action uses.                *)
(***************************************************************************)
EXTENDS Naturals, FiniteSets

CONSTANTS BufCount,         \* CY_FX_BULKSRCSINK_DMA_BUF_COUNT
          Requests,         \* vendor requests the host sends
          HostEvents,       \* what else the host does
          NoRenum,          \* CyU3PUsbStart found a live USB connection
          Refusals,         \* calls the library may refuse
          CallbackDrained   \* the library lets a callback end before it
                            \* resets or destroys its channel

AllRequests == {"data", "wake", "standby", "switch", "boot", "reset"}
AllHostEvents == {"SETCONF", "RESET", "HALT", "SUSPEND", "RETRY", "LPM",
                  "VBUS_OFF", "VBUS_BACK"}
AllRefusals == {"speed", "epConfig", "channel", "xfer", "standby"}

ASSUME BulkAssumption ==
  /\ BufCount \in Nat \ {0}
  /\ Requests \subseteq AllRequests
  /\ HostEvents \subseteq AllHostEvents
  /\ NoRenum \in BOOLEAN
  /\ Refusals \subseteq AllRefusals
  /\ CallbackDrained \in BOOLEAN

VARIABLES
  active,      \* glIsApplnActive
  started,     \* glDataTransStarted
  force,       \* glForceLinkU2
  flush,       \* glSrcEpFlush
  enable,      \* StandbyModeEnable
  trigger,     \* TriggerStandbyMode
  slot,        \* gl_setupdat0, gl_setupdat1
  events,      \* glBulkLpEvent
  todo,        \* eventStat
  chans,       \* DMA channels that exist
  eps,         \* endpoints that are enabled
  full,        \* buffers of the source channel that wait for the host
  evts,        \* consume events the DMA thread has not taken yet
  dma,         \* where the DMA thread is in the callback
  ep0,         \* the vendor request the host waits for, or "none"
  lost,        \* history: the host once gave up a request it waited for
  link,        \* "U0", "Lp" (U1 or U2), or "none" below SuperSpeed
  vbus, connected,
  broken,      \* the IN endpoint met a retry and moves no data
  stalled,     \* the IN endpoint is stalled
  pc, ret, k   \* per thread: next step, return label, buffers filled

flags == <<active, started, force, flush>>
power == <<enable, trigger, vbus, connected>>
ctrl  == <<slot, events, todo, ep0, lost>>
chan  == <<chans, eps, full, evts, dma>>
pipe  == <<link, broken, stalled>>
calls == <<pc, ret, k>>
vars  == <<flags, power, ctrl, chan, pipe, calls>>

Threads == {"usb", "app"}
Endpoints == {"producer", "consumer"}
StopSteps  == {"stop", "stopSink", "stopSrc", "stopProducer", "stopConsumer"}
XferSteps  == {"xferSink", "xferSrc"}
FillSteps  == {"fillGet", "fillCommit"}
StartSteps == {"start", "startConsumer", "startSink", "startSrc", "activate"} \cup XferSteps
UsbSteps == {"idle", "signal", "quiesce", "resetSrc"}
AppSteps == {"wait", "wake", "handle", "setWake", "disconnect", "connect", "jump",
             "devreset", "flush", "stall", "link", "u2", "u0", "standby",
             "enter", "asleep", "gone"}
Steps == StopSteps \cup FillSteps \cup StartSteps \cup UsbSteps \cup AppSteps
           \cup {"dead", "refused", "awake"}

FlagTypes ==
  /\ active \in BOOLEAN /\ started \in BOOLEAN /\ force \in BOOLEAN /\ flush \in BOOLEAN
  /\ enable \in BOOLEAN /\ trigger \in BOOLEAN /\ vbus \in BOOLEAN /\ connected \in BOOLEAN
  /\ lost \in BOOLEAN /\ broken \in BOOLEAN /\ stalled \in BOOLEAN

DataTypes ==
  /\ slot \in Requests \cup {"none"} /\ ep0 \in Requests \cup {"none"}
  /\ events \subseteq {"ctrl", "wake"} /\ todo \subseteq {"ctrl", "wake"}
  /\ chans \subseteq {"sink", "src"} /\ eps \subseteq Endpoints
  /\ full \in 0..BufCount /\ evts \in 0..BufCount
  /\ dma \in {"idle", "get", "commit"}
  /\ link \in {"U0", "Lp", "none"}
  /\ pc \in [Threads -> Steps] /\ ret \in [Threads -> Steps]
  /\ k \in [Threads -> 0..BufCount]

\* The variables have their types; no counter leaves 0..BUF_COUNT.
TypeOK == FlagTypes /\ DataTypes

(* CyFxBulkSrcSinkApplnInit: with a live connection the application thread *)
(* starts the application itself, otherwise it waits for the host.         *)
Boot == [usb |-> "idle", app |-> IF NoRenum THEN "start" ELSE "wait"]
BootLink == IF NoRenum THEN {"U0", "none"} ELSE {"none"}

Init ==
  /\ active = FALSE /\ started = FALSE /\ force = FALSE /\ flush = FALSE
  /\ enable = FALSE /\ trigger = FALSE /\ vbus = TRUE /\ connected = TRUE
  /\ slot = "none" /\ ep0 = "none" /\ lost = FALSE /\ events = {} /\ todo = {}
  /\ chans = {} /\ eps = {} /\ full = 0 /\ evts = 0 /\ dma = "idle"
  /\ link \in BootLink /\ broken = FALSE /\ stalled = FALSE
  /\ pc = Boot
  /\ ret = [t \in Threads |-> "idle"]
  /\ k = [t \in Threads |-> 0]

Goto(t, step) == pc' = [pc EXCEPT ![t] = step]
Running == pc["app"] \notin {"asleep", "gone"}
At(t, step) == Running /\ pc[t] = step
UsbOff == pc["app"] \in {"enter", "awake"}    \* after CyU3PUsbStop
UsbIdle == Running /\ ~UsbOff /\ pc["usb"] = "idle"
Drained == CallbackDrained => dma = "idle"
(* The connection is gone, and with it the request the host waits for.    *)
GivenUp == ep0' = "none" /\ lost' = (lost \/ ep0 # "none")
Home(t) == IF t = "usb" THEN "idle" ELSE "wait"

-----------------------------------------------------------------------------
(***************************************************************************)
(* Starting and stopping, in whichever thread does it.                     *)
(***************************************************************************)
\* CyFxBulkSrcSinkApplnStop: the flag, the channels, the endpoints.
StopFlag(t) ==
  /\ At(t, "stop")
  /\ active' = FALSE
  /\ Goto(t, "stopSink")
  /\ UNCHANGED <<started, force, flush, power, ctrl, chan, pipe, ret, k>>
\* mutant: the sink channel is forgotten.
StopKeepsSink(t) ==
  /\ At(t, "stopSink")
  /\ Goto(t, "stopSrc")
  /\ UNCHANGED <<flags, power, ctrl, chan, pipe, ret, k>>

StopSink(t) ==
  /\ At(t, "stopSink")
  /\ chans' = chans \ {"sink"}
  /\ Goto(t, "stopSrc")
  /\ UNCHANGED <<flags, power, ctrl, eps, full, evts, dma, pipe, ret, k>>

StopSrc(t) ==
  /\ At(t, "stopSrc")
  /\ Drained
  /\ chans' = chans \ {"src"}
  /\ full' = 0 /\ evts' = 0
  /\ Goto(t, "stopProducer")
  /\ UNCHANGED <<flags, power, ctrl, eps, dma, pipe, ret, k>>

StopProducer(t) ==
  /\ At(t, "stopProducer")
  /\ eps' = eps \ {"producer"}
  /\ Goto(t, "stopConsumer")
  /\ UNCHANGED <<flags, power, ctrl, chans, full, evts, dma, pipe, ret, k>>

StopConsumer(t) ==
  /\ At(t, "stopConsumer")
  /\ eps' = eps \ {"consumer"}
  /\ broken' = FALSE /\ stalled' = FALSE
  /\ Goto(t, ret[t])
  /\ UNCHANGED <<flags, power, ctrl, chans, full, evts, dma, link, ret, k>>

\* CyFxAppErrorHandler: the thread sleeps for ever.  It is "dead" if the
\* application has asked for what cannot be, "refused" if the library did not
\* do what it could, and "awake" if the device did not stay in standby.
AppError(t) ==
  /\ Goto(t, "dead")
  /\ UNCHANGED <<chans, full, ret, k>>

\* The speed is unknown, or CyU3PSetEpConfig, CyU3PDmaChannelCreate or
\* CyU3PDmaChannelSetXfer returns an error.
Refused(t) ==
  /\ \/ "speed" \in Refusals /\ At(t, "start")
     \/ /\ "epConfig" \in Refusals
        /\ \E here \in {"start", "startConsumer", "stopProducer", "stopConsumer"} : At(t, here)
     \/ "channel" \in Refusals /\ (At(t, "startSink") \/ At(t, "startSrc"))
     \/ "xfer" \in Refusals /\ (At(t, "xferSink") \/ At(t, "xferSrc"))
  /\ Goto(t, "refused")
  /\ UNCHANGED <<flags, power, ctrl, chan, pipe, ret, k>>

\* CyFxBulkSrcSinkApplnStart: the endpoints, the channels, their transfers, the
\* buffers, the flag.  A channel that exists cannot be created.
StartProducer(t) ==
  /\ At(t, "start")
  /\ eps' = eps \cup {"producer"}
  /\ Goto(t, "startConsumer")
  /\ UNCHANGED <<flags, power, ctrl, chans, full, evts, dma, pipe, ret, k>>

StartConsumer(t) ==
  /\ At(t, "startConsumer")
  /\ eps' = eps \cup {"consumer"}
  /\ Goto(t, "startSink")
  /\ UNCHANGED <<flags, power, ctrl, chans, full, evts, dma, pipe, ret, k>>

StartSink(t) ==
  /\ At(t, "startSink")
  /\ \/ /\ "sink" \in chans
        /\ AppError(t)
     \/ /\ "sink" \notin chans
        /\ chans' = chans \cup {"sink"}
        /\ Goto(t, "startSrc")
        /\ UNCHANGED <<full, ret, k>>
  /\ UNCHANGED <<flags, power, ctrl, eps, evts, dma, pipe>>

StartSrc(t) ==
  /\ At(t, "startSrc")
  /\ \/ /\ "src" \in chans
        /\ AppError(t)
     \/ /\ "src" \notin chans
        /\ chans' = chans \cup {"src"}
        /\ k' = [k EXCEPT ![t] = 0]
        /\ Goto(t, "xferSink")
        /\ UNCHANGED <<full, ret>>
  /\ UNCHANGED <<flags, power, ctrl, eps, evts, dma, pipe>>

XferSink(t) ==
  /\ At(t, "xferSink")
  /\ Goto(t, "xferSrc")
  /\ UNCHANGED <<flags, power, ctrl, chan, pipe, ret, k>>

XferSrc(t) ==
  /\ At(t, "xferSrc")
  /\ ret' = [ret EXCEPT ![t] = "activate"]
  /\ Goto(t, "fillGet")
  /\ UNCHANGED <<flags, power, ctrl, chan, pipe, k>>

\* A buffer of the source channel is free for the CPU.
BufferFree == "src" \in chans /\ full < BufCount

\* CyFxBulkSrcSinkFillInBuffers: get and commit every buffer.
FillGet(t) ==
  /\ At(t, "fillGet")
  /\ \/ /\ ~BufferFree
        /\ AppError(t)
     \/ /\ BufferFree
        /\ Goto(t, "fillCommit")
        /\ UNCHANGED <<chans, full, ret, k>>
  /\ UNCHANGED <<flags, power, ctrl, eps, evts, dma, pipe>>

FillAgain(n) == n < BufCount
FillCommit(t) ==
  /\ At(t, "fillCommit")
  /\ \/ /\ ~BufferFree
        /\ AppError(t)
     \/ /\ BufferFree
        /\ full' = full + 1
        /\ k' = [k EXCEPT ![t] = @ + 1]
        /\ Goto(t, IF FillAgain(k[t] + 1) THEN "fillGet" ELSE ret[t])
        /\ UNCHANGED <<chans, ret>>
  /\ UNCHANGED <<flags, power, ctrl, eps, evts, dma, pipe>>

Activate(t) ==
  /\ At(t, "activate")
  /\ active' = TRUE
  /\ Goto(t, Home(t))
  /\ UNCHANGED <<started, force, flush, power, ctrl, chan, pipe, ret, k>>

-----------------------------------------------------------------------------
(***************************************************************************)
(* The DMA thread and the host's data traffic.                             *)
(***************************************************************************)
\* The host takes a buffer from the IN endpoint.
HostRead ==
  /\ Running /\ connected /\ vbus /\ "consumer" \in eps /\ ~broken /\ ~stalled
  /\ full > 0
  /\ full' = full - 1 /\ evts' = evts + 1
  /\ UNCHANGED <<flags, power, ctrl, chans, eps, dma, pipe, calls>>

\* CyFxBulkSrcSinkDmaCallback for a consume event: started, get, commit.
DmaTake ==
  /\ Running /\ dma = "idle" /\ evts > 0
  /\ evts' = evts - 1
  /\ started' = TRUE
  /\ dma' = "get"
  /\ UNCHANGED <<active, force, flush, power, ctrl, chans, eps, full, pipe, calls>>
\* mutant: nothing is committed after a consume event.
DmaGetOnly ==
  /\ Running /\ dma = "get"
  /\ dma' = "idle"
  /\ UNCHANGED <<flags, power, ctrl, chans, eps, full, evts, pipe, calls>>

DmaGet ==
  /\ Running /\ dma = "get"
  /\ dma' = IF BufferFree THEN "commit" ELSE "idle"
  /\ UNCHANGED <<flags, power, ctrl, chans, eps, full, evts, pipe, calls>>

DmaCommit ==
  /\ Running /\ dma = "commit"
  /\ full' = IF BufferFree THEN full + 1 ELSE full
  /\ dma' = "idle"
  /\ UNCHANGED <<flags, power, ctrl, chans, eps, evts, pipe, calls>>

\* The same callback for a produce event: the buffer is discarded.  (It may
\* come as soon as there is a channel, before its transfer is set.)
DmaSink ==
  /\ Running /\ connected /\ vbus /\ dma = "idle" /\ "producer" \in eps /\ "sink" \in chans
  /\ started' = TRUE
  /\ UNCHANGED <<active, force, flush, power, ctrl, chan, pipe, calls>>

-----------------------------------------------------------------------------
(***************************************************************************)
(* The driver's callbacks.  The host sends nothing on the control pipe     *)
(* while a request of its own waits for an answer.                         *)
(***************************************************************************)
HostTalks(what) ==
  /\ what \in HostEvents
  /\ UsbIdle /\ connected /\ vbus /\ ep0 = "none"
\* mutant: starts without a look at the flag.
SetConfStarts ==
  /\ HostTalks("SETCONF")
  /\ link' \in {"U0", "none"}
  /\ Goto("usb", "start")
  /\ UNCHANGED <<flags, power, ctrl, chan, broken, stalled, ret, k>>

\* CyFxBulkSrcSinkApplnUSBEventCB, SETCONF: stop if active, then start.
SetConf ==
  /\ HostTalks("SETCONF")
  /\ link' \in {"U0", "none"}
  /\ \/ /\ active
        /\ Goto("usb", "stop")
        /\ ret' = [ret EXCEPT !["usb"] = "start"]
     \/ /\ ~active
        /\ Goto("usb", "start")
        /\ UNCHANGED ret
  /\ UNCHANGED <<flags, power, ctrl, chan, broken, stalled, k>>

\* RESET and DISCONNECT: the host has given up its request.
BusReset ==
  /\ "RESET" \in HostEvents /\ UsbIdle
  /\ force' = FALSE
  /\ link' = "none" /\ GivenUp
  /\ \/ /\ active
        /\ Goto("usb", "stop")
        /\ ret' = [ret EXCEPT !["usb"] = "quiesce"]
     \/ /\ ~active
        /\ Goto("usb", "quiesce")
        /\ UNCHANGED ret
  /\ UNCHANGED <<active, started, flush, power, slot, events, todo, chan, broken, stalled, k>>

Quiesce ==
  /\ At("usb", "quiesce")
  /\ started' = FALSE
  /\ Goto("usb", "idle")
  /\ UNCHANGED <<active, force, flush, power, ctrl, chan, pipe, ret, k>>
\* VBUS_REMOVED, and VBus is back: "VBUS_BACK" lets it come at any time,
\* otherwise only once the device has gone to standby.
VbusRemoved ==
  /\ "VBUS_OFF" \in HostEvents /\ UsbIdle /\ vbus
  /\ vbus' = FALSE /\ link' = "none" /\ GivenUp
  /\ trigger' = (trigger \/ enable)
  /\ enable' = FALSE
  /\ UNCHANGED <<flags, connected, slot, events, todo, chan, broken, stalled, calls>>

\* Nobody is told while the USB block is off.
VbusUnseen ==
  /\ "VBUS_OFF" \in HostEvents /\ UsbOff /\ vbus
  /\ vbus' = FALSE
  /\ UNCHANGED <<flags, enable, trigger, connected, ctrl, chan, pipe, calls>>

VbusReturns ==
  /\ ~vbus
  /\ "VBUS_BACK" \in HostEvents \/ pc["app"] \in {"asleep", "awake"}
  /\ vbus' = TRUE
  /\ UNCHANGED <<flags, enable, trigger, connected, ctrl, chan, pipe, calls>>

\* CyFxBulkSrcSinkApplnUSBSetupCB.  SET_FEATURE and CLEAR_FEATURE of
\* FUNCTION_SUSPEND; an inactive application stalls them.
FunctionSuspend ==
  /\ HostTalks("SUSPEND") /\ active
  /\ started' = FALSE /\ force' = TRUE
  /\ UNCHANGED <<active, flush, power, ctrl, chan, pipe, calls>>

FunctionResume ==
  /\ HostTalks("SUSPEND") /\ active
  /\ force' = FALSE
  /\ UNCHANGED <<active, started, flush, power, ctrl, chan, pipe, calls>>

\* CLEAR_FEATURE (ENDPOINT_HALT) of the IN endpoint: reset the channel and
\* fill it again.  Without the application the library clears the stall.
ClearHalt ==
  /\ HostTalks("HALT")
  /\ \/ /\ active
        /\ Goto("usb", "resetSrc")
        /\ UNCHANGED stalled
     \/ /\ ~active
        /\ stalled' = FALSE
        /\ UNCHANGED pc
  /\ UNCHANGED <<flags, power, ctrl, chan, link, broken, ret, k>>

ResetSrc ==
  /\ At("usb", "resetSrc")
  /\ Drained
  /\ full' = 0 /\ evts' = 0
  /\ broken' = FALSE /\ stalled' = FALSE
  /\ ret' = [ret EXCEPT !["usb"] = "idle"]
  /\ k' = [k EXCEPT !["usb"] = 0]
  /\ Goto("usb", "fillGet")
  /\ UNCHANGED <<flags, power, ctrl, chans, eps, dma, link>>

\* A vendor request is left in the slot, then the event is set.
VendorRequest(r) ==
  /\ UsbIdle /\ connected /\ vbus /\ ep0 = "none"
  /\ ep0' = r /\ slot' = r
  /\ Goto("usb", "signal")
  /\ UNCHANGED <<flags, power, events, todo, lost, chan, pipe, ret, k>>

Signal ==
  /\ At("usb", "signal")
  /\ events' = events \cup {"ctrl"}
  /\ Goto("usb", "idle")
  /\ UNCHANGED <<flags, power, slot, todo, ep0, lost, chan, pipe, ret, k>>

\* CyFxBulkSrcSinkApplnEpEvtCB: the IN endpoint met a retry.
Retry ==
  /\ "RETRY" \in HostEvents /\ Running /\ "consumer" \in eps /\ link # "none"
  /\ broken' = TRUE
  /\ flush' = TRUE
  /\ UNCHANGED <<active, started, force, power, ctrl, chan, link, stalled, calls>>

\* The host moves the link in and out of U1/U2; CyFxBulkSrcSinkApplnLPMRqtCB
\* allows it.
LinkMoves ==
  /\ "LPM" \in HostEvents /\ Running /\ link # "none"
  /\ link' \in {"U0", "Lp"} \ {link}
  /\ UNCHANGED <<flags, power, ctrl, chan, broken, stalled, calls>>

-----------------------------------------------------------------------------
\* mutant: EVENT_OR instead of EVENT_OR_CLEAR.
EventGetKeeps ==
  /\ At("app", "wait")
  /\ todo' = events
  /\ Goto("app", "wake")
  /\ UNCHANGED <<flags, power, slot, events, ep0, lost, chan, pipe, ret, k>>

(***************************************************************************)
(* BulkSrcSinkAppThread_Entry.  One pass of the loop: the events, the      *)
(* pending request, the flush, the link, standby.                          *)
(***************************************************************************)
\* CyU3PEventGet with OR_CLEAR; after 10 ms it returns with nothing.
EventGet ==
  /\ At("app", "wait")
  /\ todo' = events /\ events' = {}
  /\ Goto("app", "wake")
  /\ UNCHANGED <<flags, power, slot, ep0, lost, chan, pipe, ret, k>>

\* The remote wake takes a second and changes nothing here.
Wake ==
  /\ At("app", "wake")
  /\ Goto("app", IF "ctrl" \in todo THEN "handle" ELSE "flush")
  /\ UNCHANGED <<flags, power, ctrl, chan, pipe, ret, k>>

\* The pending request is acknowledged, answered with data, or stalled.
Handle(kinds, next) ==
  /\ At("app", "handle") /\ slot \in kinds
  /\ ep0' = "none"
  /\ Goto("app", next)
  /\ UNCHANGED <<slot, events, todo, lost, chan, pipe, k>>

\* 0x76, 0x78 to 0x84, and requests the firmware does not know.
HandleData == Handle({"data"}, "flush") /\ UNCHANGED <<flags, power, ret>>

HandleWake == Handle({"wake"}, "setWake") /\ UNCHANGED <<flags, power, ret>>    \* 0x77
\* mutant: the event group is overwritten.
SetWakeOnly ==
  /\ At("app", "setWake")
  /\ events' = {"wake"}
  /\ Goto("app", "flush")
  /\ UNCHANGED <<flags, power, slot, todo, ep0, lost, chan, pipe, ret, k>>

SetWake ==
  /\ At("app", "setWake")
  /\ events' = events \cup {"wake"}
  /\ Goto("app", "flush")
  /\ UNCHANGED <<flags, power, slot, todo, ep0, lost, chan, pipe, ret, k>>

HandleStandby ==                                                                \* 0xE1
  /\ Handle({"standby"}, "flush")
  /\ enable' = TRUE
  /\ UNCHANGED <<flags, trigger, vbus, connected, ret>>

\* 0xB1 and 0xB2: stop, whatever the flag says, and connect anew.
HandleSwitch ==
  /\ Handle({"switch"}, "stop")
  /\ ret' = [ret EXCEPT !["app"] = "disconnect"]
  /\ UNCHANGED <<flags, power>>

Disconnect ==
  /\ At("app", "disconnect")
  /\ connected' = FALSE /\ link' = "none" /\ GivenUp
  /\ Goto("app", "connect")
  /\ UNCHANGED <<flags, enable, trigger, vbus, slot, events, todo, chan, broken, stalled, ret, k>>

Connect ==
  /\ At("app", "connect")
  /\ connected' = TRUE
  /\ Goto("app", "flush")
  /\ UNCHANGED <<flags, enable, trigger, vbus, ctrl, chan, pipe, ret, k>>

\* 0x90: stop and jump back to the boot firmware, which keeps the connection.
HandleBoot ==
  /\ Handle({"boot"}, "stop")
  /\ ret' = [ret EXCEPT !["app"] = "jump"]
  /\ UNCHANGED <<flags, power>>

Jump ==
  /\ At("app", "jump")
  /\ Goto("app", "gone")
  /\ UNCHANGED <<flags, power, ctrl, chan, pipe, ret, k>>

\* 0xE0: disconnect and reset the device.
HandleReset == Handle({"reset"}, "devreset") /\ UNCHANGED <<flags, power, ret>>

DeviceReset ==
  /\ At("app", "devreset")
  /\ connected' = FALSE /\ link' = "none" /\ GivenUp
  /\ Goto("app", "gone")
  /\ UNCHANGED <<flags, enable, trigger, vbus, slot, events, todo, chan, broken, stalled, ret, k>>

\* glSrcEpFlush is cleared before the endpoint is stalled.
Flush ==
  /\ At("app", "flush")
  /\ flush' = FALSE
  /\ Goto("app", IF flush THEN "stall" ELSE "link")
  /\ UNCHANGED <<active, started, force, power, ctrl, chan, pipe, ret, k>>

Stall ==
  /\ At("app", "stall")
  /\ stalled' = TRUE
  /\ Goto("app", "link")
  /\ UNCHANGED <<flags, power, ctrl, chan, link, broken, ret, k>>
\* mutant: the flush flag is cleared after the stall, at the end of the pass.
ChooseLinkClears ==
  /\ At("app", "link")
  /\ flush' = FALSE
  /\ Goto("app", IF force THEN "u2" ELSE IF started THEN "u0" ELSE "standby")
  /\ UNCHANGED <<active, started, force, power, ctrl, chan, pipe, ret, k>>

ChooseLink ==
  /\ At("app", "link")
  /\ Goto("app", IF force THEN "u2" ELSE IF started THEN "u0" ELSE "standby")
  /\ UNCHANGED <<flags, power, ctrl, chan, pipe, ret, k>>

\* One round of the loop that pushes the link to U2, or of the one that gets
\* it back to U0; the host may refuse.
Push(here, busy, to) ==
  /\ At("app", here)
  /\ \/ /\ busy
        /\ link' \in {link, to}
        /\ UNCHANGED pc
     \/ /\ ~busy
        /\ Goto("app", "standby")
        /\ UNCHANGED link
  /\ UNCHANGED <<flags, power, ctrl, chan, broken, stalled, ret, k>>

PushU2 == Push("u2", force /\ link = "U0", "Lp")
PushU0Stale == Push("u0", started, "U0")    \* mutant: curState is read once
PushU0 == Push("u0", started /\ link = "Lp", "U0")

CheckStandby ==
  /\ At("app", "standby")
  /\ \/ /\ trigger
        /\ trigger' = FALSE /\ connected' = FALSE /\ link' = "none" /\ GivenUp
        /\ Goto("app", "enter")
     \/ /\ ~trigger
        /\ Goto("app", "wait")
        /\ UNCHANGED <<trigger, connected, link, ep0, lost>>
  /\ UNCHANGED <<flags, enable, vbus, slot, events, todo, chan, broken, stalled, ret, k>>

\* After the delays CyU3PSysEnterStandbyMode, without another look at VBus.  If
\* it is on again there is nothing to wait for: the call may return, and the
\* thread is in the error handler for ever, with the device off the bus.
EnterStandby ==
  /\ At("app", "enter")
  /\ \/ Goto("app", "asleep")
     \/ (vbus \/ "standby" \in Refusals) /\ Goto("app", "awake")
  /\ UNCHANGED <<flags, power, ctrl, chan, pipe, ret, k>>

\* The firmware starts again from main: VBus woke the device, or the boot
\* firmware or the loader has started it.
Restart ==
  /\ pc["app"] = "gone" \/ (pc["app"] = "asleep" /\ vbus)
  /\ active' = FALSE /\ started' = FALSE /\ force' = FALSE /\ flush' = FALSE
  /\ enable' = FALSE /\ trigger' = FALSE /\ connected' = TRUE
  /\ slot' = "none" /\ ep0' = "none" /\ lost' = FALSE /\ events' = {} /\ todo' = {}
  /\ chans' = {} /\ eps' = {} /\ full' = 0 /\ evts' = 0 /\ dma' = "idle"
  /\ link' \in BootLink /\ broken' = FALSE /\ stalled' = FALSE
  /\ pc' = Boot
  /\ ret' = [t \in Threads |-> "idle"]
  /\ k' = [t \in Threads |-> 0]
  /\ UNCHANGED vbus

-----------------------------------------------------------------------------
StopStart(t) ==
  \/ StopFlag(t) \/ StopSink(t) \/ StopSrc(t) \/ StopProducer(t) \/ StopConsumer(t)
  \/ StartProducer(t) \/ StartConsumer(t) \/ StartSink(t) \/ StartSrc(t)
  \/ XferSink(t) \/ XferSrc(t) \/ Refused(t)
  \/ FillGet(t) \/ FillCommit(t) \/ Activate(t)

Dma == DmaTake \/ DmaGet \/ DmaCommit

Driver == StopStart("usb") \/ Quiesce \/ ResetSrc \/ Signal

Host ==
  \/ HostRead \/ DmaSink \/ SetConf \/ BusReset \/ VbusRemoved \/ VbusUnseen \/ VbusReturns
  \/ FunctionSuspend \/ FunctionResume \/ ClearHalt \/ Retry \/ LinkMoves
  \/ \E r \in Requests : VendorRequest(r)

App ==
  \/ StopStart("app")
  \/ EventGet \/ Wake \/ HandleData \/ HandleWake \/ SetWake \/ HandleStandby
  \/ HandleSwitch \/ Disconnect \/ Connect \/ HandleBoot \/ Jump
  \/ HandleReset \/ DeviceReset \/ Flush \/ Stall
  \/ ChooseLink \/ PushU2 \/ PushU0 \/ CheckStandby \/ EnterStandby

Next == Dma \/ Driver \/ Host \/ App \/ Restart

Spec == Init /\ [][Next]_vars

(* The threads run; one that waits for a callback to end before it resets  *)
(* or destroys a channel is let through (strong fairness); and a host that *)
(* meets a stalled endpoint keeps trying to clear it.  No other step of    *)
(* the host is fair.                                                       *)
Fairness ==
  /\ SF_vars(App) /\ SF_vars(Driver) /\ WF_vars(Dma)
  /\ SF_vars(ClearHalt /\ stalled)

FairSpec == Spec /\ Fairness

-----------------------------------------------------------------------------
(***************************************************************************)
(* Properties.                                                             *)
(***************************************************************************)
\* No thread is, or hangs, in the middle of ApplnStart, ApplnStop or FillInBuffers.
Settled ==
  \A t \in Threads :
    pc[t] \notin StopSteps \cup StartSteps \cup FillSteps \cup {"dead", "refused"}

\* glIsApplnActive tells the truth: whenever no thread is in the middle of
\* starting or stopping, the flag is set exactly when both channels exist and
\* the endpoints are enabled, and otherwise nothing of them is left.  A start
\* or stop that hangs, because the library refused one of its steps, leaves
\* some of them behind, but no flag.
ActiveExact ==
  /\ Settled => IF active THEN chans = {"sink", "src"} /\ eps = Endpoints
                 ELSE chans = {} /\ eps = {}
  /\ \A t \in Threads : pc[t] = "refused" => ~active

\* Only the library's own failures, and a standby that ends at once, lead to
\* CyFxAppErrorHandler: no channel is created twice, and every buffer
\* FillInBuffers asks for is there, although the host and the DMA callback use
\* the first buffers while it fills the last ones.
NoErrorHandler == \A t \in Threads : pc[t] # "dead"

\* The source keeps all its buffers: each one filled is waiting for the host,
\* or its consume event is on its way to be answered by a new commit.  One
\* lost event would slow the stream for ever, and BUF_COUNT of them stop it.
\* (A thread that was refused its transfer has filled none.)
Filling == FillSteps \cup XferSteps \cup {"refused"}
Filled ==
  IF pc["usb"] \in Filling THEN k["usb"]
  ELSE IF pc["app"] \in Filling THEN k["app"] ELSE BufCount
SourceKeepsBuffers ==
  "src" \in chans => full + evts + (IF dma = "idle" THEN 0 ELSE 1) = Filled

\* The application thread handles each request once, while the host waits for
\* the answer to just that one, as long as the host has given up none.
AnswersMatch == pc["app"] = "handle" /\ ~lost => ep0 = slot

\* The host leaves the link alone in the end: it suspends no function and
\* leaves the link in U0 if data has started.
HostSettles == <>[](~force) /\ <>[](link # "Lp" \/ ~started)

\* The application has left for the boot firmware, a thread hangs because the
\* library refused a call, or the device has not stayed in standby.
Stopped == pc["app"] \in {"gone", "awake"} \/ \E t \in Threads : pc[t] = "refused"

\* Every vendor request is answered, whatever the loops about the link and
\* the remote wake do in between, if the host settles; only one that comes
\* after the device has agreed to leave for the boot firmware, or to a device
\* that hangs for the reasons above, is not.
RequestAnswered == HostSettles => (ep0 # "none" ~> ep0 = "none" \/ Stopped)

\* An IN endpoint that met a retry is stalled for the host to clear and moves
\* data again, however often it is hit while the flag is cleared.
RetryRecovers == HostSettles => (broken ~> ~broken \/ Stopped)

\* Once VBus has gone with standby armed, the device leaves the bus for
\* standby, also when VBus comes back before the loop has seen that it went or
\* during the delays; then the standby may not last, and the device is awake.
StandbyFollows == HostSettles => (trigger ~> pc["app"] = "asleep" \/ Stopped)
=============================================================================
