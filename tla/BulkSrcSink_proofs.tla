------------------------- MODULE BulkSrcSink_proofs -------------------------
(***************************************************************************)
(* Proofs about BulkSrcSink for any number of buffers, in three parts: the *)
(* vendor requests, of which nothing is assumed; the active flag, where    *)
(* only the driver's thread starts and stops the application; and the      *)
(* buffers, where moreover a DMA callback ends before its channel goes.    *)
(* Whatever call the library refuses.                                      *)
(***************************************************************************)
EXTENDS BulkSrcSink, TLAPS

-----------------------------------------------------------------------------
(***************************************************************************)
(* One vendor request through the slot, the event and the loop.  Nothing   *)
(* is assumed of the constants here.  While the host has given up none, a  *)
(* request that waits is the one in the slot, and it is in one place only: *)
(* still to be signalled, in the event group, or taken by the loop.  This  *)
(* is stronger than AnswersMatch, which only looks at the last place.      *)
(***************************************************************************)
Unsignalled == pc["usb"] = "signal"
Signalled == "ctrl" \in events
Taken == pc["app"] = "handle" \/ (pc["app"] = "wake" /\ "ctrl" \in todo)

LabelsInv ==
  /\ pc \in [Threads -> Steps] /\ ret \in [Threads -> Steps]
  /\ ret["usb"] \in {"idle", "start", "quiesce", "activate"}
  /\ ret["app"] \in {"idle", "disconnect", "jump", "activate"}
  /\ slot \in Requests \cup {"none"}

RequestInv ==
  ~lost => /\ Unsignalled \/ Signalled \/ Taken => ep0 # "none" /\ slot = ep0
           /\ ~(Unsignalled /\ Signalled)
           /\ ~(Unsignalled /\ Taken)
           /\ ~(Signalled /\ Taken)

AnswerInv == LabelsInv /\ RequestInv

LEMMA AnswerBase == ASSUME Init PROVE AnswerInv
  BY DEF Init, Boot, AnswerInv, LabelsInv, RequestInv, Unsignalled, Signalled, Taken,
         Threads, Steps, UsbSteps, AppSteps, StartSteps

(* Starting and stopping, in either thread, goes to its own steps, or back *)
(* to where ret says.                                                      *)
LEMMA StopStartMoves ==
  ASSUME LabelsInv, NEW t \in Threads, StopStart(t)
  PROVE  /\ UNCHANGED <<slot, events, todo, ep0, lost>>
         /\ \E step \in Steps \ {"signal", "wake", "handle"} : Goto(t, step)
         /\ ret' = ret \/ ret' = [ret EXCEPT ![t] = "activate"]
<1>1. UNCHANGED <<slot, events, todo, ep0, lost>>
  BY DEF StopStart, StopFlag, StopSink, StopSrc, StopProducer, StopConsumer, StartProducer,
         StartConsumer, StartSink, StartSrc, XferSink, XferSrc, Refused,
         FillGet, FillCommit, Activate, ctrl
<1> DEFINE Elsewhere == Steps \ {"signal", "wake", "handle"}
<1>2. \E step \in Elsewhere : Goto(t, step)
  <2> USE DEF LabelsInv, Threads, Steps, UsbSteps, AppSteps, StopSteps, StartSteps, XferSteps,
         FillSteps
  <2>1. CASE StopFlag(t) \/ StopSink(t) \/ StopSrc(t) \/ StopProducer(t)
    BY <2>1 DEF StopFlag, StopSink, StopSrc, StopProducer
  <2>2. ret[t] \in Elsewhere
    OBVIOUS
  <2>3. CASE StopConsumer(t)
    BY <2>2, <2>3 DEF StopConsumer
  <2>4. CASE StartProducer(t) \/ StartConsumer(t) \/ Activate(t)
    BY <2>4 DEF StartProducer, StartConsumer, Activate, Home
  <2>5. CASE StartSink(t) \/ StartSrc(t)
    BY <2>5 DEF StartSink, StartSrc, AppError
  <2>6. CASE FillGet(t) \/ FillCommit(t)
    BY <2>2, <2>6 DEF FillGet, FillCommit, AppError
  <2>7. CASE XferSink(t) \/ XferSrc(t) \/ Refused(t)
    BY <2>7 DEF XferSink, XferSrc, Refused
  <2> QED BY <2>1, <2>3, <2>4, <2>5, <2>6, <2>7 DEF StopStart
<1>3. ret' = ret \/ ret' = [ret EXCEPT ![t] = "activate"]
  BY DEF StopStart, StopFlag, StopSink, StopSrc, StopProducer, StopConsumer, StartProducer,
         StartConsumer, StartSink, StartSrc, XferSink, XferSrc, Refused,
         FillGet, FillCommit, Activate, AppError
<1>4. QED BY <1>1, <1>2, <1>3

(* It touches no request.                                                  *)
LEMMA StopStartKeepsAnswers ==
  ASSUME AnswerInv, NEW t \in Threads, StopStart(t) PROVE AnswerInv'
<1>1. UNCHANGED <<slot, events, todo, ep0, lost>>
  BY StopStartMoves DEF AnswerInv
<1>2. PICK step \in Steps \ {"signal", "wake", "handle"} : Goto(t, step)
  BY StopStartMoves DEF AnswerInv
<1>3. ret' = ret \/ ret' = [ret EXCEPT ![t] = "activate"]
  BY StopStartMoves DEF AnswerInv
<1>4. LabelsInv'
  BY <1>1, <1>2, <1>3 DEF Goto, AnswerInv, LabelsInv, Threads, Steps, StartSteps
<1>5. RequestInv'
  BY <1>1, <1>2 DEF Goto, AnswerInv, LabelsInv, RequestInv, Unsignalled, Signalled, Taken,
         Threads
<1>6. QED BY <1>4, <1>5 DEF AnswerInv

LEMMA AnswerConsecution == ASSUME AnswerInv, [Next]_vars PROVE AnswerInv'
<1> USE DEF AnswerInv, LabelsInv, RequestInv, Unsignalled, Signalled, Taken, Threads,
      Steps, UsbSteps, AppSteps, vars, flags, power, ctrl, chan, pipe, calls
<1>1. CASE DmaTake
  BY <1>1 DEF DmaTake
<1>2. CASE DmaGet
  BY <1>2 DEF DmaGet
<1>3. CASE DmaCommit
  BY <1>3 DEF DmaCommit
<1>4. CASE Quiesce
  BY <1>4 DEF Quiesce, At, Goto
<1>5. CASE ResetSrc
  BY <1>5 DEF ResetSrc, At, Goto, FillSteps
<1>6. CASE Signal
  BY <1>6 DEF Signal, At, Goto
<1>7. CASE HostRead
  BY <1>7 DEF HostRead
<1>8. CASE DmaSink
  BY <1>8 DEF DmaSink
<1>9. CASE SetConf
  <2>1. UNCHANGED <<slot, events, todo, ep0, lost>> /\ pc["usb"] = "idle"
    BY <1>9 DEF SetConf, HostTalks, UsbIdle
  <2>2. PICK step \in {"stop", "start"} : pc' = [pc EXCEPT !["usb"] = step]
    BY <1>9 DEF SetConf, Goto
  <2>3. ret' = ret \/ ret' = [ret EXCEPT !["usb"] = "start"]
    BY <1>9 DEF SetConf
  <2>4. LabelsInv'
    BY <2>1, <2>2, <2>3 DEF StopSteps, StartSteps
  <2>5. RequestInv'
    BY <2>1, <2>2
  <2>6. QED BY <2>4, <2>5
<1>10. CASE BusReset
  <2>1. LabelsInv'
    BY <1>10 DEF BusReset, UsbIdle, GivenUp, Goto, StopSteps
  <2>2. /\ UNCHANGED <<slot, events, todo>> /\ (~lost' => ~lost /\ ep0 = "none")
        /\ pc["usb"] = "idle" /\ pc'["usb"] \in {"stop", "quiesce"} /\ pc'["app"] = pc["app"]
    BY <1>10 DEF BusReset, UsbIdle, GivenUp, Goto
  <2>3. RequestInv'
    BY <2>2
  <2>4. QED BY <2>1, <2>3
<1>11. CASE VbusRemoved
  BY <1>11 DEF VbusRemoved, GivenUp
<1>12. CASE VbusReturns \/ VbusUnseen
  BY <1>12 DEF VbusReturns, VbusUnseen
<1>13. CASE FunctionSuspend
  BY <1>13 DEF FunctionSuspend
<1>14. CASE FunctionResume
  BY <1>14 DEF FunctionResume
<1>15. CASE ClearHalt
  BY <1>15 DEF ClearHalt, HostTalks, UsbIdle, Goto
<1>16. CASE Retry
  BY <1>16 DEF Retry
<1>17. CASE LinkMoves
  BY <1>17 DEF LinkMoves
<1>18. CASE EventGet
  BY <1>18 DEF EventGet, At, Goto
<1>19. CASE Wake
  BY <1>19 DEF Wake, At, Goto
<1>20. CASE HandleData
  BY <1>20 DEF HandleData, Handle, At, Goto
<1>21. CASE HandleWake
  BY <1>21 DEF HandleWake, Handle, At, Goto
<1>22. CASE SetWake
  BY <1>22 DEF SetWake, At, Goto
<1>23. CASE HandleStandby
  BY <1>23 DEF HandleStandby, Handle, At, Goto
<1>24. CASE HandleSwitch
  BY <1>24 DEF HandleSwitch, Handle, At, Goto, StopSteps
<1>25. CASE Disconnect
  BY <1>25 DEF Disconnect, GivenUp, At, Goto
<1>26. CASE Connect
  BY <1>26 DEF Connect, At, Goto
<1>27. CASE HandleBoot
  BY <1>27 DEF HandleBoot, Handle, At, Goto, StopSteps
<1>28. CASE Jump
  BY <1>28 DEF Jump, At, Goto
<1>29. CASE HandleReset
  BY <1>29 DEF HandleReset, Handle, At, Goto
<1>30. CASE DeviceReset
  BY <1>30 DEF DeviceReset, GivenUp, At, Goto
<1>31. CASE Flush
  BY <1>31 DEF Flush, At, Goto
<1>32. CASE Stall
  BY <1>32 DEF Stall, At, Goto
<1>33. CASE ChooseLink
  BY <1>33 DEF ChooseLink, At, Goto
<1>34. CASE PushU2
  BY <1>34 DEF PushU2, Push, At, Goto
<1>35. CASE PushU0
  BY <1>35 DEF PushU0, Push, At, Goto
<1>36. CASE CheckStandby
  <2>1. UNCHANGED <<slot, events, todo, ret>> /\ pc["app"] = "standby"
    BY <1>36 DEF CheckStandby, At
  <2>2. (ep0' = ep0 /\ lost' = lost) \/ (ep0' = "none" /\ lost' = (lost \/ ep0 # "none"))
    BY <1>36 DEF CheckStandby, GivenUp
  <2>3. PICK step \in {"enter", "wait"} : pc' = [pc EXCEPT !["app"] = step]
    BY <1>36 DEF CheckStandby, Goto
  <2>4. LabelsInv'
    BY <2>1, <2>3
  <2>5. RequestInv'
    BY <2>1, <2>2, <2>3
  <2>6. QED BY <2>4, <2>5
<1>37. CASE EnterStandby
  BY <1>37 DEF EnterStandby, At, Goto
<1>38. CASE Restart
  BY <1>38 DEF Restart, Boot, StartSteps
<1>39. ASSUME NEW r \in Requests, VendorRequest(r) PROVE AnswerInv'
  BY <1>39, BulkAssumption DEF AllRequests, VendorRequest, UsbIdle, Goto
<1>40. CASE StopStart("usb") \/ StopStart("app")
  <2>1. \E t \in Threads : StopStart(t) BY <1>40
  <2>2. QED BY <2>1, StopStartKeepsAnswers
<1>41. CASE UNCHANGED vars
  BY <1>41
<1> QED
  BY <1>1, <1>2, <1>3, <1>4, <1>5, <1>6, <1>7, <1>8, <1>9, <1>10, <1>11, <1>12, <1>13,
       <1>14, <1>15, <1>16, <1>17, <1>18, <1>19, <1>20, <1>21, <1>22, <1>23, <1>24,
       <1>25, <1>26, <1>27, <1>28, <1>29, <1>30, <1>31, <1>32, <1>33, <1>34, <1>35,
       <1>36, <1>37, <1>38, <1>39, <1>40, <1>41 DEF Next, Dma, Driver, Host, App

(* AnswerInv holds in every reachable state, for all constants.            *)
THEOREM AnswerInductive == Spec => []AnswerInv
<1>1. Init => AnswerInv BY AnswerBase
<1>2. AnswerInv /\ [Next]_vars => AnswerInv' BY AnswerConsecution
<1>3. QED BY <1>1, <1>2, PTL DEF Spec

(* Whatever the host sends and whoever starts and stops the application,   *)
(* the request the loop handles is the one the host waits for, as long as  *)
(* the host has given up none.                                             *)
THEOREM AnswersAreMatched == Spec => []AnswersMatch
<1>1. AnswerInv => AnswersMatch
  BY DEF AnswerInv, RequestInv, Taken, AnswersMatch
<1>2. QED BY <1>1, AnswerInductive, PTL
-----------------------------------------------------------------------------
(***************************************************************************)
(* The active flag, when the driver's thread alone starts and stops the    *)
(* application: there is no live connection at the start, and the host     *)
(* asks neither to switch nor to boot.  A thread may hang in the error     *)
(* handler here.                                                           *)
(***************************************************************************)
DriverAlone == ~NoRenum /\ "switch" \notin Requests /\ "boot" \notin Requests

AppLoop == AppSteps \ {"disconnect", "connect", "jump"}
DriverSteps == UsbSteps \cup StopSteps \cup StartSteps \cup FillSteps

(* Where the driver's thread is tells what exists, and where it goes next. *)
Up == chans = {"sink", "src"} /\ eps = Endpoints
Down == chans = {} /\ eps = {}

DriverInv ==
  /\ pc["usb"] \in {"idle", "signal"} => IF active THEN Up ELSE Down
  /\ pc["usb"] \in {"resetSrc", "stop"} => active /\ Up
  /\ pc["usb"] \in StopSteps => ret["usb"] \in {"start", "quiesce"}
  /\ pc["usb"] \in {"stopSink", "activate"} => ~active /\ Up
  /\ pc["usb"] = "stopSrc" => ~active /\ chans = {"src"} /\ eps = Endpoints
  /\ pc["usb"] = "stopProducer" => ~active /\ chans = {} /\ eps = Endpoints
  /\ pc["usb"] = "stopConsumer" => ~active /\ chans = {} /\ eps = {"consumer"}
  /\ pc["usb"] \in {"start", "quiesce"} => ~active /\ Down
  /\ pc["usb"] = "startConsumer" => ~active /\ chans = {} /\ eps = {"producer"}
  /\ pc["usb"] = "startSink" => ~active /\ chans = {} /\ eps = Endpoints
  /\ pc["usb"] = "startSrc" => ~active /\ chans = {"sink"} /\ eps = Endpoints
  /\ pc["usb"] \in XferSteps => ~active /\ Up /\ k["usb"] = 0
  /\ pc["usb"] = "refused" => ~active /\ ("src" \in chans => k["usb"] = 0)
  /\ pc["usb"] \in FillSteps =>
       /\ Up /\ k["usb"] < BufCount
       /\ \/ ret["usb"] = "idle" /\ active
          \/ ret["usb"] = "activate" /\ ~active

FlowInv ==
  /\ active \in BOOLEAN /\ eps \subseteq Endpoints /\ chans \subseteq {"sink", "src"}
  /\ k \in [Threads -> 0..BufCount]
  /\ pc["app"] \in AppLoop \cup {"awake"}
  /\ pc["usb"] \in DriverSteps \cup {"dead", "refused"}
  /\ DriverInv

(* What the others do leaves the driver's thread and the channels alone.   *)
Bystander ==
  /\ UNCHANGED <<active, chans, eps, ret, k>> /\ pc'["usb"] = pc["usb"]
  /\ pc'["app"] \in AppLoop \cup {"awake"}

(* The application thread touches no buffers either.                       *)
LEMMA AppStandsBy ==
  ASSUME DriverAlone, LabelsInv, FlowInv, App
  PROVE  Bystander /\ UNCHANGED <<full, evts, dma>>
<1> USE DEF LabelsInv, FlowInv, Bystander, AppLoop, AppSteps, Threads, flags, power, chan, At, Goto
<1>1. ~StopStart("app")
  BY DEF StopStart, StopFlag, StopSink, StopSrc, StopProducer, StopConsumer, StartProducer,
         StartConsumer, StartSink, StartSrc, XferSink, XferSrc, Refused,
         FillGet, FillCommit, Activate, StopSteps, StartSteps, XferSteps, FillSteps
<1>2. CASE EventGet \/ Wake \/ SetWake \/ Flush \/ Stall \/ ChooseLink
  BY <1>2 DEF EventGet, Wake, SetWake, Flush, Stall, ChooseLink
<1>3. CASE HandleData \/ HandleWake \/ HandleStandby \/ HandleReset
  BY <1>3 DEF HandleData, HandleWake, HandleStandby, HandleReset, Handle
<1>4. CASE DeviceReset \/ PushU2 \/ PushU0
  BY <1>4 DEF DeviceReset, PushU2, PushU0, Push
<1>5. CASE CheckStandby \/ EnterStandby
  BY <1>5 DEF CheckStandby, EnterStandby
<1>6. ~Disconnect /\ ~Connect /\ ~Jump
  BY DEF Disconnect, Connect, Jump
<1>7. ~HandleSwitch /\ ~HandleBoot
  BY DEF HandleSwitch, HandleBoot, Handle, DriverAlone
<1> QED BY <1>1, <1>2, <1>3, <1>4, <1>5, <1>6, <1>7 DEF App

LEMMA OthersStandBy ==
  ASSUME FlowInv, Dma \/ HostRead \/ DmaSink \/ VbusRemoved \/ VbusUnseen \/ VbusReturns
                    \/ FunctionSuspend \/ FunctionResume \/ Retry \/ LinkMoves \/ UNCHANGED vars
  PROVE  Bystander
<1> USE DEF FlowInv, Bystander, flags, chan, calls
<1>1. CASE Dma
  BY <1>1 DEF Dma, DmaTake, DmaGet, DmaCommit
<1>2. CASE HostRead \/ DmaSink \/ VbusRemoved \/ VbusUnseen \/ VbusReturns
  BY <1>2 DEF HostRead, DmaSink, VbusRemoved, VbusUnseen, VbusReturns
<1>3. CASE FunctionSuspend \/ FunctionResume \/ Retry \/ LinkMoves
  BY <1>3 DEF FunctionSuspend, FunctionResume, Retry, LinkMoves
<1>4. CASE UNCHANGED vars
  BY <1>4 DEF vars
<1> QED BY <1>1, <1>2, <1>3, <1>4

(* Only the driver's own steps move DriverInv on.                          *)
LEMMA FlowNext ==
  ASSUME DriverAlone, LabelsInv, FlowInv, [Next]_vars PROVE FlowInv'
<1> USE BulkAssumption DEF LabelsInv, FlowInv, DriverInv, Up, Down, Threads, AppLoop, AppSteps,
      DriverSteps, UsbSteps, StopSteps, StartSteps, XferSteps, FillSteps, Endpoints, At, Goto,
      flags, chan, calls
<1>1. CASE Bystander
  BY <1>1 DEF Bystander
<1>2. CASE StopFlag("usb")
  BY <1>2 DEF StopFlag
<1>3. CASE StopSink("usb")
  BY <1>3 DEF StopSink
<1>4. CASE StopSrc("usb")
  BY <1>4 DEF StopSrc
<1>5. CASE StopProducer("usb")
  BY <1>5 DEF StopProducer
<1>6. CASE StopConsumer("usb")
  BY <1>6 DEF StopConsumer
<1>21. CASE StartProducer("usb")
  BY <1>21 DEF StartProducer
<1>22. CASE StartConsumer("usb")
  BY <1>22 DEF StartConsumer
<1>23. CASE XferSink("usb")
  BY <1>23 DEF XferSink
<1>24. CASE XferSrc("usb")
  BY <1>24 DEF XferSrc
<1>25. CASE Refused("usb")
  BY <1>25 DEF Refused
<1>7. CASE StartSink("usb")
  BY <1>7 DEF StartSink, AppError
<1>8. CASE StartSrc("usb")
  BY <1>8 DEF StartSrc, AppError
<1>9. CASE FillGet("usb")
  BY <1>9 DEF FillGet, AppError
<1>10. CASE FillCommit("usb")
  BY <1>10 DEF FillCommit, FillAgain, AppError
<1>11. CASE Activate("usb")
  BY <1>11 DEF Activate, Home
<1>12. CASE Quiesce
  BY <1>12 DEF Quiesce
<1>13. CASE ResetSrc
  BY <1>13 DEF ResetSrc
<1>14. CASE Signal
  BY <1>14 DEF Signal
<1>15. CASE SetConf
  BY <1>15 DEF SetConf, HostTalks, UsbIdle
<1>16. CASE BusReset
  BY <1>16 DEF BusReset, UsbIdle
<1>17. CASE ClearHalt
  BY <1>17 DEF ClearHalt, HostTalks, UsbIdle
<1>18. ASSUME NEW r \in Requests, VendorRequest(r) PROVE FlowInv'
  BY <1>18 DEF VendorRequest, UsbIdle
<1>19. CASE Restart
  <2>1. pc'["usb"] = "idle" /\ pc'["app"] = "wait"
    BY <1>19 DEF Restart, Boot, DriverAlone
  <2>2. active' = FALSE /\ chans' = {} /\ eps' = {} /\ k' = [t \in Threads |-> 0]
    BY <1>19 DEF Restart
  <2>3. k' \in [Threads -> 0..BufCount]
    BY <2>2
  <2> HIDE DEF Threads
  <2> QED BY <2>1, <2>2, <2>3
<1>20. CASE App
  BY <1>1, <1>20, AppStandsBy
<1> QED
  BY <1>1, <1>2, <1>3, <1>4, <1>5, <1>6, <1>7, <1>8, <1>9, <1>10, <1>11, <1>12, <1>13, <1>14,
     <1>15, <1>16, <1>17, <1>18, <1>19, <1>20, <1>21, <1>22, <1>23, <1>24, <1>25, OthersStandBy
     DEF Next, Driver, Host, StopStart

(* FlowInv holds in every reachable state.                                 *)
THEOREM FlowHolds == ASSUME DriverAlone PROVE Spec => []FlowInv
<1>1. Init => FlowInv
  <2> SUFFICES ASSUME Init PROVE FlowInv
    OBVIOUS
  <2>1. pc["usb"] = "idle" /\ pc["app"] = "wait"
    BY DEF Init, Boot, DriverAlone
  <2>2. active = FALSE /\ chans = {} /\ eps = {} /\ k = [t \in Threads |-> 0]
    BY DEF Init
  <2>3. k \in [Threads -> 0..BufCount]
    BY <2>2, BulkAssumption
  <2> QED BY <2>1, <2>2, <2>3 DEF FlowInv, DriverInv, Down, AppLoop, AppSteps, DriverSteps,
               UsbSteps, StopSteps, StartSteps, XferSteps, FillSteps
<1>2. AnswerInv /\ FlowInv /\ [Next]_vars => FlowInv'
  BY FlowNext DEF AnswerInv
<1>3. QED BY <1>1, <1>2, AnswerInductive, PTL DEF Spec

(* glIsApplnActive says whether channels and endpoints are there.          *)
THEOREM FlagIsExact == ASSUME DriverAlone PROVE Spec => []ActiveExact
<1>1. FlowInv => ActiveExact
  BY DEF FlowInv, DriverInv, ActiveExact, Settled, Up, Down, Threads, DriverSteps, UsbSteps,
         AppLoop, AppSteps, StopSteps, StartSteps, XferSteps, FillSteps
<1>2. QED BY <1>1, FlowHolds, PTL

-----------------------------------------------------------------------------
(***************************************************************************)
(* The buffers, when moreover the library lets a DMA callback end before   *)
(* its channel is reset or destroyed.                                      *)
(***************************************************************************)
InCallback == IF dma = "idle" THEN 0 ELSE 1
UsbFilled == IF pc["usb"] \in Filling THEN k["usb"] ELSE BufCount

BufferInv ==
  /\ full \in Nat /\ evts \in Nat /\ dma \in {"idle", "get", "commit"}
  /\ pc["usb"] # "dead"
  /\ "src" \in chans => full + evts + InCallback = UsbFilled
  /\ "src" \notin chans => full = 0 /\ evts = 0 /\ dma = "idle"

(* Each step moves a buffer between the channel, the events and the        *)
(* callback, or is a step of FillInBuffers, which counts them anew.        *)
LEMMA BufferNext ==
  ASSUME DriverAlone, CallbackDrained, LabelsInv, FlowInv, BufferInv, [Next]_vars
  PROVE  BufferInv'
<1> USE BulkAssumption DEF LabelsInv, FlowInv, BufferInv, InCallback, UsbFilled, Filling, BufferFree,
      Threads, DriverSteps, UsbSteps, StopSteps, StartSteps, XferSteps, FillSteps, At, Goto, flags,
      power, ctrl, chan, calls
<1>1. CASE DmaTake
  BY <1>1 DEF DmaTake
<1>2. CASE DmaGet
  BY <1>2 DEF DmaGet
<1>3. CASE DmaCommit
  BY <1>3 DEF DmaCommit
<1>4. CASE HostRead
  BY <1>4 DEF HostRead
<1>5. CASE StopFlag("usb") \/ StopSink("usb") \/ StopProducer("usb") \/ StopConsumer("usb")
           \/ Activate("usb")
  BY <1>5 DEF StopFlag, StopSink, StopProducer, StopConsumer, Activate, DriverInv, Home
<1>18. CASE StartProducer("usb") \/ StartConsumer("usb") \/ XferSink("usb") \/ XferSrc("usb")
  BY <1>18 DEF StartProducer, StartConsumer, XferSink, XferSrc, DriverInv
<1>19. CASE Refused("usb")
  <2>1. UNCHANGED <<chans, full, evts, dma, k>> /\ pc'["usb"] = "refused"
    BY <1>19 DEF Refused
  <2>4. pc["usb"] \in {"start", "startConsumer", "stopProducer", "stopConsumer", "startSink",
                      "startSrc"} \cup XferSteps
    BY <1>19 DEF Refused
  <2>5. /\ pc["usb"] \in {"start", "stopProducer"} => chans = {}
        /\ pc["usb"] \in {"startConsumer", "stopConsumer", "startSink"} => chans = {}
        /\ pc["usb"] = "startSrc" => chans = {"sink"}
    BY DEF DriverInv, Down
  <2>2. pc["usb"] \in XferSteps \/ "src" \notin chans
    BY <2>4, <2>5
  <2>3. CASE pc["usb"] \in XferSteps
    BY <2>1, <2>3
  <2> QED BY <2>1, <2>2, <2>3
<1>6. CASE StopSrc("usb")
  BY <1>6 DEF StopSrc, Drained
<1>7. CASE StartSink("usb")
  BY <1>7 DEF StartSink, AppError, DriverInv
<1>8. CASE StartSrc("usb")
  BY <1>8 DEF StartSrc, AppError, DriverInv
<1>9. CASE FillGet("usb")
  BY <1>9 DEF FillGet, AppError, DriverInv, Up
<1>10. CASE FillCommit("usb")
  BY <1>10 DEF FillCommit, FillAgain, AppError, DriverInv, Up
<1>11. CASE ResetSrc
  BY <1>11 DEF ResetSrc, Drained, DriverInv, Up
<1>12. CASE Quiesce \/ Signal
  BY <1>12 DEF Quiesce, Signal
<1>13. CASE SetConf \/ BusReset \/ ClearHalt
  BY <1>13 DEF SetConf, BusReset, ClearHalt, HostTalks, UsbIdle
<1>14. ASSUME NEW r \in Requests, VendorRequest(r) PROVE BufferInv'
  BY <1>14 DEF VendorRequest, UsbIdle
<1>15. CASE DmaSink \/ VbusRemoved \/ VbusUnseen \/ VbusReturns \/ FunctionSuspend
            \/ FunctionResume \/ Retry \/ LinkMoves \/ UNCHANGED vars
  BY <1>15 DEF DmaSink, VbusRemoved, VbusUnseen, VbusReturns, FunctionSuspend, FunctionResume, Retry,
         LinkMoves, vars
<1>16. CASE App
  <2>1. UNCHANGED <<chans, k, full, evts, dma>> /\ pc'["usb"] = pc["usb"]
    BY <1>16, AppStandsBy DEF Bystander
  <2> QED BY <2>1
<1>17. CASE Restart
  BY <1>17 DEF Restart, Boot
<1> QED
  BY <1>1, <1>2, <1>3, <1>4, <1>5, <1>6, <1>7, <1>8, <1>9, <1>10, <1>11, <1>12, <1>13, <1>14,
     <1>15, <1>16, <1>17, <1>18, <1>19 DEF Next, Dma, Driver, Host, StopStart

(* BufferInv holds in every reachable state.                               *)
THEOREM BuffersHold == ASSUME DriverAlone, CallbackDrained PROVE Spec => []BufferInv
<1>1. Init => BufferInv
  BY DEF Init, Boot, BufferInv
<1>2. AnswerInv /\ FlowInv /\ BufferInv /\ [Next]_vars => BufferInv'
  BY BufferNext DEF AnswerInv
<1>3. QED BY <1>1, <1>2, AnswerInductive, FlowHolds, PTL DEF Spec

(* No buffer of the source channel is ever forgotten.                      *)
THEOREM StreamKeepsBuffers ==
  ASSUME DriverAlone, CallbackDrained PROVE Spec => []SourceKeepsBuffers
<1>1. FlowInv /\ BufferInv => SourceKeepsBuffers
  BY DEF FlowInv, BufferInv, SourceKeepsBuffers, Filled, Filling, InCallback, UsbFilled,
         AppLoop, AppSteps, FillSteps, XferSteps
<1>2. QED BY <1>1, FlowHolds, BuffersHold, PTL

(* What is left of the types needs no hypothesis.                          *)
LineTypes ==
  /\ ep0 \in Requests \cup {"none"}
  /\ events \subseteq {"ctrl", "wake"} /\ todo \subseteq {"ctrl", "wake"}
  /\ link \in {"U0", "Lp", "none"}

(* The flags stay Booleans.                                                *)
LEMMA FlagTypesNext == ASSUME FlagTypes, [Next]_vars PROVE FlagTypes'
<1> USE DEF FlagTypes, flags, power, ctrl, chan, pipe
<1>1. ASSUME NEW t \in Threads, StopStart(t) PROVE FlagTypes'
  <2>1. CASE StopFlag(t)
    BY <2>1 DEF StopFlag
  <2>2. CASE StopSink(t)
    BY <2>2 DEF StopSink
  <2>3. CASE StopSrc(t)
    BY <2>3 DEF StopSrc
  <2>4. CASE StopProducer(t)
    BY <2>4 DEF StopProducer
  <2>12. CASE StopConsumer(t)
    BY <2>12 DEF StopConsumer
  <2>5. CASE StartProducer(t) \/ StartConsumer(t)
    BY <2>5 DEF StartProducer, StartConsumer
  <2>6. CASE StartSink(t)
    BY <2>6 DEF StartSink, AppError
  <2>7. CASE StartSrc(t)
    BY <2>7 DEF StartSrc, AppError
  <2>8. CASE FillGet(t)
    BY <2>8 DEF FillGet, AppError
  <2>9. CASE FillCommit(t)
    BY <2>9 DEF FillCommit, AppError
  <2>10. CASE Activate(t)
    BY <2>10 DEF Activate
  <2>11. CASE XferSink(t) \/ XferSrc(t) \/ Refused(t)
    BY <2>11 DEF XferSink, XferSrc, Refused
  <2> QED
    BY <1>1, <2>1, <2>2, <2>3, <2>4, <2>5, <2>6, <2>7, <2>8, <2>9, <2>10, <2>11,
       <2>12 DEF StopStart
<1>2. CASE DmaTake
  BY <1>2 DEF DmaTake
<1>3. CASE DmaGet
  BY <1>3 DEF DmaGet
<1>4. CASE DmaCommit
  BY <1>4 DEF DmaCommit
<1>5. CASE Quiesce
  BY <1>5 DEF Quiesce
<1>6. CASE ResetSrc
  BY <1>6 DEF ResetSrc
<1>7. CASE Signal
  BY <1>7 DEF Signal
<1>8. CASE HostRead
  BY <1>8 DEF HostRead
<1>9. CASE DmaSink
  BY <1>9 DEF DmaSink
<1>10. CASE SetConf
  BY <1>10 DEF SetConf
<1>11. CASE ClearHalt
  BY <1>11 DEF ClearHalt
<1>12. CASE BusReset
  BY <1>12 DEF BusReset, GivenUp
<1>13. CASE VbusRemoved
  BY <1>13 DEF VbusRemoved, GivenUp
<1>14. CASE VbusReturns \/ VbusUnseen
  <2>1. vbus' \in BOOLEAN
    BY <1>14 DEF VbusReturns, VbusUnseen
  <2>2. UNCHANGED <<active, started, force, flush, enable, trigger, connected, lost, broken, stalled>>
    BY <1>14 DEF VbusReturns, VbusUnseen
  <2> QED BY <2>1, <2>2
<1>15. CASE FunctionSuspend
  BY <1>15 DEF FunctionSuspend
<1>16. CASE FunctionResume
  BY <1>16 DEF FunctionResume
<1>17. CASE Retry
  BY <1>17 DEF Retry
<1>18. CASE LinkMoves
  BY <1>18 DEF LinkMoves
<1>19. CASE EventGet
  BY <1>19 DEF EventGet
<1>20. CASE Wake
  BY <1>20 DEF Wake
<1>21. CASE SetWake
  BY <1>21 DEF SetWake
<1>22. CASE Flush
  BY <1>22 DEF Flush
<1>23. CASE Stall
  BY <1>23 DEF Stall
<1>24. CASE ChooseLink
  BY <1>24 DEF ChooseLink
<1>25. CASE HandleData
  BY <1>25 DEF HandleData, Handle
<1>26. CASE HandleWake
  BY <1>26 DEF HandleWake, Handle
<1>27. CASE HandleStandby
  BY <1>27 DEF HandleStandby, Handle
<1>28. CASE HandleSwitch
  BY <1>28 DEF HandleSwitch, Handle
<1>29. CASE HandleBoot
  BY <1>29 DEF HandleBoot, Handle
<1>30. CASE HandleReset
  BY <1>30 DEF HandleReset, Handle
<1>31. CASE Disconnect
  BY <1>31 DEF Disconnect, GivenUp
<1>32. CASE DeviceReset
  BY <1>32 DEF DeviceReset, GivenUp
<1>33. CASE Connect
  BY <1>33 DEF Connect
<1>34. CASE Jump
  BY <1>34 DEF Jump
<1>35. CASE PushU2
  BY <1>35 DEF PushU2, Push
<1>36. CASE PushU0
  BY <1>36 DEF PushU0, Push
<1>37. CASE CheckStandby
  BY <1>37 DEF CheckStandby, GivenUp
<1>38. CASE EnterStandby
  BY <1>38 DEF EnterStandby
<1>39. CASE Restart
  BY <1>39 DEF Restart
<1>40. ASSUME NEW r \in Requests, VendorRequest(r) PROVE FlagTypes'
  BY <1>40 DEF VendorRequest
<1>41. CASE UNCHANGED vars
  BY <1>41 DEF vars
<1> QED
  BY <1>1, <1>2, <1>3, <1>4, <1>5, <1>6, <1>7, <1>8, <1>9, <1>10, <1>11, <1>12, <1>13, <1>14,
     <1>15, <1>16, <1>17, <1>18, <1>19, <1>20, <1>21, <1>22, <1>23, <1>24, <1>25, <1>26, <1>27,
     <1>28, <1>29, <1>30, <1>31, <1>32, <1>33, <1>34, <1>35, <1>36, <1>37, <1>38, <1>39, <1>40,
     <1>41
     DEF Next, Dma, Driver, Host, App, Threads

(* So do the types of requests, events and link.                           *)
LEMMA LineTypesNext == ASSUME LineTypes, [Next]_vars PROVE LineTypes'
<1> USE DEF LineTypes, flags, power, ctrl, chan, pipe
<1>1. ASSUME NEW t \in Threads, StopStart(t) PROVE LineTypes'
  <2>1. CASE StopFlag(t)
    BY <2>1 DEF StopFlag
  <2>2. CASE StopSink(t)
    BY <2>2 DEF StopSink
  <2>3. CASE StopSrc(t)
    BY <2>3 DEF StopSrc
  <2>4. CASE StopProducer(t) \/ StopConsumer(t)
    BY <2>4 DEF StopProducer, StopConsumer
  <2>5. CASE StartProducer(t) \/ StartConsumer(t)
    BY <2>5 DEF StartProducer, StartConsumer
  <2>6. CASE StartSink(t)
    BY <2>6 DEF StartSink, AppError
  <2>7. CASE StartSrc(t)
    BY <2>7 DEF StartSrc, AppError
  <2>8. CASE FillGet(t)
    BY <2>8 DEF FillGet, AppError
  <2>9. CASE FillCommit(t)
    BY <2>9 DEF FillCommit, AppError
  <2>10. CASE Activate(t)
    BY <2>10 DEF Activate
  <2>11. CASE XferSink(t) \/ XferSrc(t) \/ Refused(t)
    BY <2>11 DEF XferSink, XferSrc, Refused
  <2> QED
    BY <1>1, <2>1, <2>2, <2>3, <2>4, <2>5, <2>6, <2>7, <2>8, <2>9, <2>10, <2>11 DEF StopStart
<1>2. CASE Dma
  BY <1>2 DEF Dma, DmaTake, DmaGet, DmaCommit
<1>3. CASE Quiesce \/ ResetSrc \/ Signal
  BY <1>3 DEF Quiesce, ResetSrc, Signal
<1>4. CASE HostRead \/ DmaSink
  BY <1>4 DEF HostRead, DmaSink
<1>5. CASE SetConf \/ ClearHalt
  BY <1>5 DEF SetConf, ClearHalt
<1>6. CASE BusReset
  BY <1>6 DEF BusReset, GivenUp
<1>7. CASE VbusRemoved
  BY <1>7 DEF VbusRemoved, GivenUp
<1>8. CASE VbusReturns \/ VbusUnseen
  BY <1>8 DEF VbusReturns, VbusUnseen
<1>9. CASE FunctionSuspend \/ FunctionResume
  BY <1>9 DEF FunctionSuspend, FunctionResume
<1>10. CASE Retry \/ LinkMoves
  BY <1>10 DEF Retry, LinkMoves
<1>11. CASE EventGet \/ Wake \/ SetWake
  BY <1>11 DEF EventGet, Wake, SetWake
<1>12. CASE Flush \/ Stall \/ ChooseLink
  BY <1>12 DEF Flush, Stall, ChooseLink
<1>13. CASE HandleData \/ HandleWake \/ HandleStandby
  BY <1>13 DEF HandleData, HandleWake, HandleStandby, Handle
<1>14. CASE HandleSwitch \/ HandleBoot \/ HandleReset
  BY <1>14 DEF HandleSwitch, HandleBoot, HandleReset, Handle
<1>15. CASE Disconnect \/ DeviceReset
  BY <1>15 DEF Disconnect, DeviceReset, GivenUp
<1>16. CASE Connect \/ Jump
  BY <1>16 DEF Connect, Jump
<1>17. CASE PushU2 \/ PushU0
  BY <1>17 DEF PushU2, PushU0, Push
<1>18. CASE CheckStandby
  BY <1>18 DEF CheckStandby, GivenUp
<1>19. CASE EnterStandby
  BY <1>19 DEF EnterStandby
<1>20. CASE Restart
  BY <1>20 DEF Restart, BootLink
<1>21. CASE UNCHANGED vars
  BY <1>21 DEF vars
<1>22. ASSUME NEW r \in Requests, VendorRequest(r) PROVE LineTypes'
  BY <1>22 DEF VendorRequest
<1> QED
  BY <1>1, <1>2, <1>3, <1>4, <1>5, <1>6, <1>7, <1>8, <1>9, <1>10, <1>11, <1>12, <1>13, <1>14,
     <1>15, <1>16, <1>17, <1>18, <1>19, <1>20, <1>21, <1>22
     DEF Next, Driver, Host, App, Threads

(* The variables keep their types: no count of buffers leaves 0..BUF_COUNT.*)
THEOREM TypeCorrect == ASSUME DriverAlone, CallbackDrained PROVE Spec => []TypeOK
<1>1. Init => FlagTypes /\ LineTypes
  BY DEF Init, BootLink, FlagTypes, LineTypes
<1>2. FlagTypes /\ LineTypes /\ [Next]_vars => (FlagTypes /\ LineTypes)'
  BY FlagTypesNext, LineTypesNext
<1>3. FlagTypes /\ LineTypes /\ AnswerInv /\ FlowInv /\ BufferInv => TypeOK
  <2> SUFFICES ASSUME FlagTypes, LineTypes, AnswerInv, FlowInv, BufferInv PROVE TypeOK
    OBVIOUS
  <2>1. full \in 0..BufCount /\ evts \in 0..BufCount
    <3>1. UsbFilled \in 0..BufCount
      BY BulkAssumption DEF UsbFilled, FlowInv, Threads
    <3>2. CASE "src" \in chans
      BY <3>1, <3>2, BulkAssumption DEF BufferInv, InCallback
    <3>3. CASE "src" \notin chans
      BY <3>3, BulkAssumption DEF BufferInv
    <3> QED BY <3>2, <3>3
  <2> QED BY <2>1 DEF LineTypes, AnswerInv, LabelsInv, FlowInv, BufferInv, TypeOK, DataTypes
<1>4. QED BY <1>1, <1>2, <1>3, AnswerInductive, FlowHolds, BuffersHold, PTL DEF Spec

(* No channel is created twice, and FillInBuffers finds its buffers.       *)
THEOREM NeverFails == ASSUME DriverAlone, CallbackDrained PROVE Spec => []NoErrorHandler
<1>1. FlowInv /\ BufferInv => NoErrorHandler
  BY DEF FlowInv, BufferInv, NoErrorHandler, Threads, AppLoop, AppSteps
<1>2. QED BY <1>1, FlowHolds, BuffersHold, PTL
=============================================================================
