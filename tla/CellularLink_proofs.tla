-------------------------- MODULE CellularLink_proofs --------------------------
(***************************************************************************)
(* Theorems about the AT dispatcher, for any set of tasks, of frames and of*)
(* subscriptions, and about the cellular link that uses it: every step of  *)
(* CellularLink is a step of DispatcherSpec or leaves its variables alone, *)
(* so what is shown of the dispatcher holds in the link.                   *)
(***************************************************************************)
EXTENDS CellularLink, TLAPS

DispatcherInv == DispatcherTypeOK /\ SlotOwned /\ NoLostWakeup

LEMMA DispatcherInitInv == DispatcherInit => DispatcherInv
BY CallersAssumption, FramesAssumption
   DEF DispatcherInit, DispatcherInv, DispatcherTypeOK, SlotOwned, NoLostWakeup, Places

\* A call begins: the lock was free, so the slot was inactive and is now the caller's.
LEMMA SendSyncInv ==
  ASSUME DispatcherInv, NEW c \in Callers, NEW list \in SUBSET Frames, SendSync(c, list)
  PROVE  DispatcherInv'
<1>1. ~slot.active
  BY CallersAssumption DEF DispatcherInv, SlotOwned, SendSync
<1>2. /\ at' = [at EXCEPT ![c] = "waiting"] /\ modemLock' = c
      /\ slot' = [active |-> TRUE, list |-> list, resp |-> NoFrame]
      /\ sem' = 0 /\ urc' = urc
  BY <1>1 DEF SendSync
<1>3. DispatcherTypeOK'
  BY <1>2 DEF DispatcherInv, DispatcherTypeOK, Places
<1>4. SlotOwned'
  <2>1. \A d \in Callers : at[d] = "idle"
    BY CallersAssumption DEF DispatcherInv, SlotOwned, SendSync
  <2> QED
    BY <1>2, <2>1, CallersAssumption DEF DispatcherInv, DispatcherTypeOK, SlotOwned
<1>5. NoLostWakeup'
  BY <1>2 DEF NoLostWakeup
<1> QED
  BY <1>3, <1>4, <1>5 DEF DispatcherInv

LEMMA TimesOutInv ==
  ASSUME DispatcherInv, NEW c \in Callers, TimesOut(c)
  PROVE  DispatcherInv'
<1>1. DispatcherTypeOK'
  BY DEF DispatcherInv, DispatcherTypeOK, Places, TimesOut
<1>2. SlotOwned'
  BY DEF DispatcherInv, DispatcherTypeOK, SlotOwned, TimesOut
<1>3. NoLostWakeup'
  BY DEF DispatcherInv, NoLostWakeup, TimesOut, Matches
<1> QED
  BY <1>1, <1>2, <1>3 DEF DispatcherInv

\* A call ends: it was the only one, and it leaves the slot inactive.
LEMMA ReturnsInv ==
  ASSUME DispatcherInv, NEW c \in Callers, NEW r, Returns(c, r)
  PROVE  DispatcherInv'
<1>1. DispatcherTypeOK'
  BY DEF DispatcherInv, DispatcherTypeOK, Places, Returns
<1>2. SlotOwned'
  <2>1. modemLock = c
    BY DEF DispatcherInv, SlotOwned, Returns
  <2>2. \A d \in Callers : at'[d] = "idle"
    BY <2>1 DEF DispatcherInv, DispatcherTypeOK, SlotOwned, Returns
  <2> QED
    BY <2>2, CallersAssumption DEF SlotOwned, Returns
<1>3. NoLostWakeup'
  BY DEF NoLostWakeup, Returns
<1> QED
  BY <1>1, <1>2, <1>3 DEF DispatcherInv

\* A frame: to an open slot that names it, which is closed and its task woken; or past it.
LEMMA HandleFrameInv ==
  ASSUME DispatcherInv, NEW f \in Frames, HandleFrame(f)
  PROVE  DispatcherInv'
<1>1. CASE slot.active /\ Matches(f, slot.list)
  <2>1. /\ slot' = [slot EXCEPT !.active = FALSE, !.resp = f]
        /\ sem' = 1 /\ UNCHANGED <<urc, at, modemLock>>
    BY <1>1 DEF HandleFrame
  <2>2. /\ slot'.active = FALSE /\ slot'.list = slot.list /\ slot'.resp = f
        /\ slot' \in [active : BOOLEAN, list : SUBSET Frames, resp : Frames \cup {NoFrame}]
    BY <2>1 DEF DispatcherInv, DispatcherTypeOK
  <2>3. DispatcherTypeOK'
    BY <2>1, <2>2 DEF DispatcherInv, DispatcherTypeOK
  <2>4. SlotOwned'
    BY <2>1, <2>2 DEF DispatcherInv, SlotOwned
  <2>5. NoLostWakeup'
    BY <1>1, <2>1, <2>2, FramesAssumption DEF NoLostWakeup, Matches
  <2> QED
    BY <2>3, <2>4, <2>5 DEF DispatcherInv
<1>2. CASE ~(slot.active /\ Matches(f, slot.list))
  <2>1. UNCHANGED <<slot, sem, at, modemLock>> /\ urc' \in Subscribed \cup {NoFrame}
    BY <1>2 DEF HandleFrame
  <2> QED
    BY <2>1 DEF DispatcherInv, DispatcherTypeOK, SlotOwned, NoLostWakeup, Matches
<1> QED
  BY <1>1, <1>2

LEMMA CallbackDoneInv ==
  ASSUME DispatcherInv, CallbackDone
  PROVE  DispatcherInv'
BY DEF DispatcherInv, DispatcherTypeOK, SlotOwned, NoLostWakeup, Matches, CallbackDone

LEMMA DispatcherNextInv ==
  ASSUME DispatcherInv, [DispatcherNext]_dispatcherVars
  PROVE  DispatcherInv'
<1>1. CASE UNCHANGED dispatcherVars
  BY <1>1 DEF dispatcherVars, DispatcherInv, DispatcherTypeOK, SlotOwned, NoLostWakeup, Matches
<1>2. CASE DispatcherNext
  BY <1>2, SendSyncInv, TimesOutInv, ReturnsInv, HandleFrameInv, CallbackDoneInv
     DEF DispatcherNext
<1> QED
  BY <1>1, <1>2

(***************************************************************************)
(* One call at a time, its slot never left open, its wake-up never lost.   *)
(***************************************************************************)
THEOREM DispatcherInvariance == DispatcherSpec => []DispatcherInv
<1>1. DispatcherInv /\ [DispatcherNext]_dispatcherVars => DispatcherInv'
  BY DispatcherNextInv
<1> QED
  BY DispatcherInitInv, <1>1, PTL DEF DispatcherSpec

-----------------------------------------------------------------------------
\* Every step of the dispatcher is a step of AtCalls, or none.
LEMMA DispatcherStepCalls ==
  ASSUME DispatcherInv, [DispatcherNext]_dispatcherVars
  PROVE  [Calls!Next]_(Calls!vars)
<1>1. CASE UNCHANGED dispatcherVars
  BY <1>1 DEF dispatcherVars, Calls!vars
<1>2. ASSUME NEW c \in Callers, NEW list \in SUBSET Frames, SendSync(c, list)
      PROVE  Calls!Next
  <2>1. ~slot.active /\ modemLock = NoOne
    BY <1>2 DEF DispatcherInv, SlotOwned, SendSync
  <2>2. modemLock' = c /\ slot'.list = list /\ slot'.resp = NoFrame
    BY <1>2, <2>1 DEF SendSync
  <2> QED
    BY <2>1, <2>2 DEF Calls!Next, Calls!Begin
<1>3. ASSUME NEW c \in Callers, NEW r, Returns(c, r)
      PROVE  Calls!Next
  <2>1. modemLock = c /\ modemLock # NoOne
    BY <1>3, CallersAssumption DEF DispatcherInv, SlotOwned, Returns
  <2>2. modemLock' = NoOne /\ slot'.list = {} /\ slot'.resp = NoFrame
    BY <1>3 DEF Returns
  <2> QED
    BY <2>1, <2>2 DEF Calls!Next, Calls!End
<1>4. ASSUME NEW c \in Callers, TimesOut(c)
      PROVE  UNCHANGED Calls!vars
  BY <1>4 DEF TimesOut, Calls!vars
<1>5. ASSUME NEW f \in Frames, HandleFrame(f)
      PROVE  Calls!Next \/ UNCHANGED Calls!vars
  <2>1. CASE slot.active /\ Matches(f, slot.list)
    <3>1. modemLock # NoOne /\ slot.resp = NoFrame
      BY <2>1 DEF DispatcherInv, SlotOwned, NoLostWakeup
    <3>2. slot'.list = slot.list /\ slot'.resp = f /\ modemLock' = modemLock
      BY <1>5, <2>1 DEF HandleFrame, DispatcherInv, DispatcherTypeOK
    <3> QED
      BY <2>1, <3>1, <3>2 DEF Matches, Calls!Next, Calls!Answer, Calls!Answers
  <2>2. CASE ~(slot.active /\ Matches(f, slot.list))
    BY <1>5, <2>2 DEF HandleFrame, Calls!vars
  <2> QED
    BY <2>1, <2>2
<1>6. ASSUME CallbackDone
      PROVE  UNCHANGED Calls!vars
  BY <1>6 DEF CallbackDone, Calls!vars
<1> QED
  BY <1>1, <1>2, <1>3, <1>4, <1>5, <1>6 DEF DispatcherNext

(***************************************************************************)
(* The dispatcher implements AtCalls: whatever the parser, the time-outs   *)
(* and the tasks do, calls are made one at a time, and what a call has     *)
(* taken is a frame it named.                                              *)
(***************************************************************************)
THEOREM DispatcherImplementsCalls == DispatcherSpec => OneCallAtATime
<1>1. DispatcherInit => Calls!Init
  BY DEF DispatcherInit, Calls!Init
<1>2. DispatcherInv /\ [DispatcherNext]_dispatcherVars => [Calls!Next]_(Calls!vars)
  BY DispatcherStepCalls
<1> QED
  BY <1>1, <1>2, DispatcherInvariance, PTL DEF DispatcherSpec, OneCallAtATime, Calls!Spec

-----------------------------------------------------------------------------
(* The link                                                                *)

UartOK == uart \in Seq(Frames)

LEMMA EmitOK ==
  ASSUME UartOK, NEW f \in Frames, Emit(f)
  PROVE  UartOK'
BY DEF UartOK, Emit

\* Whatever a command does to the modem, it answers with one of its frames or none.
LEMMA HearsOK ==
  ASSUME UartOK, NEW name, Hears(name)
  PROVE  UartOK'
<1>1. CASE UNCHANGED uart
  BY <1>1 DEF UartOK
<1>2. CASE \E f \in Frames : Emit(f)
  BY <1>2, EmitOK
<1>3. Hears(name) => UNCHANGED uart \/ \E f \in Frames : Emit(f)
  <2>1. Obeys(name) => UNCHANGED uart \/ \E f \in Frames : Emit(f)
    BY FramesAre DEF Obeys
  <2> QED
    BY <2>1, FramesAre DEF Hears
<1> QED
  BY <1>1, <1>2, <1>3

LEMMA CommandOK ==
  ASSUME UartOK, NEW c \in Callers, NEW name, NEW list \in SUBSET Frames,
         Command(c, name, list)
  PROVE  DispatcherNext /\ UartOK'
BY HearsOK DEF Command, DispatcherNext

LEMMA ReturnedOK ==
  ASSUME UartOK, NEW c \in Callers, NEW r \in Frames \cup {NoFrame}, Returned(c, r)
  PROVE  DispatcherNext /\ UartOK'
BY DEF Returned, DispatcherNext, UartOK

LEMMA ConnectingOK ==
  ASSUME UartOK, Connecting
  PROVE  [DispatcherNext]_dispatcherVars /\ UartOK'
<1> USE CallersAre
<1>1. CASE Top \/ HwReset \/ WaitForBoot \/ UnsetRetarget
  BY <1>1 DEF Top, HwReset, WaitForBoot, UnsetRetarget, TaskOnly, UartOK
<1>2. CASE SwReset
  BY <1>2, HearsOK DEF SwReset
<1>3. CASE ReadNum \/ Disconnect \/ WriteIp \/ OpenTcp
  BY <1>3, CommandOK, FramesAre DEF ReadNum, Disconnect, WriteIp, OpenTcp
<1>4. CASE NumRead \/ ChooseServer \/ IpWritten \/ TcpOpened \/ NotOpened
  BY <1>4, ReturnedOK, FramesAre DEF NumRead, ChooseServer, IpWritten, TcpOpened, NotOpened
<1> QED
  BY <1>1, <1>2, <1>3, <1>4 DEF Connecting

LEMMA ServingOK ==
  ASSUME UartOK, Serving
  PROVE  [DispatcherNext]_dispatcherVars /\ UartOK'
<1> USE CallersAre
<1>1. CASE LeaveSession \/ GhostSession \/ Receive
  BY <1>1 DEF LeaveSession, GhostSession, Receive, TaskOnly, ModemVars, UartOK
<1>2. CASE Send
  BY <1>2, CommandOK, FramesAre DEF Send
<1>3. CASE Sent
  BY <1>3, ReturnedOK, FramesAre DEF Sent
<1> QED
  BY <1>1, <1>2, <1>3 DEF Serving

LEMMA WorkerOK ==
  ASSUME UartOK, Worker
  PROVE  [DispatcherNext]_dispatcherVars /\ UartOK'
<1> USE CallersAre
<1>1. CASE SetRetargetIp \/ SetRetarget \/ SetServer
  BY <1>1 DEF SetRetargetIp, SetRetarget, SetServer, TaskOnly, UartOK
<1>2. CASE ReadSms \/ Reply \/ ReplyText
  BY <1>2, CommandOK, FramesAre DEF ReadSms, Reply, ReplyText
<1>3. CASE Prompted \/ Replied
  BY <1>3, ReturnedOK, FramesAre DEF Prompted, Replied
<1>4. CASE SmsRead
  <2>1. PICK r \in {"CMGR", NoFrame} :
          /\ Returns(Sms, r)
          /\ Hears("CMGD") \/ UNCHANGED ModemVars
    BY <1>4 DEF SmsRead
  <2>2. DispatcherNext
    BY <2>1, FramesAre DEF DispatcherNext
  <2>3. UartOK'
    BY <2>1, HearsOK DEF ModemVars, UartOK
  <2> QED
    BY <2>2, <2>3
<1> QED
  BY <1>1, <1>2, <1>3, <1>4 DEF Worker

\* The parser takes a frame from the head of the line.
LEMMA ParserOK ==
  ASSUME UartOK, Parser
  PROVE  [DispatcherNext]_dispatcherVars /\ UartOK'
<1>1. CASE Parse
  <2>1. uart # <<>> /\ uart' = Tail(uart)
    BY <1>1 DEF Parse
  <2>2. Head(uart) \in Frames /\ UartOK'
    BY <2>1 DEF UartOK
  <2>3. HandleFrame(Head(uart)) \/ UNCHANGED dispatcherVars
    BY <1>1 DEF Parse
  <2> QED
    BY <2>2, <2>3 DEF DispatcherNext
<1>2. CASE Callback
  BY <1>2 DEF Callback, DispatcherNext, ModemVars, UartOK
<1> QED
  BY <1>1, <1>2 DEF Parser

LEMMA UnaskedOK ==
  ASSUME UartOK, Booted \/ External
  PROVE  [DispatcherNext]_dispatcherVars /\ UartOK'
<1>1. UNCHANGED dispatcherVars
  BY DEF Booted, External, ServerSends, SessionDrops, ModemFails, SmsArrives, Unasked
<1>2. UNCHANGED uart \/ \E f \in Frames : Emit(f)
  BY FramesAre DEF Booted, External, ServerSends, SessionDrops, ModemFails, SmsArrives
<1>3. UartOK'
  BY <1>2, EmitOK DEF UartOK
<1> QED
  BY <1>1, <1>3

LEMMA LinkStepOK ==
  ASSUME UartOK, [Next]_vars
  PROVE  [DispatcherNext]_dispatcherVars /\ UartOK'
<1>1. CASE UNCHANGED vars
  BY <1>1 DEF vars, linkVars, UartOK
<1>2. CASE Direct
  BY <1>2, CommandOK, CallersAre DEF Direct
<1>3. CASE DirectDone
  BY <1>3, ReturnedOK, CallersAre DEF DirectDone
<1>4. CASE Reconfigure
  BY <1>4 DEF Reconfigure, UartOK
<1>5. CASE \E c \in Callers : Expires(c)
  BY <1>5 DEF Expires, DispatcherNext, UartOK
<1>6. CASE HourPasses
  BY <1>6 DEF HourPasses, ModemVars, UartOK
<1> QED
  BY <1>1, <1>2, <1>3, <1>4, <1>5, <1>6, ConnectingOK, ServingOK, WorkerOK, ParserOK,
     UnaskedOK DEF Next

(***************************************************************************)
(* The link is a behaviour of the dispatcher: its three tasks, its parser  *)
(* and its modem, whatever fails.                                          *)
(***************************************************************************)
THEOREM LinkUsesDispatcher == Spec => DispatcherSpec
<1>1. Init => DispatcherInit /\ UartOK
  BY DEF Init, UartOK
<1>2. UartOK /\ [Next]_vars => [DispatcherNext]_dispatcherVars /\ UartOK'
  BY LinkStepOK
<1> QED
  BY <1>1, <1>2, PTL DEF Spec, DispatcherSpec

(***************************************************************************)
(* In the link the pending slot belongs to the task that holds the modem   *)
(* lock, and is never found active by a task that takes it.                *)
(***************************************************************************)
THEOREM LinkSlotOwned == Spec => []SlotOwned
BY LinkUsesDispatcher, DispatcherInvariance, PTL DEF DispatcherInv

(***************************************************************************)
(* In the link no wake-up is lost: a slot the parser has closed has its    *)
(* semaphore released and a frame its task asked for.                      *)
(***************************************************************************)
THEOREM LinkNoLostWakeup == Spec => []NoLostWakeup
BY LinkUsesDispatcher, DispatcherInvariance, PTL DEF DispatcherInv

(***************************************************************************)
(* The calls of the link's tasks are those of AtCalls.                     *)
(***************************************************************************)
THEOREM LinkCallsOneAtATime == Spec => OneCallAtATime
BY LinkUsesDispatcher, DispatcherImplementsCalls

-----------------------------------------------------------------------------
(* The types of the link's own variables.  A redirection may be to NoServer*)
(* only as long as no message has come, which TypeOK does not say and the  *)
(* type of `target' rests on.                                              *)

LinkTypes ==
  /\ flags \subseteq {"disconnected", "rebooted"}
  /\ config \in Servers /\ target \in Servers \cup {NoServer}
  /\ retarget \in [set : BOOLEAN, ip : Servers \cup {NoServer}]
  /\ wtd \in [elapsed : BOOLEAN, step : 1..3, failed : BOOLEAN]
  /\ smsQueue \in 0..SmsQueueDepth /\ tcpQueue \in 0..1

LEMMA SequenceLength == Len(ResetSeq) = 3
BY DEF ResetSeq

LEMMA ConnectingTypes ==
  ASSUME LinkTypes, Connecting
  PROVE  LinkTypes'
<1>1. CASE Top
  <2>1. /\ wtd' \in [elapsed : BOOLEAN, step : 1..3, failed : BOOLEAN]
        /\ flags' = {}
    <3>1. CASE wtd.elapsed
      <4> DEFINE step == IF wtd.step < 3 THEN wtd.step + 1 ELSE wtd.step
      <4>1. wtd' = [elapsed |-> FALSE, failed |-> FALSE, step |-> step] /\ flags' = {}
        BY <1>1, <3>1, SequenceLength DEF Top
      <4>2. step \in 1..3
        BY DEF LinkTypes
      <4> HIDE DEF step
      <4> QED
        BY <4>1, <4>2
    <3>2. CASE ~wtd.elapsed
      BY <1>1, <3>2 DEF Top, LinkTypes
    <3> QED
      BY <3>1, <3>2
  <2> QED
    BY <1>1, <2>1 DEF Top, LinkTypes, TaskOnly, TargetVars, SmsVars
<1>2. CASE HwReset \/ SwReset \/ WaitForBoot \/ ReadNum \/ NumRead \/ Disconnect
  BY <1>2 DEF HwReset, SwReset, WaitForBoot, ReadNum, NumRead, Disconnect, Command,
     Returned, LinkTypes, TaskOnly, TargetVars, SmsVars
<1>3. CASE ChooseServer \/ UnsetRetarget
  BY <1>3 DEF ChooseServer, UnsetRetarget, Returned, LinkTypes, TaskOnly, SmsVars
<1>4. CASE WriteIp \/ IpWritten \/ OpenTcp \/ TcpOpened \/ NotOpened
  BY <1>4 DEF WriteIp, IpWritten, OpenTcp, TcpOpened, NotOpened, Command, Returned,
     LinkTypes, TargetVars, SmsVars
<1> QED
  BY <1>1, <1>2, <1>3, <1>4 DEF Connecting

\* The session is left with the first step of the reset sequence to come.
LEMMA LeaveOK ==
  ASSUME Leave
  PROVE  wtd' \in [elapsed : BOOLEAN, step : 1..3, failed : BOOLEAN]
BY DEF Leave

LEMMA ServingTypes ==
  ASSUME LinkTypes, Serving
  PROVE  LinkTypes'
<1>1. CASE Send
  BY <1>1 DEF Send, Command, LinkTypes, TargetVars, SmsVars
<1>2. CASE Sent
  <2>1. Leave \/ UNCHANGED wtd
    BY <1>2 DEF Sent
  <2>2. wtd' \in [elapsed : BOOLEAN, step : 1..3, failed : BOOLEAN]
    BY <2>1, LeaveOK DEF LinkTypes
  <2>3. UNCHANGED <<flags, TargetVars, SmsVars>> /\ UNCHANGED tcpQueue
    BY <1>2 DEF Sent, Returned
  <2> QED
    BY <2>2, <2>3 DEF LinkTypes, TargetVars, SmsVars
<1>3. CASE LeaveSession \/ GhostSession
  BY <1>3, LeaveOK DEF LeaveSession, GhostSession, TaskOnly, LinkTypes, TargetVars, SmsVars
<1>4. CASE Receive
  BY <1>4 DEF Receive, LinkTypes, TargetVars, SmsVars
<1> QED
  BY <1>1, <1>2, <1>3, <1>4 DEF Serving

LEMMA WorkerTypes ==
  ASSUME LinkTypes, Worker
  PROVE  LinkTypes'
<1>1. CASE ReadSms
  BY <1>1 DEF ReadSms, Command, WorkerOnly, TaskVars, LinkTypes, SmsQueueDepth
<1>4. CASE SmsRead
  BY <1>4 DEF SmsRead, WorkerOnly, TaskVars, LinkTypes
<1>2. CASE SetRetargetIp \/ SetRetarget \/ SetServer
  BY <1>2 DEF SetRetargetIp, SetRetarget, SetServer, Configure, WorkerOnly, TaskOnly,
     TaskVars, LinkTypes
<1>3. CASE Reply \/ Prompted \/ ReplyText \/ Replied
  BY <1>3 DEF Reply, Prompted, ReplyText, Replied, Command, Returned, WorkerOnly,
     TaskVars, LinkTypes
<1> QED
  BY <1>1, <1>2, <1>3, <1>4 DEF Worker

LEMMA ParserTypes ==
  ASSUME LinkTypes, Parser
  PROVE  LinkTypes'
<1>1. CASE Parse
  <2>1. tcpQueue' \in 0..1 /\ smsQueue' \in 0..SmsQueueDepth
    BY <1>1 DEF Parse, LinkTypes, SmsQueueDepth
  <2> QED
    BY <1>1, <2>1 DEF Parse, LinkTypes, TaskVars, TargetVars
<1>2. CASE Callback
  BY <1>2 DEF Callback, LinkTypes, TaskVars, TargetVars, SmsVars
<1> QED
  BY <1>1, <1>2 DEF Parser

LEMMA LinkStepTypes ==
  ASSUME LinkTypes, [Next]_vars
  PROVE  LinkTypes'
<1>1. CASE UNCHANGED vars
  BY <1>1 DEF vars, linkVars, LinkTypes
<1>2. CASE Direct \/ DirectDone \/ Reconfigure
  BY <1>2 DEF Direct, DirectDone, Reconfigure, Command, Returned, Configure, LinkTypes,
     TaskVars, TargetVars, SmsVars
<1>3. CASE \E c \in Callers : Expires(c)
  BY <1>3 DEF Expires, LinkTypes, TaskVars, TargetVars, SmsVars
<1>4. CASE HourPasses
  BY <1>4 DEF HourPasses, LinkTypes, TargetVars, SmsVars
<1>5. CASE Booted \/ External
  BY <1>5 DEF Booted, External, ServerSends, SessionDrops, ModemFails, SmsArrives,
     Unasked, LinkTypes, TaskVars, TargetVars, SmsVars
<1> QED
  BY <1>1, <1>2, <1>3, <1>4, <1>5, ConnectingTypes, ServingTypes, WorkerTypes, ParserTypes
     DEF Next

(***************************************************************************)
(* Every variable of the link has its type: the server connected to is one *)
(* of the configured ones or none, the reset sequence stays within its     *)
(* three steps, the two queues within their depths, and the modem sends    *)
(* only frames the dispatcher knows.                                       *)
(***************************************************************************)
THEOREM LinkTypeCorrect == Spec => []TypeOK
<1>1. Init => LinkTypes
  BY ServersAre DEF Init, LinkTypes, SmsQueueDepth
<1>2. LinkTypes /\ [Next]_vars => LinkTypes'
  BY LinkStepTypes
<1>3. Init => UartOK
  BY DEF Init, UartOK
<1>4. UartOK /\ [Next]_vars => UartOK'
  BY LinkStepOK
<1>5. DispatcherInv /\ LinkTypes /\ UartOK => TypeOK
  BY SequenceLength DEF DispatcherInv, LinkTypes, UartOK, TypeOK
<1> QED
  BY <1>1, <1>2, <1>3, <1>4, <1>5, LinkUsesDispatcher, DispatcherInvariance, PTL DEF Spec
===============================================================================
