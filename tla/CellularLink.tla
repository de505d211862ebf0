----------------------------- MODULE CellularLink -----------------------------
(***************************************************************************)
(* The cellular link to the server: the cellular task (connect_tcp and the *)
(* loop that serves the session), the SMS worker that may redirect it, a   *)
(* console task that sends a command of its own, the AT parser, and the    *)
(* TX700 modem, all through AtDispatcher.  The modem is external: it does  *)
(* what the driver's commands, prefixes and comments suppose.  It obeys a  *)
(* command as it arrives; its frames wait in `uart` for the parser as long *)
(* as they please.                                                         *)
(***************************************************************************)
EXTENDS AtDispatcher, Naturals

CONSTANTS
  Servers, NoServer,
  Cell, Sms, Console,   \* the three callers
  Budgets,              \* the events a behaviour may have: of them, messages at most
  FirstServer           \* the server configured at the start

ASSUME CallersAre == Callers = {Cell, Sms, Console}
ASSUME FramesAre ==
  /\ {"605", "603", "602", "ADDR", "SENT", "NOTSENT", "34", "CMTI", "BIN",
      "CMGR", "PROMPT", "45", "CNUM", "OK"} \subseteq Frames
  /\ Subscribed = {"605", "34"}
ASSUME ServersAre == FirstServer \in Servers /\ NoServer \notin Servers

VARIABLES
  cell,      \* the step of the cellular task
  state,     \* local_state of connect_tcp
  wtd,       \* the reset sequence: elapsed or not, which step, a failure seen since
  flags,     \* s_app_event_flags
  config,    \* the configured server
  retarget,  \* s_cdma_retarget and s_cdma_retarget_ip
  target,    \* the ip connect_tcp connects to
  copied,    \* the ip cellular_task compares the configuration with
  missed,    \* history: what the last connection went past
  sms,       \* the step of the SMS worker
  smsQueue,  \* messages in s_sms_queue
  uart,      \* frames on their way from the modem
  tcpQueue,  \* s_tx700_tcp_queue, one deep
  modem,     \* power, prompt, session, address, stored messages
  budget     \* the events left: faults, messages, changes of the configuration

linkVars == <<cell, state, wtd, flags, config, retarget, target, copied,
              missed, sms, smsQueue, uart, tcpQueue, modem, budget>>
vars == <<dispatcherVars, linkVars>>

SmsQueueDepth == 4
ResetSeq == <<"sw", "hw", "hw">>          \* reset_sequence

TaskVars   == <<cell, state, wtd>>
TargetVars == <<config, retarget, target, copied>>
SmsVars    == <<sms, smsQueue>>
ModemVars  == <<uart, modem, missed, budget>>

Init ==
  /\ DispatcherInit
  /\ cell = "top" /\ state = "hw"
  /\ wtd = [elapsed |-> FALSE, step |-> 1, failed |-> FALSE]
  /\ flags = {}
  /\ config = FirstServer
  /\ retarget = [set |-> FALSE, ip |-> NoServer]
  /\ target = NoServer /\ copied = NoServer /\ missed = {}
  /\ sms = "idle" /\ smsQueue = 0
  /\ uart = <<>> /\ tcpQueue = 0
  /\ modem = [power |-> "on", prompt |-> FALSE, session |-> NoServer,
              address |-> NoServer, stored |-> 0]
  /\ budget \in Budgets

-----------------------------------------------------------------------------
(* The modem, as a command reaches it                                      *)

Emit(f) == uart' = Append(uart, f)
Fault == budget.all > 0 /\ budget' = [budget EXCEPT !.all = @ - 1]
NoFault == UNCHANGED budget

Rebooted(m) == [m EXCEPT !.power = "booting", !.prompt = FALSE, !.session = NoServer]

Obeys(name) ==
  \/ /\ name = "CLOSE" /\ NoFault /\ Emit("605")
     /\ modem' = [modem EXCEPT !.session = NoServer]
  \/ /\ name = "ADDR" /\ NoFault /\ Emit("ADDR")
     /\ modem' = [modem EXCEPT !.address = target]
  \/ /\ name = "OPEN" /\ modem.address # NoServer /\ NoFault /\ Emit("603")
     /\ modem' = [modem EXCEPT !.session = modem.address]
  \/ /\ name = "OPEN" /\ Emit("602") /\ UNCHANGED modem
     /\ IF modem.address = NoServer THEN NoFault ELSE Fault
  \/ /\ name = "SEND" /\ NoFault /\ UNCHANGED modem
     /\ Emit(IF modem.session # NoServer THEN "SENT" ELSE "NOTSENT")
  \/ /\ name = "CMGR" /\ NoFault /\ UNCHANGED modem
     /\ IF modem.stored > 0 THEN Emit("CMGR") ELSE UNCHANGED uart
  \/ /\ name = "CMGD" /\ NoFault /\ UNCHANGED uart
     /\ modem' = [modem EXCEPT !.stored = 0]
  \/ /\ name = "CMGS" /\ NoFault /\ Emit("PROMPT")
     /\ modem' = [modem EXCEPT !.prompt = TRUE]
  \/ /\ name = "RESET" /\ NoFault /\ UNCHANGED uart
     /\ modem' = Rebooted(modem)
  \/ /\ name \in {"CNUM"} /\ NoFault /\ Emit(name) /\ UNCHANGED modem
  \/ /\ name = "DIRECT" /\ Fault /\ Emit("OK") /\ UNCHANGED modem
  \/ /\ name = "TEXT" /\ NoFault /\ UNCHANGED <<modem, uart>>

(***************************************************************************)
(* At the SMS prompt every byte is text, until the text that ends it; a    *)
(* modem that boots or hangs hears nothing.                                *)
(***************************************************************************)
Hears(name) ==
  /\ IF modem.power = "on" /\ ~modem.prompt
       THEN Obeys(name)
       ELSE /\ IF modem.power = "on" /\ name = "TEXT"
                 THEN Emit("45") /\ modem' = [modem EXCEPT !.prompt = FALSE]
                 ELSE UNCHANGED <<uart, modem>>
            /\ IF name = "DIRECT" THEN Fault ELSE NoFault
  /\ missed' = IF name = "ADDR" /\ (modem.power # "on" \/ modem.prompt)
                 THEN missed \cup {"address"} ELSE missed

\* A task sends a command and waits for a frame of its list.
Command(c, name, list) ==
  /\ SendSync(c, list)
  /\ Hears(name)
  /\ UNCHANGED <<flags, tcpQueue>>

\* Its call has returned r.
Returned(c, r) ==
  /\ Returns(c, r)
  /\ UNCHANGED <<tcpQueue, uart, modem, budget>>

TaskOnly == UNCHANGED <<dispatcherVars, uart, tcpQueue, modem, budget>>

-----------------------------------------------------------------------------
(* connect_tcp                                                             *)

(***************************************************************************)
(* The head of its loop: the flags, then get_next_state_by_timeout.  A     *)
(* TX700 has no VPN, so VPN_LOGIN goes round once more.                    *)
(***************************************************************************)
Top ==
  /\ cell = "top"
  /\ LET byFlags == IF "disconnected" \in flags THEN "connect"
                    ELSE IF "rebooted" \in flags THEN "init" ELSE state
         next    == IF wtd.elapsed THEN ResetSeq[wtd.step] ELSE byFlags
     IN IF next = "vpn" THEN state' = "connect" /\ UNCHANGED cell
                        ELSE state' = next /\ cell' = next
  /\ wtd' = IF wtd.elapsed
              THEN [elapsed |-> FALSE, failed |-> FALSE,
                    step |-> IF wtd.step < Len(ResetSeq) THEN wtd.step + 1 ELSE wtd.step]
              ELSE wtd
  /\ flags' = {}
  /\ TaskOnly /\ UNCHANGED <<TargetVars, missed, SmsVars>>

Go(next) == cell' = "top" /\ state' = next

\* Power off, two seconds, power on.
HwReset ==
  /\ cell = "hw"
  /\ Go("boot")
  /\ modem' = Rebooted(modem)
  /\ UNCHANGED <<dispatcherVars, wtd, flags, TargetVars, missed, SmsVars, uart, tcpQueue, budget>>

SwReset ==
  /\ cell = "sw"
  /\ Go("boot")
  /\ Hears("RESET")
  /\ UNCHANGED <<dispatcherVars, wtd, flags, TargetVars, SmsVars, tcpQueue>>

\* osEventFlagsWait: either flag, or thirty seconds, in which a modem boots.
WaitForBoot ==
  /\ cell = "boot"
  /\ flags # {} \/ modem.power # "booting"
  /\ Go("init")
  /\ flags' = {}
  /\ TaskOnly /\ UNCHANGED <<wtd, TargetVars, missed, SmsVars>>

\* The telephone number, up to three times, and the signal strength: four calls
\* of one shape whose answers change nothing here, and one of them is modelled.
ReadNum ==
  /\ cell = "init"
  /\ Command(Cell, "CNUM", {"CNUM"})
  /\ cell' = "numbering"
  /\ UNCHANGED <<state, wtd, TargetVars, SmsVars>>
NumRead ==
  /\ cell = "numbering"
  /\ \E r \in {"CNUM", NoFrame} : Returned(Cell, r)
  /\ Go("vpn")
  /\ UNCHANGED <<wtd, flags, TargetVars, missed, SmsVars>>

\* APP_STATE_CONNECT_TCP, call by call: close, choose the server, address, open.
Disconnect ==
  /\ cell = "connect"
  /\ Command(Cell, "CLOSE", {"605"})
  /\ cell' = "closing"
  /\ UNCHANGED <<state, wtd, TargetVars, SmsVars>>
\* Mutant: a reconnection goes where the last one went.
ChooseLast ==
  /\ cell = "closing"
  /\ \E r \in {"605", NoFrame} : Returned(Cell, r)
  /\ IF retarget.set
       THEN cell' = "unset" /\ target' = retarget.ip
       ELSE cell' = "address" /\ target' = IF target = NoServer THEN config ELSE target
  /\ missed' = {}
  /\ UNCHANGED <<state, wtd, flags, config, retarget, copied, SmsVars>>

ChooseServer ==
  /\ cell = "closing"
  /\ \E r \in {"605", NoFrame} : Returned(Cell, r)
  /\ IF retarget.set
       THEN cell' = "unset" /\ target' = retarget.ip
       ELSE cell' = "address" /\ target' = config
  /\ missed' = {}
  /\ UNCHANGED <<state, wtd, flags, config, retarget, copied, SmsVars>>
UnsetRetarget ==
  /\ cell = "unset"
  /\ cell' = "address"
  /\ retarget' = [retarget EXCEPT !.set = FALSE]
  /\ TaskOnly /\ UNCHANGED <<state, wtd, flags, config, target, copied, missed, SmsVars>>
WriteIp ==
  /\ cell = "address"
  /\ Command(Cell, "ADDR", {"ADDR"})
  /\ cell' = "addressing"
  /\ UNCHANGED <<state, wtd, TargetVars, SmsVars>>
IpWritten ==                               \* its result is not looked at
  /\ cell = "addressing"
  /\ \E r \in {"ADDR", NoFrame} : Returned(Cell, r)
  /\ cell' = "open"
  /\ UNCHANGED <<state, wtd, flags, TargetVars, missed, SmsVars>>
OpenTcp ==
  /\ cell = "open"
  /\ Command(Cell, "OPEN", {"603"})
  /\ cell' = "opening"
  /\ UNCHANGED <<state, wtd, TargetVars, SmsVars>>

\* Connected: the flags are cleared and cellular_task copies the configured server.
TcpOpened ==
  /\ cell = "opening"
  /\ Returned(Cell, "603")
  /\ cell' = "id" /\ state' = "communicate"
  /\ flags' = {}
  /\ copied' = config
  /\ UNCHANGED <<wtd, config, retarget, target, missed, SmsVars>>
NotOpened ==
  /\ cell = "opening"
  /\ Returned(Cell, NoFrame)
  /\ Go("connect")
  /\ wtd' = [wtd EXCEPT !.failed = TRUE]
  /\ UNCHANGED <<flags, TargetVars, missed, SmsVars>>

-----------------------------------------------------------------------------
(* cellular_task: the session                                              *)

\* cellular_send_tcp, of the device id (its result unused) or of an answer.
Send ==
  /\ cell \in {"id", "answer"}
  /\ Command(Cell, "SEND", {"SENT", "NOTSENT"})
  /\ cell' = IF cell = "id" THEN "iding" ELSE "answering"
  /\ UNCHANGED <<state, wtd, TargetVars, SmsVars>>

\* Out of the session and into connect_tcp, with a new reset sequence.
Leave ==
  /\ Go("vpn")
  /\ wtd' = [elapsed |-> FALSE, step |-> 1, failed |-> FALSE]

Sent ==
  /\ cell \in {"iding", "answering"}
  /\ \E r \in {"SENT", "NOTSENT", NoFrame} :
       /\ Returned(Cell, r)
       /\ IF cell = "answering" /\ r # "SENT" THEN Leave
                                              ELSE cell' = "comm" /\ UNCHANGED <<state, wtd>>
  /\ UNCHANGED <<flags, TargetVars, missed, SmsVars>>

\* Mutant: a redirection is not looked for.
LeaveNotIfRetargeted ==
  /\ cell = "comm"
  /\ flags # {} \/ config # copied
  /\ Leave
  /\ flags' = {}
  /\ TaskOnly /\ UNCHANGED <<TargetVars, missed, SmsVars>>

\* The head of the loop, when something ends the session ...
LeaveSession ==
  /\ cell = "comm"
  /\ flags # {} \/ retarget.set \/ config # copied
  /\ Leave
  /\ flags' = {}
  /\ TaskOnly /\ UNCHANGED <<TargetVars, missed, SmsVars>>

\* Mutant: the time of the last byte is set again on every pass.
GhostNever ==
  /\ cell = "comm" /\ flags = {} /\ tcpQueue = 0
  /\ modem.session = NoServer
  /\ UNCHANGED vars

\* ... three minutes without a byte: a server polls oftener while the session lasts.
GhostSession ==
  /\ cell = "comm" /\ flags = {} /\ tcpQueue = 0
  /\ modem.session = NoServer
  /\ Leave
  /\ TaskOnly /\ UNCHANGED <<flags, TargetVars, missed, SmsVars>>

\* ... and when nothing does, what the server sent, which may want an answer.
Receive ==
  /\ cell = "comm" /\ flags = {} /\ ~retarget.set /\ config = copied
  /\ tcpQueue = 1
  /\ tcpQueue' = 0
  /\ cell' \in {"comm", "answer"}
  /\ UNCHANGED <<dispatcherVars, state, wtd, flags, TargetVars, SmsVars, ModemVars>>

-----------------------------------------------------------------------------
(* The SMS worker: read, obey, answer                                      *)

WorkerOnly == UNCHANGED <<TaskVars, target, copied>>
Connects == cell \in {"unset", "address", "addressing", "open", "opening"}

ReadSms ==
  /\ sms = "idle" /\ smsQueue > 0
  /\ Command(Sms, "CMGR", {"CMGR"})
  /\ sms' = "reading" /\ smsQueue' = smsQueue - 1
  /\ WorkerOnly /\ UNCHANGED <<config, retarget>>
SmsRead ==                                 \* and AT+CMGD=,4 deletes them all
  /\ sms = "reading"
  /\ \E r \in {"CMGR", NoFrame} :
       /\ Returns(Sms, r)
       /\ IF r = "CMGR" THEN sms' = "obey" /\ Hears("CMGD")
                        ELSE sms' = "idle" /\ UNCHANGED ModemVars
  /\ WorkerOnly /\ UNCHANGED <<config, retarget, smsQueue, flags, tcpQueue>>
SetRetargetIp ==
  /\ sms = "obey"
  /\ \E ip \in Servers : retarget' = [retarget EXCEPT !.ip = ip]
  /\ sms' = "retarget"
  /\ WorkerOnly /\ TaskOnly /\ UNCHANGED <<smsQueue, flags, config, missed>>
SetRetarget ==
  /\ sms = "retarget"
  /\ retarget' = [retarget EXCEPT !.set = TRUE]
  /\ missed' = IF cell = "unset" THEN missed \cup {"retarget"} ELSE missed
  /\ sms' = "reply"
  /\ WorkerOnly /\ TaskOnly /\ UNCHANGED <<smsQueue, flags, config>>
Configure ==
  /\ config' \in Servers \ {config}
  /\ missed' = IF Connects THEN missed \cup {"config"} ELSE missed
SetServer ==
  /\ sms = "obey"
  /\ Configure
  /\ sms' = "idle"
  /\ WorkerOnly /\ TaskOnly /\ UNCHANGED <<smsQueue, flags, retarget>>
\* send_sms is two calls: the number, then the text the prompt asks for.
Reply ==
  /\ sms = "reply"
  /\ Command(Sms, "CMGS", {"PROMPT"})
  /\ sms' = "number"
  /\ WorkerOnly /\ UNCHANGED <<smsQueue, config, retarget>>
Prompted ==
  /\ sms = "number"
  /\ \E r \in {"PROMPT", NoFrame} :
       /\ Returned(Sms, r)
       /\ sms' = IF r = "PROMPT" THEN "text" ELSE "idle"
  /\ WorkerOnly /\ UNCHANGED <<smsQueue, flags, config, retarget, missed>>
ReplyText ==
  /\ sms = "text"
  /\ Command(Sms, "TEXT", {"45"})
  /\ sms' = "texting"
  /\ WorkerOnly /\ UNCHANGED <<smsQueue, config, retarget>>
Replied ==
  /\ sms = "texting"
  /\ \E r \in {"45", NoFrame} : Returned(Sms, r)
  /\ sms' = "idle"
  /\ WorkerOnly /\ UNCHANGED <<smsQueue, flags, config, retarget, missed>>

\* The console: at_direct takes whatever frame comes first.  One of the faults.
Direct ==
  /\ Command(Console, "DIRECT", {})
  /\ UNCHANGED <<TaskVars, TargetVars, SmsVars>>
DirectDone ==
  /\ \E r \in Frames \cup {NoFrame} : Returned(Console, r)
  /\ UNCHANGED <<TaskVars, flags, TargetVars, missed, SmsVars>>

\* A menu stores another server.
Reconfigure ==
  /\ Fault
  /\ Configure
  /\ UNCHANGED <<dispatcherVars, TaskVars, flags, retarget, target, copied, SmsVars, uart, tcpQueue, modem>>

-----------------------------------------------------------------------------
(* Time                                                                    *)

AnswerUnderWay == \E i \in 1..Len(uart) : Matches(uart[i], slot.list)

\* A wait gives up: with no answer coming; or, a fault, with the answer late.
Expires(c) ==
  /\ TimesOut(c)
  /\ IF AnswerUnderWay THEN Fault ELSE NoFault
  /\ UNCHANGED <<TaskVars, flags, TargetVars, missed, SmsVars, uart, tcpQueue, modem>>

\* An hour with failed attempts: connect_wtd_starttime is reset_time old.  In
\* that time the modem has booted and the parser has handled its notice of it.
HourPasses ==
  /\ wtd.failed /\ ~wtd.elapsed
  /\ modem.power # "booting" /\ urc = NoFrame /\ \A i \in 1..Len(uart) : uart[i] # "34"
  /\ wtd' = [wtd EXCEPT !.elapsed = TRUE]
  /\ UNCHANGED <<dispatcherVars, cell, state, flags, TargetVars, SmsVars, tcpQueue, ModemVars>>

-----------------------------------------------------------------------------
\* Mutant: the queue of received data has no end.
ParseUnbounded ==
  /\ uart # <<>> /\ urc = NoFrame
  /\ uart' = Tail(uart)
  /\ LET f == Head(uart) IN
       CASE f = "BIN"  -> tcpQueue' = tcpQueue + 1 /\ UNCHANGED <<dispatcherVars, smsQueue>>
         [] f = "CMTI" -> /\ smsQueue' = IF smsQueue < SmsQueueDepth THEN smsQueue + 1 ELSE smsQueue
                          /\ UNCHANGED <<dispatcherVars, tcpQueue>>
         [] OTHER      -> HandleFrame(f) /\ UNCHANGED <<smsQueue, tcpQueue>>
  /\ UNCHANGED <<TaskVars, flags, TargetVars, missed, sms, modem, budget>>

(***************************************************************************)
(* at_task: one frame.  Received data go to the queue of one, or are lost  *)
(* after 100 ms; a message notice to the SMS queue, or is lost; the rest to*)
(* the dispatcher.                                                         *)
(***************************************************************************)
Parse ==
  /\ uart # <<>> /\ urc = NoFrame
  /\ uart' = Tail(uart)
  /\ LET f == Head(uart) IN
       CASE f = "BIN"  -> tcpQueue' = 1 /\ UNCHANGED <<dispatcherVars, smsQueue>>
         [] f = "CMTI" -> /\ smsQueue' = IF smsQueue < SmsQueueDepth THEN smsQueue + 1 ELSE smsQueue
                          /\ UNCHANGED <<dispatcherVars, tcpQueue>>
         [] OTHER      -> HandleFrame(f) /\ UNCHANGED <<smsQueue, tcpQueue>>
  /\ UNCHANGED <<TaskVars, flags, TargetVars, missed, sms, modem, budget>>

\* dispatcher_urc_tcp_disconnected_cb, dispatcher_urc_reboot_cb
Callback ==
  /\ CallbackDone
  /\ flags' = flags \cup {IF urc = "605" THEN "disconnected" ELSE "rebooted"}
  /\ UNCHANGED <<TaskVars, TargetVars, SmsVars, tcpQueue, ModemVars>>

-----------------------------------------------------------------------------
(* The modem and the network of their own accord                           *)

Unasked == UNCHANGED <<dispatcherVars, TaskVars, flags, TargetVars, missed, SmsVars, tcpQueue>>

Booted ==
  /\ modem.power = "booting"
  /\ modem' = [modem EXCEPT !.power = "on"]
  /\ Emit("34")
  /\ Unasked /\ UNCHANGED budget
ServerSends ==
  /\ modem.power = "on" /\ modem.session # NoServer
  /\ \A i \in 1..Len(uart) : uart[i] # "BIN"
  /\ Emit("BIN")
  /\ Unasked /\ UNCHANGED <<modem, budget>>
SessionDrops ==                \* the modem reports it, or does not notice
  /\ modem.session # NoServer /\ Fault
  /\ modem' = [modem EXCEPT !.session = NoServer]
  /\ Emit("605") \/ UNCHANGED uart
  /\ Unasked
ModemFails ==                  \* it reboots, or hangs until it is powered off
  /\ modem.power = "on" /\ Fault
  /\ modem' \in {Rebooted(modem), [modem EXCEPT !.power = "hung", !.session = NoServer]}
  /\ Unasked /\ UNCHANGED uart
SmsArrives ==
  /\ modem.power = "on" /\ budget.sms > 0 /\ budget.all > 0
  /\ budget' = [sms |-> budget.sms - 1, all |-> budget.all - 1]
  /\ modem' = [modem EXCEPT !.stored = @ + 1]
  /\ Emit("CMTI")
  /\ Unasked

-----------------------------------------------------------------------------
Connecting ==
  \/ Top \/ HwReset \/ SwReset \/ WaitForBoot
  \/ ReadNum \/ NumRead
  \/ Disconnect \/ ChooseServer \/ UnsetRetarget
  \/ WriteIp \/ IpWritten \/ OpenTcp \/ TcpOpened \/ NotOpened
Serving == Send \/ Sent \/ LeaveSession \/ GhostSession \/ Receive
Worker ==
  \/ ReadSms \/ SmsRead \/ SetRetargetIp \/ SetRetarget \/ SetServer
  \/ Reply \/ Prompted \/ ReplyText \/ Replied
Parser == Parse \/ Callback
External == ServerSends \/ SessionDrops \/ ModemFails \/ SmsArrives

Next ==
  \/ Connecting \/ Serving \/ Worker \/ Direct \/ DirectDone \/ Reconfigure
  \/ \E c \in Callers : Expires(c)
  \/ HourPasses \/ Parser \/ Booted \/ External

(***************************************************************************)
(* Every task gets its turn, for the parser never has more than a few      *)
(* frames to handle; a wait ends, the hour passes; a modem that is powered *)
(* boots.  Nothing is asked of the network, the server or the operator.    *)
(***************************************************************************)
Fairness ==
  /\ WF_vars(Connecting \/ Serving) /\ WF_vars(Worker) /\ WF_vars(DirectDone)
  /\ \A c \in Callers : WF_vars(Expires(c))
  /\ WF_vars(HourPasses) /\ WF_vars(Parser) /\ WF_vars(Booted)

Spec == Init /\ [][Next]_vars /\ Fairness

-----------------------------------------------------------------------------
TypeOK ==
  /\ DispatcherTypeOK
  /\ flags \subseteq {"disconnected", "rebooted"}
  /\ config \in Servers /\ target \in Servers \cup {NoServer}
  /\ wtd \in [elapsed : BOOLEAN, step : 1..Len(ResetSeq), failed : BOOLEAN]
  /\ smsQueue \in 0..SmsQueueDepth /\ tcpQueue \in 0..1
  /\ uart \in Seq(Frames)

Serves == cell \in {"comm", "answer", "answering"}

(***************************************************************************)
(* Once nothing more goes wrong, the task serves a session the modem has,  *)
(* for good: a disconnect it lost, a late answer taken for another's, a    *)
(* modem left at the SMS prompt or hung, are all found out in the end (the *)
(* flags, the failed send, the three minutes, the reset sequence).         *)
(***************************************************************************)
LinkComesUp == <>[](Serves /\ modem.session # NoServer)

(***************************************************************************)
(* The session it serves in the end is with the server of the configuration*)
(* or with the one a message last redirected it to, unless the setting was *)
(* changed while connect_tcp was past it (get_ip before the copy           *)
(* cellular_task takes, the address before the reset of the flag) or the   *)
(* modem did not hear the address.                                         *)
(***************************************************************************)
RightServer == <>[](modem.session \in {config, retarget.ip} \/ missed # {})

(***************************************************************************)
(* A redirection a message asked for is tried, unless a later one replaces *)
(* it or it was set between the read of the address and the reset of the   *)
(* flag.                                                                   *)
(***************************************************************************)
RetargetTried ==
  \A ip \in Servers :
    (retarget.set /\ retarget.ip = ip)
      ~> (target = ip \/ retarget.ip # ip \/ "retarget" \in missed)
=============================================================================
