----------------------------- MODULE AtDispatcher -----------------------------
(***************************************************************************)
(* The AT dispatcher of the cellular middleware: one pending slot through  *)
(* which the tasks that send a command synchronously wait for its answer,  *)
(* and the parser task that offers every frame of the modem to that slot   *)
(* and, failing that, to the subscribers.  s_lock is held for the whole of *)
(* a step below and so is not a variable; the modem lock is held across a  *)
(* call.  A frame is its kind: the ack lists and the subscriptions are     *)
(* prefixes that tell the kinds apart and nothing more.                    *)
(***************************************************************************)
EXTENDS Sequences

CONSTANTS
  Callers,     \* the tasks that send AT commands
  Frames,      \* the kinds of frame the modem sends
  Subscribed,  \* those an URC callback is subscribed to
  NoOne, NoFrame

ASSUME CallersAssumption == NoOne \notin Callers
ASSUME FramesAssumption ==
  /\ NoFrame \notin Frames
  /\ Subscribed \subseteq Frames

VARIABLES
  at,         \* where each task is in dispatcher_send_sync
  modemLock,  \* s_modem_lock: its holder, or NoOne
  slot,       \* s_pending_sync_slot: active, the ack list, the response buffer
  sem,        \* the slot's semaphore
  urc         \* the frame whose callback the parser is in, or NoFrame

dispatcherVars == <<at, modemLock, slot, sem, urc>>

Places == {"idle", "waiting", "late"}

\* Mutant: any frame answers.
MatchesAny(f, list) == TRUE

Matches(f, list) == list = {} \/ f \in list

DispatcherInit ==
  /\ at = [c \in Callers |-> "idle"]
  /\ modemLock = NoOne
  /\ slot = [active |-> FALSE, list |-> {}, resp |-> NoFrame]
  /\ sem = 0
  /\ urc = NoFrame

(***************************************************************************)
(* dispatcher_send_sync up to the wait: the modem lock, then under s_lock  *)
(* the slot is filled, a new semaphore made and the command sent.          *)
(***************************************************************************)
SendSync(c, list) ==
  /\ at[c] = "idle"
  /\ modemLock = NoOne
  /\ IF slot.active
       THEN UNCHANGED <<at, modemLock, slot, sem>>      \* returns -1 at once
       ELSE /\ at' = [at EXCEPT ![c] = "waiting"]
            /\ modemLock' = c
            /\ slot' = [active |-> TRUE, list |-> list, resp |-> NoFrame]
            /\ sem' = 0
  /\ UNCHANGED urc

\* osSemaphoreAcquire gives up; s_lock has still to be taken.
TimesOut(c) ==
  /\ at[c] = "waiting"
  /\ sem = 0
  /\ at' = [at EXCEPT ![c] = "late"]
  /\ UNCHANGED <<modemLock, slot, sem, urc>>

\* Mutant: a call that has timed out leaves the slot open.
ReturnsOpen(c, r) ==
  /\ \/ at[c] = "waiting" /\ sem = 1 /\ r = slot.resp
     \/ at[c] = "late" /\ r = NoFrame
  /\ at' = [at EXCEPT ![c] = "idle"]
  /\ modemLock' = NoOne
  /\ sem' = 0
  /\ slot' = [slot EXCEPT !.resp = NoFrame]
  /\ UNCHANGED urc

(***************************************************************************)
(* The end of a call that returns `r`, a frame or, for -1, NoFrame: the    *)
(* semaphore was acquired; or the wait had timed out and the slot is closed*)
(* whatever it has received since.  The semaphore is deleted, the modem    *)
(* lock released; the slot's pointers are into a frame that is no more.    *)
(***************************************************************************)
Returns(c, r) ==
  /\ \/ at[c] = "waiting" /\ sem = 1 /\ r = slot.resp
     \/ at[c] = "late" /\ r = NoFrame
  /\ at' = [at EXCEPT ![c] = "idle"]
  /\ modemLock' = NoOne
  /\ sem' = 0
  /\ slot' = [active |-> FALSE, list |-> {}, resp |-> NoFrame]
  /\ UNCHANGED urc

\* Mutant: the slot is closed and the task not woken.
HandleFrameSilently(f) ==
  /\ urc = NoFrame
  /\ IF slot.active /\ Matches(f, slot.list)
       THEN /\ slot' = [slot EXCEPT !.active = FALSE, !.resp = f]
            /\ UNCHANGED <<sem, urc>>
       ELSE /\ urc' = IF f \in Subscribed THEN f ELSE NoFrame
            /\ UNCHANGED <<slot, sem>>
  /\ UNCHANGED <<at, modemLock>>

(***************************************************************************)
(* dispatcher_handle_frame, for the frame at the head of the parser's      *)
(* input: to the slot if it is waiting for it, else to its subscriber, else*)
(* to nobody.  The callback runs after s_lock is released.                 *)
(***************************************************************************)
HandleFrame(f) ==
  /\ urc = NoFrame
  /\ IF slot.active /\ Matches(f, slot.list)
       THEN /\ slot' = [slot EXCEPT !.active = FALSE, !.resp = f]
            /\ sem' = 1
            /\ UNCHANGED urc
       ELSE /\ urc' = IF f \in Subscribed THEN f ELSE NoFrame
            /\ UNCHANGED <<slot, sem>>
  /\ UNCHANGED <<at, modemLock>>

CallbackDone ==
  /\ urc # NoFrame
  /\ urc' = NoFrame
  /\ UNCHANGED <<at, modemLock, slot, sem>>

DispatcherNext ==
  \/ \E c \in Callers :
       \/ \E list \in SUBSET Frames : SendSync(c, list)
       \/ \E r \in Frames \cup {NoFrame} : Returns(c, r)
       \/ TimesOut(c)
  \/ \E f \in Frames : HandleFrame(f)
  \/ CallbackDone

DispatcherSpec == DispatcherInit /\ [][DispatcherNext]_dispatcherVars

-----------------------------------------------------------------------------
DispatcherTypeOK ==
  /\ at \in [Callers -> Places]
  /\ modemLock \in Callers \cup {NoOne}
  /\ slot \in [active : BOOLEAN, list : SUBSET Frames, resp : Frames \cup {NoFrame}]
  /\ sem \in {0, 1}
  /\ urc \in Subscribed \cup {NoFrame}

(***************************************************************************)
(* The slot belongs to the task that holds the modem lock: at most one     *)
(* task is inside a call, and when none is the slot is inactive, so that   *)
(* the early return of line 205 is never taken, as its comment says.       *)
(***************************************************************************)
SlotOwned ==
  /\ \A c \in Callers : at[c] # "idle" <=> modemLock = c
  /\ slot.active => modemLock # NoOne

(***************************************************************************)
(* No lost wake-up: a waiting task whose slot has been closed by the parser*)
(* has its semaphore released, and holds in the response buffer a frame    *)
(* its ack list names; one whose slot is open has not.                     *)
(***************************************************************************)
NoLostWakeup ==
  modemLock # NoOne =>
    /\ slot.active <=> sem = 0
    /\ slot.active <=> slot.resp = NoFrame
    /\ ~slot.active => Matches(slot.resp, slot.list)

(***************************************************************************)
(* The calls of the dispatcher are those of AtCalls: one at a time, each   *)
(* taking one frame it asked for, or none.                                 *)
(***************************************************************************)
Calls == INSTANCE AtCalls WITH
  inCall <- modemLock, want <- slot.list, answer <- slot.resp
OneCallAtATime == Calls!Spec
=============================================================================
