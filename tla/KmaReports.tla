------------------------------ MODULE KmaReports ------------------------------
(***************************************************************************)
(* Reports for the weather office.  A report is put into a queue of length *)
(* one as it is made; several tasks (the direct line, the TCP server's     *)
(* clients, the TCP client, the modem) answer requests for it at the same  *)
(* priority, with what is in the queue or, when it is empty, with a copy of*)
(* what was last taken out.  The one-minute report (AB) is modelled; the   *)
(* report of the moment (AI) is handled alike but for the wait.            *)
(* The copy is a structure that takes many instructions to read and write: *)
(* two halves stand for it.                                                *)
(***************************************************************************)
EXTENDS Naturals

CONSTANTS
  Requesters,
  Polled,      \* whether a request is served in every minute, as intended
  MaxMinute    \* bound: reports of a behaviour

ASSUME PollAssumption == Polled \in BOOLEAN /\ MaxMinute \in Nat

VARIABLES
  minute,    \* the last report made, by number; 0 is none
  queue,     \* the report in the queue, or 0
  copy,      \* g_kma_data_ab, its two halves
  updated,   \* g_kma_data_ab_updated
  req,       \* each requester's step, report, and what it answered last
  served     \* history: a request looked into the queue in this minute

kmaVars == <<minute, queue, copy, updated, req, served>>

None == 0
Resting == [at |-> "idle", asked |-> None, before |-> {}, first |-> None, second |-> None]

KmaInit ==
  /\ minute = None /\ queue = None
  /\ copy = [first |-> None, second |-> None] /\ updated = FALSE
  /\ req = [r \in Requesters |-> Resting]
  /\ served = TRUE

\* Where a requester is between its request and its answer.
Copying(r) == req[r].at \in {"save", "save2", "empty", "load", "load2"}
Busy(r) == Copying(r) \/ req[r].at = "wait"

(***************************************************************************)
(* MinProcess makes the report; send_kma_data does not wait, so that a     *)
(* report that finds the queue full is dropped.  A request is over before  *)
(* the next minute but one: it takes little more than two seconds.         *)
(***************************************************************************)
\* Mutant: the report is stamped with the minute to come.
SendKmaDataAhead == queue' = IF queue = None THEN minute + 2 ELSE queue
SendKmaData == queue' = IF queue = None THEN minute + 1 ELSE queue

MakeReport ==
  /\ minute < MaxMinute
  /\ Polled => served
  /\ \A r \in Requesters : Busy(r) => req[r].asked = minute
  /\ minute' = minute + 1
  /\ SendKmaData
  /\ served' = FALSE
  /\ UNCHANGED <<copy, updated, req>>

(***************************************************************************)
(* kma_cmd_handler_AB: the request comes, and two seconds pass: what others*)
(* were copying then, they have copied when they are over.                 *)
(***************************************************************************)
Ask(r) ==
  /\ ~Busy(r)
  /\ req' = [req EXCEPT ![r] = [Resting EXCEPT !.at = "wait", !.asked = minute,
                                         !.before = {q \in Requesters : Copying(q)}]]
  /\ UNCHANGED <<minute, queue, copy, updated, served>>

\* Mutant: there is no wait.
ReadQueueAtOnce(r) ==
  /\ req[r].at = "wait"
  /\ IF queue # None
       THEN req' = [req EXCEPT ![r].at = "save", ![r].first = queue, ![r].second = queue]
       ELSE req' = [req EXCEPT ![r].at = "empty"]
  /\ queue' = None /\ served' = TRUE
  /\ UNCHANGED <<minute, copy, updated>>

\* read_kma_data
ReadQueue(r) ==
  /\ req[r].at = "wait" /\ \A q \in req[r].before : ~Copying(q)
  /\ IF queue # None
       THEN req' = [req EXCEPT ![r].at = "save", ![r].first = queue, ![r].second = queue]
       ELSE req' = [req EXCEPT ![r].at = "empty"]
  /\ queue' = None /\ served' = TRUE
  /\ UNCHANGED <<minute, copy, updated>>

\* The report taken is copied, one half and then the other.
SaveFirst(r) ==
  /\ req[r].at = "save"
  /\ copy' = [copy EXCEPT !.first = req[r].first]
  /\ req' = [req EXCEPT ![r].at = "save2"]
  /\ UNCHANGED <<minute, queue, updated, served>>

SaveSecond(r) ==
  /\ req[r].at = "save2"
  /\ copy' = [copy EXCEPT !.second = req[r].second]
  /\ updated' = TRUE
  /\ req' = [req EXCEPT ![r].at = "answered"]
  /\ UNCHANGED <<minute, queue, served>>

\* The queue was empty: the copy is the answer, if there is one yet.
LookForCopy(r) ==
  /\ req[r].at = "empty"
  /\ req' = [req EXCEPT ![r].at = IF updated THEN "load" ELSE "silent"]
  /\ UNCHANGED <<minute, queue, copy, updated, served>>

LoadFirst(r) ==
  /\ req[r].at = "load"
  /\ req' = [req EXCEPT ![r].at = "load2", ![r].first = copy.first]
  /\ UNCHANGED <<minute, queue, copy, updated, served>>

LoadSecond(r) ==
  /\ req[r].at = "load2"
  /\ req' = [req EXCEPT ![r].at = "answered", ![r].second = copy.second]
  /\ UNCHANGED <<minute, queue, copy, updated, served>>

Handle(r) ==
  \/ Ask(r) \/ ReadQueue(r) \/ SaveFirst(r) \/ SaveSecond(r)
  \/ LookForCopy(r) \/ LoadFirst(r) \/ LoadSecond(r)

KmaNext == MakeReport \/ \E r \in Requesters : Handle(r)

KmaSpec == KmaInit /\ [][KmaNext]_kmaVars

-----------------------------------------------------------------------------
Reports == 0..MaxMinute

KmaTypeOK ==
  /\ minute \in Reports /\ queue \in Reports
  /\ copy \in [first : Reports, second : Reports]
  /\ updated \in BOOLEAN /\ served \in BOOLEAN
  /\ req \in [Requesters -> [at : {"idle", "wait", "save", "save2", "empty", "load", "load2",
                                    "answered", "silent"},
                             asked : Reports, before : SUBSET Requesters,
                             first : Reports, second : Reports]]

Answered(r) == req[r].at = "answered"

(***************************************************************************)
(* While a request is answered in every minute, no part of an answer is of *)
(* a report more than two minutes older than the last one made when the    *)
(* request came: what requesters that take and copy a report between them  *)
(* can add to the age of the copy is bounded.                              *)
(***************************************************************************)
AnswersRecent ==
  \A r \in Requesters : Answered(r) => req[r].asked <= req[r].first + 2
                                    /\ req[r].asked <= req[r].second + 2

(***************************************************************************)
(* The answer is the latest report, or a later one: "if there is an updated*)
(* value, the value updated last is used", as the comment of the handler   *)
(* has it.  It is the oldest one not fetched that the queue keeps.         *)
(***************************************************************************)
AnswersLatest ==
  \A r \in Requesters : Answered(r) => req[r].asked <= req[r].first
=============================================================================
