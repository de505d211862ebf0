----------------------------- MODULE Answers_proofs -----------------------------
(***************************************************************************)
(* Proofs about what the central station is answered: how old the report   *)
(* is that a request for the latest one gets (KmaReports), with any number *)
(* of requesters and of reports, and which record a request for a past     *)
(* minute finds (MinuteFile), with any calendar, any number of years whose *)
(* files are named differently, and any number of years.                   *)
(***************************************************************************)
EXTENDS KmaReports, MinuteFile, WellFoundedInduction, TLAPS

(***************************************************************************)
(* The latest report                                                       *)
(***************************************************************************)
\* A requester that took a report and has yet to copy it.
Saving(r) == req[r].at \in {"save", "save2"}

Halves == {"first", "second"}

\* ... or has yet to copy this half of it.
Pending(r, h) == req[r].at = "save" \/ (req[r].at = "save2" /\ h = "second")

\* The queue holds the last report until a request of its minute takes it.
QueueInv == queue = IF served THEN None ELSE minute

\* A request is over before the next minute but one, and a report that is
\* being copied is none from before its request.
RequestInv ==
  \A r \in Requesters :
    /\ Busy(r) => req[r].asked <= minute /\ minute <= req[r].asked + 1
    /\ Saving(r) => /\ req[r].first = req[r].second
                    /\ req[r].asked <= req[r].first /\ req[r].first <= minute

\* The copy is of one of the last three reports before the last, and of one of
\* the last two or of the last when the copies of those are finished.
CopyInv ==
  \A h \in Halves :
    /\ minute <= copy[h] + 3
    /\ (\A r \in Requesters : Pending(r, h) => req[r].first = minute) => minute <= copy[h] + 2
    /\ (served /\ \A r \in Requesters : Pending(r, h) => req[r].first # minute) => minute <= copy[h] + 1

\* A request of this minute does not find an older report being copied: it
\* waits for that, or has waited.
WaitInv ==
  \A r, q \in Requesters :
    (req[r].asked = minute /\ Saving(q) /\ req[q].first < minute) =>
      /\ req[r].at = "wait" => q \in req[r].before
      /\ req[r].at \notin {"empty", "load", "load2"}

\* What has been read of the copy is recent enough.
AnswerInv ==
  \A r \in Requesters :
    /\ req[r].at = "load2" => req[r].asked <= req[r].first + 2
    /\ Answered(r) => req[r].asked <= req[r].first + 2 /\ req[r].asked <= req[r].second + 2

KmaInv == KmaTypeOK /\ QueueInv /\ RequestInv /\ CopyInv /\ WaitInv /\ AnswerInv

RequestSteps == {"idle", "wait", "save", "save2", "empty", "load", "load2", "answered", "silent"}
Request == [at : RequestSteps, asked : Reports, before : SUBSET Requesters, first : Reports, second : Reports]

-----------------------------------------------------------------------------
LEMMA InitKmaInv == KmaInit => KmaInv
<1> SUFFICES ASSUME KmaInit PROVE KmaInv
  OBVIOUS
<1>1. /\ minute = 0 /\ queue = 0 /\ served = TRUE /\ updated = FALSE
      /\ copy = [first |-> 0, second |-> 0]
  BY DEF KmaInit, None
<1>2. \A r \in Requesters : req[r] = Resting
  BY DEF KmaInit
<1>3. KmaTypeOK
  <2>1. 0 \in Reports
    BY PollAssumption DEF Reports
  <2>2. Resting \in Request
    BY <2>1 DEF Resting, None, Request, RequestSteps
  <2>3. req \in [Requesters -> Request]
    BY <2>2 DEF KmaInit
  <2>4. copy \in [first : Reports, second : Reports]
    BY <1>1, <2>1
  <2> QED
    BY <1>1, <2>1, <2>3, <2>4 DEF KmaTypeOK, Request, RequestSteps
<1>4. \A r \in Requesters : req[r].at = "idle"
  <2>1. Resting.at = "idle"
    BY DEF Resting
  <2> QED
    BY <1>2, <2>1
<1>5. QueueInv /\ CopyInv
  BY <1>1, <1>4 DEF QueueInv, CopyInv, Halves, None
<1>6. RequestInv /\ WaitInv /\ AnswerInv
  BY <1>4 DEF RequestInv, WaitInv, AnswerInv, Busy, Copying, Saving, Answered
<1> QED
  BY <1>3, <1>5, <1>6 DEF KmaInv

\* The types of what a step of requester r leaves.
LEMMA StepType ==
  ASSUME KmaTypeOK, NEW r \in Requesters, NEW step \in Request, req' = [req EXCEPT ![r] = step],
         minute' = minute, queue' \in Reports, served' \in BOOLEAN, updated' \in BOOLEAN,
         copy' \in [first : Reports, second : Reports]
  PROVE  /\ KmaTypeOK' /\ req'[r] = step
         /\ \A q \in Requesters : q # r => req'[q] = req[q]
BY DEF KmaTypeOK, Request, RequestSteps, Reports

LEMMA MakeReportKeeps == ASSUME Polled, KmaInv, MakeReport PROVE KmaInv'
<1>0. /\ minute \in Nat /\ minute' = minute + 1 /\ minute' \in Reports
      /\ served /\ served' = FALSE /\ UNCHANGED <<copy, updated, req>>
  BY PollAssumption DEF KmaInv, KmaTypeOK, MakeReport, Reports
<1>1. queue = None /\ queue' = minute'
  BY <1>0 DEF KmaInv, QueueInv, MakeReport, SendKmaData
<1>2. KmaTypeOK'
  BY <1>0, <1>1 DEF KmaInv, KmaTypeOK, Reports
<1>3. QueueInv'
  BY <1>0, <1>1 DEF QueueInv
<1>4. \A r \in Requesters :
         /\ req[r].asked \in Nat /\ req[r].first \in Nat /\ req[r].second \in Nat
         /\ Busy(r) => req[r].asked = minute
         /\ Saving(r) => Busy(r) /\ req[r].first = minute /\ req[r].first = req[r].second
  BY DEF MakeReport, KmaInv, KmaTypeOK, RequestInv, Saving, Busy, Copying, Reports
<1>5. RequestInv'
  BY <1>0, <1>4 DEF RequestInv, Busy, Copying, Saving
<1>6. CopyInv'
  <2> SUFFICES ASSUME NEW h \in Halves
               PROVE  /\ minute' <= copy'[h] + 3
                      /\ (\A r \in Requesters : Pending(r, h)' => req'[r].first = minute')
                            => minute' <= copy'[h] + 2
                      /\ (served' /\ \A r \in Requesters : Pending(r, h)' => req'[r].first # minute')
                            => minute' <= copy'[h] + 1
    BY DEF CopyInv
  <2>1. copy[h] \in Nat /\ copy'[h] = copy[h]
    BY <1>0 DEF KmaInv, KmaTypeOK, Halves, Reports
  <2>2. \A r \in Requesters : /\ Pending(r, h) => req[r].first = minute
                              /\ Pending(r, h)' <=> Pending(r, h)
    BY <1>0, <1>4 DEF Pending, Saving
  <2>3. minute <= copy[h] + 2
    BY <2>2 DEF KmaInv, CopyInv
  <2>4. (\A r \in Requesters : Pending(r, h) => req[r].first # minute) => minute <= copy[h] + 1
    BY <1>0 DEF KmaInv, CopyInv
  <2>5. minute # minute'
    BY <1>0
  <2>6. (\A r \in Requesters : Pending(r, h)' => req'[r].first = minute')
          => \A r \in Requesters : Pending(r, h) => req[r].first # minute
    BY <1>0, <2>2, <2>5
  <2> QED
    BY <1>0, <2>1, <2>3, <2>4, <2>6
<1>7. WaitInv'
  <2>1. \A r \in Requesters : req[r].asked = minute' => ~Busy(r)
    BY <1>0, <1>4
  <2> QED
    BY <1>0, <2>1 DEF WaitInv, Busy, Copying, Saving
<1>8. AnswerInv'
  BY <1>0 DEF KmaInv, AnswerInv, Answered
<1> QED
  BY <1>2, <1>3, <1>5, <1>6, <1>7, <1>8 DEF KmaInv

\* The conjuncts of a step that leaves the copy, the queue and every other
\* requester alone, and is neither the beginning nor the end of copying.
LEMMA QuietStep ==
  ASSUME KmaInv, NEW r \in Requesters, UNCHANGED <<minute, queue, copy, served>>,
         \A q \in Requesters : q # r => req'[q] = req[q], ~Saving(r), ~Saving(r)'
  PROVE  QueueInv' /\ CopyInv'
<1>1. \A q \in Requesters, h \in Halves :
        (Pending(q, h)' <=> Pending(q, h)) /\ (Pending(q, h) => req'[q].first = req[q].first)
  BY DEF Pending, Saving
<1>2. CopyInv'
  BY <1>1 DEF KmaInv, CopyInv
<1> QED
  BY <1>2 DEF KmaInv, QueueInv

LEMMA AskKeeps == ASSUME KmaInv, NEW r \in Requesters, Ask(r) PROVE KmaInv'
<1> DEFINE copying == {q \in Requesters : Copying(q)}
           step == [Resting EXCEPT !.at = "wait", !.asked = minute, !.before = copying]
<1>1. step \in Request /\ step.at = "wait" /\ step.asked = minute
      /\ step.before = {q \in Requesters : Copying(q)}
  <2>0. copying \subseteq Requesters
    OBVIOUS
  <2> HIDE DEF copying
  <2>1. 0 \in Reports /\ minute \in Reports
    BY PollAssumption DEF KmaInv, KmaTypeOK, Reports
  <2>2. Resting \in Request
    BY <2>1 DEF Resting, None, Request, RequestSteps
  <2>3. step \in Request /\ step.at = "wait" /\ step.asked = minute /\ step.before = copying
    BY <2>0, <2>1, <2>2 DEF Request, RequestSteps
  <2> USE DEF copying
  <2> QED
    BY <2>3
<1>2. UNCHANGED <<minute, queue, copy, updated, served>> /\ ~Saving(r)
  BY DEF Ask, Saving, Busy, Copying
<1>3. req' = [req EXCEPT ![r] = step]
  BY DEF Ask
<1> HIDE DEF step
<1>4. KmaTypeOK' /\ req'[r] = step /\ \A q \in Requesters : q # r => req'[q] = req[q]
  BY <1>1, <1>2, <1>3, StepType DEF KmaInv, KmaTypeOK
<1>5. ~Saving(r)'
  BY <1>1, <1>4 DEF Saving
<1>6. QueueInv' /\ CopyInv'
  BY <1>2, <1>4, <1>5, QuietStep
<1>7. RequestInv'
  BY <1>1, <1>2, <1>4, <1>5 DEF KmaInv, KmaTypeOK, Reports, RequestInv, Busy, Copying, Saving
<1>8. WaitInv'
  BY <1>1, <1>2, <1>4, <1>5 DEF KmaInv, WaitInv, Copying, Saving
<1>9. AnswerInv'
  BY <1>1, <1>4 DEF KmaInv, AnswerInv, Answered
<1> QED
  BY <1>4, <1>6, <1>7, <1>8, <1>9 DEF KmaInv

\* The queue is read when nothing of before is being copied any more; the
\* report taken is the last one made.
LEMMA ReadQueueKeeps == ASSUME KmaInv, NEW r \in Requesters, ReadQueue(r) PROVE KmaInv'
<1>0. /\ KmaTypeOK /\ req[r] \in Request /\ req[r].at = "wait"
      /\ UNCHANGED <<minute, copy, updated>> /\ queue' = None /\ served' = TRUE
      /\ \A q \in req[r].before : ~Saving(q)
  BY DEF KmaInv, KmaTypeOK, Request, RequestSteps, ReadQueue, Saving, Copying
<1>1. /\ queue' \in Reports /\ served' \in BOOLEAN /\ updated' \in BOOLEAN
      /\ copy' \in [first : Reports, second : Reports] /\ minute \in Nat /\ queue \in Reports
      /\ queue \in Nat
  BY <1>0, PollAssumption DEF KmaTypeOK, None, Reports
<1>2. QueueInv'
  BY <1>0 DEF QueueInv
<1>3. \A q \in Requesters : (req[r].asked = minute /\ Saving(q)) => req[q].first = minute
  <2> SUFFICES ASSUME NEW q \in Requesters, req[r].asked = minute, Saving(q)
               PROVE  req[q].first = minute
    OBVIOUS
  <2>1. req[q].first <= minute /\ req[q].first \in Nat
    BY DEF KmaInv, KmaTypeOK, RequestInv, Reports
  <2>2. ~(req[q].first < minute)
    BY <1>0 DEF KmaInv, WaitInv
  <2> QED
    BY <1>1, <2>1, <2>2
<1>4. CASE queue # None
  <2> DEFINE step == [req[r] EXCEPT !.at = "save", !.first = queue, !.second = queue]
  <2>1. /\ step \in Request /\ step.at = "save" /\ step.first = queue /\ step.second = queue
        /\ step.asked = req[r].asked
    BY <1>0, <1>1 DEF Request, RequestSteps
  <2>2. req' = [req EXCEPT ![r] = step]
    BY <1>4 DEF ReadQueue
  <2> HIDE DEF step
  <2>3. KmaTypeOK' /\ req'[r] = step /\ \A q \in Requesters : q # r => req'[q] = req[q]
    BY <1>0, <1>1, <2>1, <2>2, StepType
  <2>4. queue = minute
    BY <1>4 DEF KmaInv, QueueInv
  <2>5. ~Saving(r) /\ Busy(r) /\ req[r].asked <= minute /\ Saving(r)'
        /\ Busy(r)' /\ req'[r].first = minute
    BY <1>0, <2>1, <2>3, <2>4 DEF KmaInv, RequestInv, Saving, Busy, Copying
  <2>6. RequestInv'
    BY <1>0, <1>1, <2>1, <2>3, <2>4, <2>5 DEF KmaInv, RequestInv, Busy, Copying, Saving
  <2>7. CopyInv'
    <3> SUFFICES ASSUME NEW h \in Halves
                 PROVE  /\ minute' <= copy'[h] + 3
                        /\ (\A q \in Requesters : Pending(q, h)' => req'[q].first = minute')
                              => minute' <= copy'[h] + 2
                        /\ (served' /\ \A q \in Requesters : Pending(q, h)' => req'[q].first # minute')
                              => minute' <= copy'[h] + 1
      BY DEF CopyInv
    <3>1. Pending(r, h)' /\ ~Pending(r, h)
      BY <1>0, <2>1, <2>3 DEF Pending
    <3>2. \A q \in Requesters : q # r => (Pending(q, h)' <=> Pending(q, h)) /\ req'[q].first = req[q].first
      BY <2>3 DEF Pending
    <3> QED
      BY <1>0, <2>5, <3>1, <3>2 DEF KmaInv, CopyInv
  <2>8. WaitInv'
    BY <1>0, <1>1, <2>1, <2>3, <2>4, <2>5 DEF KmaInv, WaitInv, Saving
  <2>9. AnswerInv'
    BY <2>1, <2>3 DEF KmaInv, AnswerInv, Answered
  <2> QED
    BY <1>2, <2>3, <2>6, <2>7, <2>8, <2>9 DEF KmaInv
<1>5. CASE queue = None
  <2> DEFINE step == [req[r] EXCEPT !.at = "empty"]
  <2>1. step \in Request /\ step.at = "empty" /\ step.asked = req[r].asked
    BY <1>0 DEF Request, RequestSteps
  <2>2. req' = [req EXCEPT ![r] = step]
    BY <1>5 DEF ReadQueue
  <2> HIDE DEF step
  <2>3. KmaTypeOK' /\ req'[r] = step /\ \A q \in Requesters : q # r => req'[q] = req[q]
    BY <1>0, <1>1, <2>1, <2>2, StepType
  <2>4. ~Saving(r) /\ ~Saving(r)' /\ Busy(r) /\ Busy(r)'
    BY <1>0, <2>1, <2>3 DEF Saving, Busy, Copying
  <2>5. RequestInv'
    BY <1>0, <2>1, <2>3, <2>4 DEF KmaInv, RequestInv, Busy, Copying, Saving
  <2>6. CopyInv'
    <3> SUFFICES ASSUME NEW h \in Halves
                 PROVE  /\ minute' <= copy'[h] + 3
                        /\ (\A q \in Requesters : Pending(q, h)' => req'[q].first = minute')
                              => minute' <= copy'[h] + 2
                        /\ (served' /\ \A q \in Requesters : Pending(q, h)' => req'[q].first # minute')
                              => minute' <= copy'[h] + 1
      BY DEF CopyInv
    <3>1. \A q \in Requesters :
            (Pending(q, h)' <=> Pending(q, h)) /\ (Pending(q, h) => req'[q].first = req[q].first)
      BY <1>0, <2>1, <2>3 DEF Pending
    <3>2. served \/ minute = 0
      BY <1>5 DEF KmaInv, QueueInv, None
    <3>3. copy[h] \in Nat
      BY DEF KmaInv, KmaTypeOK, Halves, Reports
    <3> QED
      BY <1>0, <3>1, <3>2, <3>3 DEF KmaInv, CopyInv
  <2>7. WaitInv'
    <3> SUFFICES ASSUME NEW x \in Requesters, NEW q \in Requesters,
                        req'[x].asked = minute, Saving(q)', req'[q].first < minute
                 PROVE  /\ req'[x].at = "wait" => q \in req'[x].before
                        /\ req'[x].at \notin {"empty", "load", "load2"}
      BY <1>0 DEF WaitInv
    <3>1. q # r /\ Saving(q) /\ req[q].first < minute
      BY <2>3, <2>4 DEF Saving
    <3>2. x # r
      BY <1>1, <1>3, <2>1, <2>3, <3>1
    <3> QED
      BY <2>3, <3>1, <3>2 DEF KmaInv, WaitInv
  <2>8. AnswerInv'
    BY <2>1, <2>3 DEF KmaInv, AnswerInv, Answered
  <2> QED
    BY <1>2, <2>3, <2>5, <2>6, <2>7, <2>8 DEF KmaInv
<1> QED
  BY <1>4, <1>5

\* A report is copied while it is at most one minute old.
LEMMA SaveFirstKeeps == ASSUME KmaInv, NEW r \in Requesters, SaveFirst(r) PROVE KmaInv'
<1> DEFINE step == [req[r] EXCEPT !.at = "save2"]
<1>0. /\ KmaTypeOK /\ req[r] \in Request /\ req[r].at = "save" /\ Saving(r) /\ Busy(r)
      /\ UNCHANGED <<minute, queue, updated, served>>
      /\ copy' = [copy EXCEPT !.first = req[r].first] /\ req' = [req EXCEPT ![r] = step]
  BY DEF KmaInv, KmaTypeOK, Request, RequestSteps, SaveFirst, Saving, Busy, Copying
<1>1. /\ step \in Request /\ step.at = "save2" /\ step.asked = req[r].asked
      /\ step.first = req[r].first /\ step.second = req[r].second
  BY <1>0 DEF Request, RequestSteps
<1> HIDE DEF step
<1>2. /\ minute \in Nat /\ req[r].first \in Nat /\ req[r].asked \in Nat
      /\ copy.first \in Nat /\ copy.second \in Nat
      /\ copy'.first = req[r].first /\ copy'.second = copy.second
      /\ copy' \in [first : Reports, second : Reports]
  BY <1>0 DEF KmaTypeOK, Request, Reports
<1>3. KmaTypeOK' /\ req'[r] = step /\ \A q \in Requesters : q # r => req'[q] = req[q]
  BY <1>0, <1>1, <1>2, StepType DEF KmaTypeOK
<1>4. minute <= req[r].first + 1
  BY <1>0, <1>2 DEF KmaInv, RequestInv
<1>5. QueueInv' /\ RequestInv'
  BY <1>0, <1>1, <1>3 DEF KmaInv, QueueInv, RequestInv, Busy, Copying, Saving
<1>6. CopyInv'
  <2>1. \A q \in Requesters : /\ Pending(q, "second")' <=> Pending(q, "second")
                              /\ req'[q].first = req[q].first
    BY <1>0, <1>1, <1>3 DEF Pending
  <2>2. minute' <= copy'.first + 1
    BY <1>0, <1>2, <1>4
  <2> QED
    BY <1>0, <1>2, <2>1, <2>2 DEF KmaInv, CopyInv, Halves
<1>7. WaitInv'
  BY <1>0, <1>1, <1>3 DEF KmaInv, WaitInv, Saving
<1>8. AnswerInv'
  BY <1>1, <1>3 DEF KmaInv, AnswerInv, Answered
<1> QED
  BY <1>3, <1>5, <1>6, <1>7, <1>8 DEF KmaInv

LEMMA SaveSecondKeeps == ASSUME KmaInv, NEW r \in Requesters, SaveSecond(r) PROVE KmaInv'
<1> DEFINE step == [req[r] EXCEPT !.at = "answered"]
<1>0. /\ KmaTypeOK /\ req[r] \in Request /\ req[r].at = "save2" /\ Saving(r) /\ Busy(r)
      /\ UNCHANGED <<minute, queue, served>> /\ updated' \in BOOLEAN
      /\ copy' = [copy EXCEPT !.second = req[r].second] /\ req' = [req EXCEPT ![r] = step]
  BY DEF KmaInv, KmaTypeOK, Request, RequestSteps, SaveSecond, Saving, Busy, Copying
<1>1. /\ step \in Request /\ step.at = "answered" /\ step.asked = req[r].asked
      /\ step.first = req[r].first /\ step.second = req[r].second
  BY <1>0 DEF Request, RequestSteps
<1> HIDE DEF step
<1>2. /\ minute \in Nat /\ req[r].first \in Nat /\ req[r].asked \in Nat
      /\ req[r].second = req[r].first /\ req[r].asked <= req[r].first
      /\ copy.first \in Nat /\ copy.second \in Nat
      /\ copy'.second = req[r].first /\ copy'.first = copy.first
      /\ copy' \in [first : Reports, second : Reports]
  BY <1>0 DEF KmaInv, RequestInv, KmaTypeOK, Request, Reports
<1>3. KmaTypeOK' /\ req'[r] = step /\ \A q \in Requesters : q # r => req'[q] = req[q]
  BY <1>0, <1>1, <1>2, StepType DEF KmaTypeOK
<1>4. minute <= req[r].first + 1
  BY <1>0, <1>2 DEF KmaInv, RequestInv
<1>5. QueueInv' /\ RequestInv'
  BY <1>0, <1>1, <1>3 DEF KmaInv, QueueInv, RequestInv, Busy, Copying, Saving
<1>6. CopyInv'
  <2>1. \A q \in Requesters : /\ Pending(q, "first")' <=> Pending(q, "first")
                              /\ req'[q].first = req[q].first
    BY <1>0, <1>1, <1>3 DEF Pending
  <2>2. minute' <= copy'.second + 1
    BY <1>0, <1>2, <1>4
  <2> QED
    BY <1>0, <1>2, <2>1, <2>2 DEF KmaInv, CopyInv, Halves
<1>7. WaitInv'
  BY <1>0, <1>1, <1>3 DEF KmaInv, WaitInv, Saving
<1>8. AnswerInv'
  BY <1>1, <1>2, <1>3 DEF KmaInv, AnswerInv, Answered
<1> QED
  BY <1>3, <1>5, <1>6, <1>7, <1>8 DEF KmaInv

LEMMA LookForCopyKeeps == ASSUME KmaInv, NEW r \in Requesters, LookForCopy(r) PROVE KmaInv'
<1> DEFINE step == [req[r] EXCEPT !.at = IF updated THEN "load" ELSE "silent"]
<1>0. /\ KmaTypeOK /\ req[r] \in Request /\ req[r].at = "empty" /\ Busy(r)
      /\ UNCHANGED <<minute, queue, copy, updated, served>> /\ req' = [req EXCEPT ![r] = step]
  BY DEF KmaInv, KmaTypeOK, Request, RequestSteps, LookForCopy, Busy, Copying
<1>1. step \in Request /\ step.at \in {"load", "silent"} /\ step.asked = req[r].asked
  BY <1>0 DEF Request, RequestSteps
<1> HIDE DEF step
<1>2. KmaTypeOK' /\ req'[r] = step /\ \A q \in Requesters : q # r => req'[q] = req[q]
  BY <1>0, <1>1, StepType DEF KmaTypeOK
<1>3. ~Saving(r) /\ ~Saving(r)'
  BY <1>0, <1>1, <1>2 DEF Saving
<1>4. QueueInv' /\ CopyInv'
  BY <1>0, <1>2, <1>3, QuietStep
<1>5. RequestInv'
  BY <1>0, <1>1, <1>2 DEF KmaInv, RequestInv, Busy, Copying, Saving
<1>6. WaitInv'
  BY <1>0, <1>1, <1>2 DEF KmaInv, WaitInv, Saving
<1>7. AnswerInv'
  BY <1>1, <1>2 DEF KmaInv, AnswerInv, Answered
<1> QED
  BY <1>2, <1>4, <1>5, <1>6, <1>7 DEF KmaInv

\* A half of the copy is read: nobody is copying a report older than the
\* request's minute, so the copy is of one of the two reports before.
LEMMA LoadsRecent ==
  ASSUME KmaInv, NEW r \in Requesters, req[r].at \in {"load", "load2"}, NEW h \in Halves
  PROVE  req[r].asked <= copy[h] + 2
<1>1. /\ minute \in Nat /\ req[r].asked \in Nat /\ copy[h] \in Nat
      /\ \A q \in Requesters : req[q].first \in Nat
  BY DEF KmaInv, KmaTypeOK, Halves, Reports
<1>2. req[r].asked <= minute /\ minute <= req[r].asked + 1 /\ minute <= copy[h] + 3
  BY DEF KmaInv, RequestInv, CopyInv, Busy, Copying
<1>3. CASE req[r].asked = minute
  <2>1. \A q \in Requesters : Pending(q, h) => req[q].first = minute
    <3> SUFFICES ASSUME NEW q \in Requesters, Pending(q, h) PROVE req[q].first = minute
      OBVIOUS
    <3>1. Saving(q)
      BY DEF Pending, Saving
    <3>2. ~(req[q].first < minute) /\ req[q].first <= minute
      BY <1>3, <3>1 DEF KmaInv, WaitInv, RequestInv
    <3> QED
      BY <1>1, <3>2
  <2> QED
    BY <1>3, <2>1 DEF KmaInv, CopyInv
<1>4. CASE req[r].asked # minute
  BY <1>1, <1>2, <1>4
<1> QED
  BY <1>3, <1>4

LEMMA LoadFirstKeeps == ASSUME KmaInv, NEW r \in Requesters, LoadFirst(r) PROVE KmaInv'
<1> DEFINE step == [req[r] EXCEPT !.at = "load2", !.first = copy.first]
<1>0. /\ KmaTypeOK /\ req[r] \in Request /\ req[r].at = "load" /\ Busy(r) /\ copy.first \in Reports
      /\ UNCHANGED <<minute, queue, copy, updated, served>> /\ req' = [req EXCEPT ![r] = step]
  BY DEF KmaInv, KmaTypeOK, Request, RequestSteps, LoadFirst, Busy, Copying
<1>1. /\ step \in Request /\ step.at = "load2" /\ step.asked = req[r].asked
      /\ step.first = copy.first
  BY <1>0 DEF Request, RequestSteps
<1> HIDE DEF step
<1>2. KmaTypeOK' /\ req'[r] = step /\ \A q \in Requesters : q # r => req'[q] = req[q]
  BY <1>0, <1>1, StepType DEF KmaTypeOK
<1>3. ~Saving(r) /\ ~Saving(r)'
  BY <1>0, <1>1, <1>2 DEF Saving
<1>4. QueueInv' /\ CopyInv'
  BY <1>0, <1>2, <1>3, QuietStep
<1>5. RequestInv'
  BY <1>0, <1>1, <1>2 DEF KmaInv, RequestInv, Busy, Copying, Saving
<1>6. WaitInv'
  BY <1>0, <1>1, <1>2 DEF KmaInv, WaitInv, Saving
<1>7. req[r].asked <= copy.first + 2
  BY <1>0, LoadsRecent DEF Halves
<1>8. AnswerInv'
  BY <1>1, <1>2, <1>7 DEF KmaInv, AnswerInv, Answered
<1> QED
  BY <1>2, <1>4, <1>5, <1>6, <1>8 DEF KmaInv

LEMMA LoadSecondKeeps == ASSUME KmaInv, NEW r \in Requesters, LoadSecond(r) PROVE KmaInv'
<1> DEFINE step == [req[r] EXCEPT !.at = "answered", !.second = copy.second]
<1>0. /\ KmaTypeOK /\ req[r] \in Request /\ req[r].at = "load2" /\ Busy(r) /\ copy.second \in Reports
      /\ UNCHANGED <<minute, queue, copy, updated, served>> /\ req' = [req EXCEPT ![r] = step]
  BY DEF KmaInv, KmaTypeOK, Request, RequestSteps, LoadSecond, Busy, Copying
<1>1. /\ step \in Request /\ step.at = "answered" /\ step.asked = req[r].asked
      /\ step.first = req[r].first /\ step.second = copy.second
  BY <1>0 DEF Request, RequestSteps
<1> HIDE DEF step
<1>2. KmaTypeOK' /\ req'[r] = step /\ \A q \in Requesters : q # r => req'[q] = req[q]
  BY <1>0, <1>1, StepType DEF KmaTypeOK
<1>3. ~Saving(r) /\ ~Saving(r)'
  BY <1>0, <1>1, <1>2 DEF Saving
<1>4. QueueInv' /\ CopyInv'
  BY <1>0, <1>2, <1>3, QuietStep
<1>5. RequestInv'
  BY <1>0, <1>1, <1>2 DEF KmaInv, RequestInv, Busy, Copying, Saving
<1>6. WaitInv'
  BY <1>0, <1>1, <1>2 DEF KmaInv, WaitInv, Saving
<1>7. req[r].asked <= copy.second + 2
  BY <1>0, LoadsRecent DEF Halves
<1>8. AnswerInv'
  BY <1>0, <1>1, <1>2, <1>7 DEF KmaInv, AnswerInv, Answered
<1> QED
  BY <1>2, <1>4, <1>5, <1>6, <1>8 DEF KmaInv

LEMMA KmaInvNext == ASSUME Polled, KmaInv, [KmaNext]_kmaVars PROVE KmaInv'
<1>1. CASE MakeReport
  BY <1>1, MakeReportKeeps
<1>2. ASSUME NEW r \in Requesters, Handle(r) PROVE KmaInv'
  BY <1>2, AskKeeps, ReadQueueKeeps, SaveFirstKeeps, SaveSecondKeeps, LookForCopyKeeps,
     LoadFirstKeeps, LoadSecondKeeps DEF Handle
<1>3. CASE UNCHANGED kmaVars
  BY <1>3 DEF kmaVars, KmaInv, KmaTypeOK, QueueInv, RequestInv, CopyInv, WaitInv, AnswerInv,
              Busy, Copying, Saving, Pending, Answered
<1> QED
  BY <1>1, <1>2, <1>3 DEF KmaNext

-----------------------------------------------------------------------------
\* When a request is served in every minute, the inductive invariant holds of
\* every reachable state, with any number of requesters.
THEOREM KmaInvariance == ASSUME Polled PROVE KmaSpec => []KmaInv
<1>1. KmaInit => KmaInv
  BY InitKmaInv
<1>2. KmaInv /\ [KmaNext]_kmaVars => KmaInv'
  BY KmaInvNext
<1> QED
  BY <1>1, <1>2, PTL DEF KmaSpec

\* With any number of requesters whose copying of reports overlaps as it may,
\* no half of an answer is of a report more than two minutes older than the
\* last one made when the request came (kma_cmd_handler_AB, read_kma_data).
THEOREM AnswersRecentHolds == ASSUME Polled PROVE KmaSpec => []AnswersRecent
<1>1. KmaInv => AnswersRecent
  BY DEF KmaInv, AnswerInv, AnswersRecent
<1> QED
  BY <1>1, KmaInvariance, PTL

\* The numbers of the reports in the queue, in the copy and in every request
\* are those of reports that were made.
THEOREM KmaTypeCorrect == ASSUME Polled PROVE KmaSpec => []KmaTypeOK
<1>1. KmaInv => KmaTypeOK
  BY DEF KmaInv
<1> QED
  BY <1>1, KmaInvariance, PTL

\* One requester: the copy, once what was taken is copied, is of the last
\* report, or of the one before while the last is in the queue.
LatestInv ==
  \A r \in Requesters, h \in Halves :
    LET kept == IF Pending(r, h) THEN req[r].first ELSE copy[h]
    IN  /\ minute = IF served THEN kept ELSE kept + 1
        /\ req[r].at \in {"empty", "load", "load2"} => req[r].asked <= copy[h]
        /\ req[r].at \in {"load2", "answered"} => req[r].asked <= req[r].first

LEMMA LatestStep ==
  ASSUME Polled, \A r, q \in Requesters : r = q, KmaInv, LatestInv, [KmaNext]_kmaVars
  PROVE  LatestInv'
<1>0. /\ minute \in Nat /\ queue \in Nat /\ copy \in [first : Nat, second : Nat]
      /\ KmaTypeOK /\ QueueInv /\ RequestInv
      /\ \A r \in Requesters : /\ req[r] \in Request /\ req[r].first \in Nat
                               /\ req[r].second \in Nat /\ req[r].asked \in Nat
  BY DEF KmaInv, KmaTypeOK, Reports, Request, RequestSteps
<1> SUFFICES ASSUME NEW r \in Requesters, NEW h \in Halves
             PROVE  LET kept == IF Pending(r, h) THEN req[r].first ELSE copy[h]
                    IN  (/\ minute = IF served THEN kept ELSE kept + 1
                         /\ req[r].at \in {"empty", "load", "load2"} => req[r].asked <= copy[h]
                         /\ req[r].at \in {"load2", "answered"} => req[r].asked <= req[r].first)'
  BY DEF LatestInv
<1>1. /\ copy[h] \in Nat /\ copy.first \in Nat /\ copy.second \in Nat
      /\ h = "first" \/ h = "second"
  BY <1>0 DEF Halves
<1>2. /\ minute = IF served THEN (IF Pending(r, h) THEN req[r].first ELSE copy[h])
                            ELSE (IF Pending(r, h) THEN req[r].first ELSE copy[h]) + 1
      /\ req[r].at \in {"empty", "load", "load2"} => req[r].asked <= copy[h]
                                                  /\ req[r].asked <= copy.first
      /\ req[r].at \in {"load2", "answered"} => req[r].asked <= req[r].first
  BY DEF LatestInv, Halves
<1>3. CASE MakeReport
  <2>1. /\ served /\ ~served' /\ minute' = minute + 1 /\ UNCHANGED <<copy, req>>
    BY <1>3 DEF MakeReport
  <2> QED
    BY <1>0, <1>1, <1>2, <2>1 DEF Pending
<1>4. CASE UNCHANGED kmaVars
  BY <1>2, <1>4 DEF kmaVars, Pending
<1>5. CASE Handle(r)
  <2>1. CASE Ask(r)
    <3>1. /\ ~Pending(r, h) /\ UNCHANGED <<minute, copy, served>> /\ req'[r].at = "wait"
      BY <1>0, <2>1 DEF Ask, Busy, Copying, Pending, KmaTypeOK, Resting, Request
    <3> QED
      BY <1>2, <3>1 DEF Pending
  <2>2. CASE ReadQueue(r)
    <3>1. /\ req[r].at = "wait" /\ ~Pending(r, h) /\ served' /\ UNCHANGED <<minute, copy>>
          /\ req[r].asked <= minute
      BY <1>0, <2>2 DEF ReadQueue, Pending, RequestInv, Busy
    <3>2. CASE queue # None
      <4>1. req'[r].at = "save" /\ req'[r].first = queue /\ queue = minute
        BY <1>0, <2>2, <3>2 DEF ReadQueue, QueueInv, KmaTypeOK, Request
      <4> QED
        BY <3>1, <4>1 DEF Pending
    <3>3. CASE queue = None
      <4>1. req'[r].at = "empty" /\ req'[r].asked = req[r].asked
        BY <1>0, <2>2, <3>3 DEF ReadQueue, KmaTypeOK, Request
      <4>2. served
        BY <1>0, <1>1, <1>2, <3>1, <3>3 DEF QueueInv, None
      <4> QED
        BY <1>2, <3>1, <4>1, <4>2 DEF Pending
    <3> QED
      BY <3>2, <3>3
  <2>3. CASE SaveFirst(r)
    <3>1. /\ req[r].at = "save" /\ req'[r].at = "save2" /\ req'[r].first = req[r].first
          /\ copy'.first = req[r].first /\ copy'.second = copy.second /\ UNCHANGED <<minute, served>>
      BY <1>0, <2>3 DEF SaveFirst, KmaTypeOK, Request
    <3> QED
      BY <1>1, <1>2, <3>1 DEF Pending
  <2>4. CASE SaveSecond(r)
    <3>1. /\ req[r].at = "save2" /\ req'[r].at = "answered" /\ req'[r].first = req[r].first
          /\ req'[r].asked = req[r].asked
          /\ copy'.first = copy.first /\ copy'.second = req[r].second /\ UNCHANGED <<minute, served>>
      BY <1>0, <2>4 DEF SaveSecond, KmaTypeOK, Request
    <3>2. req[r].first = req[r].second /\ req[r].asked <= req[r].first
      BY <1>0, <3>1 DEF RequestInv, Saving
    <3> QED
      BY <1>1, <1>2, <3>1, <3>2 DEF Pending
  <2>5. CASE LookForCopy(r)
    <3>1. /\ req[r].at = "empty" /\ req'[r].at \in {"load", "silent"}
          /\ req'[r].asked = req[r].asked /\ UNCHANGED <<minute, copy, served>>
      BY <1>0, <2>5 DEF LookForCopy, KmaTypeOK, Request
    <3> QED
      BY <1>2, <3>1 DEF Pending
  <2>6. CASE LoadFirst(r)
    <3>1. /\ req[r].at = "load" /\ req'[r].at = "load2" /\ req'[r].first = copy.first
          /\ req'[r].asked = req[r].asked /\ UNCHANGED <<minute, copy, served>>
      BY <1>0, <2>6 DEF LoadFirst, KmaTypeOK, Request
    <3> QED
      BY <1>2, <3>1 DEF Pending
  <2>7. CASE LoadSecond(r)
    <3>1. /\ req[r].at = "load2" /\ req'[r].at = "answered" /\ req'[r].first = req[r].first
          /\ req'[r].asked = req[r].asked /\ UNCHANGED <<minute, copy, served>>
      BY <1>0, <2>7 DEF LoadSecond, KmaTypeOK, Request
    <3> QED
      BY <1>2, <3>1 DEF Pending
  <2> QED
    BY <1>5, <2>1, <2>2, <2>3, <2>4, <2>5, <2>6, <2>7 DEF Handle
<1> QED
  BY <1>3, <1>4, <1>5 DEF KmaNext

\* What AnswersLatest claims holds where it can be relied on: when one task
\* answers requests, and one comes in every minute, each is answered with the
\* last report made when it came, or a later one (kma_cmd_handler_AB).
THEOREM AnswersLatestAlone ==
  ASSUME Polled, \A r, q \in Requesters : r = q
  PROVE  KmaSpec => []AnswersLatest
<1>1. KmaInit => LatestInv
  <2> SUFFICES ASSUME KmaInit PROVE LatestInv
    OBVIOUS
  <2>1. /\ minute = 0 /\ served = TRUE /\ copy = [first |-> 0, second |-> 0]
        /\ \A r \in Requesters : req[r] = Resting
    BY DEF KmaInit, None
  <2>2. Resting.at = "idle"
    BY DEF Resting
  <2> QED
    BY <2>1, <2>2 DEF LatestInv, Halves, Pending
<1>2. KmaInv /\ LatestInv /\ [KmaNext]_kmaVars => LatestInv'
  BY LatestStep
<1>3. LatestInv => AnswersLatest
  BY DEF LatestInv, AnswersLatest, Answered, Halves
<1> QED
  BY <1>1, <1>2, <1>3, KmaInvariance, PTL DEF KmaSpec

(***************************************************************************)
(* Past minutes                                                            *)
(***************************************************************************)
-----------------------------------------------------------------------------
(* Months of a year                                                        *)

\* A set of numbers has a least one.
LEMMA Least ==
  ASSUME NEW C \in SUBSET Nat, C # {}
  PROVE  \E n \in C : \A k \in C : n <= k
<1> DEFINE R == {ss \in Nat \X Nat : ss[1] < ss[2]}
<1>1. IsWellFoundedOn(R, Nat)
  BY NatLessThanWellFounded DEF OpToRel
<1> HIDE DEF R
<1>2. PICK n \in C : \A k \in C : ~(<<k, n>> \in R)
  BY <1>1, WFMin
<1>3. ASSUME NEW k \in C PROVE n <= k
  <2>1. ~(<<k, n>> \in R) /\ k \in Nat /\ n \in Nat
    BY <1>2
  <2> QED
    BY <2>1 DEF R
<1> QED
  BY <1>3

LEMMA MonthsAre ==
  /\ Len(MonthLens) \in Nat \ {0} /\ Months = 1..Len(MonthLens)
  /\ \A m \in Months : MonthLens[m] \in Nat /\ MonthLens[m] >= 2
<1>1. MonthLens \in Seq(Nat \ {0, 1}) /\ MonthLens # <<>>
  BY MinuteFileAssumption
<1>2. Len(MonthLens) \in Nat /\ Months = 1..Len(MonthLens) /\ Len(MonthLens) # 0
  BY <1>1 DEF Months
<1>3. \A m \in Months : MonthLens[m] \in Nat \ {0, 1}
  BY <1>1, <1>2
<1> QED
  BY <1>2, <1>3

Counts(f, n) == f = [m \in 1..n |-> IF m = 1 THEN 0 ELSE f[m - 1] + MonthLens[m - 1]]

LEMMA CountsExists == \A n \in Nat : \E f : Counts(f, n)
<1> DEFINE C == {n \in Nat : ~ \E f : Counts(f, n)}
<1>1. SUFFICES ASSUME C # {} PROVE FALSE
  OBVIOUS
<1>2. PICK n \in C : \A k \in C : n <= k
  <2> HIDE DEF C
  <2>1. C \in SUBSET Nat
    BY DEF C
  <2> QED
    BY <1>1, <2>1, Least
<1>3. n \in Nat /\ ~ \E f : Counts(f, n)
  OBVIOUS
<1>4. CASE n = 0
  <2>1. Counts([m \in 1..n |-> 0], n)
    BY <1>4 DEF Counts
  <2> QED
    BY <1>3, <2>1
<1>5. CASE n # 0
  <2>1. n - 1 \in Nat /\ ~(n <= n - 1)
    BY <1>3, <1>5
  <2>2. PICK g : Counts(g, n - 1)
    BY <1>2, <2>1
  <2> DEFINE h == [m \in 1..n |-> IF m = n THEN IF n = 1 THEN 0 ELSE g[n - 1] + MonthLens[n - 1]
                                           ELSE g[m]]
  <2>3. ASSUME NEW m \in 1..n
        PROVE  h[m] = IF m = 1 THEN 0 ELSE h[m - 1] + MonthLens[m - 1]
    <3>1. CASE m = n
      BY <1>3, <3>1
    <3>2. CASE m # n
      <4>1. m \in 1..n - 1 /\ (m # 1 => m - 1 \in 1..n - 1 /\ m - 1 # n /\ m - 1 \in 1..n)
        BY <1>3, <3>2
      <4>2. g[m] = IF m = 1 THEN 0 ELSE g[m - 1] + MonthLens[m - 1]
        BY <2>2, <4>1 DEF Counts
      <4> QED
        BY <3>2, <4>1, <4>2
    <3> QED
      BY <3>1, <3>2
  <2>4. h = [m \in 1..n |-> h[m]]
    OBVIOUS
  <2> HIDE DEF h
  <2>5. Counts(h, n)
    BY <2>3, <2>4 DEF Counts
  <2> QED
    BY <1>3, <2>5
<1> QED
  BY <1>4, <1>5

LEMMA BeforeIs ==
  \A m \in Months : Before[m] = IF m = 1 THEN 0 ELSE Before[m - 1] + MonthLens[m - 1]
<1>1. \E f : f = [m \in Months |-> IF m = 1 THEN 0 ELSE f[m - 1] + MonthLens[m - 1]]
  BY CountsExists, MonthsAre DEF Counts
<1>2. Before = [m \in Months |-> IF m = 1 THEN 0 ELSE Before[m - 1] + MonthLens[m - 1]]
  BY <1>1 DEF Before
<1> QED
  BY <1>2

LEMMA BeforeNat == \A m \in Months : Before[m] \in Nat
<1> DEFINE C == {m \in Months : Before[m] \notin Nat}
<1>1. SUFFICES ASSUME C # {} PROVE FALSE
  OBVIOUS
<1>2. PICK n \in C : \A k \in C : n <= k
  <2>1. C \in SUBSET Nat
    BY MonthsAre
  <2> HIDE DEF C
  <2> QED
    BY <1>1, <2>1, Least
<1>3. n \in Months /\ n \in Nat /\ Before[n] = IF n = 1 THEN 0 ELSE Before[n - 1] + MonthLens[n - 1]
  BY BeforeIs, MonthsAre
<1>4. n # 1
  BY <1>3
<1>5. n - 1 \in Months /\ ~(n <= n - 1)
  BY <1>3, <1>4, MonthsAre
<1>6. Before[n - 1] \in Nat
  BY <1>2, <1>5
<1>7. MonthLens[n - 1] \in Nat
  BY <1>5, MonthsAre
<1> QED
  BY <1>3, <1>4, <1>6, <1>7

LEMMA MonthsFollow ==
  ASSUME NEW m \in Months
  PROVE  \A n \in Months : m < n => Before[m] + MonthLens[m] <= Before[n]
<1> DEFINE C == {n \in Months : m < n /\ ~(Before[m] + MonthLens[m] <= Before[n])}
<1>1. SUFFICES ASSUME C # {} PROVE FALSE
  OBVIOUS
<1>2. PICK n \in C : \A k \in C : n <= k
  <2>1. C \in SUBSET Nat
    BY MonthsAre
  <2> HIDE DEF C
  <2> QED
    BY <1>1, <2>1, Least
<1>3. /\ n \in Months /\ n \in Nat /\ m \in Nat /\ m >= 1 /\ m < n
      /\ ~(Before[m] + MonthLens[m] <= Before[n])
  BY MonthsAre
<1>4. n - 1 \in Months /\ ~(n <= n - 1) /\ n # 1
  BY <1>3, MonthsAre
<1>5. Before[n] = Before[n - 1] + MonthLens[n - 1] /\ Before[n - 1] \in Nat
      /\ MonthLens[n - 1] \in Nat /\ Before[m] \in Nat /\ MonthLens[m] \in Nat
  BY <1>3, <1>4, BeforeIs, BeforeNat, MonthsAre
<1>6. CASE m = n - 1
  BY <1>3, <1>5, <1>6
<1>7. CASE m # n - 1
  <2>1. m < n - 1
    BY <1>3, <1>7
  <2>2. Before[m] + MonthLens[m] <= Before[n - 1]
    BY <1>2, <1>4, <2>1
  <2> QED
    BY <1>3, <1>5, <2>2
<1> QED
  BY <1>6, <1>7

LEMMA YearIs ==
  /\ YearLen \in Nat /\ YearLen >= 2
  /\ \A m \in Months : Before[m] + MonthLens[m] <= YearLen
  /\ Before[1] = 0 /\ 1 \in Months /\ Len(MonthLens) \in Months
<1> DEFINE z == Len(MonthLens)
<1>1. z \in Months /\ 1 \in Months
  BY MonthsAre
<1>2. /\ Before[z] \in Nat /\ MonthLens[z] \in Nat /\ MonthLens[z] >= 2
      /\ YearLen = Before[z] + MonthLens[z]
  BY <1>1, BeforeNat, MonthsAre DEF YearLen
<1>3. Before[1] = 0
  BY <1>1, BeforeIs
<1>4. ASSUME NEW m \in Months PROVE Before[m] + MonthLens[m] <= YearLen
  <2>1. m \in Nat /\ z \in Nat /\ m <= z /\ Before[m] \in Nat /\ MonthLens[m] \in Nat
    BY BeforeNat, MonthsAre
  <2>2. CASE m = z
    BY <1>2, <2>1, <2>2
  <2>3. CASE m # z
    <3>1. m < z
      BY <2>1, <2>3
    <3>2. Before[m] + MonthLens[m] <= Before[z]
      BY <1>1, <3>1, MonthsFollow
    <3> HIDE DEF z
    <3> QED
      BY <1>2, <2>1, <3>2
  <2> QED
    BY <2>2, <2>3
<1> QED
  BY <1>1, <1>2, <1>3, <1>4

\* Every minute of a year is in one month.
InMonth(o, m) == Before[m] <= o /\ o < Before[m] + MonthLens[m]

LEMMA MonthOf ==
  ASSUME NEW o \in Nat, o < YearLen
  PROVE  \E m \in Months : InMonth(o, m) /\ \A n \in Months : InMonth(o, n) => n = m
<1> DEFINE C == {m \in Months : o < Before[m] + MonthLens[m]}
<1>1. C # {} /\ C \in SUBSET Nat
  <2>1. Len(MonthLens) \in C
    BY YearIs DEF YearLen
  <2> QED
    BY <2>1, MonthsAre
<1>2. PICK m \in C : \A k \in C : m <= k
  <2> HIDE DEF C
  <2> QED
    BY <1>1, Least
<1>3. m \in Months /\ m \in Nat /\ o < Before[m] + MonthLens[m]
  BY MonthsAre
<1>4. Before[m] <= o
  <2>1. CASE m = 1
    BY <2>1, YearIs
  <2>2. CASE m # 1
    <3>1. m - 1 \in Months /\ ~(m <= m - 1)
      BY <1>3, <2>2, MonthsAre
    <3>2. ~(o < Before[m - 1] + MonthLens[m - 1])
      BY <1>2, <3>1
    <3>3. Before[m] = Before[m - 1] + MonthLens[m - 1] /\ Before[m] \in Nat
      BY <1>3, <2>2, BeforeIs, BeforeNat
    <3> QED
      BY <3>2, <3>3
  <2> QED
    BY <2>1, <2>2
<1>5. ASSUME NEW n \in Months, InMonth(o, n) PROVE n = m
  <2>1. /\ n \in Nat /\ Before[n] \in Nat /\ MonthLens[n] \in Nat
        /\ Before[m] \in Nat /\ MonthLens[m] \in Nat
        /\ Before[n] <= o /\ o < Before[n] + MonthLens[n]
    BY <1>3, <1>5, BeforeNat, MonthsAre DEF InMonth
  <2>2. ASSUME m < n PROVE FALSE
    <3>1. Before[m] + MonthLens[m] <= Before[n]
      BY <1>3, <2>2, MonthsFollow
    <3> QED
      BY <1>3, <2>1, <3>1
  <2>3. ASSUME n < m PROVE FALSE
    <3>1. Before[n] + MonthLens[n] <= Before[m]
      BY <1>3, <2>3, MonthsFollow
    <3> QED
      BY <1>4, <2>1, <3>1
  <2> QED
    BY <1>3, <2>1, <2>2, <2>3
<1> QED
  BY <1>3, <1>4, <1>5 DEF InMonth

-----------------------------------------------------------------------------
(* Where a record is                                                       *)

LEMMA DivMod ==
  ASSUME NEW a \in Nat, NEW M \in Nat \ {0}
  PROVE  a \div M \in Nat /\ a % M \in 0..M - 1 /\ a = (a \div M) * M + (a % M)
OBVIOUS

LEMMA Divide ==
  ASSUME NEW q \in Nat, NEW i \in Nat, NEW M \in Nat \ {0}, i < M
  PROVE  (q * M + i) \div M = q /\ (q * M + i) % M = i
OBVIOUS

LEMMA DivideWhole ==
  ASSUME NEW q \in Int, NEW M \in Nat \ {0}
  PROVE  (q * M) \div M = q /\ (q * M) % M = 0
OBVIOUS

LEMMA MinuteOfYearIs ==
  ASSUME NEW t \in Nat
  PROVE  MinuteOfYear(t) \in Nat /\ MinuteOfYear(t) < YearLen
<1>1. YearLen \in Nat \ {0}
  BY YearIs
<1>2. t % YearLen \in 0..YearLen - 1
  BY <1>1, DivMod
<1> QED
  BY <1>1, <1>2 DEF MinuteOfYear

LEMMA MonthIs ==
  ASSUME NEW t \in Nat, NEW m \in Months, InMonth(MinuteOfYear(t), m)
  PROVE  Month(t) = m /\ OffsetMonth(t) = MinuteOfYear(t) - Before[m]
<1>1. MinuteOfYear(t) \in Nat /\ MinuteOfYear(t) < YearLen
  BY MinuteOfYearIs
<1>2. \A n \in Months : InMonth(MinuteOfYear(t), n) => n = m
  BY <1>1, MonthOf
<1>3. Month(t) = m
  BY <1>2 DEF Month, InMonth
<1> QED
  BY <1>3 DEF OffsetMonth

\* The record stamped t is that of the minute t - 1 began with: its year, its
\* month, and how many minutes of the month have then passed.
Where(t, y, r, m) ==
  /\ y \in Nat /\ r \in Nat /\ r < YearLen /\ t = y * YearLen + r + 1
  /\ m \in Months /\ InMonth(r, m)

LEMMA WhereIs ==
  ASSUME NEW t \in Nat \ {0}
  PROVE  \E y, r, m : Where(t, y, r, m)
<1>1. PICK u \in Nat : t = u + 1
  <2>1. t - 1 \in Nat /\ t = (t - 1) + 1
    OBVIOUS
  <2> QED
    BY <2>1
<1> DEFINE y == u \div YearLen
           r == u % YearLen
<1>2. y \in Nat /\ r \in 0..YearLen - 1 /\ u = y * YearLen + r
  <2>1. YearLen \in Nat \ {0}
    BY YearIs
  <2> QED
    BY <2>1, DivMod
<1> HIDE DEF y, r
<1>3. r \in Nat /\ r < YearLen
  BY <1>2, YearIs
<1>4. PICK m \in Months : InMonth(r, m)
  BY <1>3, MonthOf
<1> QED
  BY <1>1, <1>2, <1>3, <1>4 DEF Where

LEMMA SlotIs ==
  ASSUME NEW t \in Nat, NEW y, NEW r, NEW m, Where(t, y, r, m)
  PROVE  /\ WriteFile(t) = <<y % Cycle, m>> /\ Offset(t) = r - Before[m] + 1
         /\ WriteFile(t) \in FileNames /\ Offset(t) \in 1..MonthLens[m]
         /\ ~StartsMonth(t) => ReadFile(t) = WriteFile(t)
         /\ ReadFile(t) \in FileNames
<1>1. /\ y \in Nat /\ r \in Nat /\ r < YearLen /\ t = y * YearLen + r + 1
      /\ m \in Months /\ Before[m] <= r /\ r < Before[m] + MonthLens[m]
      /\ Before[m] \in Nat /\ MonthLens[m] \in Nat /\ m \in Nat
  BY BeforeNat, MonthsAre DEF Where, InMonth
<1>2. YearLen \in Nat \ {0} /\ YearLen >= 2 /\ Cycle \in Nat \ {0}
  BY YearIs, MinuteFileAssumption
<1>3. Len(MonthLens) \in Months /\ 1 \in Months /\ Months = 1..Len(MonthLens)
      /\ Len(MonthLens) \in Nat
  BY YearIs, MonthsAre
<1>4. \A z \in Nat, n \in Months : <<z % Cycle, n>> \in FileNames
  BY <1>2 DEF FileNames
<1>5. CASE r + 1 < YearLen
  <2> DEFINE o == r + 1
  <2>1. o \in Nat /\ t = y * YearLen + o /\ o < YearLen
    <3>1. y * YearLen \in Nat
      BY <1>1, <1>2
    <3> QED
      BY <1>1, <1>5, <3>1
  <2>2. MinuteOfYear(t) = o /\ Year(t) = y
    <3> HIDE DEF o
    <3>1. (y * YearLen + o) \div YearLen = y /\ (y * YearLen + o) % YearLen = o
      BY <1>1, <1>2, <2>1, Divide
    <3>2. t \div YearLen = y /\ t % YearLen = o
      BY <2>1, <3>1, Zenon
    <3> QED
      BY <3>2, Zenon DEF MinuteOfYear, Year
  <2>3. FileYear(t) = y
    BY <1>1, <2>2 DEF FileYear, OffsetYear
  <2>4. CASE r + 1 < Before[m] + MonthLens[m]
    <3>1. InMonth(MinuteOfYear(t), m)
      BY <1>1, <2>2, <2>4 DEF InMonth
    <3>2. Month(t) = m /\ OffsetMonth(t) = r + 1 - Before[m]
      BY <1>1, <2>2, <3>1, MonthIs
    <3>3. ~StartsMonth(t)
      BY <1>1, <3>2 DEF StartsMonth
    <3>4. Offset(t) = r - Before[m] + 1 /\ Offset(t) \in 1..MonthLens[m]
      BY <1>1, <2>4, <3>2, <3>3 DEF Offset
    <3> QED
      BY <1>1, <1>4, <2>3, <3>2, <3>3, <3>4 DEF WriteFile, ReadFile, FilePath
  <2>5. CASE ~(r + 1 < Before[m] + MonthLens[m])
    <3>1. r + 1 = Before[m] + MonthLens[m]
      BY <1>1, <2>5
    <3>2. m # Len(MonthLens)
      <4>1. r + 1 # YearLen
        BY <1>1, <1>2, <1>5
      <4> QED
        BY <3>1, <4>1, Zenon DEF YearLen
    <3>3. PICK n \in Months : n = m + 1
      BY <1>1, <1>3, <3>2
    <3>4. Before[n] = r + 1 /\ MonthLens[n] \in Nat /\ MonthLens[n] >= 2 /\ n # 1
      <4>1. n # 1 /\ n - 1 = m
        BY <1>1, <1>3, <3>3
      <4> QED
        BY <3>1, <4>1, BeforeIs, MonthsAre
    <3>5. InMonth(MinuteOfYear(t), n)
      BY <1>1, <2>2, <3>4 DEF InMonth
    <3>6. Month(t) = n /\ OffsetMonth(t) = 0
      BY <1>1, <2>2, <3>4, <3>5, MonthIs
    <3>7. StartsMonth(t) /\ LastMonth(Month(t)) = m
      BY <1>1, <3>3, <3>4, <3>6 DEF StartsMonth, LastMonth
    <3>8. Offset(t) = r - Before[m] + 1 /\ Offset(t) \in 1..MonthLens[m]
      BY <1>1, <3>1, <3>7 DEF Offset
    <3> QED
      BY <1>1, <1>4, <2>3, <3>6, <3>7, <3>8 DEF WriteFile, ReadFile, FilePath
  <2> QED
    BY <2>4, <2>5
<1>6. CASE ~(r + 1 < YearLen)
  <2>1. PICK z \in Nat : z = y + 1
    BY <1>1
  <2>2. t = z * YearLen
    <3>1. r + 1 = YearLen
      BY <1>1, <1>2, <1>6
    <3>2. z * YearLen = y * YearLen + YearLen /\ y * YearLen \in Nat
      BY <1>1, <1>2, <2>1
    <3> QED
      BY <1>1, <3>1, <3>2
  <2>3. MinuteOfYear(t) = 0 /\ Year(t) = z
    <3>1. (z * YearLen) \div YearLen = z /\ (z * YearLen) % YearLen = 0
      <4>1. z \in Int
        OBVIOUS
      <4> QED
        BY <1>2, <4>1, DivideWhole
    <3>2. t \div YearLen = z /\ t % YearLen = 0
      BY <2>2, <3>1, Zenon
    <3> QED
      BY <3>2, Zenon DEF MinuteOfYear, Year
  <2>4. FileYear(t) = y
    BY <1>1, <2>1, <2>3 DEF FileYear, OffsetYear
  <2>5. InMonth(MinuteOfYear(t), 1)
    BY <1>3, <2>3, YearIs, MonthsAre DEF InMonth
  <2>6. Month(t) = 1 /\ OffsetMonth(t) = 0
    BY <1>3, <2>3, <2>5, MonthIs, YearIs
  <2>7. m = Len(MonthLens)
    <3> DEFINE k == Len(MonthLens)
    <3>1. InMonth(r, k)
      <4>1. YearLen = Before[k] + MonthLens[k] /\ Before[k] \in Nat /\ MonthLens[k] \in Nat
            /\ MonthLens[k] >= 2
        BY <1>3, BeforeNat, MonthsAre DEF YearLen
      <4> HIDE DEF k
      <4> QED
        BY <1>1, <1>6, <4>1 DEF InMonth
    <3>2. InMonth(r, m)
      BY DEF Where
    <3> QED
      BY <1>1, <1>3, <3>1, <3>2, MonthOf
  <2>8. StartsMonth(t) /\ LastMonth(Month(t)) = m
    BY <2>6, <2>7 DEF StartsMonth, LastMonth
  <2>9. Offset(t) = r - Before[m] + 1 /\ Offset(t) \in 1..MonthLens[m]
    <3>1. r + 1 = Before[m] + MonthLens[m]
      <4>1. YearLen = Before[m] + MonthLens[m]
        BY <2>7 DEF YearLen
      <4> QED
        BY <1>1, <1>2, <1>6, <4>1
    <3>2. Offset(t) = MonthLens[m]
      BY <2>8 DEF Offset
    <3> QED
      BY <1>1, <3>1, <3>2
  <2> QED
    BY <1>1, <1>3, <1>4, <2>4, <2>6, <2>8, <2>9 DEF WriteFile, ReadFile, FilePath
<1> QED
  BY <1>5, <1>6

\* Years that differ by k cycles.
LEMMA SameName ==
  ASSUME NEW y \in Nat, NEW z \in Nat, y % Cycle = z % Cycle
  PROVE  \E k \in Int : z - y = k * Cycle
<1>1. Cycle \in Nat \ {0}
  BY MinuteFileAssumption
<1> DEFINE a == y \div Cycle
           b == z \div Cycle
           i == y % Cycle
<1>2. a \in Nat /\ i \in 0..Cycle - 1 /\ y = a * Cycle + i /\ b \in Nat /\ z = b * Cycle + i
  <2>1. z = b * Cycle + (z % Cycle) /\ b \in Nat
    BY <1>1, DivMod
  <2>2. a \in Nat /\ i \in 0..Cycle - 1 /\ y = a * Cycle + i
    BY <1>1, DivMod
  <2> QED
    BY <2>1, <2>2
<1> HIDE DEF a, b, i
<1>3. b - a \in Int /\ (b - a) * Cycle = b * Cycle - a * Cycle
  BY <1>1, <1>2
<1>4. a * Cycle \in Nat /\ b * Cycle \in Nat
  BY <1>1, <1>2
<1> QED
  BY <1>1, <1>2, <1>3, <1>4

\* Only the same minutes of years that are named alike share a slot.
LEMMA SharedSlot ==
  ASSUME NEW t \in Nat \ {0}, NEW u \in Nat \ {0},
         WriteFile(t) = WriteFile(u), Offset(t) = Offset(u)
  PROVE  Alike(t, u)
<1>1. PICK y, r, m : Where(t, y, r, m)
  BY WhereIs
<1>2. PICK z, s, n : Where(u, z, s, n)
  BY WhereIs
<1>3. /\ WriteFile(t) = <<y % Cycle, m>> /\ Offset(t) = r - Before[m] + 1
      /\ WriteFile(u) = <<z % Cycle, n>> /\ Offset(u) = s - Before[n] + 1
  BY <1>1, <1>2, SlotIs
<1>4. m = n /\ y % Cycle = z % Cycle
  <2>1. \A a, b, c, d : <<a, b>> = <<c, d>> => a = c /\ b = d
    OBVIOUS
  <2>2. <<y % Cycle, m>> = <<z % Cycle, n>>
    BY <1>3, Zenon
  <2> QED
    BY <2>1, <2>2, Zenon
<1>5. y \in Nat /\ z \in Nat /\ r \in Nat /\ s \in Nat /\ Before[m] \in Nat
  BY <1>1, <1>2, BeforeNat DEF Where
<1>6. r = s
  <2>1. r - Before[m] + 1 = s - Before[m] + 1
    BY <1>3, <1>4, Zenon
  <2> QED
    BY <1>5, <2>1
<1>7. PICK k \in Int : z - y = k * Cycle
  BY <1>4, <1>5, SameName
<1>8. YearLen \in Nat \ {0} /\ Cycle \in Nat \ {0}
  BY YearIs, MinuteFileAssumption
<1>9. t = y * YearLen + r + 1 /\ u = z * YearLen + r + 1
  BY <1>1, <1>2, <1>6 DEF Where
<1>10. u - t = (z - y) * YearLen
  <2>1. y * YearLen \in Nat /\ z * YearLen \in Nat
    BY <1>5, <1>8
  <2>2. (z - y) * YearLen = z * YearLen - y * YearLen
    BY <1>5, <1>8
  <2> QED
    BY <1>5, <1>9, <2>1, <2>2
<1>11. PICK M \in Nat \ {0} : M = Cycle * YearLen
  BY <1>8
<1>12. (k * Cycle) * YearLen = k * M
  BY <1>7, <1>8, <1>11
<1>13. (k * M) % M = 0
  BY <1>11, DivideWhole
<1> QED
  BY <1>7, <1>10, <1>11, <1>12, <1>13 DEF Alike

\* Every record has a slot.
LEMMA HasSlot ==
  ASSUME NEW t \in Nat \ {0}
  PROVE  /\ WriteFile(t) \in FileNames /\ Offset(t) \in 1..MonthLens[WriteFile(t)[2]]
         /\ ~StartsMonth(t) => ReadFile(t) = WriteFile(t)
         /\ ReadFile(t) \in FileNames
<1>1. PICK y, r, m : Where(t, y, r, m)
  BY WhereIs
<1>2. WriteFile(t)[2] = m
  BY <1>1, SlotIs
<1> QED
  BY <1>1, <1>2, SlotIs

-----------------------------------------------------------------------------
(* The inductive invariant                                                 *)

\* A defined slot holds a record that belongs there.
HoldsItsOwn(f, o, v, upto) ==
  v = Undefined \/ (v \in StartAt + 1 .. upto /\ WriteFile(v) = f /\ Offset(v) = o)

SlotsHoldTheirOwn ==
  \A f \in FileNames : \A o \in DOMAIN files[f] : HoldsItsOwn(f, o, files[f][o], now)

\* A record written stays, or a later one has replaced it.
Stays(t) ==
  /\ Offset(t) \in DOMAIN files[WriteFile(t)]
  /\ files[WriteFile(t)][Offset(t)] >= t

Bounds ==
  /\ now \in StartAt .. LastMinute /\ asked \in StartAt .. now /\ answer \in Int
  /\ recorded \subseteq StartAt + 1 .. now /\ lost \in 0 .. MaxLost

Shape ==
  /\ DOMAIN files = FileNames
  /\ \A f \in FileNames : DOMAIN files[f] \subseteq 0 .. MonthLens[f[2]]

MinuteInv ==
  /\ Bounds /\ Shape /\ SlotsHoldTheirOwn
  /\ \A t \in recorded : Stays(t)
  /\ FindsTheMinute

LEMMA FirstBoot == StartAt \in Nat /\ StartAt >= 2 /\ LastMinute \in Nat /\ StartAt <= LastMinute
                   /\ MaxLost \in Nat
BY MinuteFileAssumption, YearIs

LEMMA InitMinuteInv == Init => MinuteInv
<1>1. SUFFICES ASSUME Init PROVE MinuteInv
  OBVIOUS
<1>2. Bounds
  BY <1>1, FirstBoot DEF Init, Bounds, Fail
<1>3. Shape /\ SlotsHoldTheirOwn
  <2>1. \A f \in FileNames : DOMAIN files[f] = {}
    <3>1. DOMAIN <<>> = {}
      OBVIOUS
    <3> QED
      BY <1>1, <3>1 DEF Init
  <2> QED
    BY <1>1, <2>1 DEF Init, Shape, SlotsHoldTheirOwn
<1>4. FindsTheMinute
  BY <1>1 DEF Init, FindsTheMinute, Fail
<1> QED
  BY <1>1, <1>2, <1>3, <1>4 DEF Init, MinuteInv

\* Slots that held their own hold it a minute later.
LEMMA HoldsOn ==
  ASSUME NEW f, NEW o, NEW v, NEW n \in Nat, HoldsItsOwn(f, o, v, n)
  PROVE  HoldsItsOwn(f, o, v, n + 1)
<1>1. StartAt + 1 .. n \subseteq StartAt + 1 .. n + 1
  BY FirstBoot
<1> QED
  BY <1>1 DEF HoldsItsOwn

LEMMA WriteMinuteKeeps == MinuteInv /\ WriteMinute => MinuteInv'
<1>1. SUFFICES ASSUME MinuteInv, WriteMinute PROVE MinuteInv'
  OBVIOUS
<1> DEFINE w == WriteFile(now + 1)
           s == Offset(now + 1)
           g == Extended(files[w], s, now + 1)
<1>2. /\ now \in StartAt .. LastMinute /\ now < LastMinute /\ now' = now + 1
      /\ recorded' = recorded \cup {now + 1} /\ asked' = asked /\ answer' = answer /\ lost' = lost
      /\ DOMAIN files = FileNames
  BY <1>1 DEF MinuteInv, Bounds, Shape, WriteMinute
<1>3. files' = [files EXCEPT ![w] = g]
  BY <1>1, <1>2 DEF WriteMinute
<1>4. now \in Nat /\ now + 1 \in Nat \ {0} /\ now + 1 \in StartAt + 1 .. now + 1
  BY <1>2, FirstBoot
<1>5. w \in FileNames /\ s \in 1 .. MonthLens[w[2]]
  BY <1>4, HasSlot
<1>6. s \in Nat
  BY <1>5
<1> HIDE DEF w, s, g
<1>7. /\ DOMAIN g = DOMAIN files[w] \cup (0 .. s)
      /\ g[s] = now + 1
      /\ \A i \in DOMAIN g : i # s => \/ i \in DOMAIN files[w] /\ g[i] = files[w][i]
                                      \/ g[i] = Undefined
      /\ \A i \in DOMAIN files[w] : i # s => g[i] = files[w][i]
  <2> DEFINE e == Extended(files[w], s, now + 1)
  <2>1. /\ DOMAIN e = DOMAIN files[w] \cup (0 .. s)
        /\ e[s] = now + 1
        /\ \A i \in DOMAIN e : i # s => \/ i \in DOMAIN files[w] /\ e[i] = files[w][i]
                                        \/ e[i] = Undefined
        /\ \A i \in DOMAIN files[w] : i # s => e[i] = files[w][i]
    BY <1>6 DEF Extended
  <2>2. g = e
    BY Zenon DEF g
  <2> HIDE DEF e
  <2> QED
    BY <2>1, <2>2
<1>8. /\ DOMAIN files' = FileNames
      /\ files'[w] = g
      /\ \A f \in FileNames : f # w => files'[f] = files[f]
  BY <1>2, <1>3, <1>5
<1>9. Bounds'
  BY <1>1, <1>2, <1>4, FirstBoot DEF MinuteInv, Bounds
<1>10. Shape'
  <2>1. ASSUME NEW f \in FileNames PROVE DOMAIN files'[f] \subseteq 0 .. MonthLens[f[2]]
    <3>1. DOMAIN files[f] \subseteq 0 .. MonthLens[f[2]]
      BY <1>1 DEF MinuteInv, Shape
    <3>2. CASE f = w
      <4>1. 0 .. s \subseteq 0 .. MonthLens[w[2]]
        <5>1. PICK L : L = MonthLens[w[2]]
          OBVIOUS
        <5>2. w[2] \in Months
          BY <1>5 DEF FileNames
        <5>3. L \in Nat
          BY <5>1, <5>2, MonthsAre
        <5>4. s \in 1 .. L
          BY <1>5, <5>1
        <5> QED
          BY <5>1, <5>3, <5>4
      <4> QED
        BY <1>7, <1>8, <3>1, <3>2, <4>1
    <3>3. CASE f # w
      BY <1>8, <3>1, <3>3
    <3> QED
      BY <3>2, <3>3
  <2> QED
    BY <1>8, <2>1 DEF Shape
<1>11. SlotsHoldTheirOwn'
  <2>1. ASSUME NEW f \in FileNames, NEW o \in DOMAIN files'[f]
        PROVE  HoldsItsOwn(f, o, files'[f][o], now + 1)
    <3>1. \A i \in DOMAIN files[f] : HoldsItsOwn(f, i, files[f][i], now + 1)
      <4>1. \A i \in DOMAIN files[f] : HoldsItsOwn(f, i, files[f][i], now)
        BY <1>1 DEF MinuteInv, SlotsHoldTheirOwn
      <4> QED
        BY <1>4, <4>1, HoldsOn
    <3>2. CASE f # w
      BY <1>8, <2>1, <3>1, <3>2
    <3>3. CASE f = w /\ o = s
      <4>1. HoldsItsOwn(w, s, now + 1, now + 1)
        BY <1>4 DEF HoldsItsOwn, w, s
      <4> QED
        BY <1>7, <1>8, <3>3, <4>1
    <3>4. CASE f = w /\ o # s
      <4>1. \/ o \in DOMAIN files[w] /\ files'[f][o] = files[w][o]
            \/ files'[f][o] = Undefined
        BY <1>7, <1>8, <2>1, <3>4
      <4>2. HoldsItsOwn(f, o, Undefined, now + 1)
        BY DEF HoldsItsOwn
      <4> QED
        BY <3>1, <3>4, <4>1, <4>2
    <3> QED
      BY <3>2, <3>3, <3>4
  <2> QED
    BY <1>2, <2>1 DEF SlotsHoldTheirOwn
<1>12. ASSUME NEW t \in recorded' PROVE Stays(t)'
  <2>1. CASE t = now + 1
    <3>1. s \in DOMAIN g /\ g[s] >= now + 1
      BY <1>4, <1>6, <1>7
    <3> QED
      BY <1>8, <2>1, <3>1 DEF Stays, w, s
  <2>2. CASE t # now + 1
    <3>1. t \in recorded /\ Stays(t)
      BY <1>1, <1>2, <1>12, <2>2 DEF MinuteInv
    <3>2. t \in StartAt + 1 .. now
      BY <1>1, <3>1 DEF MinuteInv, Bounds
    <3>3. t \in Nat \ {0} /\ t <= now + 1
      BY <1>4, <3>2, FirstBoot
    <3>4. WriteFile(t) \in FileNames
      BY <3>3, HasSlot
    <3>5. CASE WriteFile(t) # w
      BY <1>8, <3>1, <3>4, <3>5 DEF Stays
    <3>6. CASE WriteFile(t) = w /\ Offset(t) # s
      BY <1>7, <1>8, <3>1, <3>6 DEF Stays
    <3>7. CASE WriteFile(t) = w /\ Offset(t) = s
      <4>1. Offset(t) \in DOMAIN g /\ g[Offset(t)] >= t
        BY <1>4, <1>6, <1>7, <3>3, <3>7
      <4> QED
        BY <1>8, <3>7, <4>1 DEF Stays
    <3> QED
      BY <3>5, <3>6, <3>7
  <2> QED
    BY <2>1, <2>2
<1>13. FindsTheMinute'
  <2>1. asked # now + 1
    BY <1>1, <1>4, FirstBoot DEF MinuteInv, Bounds
  <2> QED
    BY <1>1, <1>2, <2>1 DEF MinuteInv, FindsTheMinute
<1> QED
  BY <1>9, <1>10, <1>11, <1>12, <1>13 DEF MinuteInv

LEMMA LoseMinuteKeeps == MinuteInv /\ LoseMinute => MinuteInv'
<1>1. SUFFICES ASSUME MinuteInv, LoseMinute PROVE MinuteInv'
  OBVIOUS
<1>2. /\ now \in StartAt .. LastMinute /\ now < LastMinute /\ now' = now + 1
      /\ lost' = lost + 1 /\ lost < MaxLost /\ lost \in 0 .. MaxLost
      /\ recorded' = recorded /\ asked' = asked /\ answer' = answer /\ files' = files
  BY <1>1 DEF MinuteInv, Bounds, LoseMinute
<1>3. now \in Nat
  BY <1>2, FirstBoot
<1>4. Bounds'
  BY <1>1, <1>2, <1>3, FirstBoot DEF MinuteInv, Bounds
<1>5. SlotsHoldTheirOwn'
  BY <1>1, <1>2, <1>3, HoldsOn DEF MinuteInv, SlotsHoldTheirOwn
<1>6. Shape' /\ FindsTheMinute' /\ \A t \in recorded' : Stays(t)'
  BY <1>1, <1>2 DEF MinuteInv, Shape, FindsTheMinute, Stays
<1> QED
  BY <1>4, <1>5, <1>6 DEF MinuteInv

\* A read of any minute but 00:00 of the first of a month finds its slot.
LEMMA ReadFinds ==
  ASSUME MinuteInv, NEW t \in StartAt + 1 .. now, ~StartsMonth(t),
         NEW v, v = LET f == files[ReadFile(t)]
                    IN  IF Offset(t) \in DOMAIN f THEN f[Offset(t)] ELSE Fail
  PROVE  /\ v >= 0 => Alike(t, v)
         /\ t \in recorded => v >= t
<1>1. now \in Nat /\ t \in Nat \ {0}
  BY FirstBoot DEF MinuteInv, Bounds
<1>2. WriteFile(t) \in FileNames /\ ReadFile(t) = WriteFile(t)
  BY <1>1, HasSlot
<1>3. v = IF Offset(t) \in DOMAIN files[WriteFile(t)] THEN files[WriteFile(t)][Offset(t)] ELSE Fail
  BY <1>2
<1>4. ASSUME v >= 0 PROVE Alike(t, v)
  <2>1. Offset(t) \in DOMAIN files[WriteFile(t)] /\ v = files[WriteFile(t)][Offset(t)]
        /\ v # Undefined
    BY <1>3, <1>4 DEF Fail, Undefined
  <2>2. HoldsItsOwn(WriteFile(t), Offset(t), v, now)
    BY <1>2, <2>1 DEF MinuteInv, SlotsHoldTheirOwn
  <2>3. v \in Nat \ {0} /\ WriteFile(t) = WriteFile(v) /\ Offset(t) = Offset(v)
    BY <1>1, <2>1, <2>2, FirstBoot DEF HoldsItsOwn
  <2> QED
    BY <1>1, <2>3, SharedSlot
<1>5. ASSUME t \in recorded PROVE v >= t
  BY <1>3, <1>5 DEF MinuteInv, Stays
<1> QED
  BY <1>4, <1>5

LEMMA ReadKeeps == MinuteInv /\ Read => MinuteInv'
<1>1. SUFFICES ASSUME MinuteInv, Read PROVE MinuteInv'
  OBVIOUS
<1>2. PICK t \in StartAt + 1 .. now :
        /\ asked' = t
        /\ answer' = LET f == files[ReadFile(t)]
                     IN  IF Offset(t) \in DOMAIN f THEN f[Offset(t)] ELSE Fail
        /\ UNCHANGED <<now, files, recorded, lost>>
  BY <1>1 DEF Read
<1>3. now \in Nat /\ t \in Nat \ {0} /\ t \in StartAt .. now
  BY <1>1, FirstBoot DEF MinuteInv, Bounds
<1>4. answer' \in Int
  <2>1. ReadFile(t) \in FileNames
    BY <1>3, HasSlot
  <2>2. \A f \in FileNames : \A o \in DOMAIN files[f] : files[f][o] \in Int
    BY <1>1, <1>3, FirstBoot DEF MinuteInv, SlotsHoldTheirOwn, HoldsItsOwn, Undefined
  <2> QED
    BY <1>2, <2>1, <2>2 DEF Fail
<1>5. Bounds'
  BY <1>1, <1>2, <1>3, <1>4 DEF MinuteInv, Bounds
<1>6. Shape' /\ SlotsHoldTheirOwn' /\ \A u \in recorded' : Stays(u)'
  BY <1>1, <1>2 DEF MinuteInv, Shape, SlotsHoldTheirOwn, Stays
<1>7. FindsTheMinute'
  <2>1. ~StartsMonth(t) => /\ answer' >= 0 => Alike(t, answer')
                           /\ t \in recorded => answer' >= t
    BY <1>1, <1>2, ReadFinds
  <2> QED
    BY <1>2, <2>1 DEF FindsTheMinute
<1> QED
  BY <1>5, <1>6, <1>7 DEF MinuteInv

\* The month files' invariant: the slot at offset o of a file is undefined or holds
\* a minute whose file and offset are these (write_data_month), and a minute that
\* was written leaves its slot filled by itself or by a later minute that shares it.
THEOREM MinuteInvariance == Spec => []MinuteInv
<1>1. ASSUME MinuteInv, UNCHANGED vars PROVE MinuteInv'
  BY <1>1 DEF MinuteInv, vars, Bounds, Shape, SlotsHoldTheirOwn, Stays, FindsTheMinute
<1>2. MinuteInv /\ [Next]_vars => MinuteInv'
  BY <1>1, WriteMinuteKeeps, LoseMinuteKeeps, ReadKeeps DEF Next
<1> QED
  BY <1>2, InitMinuteInv, PTL DEF Spec

\* Files hold minutes of the clock or undefined slots, a read answers with one of
\* these or fails: write_data_month and read_data_month stay inside the types, for
\* months and cycles of years of any length.
THEOREM MinuteTypeCorrect == Spec => []TypeOK
<1>1. ASSUME MinuteInv PROVE TypeOK
  <2>1. now \in Nat
    BY <1>1, FirstBoot DEF MinuteInv, Bounds
  <2>2. ASSUME NEW f \in FileNames, 0 \in DOMAIN files[f] PROVE files[f][0] = Undefined
    <3>1. HoldsItsOwn(f, 0, files[f][0], now)
      BY <1>1, <2>2 DEF MinuteInv, SlotsHoldTheirOwn
    <3>2. ASSUME NEW v \in StartAt + 1 .. now PROVE Offset(v) # 0
      BY <2>1, HasSlot, FirstBoot
    <3> QED
      BY <3>1, <3>2 DEF HoldsItsOwn
  <2>3. recorded \subseteq StartAt .. LastMinute /\ asked \in StartAt .. LastMinute
    BY <1>1, <2>1, FirstBoot DEF MinuteInv, Bounds
  <2> QED
    BY <1>1, <2>2, <2>3 DEF MinuteInv, Bounds, Shape, TypeOK
<1> QED
  BY <1>1, MinuteInvariance, PTL

\* A minute record once written stays readable in its slot until the file's name
\* comes round again, Cycle years later: no other minute's write_data_month and no
\* gap left by a lost minute takes it away.
THEOREM KeptForYearsHolds == Spec => []KeptForYears
<1>1. ASSUME MinuteInv, NEW t \in recorded
      PROVE  /\ files[WriteFile(t)][Offset(t)] >= t
             /\ Alike(t, files[WriteFile(t)][Offset(t)])
  <2>1. now \in Nat /\ t \in Nat \ {0} /\ t \in StartAt + 1 .. now
    BY <1>1, FirstBoot DEF MinuteInv, Bounds
  <2>2. Stays(t) /\ WriteFile(t) \in FileNames
    BY <1>1, <2>1, HasSlot DEF MinuteInv
  <2> DEFINE v == files[WriteFile(t)][Offset(t)]
  <2>3. HoldsItsOwn(WriteFile(t), Offset(t), v, now) /\ v >= t
    BY <1>1, <2>2 DEF MinuteInv, SlotsHoldTheirOwn, Stays
  <2> HIDE DEF v
  <2>4. v # Undefined
    BY <2>1, <2>3 DEF Undefined
  <2>5. v \in Nat \ {0} /\ WriteFile(t) = WriteFile(v) /\ Offset(t) = Offset(v)
    BY <2>1, <2>3, <2>4, FirstBoot DEF HoldsItsOwn
  <2>6. Alike(t, v)
    BY <2>1, <2>5, SharedSlot
  <2> QED
    BY <2>3, <2>6 DEF v
<1>2. MinuteInv => KeptForYears
  BY <1>1 DEF KeptForYears
<1> QED
  BY <1>2, MinuteInvariance, PTL

\* What read_data_month answers for a minute that does not start a month is that
\* minute's record, or the one a whole number of cycles of years later or earlier.
THEOREM FindsTheMinuteHolds == Spec => []FindsTheMinute
<1>1. MinuteInv => FindsTheMinute
  BY DEF MinuteInv
<1> QED
  BY <1>1, MinuteInvariance, PTL

-----------------------------------------------------------------------------
(* How far FindsTheLastOfTheMonth is from being true                       *)

\* Whatever 00:00 of the first of a month was answered with, it was not its
\* record.
FindsAnother == StartsMonth(asked) => answer # asked

LEMMA MonthBefore ==
  ASSUME Len(MonthLens) > 1, NEW t \in Nat, StartsMonth(t)
  PROVE  WriteFile(t) # ReadFile(t)
<1>1. MinuteOfYear(t) \in Nat /\ MinuteOfYear(t) < YearLen
  BY MinuteOfYearIs
<1>2. Month(t) \in Months
  <2>1. PICK m \in Months : InMonth(MinuteOfYear(t), m)
    BY <1>1, MonthOf
  <2> QED
    BY <2>1, MonthIs
<1>3. LastMonth(Month(t)) # Month(t)
  BY <1>2, MonthsAre DEF LastMonth
<1> QED
  BY <1>3 DEF WriteFile, ReadFile, FilePath

\* Of a year of more than one month, the record of 00:00 of the first of a
\* month is written to the month that ends, and read_data_month never finds it:
\* it looks into the file of the month that begins (app_dataLogging.c:252).
THEOREM MonthStartNeverFound == ASSUME Len(MonthLens) > 1 PROVE Spec => []FindsAnother
<1>1. Init => FindsAnother
  BY FirstBoot DEF Init, FindsAnother, Fail
<1>2. ASSUME MinuteInv, FindsAnother, [Next]_vars PROVE FindsAnother'
  <2>1. CASE WriteMinute \/ LoseMinute \/ UNCHANGED vars
    BY <1>2, <2>1 DEF WriteMinute, LoseMinute, vars, FindsAnother
  <2>2. CASE Read
    <3>1. PICK t \in StartAt + 1 .. now :
            /\ asked' = t
            /\ answer' = LET f == files[ReadFile(t)]
                         IN  IF Offset(t) \in DOMAIN f THEN f[Offset(t)] ELSE Fail
      BY <2>2 DEF Read
    <3>2. now \in Nat /\ t \in Nat \ {0}
      BY <1>2, FirstBoot DEF MinuteInv, Bounds
    <3>3. ASSUME StartsMonth(t), answer' = t PROVE FALSE
      <4>1. Offset(t) \in DOMAIN files[ReadFile(t)] /\ files[ReadFile(t)][Offset(t)] = t
        BY <3>1, <3>2, <3>3 DEF Fail
      <4>2. ReadFile(t) \in FileNames
        BY <3>2, HasSlot
      <4>3. HoldsItsOwn(ReadFile(t), Offset(t), t, now)
        BY <1>2, <4>1, <4>2 DEF MinuteInv, SlotsHoldTheirOwn
      <4>4. WriteFile(t) = ReadFile(t)
        BY <3>2, <4>3 DEF HoldsItsOwn, Undefined
      <4> QED
        BY <3>2, <3>3, <4>4, MonthBefore
    <3> QED
      BY <3>1, <3>3 DEF FindsAnother
  <2> QED
    BY <1>2, <2>1, <2>2 DEF Next
<1> QED
  BY <1>1, <1>2, MinuteInvariance, PTL DEF Spec

-----------------------------------------------------------------------------
(* MinuteFile implements MinuteRing                                        *)

LEMMA SpanIs == Span \in Nat \ {0} /\ Span = Cycle * YearLen /\ YearLen \in Nat \ {0}
                /\ Cycle \in Nat \ {0}
BY YearIs, MinuteFileAssumption DEF Span

\* Minutes a whole number of cycles apart share their slot.
LEMMA CyclesShare ==
  ASSUME NEW t \in Nat \ {0}, NEW u \in Nat \ {0}, NEW j \in Int, u - t = j * Span
  PROVE  WriteFile(u) = WriteFile(t) /\ Offset(u) = Offset(t)
<1>1. PICK y, r, m : Where(t, y, r, m)
  BY WhereIs
<1>2. /\ y \in Nat /\ r \in Nat /\ r < YearLen /\ t = y * YearLen + r + 1
      /\ m \in Months /\ InMonth(r, m)
  BY <1>1 DEF Where
<1>3. PICK z \in Int : z = y + j * Cycle
  BY <1>2, SpanIs
<1>4. u = z * YearLen + r + 1
  <2>1. j * Span = (j * Cycle) * YearLen
    BY SpanIs
  <2>2. PICK c \in Int : c = j * Cycle
    BY SpanIs
  <2>3. z * YearLen = y * YearLen + c * YearLen
    BY <1>2, <1>3, <2>2, SpanIs
  <2>4. y * YearLen \in Int /\ c * YearLen \in Int
    BY <1>2, <2>2, SpanIs
  <2> QED
    BY <1>2, <2>1, <2>2, <2>3, <2>4
<1>5. z \in Nat
  <2>1. SUFFICES ASSUME z <= -1 PROVE FALSE
    OBVIOUS
  <2>2. z * YearLen <= -YearLen
    BY <2>1, SpanIs
  <2>3. z * YearLen \in Int
    BY SpanIs
  <2> QED
    BY <1>2, <1>4, <2>2, <2>3, SpanIs
<1>6. Where(u, z, r, m)
  BY <1>2, <1>4, <1>5 DEF Where
<1>7. z % Cycle = y % Cycle
  <2> DEFINE q == y \div Cycle
             i == y % Cycle
  <2>1. q \in Nat /\ i \in 0 .. Cycle - 1 /\ y = q * Cycle + i
    BY <1>2, SpanIs, DivMod
  <2> HIDE DEF q, i
  <2>2. PICK p \in Int : p = q + j
    BY <2>1
  <2>3. p * Cycle = q * Cycle + j * Cycle /\ q * Cycle \in Int /\ j * Cycle \in Int
    BY <2>1, <2>2, SpanIs
  <2>4. z = p * Cycle + i
    BY <1>2, <1>3, <2>1, <2>3
  <2>5. p \in Nat
    <3>1. SUFFICES ASSUME p <= -1 PROVE FALSE
      BY <2>2
    <3>2. p * Cycle <= -Cycle /\ p * Cycle \in Int
      BY <2>2, <3>1, SpanIs
    <3> QED
      BY <1>5, <2>1, <2>4, <3>2, SpanIs
  <2> QED
    <3>1. (p * Cycle + i) % Cycle = i
      BY <2>1, <2>5, SpanIs, Divide
    <3> QED
      BY <2>4, <3>1 DEF i
<1> QED
  BY <1>1, <1>6, <1>7, SlotIs

LEMMA PlaceOf ==
  ASSUME NEW t \in Nat \ {0}
  PROVE  t % Span \in 0 .. Span - 1 /\ Places[t % Span] = <<WriteFile(t), Offset(t)>>
<1> DEFINE k == t % Span
<1>1. k \in 0 .. Span - 1
  BY SpanIs, DivMod
<1>2. PICK j \in Int : k + Span - t = j * Span
  <2>1. t = (t \div Span) * Span + k /\ t \div Span \in Nat
    BY SpanIs, DivMod
  <2>2. PICK q \in Nat : q = t \div Span
    BY <2>1
  <2>3. (1 - q) * Span = Span - q * Span /\ q * Span \in Nat
    BY <2>2, SpanIs
  <2>4. k + Span - t = (1 - q) * Span
    BY <1>1, <2>1, <2>2, <2>3, SpanIs
  <2> QED
    BY <2>2, <2>4
<1> HIDE DEF k
<1>3. PICK u \in Nat \ {0} : u = k + Span
  BY <1>1, SpanIs
<1>4. WriteFile(u) = WriteFile(t) /\ Offset(u) = Offset(t)
  <2>1. u - t = j * Span
    BY <1>1, <1>2, <1>3, SpanIs
  <2> QED
    BY <2>1, CyclesShare
<1> QED
  BY <1>1, <1>3, <1>4 DEF Places, k

\* No two minutes of a cycle have the same place.
LEMMA PlacesDiffer ==
  ASSUME NEW i \in 0 .. Span - 1, NEW k \in 0 .. Span - 1, Places[i] = Places[k]
  PROVE  i = k
<1>1. i + Span \in Nat \ {0} /\ k + Span \in Nat \ {0}
  BY SpanIs
<1>2. WriteFile(i + Span) = WriteFile(k + Span) /\ Offset(i + Span) = Offset(k + Span)
  BY DEF Places
<1>3. ((k + Span) - (i + Span)) % Span = 0
  BY <1>1, <1>2, SharedSlot, SpanIs DEF Alike
<1>4. \A d \in Int, M \in Nat \ {0} : d % M = 0 /\ -M < d /\ d < M => d = 0
  OBVIOUS
<1>5. (k + Span) - (i + Span) = 0
  BY <1>3, <1>4, SpanIs
<1> QED
  BY <1>5, SpanIs

\* The place of minute k of a cycle is a slot of a file.
LEMMA PlaceIs ==
  ASSUME NEW k \in 0 .. Span - 1
  PROVE  /\ Places[k] = <<Places[k][1], Places[k][2]>>
         /\ Places[k][1] \in FileNames
<1>1. k + Span \in Nat \ {0}
  BY SpanIs
<1>2. Places[k] = <<WriteFile(k + Span), Offset(k + Span)>>
  BY DEF Places
<1>3. WriteFile(k + Span) \in FileNames
  BY <1>1, HasSlot
<1> QED
  BY <1>2, <1>3

\* A write fills the place of its minute and no other.
LEMMA WriteFillsOne ==
  ASSUME MinuteInv, WriteMinute, NEW k \in 0 .. Span - 1
  PROVE  Found(Places[k])' = IF k = (now + 1) % Span THEN now + 1 ELSE Found(Places[k])
<1> DEFINE w == WriteFile(now + 1)
           s == Offset(now + 1)
           f == Places[k][1]
           o == Places[k][2]
<1>1. now + 1 \in Nat \ {0}
  BY FirstBoot DEF MinuteInv, Bounds
<1>2. /\ w \in FileNames /\ s \in 1 .. MonthLens[w[2]]
      /\ (now + 1) % Span \in 0 .. Span - 1 /\ Places[(now + 1) % Span] = <<w, s>>
  BY <1>1, HasSlot, PlaceOf
<1>3. Places[k] = <<f, o>> /\ f \in FileNames
  BY PlaceIs
<1>4. files' = [files EXCEPT ![w] = Extended(files[w], s, now + 1)] /\ DOMAIN files = FileNames
  BY DEF WriteMinute, MinuteInv, Shape
<1>5. s \in 0 .. s
  <2>1. w[2] \in Months
    BY <1>2 DEF FileNames
  <2> HIDE DEF w
  <2>2. MonthLens[w[2]] \in Nat
    BY <2>1, MonthsAre
  <2> QED
    BY <1>2, <2>2
<1>6. /\ Found(Places[k]) = IF o \in DOMAIN files[f] THEN files[f][o] ELSE Undefined
      /\ Found(Places[k])' = IF o \in DOMAIN files'[f] THEN files'[f][o] ELSE Undefined
  BY DEF Found
<1>7. CASE k = (now + 1) % Span
  <2>1. f = w /\ o = s
    BY <1>2, <1>7
  <2>2. s \in DOMAIN files'[w] /\ files'[w][s] = now + 1
    BY <1>2, <1>4, <1>5 DEF Extended
  <2> QED
    BY <1>6, <1>7, <2>1, <2>2
<1>8. CASE k # (now + 1) % Span
  <2>1. f # w \/ o # s
    <3>1. Places[k] # <<w, s>>
      BY <1>2, <1>8, PlacesDiffer
    <3> QED
      BY <1>3, <3>1
  <2>2. CASE f # w
    <3>1. files'[f] = files[f]
      BY <1>3, <1>4, <2>2
    <3> QED
      BY <1>6, <1>8, <3>1
  <2>3. CASE f = w /\ o # s
    <3>1. files'[f] = Extended(files[f], s, now + 1)
      BY <1>3, <1>4, <2>3
    <3>2. /\ DOMAIN files'[f] = DOMAIN files[f] \cup (0 .. s)
          /\ \A i \in DOMAIN files'[f] :
               i # s => files'[f][i] = IF i \in DOMAIN files[f] THEN files[f][i] ELSE Undefined
      BY <3>1 DEF Extended
    <3> QED
      BY <1>6, <1>8, <2>3, <3>2
  <2> QED
    BY <2>1, <2>2, <2>3
<1> QED
  BY <1>7, <1>8

KeptBar == [k \in 0 .. Span - 1 |-> Found(Places[k])]

GotBar == IF asked = StartAt \/ StartsMonth(asked) THEN <<>>
          ELSE <<asked, IF answer = Fail THEN Undefined ELSE answer>>

LEMMA WriteStores == ASSUME MinuteInv, WriteMinute PROVE Ring!Store
<1>1. now' = now + 1 /\ GotBar' = GotBar
  BY DEF WriteMinute, GotBar
<1>2. KeptBar' = [KeptBar EXCEPT ![(now + 1) % Span] = now + 1]
  <2>1. KeptBar' = [k \in 0 .. Span - 1 |-> Found(Places[k])']
    BY DEF KeptBar
  <2>2. \A k \in 0 .. Span - 1 :
          Found(Places[k])' = IF k = (now + 1) % Span THEN now + 1 ELSE Found(Places[k])
    BY WriteFillsOne
  <2> QED
    BY <2>1, <2>2 DEF KeptBar
<1> QED
  BY <1>1, <1>2 DEF Ring!Store, KeptBar, GotBar

LEMMA ReadFetches == ASSUME MinuteInv, Read PROVE Ring!Fetch \/ Ring!Disclaim
<1>1. PICK t \in StartAt + 1 .. now :
        /\ asked' = t
        /\ answer' = LET f == files[ReadFile(t)]
                     IN  IF Offset(t) \in DOMAIN f THEN f[Offset(t)] ELSE Fail
        /\ UNCHANGED <<now, files, recorded, lost>>
  BY DEF Read
<1>2. now \in Nat /\ t \in Nat \ {0} /\ t \in 1 .. now /\ t # StartAt
  BY FirstBoot DEF MinuteInv, Bounds
<1>3. now' = now /\ KeptBar' = KeptBar
  BY <1>1 DEF KeptBar, Found
<1>4. CASE StartsMonth(t)
  <2>1. GotBar' = <<>>
    BY <1>1, <1>4 DEF GotBar
  <2> QED
    BY <1>3, <2>1 DEF Ring!Disclaim, KeptBar, GotBar
<1>5. CASE ~StartsMonth(t)
  <2>1. WriteFile(t) \in FileNames /\ ReadFile(t) = WriteFile(t)
    BY <1>2, <1>5, HasSlot
  <2>2. KeptBar[t % Span] = Found(<<WriteFile(t), Offset(t)>>)
    BY <1>2, PlaceOf DEF KeptBar
  <2>3. Found(<<WriteFile(t), Offset(t)>>) =
          IF Offset(t) \in DOMAIN files[WriteFile(t)]
          THEN files[WriteFile(t)][Offset(t)] ELSE Undefined
    BY DEF Found
  <2>4. Offset(t) \in DOMAIN files[WriteFile(t)] => files[WriteFile(t)][Offset(t)] # Fail
    BY <1>2, <2>1, FirstBoot DEF MinuteInv, SlotsHoldTheirOwn, HoldsItsOwn, Fail, Undefined
  <2>5. (IF answer' = Fail THEN Undefined ELSE answer') = KeptBar[t % Span]
    BY <1>1, <2>1, <2>2, <2>3, <2>4
  <2>6. GotBar' = <<t, KeptBar[t % Span]>>
    BY <1>1, <1>2, <1>5, <2>5 DEF GotBar
  <2> QED
    BY <1>2, <1>3, <2>6 DEF Ring!Fetch, KeptBar, GotBar
<1> QED
  BY <1>4, <1>5

\* The month files are a ring of a cycle of years: a record takes the place of the
\* one Cycle years before and no other, a lost minute and the gap it leaves in the
\* file take none, and what read_data_month answers, but for 00:00 of the first of
\* a month, is what the place of that minute holds.
THEOREM MinuteImplementsRing == Spec => KeepsARing
<1>1. Init => Ring!Init
  <2>1. SUFFICES ASSUME Init PROVE Ring!Init
    OBVIOUS
  <2>2. now \in Nat /\ GotBar = <<>>
    BY <2>1, FirstBoot DEF Init, GotBar
  <2>3. \A k \in 0 .. Span - 1 : Found(Places[k]) = Undefined
    BY <2>1, PlaceIs DEF Init, Found
  <2>4. KeptBar = [k \in 0 .. Span - 1 |-> Undefined]
    BY <2>3 DEF KeptBar
  <2> QED
    BY <2>2, <2>4 DEF Ring!Init, KeptBar, GotBar
<1>2. ASSUME MinuteInv, LoseMinute PROVE Ring!Miss
  <2>1. now' = now + 1 /\ KeptBar' = KeptBar /\ GotBar' = GotBar
    BY <1>2 DEF LoseMinute, KeptBar, Found, GotBar
  <2> QED
    BY <2>1 DEF Ring!Miss, KeptBar, GotBar
<1>3. ASSUME UNCHANGED vars PROVE UNCHANGED Ring!vars
  <2>1. now' = now /\ KeptBar' = KeptBar /\ GotBar' = GotBar
    BY <1>3 DEF vars, KeptBar, Found, GotBar
  <2> QED
    BY <2>1 DEF Ring!vars, KeptBar, GotBar
<1>4. MinuteInv /\ [Next]_vars => [Ring!Next]_(Ring!vars)
  BY <1>2, <1>3, WriteStores, ReadFetches DEF Next, Ring!Next
<1> QED
  BY <1>1, <1>4, MinuteInvariance, PTL DEF Spec, KeepsARing, Ring!Spec
===============================================================================
