----------------------------- MODULE ModbusMaster -----------------------------
(***************************************************************************)
(* The Modbus master: requests of several tasks, one at a time under       *)
(* modbus_sem, and the bytes of their answers, which may come late.  The   *)
(* master checks the length a function code calls for and the CRC; it does *)
(* not check whose answer it is.  A byte is known here by the request whose*)
(* answer it belongs to and its place in it, which gives what the code     *)
(* reads from it; the slaves and the line are external, and the line       *)
(* delivers one answer after the other.                                    *)
(***************************************************************************)
EXTENDS Naturals, Sequences, FiniteSets

CONSTANTS
  Tasks, NoTask,
  Kinds,        \* what may be asked: registers to read, or 0 for a write
  MaxRequests   \* requests of a behaviour

ASSUME KindsAssumption == Kinds \subseteq Nat /\ MaxRequests \in Nat /\ NoTask \notin Tasks

VARIABLES
  holder,   \* who holds modbus_sem
  step,     \* where it is: it waits for the header or for the rest
  want,     \* how many bytes it waits for
  buff,     \* what it has read
  rx,       \* the receive buffer of the port
  line,     \* bytes slaves have yet to deliver
  log       \* each request: kind, answer, how it went, and the answer it took

vars == <<holder, step, want, buff, rx, line, log>>

Results == {"pending", "OK", "TIMEOUT", "DATA_LEN", "CRC_ERROR", "REFUSED"}
Answers == {"data", "exception", "none"}
HeaderSize == 3
CrcSize == 2

Current == Len(log)
Byte(q, i) == [of |-> q, place |-> i]

\* The frame a slave sends: address, function, count, data and CRC; a write is echoed.
FrameLen(q) ==
  CASE q.answer = "none"      -> 0
    [] q.answer = "exception" -> 5
    [] q.answer = "data"      -> IF q.kind = 0 THEN 8
                                               ELSE HeaderSize + 2 * q.kind + CrcSize

Init ==
  /\ holder = NoTask /\ step = "idle" /\ want = 0
  /\ buff = <<>> /\ rx = <<>> /\ line = <<>>
  /\ log = <<>>

(***************************************************************************)
(* modbus_master_req as far as send_query: the semaphore, the receive      *)
(* buffer flushed, the query sent; the slave will answer or not.           *)
(***************************************************************************)
\* Mutant: the receive buffer is not flushed.
RequestUnflushed(t, kind, answer) ==
  /\ holder = NoTask /\ Current < MaxRequests
  /\ holder' = t
  /\ step' = "header" /\ want' = HeaderSize
  /\ buff' = <<>> /\ UNCHANGED rx
  /\ LET q == [kind |-> kind, answer |-> answer, quiet |-> line = <<>>, slow |-> FALSE,
               result |-> "pending", took |-> 0]
     IN /\ log' = Append(log, q)
        /\ line' = line \o [i \in 1..FrameLen(q) |-> Byte(Current + 1, i)]

Request(t, kind, answer) ==
  /\ holder = NoTask /\ Current < MaxRequests
  /\ holder' = t
  /\ step' = "header" /\ want' = HeaderSize
  /\ buff' = <<>> /\ rx' = <<>>
  /\ LET q == [kind |-> kind, answer |-> answer, quiet |-> line = <<>>, slow |-> FALSE,
               result |-> "pending", took |-> 0]
     IN /\ log' = Append(log, q)
        /\ line' = line \o [i \in 1..FrameLen(q) |-> Byte(Current + 1, i)]

\* Bytes arrive, with or without a request that waits for them.
Arrive ==
  /\ line # <<>>
  /\ \E k \in 1..Len(line) :
       /\ line' = SubSeq(line, k + 1, Len(line))
       /\ rx' = rx \o SubSeq(line, 1, k)
  /\ UNCHANGED <<holder, step, want, buff, log>>

\* The request ends; the semaphore is released.
End(result, took) ==
  /\ log' = [log EXCEPT ![Current].result = result, ![Current].took = took]
  /\ holder' = NoTask /\ step' = "idle" /\ want' = 0 /\ buff' = <<>>

(***************************************************************************)
(* How many bytes follow a header: from the function code and the count, if*)
(* these three bytes are the head of a frame, and otherwise whatever the   *)
(* bytes in their places happen to say: a length, or a function code the   *)
(* master does not support or a length its buffer does not hold.           *)
(***************************************************************************)
Unknown == 99
IsHead(h) == \A i \in 1..HeaderSize : h[i].place = i /\ h[i].of = h[1].of
DataLen(h) ==
  IF ~IsHead(h) THEN 0..6 \cup {Unknown}
  ELSE LET q == log[h[1].of] IN
       IF q.answer = "exception" THEN {1}
       ELSE IF q.kind = 0 THEN {6} ELSE {2 * q.kind}

Take == /\ buff' = buff \o SubSeq(rx, 1, want)
        /\ rx' = SubSeq(rx, want + 1, Len(rx))

ReadHeader ==
  /\ step = "header" /\ Len(rx) >= want
  /\ \E n \in DataLen(SubSeq(rx, 1, HeaderSize)) :
       IF n = Unknown
         THEN End("REFUSED", 0) /\ rx' = SubSeq(rx, want + 1, Len(rx))
         ELSE /\ Take
              /\ step' = "rest" /\ want' = n + CrcSize
              /\ UNCHANGED <<holder, log>>
  /\ UNCHANGED line

\* The CRC agrees when the bytes are one frame, the whole of it and in order.
\* Mutant: the CRC is not looked at.
CrcUnchecked(b) == TRUE
CrcAgrees(b) ==
  /\ Len(b) = FrameLen(log[b[1].of])
  /\ \A i \in 1..Len(b) : b[i].of = b[1].of /\ b[i].place = i

ReadRest ==
  /\ step = "rest" /\ Len(rx) >= want
  /\ LET b == buff \o SubSeq(rx, 1, want)
     IN IF CrcAgrees(b) THEN End("OK", b[1].of) ELSE End("CRC_ERROR", 0)
  /\ rx' = SubSeq(rx, want + 1, Len(rx))
  /\ UNCHANGED line

\* Mutant: the semaphore is not given back.
GiveUpHolding ==
  /\ step # "idle" /\ Len(rx) < want
  /\ rx' = <<>>
  /\ log' = [log EXCEPT ![Current].result = IF step = "header" THEN "TIMEOUT" ELSE "DATA_LEN",
                        ![Current].slow = line # <<>>]
  /\ step' = "idle" /\ want' = 0 /\ buff' = <<>>
  /\ UNCHANGED <<holder, line>>

\* The bytes do not come in time; those that came have been read.
GiveUp ==
  /\ step # "idle" /\ Len(rx) < want
  /\ rx' = <<>>
  /\ log' = [log EXCEPT ![Current].result = IF step = "header" THEN "TIMEOUT" ELSE "DATA_LEN",
                        ![Current].slow = line # <<>>]
  /\ holder' = NoTask /\ step' = "idle" /\ want' = 0 /\ buff' = <<>>
  /\ UNCHANGED line

Next ==
  \/ \E t \in Tasks, kind \in Kinds, answer \in Answers : Request(t, kind, answer)
  \/ Arrive \/ ReadHeader \/ ReadRest \/ GiveUp

Spec == Init /\ [][Next]_vars

-----------------------------------------------------------------------------
TypeOK ==
  /\ holder \in Tasks \cup {NoTask}
  /\ step \in {"idle", "header", "rest"}
  /\ want \in Nat
  /\ holder = NoTask <=> step = "idle"
  /\ log \in Seq([kind : Kinds, answer : Answers, quiet : BOOLEAN, slow : BOOLEAN,
                  result : Results, took : 0..MaxRequests])

Requests == 1..Len(log)
Ended(n) == log[n].result # "pending"

(***************************************************************************)
(* No answer is taken by two requests, and what is taken is data: a frame  *)
(* put together from two answers, or a refusal, never passes for one       *)
(* (modbus_receive_packet's length and CRC).  A request may take another's *)
(* answer that comes late: nothing says whose a frame is.                  *)
(***************************************************************************)
TakenOnce ==
  \A n \in Requests : log[n].result = "OK" =>
    /\ log[log[n].took].answer = "data"
    /\ \A m \in Requests \ {n} : log[m].result = "OK" => log[m].took # log[n].took

\* Sent when nothing was under way on the line, and answered in full before it ended.
AnsweredInTime(n) ==
  log[n].result # "pending" /\ log[n].quiet /\ log[n].answer = "data" /\ ~log[n].slow

(***************************************************************************)
(* The master gets back in step: a read sent when the line is quiet, whose *)
(* slave answers in time, ends with its own answer, whatever became of the *)
(* requests before it.                                                     *)
(***************************************************************************)
QuietReadSucceeds ==
  \A n \in Requests : AnsweredInTime(n) /\ log[n].kind > 0 =>
    log[n].result = "OK" /\ log[n].took = n

(***************************************************************************)
(* The same of a write, which the code breaks: RET_OK is success, as       *)
(* modbus_write_single_coil's comment has it, and a write that was obeyed  *)
(* and answered in time should be one.                                     *)
(***************************************************************************)
QuietWriteSucceeds ==
  \A n \in Requests : AnsweredInTime(n) /\ log[n].kind = 0 => log[n].result = "OK"
=============================================================================
