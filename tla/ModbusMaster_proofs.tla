-------------------------- MODULE ModbusMaster_proofs --------------------------
(***************************************************************************)
(* Proofs about ModbusMaster, for any number of tasks and requests and any *)
(* kinds of them: whose answers are taken, and that a request that starts  *)
(* on a quiet line ends with its own.                                      *)
(***************************************************************************)
EXTENDS ModbusMaster, SequenceTheorems, TLAPS

Entry == [kind : Kinds, answer : Answers, quiet : BOOLEAN, slow : BOOLEAN,
          result : Results, took : 0..MaxRequests]
Bytes == [of : Nat, place : Nat]

\* The bytes slaves have sent and no request is done with, in their order.
Stream == (buff \o rx) \o line

ShapeInv ==
  /\ log \in Seq(Entry) /\ Len(log) <= MaxRequests
  /\ buff \in Seq(Bytes) /\ rx \in Seq(Bytes) /\ line \in Seq(Bytes)
  /\ want \in Nat /\ step \in {"idle", "header", "rest"} /\ holder \in Tasks \cup {NoTask}
  /\ (holder = NoTask <=> step = "idle") /\ (step # "idle" => log # <<>>)

\* What is waited for follows from what has been read.
StepInv ==
  /\ step # "rest" => buff = <<>>
  /\ step = "header" => want = HeaderSize
  /\ step = "rest" => /\ Len(buff) = HeaderSize
                      /\ want - CrcSize \in DataLen(buff) \ {Unknown}

\* No byte is there twice, and each is of a request whose slave answered.
StreamInv ==
  /\ \A i, j \in 1..Len(Stream) : Stream[i] = Stream[j] => i = j
  /\ \A i \in 1..Len(Stream) : Stream[i].of \in Requests /\ log[Stream[i].of].answer # "none"

\* An answer that was taken is data, has no first byte any more, and was taken once.
TakenInv ==
  \A n \in Requests : log[n].result = "OK" =>
    /\ log[n].took \in Requests /\ log[log[n].took].answer = "data"
    /\ \A i \in 1..Len(Stream) : Stream[i] # Byte(log[n].took, 1)
    /\ \A m \in Requests \ {n} : log[m].result = "OK" => log[m].took # log[n].took

\* A request that was sent on a quiet line finds nothing there but its answer.
QuietInv ==
  (step # "idle" /\ log[Current].quiet) =>
    /\ Len(Stream) = FrameLen(log[Current])
    /\ \A i \in 1..Len(Stream) : Stream[i] = Byte(Current, i)

IInv == ShapeInv /\ StepInv /\ StreamInv /\ TakenInv /\ QuietInv /\ QuietReadSucceeds

-----------------------------------------------------------------------------
(* Sequences of bytes                                                      *)

LEMMA FrameLenNat == \A q \in Entry : FrameLen(q) \in Nat
  BY KindsAssumption DEF Entry, FrameLen, HeaderSize, CrcSize, Answers

\* What is taken from a sequence, and what is left.
LEMMA Split ==
  ASSUME NEW s \in Seq(Bytes), NEW k \in 0..Len(s)
  PROVE  /\ SubSeq(s, 1, k) \in Seq(Bytes) /\ SubSeq(s, k + 1, Len(s)) \in Seq(Bytes)
         /\ Len(SubSeq(s, 1, k)) = k
         /\ \A i \in 1..k : SubSeq(s, 1, k)[i] = s[i]
         /\ s = SubSeq(s, 1, k) \o SubSeq(s, k + 1, Len(s))
<1>1. Len(s) \in Nat /\ k \in Nat /\ \A i \in 1..Len(s) : s[i] \in Bytes
  BY LenProperties, ElementOfSeq
<1>2. /\ SubSeq(s, 1, k) \in Seq(Bytes) /\ Len(SubSeq(s, 1, k)) = k
      /\ \A i \in 1..k : SubSeq(s, 1, k)[i] = s[i]
  <2>1. \A i \in 1..k : s[i] \in Bytes
    BY <1>1
  <2>2. /\ SubSeq(s, 1, k) \in Seq(Bytes)
        /\ Len(SubSeq(s, 1, k)) = IF 1 <= k THEN k - 1 + 1 ELSE 0
        /\ \A i \in 1..k - 1 + 1 : SubSeq(s, 1, k)[i] = s[1 + i - 1]
    BY <1>1, <2>1, SubSeqProperties
  <2> QED
    BY <1>1, <2>2
<1>3. SubSeq(s, k + 1, Len(s)) \in Seq(Bytes)
  <2>1. \A i \in k + 1..Len(s) : s[i] \in Bytes
    BY <1>1
  <2> QED
    BY <1>1, <2>1, SubSeqProperties
<1>4. SubSeq(s, 1, k) \o SubSeq(s, k + 1, Len(s)) = SubSeq(s, 1, Len(s))
  <2>1. 1 \in 1..Len(s) + 1 /\ k \in 1 - 1..Len(s) /\ Len(s) \in k..Len(s)
    BY <1>1
  <2> QED
    BY <2>1, ConcatAdjacentSubSeq
<1> QED
  BY <1>2, <1>3, <1>4, SubSeqFull

LEMMA Three ==
  ASSUME NEW a \in Seq(Bytes), NEW b \in Seq(Bytes), NEW c \in Seq(Bytes)
  PROVE  /\ (a \o b) \o c \in Seq(Bytes) /\ (a \o b) \o c = a \o (b \o c)
         /\ <<>> \o a = a /\ a \o <<>> = a
BY ConcatProperties, ConcatAssociative, ConcatEmptySeq

LEMMA Joined ==
  ASSUME NEW p \in Seq(Bytes), NEW t \in Seq(Bytes)
  PROVE  /\ p \o t \in Seq(Bytes) /\ Len(p) \in Nat /\ Len(t) \in Nat
         /\ Len(p \o t) = Len(p) + Len(t)
         /\ \A i \in 1..Len(p) : (p \o t)[i] = p[i] /\ i \in 1..Len(p \o t)
         /\ \A i \in 1..Len(t) : (p \o t)[i + Len(p)] = t[i] /\ i + Len(p) \in 1..Len(p \o t)
BY ConcatProperties, LenProperties

-----------------------------------------------------------------------------
LEMMA InitInv == Init => IInv
<1> SUFFICES ASSUME Init PROVE IInv
  OBVIOUS
<1>1. /\ holder = NoTask /\ step = "idle" /\ want = 0
      /\ buff = <<>> /\ rx = <<>> /\ line = <<>> /\ log = <<>>
  BY DEF Init
<1>2. ShapeInv
  BY <1>1, KindsAssumption DEF ShapeInv
<1>3. Stream = <<>> /\ Len(Stream) = 0 /\ Requests = {}
  <2>1. <<>> \in Seq(Bytes)
    OBVIOUS
  <2>2. (<<>> \o <<>>) \o <<>> = <<>>
    BY <2>1, Three
  <2> QED
    BY <1>1, <2>2 DEF Stream, Requests
<1>4. StepInv /\ StreamInv /\ TakenInv /\ QuietInv /\ QuietReadSucceeds
  BY <1>1, <1>3 DEF StepInv, StreamInv, TakenInv, QuietInv, QuietReadSucceeds
<1> QED
  BY <1>2, <1>4 DEF IInv

\* What every state has of the log and of the stream.
LEMMA LogFacts ==
  ASSUME IInv
  PROVE  /\ Len(log) \in Nat /\ Current = Len(log) /\ Requests = 1..Len(log)
         /\ \A n \in Requests : log[n] \in Entry
         /\ step # "idle" => Current \in Requests
         /\ Stream \in Seq(Bytes) /\ Len(Stream) \in Nat
         /\ Len(buff) \in Nat /\ Len(rx) \in Nat /\ Len(line) \in Nat
<1>1. /\ log \in Seq(Entry) /\ buff \in Seq(Bytes) /\ rx \in Seq(Bytes) /\ line \in Seq(Bytes)
      /\ step # "idle" => log # <<>>
  BY DEF IInv, ShapeInv
<1>2. Len(log) \in Nat /\ \A n \in 1..Len(log) : log[n] \in Entry
  BY <1>1, LenProperties, ElementOfSeq
<1>3. log # <<>> => Len(log) \in 1..Len(log)
  BY <1>1, <1>2, EmptySeq
<1>4. Stream \in Seq(Bytes)
  BY <1>1, Three DEF Stream
<1> QED
  BY <1>1, <1>2, <1>3, <1>4, LenProperties DEF Current, Requests

\* The log's entry of the request that ends, and the others.
LEMMA LogEnd ==
  ASSUME IInv, step # "idle", NEW result \in Results, NEW took \in 0..MaxRequests,
         NEW slow \in BOOLEAN,
         log' = [log EXCEPT ![Current] = [@ EXCEPT !.result = result, !.took = took, !.slow = slow]]
  PROVE  /\ log' \in Seq(Entry) /\ Len(log') = Len(log)
         /\ \A n \in Requests : n # Current => log'[n] = log[n]
         /\ \A n \in Requests : /\ log'[n].kind = log[n].kind /\ log'[n].answer = log[n].answer
                                /\ log'[n].quiet = log[n].quiet
         /\ log'[Current].result = result /\ log'[Current].took = took /\ log'[Current].slow = slow
<1> DEFINE e == [log[Current] EXCEPT !.result = result, !.took = took, !.slow = slow]
<1>1. Current \in 1..Len(log) /\ log[Current] \in Entry /\ log \in Seq(Entry) /\ Requests = 1..Len(log)
  BY LogFacts DEF IInv, ShapeInv
<1>2. /\ e \in Entry /\ e.result = result /\ e.took = took /\ e.slow = slow
      /\ e.kind = log[Current].kind /\ e.answer = log[Current].answer /\ e.quiet = log[Current].quiet
  BY <1>1 DEF Entry
<1>3. log' = [log EXCEPT ![Current] = e]
  OBVIOUS
<1> HIDE DEF e
<1>4. /\ log' \in Seq(Entry) /\ Len(log') = Len(log)
      /\ \A j \in 1..Len(log) : log'[j] = IF j = Current THEN e ELSE log[j]
  BY <1>1, <1>2, <1>3, ExceptSeq
<1> QED
  BY <1>1, <1>2, <1>4

\* A request ends: what it has read, p, is gone, and the rest of the stream, t,
\* is of the answers of others.
LEMMA EndInv ==
  ASSUME IInv, step # "idle", NEW result \in Results, NEW took \in 0..MaxRequests,
         NEW slow \in BOOLEAN,
         log' = [log EXCEPT ![Current] = [@ EXCEPT !.result = result, !.took = took, !.slow = slow]],
         NEW p \in Seq(Bytes), NEW t \in Seq(Bytes), Stream = p \o t, Stream' = t,
         result = "OK" => /\ p # <<>> /\ p[1] = Byte(took, 1)
                          /\ took \in Requests /\ log[took].answer = "data",
         (log[Current].quiet /\ log[Current].answer = "data" /\ ~slow /\ log[Current].kind > 0)
            => result = "OK" /\ took = Current
  PROVE  StreamInv' /\ TakenInv' /\ QuietReadSucceeds'
<1>1. /\ Len(Stream) = Len(p) + Len(t) /\ Len(p) \in Nat /\ Len(t) \in Nat
      /\ \A i \in 1..Len(p) : Stream[i] = p[i] /\ i \in 1..Len(Stream)
      /\ \A i \in 1..Len(t) : Stream[i + Len(p)] = t[i] /\ i + Len(p) \in 1..Len(Stream)
  BY Joined
<1>2. /\ Len(log') = Len(log) /\ Requests' = Requests /\ Current' = Current /\ Current \in Requests
      /\ \A n \in Requests : n # Current => log'[n] = log[n]
      /\ \A n \in Requests : /\ log'[n].kind = log[n].kind /\ log'[n].answer = log[n].answer
                             /\ log'[n].quiet = log[n].quiet
      /\ log'[Current].result = result /\ log'[Current].took = took /\ log'[Current].slow = slow
  BY LogEnd, LogFacts DEF Requests, Current
<1>3. StreamInv'
  <2>1. ASSUME NEW i \in 1..Len(t), NEW j \in 1..Len(t), t[i] = t[j] PROVE i = j
    <3>1. i + Len(p) = j + Len(p)
      BY <1>1, <2>1 DEF IInv, StreamInv
    <3> QED
      BY <1>1, <3>1
  <2>2. \A i \in 1..Len(t) : t[i].of \in Requests /\ log[t[i].of].answer # "none"
    BY <1>1 DEF IInv, StreamInv
  <2>3. \A i \in 1..Len(t) : t[i].of \in Requests' /\ log'[t[i].of].answer # "none"
    BY <1>2, <2>2
  <2> QED
    BY <2>1, <2>3 DEF StreamInv
<1>4. TakenInv'
  <2>1. result = "OK" => \A i \in 1..Len(t) : t[i] # Byte(took, 1)
    <3> SUFFICES ASSUME result = "OK", NEW i \in 1..Len(t), t[i] = Byte(took, 1) PROVE FALSE
      OBVIOUS
    <3>1. 1 \in 1..Len(p)
      BY <1>1, EmptySeq
    <3>2. Stream[1] = Stream[i + Len(p)] /\ 1 \in 1..Len(Stream) /\ i + Len(p) \in 1..Len(Stream)
      BY <1>1, <3>1
    <3>3. 1 = i + Len(p)
      BY <3>2 DEF IInv, StreamInv
    <3> QED
      BY <1>1, <3>1, <3>3
  <2>2. \A m \in Requests : (m # Current /\ log[m].result = "OK" /\ result = "OK") => log[m].took # took
    <3> SUFFICES ASSUME NEW m \in Requests, log[m].result = "OK", result = "OK", log[m].took = took
                 PROVE  FALSE
      OBVIOUS
    <3>1. 1 \in 1..Len(p)
      BY <1>1, EmptySeq
    <3>2. Stream[1] = Byte(log[m].took, 1) /\ 1 \in 1..Len(Stream)
      BY <1>1, <3>1
    <3> QED
      BY <3>2 DEF IInv, TakenInv
  <2> SUFFICES ASSUME NEW n \in Requests, log'[n].result = "OK"
               PROVE  /\ log'[n].took \in Requests /\ log'[log'[n].took].answer = "data"
                      /\ \A i \in 1..Len(t) : t[i] # Byte(log'[n].took, 1)
                      /\ \A m \in Requests \ {n} : log'[m].result = "OK" => log'[m].took # log'[n].took
    BY <1>2 DEF TakenInv
  <2>3. CASE n = Current
    BY <1>2, <2>1, <2>2, <2>3
  <2>4. CASE n # Current
    <3>1. log[n].result = "OK" /\ log'[n].took = log[n].took
      BY <1>2, <2>4
    <3>2. /\ log[n].took \in Requests /\ log[log[n].took].answer = "data"
          /\ \A i \in 1..Len(Stream) : Stream[i] # Byte(log[n].took, 1)
          /\ \A m \in Requests \ {n} : log[m].result = "OK" => log[m].took # log[n].took
      BY <3>1 DEF IInv, TakenInv
    <3>3. \A m \in Requests \ {n} : log'[m].result = "OK" => log'[m].took # log'[n].took
      BY <1>2, <2>2, <2>4, <3>1, <3>2
    <3> QED
      BY <1>1, <1>2, <3>1, <3>2, <3>3
  <2> QED
    BY <2>3, <2>4
<1>5. QuietReadSucceeds'
  BY <1>2 DEF IInv, QuietReadSucceeds, AnsweredInTime
<1> QED
  BY <1>3, <1>4, <1>5

\* Bytes move along the stream, or nothing does.
LEMMA SameStream ==
  ASSUME IInv, Stream' = Stream, log' = log, step' # "idle" => step # "idle"
  PROVE  StreamInv' /\ TakenInv' /\ QuietInv' /\ QuietReadSucceeds'
<1>1. Requests' = Requests /\ Current' = Current
  BY DEF Requests, Current
<1>2. StreamInv' /\ TakenInv'
  BY <1>1 DEF IInv, StreamInv, TakenInv
<1>3. QuietInv' /\ QuietReadSucceeds'
  BY <1>1 DEF IInv, QuietInv, QuietReadSucceeds, AnsweredInTime
<1> QED
  BY <1>2, <1>3

LEMMA ArriveInv == ASSUME IInv, Arrive PROVE IInv'
<1>1. PICK k \in 1..Len(line) : /\ line' = SubSeq(line, k + 1, Len(line))
                                /\ rx' = rx \o SubSeq(line, 1, k)
  BY DEF Arrive
<1>2. /\ buff \in Seq(Bytes) /\ rx \in Seq(Bytes) /\ line \in Seq(Bytes) /\ k \in 0..Len(line)
      /\ UNCHANGED <<holder, step, want, buff, log>>
  BY <1>1, LogFacts DEF IInv, ShapeInv, Arrive
<1> DEFINE a == SubSeq(line, 1, k)
           b == SubSeq(line, k + 1, Len(line))
<1>3. a \in Seq(Bytes) /\ b \in Seq(Bytes) /\ line = a \o b
  BY <1>2, Split
<1>4. rx' = rx \o a /\ line' = b
  BY <1>1
<1> HIDE DEF a, b
<1>5. rx' \in Seq(Bytes) /\ line' \in Seq(Bytes)
  BY <1>2, <1>3, <1>4, Joined
<1>6. Stream' = Stream
  <2>1. (buff \o (rx \o a)) \o b = buff \o ((rx \o a) \o b)
    <3>1. rx \o a \in Seq(Bytes)
      BY <1>2, <1>3, Joined
    <3>2. buff \in Seq(Bytes) /\ b \in Seq(Bytes)
      BY <1>2, <1>3
    <3> QED
      BY <3>1, <3>2, Three, Zenon
  <2>2. (rx \o a) \o b = rx \o (a \o b)
    <3>1. rx \in Seq(Bytes) /\ a \in Seq(Bytes) /\ b \in Seq(Bytes)
      BY <1>2, <1>3
    <3> QED
      BY <3>1, Three, Zenon
  <2>3. buff \o (rx \o line) = (buff \o rx) \o line
    BY <1>2, Three
  <2> QED
    BY <1>2, <1>3, <1>4, <2>1, <2>2, <2>3 DEF Stream
<1>7. ShapeInv' /\ StepInv'
  BY <1>2, <1>5 DEF IInv, ShapeInv, StepInv, DataLen
<1> QED
  BY <1>2, <1>6, <1>7, SameStream DEF IInv

\* A frame is added to the line, of a request no byte is of yet.
LEMMA RequestInv ==
  ASSUME IInv, NEW t \in Tasks, NEW kind \in Kinds, NEW answer \in Answers, Request(t, kind, answer)
  PROVE  IInv'
<1> DEFINE q == [kind |-> kind, answer |-> answer, quiet |-> line = <<>>, slow |-> FALSE,
                 result |-> "pending", took |-> 0]
           c == Len(log) + 1
           frame == [i \in 1..FrameLen(q) |-> Byte(c, i)]
<1>1. /\ step = "idle" /\ buff = <<>> /\ Len(log) < MaxRequests
      /\ holder' = t /\ step' = "header" /\ want' = HeaderSize /\ buff' = <<>> /\ rx' = <<>>
      /\ log' = Append(log, q) /\ line' = line \o frame
  BY DEF Request, IInv, ShapeInv, StepInv, Current
<1>2. /\ q \in Entry /\ q.quiet = (line = <<>>) /\ q.kind = kind /\ q.answer = answer
      /\ q.result = "pending"
  BY KindsAssumption DEF Entry, Results
<1>3. FrameLen(q) \in Nat /\ (FrameLen(q) # 0 => q.answer # "none")
  <2>1. FrameLen(q) \in Nat
    BY <1>2, FrameLenNat
  <2>2. q.answer = "none" => FrameLen(q) = 0
    BY DEF FrameLen
  <2> QED
    BY <2>1, <2>2
<1>4. /\ log \in Seq(Entry) /\ rx \in Seq(Bytes) /\ line \in Seq(Bytes) /\ Len(log) \in Nat
      /\ c \in Nat
  BY LogFacts DEF IInv, ShapeInv
<1> HIDE DEF q
<1>5. /\ frame \in Seq(Bytes) /\ Len(frame) = FrameLen(q)
      /\ \A i \in 1..FrameLen(q) : frame[i] = Byte(c, i)
  <2>1. \A i \in 1..FrameLen(q) : Byte(c, i) \in Bytes
    BY <1>3, <1>4 DEF Byte, Bytes
  <2> QED
    BY <1>3, <2>1
<1> HIDE DEF frame
<1>6. /\ log' \in Seq(Entry) /\ Len(log') = c /\ log'[c] = q
      /\ \A n \in Requests : log'[n] = log[n] /\ n \in 1..Len(log) /\ n # c
      /\ Requests' = Requests \cup {c} /\ Current' = c /\ c \notin Requests
  BY <1>1, <1>2, <1>4 DEF Requests, Current
<1> HIDE DEF c
<1>7. Stream' = line \o frame /\ Stream = rx \o line
  <2>1. <<>> \in Seq(Bytes)
    OBVIOUS
  <2>2. (<<>> \o <<>>) \o (line \o frame) = line \o frame /\ (<<>> \o rx) \o line = rx \o line
    BY <1>4, <1>5, <2>1, Three, Joined
  <2> QED
    BY <1>1, <2>2 DEF Stream
<1> DEFINE s == line \o frame
<1>8. /\ Len(line) \in Nat /\ Len(s) = Len(line) + FrameLen(q)
      /\ \A i \in 1..Len(line) : s[i] = line[i]
      /\ \A i \in 1..Len(s) : i > Len(line) => s[i] = Byte(c, i - Len(line))
      /\ \A i \in 1..Len(line) : line[i] = Stream[i + Len(rx)] /\ i + Len(rx) \in 1..Len(Stream)
      /\ Len(rx) \in Nat
  BY <1>3, <1>4, <1>5, <1>7, Joined, ConcatProperties
<1> HIDE DEF s
<1>9. /\ \A i \in 1..Len(line) : s[i].of \in Requests /\ log[s[i].of].answer # "none"
      /\ \A i, j \in 1..Len(line) : s[i] = s[j] => i = j
  <2>1. \A i \in 1..Len(line) : s[i].of \in Requests /\ log[s[i].of].answer # "none"
    BY <1>8 DEF IInv, StreamInv
  <2>2. ASSUME NEW i \in 1..Len(line), NEW j \in 1..Len(line), s[i] = s[j] PROVE i = j
    <3>1. /\ Stream[i + Len(rx)] = Stream[j + Len(rx)]
          /\ i + Len(rx) \in 1..Len(Stream) /\ j + Len(rx) \in 1..Len(Stream)
      BY <1>8, <2>2
    <3>2. i + Len(rx) = j + Len(rx)
      BY <3>1 DEF IInv, StreamInv
    <3> QED
      BY <1>8, <3>2
  <2> QED
    BY <2>1, <2>2
<1>10. \A i \in 1..Len(s) : i > Len(line) =>
          /\ s[i].of = c /\ s[i].place = i - Len(line) /\ q.answer # "none" /\ i - Len(line) \in 1..FrameLen(q)
  BY <1>3, <1>8 DEF Byte
<1>11. \A i \in 1..Len(s) : i > Len(line) \/ i \in 1..Len(line)
  BY <1>8
<1>12. Stream' = s
  BY <1>7 DEF s
<1>13. StreamInv'
  <2>1. \A i \in 1..Len(s) : s[i].of \in Requests' /\ log'[s[i].of].answer # "none"
    BY <1>6, <1>9, <1>10, <1>11
  <2>2. ASSUME NEW i \in 1..Len(s), NEW j \in 1..Len(s), s[i] = s[j] PROVE i = j
    <3>1. CASE i > Len(line) /\ j > Len(line)
      <4>1. i - Len(line) = j - Len(line)
        BY <1>10, <2>2, <3>1
      <4> QED
        BY <1>8, <4>1
    <3>2. CASE i > Len(line) /\ j \in 1..Len(line)
      BY <1>6, <1>9, <1>10, <2>2, <3>2
    <3>3. CASE i \in 1..Len(line) /\ j > Len(line)
      BY <1>6, <1>9, <1>10, <2>2, <3>3
    <3>4. CASE i \in 1..Len(line) /\ j \in 1..Len(line)
      BY <1>9, <2>2, <3>4
    <3> QED
      BY <1>11, <3>1, <3>2, <3>3, <3>4
  <2> QED
    BY <1>12, <2>1, <2>2 DEF StreamInv
<1>14. TakenInv'
  <2> SUFFICES ASSUME NEW n \in Requests', log'[n].result = "OK"
               PROVE  /\ log'[n].took \in Requests' /\ log'[log'[n].took].answer = "data"
                      /\ \A i \in 1..Len(s) : s[i] # Byte(log'[n].took, 1)
                      /\ \A m \in Requests' \ {n} : log'[m].result = "OK" => log'[m].took # log'[n].took
    BY <1>12 DEF TakenInv
  <2>1. n \in Requests /\ log'[n] = log[n]
    BY <1>2, <1>6
  <2>2. /\ log[n].took \in Requests /\ log[log[n].took].answer = "data"
        /\ \A i \in 1..Len(Stream) : Stream[i] # Byte(log[n].took, 1)
        /\ \A m \in Requests \ {n} : log[m].result = "OK" => log[m].took # log[n].took
    BY <2>1 DEF IInv, TakenInv
  <2>3. ASSUME NEW i \in 1..Len(s) PROVE s[i] # Byte(log[n].took, 1)
    <3>1. CASE i \in 1..Len(line)
      BY <1>8, <2>2, <3>1
    <3>2. CASE i > Len(line)
      BY <1>6, <1>10, <2>2, <3>2 DEF Byte
    <3> QED
      BY <1>11, <3>1, <3>2
  <2>4. \A m \in Requests' : log'[m].result = "OK" => m \in Requests /\ log'[m] = log[m]
    BY <1>2, <1>6
  <2> QED
    BY <1>6, <2>1, <2>2, <2>3, <2>4
<1>15. QuietInv'
  <2> SUFFICES ASSUME line = <<>>
               PROVE  Len(s) = FrameLen(q) /\ \A i \in 1..Len(s) : s[i] = Byte(c, i)
    BY <1>2, <1>6, <1>12 DEF QuietInv
  <2>1. Len(line) = 0
    OBVIOUS
  <2> QED
    BY <1>3, <1>8, <2>1
<1>16. QuietReadSucceeds'
  BY <1>2, <1>6 DEF IInv, QuietReadSucceeds, AnsweredInTime
<1>17. ShapeInv' /\ StepInv'
  <2>1. line' \in Seq(Bytes)
    BY <1>1, <1>4, <1>5, Joined
  <2>2. log' # <<>> /\ Len(log') <= MaxRequests
    BY <1>1, <1>4, <1>6, KindsAssumption, EmptySeq DEF c
  <2>3. HeaderSize \in Nat /\ t # NoTask
    BY KindsAssumption DEF HeaderSize
  <2>4. buff' \in Seq(Bytes) /\ rx' \in Seq(Bytes)
    BY <1>1
  <2> QED
    BY <1>1, <1>6, <2>1, <2>2, <2>3, <2>4 DEF ShapeInv, StepInv
<1> QED
  BY <1>13, <1>14, <1>15, <1>16, <1>17 DEF IInv

\* The answer that a request sent on a quiet line waits for: it is all that is
\* in the stream, and its header says how long it is.
LEMMA QuietAnswer ==
  ASSUME IInv, step # "idle", log[Current].quiet, log[Current].answer = "data", log[Current].kind > 0
  PROVE  LET n == 2 * log[Current].kind IN
         /\ n \in Nat /\ n # Unknown /\ Current \in Requests
         /\ Len(Stream) = HeaderSize + n + CrcSize /\ FrameLen(log[Current]) = Len(Stream)
         /\ \A i \in 1..Len(Stream) : Stream[i].of = Current /\ Stream[i].place = i
         /\ \A h : (\A i \in 1..HeaderSize : h[i] = Stream[i]) => DataLen(h) = {n}
<1>1. Current \in Requests /\ log[Current] \in Entry
  BY LogFacts
<1>2. log[Current].kind \in Nat
  BY <1>1, KindsAssumption DEF Entry
<1>3. FrameLen(log[Current]) = HeaderSize + 2 * log[Current].kind + CrcSize
  BY <1>2 DEF FrameLen
<1>4. Len(Stream) = FrameLen(log[Current]) /\ \A i \in 1..Len(Stream) : Stream[i] = Byte(Current, i)
  BY DEF IInv, QuietInv
<1>5. \A i \in 1..Len(Stream) : Stream[i].of = Current /\ Stream[i].place = i
  BY <1>4 DEF Byte
<1>6. 2 * log[Current].kind \in Nat /\ 2 * log[Current].kind # Unknown
  BY <1>2 DEF Unknown
<1>7. \A i \in 1..HeaderSize : i \in 1..Len(Stream)
  BY <1>2, <1>3, <1>4 DEF HeaderSize, CrcSize
<1>8. ASSUME NEW h, \A i \in 1..HeaderSize : h[i] = Stream[i]
      PROVE  DataLen(h) = {2 * log[Current].kind}
  <2>1. \A i \in 1..HeaderSize : h[i].of = Current /\ h[i].place = i
    BY <1>5, <1>7, <1>8
  <2>2. 1 \in 1..HeaderSize
    BY DEF HeaderSize
  <2>3. IsHead(h) /\ h[1].of = Current
    BY <2>1, <2>2 DEF IsHead
  <2> QED
    BY <1>2, <2>3 DEF DataLen
<1> QED
  BY <1>1, <1>3, <1>4, <1>5, <1>6, <1>8

\* What a request takes of the receive buffer, a, is next in the stream after
\* what it has read.
LEMMA TakeOf ==
  ASSUME IInv, Len(rx) >= want
  PROVE  LET a == SubSeq(rx, 1, want)
             b == SubSeq(rx, want + 1, Len(rx))
         IN /\ a \in Seq(Bytes) /\ b \in Seq(Bytes) /\ Len(a) = want /\ rx = a \o b
            /\ buff \o a \in Seq(Bytes) /\ b \o line \in Seq(Bytes)
            /\ ((buff \o a) \o b) \o line = Stream
            /\ (buff \o a) \o (b \o line) = Stream
            /\ (<<>> \o b) \o line = b \o line
            /\ Len(buff \o a) = Len(buff) + want
            /\ \A i \in 1..Len(buff \o a) : Stream[i] = (buff \o a)[i] /\ i \in 1..Len(Stream)
<1> DEFINE a == SubSeq(rx, 1, want)
           b == SubSeq(rx, want + 1, Len(rx))
<1>1. /\ buff \in Seq(Bytes) /\ rx \in Seq(Bytes) /\ line \in Seq(Bytes) /\ want \in 0..Len(rx)
  BY LogFacts DEF IInv, ShapeInv
<1>2. a \in Seq(Bytes) /\ b \in Seq(Bytes) /\ Len(a) = want /\ rx = a \o b
  BY <1>1, Split
<1> HIDE DEF a, b
<1>3. buff \o a \in Seq(Bytes) /\ b \o line \in Seq(Bytes) /\ Len(buff \o a) = Len(buff) + want
  BY <1>1, <1>2, Joined
<1>4. (buff \o a) \o b = buff \o rx
  BY <1>1, <1>2, Three
<1>5. ((buff \o a) \o b) \o line = Stream
  BY <1>4 DEF Stream
<1>6. (buff \o a) \o (b \o line) = Stream
  <2> DEFINE s == buff \o a
  <2>1. s \in Seq(Bytes) /\ b \in Seq(Bytes) /\ line \in Seq(Bytes)
    BY <1>1, <1>2, <1>3
  <2> HIDE DEF s
  <2>2. (s \o b) \o line = s \o (b \o line)
    BY <2>1, ConcatAssociative
  <2> USE DEF s
  <2> QED
    BY <1>5, <2>2
<1>7. (<<>> \o b) \o line = b \o line
  BY <1>2, Three
<1>8. \A i \in 1..Len(buff \o a) : Stream[i] = (buff \o a)[i] /\ i \in 1..Len(Stream)
  BY <1>3, <1>6, Joined
<1> QED
  BY <1>2, <1>3, <1>5, <1>6, <1>7, <1>8 DEF a, b

\* What the end of a request leaves of the conjuncts that do not depend on how
\* it ended.
LEMMA EndShape ==
  ASSUME IInv, log' \in Seq(Entry), Len(log') = Len(log), holder' = NoTask, step' = "idle",
         want' = 0, buff' = <<>>, rx' \in Seq(Bytes), line' = line
  PROVE  ShapeInv' /\ StepInv' /\ QuietInv'
BY DEF IInv, ShapeInv, StepInv, QuietInv

LEMMA GiveUpInv == ASSUME IInv, GiveUp PROVE IInv'
<1> DEFINE result == IF step = "header" THEN "TIMEOUT" ELSE "DATA_LEN"
           slow == line # <<>>
           took == log[Current].took
<1>1. /\ step # "idle" /\ Len(rx) < want
      /\ log' = [log EXCEPT ![Current].result = result, ![Current].slow = slow]
      /\ holder' = NoTask /\ step' = "idle" /\ want' = 0 /\ buff' = <<>> /\ rx' = <<>> /\ line' = line
  BY DEF GiveUp
<1>2. /\ log[Current] \in Entry /\ Current \in Requests /\ result \in Results /\ result # "OK"
      /\ slow \in BOOLEAN /\ took \in 0..MaxRequests
      /\ buff \in Seq(Bytes) /\ rx \in Seq(Bytes) /\ line \in Seq(Bytes) /\ want \in Nat
  BY <1>1, LogFacts DEF Entry, Results, IInv, ShapeInv
<1>3. log' = [log EXCEPT ![Current] = [@ EXCEPT !.result = result, !.took = took, !.slow = slow]]
  <2>1. [log[Current] EXCEPT !.result = result, !.slow = slow]
          = [log[Current] EXCEPT !.result = result, !.took = took, !.slow = slow]
    BY <1>2 DEF Entry
  <2> QED
    BY <1>1, <2>1
<1> DEFINE p == buff \o rx
<1>4. p \in Seq(Bytes) /\ Stream = p \o line /\ Stream' = line
  <2>1. <<>> \in Seq(Bytes)
    OBVIOUS
  <2>2. (<<>> \o <<>>) \o line = line
    BY <1>2, <2>1, Three
  <2> QED
    BY <1>1, <1>2, <2>2, Joined DEF Stream
<1>5. ~(log[Current].quiet /\ log[Current].answer = "data" /\ ~slow /\ log[Current].kind > 0)
  <2> SUFFICES ASSUME log[Current].quiet, log[Current].answer = "data", line = <<>>,
                      log[Current].kind > 0
               PROVE  FALSE
    OBVIOUS
  <2> DEFINE n == 2 * log[Current].kind
  <2>1. /\ n \in Nat /\ Len(Stream) = HeaderSize + n + CrcSize
        /\ \A h : (\A i \in 1..HeaderSize : h[i] = Stream[i]) => DataLen(h) = {n}
    BY <1>1, QuietAnswer
  <2> HIDE DEF n
  <2>2. /\ Len(Stream) = Len(buff) + Len(rx) /\ Len(buff) \in Nat /\ Len(rx) \in Nat
        /\ \A i \in 1..Len(buff) : Stream[i] = buff[i]
    BY <1>2, <1>4, Three, Joined
  <2>3. CASE step = "header"
    <3>1. Len(buff) = 0 /\ want = HeaderSize
      BY <2>3 DEF IInv, StepInv
    <3> QED
      BY <1>1, <2>1, <2>2, <3>1 DEF HeaderSize, CrcSize
  <2>4. CASE step = "rest"
    <3>1. Len(buff) = HeaderSize /\ want - CrcSize \in DataLen(buff)
      BY <2>4 DEF IInv, StepInv
    <3>2. want - CrcSize = n
      BY <2>1, <2>2, <3>1
    <3> QED
      BY <1>1, <1>2, <2>1, <2>2, <3>1, <3>2 DEF HeaderSize, CrcSize
  <2> QED
    BY <1>1, <2>3, <2>4 DEF IInv, ShapeInv
<1> HIDE DEF p, result, slow, took
<1>6. StreamInv' /\ TakenInv' /\ QuietReadSucceeds'
  BY <1>1, <1>2, <1>3, <1>4, <1>5, EndInv
<1>7. ShapeInv' /\ StepInv' /\ QuietInv'
  <2>1. log' \in Seq(Entry) /\ Len(log') = Len(log)
    BY <1>1, <1>2, <1>3, LogEnd
  <2>2. rx' \in Seq(Bytes)
    BY <1>1
  <2> QED
    BY <1>1, <2>1, <2>2, EndShape
<1> QED
  BY <1>6, <1>7 DEF IInv

LEMMA ReadHeaderInv == ASSUME IInv, ReadHeader PROVE IInv'
<1> DEFINE a == SubSeq(rx, 1, want)
           b == SubSeq(rx, want + 1, Len(rx))
<1>1. /\ step = "header" /\ Len(rx) >= want /\ want = HeaderSize /\ buff = <<>> /\ line' = line
      /\ \E n \in DataLen(SubSeq(rx, 1, HeaderSize)) :
           IF n = Unknown
             THEN End("REFUSED", 0) /\ rx' = SubSeq(rx, want + 1, Len(rx))
             ELSE /\ Take
                  /\ step' = "rest" /\ want' = n + CrcSize
                  /\ UNCHANGED <<holder, log>>
  BY DEF ReadHeader, IInv, StepInv
<1>2. PICK n \in DataLen(a) :
        IF n = Unknown
          THEN End("REFUSED", 0) /\ rx' = b
          ELSE /\ Take
               /\ step' = "rest" /\ want' = n + CrcSize
               /\ UNCHANGED <<holder, log>>
  BY <1>1
<1>3. /\ a \in Seq(Bytes) /\ b \in Seq(Bytes) /\ Len(a) = want
      /\ buff \o a = a /\ b \o line \in Seq(Bytes)
      /\ (a \o b) \o line = Stream /\ a \o (b \o line) = Stream /\ (<<>> \o b) \o line = b \o line
      /\ \A i \in 1..HeaderSize : Stream[i] = a[i]
  <2>1. /\ a \in Seq(Bytes) /\ b \in Seq(Bytes) /\ Len(a) = want
        /\ b \o line \in Seq(Bytes)
        /\ ((buff \o a) \o b) \o line = Stream /\ (buff \o a) \o (b \o line) = Stream
        /\ (<<>> \o b) \o line = b \o line
        /\ \A i \in 1..Len(buff \o a) : Stream[i] = (buff \o a)[i]
    BY <1>1, TakeOf
  <2> HIDE DEF a, b
  <2>2. buff \o a = a
    BY <1>1, <2>1, Three
  <2> QED
    BY <1>1, <2>1, <2>2
<1>4. Current \in Requests /\ log[Current] \in Entry /\ 0 \in 0..MaxRequests
  BY <1>1, LogFacts, KindsAssumption
<1>5. CASE n = Unknown
  <2>1. /\ log' = [log EXCEPT ![Current].result = "REFUSED", ![Current].took = 0]
        /\ holder' = NoTask /\ step' = "idle" /\ want' = 0 /\ buff' = <<>> /\ rx' = b
    BY <1>2, <1>5 DEF End
  <2> DEFINE slow == log[Current].slow
  <2>2. slow \in BOOLEAN /\ "REFUSED" \in Results
    BY <1>4 DEF Entry, Results
  <2>3. log' = [log EXCEPT ![Current] = [@ EXCEPT !.result = "REFUSED", !.took = 0, !.slow = slow]]
    <3>1. [log[Current] EXCEPT !.result = "REFUSED", !.took = 0]
            = [log[Current] EXCEPT !.result = "REFUSED", !.took = 0, !.slow = slow]
      BY <1>4 DEF Entry
    <3> QED
      BY <2>1, <3>1
  <2>4. Stream = a \o (b \o line) /\ Stream' = b \o line
    BY <1>1, <1>3, <2>1 DEF Stream
  <2>5. ~(log[Current].quiet /\ log[Current].answer = "data" /\ log[Current].kind > 0)
    <3> SUFFICES ASSUME log[Current].quiet, log[Current].answer = "data", log[Current].kind > 0
                 PROVE  FALSE
      OBVIOUS
    <3>1. DataLen(a) = {2 * log[Current].kind} /\ 2 * log[Current].kind # Unknown
      BY <1>1, <1>3, QuietAnswer
    <3> QED
      BY <1>2, <1>5, <3>1
  <2> HIDE DEF slow, a, b
  <2>6. StreamInv' /\ TakenInv' /\ QuietReadSucceeds'
    BY <1>1, <1>3, <1>4, <2>2, <2>3, <2>4, <2>5, EndInv
  <2>7. log' \in Seq(Entry) /\ Len(log') = Len(log)
    BY <1>1, <1>4, <2>2, <2>3, LogEnd
  <2> QED
    BY <1>1, <1>3, <2>1, <2>6, <2>7, EndShape DEF IInv
<1>6. CASE n # Unknown
  <2>1. /\ buff' = a /\ rx' = b /\ step' = "rest" /\ want' = n + CrcSize
        /\ UNCHANGED <<holder, log, line>>
    BY <1>1, <1>2, <1>3, <1>6 DEF Take
  <2>2. Stream' = Stream
    BY <1>3, <2>1 DEF Stream
  <2>3. StreamInv' /\ TakenInv' /\ QuietInv' /\ QuietReadSucceeds'
    BY <1>1, <2>1, <2>2, SameStream
  <2>4. n \in Nat
    <3> HIDE DEF a, b
    <3>1. CASE IsHead(a)
      <4>1. 1 \in 1..HeaderSize /\ Len(Stream) \in Nat /\ 1 \in 1..Len(Stream)
        <5>1. Len(Stream) = Len(a) + Len(b \o line) /\ Len(b \o line) \in Nat
          BY <1>3, Joined
        <5> QED
          BY <1>1, <1>3, <5>1 DEF HeaderSize
      <4>2. a[1].of \in Requests
        BY <1>3, <4>1 DEF IInv, StreamInv
      <4>3. log[a[1].of].kind \in Nat
        BY <4>2, LogFacts, KindsAssumption DEF Entry
      <4>4. n \in {1, 6, 2 * log[a[1].of].kind}
        BY <1>2, <3>1 DEF DataLen
      <4> QED
        BY <4>3, <4>4
    <3>2. CASE ~IsHead(a)
      BY <1>2, <3>2 DEF DataLen, Unknown
    <3> QED
      BY <3>1, <3>2
  <2>6. StepInv'
    <3>1. want' - CrcSize = n
      BY <2>1, <2>4 DEF CrcSize
    <3> HIDE DEF a, b
    <3>2. DataLen(buff)' = DataLen(a)
      BY <2>1 DEF DataLen
    <3> QED
      BY <1>1, <1>2, <1>3, <1>6, <2>1, <3>1, <3>2 DEF StepInv
  <2>7. ShapeInv'
    <3>1. want' \in Nat
      BY <2>1, <2>4 DEF CrcSize
    <3> HIDE DEF a, b
    <3> QED
      BY <1>1, <1>3, <2>1, <3>1 DEF IInv, ShapeInv
  <2> QED
    BY <2>3, <2>6, <2>7 DEF IInv
<1> QED
  BY <1>5, <1>6

\* A whole frame that was read by its header's length is data that was read:
\* for an echo of a write, of 8 bytes, that length is 11.
LEMMA WholeFrame ==
  ASSUME IInv, step = "rest", NEW f \in Seq(Bytes), Len(f) = HeaderSize + want,
         \A i \in 1..HeaderSize : f[i] = buff[i], CrcAgrees(f),
         f[1].of \in Requests, log[f[1].of].answer # "none"
  PROVE  log[f[1].of].answer = "data" /\ log[f[1].of].kind > 0
<1> DEFINE q == log[f[1].of]
<1>1. q \in Entry /\ q.answer \in {"data", "exception"} /\ q.kind \in Nat
  BY LogFacts, KindsAssumption DEF Entry, Answers
<1>2. Len(f) = FrameLen(q) /\ \A i \in 1..Len(f) : f[i].of = f[1].of /\ f[i].place = i
  BY DEF CrcAgrees
<1>3. want \in Nat /\ want - CrcSize \in DataLen(buff) /\ HeaderSize = 3 /\ CrcSize = 2
  BY DEF IInv, ShapeInv, StepInv, HeaderSize, CrcSize
<1>4. IsHead(buff) /\ buff[1].of = f[1].of
  <2>1. \A i \in 1..HeaderSize : i \in 1..Len(f) /\ 1 \in 1..HeaderSize
    BY <1>3
  <2>2. \A i \in 1..HeaderSize : buff[i].of = f[1].of /\ buff[i].place = i
    BY <1>2, <2>1
  <2>3. buff[1].of = f[1].of
    BY <1>3, <2>2
  <2> QED
    BY <2>2, <2>3 DEF IsHead
<1>5. q.answer = "exception" => DataLen(buff) = {1}
  BY <1>4 DEF DataLen
<1>6. q.answer = "exception" => FrameLen(q) = 5
  BY DEF FrameLen
<1>7. (q.answer = "data" /\ q.kind = 0) => DataLen(buff) = {6} /\ FrameLen(q) = 8
  <2>1. (q.answer = "data" /\ q.kind = 0) => DataLen(buff) = {6}
    BY <1>4 DEF DataLen
  <2>2. (q.answer = "data" /\ q.kind = 0) => FrameLen(q) = 8
    BY DEF FrameLen
  <2> QED
    BY <2>1, <2>2
<1> HIDE DEF q
<1>8. q.answer # "exception"
  BY <1>2, <1>3, <1>5, <1>6
<1>9. q.kind # 0
  BY <1>1, <1>2, <1>3, <1>7, <1>8
<1>10. q.kind > 0
  BY <1>1, <1>9
<1> QED
  BY <1>1, <1>8, <1>10 DEF q

LEMMA ReadRestInv == ASSUME IInv, ReadRest PROVE IInv'
<1> DEFINE a == SubSeq(rx, 1, want)
           b == SubSeq(rx, want + 1, Len(rx))
           f == buff \o a
           slow == log[Current].slow
<1>1. /\ step = "rest" /\ Len(rx) >= want /\ line' = line /\ rx' = b
      /\ IF CrcAgrees(f) THEN End("OK", f[1].of) ELSE End("CRC_ERROR", 0)
      /\ Len(buff) = HeaderSize
  BY DEF ReadRest, IInv, StepInv
<1>2. /\ b \in Seq(Bytes) /\ f \in Seq(Bytes) /\ b \o line \in Seq(Bytes)
      /\ f \o (b \o line) = Stream /\ (<<>> \o b) \o line = b \o line
      /\ Len(f) = HeaderSize + want
      /\ \A i \in 1..Len(f) : Stream[i] = f[i] /\ i \in 1..Len(Stream)
      /\ buff \in Seq(Bytes) /\ a \in Seq(Bytes)
  BY <1>1, TakeOf DEF IInv, ShapeInv
<1>3. /\ Current \in Requests /\ log[Current] \in Entry /\ 0 \in 0..MaxRequests /\ want \in Nat
      /\ slow \in BOOLEAN /\ {"OK", "CRC_ERROR"} \subseteq Results /\ "CRC_ERROR" # "OK"
  BY <1>1, LogFacts, KindsAssumption DEF Entry, Results, IInv, ShapeInv
<1>4. \A i \in 1..HeaderSize : f[i] = buff[i]
  BY <1>1, <1>2, Joined
<1> HIDE DEF f, a, b
<1>5. f # <<>> /\ 1 \in 1..Len(f) /\ f[1] \in Bytes /\ f[1].of \in Requests /\ log[f[1].of].answer # "none"
  <2>1. 1 \in 1..Len(f)
    BY <1>2, <1>3 DEF HeaderSize
  <2>2. Stream[1] = f[1] /\ 1 \in 1..Len(Stream)
    BY <1>2, <2>1
  <2>3. f # <<>>
    <3>1. Len(f) > 0
      BY <1>2, <1>3 DEF HeaderSize
    <3> QED
      BY <3>1
  <2>4. f[1].of \in Requests /\ log[f[1].of].answer # "none"
    BY <2>2 DEF IInv, StreamInv
  <2> QED
    BY <1>2, <2>1, <2>3, <2>4, ElementOfSeq
<1>6. (log[Current].quiet /\ log[Current].answer = "data" /\ log[Current].kind > 0)
         => CrcAgrees(f) /\ f[1].of = Current
  <2> SUFFICES ASSUME log[Current].quiet, log[Current].answer = "data", log[Current].kind > 0
               PROVE  CrcAgrees(f) /\ f[1].of = Current
    OBVIOUS
  <2> DEFINE n == 2 * log[Current].kind
  <2>1. /\ n \in Nat /\ Len(Stream) = HeaderSize + n + CrcSize /\ FrameLen(log[Current]) = Len(Stream)
        /\ \A i \in 1..Len(Stream) : Stream[i].of = Current /\ Stream[i].place = i
        /\ \A h : (\A i \in 1..HeaderSize : h[i] = Stream[i]) => DataLen(h) = {n}
    BY <1>1, QuietAnswer
  <2> HIDE DEF n
  <2>2. \A i \in 1..HeaderSize : buff[i] = Stream[i]
    <3>1. \A i \in 1..HeaderSize : i \in 1..Len(f)
      BY <1>2, <1>3 DEF HeaderSize
    <3> QED
      BY <1>2, <1>4, <3>1
  <2>3. want - CrcSize \in {n}
    BY <1>1, <2>1, <2>2 DEF IInv, StepInv
  <2>4. Len(f) = Len(Stream)
    BY <1>2, <1>3, <2>1, <2>3 DEF CrcSize, HeaderSize
  <2>5. \A i \in 1..Len(f) : f[i].of = Current /\ f[i].place = i
    BY <1>2, <2>1
  <2>6. f[1].of = Current
    BY <1>5, <2>5
  <2> QED
    BY <2>1, <2>4, <2>5, <2>6 DEF CrcAgrees
<1>7. ASSUME NEW result \in {"OK", "CRC_ERROR"}, NEW took \in 0..MaxRequests, End(result, took),
             result = "OK" => took = f[1].of /\ f[1] = Byte(took, 1) /\ log[took].answer = "data",
             (log[Current].quiet /\ log[Current].answer = "data" /\ log[Current].kind > 0)
                => result = "OK" /\ took = Current
      PROVE  IInv'
  <2>1. /\ log' = [log EXCEPT ![Current].result = result, ![Current].took = took]
        /\ holder' = NoTask /\ step' = "idle" /\ want' = 0 /\ buff' = <<>>
    BY <1>7 DEF End
  <2>2. log' = [log EXCEPT ![Current] = [@ EXCEPT !.result = result, !.took = took, !.slow = slow]]
    <3>1. [log[Current] EXCEPT !.result = result, !.took = took]
            = [log[Current] EXCEPT !.result = result, !.took = took, !.slow = slow]
      BY <1>3 DEF Entry
    <3> QED
      BY <2>1, <3>1
  <2>3. Stream = f \o (b \o line) /\ Stream' = b \o line
    BY <1>1, <1>2, <2>1 DEF Stream
  <2>4. result \in Results
    BY <1>3
  <2>5. result = "OK" => f # <<>> /\ f[1] = Byte(took, 1) /\ took \in Requests /\ log[took].answer = "data"
    BY <1>5, <1>7
  <2> HIDE DEF slow
  <2>6. StreamInv' /\ TakenInv' /\ QuietReadSucceeds'
    BY <1>1, <1>2, <1>3, <1>7, <2>2, <2>3, <2>4, <2>5, EndInv, ZenonT(60)
  <2>7. log' \in Seq(Entry) /\ Len(log') = Len(log)
    BY <1>1, <1>3, <2>2, <2>4, LogEnd
  <2>8. rx' \in Seq(Bytes)
    BY <1>1, <1>2
  <2> QED
    BY <1>1, <2>1, <2>6, <2>7, <2>8, EndShape DEF IInv
<1>8. CASE CrcAgrees(f)
  <2> DEFINE took == f[1].of
  <2>1. took \in 0..MaxRequests
    BY <1>5, LogFacts, KindsAssumption DEF IInv, ShapeInv
  <2>2. log[took].answer = "data"
    BY <1>1, <1>2, <1>4, <1>5, <1>8, WholeFrame
  <2>3. f[1] = Byte(took, 1)
    BY <1>5, <1>8 DEF CrcAgrees, Byte, Bytes
  <2>4. End("OK", took)
    BY <1>1, <1>8
  <2> HIDE DEF took
  <2> QED
    BY <1>6, <1>7, <2>1, <2>2, <2>3, <2>4 DEF took
<1>9. CASE ~CrcAgrees(f)
  BY <1>1, <1>3, <1>6, <1>7, <1>9
<1> QED
  BY <1>8, <1>9

LEMMA InvNext == ASSUME IInv, [Next]_vars PROVE IInv'
<1>1. CASE Next
  BY <1>1, RequestInv, ArriveInv, ReadHeaderInv, ReadRestInv, GiveUpInv DEF Next
<1>2. CASE UNCHANGED vars
  <2>1. UNCHANGED <<holder, step, want, buff, rx, line, log>> /\ Stream' = Stream
    BY <1>2 DEF vars, Stream
  <2>2. ShapeInv' /\ StepInv'
    BY <2>1 DEF IInv, ShapeInv, StepInv, DataLen
  <2> QED
    BY <2>1, <2>2, SameStream DEF IInv
<1> QED
  BY <1>1, <1>2

-----------------------------------------------------------------------------
\* The inductive invariant holds of every reachable state.
THEOREM MasterInvariance == Spec => []IInv
<1>1. Init => IInv
  BY InitInv
<1>2. IInv /\ [Next]_vars => IInv'
  BY InvNext
<1> QED
  BY <1>1, <1>2, PTL DEF Spec

\* The semaphore is held exactly while a request is under way.
THEOREM MasterTypeCorrect == Spec => []TypeOK
<1>1. IInv => TypeOK
  BY DEF IInv, ShapeInv, TypeOK, Entry
<1> QED
  BY <1>1, MasterInvariance, PTL

\* No answer is taken by two requests and none is made up of two, however late
\* the bytes come (modbus_receive_packet's length and CRC).
THEOREM TakenOnceHolds == Spec => []TakenOnce
<1>1. IInv => TakenOnce
  BY DEF IInv, TakenInv, TakenOnce
<1> QED
  BY <1>1, MasterInvariance, PTL

\* A read that is sent on a quiet line and answered in time ends with its own
\* answer, whatever became of the requests before it (modbus_master_req).
THEOREM QuietReadHolds == Spec => []QuietReadSucceeds
<1>1. IInv => QuietReadSucceeds
  BY DEF IInv
<1> QED
  BY <1>1, MasterInvariance, PTL

-----------------------------------------------------------------------------
(* How far QuietWriteSucceeds is from being true                           *)

\* What passed for an answer was one to a read.
EchoNeverTaken ==
  \A n \in Requests : log[n].result = "OK" =>
    log[n].took \in Requests /\ log[log[n].took].kind > 0

LEMMA EndTakesNoEcho ==
  ASSUME IInv, EchoNeverTaken, step # "idle", NEW result \in Results, NEW took \in 0..MaxRequests,
         NEW slow \in BOOLEAN,
         log' = [log EXCEPT ![Current] = [@ EXCEPT !.result = result, !.took = took, !.slow = slow]],
         result = "OK" => took \in Requests /\ log[took].kind > 0
  PROVE  EchoNeverTaken'
<1>1. /\ Len(log') = Len(log)
      /\ \A n \in Requests : n # Current => log'[n] = log[n]
      /\ \A n \in Requests : log'[n].kind = log[n].kind
      /\ log'[Current].result = result /\ log'[Current].took = took
  BY LogEnd
<1>2. Requests' = Requests
  BY <1>1 DEF Requests
<1> SUFFICES ASSUME NEW n \in Requests, log'[n].result = "OK"
             PROVE  log'[n].took \in Requests /\ log'[log'[n].took].kind > 0
  BY <1>2 DEF EchoNeverTaken
<1>3. CASE n = Current
  BY <1>1, <1>3
<1>4. CASE n # Current
  BY <1>1, <1>4 DEF EchoNeverTaken
<1> QED
  BY <1>3, <1>4

LEMMA EchoStep == ASSUME IInv, EchoNeverTaken, [Next]_vars PROVE EchoNeverTaken'
<1>0. /\ step # "idle" => Current \in Requests /\ log[Current] \in Entry
      /\ log \in Seq(Entry) /\ Len(log) \in Nat /\ Requests = 1..Len(log) /\ Current = Len(log)
      /\ 0 \in 0..MaxRequests /\ {"TIMEOUT", "DATA_LEN", "CRC_ERROR", "REFUSED", "OK"} \subseteq Results
  BY LogFacts, KindsAssumption DEF Results, IInv, ShapeInv
<1>1. ASSUME NEW t \in Tasks, NEW kind \in Kinds, NEW answer \in Answers, Request(t, kind, answer)
      PROVE  EchoNeverTaken'
  <2> DEFINE q == [kind |-> kind, answer |-> answer, quiet |-> line = <<>>, slow |-> FALSE,
                   result |-> "pending", took |-> 0]
  <2>1. log' = Append(log, q) /\ q.result = "pending"
    BY <1>1 DEF Request
  <2> HIDE DEF q
  <2>2. /\ Len(log') = Len(log) + 1 /\ log'[Len(log) + 1] = q
        /\ \A n \in 1..Len(log) : log'[n] = log[n]
    BY <1>0, <2>1
  <2>3. \A n \in Requests' : n \in Requests \/ n = Len(log) + 1
    BY <1>0, <2>2 DEF Requests
  <2>4. Requests \subseteq Requests'
    BY <1>0, <2>2 DEF Requests
  <2> QED
    BY <1>0, <2>1, <2>2, <2>3, <2>4 DEF EchoNeverTaken
<1>2. CASE Arrive \/ UNCHANGED vars
  <2>1. log' = log
    BY <1>2 DEF Arrive, vars
  <2> QED
    BY <2>1 DEF EchoNeverTaken, Requests
<1>3. CASE GiveUp
  <2> DEFINE result == IF step = "header" THEN "TIMEOUT" ELSE "DATA_LEN"
             slow == line # <<>>
  <2>1. /\ step # "idle"
        /\ log' = [log EXCEPT ![Current].result = result, ![Current].slow = slow]
    BY <1>3 DEF GiveUp
  <2>2. result \in Results /\ result # "OK" /\ slow \in BOOLEAN
    BY <1>0
  <2> HIDE DEF result, slow
  <2>3. log[Current].took \in 0..MaxRequests
    BY <1>0, <2>1 DEF Entry
  <2>4. log' = [log EXCEPT ![Current] =
                  [@ EXCEPT !.result = result, !.took = log[Current].took, !.slow = slow]]
    <3>1. [log[Current] EXCEPT !.result = result, !.slow = slow]
            = [log[Current] EXCEPT !.result = result, !.took = log[Current].took, !.slow = slow]
      BY <1>0, <2>1 DEF Entry
    <3> QED
      BY <2>1, <3>1
  <2> QED
    BY <2>1, <2>2, <2>3, <2>4, EndTakesNoEcho
<1>4. ASSUME step # "idle", NEW result \in Results, NEW took \in 0..MaxRequests, End(result, took),
             result = "OK" => took \in Requests /\ log[took].kind > 0
      PROVE  EchoNeverTaken'
  <2> DEFINE slow == log[Current].slow
  <2>1. slow \in BOOLEAN
    BY <1>0, <1>4 DEF Entry
  <2>2. log' = [log EXCEPT ![Current] =
                  [@ EXCEPT !.result = result, !.took = took, !.slow = slow]]
    <3>1. [log[Current] EXCEPT !.result = result, !.took = took]
            = [log[Current] EXCEPT !.result = result, !.took = took, !.slow = slow]
      BY <1>0, <1>4 DEF Entry
    <3> QED
      BY <1>4, <3>1 DEF End
  <2> HIDE DEF slow
  <2> QED
    BY <1>4, <2>1, <2>2, EndTakesNoEcho
<1>5. CASE ReadHeader
  <2>1. step # "idle"
    BY <1>5 DEF ReadHeader
  <2>2. CASE End("REFUSED", 0)
    BY <1>0, <1>4, <2>1, <2>2
  <2>3. CASE log' = log
    BY <2>3 DEF EchoNeverTaken, Requests
  <2> QED
    BY <1>5, <2>2, <2>3 DEF ReadHeader
<1>6. CASE ReadRest
  <2> DEFINE a == SubSeq(rx, 1, want)
             b == SubSeq(rx, want + 1, Len(rx))
             f == buff \o a
  <2>1. /\ step = "rest" /\ Len(rx) >= want /\ Len(buff) = HeaderSize
        /\ IF CrcAgrees(f) THEN End("OK", f[1].of) ELSE End("CRC_ERROR", 0)
    BY <1>6 DEF ReadRest, IInv, StepInv
  <2>2. /\ f \in Seq(Bytes) /\ Len(f) = HeaderSize + want
        /\ \A i \in 1..Len(f) : Stream[i] = f[i] /\ i \in 1..Len(Stream)
        /\ buff \in Seq(Bytes) /\ a \in Seq(Bytes) /\ want \in Nat
    BY <2>1, TakeOf DEF IInv, ShapeInv
  <2>3. \A i \in 1..HeaderSize : f[i] = buff[i]
    BY <2>1, <2>2, Joined
  <2> HIDE DEF f, a, b
  <2>4. f[1].of \in Requests /\ log[f[1].of].answer # "none"
    <3>1. 1 \in 1..Len(f)
      BY <2>2 DEF HeaderSize
    <3>2. Stream[1] = f[1] /\ 1 \in 1..Len(Stream)
      BY <2>2, <3>1
    <3> QED
      BY <3>2 DEF IInv, StreamInv
  <2>5. CASE CrcAgrees(f)
    <3>1. log[f[1].of].kind > 0
      BY <2>1, <2>2, <2>3, <2>4, <2>5, WholeFrame
    <3>2. f[1].of \in 0..MaxRequests
      BY <1>0, <2>4, KindsAssumption DEF IInv, ShapeInv
    <3> QED
      BY <1>0, <1>4, <2>1, <2>4, <2>5, <3>1, <3>2
  <2>6. CASE ~CrcAgrees(f)
    BY <1>0, <1>4, <2>1, <2>6
  <2> QED
    BY <2>5, <2>6
<1> QED
  BY <1>1, <1>2, <1>3, <1>5, <1>6 DEF Next

\* The echo of a write is never taken for an answer, its own included: the
\* master waits for 11 bytes where the slave sends 8, so that a write which was
\* obeyed and answered is reported failed, unless a late answer to a read
\* passes for its own (modbus_receive_packet).
THEOREM EchoNeverTakenHolds == Spec => []EchoNeverTaken
<1>1. Init => EchoNeverTaken
  BY DEF Init, EchoNeverTaken, Requests
<1>2. IInv /\ EchoNeverTaken /\ [Next]_vars => EchoNeverTaken'
  BY EchoStep
<1> QED
  BY <1>1, <1>2, MasterInvariance, PTL DEF Spec
===============================================================================
