---------------------------- MODULE Schedule_proofs ----------------------------
(***************************************************************************)
(* Proofs about Schedule, for periods of any lengths, any way of cutting   *)
(* the copy into pieces and any number of settings and resets: although    *)
(* Date_Time is read half written, each end of a period is closed once.    *)
(***************************************************************************)
EXTENDS Schedule, TLAPS

\* A field that *ct = nt has already stored.
Copied(f) == \E i \in 1..copied : f \in Pieces[i]

\* The second in which unit n of field f has ended.
Ends(f, n) == (n + 1) * Length[f]

\* nt is the date of one second, read age.nt ago if the clock was not set since.
ReadInv ==
  /\ \A f \in Fields : nt[f].set = nt["sec"].set /\ nt[f].n = nt["sec"].n \div Length[f]
  /\ nt["sec"].set <= sets
  /\ nt["sec"].set = sets => nt["sec"].n = rtc - age.nt

\* What is nearer to the chip has been read later.
AgeInv ==
  /\ age.nt <= age.date
  /\ pc = "run" => age.date <= age.old

\* How far a field may be behind a later reading, in its units.
Lead(f) == IF f = "sec" THEN MaxLag ELSE 1

\* A field of Date_Time is of nt or of a reading less than a minute before.
DateInv ==
  \A f \in Fields :
    /\ Date_Time[f].set <= nt[f].set
    /\ Date_Time[f].set = nt[f].set => Date_Time[f].n <= nt[f].n
    /\ Date_Time[f].set = nt[f].set => nt[f].n <= Date_Time[f].n + Lead(f)
    /\ Date_Time[f].set = sets => rtc - age.date < Ends(f, Date_Time[f].n)
    /\ Copied(f) => Date_Time[f] = nt[f]

\* time_old is what Date_Time was at the last scan, or shows the same.
OldInv ==
  pc = "run" => \A f \in Fields :
    /\ time_old[f].set <= Date_Time[f].set
    /\ time_old[f].set = Date_Time[f].set =>
         time_old[f].n <= Date_Time[f].n /\ Date_Time[f].n <= time_old[f].n + Lead(f)
    /\ time_old[f].set = nt[f].set => nt[f].n <= time_old[f].n + Lead(f)
    /\ time_old[f].set = sets => rtc - age.old < Ends(f, time_old[f].n)

\* Until the minute is stored, what is not of nt is of one second before it.
OrderInv ==
  (sets = 0 /\ ~Copied("min")) =>
    \E t \in Nat :
      /\ Date_Time["min"].n = t \div MinLen
      /\ \A f \in ToTheMinute : Date_Time[f] = nt[f] \/ Date_Time[f].n = t \div Length[f]

\* The last record is of the minute that was closed last.
StampInv ==
  /\ pc = "delay" => records = <<>>
  /\ records # <<>> => records[1].min = time_old["min"]

IInv == TypeOK /\ ReadInv /\ AgeInv /\ DateInv /\ OldInv /\ OrderInv /\ StampInv

-----------------------------------------------------------------------------
(* Units of time                                                           *)

LEMMA DivMod ==
  ASSUME NEW t \in Nat, NEW L \in Nat \ {0}
  PROVE  t \div L \in Nat /\ (t \div L) * L <= t /\ t < ((t \div L) + 1) * L
OBVIOUS

LEMMA Factor ==
  ASSUME NEW q \in Int, NEW r \in Int, NEW L \in Nat \ {0}
  PROVE  (q >= r => q * L >= r * L) /\ (q >= r + 1 => q * L >= r * L + L)
<1>1. (q - r) * L = q * L - r * L
  OBVIOUS
<1>2. q >= r => (q - r) * L >= 0
  OBVIOUS
<1>3. q - r >= 1 => (q - r) * L >= L
  OBVIOUS
<1>4. q * L \in Int /\ r * L \in Int /\ (q - r) * L \in Int
  OBVIOUS
<1> QED
  BY <1>1, <1>2, <1>3, <1>4

LEMMA DivAtMost ==
  ASSUME NEW t \in Nat, NEW n \in Int, NEW L \in Nat \ {0}, t < (n + 1) * L
  PROVE  t \div L <= n
<1> DEFINE q == t \div L
           m == n + 1
<1>1. q \in Nat /\ q * L <= t /\ m \in Int /\ t < m * L
  BY DivMod
<1>2. q * L \in Int /\ m * L \in Int
  BY <1>1
<1> HIDE DEF q, m
<1>3. q >= m => q * L >= m * L
  BY <1>1, Factor
<1>4. q < m
  BY <1>1, <1>2, <1>3
<1> QED
  BY <1>1, <1>4 DEF q, m

LEMMA DivMonotone ==
  ASSUME NEW a \in Nat, NEW b \in Nat, NEW L \in Nat \ {0}, a <= b
  PROVE  a \div L <= b \div L
<1> DEFINE n == b \div L
<1>1. n \in Nat /\ b < (n + 1) * L
  BY DivMod
<1>2. (n + 1) * L \in Int
  BY <1>1
<1> HIDE DEF n
<1>3. a < (n + 1) * L
  BY <1>1, <1>2
<1> QED
  BY <1>1, <1>3, DivAtMost DEF n

LEMMA DivUnique ==
  ASSUME NEW t \in Nat, NEW n \in Nat, NEW L \in Nat \ {0}, n * L <= t, t < (n + 1) * L
  PROVE  t \div L = n
<1> DEFINE q == t \div L
<1>1. q \in Nat /\ t < (q + 1) * L /\ q <= n
  BY DivMod, DivAtMost
<1> HIDE DEF q
<1>2. n >= q + 1 => n * L >= (q + 1) * L
  BY <1>1, Factor
<1>3. n * L \in Int /\ (q + 1) * L \in Int
  BY <1>1
<1>4. q = n
  BY <1>1, <1>2, <1>3
<1> QED
  BY <1>4 DEF q

\* Units of units.
LEMMA DivDiv ==
  ASSUME NEW t \in Nat, NEW A \in Nat \ {0}, NEW K \in Nat \ {0}
  PROVE  (t \div A) \div K = t \div (A * K)
<1> DEFINE q == t \div A
           r == q \div K
<1>1. q \in Nat /\ q * A <= t /\ t < (q + 1) * A
  BY DivMod
<1>2. r \in Nat /\ r * K <= q /\ q < (r + 1) * K
  <2> HIDE DEF q
  <2> QED
    BY <1>1, DivMod
<1>3. q = t \div A /\ r = q \div K
  OBVIOUS
<1> HIDE DEF q, r
<1>4. A * K \in Nat \ {0}
  OBVIOUS
<1>5. r * K \in Int /\ (r + 1) * K \in Int
  BY <1>2
<1>6. q * A >= (r * K) * A /\ ((r + 1) * K) * A >= (q + 1) * A
  BY <1>1, <1>2, <1>5, Factor
<1>7. (r * K) * A = r * (A * K) /\ ((r + 1) * K) * A = (r + 1) * (A * K)
  BY <1>2
<1>8. r * (A * K) <= t /\ t < (r + 1) * (A * K)
  <2>1. q * A \in Int /\ (q + 1) * A \in Int /\ (r * K) * A \in Int /\ ((r + 1) * K) * A \in Int
    BY <1>1, <1>2, <1>5
  <2> QED
    BY <1>1, <1>6, <1>7, <2>1
<1>9. t \div (A * K) = r
  BY <1>2, <1>4, <1>8, DivUnique
<1> QED
  BY <1>3, <1>9

LEMMA Remainder ==
  ASSUME NEW a \in Nat, NEW M \in Nat \ {0}
  PROVE  a \div M \in Nat /\ a % M \in Nat /\ a = (a \div M) * M + (a % M)
OBVIOUS

\* Numbers less than M apart that show the same are the same.
LEMMA SameShown ==
  ASSUME NEW a \in Nat, NEW b \in Nat, NEW M \in Nat \ {0}, a <= b, b - a < M, a % M = b % M
  PROVE  a = b
<1> DEFINE q == a \div M
           r == b \div M
<1>1. q \in Nat /\ r \in Nat /\ a % M \in Nat /\ a = q * M + (a % M) /\ b = r * M + (a % M)
  BY Remainder
<1>2. q * M \in Int /\ r * M \in Int
  BY <1>1
<1> HIDE DEF q, r
<1>3. r >= q + 1 => r * M >= q * M + M
  BY <1>1, Factor
<1>4. q >= r => q * M >= r * M
  BY <1>1, Factor
<1> QED
  BY <1>1, <1>2, <1>3, <1>4

LEMMA LengthFacts ==
  /\ \A f \in Fields : Length[f] \in Nat \ {0}
  /\ Length["sec"] = 1 /\ Length["min"] = MinLen
  /\ MaxLag \in Nat \ {0} /\ \A f \in ToTheMinute : MaxLag < Length[f]
  /\ \A f \in Fields \ {"year"} : /\ Larger[f] \in ToTheMinute
                                  /\ \E K \in Nat \ {0, 1} : /\ Length[Larger[f]] = Length[f] * K
                                                             /\ Length[Larger[f]] \div Length[f] = K
<1>1. /\ Length["sec"] = 1 /\ Length["min"] = MinLen /\ Length["hour"] = HourLen
      /\ Length["day"] = DayLen /\ Length["month"] = MonthLen /\ Length["year"] = YearLen
  BY DEF Length
<1>2. /\ Larger["sec"] = "min" /\ Larger["min"] = "hour" /\ Larger["hour"] = "day"
      /\ Larger["day"] = "month" /\ Larger["month"] = "year"
  BY DEF Larger
<1>3. \A f \in Fields : Length[f] \in Nat \ {0}
  BY <1>1, ScheduleAssumption DEF Fields
<1>4. MaxLag \in Nat \ {0} /\ MaxLag < MinLen
  BY ScheduleAssumption
<1>5. \A f \in Fields \ {"year"} : Larger[f] \in ToTheMinute
  BY <1>2 DEF Fields, ToTheMinute
<1>6. \A f \in Fields \ {"year"} : Length[Larger[f]] % Length[f] = 0 /\ Length[Larger[f]] > Length[f]
  BY ScheduleAssumption
<1>7. \A f \in ToTheMinute : MaxLag < Length[f]
  <2>1. MinLen < HourLen /\ HourLen < DayLen /\ DayLen < MonthLen /\ MonthLen < YearLen
    BY <1>1, <1>2, <1>6 DEF Fields
  <2>2. {MinLen, HourLen, DayLen, MonthLen, YearLen} \subseteq Nat
    BY ScheduleAssumption
  <2> QED
    BY <1>1, <1>4, <2>1, <2>2 DEF ToTheMinute, Fields
<1>8. ASSUME NEW f \in Fields \ {"year"}
      PROVE  \E K \in Nat \ {0, 1} : /\ Length[Larger[f]] = Length[f] * K
                                     /\ Length[Larger[f]] \div Length[f] = K
  <2> DEFINE a == Length[Larger[f]]
             b == Length[f]
             K == a \div b
  <2>1. a \in Nat \ {0} /\ b \in Nat \ {0} /\ a % b = 0 /\ a > b
    <3>1. Larger[f] \in Fields /\ f \in Fields
      BY <1>5 DEF ToTheMinute
    <3> QED
      BY <1>3, <1>6, <3>1
  <2>2. K = a \div b
    OBVIOUS
  <2> HIDE DEF a, b, K
  <2>3. K \in Nat /\ a = K * b
    BY <2>1, <2>2, Remainder
  <2>4. K # 0 /\ K # 1
    BY <2>1, <2>3
  <2>5. a = b * K
    BY <2>1, <2>3
  <2> QED
    BY <2>2, <2>3, <2>4, <2>5 DEF a, b
<1> QED
  BY <1>1, <1>3, <1>4, <1>5, <1>7, <1>8

LEMMA TypeFacts ==
  ASSUME TypeOK
  PROVE  /\ rtc \in Nat /\ rtc <= LastSecond /\ sets \in Nat /\ sets <= MaxSets
         /\ \A f \in Fields : /\ nt[f].set \in Nat /\ nt[f].n \in Nat
                              /\ Date_Time[f].set \in Nat /\ Date_Time[f].n \in Nat
                              /\ time_old[f].set \in Nat /\ time_old[f].n \in Nat
         /\ age.nt \in 0..MaxLag /\ age.date \in 0..MaxLag /\ age.old \in 0..MaxLag
         /\ LastSecond \in Nat /\ MaxSets \in Nat /\ MaxResets \in Nat
<1>1. LastSecond \in Nat /\ MaxSets \in Nat /\ MaxResets \in Nat
  BY ScheduleAssumption
<1>2. rtc \in Nat /\ rtc <= LastSecond /\ sets \in Nat /\ sets <= MaxSets
  BY <1>1 DEF TypeOK
<1>3. \A v \in Values : v.set \in Nat /\ v.n \in Nat
  BY <1>1 DEF Values
<1>4. \A f \in Fields : nt[f] \in Values /\ Date_Time[f] \in Values /\ time_old[f] \in Values
  BY DEF TypeOK
<1>5. age.nt \in 0..MaxLag /\ age.date \in 0..MaxLag /\ age.old \in 0..MaxLag
  BY DEF TypeOK
<1> QED
  BY <1>1, <1>2, <1>3, <1>4, <1>5

\* The date of a second.
LEMMA DateFacts ==
  ASSUME NEW s \in 0..MaxSets, NEW t \in 0..LastSecond, NEW d,
         d = [f \in Fields |-> [set |-> s, n |-> t \div Length[f]]]
  PROVE  /\ d \in [Fields -> Values]
         /\ \A f \in Fields : d[f].set = s /\ d[f].n = t \div Length[f] /\ t < Ends(f, d[f].n)
                              /\ d[f].n \in Nat
         /\ d["sec"].n = t
<1>1. LastSecond \in Nat /\ MaxSets \in Nat /\ t \in Nat /\ s \in Nat
  BY ScheduleAssumption
<1>2. ASSUME NEW f \in Fields
      PROVE  /\ t \div Length[f] \in 0..LastSecond
             /\ t < ((t \div Length[f]) + 1) * Length[f]
  <2>1. Length[f] \in Nat \ {0}
    BY LengthFacts
  <2> DEFINE L == Length[f]
             q == t \div L
  <2>2. L \in Nat \ {0}
    BY <2>1
  <2> HIDE DEF L
  <2>3. q \in Nat /\ q * L <= t /\ t < (q + 1) * L
    BY <1>1, <2>2, DivMod
  <2> HIDE DEF q
  <2>4. q <= q * L /\ q * L \in Int
    BY <2>2, <2>3
  <2>5. q \in 0..LastSecond
    BY <1>1, <2>3, <2>4
  <2> QED
    BY <2>3, <2>5 DEF q, L
<1>3. \A f \in Fields : d[f] = [set |-> s, n |-> t \div Length[f]]
  OBVIOUS
<1>4. \A f \in Fields : d[f].set = s /\ d[f].n = t \div Length[f]
  BY <1>3
<1>5. \A f \in Fields : [set |-> s, n |-> t \div Length[f]] \in Values
  BY <1>2 DEF Values
<1>6. d["sec"].n = t
  <2>1. Length["sec"] = 1 /\ "sec" \in Fields
    BY LengthFacts DEF Fields
  <2>2. t \div 1 = t
    BY <1>1
  <2> QED
    BY <1>4, <2>1, <2>2
<1>7. \A f \in Fields : t < Ends(f, d[f].n) /\ d[f].n \in Nat
  BY <1>1, <1>2, <1>4 DEF Ends
<1> QED
  BY <1>3, <1>4, <1>5, <1>6, <1>7

LEMMA AllCopied ==
  ASSUME copied = Len(Pieces)
  PROVE  \A f \in Fields : Copied(f)
<1>1. Pieces \in Seq(SUBSET Fields) /\ UNION {Pieces[i] : i \in DOMAIN Pieces} = Fields
  BY ScheduleAssumption
<1>2. DOMAIN Pieces = 1..Len(Pieces)
  BY <1>1
<1> QED
  BY <1>1, <1>2 DEF Copied

\* All is of one second: at the start, and after a reset.
LEMMA FreshInv ==
  ASSUME NEW s \in 0..MaxSets, NEW t \in 0..LastSecond,
         rtc' = t, sets' = s, copied' = Len(Pieces), pc' = "delay", records' = <<>>,
         Date_Time' = [f \in Fields |-> [set |-> s, n |-> t \div Length[f]]],
         nt' = Date_Time', time_old' = Date_Time',
         age' = [nt |-> 0, date |-> 0, old |-> 0], resets' \in 0..MaxResets
  PROVE  IInv'
<1> DEFINE d == Date_Time'
<1>1. /\ d \in [Fields -> Values] /\ d["sec"].n = t
      /\ \A f \in Fields : d[f].set = s /\ d[f].n = t \div Length[f] /\ t < Ends(f, d[f].n) /\ d[f].n \in Nat
  <2>1. d = [f \in Fields |-> [set |-> s, n |-> t \div Length[f]]]
    OBVIOUS
  <2> HIDE DEF d
  <2> QED
    BY <2>1, DateFacts
<1>2. s \in Nat /\ t \in Nat /\ MaxLag \in Nat /\ "sec" \in Fields
  BY ScheduleAssumption DEF Fields
<1>3. age'.nt = 0 /\ age'.date = 0 /\ age'.old = 0 /\ age' \in [{"nt", "date", "old"} -> 0..MaxLag]
  BY <1>2
<1>4. Pieces \in Seq(SUBSET Fields)
  BY ScheduleAssumption
<1>5. Len(Pieces) \in 0..Len(Pieces)
  BY <1>4
<1>6. TypeOK'
  BY <1>1, <1>3, <1>5 DEF TypeOK
<1>7. ReadInv'
  BY <1>1, <1>2, <1>3 DEF ReadInv
<1>8. AgeInv' /\ OldInv' /\ StampInv'
  BY <1>3 DEF AgeInv, OldInv, StampInv
<1>9. DateInv'
  BY <1>1, <1>2, <1>3 DEF DateInv, Ends, Lead
<1>10. OrderInv'
  <2>1. \A f \in Fields : \E i \in 1..copied' : f \in Pieces[i]
    <3>1. UNION {Pieces[i] : i \in DOMAIN Pieces} = Fields /\ DOMAIN Pieces = 1..Len(Pieces)
      BY <1>4, ScheduleAssumption
    <3> QED
      BY <3>1
  <2>2. "min" \in Fields
    BY DEF Fields
  <2> QED
    BY <2>1, <2>2 DEF OrderInv, Copied
<1> QED
  BY <1>6, <1>7, <1>8, <1>9, <1>10 DEF IInv

LEMMA InitInv == Init => IInv
<1> SUFFICES ASSUME Init PROVE IInv
  OBVIOUS
<1> DEFINE d == Date_Time
<1>1. /\ rtc = StartAt /\ sets = 0 /\ copied = Len(Pieces) /\ pc = "delay" /\ records = <<>>
      /\ d = [f \in Fields |-> [set |-> 0, n |-> StartAt \div Length[f]]]
      /\ nt = d /\ time_old = d /\ age = [nt |-> 0, date |-> 0, old |-> 0] /\ resets = 0
  BY DEF Init, DateOf
<1>2. /\ StartAt \in 0..LastSecond /\ 0 \in 0..MaxSets /\ MaxLag \in Nat /\ 0 \in 0..MaxResets
      /\ "sec" \in Fields /\ Pieces \in Seq(SUBSET Fields)
  BY ScheduleAssumption DEF Fields
<1> HIDE DEF d
<1>3. /\ d \in [Fields -> Values] /\ d["sec"].n = StartAt
      /\ \A f \in Fields : /\ d[f].set = 0 /\ d[f].n = StartAt \div Length[f]
                           /\ StartAt < Ends(f, d[f].n) /\ d[f].n \in Nat
  BY <1>1, <1>2, DateFacts
<1>4. age.nt = 0 /\ age.date = 0 /\ age.old = 0 /\ age \in [{"nt", "date", "old"} -> 0..MaxLag]
  BY <1>1, <1>2
<1>5. TypeOK
  <2>1. Len(Pieces) \in 0..Len(Pieces)
    BY <1>2
  <2> QED
    BY <1>1, <1>2, <1>3, <1>4, <2>1 DEF TypeOK, d
<1>6. ReadInv /\ AgeInv /\ OldInv /\ StampInv
  BY <1>1, <1>2, <1>3, <1>4 DEF ReadInv, AgeInv, OldInv, StampInv
<1>7. DateInv
  BY <1>1, <1>2, <1>3, <1>4 DEF DateInv, Lead, d
<1>8. OrderInv
  BY <1>1, AllCopied DEF OrderInv, Fields
<1> QED
  BY <1>5, <1>6, <1>7, <1>8 DEF IInv

LEMMA StutterInv == IInv /\ UNCHANGED vars => IInv'
<1> SUFFICES ASSUME IInv, UNCHANGED vars PROVE IInv'
  OBVIOUS
<1>1. TypeOK' /\ ReadInv' /\ AgeInv' /\ DateInv'
  BY DEF IInv, TypeOK, ReadInv, AgeInv, DateInv, Copied, Ends, Lead, vars
<1>2. OldInv' /\ OrderInv' /\ StampInv'
  BY DEF IInv, OldInv, OrderInv, StampInv, Copied, Ends, Lead, vars
<1> QED
  BY <1>1, <1>2 DEF IInv

LEMMA SecondInv == IInv /\ Second => IInv'
<1> SUFFICES ASSUME IInv, Second PROVE IInv'
  OBVIOUS
<1>1. /\ rtc < LastSecond /\ rtc' = rtc + 1
      /\ IF pc = "run" THEN age.old < MaxLag ELSE age.date < MaxLag
      /\ age' = [x \in DOMAIN age |-> IF age[x] < MaxLag THEN age[x] + 1 ELSE age[x]]
      /\ UNCHANGED <<Date_Time, nt, copied, pc, time_old, records, sets, resets>>
  BY DEF Second
<1>2. TypeOK
  BY DEF IInv
<1>3. /\ rtc \in Nat /\ LastSecond \in Nat /\ sets \in Nat /\ MaxLag \in Nat
      /\ age.nt \in 0..MaxLag /\ age.date \in 0..MaxLag /\ age.old \in 0..MaxLag
      /\ DOMAIN age = {"nt", "date", "old"}
  BY <1>2, TypeFacts, ScheduleAssumption DEF TypeOK
<1>4. age.nt <= age.date /\ (pc = "run" => age.date <= age.old)
  BY DEF IInv, AgeInv
<1>5. age.date < MaxLag /\ age.nt < MaxLag
  BY <1>1, <1>3, <1>4
<1>6. /\ age'.nt = age.nt + 1 /\ age'.date = age.date + 1
      /\ age'.old = IF age.old < MaxLag THEN age.old + 1 ELSE age.old
      /\ pc = "run" => age'.old = age.old + 1
  BY <1>1, <1>3, <1>5
<1>7. age' \in [{"nt", "date", "old"} -> 0..MaxLag]
  <2>1. \A x \in {"nt", "date", "old"} :
           (IF age[x] < MaxLag THEN age[x] + 1 ELSE age[x]) \in 0..MaxLag
    BY <1>3
  <2> QED
    BY <1>1, <1>3, <2>1
<1>8. TypeOK'
  BY <1>1, <1>2, <1>3, <1>7 DEF TypeOK
<1>9. ReadInv'
  <2>1. nt["sec"].n \in Nat
    BY <1>2, TypeFacts DEF Fields
  <2> QED
    BY <1>1, <1>3, <1>6, <2>1 DEF IInv, ReadInv
<1>10. AgeInv'
  BY <1>1, <1>3, <1>4, <1>6 DEF AgeInv
<1>11. rtc' - age'.date = rtc - age.date /\ (pc = "run" => rtc' - age'.old = rtc - age.old)
  BY <1>1, <1>3, <1>6
<1>12. DateInv'
  BY <1>1, <1>11 DEF IInv, DateInv, Copied, Ends, Lead
<1>13. OldInv'
  BY <1>1, <1>11 DEF IInv, OldInv, Ends, Lead
<1>14. OrderInv' /\ StampInv'
  BY <1>1 DEF IInv, OrderInv, StampInv, Copied
<1> QED
  BY <1>8, <1>9, <1>10, <1>12, <1>13, <1>14 DEF IInv

\* What was read before the clock was set is of another setting.
LEMMA SetTimeInv == IInv /\ SetTime => IInv'
<1> SUFFICES ASSUME IInv, SetTime PROVE IInv'
  OBVIOUS
<1>1. /\ sets < MaxSets /\ sets' = sets + 1 /\ rtc' \in 0..LastSecond
      /\ UNCHANGED <<Date_Time, nt, copied, pc, time_old, records, age, resets>>
  BY DEF SetTime
<1>2. TypeOK
  BY DEF IInv
<1>3. /\ sets \in Nat /\ MaxSets \in Nat
      /\ \A f \in Fields : nt[f].set \in Nat /\ Date_Time[f].set \in Nat /\ time_old[f].set \in Nat
  BY <1>2, TypeFacts
<1>4. nt["sec"].set <= sets /\ \A f \in Fields : nt[f].set = nt["sec"].set
  BY DEF IInv, ReadInv
<1>5. /\ \A f \in Fields : nt[f].set < sets' /\ Date_Time[f].set < sets'
      /\ pc = "run" => \A f \in Fields : time_old[f].set < sets'
      /\ sets' # 0
  <2>1. \A f \in Fields : Date_Time[f].set <= nt[f].set
    BY DEF IInv, DateInv
  <2>2. pc = "run" => \A f \in Fields : time_old[f].set <= Date_Time[f].set
    BY DEF IInv, OldInv
  <2> QED
    BY <1>1, <1>3, <1>4, <2>1, <2>2
<1>6. TypeOK'
  BY <1>1, <1>2, <1>3 DEF TypeOK
<1>7. ReadInv'
  BY <1>1, <1>3, <1>4, <1>5 DEF IInv, ReadInv, Fields
<1>8. AgeInv' /\ StampInv'
  BY <1>1 DEF IInv, AgeInv, StampInv
<1>9. DateInv'
  BY <1>1, <1>3, <1>5 DEF IInv, DateInv, Copied, Ends, Lead
<1>10. OldInv'
  BY <1>1, <1>3, <1>5 DEF IInv, OldInv, Ends, Lead
<1>11. OrderInv'
  BY <1>5 DEF OrderInv
<1> QED
  BY <1>6, <1>7, <1>8, <1>9, <1>10, <1>11 DEF IInv

LEMMA ResetInv == IInv /\ Reset => IInv'
<1> SUFFICES ASSUME IInv, Reset PROVE IInv'
  OBVIOUS
<1> DEFINE s == sets'
           t == rtc'
<1>1. TypeOK
  BY DEF IInv
<1>2. resets' \in 0..MaxResets
  <2>1. resets < MaxResets /\ resets' = resets + 1
    BY DEF Reset
  <2> QED
    BY <1>1, <2>1, TypeFacts DEF TypeOK
<1>3. s \in 0..MaxSets /\ t \in 0..LastSecond
  <2>1. \/ rtc' = rtc /\ sets' = sets
        \/ sets < MaxSets /\ sets' = sets + 1 /\ rtc' = 0
    BY DEF Reset
  <2> QED
    BY <1>1, <2>1, TypeFacts
<1>4. /\ copied' = Len(Pieces) /\ pc' = "delay" /\ records' = <<>>
      /\ Date_Time' = [f \in Fields |-> [set |-> s, n |-> t \div Length[f]]]
      /\ nt' = Date_Time' /\ time_old' = Date_Time' /\ age' = [nt |-> 0, date |-> 0, old |-> 0]
      /\ rtc' = t /\ sets' = s
  BY DEF Reset
<1> HIDE DEF s, t
<1> QED
  BY <1>2, <1>3, <1>4, FreshInv

\* How far a unit is from one that had not ended a while ago.
LEMMA LeadFacts ==
  ASSUME NEW t \in Nat, NEW a \in 0..MaxLag, NEW f \in Fields, NEW n \in Nat, t - a < Ends(f, n)
  PROVE  t \div Length[f] <= n + Lead(f)
<1>1. MaxLag \in Nat \ {0} /\ a \in Nat /\ a <= MaxLag
  BY LengthFacts
<1>2. CASE f = "sec"
  <2>1. Length[f] = 1
    BY <1>2, LengthFacts
  <2>2. t - a < (n + 1) * 1
    BY <2>1 DEF Ends
  <2>3. t \div 1 = t
    OBVIOUS
  <2>4. t <= n + MaxLag
    BY <1>1, <2>2
  <2> QED
    BY <1>2, <2>1, <2>3, <2>4 DEF Lead
<1>3. CASE f # "sec"
  <2> DEFINE L == Length[f]
  <2>1. L \in Nat \ {0} /\ MaxLag < L
    BY <1>3, LengthFacts DEF ToTheMinute
  <2>2. t - a < (n + 1) * L
    BY DEF Ends
  <2> HIDE DEF L
  <2>3. (n + 1) * L \in Int /\ ((n + 1) + 1) * L = (n + 1) * L + L
    BY <2>1
  <2>4. t < ((n + 1) + 1) * L
    BY <1>1, <2>1, <2>2, <2>3
  <2>5. t \div L <= n + 1
    <3>1. n + 1 \in Int
      OBVIOUS
    <3> QED
      BY <2>1, <2>4, <3>1, DivAtMost
  <2> QED
    BY <1>3, <2>5 DEF L, Lead
<1> QED
  BY <1>2, <1>3

LEMMA ReadRtcInv == IInv /\ ReadRtc => IInv'
<1> SUFFICES ASSUME IInv, ReadRtc PROVE IInv'
  OBVIOUS
<1>1. /\ copied = Len(Pieces) /\ nt' = DateOf(rtc) /\ copied' = 0 /\ age' = [age EXCEPT !.nt = 0]
      /\ UNCHANGED <<rtc, Date_Time, pc, time_old, records, sets, resets>>
  BY DEF ReadRtc
<1>2. TypeOK
  BY DEF IInv
<1>3. /\ rtc \in 0..LastSecond /\ rtc \in Nat /\ sets \in 0..MaxSets /\ sets \in Nat
      /\ \A f \in Fields : /\ nt[f].set \in Nat /\ nt[f].n \in Nat
                           /\ Date_Time[f].set \in Nat /\ Date_Time[f].n \in Nat
                           /\ time_old[f].set \in Nat /\ time_old[f].n \in Nat
      /\ age.nt \in 0..MaxLag /\ age.date \in 0..MaxLag /\ age.old \in 0..MaxLag
  BY <1>2, TypeFacts
<1>4. /\ nt' \in [Fields -> Values] /\ nt'["sec"].n = rtc
      /\ \A f \in Fields : nt'[f].set = sets /\ nt'[f].n = rtc \div Length[f] /\ nt'[f].n \in Nat
  BY <1>1, <1>3, DateFacts DEF DateOf
<1>5. \A f \in Fields : Date_Time[f] = nt[f]
  BY <1>1, AllCopied DEF IInv, DateInv
<1>6. /\ \A f \in Fields : nt[f].set <= sets
      /\ \A f \in Fields : nt[f].set = sets => nt[f].n <= rtc \div Length[f]
  <2>1. "sec" \in Fields
    BY DEF Fields
  <2>2. nt["sec"].set <= sets /\ (nt["sec"].set = sets => nt["sec"].n = rtc - age.nt)
    BY DEF IInv, ReadInv
  <2>3. \A f \in Fields : nt[f].set = nt["sec"].set /\ nt[f].n = nt["sec"].n \div Length[f]
    BY DEF IInv, ReadInv
  <2>4. nt["sec"].set = sets => nt["sec"].n \in Nat /\ nt["sec"].n <= rtc
    BY <1>3, <2>1, <2>2
  <2>5. \A f \in Fields : Length[f] \in Nat \ {0}
    BY LengthFacts
  <2>6. ASSUME NEW f \in Fields, nt["sec"].set = sets
        PROVE  nt["sec"].n \div Length[f] <= rtc \div Length[f]
    BY <1>3, <2>4, <2>5, <2>6, DivMonotone
  <2> QED
    BY <2>2, <2>3, <2>6
<1>7. /\ age'.nt = 0 /\ age'.date = age.date /\ age'.old = age.old
      /\ age' \in [{"nt", "date", "old"} -> 0..MaxLag]
  <2>1. 0 \in 0..MaxLag
    BY LengthFacts
  <2> QED
    BY <1>1, <1>2, <2>1 DEF TypeOK
<1>8. TypeOK'
  <2>1. 0 \in 0..Len(Pieces)
    BY ScheduleAssumption
  <2> QED
    BY <1>1, <1>2, <1>4, <1>7, <2>1 DEF TypeOK
<1>9. ReadInv'
  <2>1. "sec" \in Fields
    BY DEF Fields
  <2> QED
    BY <1>1, <1>3, <1>4, <1>7, <2>1 DEF ReadInv
<1>10. AgeInv'
  BY <1>1, <1>3, <1>7 DEF IInv, AgeInv
<1>11. \A f \in Fields : ~(\E i \in 1..copied' : f \in Pieces[i])
  BY <1>1
<1>12. DateInv'
  <2>1. ASSUME NEW f \in Fields
        PROVE  /\ Date_Time[f].set <= nt'[f].set
               /\ Date_Time[f].set = nt'[f].set => Date_Time[f].n <= nt'[f].n
               /\ Date_Time[f].set = nt'[f].set => nt'[f].n <= Date_Time[f].n + Lead(f)
               /\ Date_Time[f].set = sets => rtc - age.date < Ends(f, Date_Time[f].n)
    <3>1. Date_Time[f].set <= nt'[f].set
          /\ (Date_Time[f].set = nt'[f].set => Date_Time[f].n <= nt'[f].n)
      BY <1>4, <1>5, <1>6
    <3>2. Date_Time[f].set = sets => rtc - age.date < Ends(f, Date_Time[f].n)
      BY DEF IInv, DateInv
    <3>3. Date_Time[f].set = sets => rtc \div Length[f] <= Date_Time[f].n + Lead(f)
      BY <1>3, <3>2, LeadFacts
    <3> QED
      BY <1>4, <3>1, <3>2, <3>3
  <2> QED
    BY <1>1, <1>7, <1>11, <2>1 DEF DateInv, Copied, Ends, Lead
<1>13. OldInv'
  <2>1. ASSUME NEW f \in Fields, pc = "run", time_old[f].set = sets
        PROVE  rtc \div Length[f] <= time_old[f].n + Lead(f)
    <3>1. rtc - age.old < Ends(f, time_old[f].n)
      BY <2>1 DEF IInv, OldInv
    <3> QED
      BY <1>3, <3>1, LeadFacts
  <2> QED
    BY <1>1, <1>4, <1>7, <2>1 DEF IInv, OldInv, Ends, Lead
<1>14. OrderInv'
  <2>1. "sec" \in Fields /\ "min" \in Fields /\ Length["min"] = MinLen /\ ToTheMinute \subseteq Fields
    BY LengthFacts DEF Fields, ToTheMinute
  <2>2. nt["sec"].n \in Nat /\ \A f \in Fields : Date_Time[f].n = nt["sec"].n \div Length[f]
    BY <1>3, <1>5, <2>1 DEF IInv, ReadInv
  <2>3. \E t \in Nat : /\ Date_Time["min"].n = t \div MinLen
                       /\ \A f \in ToTheMinute : Date_Time[f].n = t \div Length[f]
    BY <2>1, <2>2
  <2> QED
    BY <1>1, <2>3 DEF OrderInv
<1>15. StampInv'
  BY <1>1 DEF IInv, StampInv
<1> QED
  BY <1>8, <1>9, <1>10, <1>12, <1>13, <1>14, <1>15 DEF IInv

LEMMA CopyPieceInv == IInv /\ CopyPiece => IInv'
<1> SUFFICES ASSUME IInv, CopyPiece PROVE IInv'
  OBVIOUS
<1>1. /\ copied < Len(Pieces) /\ copied' = copied + 1
      /\ Date_Time' = [f \in Fields |-> IF f \in Pieces[copied + 1] THEN nt[f] ELSE Date_Time[f]]
      /\ age' = IF copied' = Len(Pieces) THEN [age EXCEPT !.date = age.nt] ELSE age
      /\ UNCHANGED <<rtc, nt, pc, time_old, records, sets, resets>>
  BY DEF CopyPiece, NextPiece
<1>2. TypeOK
  BY DEF IInv
<1>3. /\ rtc \in Nat /\ sets \in Nat /\ copied \in Nat
      /\ \A f \in Fields : /\ nt[f].set \in Nat /\ nt[f].n \in Nat
                           /\ Date_Time[f].set \in Nat /\ Date_Time[f].n \in Nat
                           /\ time_old[f].set \in Nat /\ time_old[f].n \in Nat
      /\ age.nt \in 0..MaxLag /\ age.date \in 0..MaxLag /\ age.old \in 0..MaxLag
      /\ age.nt <= age.date
  BY <1>2, TypeFacts DEF TypeOK, IInv, AgeInv
<1>4. /\ age'.nt = age.nt /\ age'.old = age.old /\ age.nt <= age'.date /\ age'.date <= age.date
      /\ age'.date \in 0..MaxLag /\ age' \in [{"nt", "date", "old"} -> 0..MaxLag]
      /\ copied' # Len(Pieces) => age'.date = age.date
  BY <1>1, <1>2, <1>3 DEF TypeOK
<1>5. \A f \in Fields : Date_Time'[f] = IF f \in Pieces[copied + 1] THEN nt[f] ELSE Date_Time[f]
  BY <1>1
<1>6. \A f \in Fields :
        (\E i \in 1..copied' : f \in Pieces[i]) <=> (Copied(f) \/ f \in Pieces[copied + 1])
  BY SMTT(30), <1>1, <1>3 DEF Copied
<1>7. \A f \in Fields : Copied(f) => Date_Time[f] = nt[f]
  BY DEF IInv, DateInv
<1>8. TypeOK'
  <2>1. Date_Time' \in [Fields -> Values]
    BY <1>1, <1>2 DEF TypeOK
  <2>2. copied' \in 0..Len(Pieces)
    <3>1. Len(Pieces) \in Nat
      BY ScheduleAssumption
    <3> QED
      BY <1>1, <1>3, <3>1
  <2> QED
    BY <1>1, <1>2, <1>4, <2>1, <2>2 DEF TypeOK
<1>9. ReadInv'
  BY <1>1, <1>4 DEF IInv, ReadInv
<1>10. AgeInv'
  BY <1>1, <1>3, <1>4 DEF IInv, AgeInv
\* What is of nt has not ended at the time nt was read.
<1>11. \A f \in Fields : nt[f].set = sets => rtc - age.nt < Ends(f, nt[f].n)
  <2>1. "sec" \in Fields /\ \A f \in Fields : Length[f] \in Nat \ {0}
    BY LengthFacts DEF Fields
  <2>2. ASSUME NEW f \in Fields, nt[f].set = sets
        PROVE  rtc - age.nt < Ends(f, nt[f].n)
    <3> DEFINE t == nt["sec"].n
    <3>1. t = rtc - age.nt /\ nt[f].n = t \div Length[f]
      BY <2>2 DEF IInv, ReadInv
    <3>2. t \in Nat
      BY <1>3, <2>1
    <3> HIDE DEF t
    <3>3. t < ((t \div Length[f]) + 1) * Length[f]
      BY <2>1, <3>2, DivMod
    <3> QED
      BY <3>1, <3>3 DEF Ends
  <2> QED
    BY <2>2
<1>12. DateInv'
  <2>1. ASSUME NEW f \in Fields
        PROVE  /\ Date_Time'[f].set <= nt[f].set
               /\ Date_Time'[f].set = nt[f].set => Date_Time'[f].n <= nt[f].n
               /\ Date_Time'[f].set = nt[f].set => nt[f].n <= Date_Time'[f].n + Lead(f)
               /\ Date_Time'[f].set = sets => rtc - age'.date < Ends(f, Date_Time'[f].n)
               /\ Copied(f) \/ f \in Pieces[copied + 1] => Date_Time'[f] = nt[f]
    <3>1. CASE Date_Time'[f] = nt[f]
      <4>1. \A n \in Nat : Ends(f, n) \in Int
        BY LengthFacts DEF Ends
      <4>2. nt[f].set = sets => rtc - age'.date < Ends(f, nt[f].n)
        BY SMTT(30), <1>3, <1>4, <1>11, <4>1
      <4>3. Lead(f) \in Nat
        BY LengthFacts DEF Lead
      <4> QED
        BY <1>3, <3>1, <4>2, <4>3
    <3>2. CASE Date_Time'[f] # nt[f]
      <4>1. Date_Time'[f] = Date_Time[f] /\ f \notin Pieces[copied + 1] /\ ~Copied(f)
        BY <1>5, <1>7, <3>2
      <4>2. copied' # Len(Pieces)
        <5>1. copied' = Len(Pieces) => \E i \in 1..copied' : f \in Pieces[i]
          <6>1. UNION {Pieces[i] : i \in DOMAIN Pieces} = Fields /\ DOMAIN Pieces = 1..Len(Pieces)
            BY ScheduleAssumption
          <6> QED
            BY <6>1
        <5> QED
          BY <1>6, <4>1, <5>1
      <4> QED
        BY <1>4, <4>1, <4>2 DEF IInv, DateInv
    <3> QED
      BY <3>1, <3>2
  <2> QED
    BY <1>1, <1>6, <2>1 DEF DateInv, Copied, Ends, Lead
<1>13. OldInv'
  <2>1. ASSUME NEW f \in Fields, pc = "run"
        PROVE  /\ time_old[f].set <= Date_Time'[f].set
               /\ time_old[f].set = Date_Time'[f].set =>
                    time_old[f].n <= Date_Time'[f].n /\ Date_Time'[f].n <= time_old[f].n + Lead(f)
    <3>1. /\ time_old[f].set <= Date_Time[f].set /\ Date_Time[f].set <= nt[f].set
          /\ time_old[f].set = Date_Time[f].set =>
               time_old[f].n <= Date_Time[f].n /\ Date_Time[f].n <= time_old[f].n + Lead(f)
          /\ time_old[f].set = nt[f].set => nt[f].n <= time_old[f].n + Lead(f)
          /\ Date_Time[f].set = nt[f].set => Date_Time[f].n <= nt[f].n
      BY <2>1 DEF IInv, OldInv, DateInv
    <3>2. Date_Time'[f] = nt[f] \/ Date_Time'[f] = Date_Time[f]
      BY <1>5
    <3> QED
      BY <1>3, <3>1, <3>2
  <2> QED
    BY <1>1, <1>4, <2>1 DEF IInv, OldInv, Ends, Lead
<1>14. OrderInv'
  <2>1. "min" \in Fields /\ ToTheMinute \subseteq Fields
    BY DEF Fields, ToTheMinute
  <2>2. ASSUME sets = 0, ~Copied("min"), "min" \notin Pieces[copied + 1]
        PROVE  \E t \in Nat :
                 /\ Date_Time'["min"].n = t \div MinLen
                 /\ \A f \in ToTheMinute : Date_Time'[f] = nt[f] \/ Date_Time'[f].n = t \div Length[f]
    <3>1. PICK t \in Nat :
            /\ Date_Time["min"].n = t \div MinLen
            /\ \A f \in ToTheMinute : Date_Time[f] = nt[f] \/ Date_Time[f].n = t \div Length[f]
      BY <2>2 DEF IInv, OrderInv
    <3>2. Date_Time'["min"] = Date_Time["min"]
      BY <1>5, <2>1, <2>2
    <3>3. \A f \in ToTheMinute : Date_Time'[f] = nt[f] \/ Date_Time'[f] = Date_Time[f]
      BY <1>5, <2>1
    <3> QED
      BY <3>1, <3>2, <3>3
  <2> QED
    BY <1>1, <1>6, <2>1, <2>2 DEF OrderInv, Copied
<1>15. StampInv'
  BY <1>1 DEF IInv, StampInv
<1> QED
  BY <1>8, <1>9, <1>10, <1>12, <1>13, <1>14, <1>15 DEF IInv

\* What shows the same as before, in the same setting of the clock, is the same.
LEMMA Unchanged ==
  ASSUME IInv, pc = "run", NEW f \in Fields, ~Changed(f), time_old[f].set = Date_Time[f].set
  PROVE  time_old[f].n = Date_Time[f].n
<1> DEFINE a == time_old[f].n
           b == Date_Time[f].n
<1>1. a \in Nat /\ b \in Nat
  BY TypeFacts DEF IInv
<1>2. a <= b /\ b <= a + Lead(f)
  BY DEF IInv, OldInv
<1>3. IF f = "year" THEN a = b
      ELSE a % (Length[Larger[f]] \div Length[f]) = b % (Length[Larger[f]] \div Length[f])
  BY DEF Changed, Shown
<1> HIDE DEF a, b
<1>4. CASE f = "year"
  BY <1>3, <1>4 DEF a, b
<1>5. CASE f # "year"
  <2>1. PICK K \in Nat \ {0, 1} : /\ Length[Larger[f]] = Length[f] * K
                                  /\ Length[Larger[f]] \div Length[f] = K
    BY <1>5, LengthFacts
  <2>2. Lead(f) < K /\ Lead(f) \in Nat
    <3>1. CASE f = "sec"
      <4>1. Larger[f] = "min" /\ Length[f] = 1 /\ MaxLag < Length["min"] /\ MaxLag \in Nat
        BY <3>1, LengthFacts DEF Larger, ToTheMinute, Fields
      <4> QED
        BY <2>1, <3>1, <4>1 DEF Lead
    <3>2. CASE f # "sec"
      BY <2>1, <3>2 DEF Lead
    <3> QED
      BY <3>1, <3>2
  <2>3. b - a < K /\ K \in Nat \ {0}
    BY <1>1, <1>2, <2>1, <2>2
  <2>4. a % K = b % K
    BY <1>3, <1>5, <2>1
  <2>5. a = b
    BY <1>1, <1>2, <2>3, <2>4, SameShown
  <2> QED
    BY <2>5 DEF a, b
<1> QED
  BY <1>4, <1>5

\* What a scan closes is the unit after the one that was open.
LEMMA ScanCloses ==
  ASSUME IInv, pc = "run", NEW f \in ToTheMinute, Changed(f), time_old[f].set = Date_Time[f].set
  PROVE  Date_Time[f].n = time_old[f].n + 1
<1>1. f \in Fields /\ f # "sec"
  BY DEF ToTheMinute
<1>2. time_old[f].n \in Nat /\ Date_Time[f].n \in Nat
  BY <1>1, TypeFacts DEF IInv
<1>3. time_old[f].n <= Date_Time[f].n /\ Date_Time[f].n <= time_old[f].n + 1
  BY <1>1 DEF IInv, OldInv, Lead
<1>4. time_old[f].n # Date_Time[f].n
  BY DEF Changed, Shown
<1> QED
  BY <1>2, <1>3, <1>4

LEMMA AwsStartInv == IInv /\ AwsStart => IInv'
<1> SUFFICES ASSUME IInv, AwsStart PROVE IInv'
  OBVIOUS
<1>1. /\ pc = "delay" /\ pc' = "run" /\ time_old' = Date_Time /\ age' = [age EXCEPT !.old = age.date]
      /\ UNCHANGED <<rtc, Date_Time, nt, copied, records, sets, resets>>
  BY DEF AwsStart
<1>2. TypeOK
  BY DEF IInv
<1>3. /\ MaxLag \in Nat \ {0} /\ age.nt \in 0..MaxLag /\ age.date \in 0..MaxLag
      /\ \A f \in Fields : Date_Time[f].n \in Nat /\ nt[f].n \in Nat
  BY <1>2, TypeFacts, LengthFacts
<1>4. /\ age'.nt = age.nt /\ age'.date = age.date /\ age'.old = age.date
      /\ age' \in [{"nt", "date", "old"} -> 0..MaxLag]
  BY <1>1, <1>2, <1>3 DEF TypeOK
<1>5. TypeOK'
  BY <1>1, <1>2, <1>4 DEF TypeOK
<1>6. ReadInv' /\ OrderInv'
  BY <1>1, <1>4 DEF IInv, ReadInv, OrderInv, Copied
<1>7. AgeInv'
  BY <1>3, <1>4 DEF IInv, AgeInv
<1>8. DateInv'
  BY <1>1, <1>4 DEF IInv, DateInv, Copied, Ends
<1>9. OldInv'
  <2>1. ASSUME NEW f \in Fields
        PROVE  /\ Date_Time[f].n <= Date_Time[f].n /\ Date_Time[f].n <= Date_Time[f].n + Lead(f)
               /\ Date_Time[f].set <= Date_Time[f].set
               /\ Date_Time[f].set = nt[f].set => nt[f].n <= Date_Time[f].n + Lead(f)
               /\ Date_Time[f].set = sets => rtc - age.date < Ends(f, Date_Time[f].n)
    <3>1. Lead(f) \in Nat \ {0} /\ Date_Time[f].n \in Nat /\ Date_Time[f].set \in Nat
      BY <1>2, <1>3, TypeFacts DEF Lead
    <3> QED
      BY <3>1 DEF IInv, DateInv
  <2> QED
    BY <1>1, <1>4, <2>1 DEF OldInv, Ends, Lead
<1>10. StampInv'
  BY <1>1 DEF IInv, StampInv
<1> QED
  BY <1>5, <1>6, <1>7, <1>8, <1>9, <1>10 DEF IInv

LEMMA ScanInv == IInv /\ Scan => IInv'
<1> SUFFICES ASSUME IInv, Scan PROVE IInv'
  OBVIOUS
<1>1. /\ pc = "run" /\ age' = [age EXCEPT !.old = age.date]
      /\ time_old' = [f \in Fields |-> IF Changed(f) THEN Date_Time[f] ELSE time_old[f]]
      /\ records' = IF Changed("min") THEN <<[f \in ToTheMinute |-> Date_Time[f]]>> ELSE records
      /\ UNCHANGED <<rtc, Date_Time, nt, copied, pc, sets, resets>>
  BY DEF Scan, Remembered
<1>2. TypeOK
  BY DEF IInv
<1>3. /\ MaxLag \in Nat \ {0} /\ age.nt \in 0..MaxLag /\ age.date \in 0..MaxLag /\ sets \in Nat
      /\ \A f \in Fields : /\ Date_Time[f].n \in Nat /\ nt[f].n \in Nat /\ time_old[f].n \in Nat
                           /\ Date_Time[f].set \in Nat /\ nt[f].set \in Nat /\ time_old[f].set \in Nat
  BY <1>2, TypeFacts, LengthFacts
<1>4. /\ age'.nt = age.nt /\ age'.date = age.date /\ age'.old = age.date
      /\ age' \in [{"nt", "date", "old"} -> 0..MaxLag]
  BY <1>1, <1>2, <1>3 DEF TypeOK
<1>5. \A f \in Fields : time_old'[f] = IF Changed(f) THEN Date_Time[f] ELSE time_old[f]
  BY <1>1
<1>6. "min" \in Fields /\ "min" \in ToTheMinute /\ ToTheMinute \subseteq Fields
  BY DEF Fields, ToTheMinute
<1>7. TypeOK'
  <2>1. time_old' \in [Fields -> Values]
    BY <1>1, <1>2 DEF TypeOK
  <2>2. records' = <<>> \/ records'[1] \in [ToTheMinute -> Values]
    <3>1. [f \in ToTheMinute |-> Date_Time[f]] \in [ToTheMinute -> Values]
      BY <1>2, <1>6 DEF TypeOK
    <3>2. CASE Changed("min")
      BY <1>1, <3>1, <3>2
    <3>3. CASE ~Changed("min")
      BY <1>1, <1>2, <3>3 DEF TypeOK
    <3> QED
      BY <3>2, <3>3
  <2> QED
    BY <1>1, <1>2, <1>4, <2>1, <2>2 DEF TypeOK
<1>8. ReadInv' /\ OrderInv'
  BY <1>1, <1>4 DEF IInv, ReadInv, OrderInv, Copied
<1>9. AgeInv'
  BY <1>3, <1>4 DEF IInv, AgeInv
<1>10. DateInv'
  BY <1>1, <1>4 DEF IInv, DateInv, Copied, Ends, Lead
<1>11. OldInv'
  <2>1. ASSUME NEW f \in Fields
        PROVE  /\ time_old'[f].set <= Date_Time[f].set
               /\ time_old'[f].set = Date_Time[f].set =>
                    time_old'[f].n <= Date_Time[f].n /\ Date_Time[f].n <= time_old'[f].n + Lead(f)
               /\ time_old'[f].set = nt[f].set => nt[f].n <= time_old'[f].n + Lead(f)
               /\ time_old'[f].set = sets => rtc - age.date < Ends(f, time_old'[f].n)
    <3>1. CASE Changed(f)
      <4>1. Lead(f) \in Nat
        BY <1>3 DEF Lead
      <4>2. /\ Date_Time[f].set = nt[f].set => nt[f].n <= Date_Time[f].n + Lead(f)
            /\ Date_Time[f].set = sets => rtc - age.date < Ends(f, Date_Time[f].n)
        BY DEF IInv, DateInv
      <4> QED
        BY <1>3, <1>5, <3>1, <4>1, <4>2
    <3>2. CASE ~Changed(f)
      <4>1. time_old'[f] = time_old[f]
        BY <1>5, <3>2
      <4>2. /\ time_old[f].set <= Date_Time[f].set
            /\ time_old[f].set = Date_Time[f].set =>
                 time_old[f].n <= Date_Time[f].n /\ Date_Time[f].n <= time_old[f].n + Lead(f)
            /\ time_old[f].set = nt[f].set => nt[f].n <= time_old[f].n + Lead(f)
        BY <1>1 DEF IInv, OldInv
      <4>3. time_old[f].set = sets => rtc - age.date < Ends(f, time_old[f].n)
        <5>1. "sec" \in Fields /\ Date_Time[f].set <= nt[f].set /\ nt[f].set <= sets
          BY DEF IInv, DateInv, ReadInv, Fields
        <5>2. time_old[f].set = sets => Date_Time[f].set = sets
          BY <1>3, <4>2, <5>1
        <5>3. time_old[f].set = sets => time_old[f].n = Date_Time[f].n
          BY <1>1, <3>2, <5>2, Unchanged
        <5>4. Date_Time[f].set = sets => rtc - age.date < Ends(f, Date_Time[f].n)
          BY DEF IInv, DateInv
        <5> QED
          BY <5>2, <5>3, <5>4
      <4> QED
        BY <4>1, <4>2, <4>3
    <3> QED
      BY <3>1, <3>2
  <2> QED
    BY <1>1, <1>4, <2>1 DEF OldInv, Ends, Lead
<1>12. StampInv'
  <2>1. CASE Changed("min")
    <3>1. records'[1].min = Date_Time["min"]
      BY <1>1, <1>6, <2>1
    <3>2. time_old'["min"] = Date_Time["min"]
      BY <1>5, <1>6, <2>1
    <3> QED
      BY <1>1, <3>1, <3>2 DEF StampInv
  <2>2. CASE ~Changed("min")
    <3>1. time_old'["min"] = time_old["min"] /\ records' = records
      BY <1>1, <1>5, <1>6, <2>2
    <3> QED
      BY <1>1, <3>1 DEF IInv, StampInv
  <2> QED
    BY <2>1, <2>2
<1> QED
  BY <1>7, <1>8, <1>9, <1>10, <1>11, <1>12 DEF IInv

LEMMA NextInv == IInv /\ [Next]_vars => IInv'
BY SecondInv, SetTimeInv, ReadRtcInv, CopyPieceInv, AwsStartInv, ScanInv, ResetInv, StutterInv
   DEF Next, SystemTask, AwsTask

-----------------------------------------------------------------------------
\* A record is stamped with one date: if the minute is of the new reading, all
\* before it is; and if not, the new reading is of the same minute.
LEMMA OneStamp ==
  ASSUME IInv, Scan, Changed("min"), sets = 0,
         \A i \in DOMAIN Pieces : "min" \in Pieces[i] =>
             \A f \in ToTheMinute : \E j \in 1..i : f \in Pieces[j]
  PROVE  OneDate([f \in ToTheMinute |-> Date_Time[f]], ToTheMinute)
<1> DEFINE d == [f \in ToTheMinute |-> Date_Time[f]]
<1>1. "min" \in Fields /\ "sec" \in Fields /\ ToTheMinute \subseteq Fields /\ pc = "run"
  BY DEF Fields, ToTheMinute, Scan
<1>2. \A f \in Fields : /\ Date_Time[f].set \in Nat /\ nt[f].set \in Nat /\ time_old[f].set \in Nat
                        /\ Date_Time[f].n \in Nat /\ nt[f].n \in Nat /\ time_old[f].n \in Nat
  BY TypeFacts DEF IInv
<1>3. \A f \in Fields : Date_Time[f].set = 0 /\ nt[f].set = 0 /\ time_old[f].set = 0
  <2>1. \A f \in Fields : /\ nt[f].set <= 0 /\ Date_Time[f].set <= nt[f].set
                          /\ time_old[f].set <= Date_Time[f].set
    BY <1>1 DEF IInv, ReadInv, DateInv, OldInv
  <2> QED
    BY <1>2, <2>1
\* It is enough that the fields are those of one second.
<1>4. ASSUME NEW t \in Nat, \A f \in ToTheMinute : Date_Time[f].n = t \div Length[f]
      PROVE  OneDate(d, ToTheMinute)
  <2>1. \A f \in ToTheMinute : d[f].n = t \div Length[f] /\ d[f].set = 0
    BY <1>1, <1>3, <1>4
  <2> HIDE DEF d
  <2>2. ASSUME NEW f \in ToTheMinute \ {"year"}
        PROVE  d[Larger[f]].n = d[f].n \div (Length[Larger[f]] \div Length[f])
    <3>1. PICK K \in Nat \ {0, 1} : /\ Length[Larger[f]] = Length[f] * K
                                    /\ Length[Larger[f]] \div Length[f] = K
      BY <1>1, LengthFacts
    <3>2. Larger[f] \in ToTheMinute /\ Length[f] \in Nat \ {0} /\ K \in Nat \ {0}
      BY <1>1, LengthFacts
    <3>3. (t \div Length[f]) \div K = t \div (Length[f] * K)
      BY <3>2, DivDiv
    <3> QED
      BY <2>1, <3>1, <3>2, <3>3
  <2> QED
    BY <2>1, <2>2 DEF OneDate
<1>5. CASE Copied("min")
  <2>1. \A f \in ToTheMinute : Copied(f)
    <3>1. PICK i \in 1..copied : "min" \in Pieces[i]
      BY <1>5 DEF Copied
    <3>2. copied \in Nat /\ copied <= Len(Pieces) /\ DOMAIN Pieces = 1..Len(Pieces) /\ Len(Pieces) \in Nat
      BY ScheduleAssumption DEF IInv, TypeOK
    <3>3. i \in DOMAIN Pieces /\ 1..i \subseteq 1..copied
      BY <3>1, <3>2
    <3> QED
      BY <3>1, <3>3 DEF Copied
  <2>2. \A f \in ToTheMinute : Date_Time[f].n = nt["sec"].n \div Length[f]
    BY <1>1, <2>1 DEF IInv, DateInv, ReadInv
  <2> QED
    BY <1>1, <1>2, <1>4, <2>2
<1>6. CASE ~Copied("min")
  <2> DEFINE u == nt["sec"].n
  <2>1. u \in Nat /\ \A f \in Fields : nt[f].n = u \div Length[f]
    BY <1>1, <1>2 DEF IInv, ReadInv
  <2>2. PICK t \in Nat :
          /\ Date_Time["min"].n = t \div MinLen
          /\ \A f \in ToTheMinute : Date_Time[f] = nt[f] \/ Date_Time[f].n = t \div Length[f]
    BY <1>6 DEF IInv, OrderInv
  <2>3. nt["min"].n = Date_Time["min"].n
    <3>1. Date_Time["min"].n = time_old["min"].n + 1
      BY <1>1, <1>3, ScanCloses DEF ToTheMinute
    <3>2. Date_Time["min"].n <= nt["min"].n /\ nt["min"].n <= time_old["min"].n + 1
      BY <1>1, <1>3 DEF IInv, DateInv, OldInv, Lead
    <3> QED
      BY <1>1, <1>2, <3>1, <3>2
  <2> HIDE DEF u
  <2>4. u \div Length["min"] = t \div Length["min"]
    BY <1>1, <2>1, <2>2, <2>3, LengthFacts
  <2>5. ASSUME NEW f \in ToTheMinute \ {"year"}, u \div Length[f] = t \div Length[f]
        PROVE  u \div Length[Larger[f]] = t \div Length[Larger[f]]
    <3>1. PICK K \in Nat \ {0, 1} : /\ Length[Larger[f]] = Length[f] * K
                                    /\ Length[Larger[f]] \div Length[f] = K
      BY <1>1, LengthFacts
    <3>2. Length[f] \in Nat \ {0} /\ K \in Nat \ {0}
      BY <1>1, LengthFacts
    <3>3. (u \div Length[f]) \div K = u \div (Length[f] * K)
          /\ (t \div Length[f]) \div K = t \div (Length[f] * K)
      BY <2>1, <3>2, DivDiv
    <3> QED
      BY <2>5, <3>1, <3>3
  <2>6. \A f \in ToTheMinute : u \div Length[f] = t \div Length[f]
    <3>1. /\ Larger["min"] = "hour" /\ Larger["hour"] = "day"
          /\ Larger["day"] = "month" /\ Larger["month"] = "year"
      BY DEF Larger
    <3>2. ToTheMinute = {"min", "hour", "day", "month", "year"}
      BY DEF ToTheMinute, Fields
    <3>3. u \div Length["hour"] = t \div Length["hour"]
      BY <2>4, <2>5, <3>1, <3>2
    <3>4. u \div Length["day"] = t \div Length["day"]
      BY <2>5, <3>1, <3>2, <3>3
    <3>5. u \div Length["month"] = t \div Length["month"]
      BY <2>5, <3>1, <3>2, <3>4
    <3>6. u \div Length["year"] = t \div Length["year"]
      BY <2>5, <3>1, <3>2, <3>5
    <3> QED
      BY <2>4, <3>2, <3>3, <3>4, <3>5, <3>6
  <2>7. \A f \in ToTheMinute : Date_Time[f].n = t \div Length[f]
    BY <1>1, <2>1, <2>2, <2>6
  <2> QED
    BY <1>4, <2>7
<1> QED
  BY <1>5, <1>6

-----------------------------------------------------------------------------
(***************************************************************************)
(* The inductive invariant: how far the RTC, nt, each field of Date_Time   *)
(* and time_old may be apart, in seconds and in units of the field.        *)
(***************************************************************************)
THEOREM ScheduleInvariance == Spec => []IInv
<1>1. Init => IInv
  BY InitInv
<1>2. IInv /\ [Next]_vars => IInv'
  BY NextInv
<1> QED
  BY <1>1, <1>2, PTL DEF Spec

(***************************************************************************)
(* Every field is a unit of a second the clock has shown, and nothing that *)
(* a task works with is older than a pass takes.                           *)
(***************************************************************************)
THEOREM ScheduleTypeCorrect == Spec => []TypeOK
<1>1. IInv => TypeOK
  BY DEF IInv
<1> QED
  BY <1>1, ScheduleInvariance, PTL

(***************************************************************************)
(* schedule_process closes a period once at each of its ends, wherever the *)
(* unlocked copy into Date_Time is cut and however the clock is set, for   *)
(* periods of any lengths of which each is a multiple of the next.         *)
(***************************************************************************)
THEOREM ClosedOnceHolds == Spec => ClosedOnce
<1>1. ASSUME IInv, [Next]_vars
      PROVE  [ (pc = "run" /\ pc' = "run") =>
          \A f \in ToTheMinute :
              (time_old'[f] # time_old[f] /\ time_old'[f].set = time_old[f].set)
                  => time_old'[f].n = time_old[f].n + 1 ]_vars
  <2>1. SUFFICES ASSUME pc = "run", pc' = "run", NEW f \in ToTheMinute,
                        time_old'[f] # time_old[f], time_old'[f].set = time_old[f].set
                 PROVE  time_old'[f].n = time_old[f].n + 1
    OBVIOUS
  <2>2. Scan
    BY <1>1, <2>1 DEF Next, Second, SetTime, SystemTask, ReadRtc, CopyPiece, AwsTask, AwsStart, Reset, vars
  <2>3. Changed(f) /\ time_old'[f] = Date_Time[f]
    BY <2>1, <2>2 DEF Scan, Remembered, ToTheMinute
  <2> QED
    BY <1>1, <2>1, <2>3, ScanCloses
<1> QED
  BY <1>1, ScheduleInvariance, PTL DEF Spec, ClosedOnce

(***************************************************************************)
(* Once a complete Date_Time has been scanned time_old is one date again,  *)
(* whatever was read half written before.                                  *)
(***************************************************************************)
THEOREM SettledHolds == Spec => []Settled
<1>1. ASSUME IInv, pc = "run", copied = Len(Pieces), sets = 0, \A f \in Fields : ~Changed(f)
      PROVE  OneDate(time_old, Fields)
  <2>1. "sec" \in Fields /\ ToTheMinute \subseteq Fields
    BY DEF Fields, ToTheMinute
  <2>2. \A f \in Fields : Date_Time[f] = nt[f]
    BY <1>1, AllCopied DEF IInv, DateInv
  <2>3. \A f \in Fields : /\ Date_Time[f].set \in Nat /\ nt[f].set \in Nat /\ time_old[f].set \in Nat
                          /\ nt[f].n \in Nat
    BY <1>1, TypeFacts DEF IInv
  <2>4. \A f \in Fields : nt[f].set = 0 /\ time_old[f].set = 0
    <3>1. \A f \in Fields : /\ nt[f].set <= 0 /\ Date_Time[f].set <= nt[f].set
                            /\ time_old[f].set <= Date_Time[f].set
      BY <1>1, <2>1 DEF IInv, ReadInv, DateInv, OldInv
    <3> QED
      BY <2>3, <3>1
  <2>5. \A f \in Fields : time_old[f].n = nt[f].n
    BY <1>1, <2>2, <2>4, Unchanged
  <2> DEFINE t == nt["sec"].n
  <2>6. t \in Nat /\ \A f \in Fields : time_old[f].n = t \div Length[f]
    BY <1>1, <2>1, <2>3, <2>5 DEF IInv, ReadInv
  <2> HIDE DEF t
  <2>7. ASSUME NEW f \in Fields \ {"year"}
        PROVE  time_old[Larger[f]].n = time_old[f].n \div (Length[Larger[f]] \div Length[f])
    <3>1. PICK K \in Nat \ {0, 1} : /\ Length[Larger[f]] = Length[f] * K
                                    /\ Length[Larger[f]] \div Length[f] = K
      BY LengthFacts
    <3>2. Larger[f] \in Fields /\ Length[f] \in Nat \ {0} /\ K \in Nat \ {0}
      BY <2>1, LengthFacts
    <3>3. (t \div Length[f]) \div K = t \div (Length[f] * K)
      BY <2>6, <3>2, DivDiv
    <3> QED
      BY <2>6, <3>1, <3>2, <3>3
  <2> QED
    BY <2>4, <2>7 DEF OneDate
<1>2. IInv => Settled
  BY <1>1 DEF Settled
<1> QED
  BY <1>2, ScheduleInvariance, PTL

(***************************************************************************)
(* Every minute record is stamped with a date that exists and follows the  *)
(* stamp before, because the fields above the minute are stored no later   *)
(* than it: the order of DATE_TIME_BUF.                                    *)
(***************************************************************************)
THEOREM StampsInOrderHolds ==
  ASSUME \A i \in DOMAIN Pieces : "min" \in Pieces[i] =>
             \A f \in ToTheMinute : \E j \in 1..i : f \in Pieces[j]
  PROVE  Spec => StampsInOrder
<1>1. ASSUME IInv, [Next]_vars
      PROVE  [ records' \notin {<<>>, records} =>
          /\ sets = 0 => OneDate(records'[1], ToTheMinute)
          /\ (records # <<>> /\ records'[1].min.set = records[1].min.set)
                 => records'[1].min.n = records[1].min.n + 1 ]_vars
  <2>1. SUFFICES ASSUME records' \notin {<<>>, records}
                 PROVE  /\ sets = 0 => OneDate(records'[1], ToTheMinute)
                        /\ (records # <<>> /\ records'[1].min.set = records[1].min.set)
                              => records'[1].min.n = records[1].min.n + 1
    OBVIOUS
  <2>2. Scan
    BY <1>1, <2>1 DEF Next, Second, SetTime, SystemTask, ReadRtc, CopyPiece, AwsTask, AwsStart, Reset, vars
  <2>3. Changed("min") /\ records' = <<[f \in ToTheMinute |-> Date_Time[f]]>> /\ pc = "run"
    BY <2>1, <2>2 DEF Scan
  <2>4. records'[1] = [f \in ToTheMinute |-> Date_Time[f]]
    BY <2>3
  <2>5. "min" \in ToTheMinute /\ "min" \in Fields
    BY DEF ToTheMinute, Fields
  <2>6. records'[1].min = Date_Time["min"] /\ (records # <<>> => records[1].min = time_old["min"])
    BY <1>1, <2>4, <2>5 DEF IInv, StampInv
  <2>7. sets = 0 => OneDate(records'[1], ToTheMinute)
    BY <1>1, <2>2, <2>3, <2>4, OneStamp
  <2>8. Date_Time["min"].set = time_old["min"].set => Date_Time["min"].n = time_old["min"].n + 1
    BY <1>1, <2>3, <2>5, ScanCloses
  <2> QED
    BY <2>6, <2>7, <2>8
<1> QED
  BY <1>1, ScheduleInvariance, PTL DEF Spec, StampsInOrder
===============================================================================
