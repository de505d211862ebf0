------------------------------ MODULE Schedule ------------------------------
(***************************************************************************)
(* How the station's periods are closed:                                    *)
(*                                                                          *)
(*   RTC chip --rv8803_read--> Date_Time, written by systemTask             *)
(*   Date_Time --> ct of DUALPORT_TASK --schedule_process--> SecProcess,    *)
(*   MinProcess (a record per minute), HourProcess, ..., YearProcess        *)
(*                                                                          *)
(* rv8803.c, task_system.c, task_aws.c and schedule.c.  Date_Time is not    *)
(* locked.  rv8803_read assigns its ten bytes at once, "*ct = nt", which is *)
(* several stores in order of address; systemTask has a low priority, and   *)
(* DUALPORT_TASK, woken by a measurement, may read Date_Time between two of *)
(* them.  The other way round it cannot happen.                             *)
(*                                                                          *)
(* A field of a date is kept as the number of its units since year 0 and    *)
(* the clock setting it stems from; the code sees only Shown of it.         *)
(***************************************************************************)
EXTENDS Integers, Sequences, FiniteSets

CONSTANTS
    MinLen, HourLen, DayLen, MonthLen, YearLen,   \* in seconds
    Pieces,       \* DATE_TIME_BUF as it is copied          util_time.h:11-21
    MaxLag,       \* seconds a pass of systemTask and the next scan may take
    StartAt, LastSecond,            \* bounds: the clock runs between them
    MaxSets, MaxResets              \* bounds

Fields == {"year", "month", "day", "hour", "min", "sec"}

Length == [sec |-> 1, min |-> MinLen, hour |-> HourLen, day |-> DayLen,
           month |-> MonthLen, year |-> YearLen]

Larger == [sec |-> "min", min |-> "hour", hour |-> "day", day |-> "month",
           month |-> "year"]

\* A pass takes less than a minute: file operations fail within seconds.
ASSUME ScheduleAssumption ==
    /\ {MinLen, HourLen, DayLen, MonthLen, YearLen} \subseteq Nat \ {0}
    /\ \A f \in Fields \ {"year"} : /\ Length[Larger[f]] % Length[f] = 0
                                    /\ Length[Larger[f]] > Length[f]
    /\ Pieces \in Seq(SUBSET Fields) /\ UNION {Pieces[i] : i \in DOMAIN Pieces} = Fields
    /\ MaxLag \in Nat \ {0} /\ MaxLag < MinLen
    /\ {StartAt, LastSecond, MaxSets, MaxResets} \subseteq Nat /\ StartAt <= LastSecond

VARIABLES
    rtc,          \* seconds in the RTC chip
    Date_Time,
    nt,           \* rv8803_read's nt
    copied,       \* pieces of it that *ct = nt has stored; Len(Pieces) when done
    pc,           \* DUALPORT_TASK: in osDelay(2000), or scanning
    time_old,
    records,      \* the date of the last minute record, if there is one
    \* History, not in the program:
    sets,         \* times the clock has been set
    age,          \* seconds since nt, Date_Time and time_old were read
    resets

vars == <<rtc, Date_Time, nt, copied, pc, time_old, records, sets, age, resets>>

-----------------------------------------------------------------------------
(* Dates. *)

\* Slip: read while the chip carries, the date of a second not yet begun.
DateOfNext(t) == [f \in Fields |-> [set |-> sets, n |-> (t + 1) \div Length[f]]]

\* The date of second t.
DateOf(t) == [f \in Fields |-> [set |-> sets, n |-> t \div Length[f]]]

\* What the code sees of a field.
Shown(f, v) == IF f = "year" THEN v.n
               ELSE v.n % (Length[Larger[f]] \div Length[f])

\* The parts down to f are those of one second.
OneDate(d, fs) ==
    /\ \A f, g \in fs : d[f].set = d[g].set
    /\ \A f \in fs \ {"year"} :
         Larger[f] \in fs =>
             d[Larger[f]].n = d[f].n \div (Length[Larger[f]] \div Length[f])

ToTheMinute == Fields \ {"sec"}

Init == /\ rtc = StartAt
        /\ sets = 0
        /\ Date_Time = DateOf(rtc) /\ nt = DateOf(rtc) /\ copied = Len(Pieces)
        /\ pc = "delay" /\ time_old = DateOf(rtc)
        /\ records = <<>>
        /\ age = [nt |-> 0, date |-> 0, old |-> 0]
        /\ resets = 0

-----------------------------------------------------------------------------
(* The RTC chip. *)

\* Each task is scheduled often enough.
Second ==
    /\ rtc < LastSecond
    /\ IF pc = "run" THEN age.old < MaxLag ELSE age.date < MaxLag
    /\ rtc' = rtc + 1
    /\ age' = [x \in DOMAIN age |-> IF age[x] < MaxLag THEN age[x] + 1 ELSE age[x]]
    /\ UNCHANGED <<Date_Time, nt, copied, pc, time_old, records, sets, resets>>

Midnight(t) == t - (t % DayLen)
Clock(t) == t % DayLen

\* What the chip may show after it was set to t: rv8803_set_time writes the
\* date and then the clock, and ignores errors.  The old clock may pass midnight
\* between the two; only the date, only the clock or neither may arrive.
SetTo(t) == {t, Midnight(t) + Clock(rtc), Midnight(rtc) + Clock(t), rtc}
            \cup (IF Clock(rtc) = DayLen - 1 THEN {t + DayLen} ELSE {})

\* drv_rtc_set, from the two menus and the AT command.
SetTime ==
    /\ sets < MaxSets /\ sets' = sets + 1
    /\ \E t \in StartAt .. LastSecond : rtc' \in SetTo(t) \cap (0 .. LastSecond)
    /\ UNCHANGED <<Date_Time, nt, copied, pc, time_old, records, age, resets>>

-----------------------------------------------------------------------------
(* systemTask (and the console's menu, which waits for the same semaphore). *)

\* rv8803_read has read the chip; a failed read leaves Date_Time alone.
ReadRtc ==
    /\ copied = Len(Pieces)
    /\ nt' = DateOf(rtc)
    /\ copied' = 0
    /\ age' = [age EXCEPT !.nt = 0]
    /\ UNCHANGED <<rtc, Date_Time, pc, time_old, records, sets, resets>>

\* Slip: the struct is copied downwards.
NextPieceDown == Pieces[Len(Pieces) - copied]

NextPiece == Pieces[copied + 1]

\* *ct = nt
CopyPiece ==
    /\ copied < Len(Pieces)
    /\ Date_Time' = [f \in Fields |-> IF f \in NextPiece THEN nt[f] ELSE Date_Time[f]]
    /\ copied' = copied + 1
    /\ age' = IF copied' = Len(Pieces) THEN [age EXCEPT !.date = age.nt] ELSE age
    /\ UNCHANGED <<rtc, nt, pc, time_old, records, sets, resets>>

-----------------------------------------------------------------------------
(* DUALPORT_TASK. *)

\* time_old = Date_Time
AwsStart ==
    /\ pc = "delay"
    /\ time_old' = Date_Time
    /\ age' = [age EXCEPT !.old = age.date]
    /\ pc' = "run"
    /\ UNCHANGED <<rtc, Date_Time, nt, copied, records, sets, resets>>

\* Slip: only a greater value is a new one.
ChangedUpwards(f) == Shown(f, Date_Time[f]) > Shown(f, time_old[f])

\* Slip: only in the second a minute begins with, which a scan may miss.
ChangedAtZero(f) == /\ Shown("sec", Date_Time["sec"]) = 0
                    /\ Shown(f, Date_Time[f]) # Shown(f, time_old[f])

\* pDate->Min != pOldDate->Min, and so on.
Changed(f) == Shown(f, Date_Time[f]) # Shown(f, time_old[f])

\* Slip: one field is enough, the others are of the same date.
RememberedByMinute(f) == IF Changed("min") THEN Date_Time[f] ELSE time_old[f]

\* pOldDate->Min = pDate->Min after MinProcess, and so on.
Remembered(f) == IF Changed(f) THEN Date_Time[f] ELSE time_old[f]

\* schedule_process: each period whose field has changed is closed; MinProcess
\* queues the record of the minute with the date it is given.
Scan ==
    /\ pc = "run"
    /\ time_old' = [f \in Fields |-> Remembered(f)]
    /\ records' = IF Changed("min") THEN <<[f \in ToTheMinute |-> Date_Time[f]]>>
                                    ELSE records
    /\ age' = [age EXCEPT !.old = age.date]
    /\ UNCHANGED <<rtc, Date_Time, nt, copied, pc, sets, resets>>

\* A reset: drv_init reads the RTC into Date_Time before the tasks start.  An
\* RTC that has lost its backup supply is set to the beginning of its time.
Reset ==
    /\ resets < MaxResets /\ resets' = resets + 1
    /\ \/ UNCHANGED <<rtc, sets>>
       \/ sets < MaxSets /\ sets' = sets + 1 /\ rtc' = 0
    /\ Date_Time' = [f \in Fields |-> [set |-> sets', n |-> rtc' \div Length[f]]]
    /\ nt' = Date_Time' /\ copied' = Len(Pieces)
    /\ pc' = "delay" /\ time_old' = Date_Time' /\ records' = <<>>
    /\ age' = [nt |-> 0, date |-> 0, old |-> 0]

SystemTask == ReadRtc \/ CopyPiece
AwsTask == AwsStart \/ Scan

Next == Second \/ SetTime \/ SystemTask \/ AwsTask \/ Reset

\* Both tasks run again and again, DUALPORT_TASK at a real-time priority and
\* systemTask whenever the others wait, which they do between two readings.
Fairness == WF_vars(ReadRtc) /\ WF_vars(CopyPiece) /\ WF_vars(AwsTask)

Spec == Init /\ [][Next]_vars /\ Fairness

-----------------------------------------------------------------------------
Values == [set : 0 .. MaxSets, n : 0 .. LastSecond]

(* The state the code can be in; no value is older than a task's pass takes. *)
TypeOK ==
    /\ rtc \in 0 .. LastSecond
    /\ Date_Time \in [Fields -> Values] /\ nt \in [Fields -> Values]
    /\ time_old \in [Fields -> Values]
    /\ copied \in 0 .. Len(Pieces) /\ pc \in {"delay", "run"}
    /\ records = <<>> \/ records[1] \in [ToTheMinute -> Values]
    /\ sets \in 0 .. MaxSets /\ resets \in 0 .. MaxResets
    /\ age \in [{"nt", "date", "old"} -> 0 .. MaxLag]

(* A period is closed once at each of its ends: when the hour (the day, ...) *)
(* is closed, exactly one end of an hour has passed since it was closed last *)
(* or time_old was set, unless the clock was set in between.  Reading a      *)
(* Date_Time that is half written neither closes a period twice nor skips    *)
(* an end, although only the low digits of a date are compared.              *)
ClosedOnce ==
    [][ (pc = "run" /\ pc' = "run") =>
          \A f \in ToTheMinute :
              (time_old'[f] # time_old[f] /\ time_old'[f].set = time_old[f].set)
                  => time_old'[f].n = time_old[f].n + 1 ]_vars

(* The records of the minutes are stamped with dates that exist, each a      *)
(* minute after the one before: a record is never stamped with the new day   *)
(* and the old time, because the year comes first in DATE_TIME_BUF and the   *)
(* second last.                                                              *)
StampsInOrder ==
    [][ records' \notin {<<>>, records} =>
          /\ sets = 0 => OneDate(records'[1], ToTheMinute)
          /\ (records # <<>> /\ records'[1].min.set = records[1].min.set)
                 => records'[1].min.n = records[1].min.n + 1 ]_vars

(* When Date_Time is complete and has been scanned, what time_old says about *)
(* the periods is one date: the periods that were closed early by a half     *)
(* written Date_Time have not been closed for a different one.               *)
Settled ==
    (pc = "run" /\ copied = Len(Pieces) /\ sets = 0
       /\ \A f \in Fields : ~Changed(f))
    => OneDate(time_old, Fields)

(* Whatever was set, reset or read half written, schedule_process catches up *)
(* with the clock again and again.  A step closes one end of a period at a   *)
(* time (ClosedOnce), so each end is closed.                                 *)
CatchesUp ==
    []<>(pc = "run" /\ \A f \in Fields : Shown(f, time_old[f]) = Shown(f, DateOf(rtc)[f]))

(* app_dataLogging.c:168-174: the record of 00:00 is the last one of the day *)
(* and month before.  It tells that day's rain only if the day is still open *)
(* when MinProcess writes g_rainfall.today into it.                          *)
LastRecordOfDay ==
    [][ (records \notin {<<>>, records'} /\ records' # <<>> /\ sets = 0
           /\ records'[1].min.n % (DayLen \div MinLen) = 0)
        => time_old["day"].n < records'[1].day.n ]_vars
=============================================================================
