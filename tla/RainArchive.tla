----------------------------- MODULE RainArchive -----------------------------
(***************************************************************************)
(* The rain accumulators and the minute archive they are rebuilt from.      *)
(*                                                                          *)
(*   DUALPORT_TASK   schedule_process: g_rainfall.{min,...,yearly}, and a   *)
(*                   record per minute  --g_loggingQueue-->                 *)
(*   loggingTask     write_data_year: RAIN_01.rcd, one slot per minute      *)
(*   calculate_rain  after a reset and after the menu's erase: the          *)
(*                   accumulators again, from RAIN_01.rcd                   *)
(*                                                                          *)
(* schedule.c, task_logging.c, app_dataLogging.c, rain_data.c, utile_data.c *)
(* and the part of app_file.c that decides whether a file can be read.      *)
(* A minute is a number; the record stamped t holds the rain of the minute  *)
(* that ended at t, so the periods that end at t still contain it.  Minute 0 *)
(* begins a year whose file is the first of a cycle of file names.          *)
(***************************************************************************)
EXTENDS Integers, Sequences, FiniteSetsExt

CONSTANTS
    TenLen, HourLen, DayLen, MonthLen, YearLen,   \* minutes in a period
    MaxYearLen,      \* minutes RAIN_TOTAL asks for: 366 days  rain_data.c:245
    Cycle,           \* files are named by year % 10   app_dataLogging.c:25, 369
    SectorSlots,     \* records of two bytes in a sector of the card: 256
    LeftOver,        \* what the records of a card in use may hold at the start
    QueueLen,        \* osMessageQueueNew(5, ...)          task_logging.c:281
    StartAt,         \* the first boot happens in this minute
    LastMinute,      \* bound: the clock stops here
    MaxOutage,       \* bound: minutes a power failure lasts
    MaxRain,         \* bound: rain in one behaviour
    MaxPowerLosses, MaxSdErrors, MaxErases        \* bounds

ASSUME RainArchiveAssumption ==
    /\ {TenLen, HourLen, DayLen, MonthLen, YearLen} \subseteq Nat \ {0}
    /\ HourLen % TenLen = 0
    /\ DayLen % HourLen = 0 /\ DayLen > HourLen
    /\ MonthLen % DayLen = 0 /\ MonthLen > DayLen
    /\ YearLen % MonthLen = 0 /\ YearLen > MonthLen
    /\ MaxYearLen \in Nat /\ YearLen <= MaxYearLen
    /\ Cycle \in Nat \ {0} /\ SectorSlots \in Nat \ {0} /\ LeftOver \subseteq Nat
    /\ QueueLen \in Nat \ {0}
    /\ StartAt \in Nat /\ DayLen < StartAt /\ Cycle * YearLen <= StartAt
    /\ LastMinute \in Nat /\ StartAt <= LastMinute
    /\ {MaxOutage, MaxRain, MaxPowerLosses, MaxSdErrors, MaxErases} \subseteq Nat

VARIABLES
    now,       \* Date_Time: the minute of the RTC
    pc,        \* DUALPORT_TASK: before calculate_rain, in osDelay(2000), or scanning
    readAt,    \* calculate_rain's ct
    old,       \* time_old
    min,       \* g_rainfall.min
    acc,       \* g_rainfall.{ten_min,hourly,today,monthly,yearly,yesterday}
    report,    \* the rain of m10MinAws, mHourAws and mDayAws
    queue,     \* g_loggingQueue
    held,      \* the record loggingTask has taken and not yet written
    file,      \* file[n]: the slots of 0:Y0n/RAIN_01.rcd with known contents; the
               \* program writes the rain, the minute is kept here to tell what it is of
    fileLen,   \* its length in slots
    erase,     \* the menu's erase: how far it has come, and what it has read
    \* History, not in the program:
    whole,     \* this accumulator was set to what the archive says
    missed,    \* rain in records of its period that never reached the archive
    rained, powerLosses, sdErrors, erases

ram == <<readAt, old, min, acc, report, queue, held>>
card == <<file, fileLen>>
books == <<whole, missed>>
bounds == <<rained, powerLosses, sdErrors, erases>>
vars == <<now, pc, ram, card, erase, books, bounds>>

-----------------------------------------------------------------------------
(* Periods. *)

Running == {"ten", "hour", "day", "month", "year"}
Periods == Running \cup {"yesterday"}

Length == [ten |-> TenLen, hour |-> HourLen, day |-> DayLen,
           month |-> MonthLen, year |-> YearLen, yesterday |-> DayLen]

\* The minute the period that t is in began with.
Begin(p, t) == t - (t % Length[p])

\* The stamps of the records that belong to the period p as of minute t.
Minutes(p, t) ==
    IF p = "yesterday" THEN (Begin(p, t) - DayLen + 1) .. Begin(p, t)
                       ELSE (Begin(p, t) + 1) .. (Begin(p, t) + Length[p])

\* The fields of Date_Time, each within the next larger unit.
Hour(t) == (t % DayLen) \div HourLen
Day(t) == (t % MonthLen) \div DayLen
Month(t) == (t % YearLen) \div MonthLen
Year(t) == t \div YearLen

\* Which periods schedule_process closes when the minute changes from o to n.
Closes(p, o, n) == CASE p = "ten"   -> n % TenLen = 0
                     [] p = "hour"  -> Hour(n) # Hour(o)
                     [] p = "day"   -> Day(n) # Day(o)
                     [] p = "month" -> Month(n) # Month(o)
                     [] p = "year"  -> Year(n) # Year(o)

-----------------------------------------------------------------------------
(* The archive. *)

Names == 0 .. Cycle - 1
Record == [t : 1 .. LastMinute, rain : Nat]

\* get_filePath: a file is opened again, not made anew, when its name comes back.
Name(y) == y % Cycle

\* Slip: the last minute of the year, without the + sensorDataSize.
SlotShort(t) == IF t % YearLen = 0 THEN <<Name(Year(t) - 1), YearLen - 1>>
                                   ELSE <<Name(Year(t)), t % YearLen>>

\* write_data_year: the record of 1 January 00:00 is the last one of the
\* year before.
Slot(t) == IF t % YearLen = 0 THEN <<Name(Year(t) - 1), YearLen>>
                              ELSE <<Name(Year(t)), t % YearLen>>

\* The minute that slot i of the file holds in year y.
Stamp(y, i) == y * YearLen + i

\* The slots that share a sector of the card with the slot s.
Sector(s) == {s[1]} \X {i \in 1 .. YearLen : i \div SectorSlots = s[2] \div SectorSlots}

\* What the archive holds of minute t; one never written is not rain.
Content(t) ==
    LET n == Slot(t)[1]  i == Slot(t)[2]
    IN  IF i \in DOMAIN file[n] /\ file[n][i].t = t THEN file[n][i].rain ELSE 0

\* The rain the archive holds of the minutes in S.
Filed(S) == SumFunctionOnSet([t \in S |-> Content(t)], S)

\* The records on their way to the archive, and the rain in those of minutes in S.
Path == held \o queue
OnTheWay(S) == SumFunctionOnSet([i \in DOMAIN Path |-> Path[i].rain],
                                {i \in DOMAIN Path : Path[i].t \in S})

\* f_lseek beyond the end and f_write: the file grows, and what lies between
\* has no defined contents.
Written(n, o, r) ==
    /\ file' = [file EXCEPT ![n] = [i \in DOMAIN @ \cup {o} |->
                                      IF i = o THEN r ELSE @[i]]]
    /\ fileLen' = [fileLen EXCEPT ![n] = IF @ > o THEN @ ELSE o + 1]

\* The files when the slots in lost no longer have defined contents.
Without(lost) ==
    [n \in Names |-> [i \in {j \in DOMAIN file[n] : <<n, j>> \notin lost} |-> file[n][i]]]

\* What a write of the record that loggingTask holds can damage when it fails
\* or the power is cut: nothing, or the sector it goes to.
Damage == {{}} \cup {Sector(Slot(held[i].t)) : i \in DOMAIN held}

\* The last minute up to the first boot that is filed in slot i of file n.
Past(n, i) == StartAt - ((StartAt - Stamp(n, i)) % (Cycle * YearLen))

Init == /\ now = StartAt
        /\ pc = "boot" /\ readAt = StartAt /\ old = StartAt
        /\ min = 0 /\ acc = [p \in Periods |-> 0]
        /\ report = [ten |-> 0, hour |-> 0, day |-> 0]
        /\ queue = <<>> /\ held = <<>>
           \* a new card, or one in use for a cycle of years, its files those of
           \* years as long as the model's or of leap years; with no rain in them,
           \* one whose files the menu has set to zero
        /\ \/ /\ file = [n \in Names |-> <<>>]
              /\ fileLen = [n \in Names |-> 0]
           \/ \E v \in LeftOver, len \in {YearLen, MaxYearLen} :
                /\ file = [n \in Names |-> [i \in 1 .. YearLen |->
                                               [t |-> Past(n, i), rain |-> v]]]
                /\ fileLen = [n \in Names |-> len + 1]
        /\ erase = [step |-> "idle", acc |-> <<>>]
        /\ whole = [p \in Periods |-> FALSE]
        /\ missed = [p \in Periods |-> 0]
        /\ rained = 0 /\ powerLosses = 0 /\ sdErrors = 0 /\ erases = 0

-----------------------------------------------------------------------------
(* calculate_rain. *)

\* read_file fails unless the file has every byte it was asked for.
Readable(y) == fileLen[Name(y)] >= MaxYearLen + 1

\* Slip: the days, too, begin with the record stamped 00:00.
SlotsFromZero(p, t) ==
    LET o == t % YearLen IN Begin(p, o) .. Begin(p, o) + Length[p] - 1

\* The slots of t's file that calculate_rain adds up for each accumulator.
\* get_hourly_accu and get_10min_accu begin with the record stamped :00, the
\* daily ones with the record stamped 00:01.
SlotsRead(p, t) ==
    LET o == t % YearLen
        day == Begin("day", o)
        month == Begin("month", o)
    IN  CASE p \in {"ten", "hour"} -> Begin(p, o) .. o
          [] p = "day"   -> day + 1 .. day + DayLen
          [] p = "month" -> month + 1 .. month + MonthLen
          [] p = "year"  -> 1 .. day + DayLen

\* Their sum, when a slot without defined contents reads as g.
Total(p, t, g) ==
    LET f == file[Name(Year(t))]
        content == [o \in SlotsRead(p, t) |-> IF o \in DOMAIN f THEN f[o].rain ELSE g]
    IN  SumFunctionOnSet(content, SlotsRead(p, t))

\* What calculate_rain assigns at t; yesterday needs a second file only on
\* the first day of a year.
Restored(t, g) ==
    LET before == t - DayLen
        fields == IF Year(before) = Year(t) \/ Readable(Year(before))
                  THEN Periods ELSE Running
    IN  IF ~Readable(Year(t)) THEN <<>>
        ELSE [p \in fields |-> IF p = "yesterday" THEN Total("day", before, g)
                                                  ELSE Total(p, t, g)]

\* v is what calculate_rain can assign; a read error makes it return early.
Calculates(t, v) ==
    \/ \E g \in {0, 1} : v = Restored(t, g)
       /\ UNCHANGED sdErrors
    \/ /\ sdErrors < MaxSdErrors /\ sdErrors' = sdErrors + 1
       /\ v = <<>>

Assigned(v) == [p \in Periods |-> IF p \in DOMAIN v THEN v[p] ELSE acc[p]]

\* The slots read for the period p of t hold rain of that period only: none of
\* them is torn, was never written or holds the rain of a cycle of years before.
OwnRain(p, t) ==
    LET f == file[Name(Year(t))]
    IN  \A i \in SlotsRead(p, t) :
            i \in DOMAIN f /\ (f[i].rain = 0 \/ f[i].t = Stamp(Year(t), i))

\* The accumulators that are the sum of their minutes: those whose definition
\* of a period agrees with the running one, from slots of that period.
Agreeing(v, t) ==
    {p \in DOMAIN v : \/ p \in {"day", "month", "year"} /\ OwnRain(p, t)
                      \/ p = "yesterday" /\ OwnRain("day", t - DayLen)}

\* DUALPORT_TASK starts: calculate_rain, then filter_init and osDelay(2000).
CalculateRain ==
    /\ pc = "boot"
    /\ \E v \in {<<>>} \cup {Restored(now, g) : g \in {0, 1}} :
          /\ Calculates(now, v)
          /\ acc' = Assigned(v)
          /\ whole' = [p \in Periods |-> p \in Agreeing(v, now)]
    /\ readAt' = now
    /\ pc' = "delay"
    /\ UNCHANGED <<now, old, min, report, queue, held, card, erase, missed,
                   rained, powerLosses, erases>>

\* time_old = Date_Time.  A period that ended during the delay is not closed.
AwsStart ==
    /\ pc = "delay"
    /\ old' = now
    /\ whole' = [p \in Periods |-> whole[p] /\ Begin(p, readAt) = Begin(p, now)]
    /\ pc' = "run"
    /\ UNCHANGED <<now, readAt, min, acc, report, queue, held, card, erase,
                   missed, bounds>>

-----------------------------------------------------------------------------
(* schedule_process. *)

\* The RTC moves on.  DUALPORT_TASK scans four times a second, so it never
\* lags a minute behind once it runs; calculate_rain and the delay after it
\* take less than a minute each.
Clock == /\ now < LastMinute
         /\ now = IF pc = "run" THEN old ELSE readAt
         /\ now' = now + 1
         /\ UNCHANGED <<pc, ram, card, erase, books, bounds>>

\* SecProcess, in a second in which the minute does not change.
SecProcess ==
    /\ pc = "run" /\ old = now
    /\ rained < MaxRain /\ rained' = rained + 1
    /\ min' = min + 1
    /\ acc' = [p \in Periods |-> IF p \in Running THEN acc[p] + 1 ELSE acc[p]]
    /\ UNCHANGED <<now, pc, readAt, old, report, queue, held, card, erase, books,
                   powerLosses, sdErrors, erases>>

\* The accumulators when the periods that end at n are closed.
Closed(a, n) ==
    [p \in Periods |->
        IF p = "yesterday" THEN IF Closes("day", old, n) THEN a.day ELSE a[p]
        ELSE IF Closes(p, old, n) THEN 0 ELSE a[p]]

\* Slip: a period is reported after it has been reset.
ReportedLate(a, n) ==
    [p \in DOMAIN report |-> IF Closes(p, old, n) THEN Closed(a, n)[p] ELSE report[p]]

\* The rain in m10MinAws, mHourAws and mDayAws after the turn to n.
Reported(a, n) ==
    [p \in DOMAIN report |-> IF Closes(p, old, n) THEN a[p] ELSE report[p]]

\* Slip: the put's result is taken for granted.
FitsAlways == TRUE

\* os_save_aws_data: a record that finds the queue full for 50 ms is dropped.
Fits == Len(queue) < QueueLen

\* v added to the figure of every period that minute t belongs to.
Credited(a, t, n, v) ==
    [p \in Periods |-> IF t \in Minutes(p, n) THEN a[p] + v ELSE a[p]]

\* schedule_process with a new minute: SecProcess adds r, MinProcess puts the
\* minute's record into the queue and starts a new minute, and the Min10,
\* Hour, Day, Month and YearProcess that are due close their period.
MinuteTurn ==
    /\ pc = "run" /\ old # now
    /\ \E r \in {0, 1} :
         LET a == [p \in Periods |-> IF p \in Running THEN acc[p] + r ELSE acc[p]]
             m == min + r
         IN  /\ rained + r <= MaxRain /\ rained' = rained + r
             /\ queue' = IF Fits THEN Append(queue, [t |-> now, rain |-> m])
                                 ELSE queue
             /\ report' = Reported(a, now)
             /\ acc' = Closed(a, now)
             /\ missed' = Credited(Closed(missed, now), now, now,
                                   IF Fits THEN 0 ELSE m)
    /\ min' = 0
    /\ whole' = [p \in Periods |->
                    IF p = "yesterday"
                    THEN IF Closes("day", old, now) THEN whole.day ELSE whole[p]
                    ELSE Closes(p, old, now) \/ whole[p]]
    /\ old' = now
    /\ UNCHANGED <<now, pc, readAt, held, card, erase,
                   powerLosses, sdErrors, erases>>

-----------------------------------------------------------------------------
(* loggingTask. *)

LogTake == /\ held = <<>> /\ queue # <<>>
           /\ held' = <<Head(queue)>> /\ queue' = Tail(queue)
           /\ UNCHANGED <<now, pc, readAt, old, min, acc, report, card, erase,
                          books, bounds>>

\* write_rain_1min.  write_file may report an error although the record is in
\* the file: f_close did what f_sync failed to do, or the card was late.
LogWrite == /\ held # <<>>
            /\ LET s == Slot(held[1].t) IN Written(s[1], s[2], held[1])
            /\ held' = <<>>
            /\ sdErrors' \in {sdErrors, sdErrors + 1} /\ sdErrors' <= MaxSdErrors
            /\ UNCHANGED <<now, pc, readAt, old, min, acc, report, queue, erase,
                           books, rained, powerLosses, erases>>

\* The write fails: a status bit is set and the record is gone, at worst with
\* the other records of its sector.  f_lseek may have made the file longer.
LogFail ==
    /\ held # <<>>
    /\ sdErrors < MaxSdErrors /\ sdErrors' = sdErrors + 1
    /\ LET s == Slot(held[1].t)
       IN  fileLen' \in {fileLen, [fileLen EXCEPT ![s[1]] = IF @ > s[2] THEN @ ELSE s[2]]}
    /\ \E lost \in Damage :
         /\ file' = Without(lost)
         /\ missed' = [p \in Periods |->
                          Credited(missed, held[1].t, old, held[1].rain)[p]
                            + Filed({m \in Minutes(p, old) : Slot(m) \in lost})]
    /\ held' = <<>>
    /\ UNCHANGED <<now, pc, readAt, old, min, acc, report, queue, erase, whole,
                   rained, powerLosses, erases>>

-----------------------------------------------------------------------------
(* The menu's "Initialize all to 0", in tasks of lower priority. *)

\* The slots of rain_file_zero's two write_file calls: the current year's
\* records from 1 January 00:01 on, and that of 1 January 00:01 of the next year.
EraseCall(c) == CASE c = 1 -> {Name(Year(now))} \X (1 .. YearLen)
                  [] c = 2 -> {<<Name(Year(now) + 1), 1>>}

\* rain_file_zero: a call that fails ends the erase, without calculate_rain.  It
\* leaves its slots as they were, zero or with no defined contents, and the file
\* as long as it was or as long as the call makes it.
MenuErase ==
    /\ pc = "run" /\ erase.step = "idle"
    /\ erases < MaxErases /\ erases' = erases + 1
    /\ \E calls \in 0 .. 2 :
         LET failed == IF calls < 2 THEN EraseCall(calls + 1) ELSE {}
         IN \E zero \in {{}, failed}, lost \in {{}, failed}, grown \in {{}, failed} :
              LET zeroed == zero \cup UNION {EraseCall(c) : c \in 1 .. calls}
              IN
              /\ file' = [n \in Names |->
                            [i \in {j \in 1 .. YearLen : \/ <<n, j>> \in zeroed
                                                         \/ j \in DOMAIN file[n] /\ <<n, j>> \notin lost}
                               |-> IF <<n, i>> \in zeroed THEN [t |-> 0, rain |-> 0]
                                                          ELSE file[n][i]]]
              /\ fileLen' = [n \in Names |->
                               Max({fileLen[n]} \cup
                                   {i + 1 : i \in {j \in 1 .. YearLen :
                                                      <<n, j>> \in zeroed \cup grown}})]
              /\ whole' = [p \in Periods |-> zeroed = {} /\ lost = {} /\ whole[p]]
              /\ IF calls = 2
                 THEN erase' = [erase EXCEPT !.step = "erased"] /\ UNCHANGED sdErrors
                 ELSE /\ sdErrors < MaxSdErrors /\ sdErrors' = sdErrors + 1
                      /\ UNCHANGED erase
    /\ UNCHANGED <<now, pc, ram, missed, rained, powerLosses>>

\* calculate_rain reads the file ...
MenuRead ==
    /\ erase.step = "erased"
    /\ \E v \in {<<>>} \cup {Restored(now, g) : g \in {0, 1}} :
          /\ Calculates(now, v)
          /\ erase' = [step |-> "read", acc |-> v]
    /\ UNCHANGED <<now, pc, ram, card, books, rained, powerLosses, erases>>

\* ... and assigns what it has read, which may be of a period now closed.
MenuAssign ==
    /\ erase.step = "read"
    /\ acc' = Assigned(erase.acc)
    /\ whole' = [p \in Periods |-> p \notin DOMAIN erase.acc /\ whole[p]]
    /\ erase' = [step |-> "idle", acc |-> <<>>]
    /\ UNCHANGED <<now, pc, readAt, old, min, report, queue, held, card, missed,
                   bounds>>

-----------------------------------------------------------------------------
\* The power fails and comes back: the RTC keeps the time and the card what it
\* has, but for the sector of a write that is cut off (the journal that could
\* mend it is in RAM).  An erase cut off is one that fails, then the reset.
PowerLoss ==
    /\ powerLosses < MaxPowerLosses /\ powerLosses' = powerLosses + 1
    /\ now' \in now .. (IF now + MaxOutage < LastMinute THEN now + MaxOutage
                                                        ELSE LastMinute)
    /\ pc' = "boot" /\ readAt' = now' /\ old' = now'
    /\ min' = 0 /\ acc' = [p \in Periods |-> 0]
    /\ report' = [p \in DOMAIN report |-> 0]
    /\ queue' = <<>> /\ held' = <<>>
    /\ erase' = [step |-> "idle", acc |-> <<>>]
    /\ whole' = [p \in Periods |-> FALSE]
    /\ missed' = [p \in Periods |-> 0]
    /\ \E lost \in Damage : file' = Without(lost)
    /\ UNCHANGED <<fileLen, rained, sdErrors, erases>>

Aws == CalculateRain \/ AwsStart \/ SecProcess \/ MinuteTurn
Logging == LogTake \/ LogWrite \/ LogFail
Menu == MenuErase \/ MenuRead \/ MenuAssign

\* The bounded clock has come to its end, and no task has work left: any other
\* state without a step is a deadlock.
Stopped == /\ now = LastMinute /\ pc = "run" /\ old = now
           /\ queue = <<>> /\ held = <<>> /\ erase.step = "idle"
           /\ UNCHANGED vars

Next == Clock \/ Aws \/ Logging \/ Menu \/ PowerLoss \/ Stopped

Spec == Init /\ [][Next]_vars

-----------------------------------------------------------------------------
(* The state the code can be in: a queue within its length, files within    *)
(* the slots of a year, and a time_old that is at most one minute behind.   *)
TypeOK ==
    /\ now \in StartAt .. LastMinute
    /\ pc \in {"boot", "delay", "run"}
    /\ readAt <= now /\ old <= now /\ (pc = "run" => now - old <= 1)
    /\ min \in 0 .. MaxRain
    /\ acc \in [Periods -> Nat]
    /\ report \in [{"ten", "hour", "day"} -> Nat]
    /\ queue \in Seq(Record) /\ Len(queue) <= QueueLen
    /\ held \in Seq(Record) /\ Len(held) <= 1
    /\ DOMAIN file = Names /\ DOMAIN fileLen = Names
    /\ \A n \in Names : /\ fileLen[n] \in 0 .. MaxYearLen + 1
                        /\ DOMAIN file[n] \subseteq 1 .. YearLen
                        /\ \A i \in DOMAIN file[n] :
                             file[n][i] \in [t : 0 .. LastMinute, rain : Nat] /\ i < fileLen[n]
    /\ erase.step \in {"idle", "erased", "read"}
    /\ DOMAIN erase.acc \subseteq Periods
    /\ whole \in [Periods -> BOOLEAN] /\ missed \in [Periods -> Nat]
    /\ rained \in 0 .. MaxRain /\ powerLosses \in 0 .. MaxPowerLosses
    /\ sdErrors \in 0 .. MaxSdErrors /\ erases \in 0 .. MaxErases

(* An accumulator is the sum of the minute records of its period: those in   *)
(* the archive, those on their way to it, those a full queue or a failed     *)
(* write cost, and the minute that has no record yet.  It holds for an       *)
(* accumulator from the first time it is closed, or restored by a            *)
(* calculate_rain that saw the same period as time_old and read no slot that *)
(* is torn or holds the rain of a cycle of years before, until the menu      *)
(* recalculates: across hours, days, months and years closing in one turn,   *)
(* file names coming back, slow logging, torn sectors and resets.            *)
Books ==
    pc = "run" =>
        \A p \in Periods :
            whole[p] =>
                LET S == Minutes(p, old)
                IN  acc[p] = Filed(S) + OnTheWay(S) + missed[p]
                               + (IF p = "yesterday" THEN 0 ELSE min)

(* The rain in the record of a period that closes is the sum of the minute   *)
(* records of that period, the last of which is queued in the same turn:     *)
(* MinProcess runs before the period is closed, and a period is reported     *)
(* before it is reset.                                                       *)
ReportsAddUp ==
    [][ (pc = "run" /\ pc' = "run" /\ old' # old) =>
          \A p \in DOMAIN report : \A S \in {Minutes(p, old)} :
              (whole[p] /\ Closes(p, old, now)) =>
                  report'[p] = Filed(S)' + OnTheWay(S)' + missed[p]
                                 + (IF Len(queue) = QueueLen
                                    THEN min + (rained' - rained) ELSE 0)
      ]_vars

(* A record in the archive stays there until the one of the same minute a    *)
(* cycle of years later takes its slot: no other record is written over it,  *)
(* a write that fails or is cut off costs no record outside the sector it    *)
(* goes to, and only the menu's erase does more.                             *)
KeptForACycle ==
    [][ \A n \in Names : \A i \in DOMAIN file[n] :
          \/ i \in DOMAIN file'[n] /\ file'[n][i] = file[n][i]
          \/ i \in DOMAIN file'[n] /\ file'[n][i].t >= file[n][i].t + Cycle * YearLen
          \/ erases' # erases
          \/ held # <<>> /\ held' = <<>> /\ <<n, i>> \in Sector(Slot(held[1].t))
               /\ i \notin DOMAIN file'[n]
      ]_vars

-----------------------------------------------------------------------------
(* Claims of the repository.                                                *)

(* rain_data.c:249: calculate_rain reads all of RAIN_01.rcd and computes the *)
(* accumulators from it; app_file.c calls a read that reaches the end of the *)
(* file normal.                                                              *)
RestoresTheDay ==
    (pc = "delay" /\ sdErrors = 0) => acc.day = Filed(Minutes("day", readAt))

(* panel_item6.c:64 and panel_hj.c:45: g_rainfall.today is the rain of       *)
(* today.                                                                    *)
TodayIsToday ==
    pc = "run" => LET S == Minutes("day", old)
                  IN  acc.day <= Filed(S) + OnTheWay(S) + missed.day + min
=============================================================================
