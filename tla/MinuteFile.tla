----------------------------- MODULE MinuteFile -----------------------------
(***************************************************************************)
(* The minute records: loggingTask writes them with write_data_month into   *)
(* a file per month, 0:Y0y/Mmm.aws with y = year % 10, and the two menus    *)
(* and the central station's request for past data ('Q') read them back     *)
(* with read_data_month.                                                    *)
(*                                                                          *)
(* app_dataLogging.c, with write_file and read_file of app_file.c.  Minutes *)
(* are counted from the beginning of year 0; the record of minute t is t.   *)
(***************************************************************************)
EXTENDS Integers, Sequences, FiniteSets

CONSTANTS
    MonthLens,      \* the minutes of each month of a year, in order
    Cycle,          \* year % 10                       app_dataLogging.c:25
    StartAt,        \* the first boot
    LastMinute,     \* bound
    MaxLost         \* bound: minutes without a record

Months == DOMAIN MonthLens

\* Minutes of a year before its month m.
Before[m \in Months] == IF m = 1 THEN 0 ELSE Before[m - 1] + MonthLens[m - 1]

YearLen == Before[Len(MonthLens)] + MonthLens[Len(MonthLens)]

ASSUME MinuteFileAssumption ==
    /\ MonthLens \in Seq(Nat \ {0, 1}) /\ MonthLens # <<>>
    /\ Cycle \in Nat \ {0, 1}
    /\ StartAt \in Nat /\ LastMinute \in Nat /\ MaxLost \in Nat
    /\ StartAt >= YearLen /\ StartAt <= LastMinute

Undefined == -1     \* contents that no write has defined
Fail == -2          \* read_file returns an error

VARIABLES
    now,        \* minute of the last record due
    files,      \* files[f][o]: slot o of file f; a file is as long as its domain
    asked, answer,      \* the last read, and what it returned
    \* History, not in the program:
    recorded,   \* minutes whose record was written
    lost

vars == <<now, files, asked, answer, recorded, lost>>

-----------------------------------------------------------------------------
(* Dates. *)

Year(t) == t \div YearLen
MinuteOfYear(t) == t % YearLen
Month(t) == CHOOSE m \in Months :
              /\ Before[m] <= MinuteOfYear(t)
              /\ MinuteOfYear(t) < Before[m] + MonthLens[m]

\* timeToOffsetYear and timeToOffsetMonth, in records.
OffsetYear(t) == MinuteOfYear(t)
OffsetMonth(t) == MinuteOfYear(t) - Before[Month(t)]

\* last_month[month], monthList[month].
LastMonth(m) == IF m = 1 THEN Len(MonthLens) ELSE m - 1

\* The minute 00:00 of the first of a month.
StartsMonth(t) == OffsetMonth(t) = 0

-----------------------------------------------------------------------------
(* Where a record is. *)

FileNames == (0 .. Cycle - 1) \X Months

\* get_filePath.
FilePath(y, m) == <<y % Cycle, m>>

\* 00:00 of 1 January belongs to the year before.
FileYear(t) == IF OffsetYear(t) = 0 THEN Year(t) - 1 ELSE Year(t)

\* Slip: without + dataLen.
OffsetShort(t) == IF StartsMonth(t) THEN MonthLens[LastMonth(Month(t))] - 1
                                    ELSE OffsetMonth(t)

\* Slip: the minutes since the beginning of the year.
OffsetOfYear(t) == OffsetYear(t)

\* 00:00 of the first of a month follows 23:59 of the last day of the month
\* before.
Offset(t) == IF StartsMonth(t) THEN MonthLens[LastMonth(Month(t))]
                               ELSE OffsetMonth(t)

\* write_data_month's file.
WriteFile(t) ==
    FilePath(FileYear(t), IF StartsMonth(t) THEN LastMonth(Month(t)) ELSE Month(t))

\* Slip: the month before for every date.
ReadFileLast(t) == FilePath(FileYear(t), LastMonth(Month(t)))

\* read_data_month's file: the month of the date.
ReadFile(t) == FilePath(FileYear(t), Month(t))

-----------------------------------------------------------------------------
Init == /\ now = StartAt
        /\ files = [f \in FileNames |-> <<>>]
        /\ asked = StartAt /\ answer = Fail
        /\ recorded = {} /\ lost = 0

\* Slip: the file is opened anew and what it held is gone.
ExtendedAnew(f, o, v) == [i \in 0 .. o |-> IF i = o THEN v ELSE Undefined]

\* f_lseek and f_write at offset o: what lies between the end of the file and
\* o becomes part of it, undefined.
Extended(f, o, v) ==
    [i \in DOMAIN f \cup (0 .. o) |->
        IF i = o THEN v ELSE IF i \in DOMAIN f THEN f[i] ELSE Undefined]

\* A minute ends and loggingTask writes its record.
WriteMinute ==
    /\ now < LastMinute
    /\ now' = now + 1
    /\ files' = [files EXCEPT ![WriteFile(now')] = Extended(@, Offset(now'), now')]
    /\ recorded' = recorded \cup {now'}
    /\ UNCHANGED <<asked, answer, lost>>

\* The record is lost: no power, a full queue, a failed write.
LoseMinute ==
    /\ now < LastMinute /\ lost < MaxLost
    /\ now' = now + 1 /\ lost' = lost + 1
    /\ UNCHANGED <<files, asked, answer, recorded>>

\* read_data_month: read_file fails beyond the end of the file.
Read ==
    \E t \in (StartAt + 1) .. now :
        /\ asked' = t
        /\ answer' = LET f == files[ReadFile(t)]
                     IN  IF Offset(t) \in DOMAIN f THEN f[Offset(t)] ELSE Fail
        /\ UNCHANGED <<now, files, recorded, lost>>

Next == WriteMinute \/ LoseMinute \/ Read

Spec == Init /\ [][Next]_vars

-----------------------------------------------------------------------------
(* The state the code can be in: no file is longer than its month, slot 0    *)
(* of a file is never written.                                               *)
TypeOK ==
    /\ now \in StartAt .. LastMinute
    /\ DOMAIN files = FileNames
    /\ \A f \in FileNames : /\ DOMAIN files[f] \subseteq 0 .. MonthLens[f[2]]
                            /\ 0 \in DOMAIN files[f] => files[f][0] = Undefined
    /\ asked \in StartAt .. LastMinute /\ answer \in Int
    /\ recorded \subseteq StartAt .. LastMinute /\ lost \in 0 .. MaxLost

\* The same minute of two years whose files have the same names.
Alike(t, u) == (u - t) % (Cycle * YearLen) = 0

(* A record stays until the same minute Cycle years later is written: no     *)
(* two minutes closer than that share a slot, neither do the last record of  *)
(* a month and the first of the next (write_data_month, year % 10).          *)
KeptForYears ==
    \A t \in recorded :
        LET held == files[WriteFile(t)][Offset(t)]
        IN  held >= t /\ Alike(t, held)

(* Except for 00:00 of the first of a month, a read finds the record of the  *)
(* minute it is asked for, or of the same minute of a later year that has    *)
(* replaced it; only of a minute without a record can it return an error,    *)
(* undefined bytes, or a record Cycle years old (read_data_month).           *)
FindsTheMinute ==
    ~StartsMonth(asked) =>
        /\ answer >= 0 => Alike(asked, answer)
        /\ asked \in recorded => answer >= asked

(* app_dataLogging.c:252: 00:00 of the first of a month is a record of the   *)
(* month before; 249: of 1 January, of the year before.  It is read from     *)
(* where write_data_month put it.                                            *)
FindsTheLastOfTheMonth ==
    (StartsMonth(asked) /\ asked \in recorded /\ answer # Fail) => answer = asked

-----------------------------------------------------------------------------
Span == Cycle * YearLen

\* The file and the offset of each minute of a cycle.
Places == [k \in 0 .. Span - 1 |-> <<WriteFile(k + Span), Offset(k + Span)>>]

Found(place) == LET f == files[place[1]]
                IN  IF place[2] \in DOMAIN f THEN f[place[2]] ELSE Undefined

(* The files of write_data_month are a ring of Span minutes, and             *)
(* read_data_month looks into it, but for 00:00 of the first of a month: a    *)
(* record, or the gap a lost one leaves, touches no other minute's place.     *)
Ring == INSTANCE MinuteRing WITH
    Nothing <- Undefined,
    kept <- [k \in 0 .. Span - 1 |-> Found(Places[k])],
    got <- IF asked = StartAt \/ StartsMonth(asked) THEN <<>>
           ELSE <<asked, IF answer = Fail THEN Undefined ELSE answer>>

KeepsARing == Ring!Spec
=============================================================================
