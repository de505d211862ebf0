------------------------------- MODULE LogStore -------------------------------
(***************************************************************************)
(* The system log and the alarm log.  Tasks queue messages; loggingTask    *)
(* alone stores them: an alarm (FATL, ERRO) in a ring of slots of the data *)
(* flash, anything else in a ring of slots of a file, each numbered by a   *)
(* count that never wraps and is kept in FRAM.  Menus and the server read  *)
(* the rings and may set the counts.  A slot holds the number of the log   *)
(* written to it, or nothing of use.  The file system and the flash chip   *)
(* are external.  Logs share a sector of the card: a write that fails or is*)
(* cut off can cost all those of its sector, as SdJournal says.            *)
(***************************************************************************)
EXTENDS Naturals, Sequences, FiniteSets

CONSTANTS
  LogMax,        \* LOG_COUNT_MAX: slots of the file
  SectorSlots,   \* slots of a sector of the card: 512 bytes are eight logs
  AlarmMax,      \* ALARM_LOG_COUNT_MAX: slots of the flash
  PageSlots,     \* slots of a page of the flash
  BufferSlots,   \* slots that an address of its buffer tells apart
  ByteValues,    \* values of one byte of a count
  MenuCounts,    \* what a user may enter for a count
  QueueSize,     \* messages that loggingTask's queue holds
  MaxCount       \* bound: logs of a kind are not numbered beyond it

ASSUME LogAssumption ==
  /\ {LogMax, SectorSlots, AlarmMax, PageSlots, BufferSlots, ByteValues, QueueSize}
        \subseteq Nat \ {0}
  /\ MenuCounts \subseteq 0..LogMax \cap 0..AlarmMax
  /\ MaxCount \in Nat /\ LogMax > 2

VARIABLES
  queue,      \* messages waiting, by kind
  task,       \* loggingTask: where it is, with a log of which kind and what number
  file,       \* the slots of log.txt
  chip,       \* whether the flash was found at start
  flash,      \* its slots
  buffer,     \* its buffer 1: the slots of a page
  count,      \* g_config_nvm: the counts in RAM
  fram,       \* the counts in FRAM
  kept        \* history: the numbers that a reader may rely upon

vars == <<queue, task, file, chip, flash, buffer, count, fram, kept>>

Kinds == {"system", "alarm"}
Damaged == 0    \* a slot of no log: they are numbered from 1
Idle == [at |-> "idle", kind |-> "system", n |-> 0]

FileSlot(n) == n % LogMax
FlashSlot(n) == n % AlarmMax
Page(s) == s \div PageSlots
InPage(p) == {s \in 0..AlarmMax - 1 : Page(s) = p}
PageOf(f, p) == [i \in 0..PageSlots - 1 |->
                   IF p * PageSlots + i < AlarmMax THEN f[p * PageSlots + i] ELSE Damaged]

\* at45db_write_buffer sends eight bits of the address within the page.
BufferAddress(s) == (s % PageSlots) % BufferSlots

Init ==
  /\ queue = <<>> /\ task = Idle
  /\ file = [s \in 0..LogMax - 1 |-> Damaged]
  /\ chip \in BOOLEAN
  /\ flash = [s \in 0..AlarmMax - 1 |-> Damaged]
  /\ buffer = [i \in 0..PageSlots - 1 |-> Damaged]
  /\ count = [k \in Kinds |-> 0] /\ fram = count
  /\ kept = [k \in Kinds |-> {}]

\* Mutant: the queue takes a message although it is full.
LogWriteUnbounded(k) ==
  /\ queue' = Append(queue, k)
  /\ UNCHANGED <<task, file, chip, flash, buffer, count, fram, kept>>

\* log_write: a message that finds the queue full for 50 ms is dropped.
LogWrite(k) ==
  /\ Len(queue) < QueueSize
  /\ queue' = Append(queue, k)
  /\ UNCHANGED <<task, file, chip, flash, buffer, count, fram, kept>>

\* The count is read at the head of save_log and of alarm_save_log.
Receive ==
  /\ task.at = "idle" /\ queue # <<>>
  /\ count[Head(queue)] < MaxCount
  /\ queue' = Tail(queue)
  /\ task' = [at |-> IF Head(queue) = "system" THEN "write"
                      ELSE IF chip THEN "load" ELSE "count",
              kind |-> Head(queue), n |-> count[Head(queue)]]
  /\ UNCHANGED <<file, chip, flash, buffer, count, fram, kept>>

(***************************************************************************)
(* save_log writes the bytes of its buffer up to a zero it never put there:*)
(* 64 of them, and then whatever follows on the stack, which falls into the*)
(* next slot unless the file ends here.                                    *)
(***************************************************************************)
FileWritten(s, v, bad) ==
  [t \in DOMAIN file |-> IF t \in bad THEN Damaged ELSE IF t = s THEN v ELSE file[t]]

Spill(s) == {{}, {s + 1}}

\* What the card may lose of the sectors that a write of slot s goes to.
SectorOf(s) == {t \in 0..LogMax - 1 : t \div SectorSlots = s \div SectorSlots}
Tears(s) == {{}, SectorOf(s), SectorOf(s + 1), SectorOf(s) \cup SectorOf(s + 1)}

\* The system logs to be relied upon that are not in a torn sector.
Spared(torn) == {m \in kept["system"] : FileSlot(m - 1) \notin torn}

WriteFile ==
  /\ task.at = "write"
  /\ \E spill \in Spill(FileSlot(task.n)) :
       file' = FileWritten(FileSlot(task.n), task.n + 1, spill)
  /\ task' = [task EXCEPT !.at = "count"]
  /\ UNCHANGED <<queue, chip, flash, buffer, count, fram, kept>>

\* The bytes of a write that fails: none, some or all are in the file, or the
\* sectors they are in are torn.
FailedWrite(v, spill, torn) ==
  /\ file' = FileWritten(FileSlot(task.n), v, spill \cup torn)
  /\ kept' = [kept EXCEPT !["system"] = Spared(torn)]

\* Mutant: the result of the write is not looked at.
WriteFailsCounted ==
  /\ task.at = "write"
  /\ LET s == FileSlot(task.n)
     IN  \E spill \in Spill(s), torn \in Tears(s), v \in {file[s], Damaged, task.n + 1} :
           FailedWrite(v, spill, torn)
  /\ task' = [task EXCEPT !.at = "count"]
  /\ UNCHANGED <<queue, chip, flash, buffer, count, fram>>

\* The write fails, before or after it changed the file; the message is dropped.
WriteFails ==
  /\ task.at = "write"
  /\ LET s == FileSlot(task.n)
     IN  \E spill \in Spill(s), torn \in Tears(s), v \in {file[s], Damaged, task.n + 1} :
           FailedWrite(v, spill, torn)
  /\ task' = Idle
  /\ UNCHANGED <<queue, chip, flash, buffer, count, fram>>

(***************************************************************************)
(* at45db_write, under the chip's semaphore: the page is read to the       *)
(* buffer, the log laid over it, and the whole page programmed.            *)
(***************************************************************************)
LoadPage ==
  /\ task.at = "load"
  /\ buffer' = PageOf(flash, Page(FlashSlot(task.n)))
  /\ task' = [task EXCEPT !.at = "fill"]
  /\ UNCHANGED <<queue, file, chip, flash, count, fram, kept>>

FillBuffer ==
  /\ task.at = "fill"
  /\ buffer' = [buffer EXCEPT ![BufferAddress(FlashSlot(task.n))] = task.n + 1]
  /\ task' = [task EXCEPT !.at = "program"]
  /\ UNCHANGED <<queue, file, chip, flash, count, fram, kept>>

Programmed(p) ==
  [s \in DOMAIN flash |-> IF Page(s) = p THEN buffer[s % PageSlots] ELSE flash[s]]

ProgramPage ==
  /\ task.at = "program"
  /\ flash' = Programmed(Page(FlashSlot(task.n)))
  /\ task' = [task EXCEPT !.at = "count"]
  /\ UNCHANGED <<queue, file, chip, buffer, count, fram, kept>>

(***************************************************************************)
(* alarm_read_log for a menu or the server: at45db_read takes the page to  *)
(* the same buffer, under the same semaphore.                              *)
(***************************************************************************)
\* Mutant: at45db_read does not take the semaphore.
ReadAlarmUnlocked(s) ==
  /\ chip
  /\ buffer' = PageOf(flash, Page(s))
  /\ UNCHANGED <<queue, task, file, chip, flash, count, fram, kept>>

ReadAlarm(s) ==
  /\ chip /\ task.at \notin {"fill", "program"}
  /\ buffer' = PageOf(flash, Page(s))
  /\ UNCHANGED <<queue, task, file, chip, flash, count, fram, kept>>

\* What a ring of this kind still holds when log n is the last that was counted.
Window(k) == IF k = "system" THEN LogMax - 2 ELSE AlarmMax - PageSlots
Within(k, n) == {m \in 1..n : m + Window(k) > n}

\* nvm_set_log_cnt, nvm_set_alarm_count: RAM first.
CountUp ==
  /\ task.at = "count"
  /\ count' = [count EXCEPT ![task.kind] = task.n + 1]
  /\ kept' = [kept EXCEPT ![task.kind] =
                IF task.kind = "alarm" /\ ~chip THEN @
                ELSE (@ \cup {task.n + 1}) \cap Within(task.kind, task.n + 1)]
  /\ task' = [task EXCEPT !.at = "save"]
  /\ UNCHANGED <<queue, file, chip, flash, buffer, fram>>

\* save_config_nvm: both counts go to FRAM in one burst.
SaveCounts ==
  /\ task.at = "save"
  /\ fram' = count
  /\ task' = Idle
  /\ UNCHANGED <<queue, file, chip, flash, buffer, count, kept>>

(***************************************************************************)
(* setup_menu_log_reset and setup_menu_alarm_log_reset: the count is what  *)
(* the user enters, and numbering starts over.  loggingTask does not see it*)
(* if it has read the count: it will set it to the number after.           *)
(***************************************************************************)
MenuSet(k, v) ==
  /\ count' = [count EXCEPT ![k] = v] /\ fram' = count'
  /\ kept' = [kept EXCEPT ![k] = {}]
  /\ UNCHANGED <<queue, task, file, chip, flash, buffer>>

(***************************************************************************)
(* The power fails, or the processor is reset.  A page being programmed is *)
(* lost with every log in it, a file write under way ends anywhere or tears*)
(* its sectors (the journal that could mend them is in RAM), and a burst to*)
(* FRAM stops between two bytes, the low one first.  load_config_nvm takes *)
(* what is there: its CRC is not looked at.                                *)
(***************************************************************************)
Torn(old, new) == {old, new, (old \div ByteValues) * ByteValues + (new % ByteValues)}

PowerCut ==
  /\ queue' = <<>> /\ task' = Idle
  /\ LET s == FileSlot(task.n)
         p == Page(FlashSlot(task.n))
         lost == [t \in DOMAIN flash |-> IF Page(t) = p THEN Damaged ELSE flash[t]]
         inPage == {m \in kept["alarm"] : Page(FlashSlot(m - 1)) = p}
     IN \E w \in {file[s], task.n + 1}, spill \in Spill(s),
           torn \in IF task.at = "write" THEN Tears(s) ELSE {{}},
           program \in IF task.at = "program" THEN {"before", "during", "after"} ELSE {"before"},
           v \in IF task.at = "save" THEN Torn(fram[task.kind], count[task.kind])
                                     ELSE {fram[task.kind]} :
          /\ file' = IF task.at = "write" THEN FileWritten(s, w, spill \cup torn) ELSE file
          /\ flash' = CASE program = "before" -> flash
                        [] program = "during" -> lost
                        [] program = "after"  -> Programmed(p)
          /\ fram' = [fram EXCEPT ![task.kind] = v]
          /\ kept' = [k \in Kinds |->
               IF k = task.kind /\ v \notin {fram[k], count[k]} THEN {}
               ELSE IF k = "system" THEN Spared(torn)
               ELSE IF program = "during" THEN kept[k] \ inPage
               ELSE kept[k]]
  /\ count' = fram'
  /\ buffer' = [i \in DOMAIN buffer |-> Damaged]
  /\ UNCHANGED chip

Next ==
  \/ \E k \in Kinds : LogWrite(k)
  \/ Receive \/ WriteFile \/ WriteFails
  \/ LoadPage \/ FillBuffer \/ ProgramPage
  \/ \E s \in 0..AlarmMax - 1 : ReadAlarm(s)
  \/ CountUp \/ SaveCounts
  \/ \E k \in Kinds, v \in MenuCounts : MenuSet(k, v)
  \/ PowerCut

Spec == Init /\ [][Next]_vars

-----------------------------------------------------------------------------
\* A count is numbered, entered by a user, or torn, and then a byte beyond these.
Numbers == 0..MaxCount + LogMax + ByteValues

TypeOK ==
  /\ queue \in Seq(Kinds) /\ Len(queue) <= QueueSize
  /\ task \in [at : {"idle", "write", "load", "fill", "program", "count", "save"},
               kind : Kinds, n : Numbers]
  /\ file \in [0..LogMax - 1 -> Numbers]
  /\ chip \in BOOLEAN
  /\ flash \in [0..AlarmMax - 1 -> Numbers]
  /\ buffer \in [0..PageSlots - 1 -> Numbers]
  /\ count \in [Kinds -> Numbers] /\ fram \in [Kinds -> Numbers]
  /\ kept \in [Kinds -> SUBSET Numbers]

(***************************************************************************)
(* The system log keeps the last LOG_COUNT_MAX - 2 logs that were counted, *)
(* each under its number, but those of a sector torn by a write that failed*)
(* or was cut off, however many failed or spilt over since: what the server*)
(* may still read when it sees that the count has moved.                   *)
(***************************************************************************)
SystemKept ==
  \A n \in kept["system"] \cap Within("system", fram["system"]) : file[FileSlot(n - 1)] = n

(***************************************************************************)
(* The alarm log keeps the alarms of every page but the one being written, *)
(* and of that one too unless the power fails while it is programmed: a    *)
(* menu or the server reading the flash does not mix two pages.            *)
(***************************************************************************)
AlarmKept ==
  \A n \in kept["alarm"] \cap Within("alarm", fram["alarm"]) : flash[FlashSlot(n - 1)] = n
=============================================================================
