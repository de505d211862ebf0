# Verification of the HJIR-610W weather station firmware

TLA+ models, TLC runs and machine-checked proofs about the firmware of the
HJIR-610W automatic weather station (AWS): an STM32F407 running FreeRTOS through
CMSIS-RTOS2, with a rain gauge and other sensors, a battery-backed RTC, an SD
card with FatFs, a display, a console, and links to the central station.

Paths below are relative to `src/`. The program's own code is `application/`,
`drivers/{bsp,components,devices,driver}`, `Middlewares/{cellular,modbus,modem,io,dev_io}`
and `utils/`; the rest is vendored.

## 1. The system

Tasks by priority: the interrupt-event task and the watchdog task (highest
real-time), `DUALPORT_TASK` ("aws") and keys, the 250 ms and 1 s measurement
tasks, network and cellular, then menu, console, `systemTask` and `loggingTask`
(below normal). They interact through message queues, a few semaphores, and
shared globals that nothing locks.

```
 rain gauge --interrupt--> event queue --> isrEventTask --> g_rainPulse
                                                               |
                         250 ms task: peek_rain / get_rain  <--+
                               |  one-slot queue
 RTC --> systemTask --> Date_Time --> DUALPORT_TASK: schedule_process
                               |             |
                               |      g_rainfall.{min..yearly}, one record per minute
                               |             |  logging queue (5)
                               v             v
      menus, console     loggingTask --> RAIN_01.rcd, Yyy/Mmm.aws --> FatFs --> SD_write
      (set clock, erase, view)                                          |  journal
      check_sd_card (systemTask): insertion, removal, errors, mount     v
                                                              SDIO interrupt, card
```

| Component | State it keeps | Operations | What makes it correct | Hard part |
|---|---|---|---|---|
| Rain pulse path | event queue, `g_rainPulse`, last edge's tick, one-slot reading queue, `g_rainfall.current` | interrupt, increase, peek/get, send, scan | every tip counted once or lost in a known way; debounce | interrupt and three tasks interleave; full queues; time-outs; 8, 16 and 32 bit wrap; resets |
| Accumulators and minute archive | `g_rainfall`, logging queue, RAIN_01.rcd | SecProcess ... YearProcess, write a minute, `calculate_rain`, menu erase | accumulator = records of its period; reports add up; restored after a reset | several periods end in one turn; 00:00 belongs to the day before; power loss; failed write; erase in a third task |
| Scheduling and RTC | RTC chip, `Date_Time`, `time_old` | read, set, copy, scan | each end of a period is handled once; stamps consecutive | unlocked copy of a struct; low digits compared; clock set |
| SD driver and journal | journal record, message queue, mount state, error flag | read, write, recover, mount, remove | a torn sector can be repaired; success means written | DMA completion against time-out, stale messages, power loss, card swap |
| Month files | `0:Y0y/Mmm.aws` | write a minute, read a minute | a read finds what was written | end of month and year; names repeat after ten years |
| Watchdog, resets | watched tasks, last error | feed, check, reset | a stuck task resets, a healthy one does not | feeding depends on messages, which depend on the RTC |
| System and alarm log | queue, ring in a file, ring in the data flash and its chip's buffer, counts in RAM and FRAM | log, store, count, read, set a count | the last logs that were counted are there under their numbers | slot and count are in different stores; a page is rewritten for one slot; readers share the chip's buffer |
| Sensors and filters | last values, failure timers | measure, filter, flag | a failed sensor is flagged, a good one is not | intermittent data |
| KMA reports | queue of one report, a copy of the last one taken | make a report, answer AB or AI | an answer is recent and of one report | several requesters copy without a lock; full queue |
| DIVAS, recorder protocols | session state | commands, log download | what was logged is sent | paging while logs are written |
| AT dispatcher | modem lock, one pending slot and its semaphore | send and wait, hand a frame over | an answer goes to the call that asked for it | the answer races the time-out |
| Cellular link | step of connect_tcp and of the session, event flags, reset sequence, redirection, configured server, modem | connect, serve, reset, obey a message | the link comes back, with the right server | lost notices; hung modem; settings changed while they are used |
| Modbus master | semaphore, receive buffer, bytes awaited | request, receive, give up | an answer goes to one request | answers come late and carry no name |
| Ethernet, TCP server, YMODEM | sessions, blocks | serve, transfer, update | a transfer is whole | disconnects; resets |
| Configuration | NVM images | load, save, default | a torn save is detected | power loss |
| User interfaces | menus, panel | set clock, erase, edit | actions keep the invariants above | low-priority tasks against `DUALPORT_TASK` |

`PROJECT.json` lists every component with its status, and the hazards of the code
at the lines where they bite, with the properties that cover them or the reason
why none does yet.

## 2. The modules

| Module | Models | Checked with |
|---|---|---|
| `RainLedger` | abstract: rain is accepted, then counted or lost, at most once | refined by `RainPulse` |
| `RainPulse` | interrupt to `g_rainfall.current` and SecProcess | `MCRainPulse` |
| `RainArchive` | accumulators, logging queue, archive, restore, erase | `MCRainArchive` |
| `Schedule` | RTC, `Date_Time`, `schedule_process` | `MCSchedule` |
| `SdJournal` | SD driver below FatFs, journal, mounting | `MCSdJournal` |
| `MinuteRing` | abstract: the records of the last minutes, each in a place of its own | refined by `MinuteFile` |
| `MinuteFile` | month files | `MCMinuteFile` |
| `AtCalls` | abstract: synchronous calls, one at a time, each with at most one answer | refined by `AtDispatcher` and by `CellularLink` |
| `AtDispatcher` | the AT dispatcher's slot | proofs, and in `CellularLink` |
| `CellularLink` | connect_tcp, session, SMS worker, parser, console, modem; EXTENDS `AtDispatcher` | `MCCellularLink` |
| `ModbusMaster` | requests and late answers on the bus | `MCModbusMaster` |
| `LogStore` | system log, alarm log, their counts | `MCLogStore` |
| `KmaReports` | the one-minute report's queue and copy | `MCKmaReports` |
| `X_proofs` | theorems about X, for RainPulse, RainArchive, Schedule, SdJournal, ModbusMaster, LogStore; `CellularLink_proofs` is about AtDispatcher too | `tlapm` |
| `Answers_proofs` | theorems about KmaReports and MinuteFile, the two that answer requests for records | `tlapm` |

Definitions commented "Slip" or "Mutant" are mistakes one could make in the
definition that follows them. No specification uses them; replacing the
definition by the mistake makes a property fail, which shows that the run is
able to notice.

### RainPulse

State is the program's (`evq` the event queue, `g_rainPulse`, `q250` the one-slot
queue of readings, `current`) plus one program counter for each of the two tasks
that can be preempted between two steps: `evPc` (isrEventTask prints before
`increase_rain`) and `mPc` (peek, get, put of `read_sensor_rain` and
`send_measurement`). Actions:

| Action | Code |
|---|---|
| `RainEdge` | `rain_reed_callback`, `rain_hall_callback`: debounce, post, ignore a full queue |
| `OtherEvent`, `ResetEvent` | button and USB events, `rtu_reset_callback` |
| `EventGet`, `IncreaseRain`, `ResetSystem` | `isrEventTask` |
| `PeekRain`, `GetRain`, `SendMeasurement`, `SendTimeout` | `read_sensor_rain`, `send_measurement` |
| `AwsStart`, `AwsScan` | `DUALPORT_TASK`: delay, then per reading `current +=` and `SecProcess` on a new second |
| `Tick`, `RtcSecond`, `PowerLoss` | kernel tick, systemTask's new second, watchdog or supply |

A tip is worth `TipUnit` tenths of a millimetre; the float arithmetic on halves
and ones is exact. `accepted`, `counted`, `lost` and `wrapped` are history.
`OtherEvent` has `Fits` as its guard: refused, it changes nothing.

### RainArchive

Time is the minute. The record stamped t holds the minute that ended at t; the
periods that end at t still contain it. `SecProcess` and `MinuteTurn` are one
pass of `schedule_process` without and with a new minute; `MinuteTurn` puts the
record into the queue, makes the reports and closes every period that ends, in
the code's order. `LogTake`, `LogWrite`, `LogFail` are `loggingTask`.
`CalculateRain` and `AwsStart` are the start of `DUALPORT_TASK`, with the
`osDelay(2000)` between them. `MenuErase`, `MenuRead`, `MenuAssign` are the menu's
"Initialize all to 0" (two `write_file` calls, either may fail, then
`calculate_rain`) in tasks of lower priority. `PowerLoss` erases RAM.

Files are named by `year % 10` (`app_dataLogging.c:25`, `:369-377`) and opened again
when the name comes back: `Name` maps a year to one of `Cycle` files, `Slot` a minute
to a slot of one, and a year's file starts out with the records of `Cycle` years
before (`Init` has a new card and one that has been in use, its files as long as
the model's years or as a leap year's). A slot that is not yet written in this year reads as
what it holds. One that was never written has no defined contents (`f_lseek`
beyond the end of a file does not fill the gap), nor has one in a torn sector: they
read as any of two values.

A write can fail at every point of `write_file`: with the record in the file all
the same (`f_close` repeats what `f_sync` failed to do, or the card is late), with
nothing written, with the file grown to the slot, or with the sector of the card
torn, 256 minute records of which all lose their contents (`Damage`). A power loss
while `loggingTask` holds a record can tear the sector too: the journal that could
mend it is in RAM (`JOURNAL_USE 0`). Each of the erase's calls that fails leaves
its slots as they were, zero or undefined.

`whole[p]` says that the books of accumulator p can be expected to balance: it was
closed once since the start, or restored, and the menu has not recalculated since. A
restore counts only while the period did not change before `time_old` was taken,
and only from slots that hold rain of that very period (`OwnRain`): none torn,
none unwritten, none with the rain of a cycle of years before. The last is a case
the code gets wrong. In 2034 the station opens the file of leap year 2024,
which is long enough for `calculate_rain` to read, and adds the rain that 2024 had in
the minutes 2034 has not reached to the year's, the month's and the day's. `Books`
says nothing of such accumulators until they are closed.

Abstractions: `Date_Time` changes atomically here (Schedule models the copy) and
is not set; all years of the model have the same length, and a leap year shows only as
a longer file that an earlier cycle left; FAT and directory sectors are not torn;
uint16 and int16 widths of the accumulators are not reached.

### Schedule

`rv8803_read` ends with `*ct = nt`, several stores into the unlocked `Date_Time`.
`CopyPiece` is one of them, in order of address (`DATE_TIME_BUF`: year, month,
day, hour, minute, second); `Pieces` says how the copy is cut, and the run cuts
it at every byte, which contains every coarser cut. `Scan` is
`schedule_process`: it compares each field's shown digits with `time_old` and
remembers the fields that differ. A field is kept as the count of its units since
year 0 together with the clock setting it stems from, so a property can tell two
equal digits apart; the code sees only `Shown`.

`SetTime` allows every outcome of `rv8803_set_time`, two I2C transfers whose
errors are ignored, and the rollover between them. `Second` advances the RTC only
while no reading is older than `MaxLag`: systemTask and the next scan are assumed
to take less than a minute (file operations that hold systemTask fail within
seconds).

### SdJournal

`op` is the SD_read, SD_write or SD_write_sector that has not returned, with the
step it waits at (`wait` for a message, `poll` the card); `dma` is what SDIO is
doing, which may be something else after a time-out; `msgs` is SDQueueID.
`Initialize`, `Recover` and `Mount` are `MX_FATFS_Init`: SD_initialize,
`journal_init_and_recover`, the first read of `f_mount`. `Remount` and `CardGone`
are `check_sd_card`. g_file_sem admits one caller, so there is one `op`.
`CutOff` is external: of a run of sectors, the first are written, one may be
torn. `GetTimeout` with a transfer under way stands for one that takes longer
than SD_TIMEOUT.

The journal is RAM because `journal_manager.c` is built with `JOURNAL_USE 0`.
A card swapped between the boot's mount and the start of systemTask is not
modelled. FatFs's own structures are not modelled: a volume is registered or
mounted.

### MinuteFile

A minute is a number, its record is that number. `WriteFile`, `ReadFile` and
`Offset` are the file and offset computations of `write_data_month` and
`read_data_month`, `Extended` is `f_lseek` and `f_write`. `MonthLens` gives the
minutes of each month; a leap day is not modelled, nor are torn sectors
(`RainArchive` has them): a record is written or lost. The station's first boot is after
year 0, since 00:00 of 1 January belongs to the year before.

`MinuteRing` is what a caller is promised: a place for each minute of a cycle of
years. `Places` says which slot of which file that is; a slot nobody wrote, a gap
and a read beyond the end of a file are all "nothing", and a request for 00:00 of
the first of a month is one that nothing is promised about.

### AtDispatcher

`dispatcher_send_sync` is three steps, for `s_lock` is held for the whole of each:

| Action | Code (`Middlewares/cellular/dispatcher.c`) |
|---|---|
| `SendSync` | modem lock, early return if the slot is active, fill it, make the semaphore, send the command |
| `TimesOut` | `osSemaphoreAcquire` gives up; the slot is still open and the parser may close it before `s_lock` is taken |
| `Returns` | close the slot, delete the semaphore, release the modem lock |
| `HandleFrame` | `dispatcher_handle_frame`: the slot if its list names the frame, else the subscriber, else nobody |
| `CallbackDone` | the URC callback, which runs without `s_lock` |

A frame is its kind; ack lists and subscriptions are prefixes and tell the kinds
apart. An empty ack list takes any frame (`at_direct`). `AtCalls` is what a
caller is promised; `modemLock`, the slot's list and its response buffer are its
`inCall`, `want` and `answer`, and the semaphore and the place of each task are
hidden.

### CellularLink

`cell` is the step of the cellular task: each state of `connect_tcp`
(`get_next_state_by_timeout` included) and the session loop of `task_cellular.c`,
cut at every AT command and at every access to something another task writes.
`sms` is the step of the SMS worker (read, obey, answer), `Direct` a console
command, `Parse` and `Callback` the AT parser and the two URC callbacks,
`HourPasses` `reset_time`. `flags` are `s_app_event_flags`, `retarget` the two
variables `s_cdma_retarget_ip` and `s_cdma_retarget`, set in two steps by the
worker and read in two steps by `connect_tcp`
(`SetRetargetIp` stores the address in one step, so a half-copied address is not
modelled); `config` is the configured server,
read twice by the cellular task (`ChooseServer`, `TcpOpened`). The modem is
external: what it answers to each command is what the driver's prefixes and
comments suppose. It obeys as the command is sent, and its frames wait in `uart`
for the parser. A modem that boots or hangs hears nothing, and one at the SMS
prompt takes commands for text.

`budget` bounds what goes wrong: each session that drops, modem that hangs or
reboots, OPEN that is refused, answer that is late, console command, change of
the configuration, and each message that arrives is one unit; in the run a message is not combined
with other faults, and there is only one. `missed` is history: a
setting changed after the code had gone past it, or an address the modem did not
hear.

### ModbusMaster

`Request` is `modbus_master_req` up to the query (semaphore, flush, send);
`ReadHeader` and `ReadRest` are `modbus_receive_packet`'s two reads, `GiveUp` their
time-outs. `Arrive` moves bytes from the line to the receive buffer, any number
at a time, also while nobody waits. A byte is known by the request whose answer
it belongs to and its place in it, which is what length, function code and CRC
are computed from; three bytes that are no header may say any length. `log` is
history: kind, answer, result of each request and whose answer it took.

### LogStore

`LogWrite` is `log_write`'s put into the queue; `loggingTask` is `Receive` (which
reads the count), then `WriteFile`/`WriteFails` for the system log or `LoadPage`,
`FillBuffer`, `ProgramPage` for the alarm log (`at45db_write`), then `CountUp` (RAM)
and `SaveCounts` (FRAM). `ReadAlarm` is a menu or the server in `at45db_read`, which
loads a page into the same buffer of the chip; the chip's semaphore keeps it out
of `at45db_write`. `MenuSet` is `setup_menu_log_reset` and `setup_menu_alarm_log_reset`.
`PowerCut` may fall between any two steps: a page being programmed is lost, and a
count may have only its low byte in FRAM (`load_config_nvm` ignores the CRC).
`save_log` writes up to a zero byte it did not put there: `Spill` is the next slot
damaged. Eight logs of 64 bytes share a sector of the card: a write that fails or is
cut off can tear the sector it goes to and that of the slot it spills into, with every
log in them (`Tears`). The journal of `SdJournal` does not help, for it is in RAM
(`JOURNAL_USE 0`) and a record of it is replayed only if the card is mounted again
while the power is on.

`kept` is history, the numbers a reader may rely on: what was counted since the menus
or a torn count last changed the numbering, without the logs of torn sectors and
pages. So a count that is torn in FRAM, and a count that a menu sets while
`loggingTask` holds the old one, are in the model but no property notices what
they do to the numbering.

A recovery that overwrites a sector with older contents (`suspect` in `SdJournal`) is
not modelled here, nor are torn FAT and directory sectors. Text, severities and
time stamps are left out.

### KmaReports

`MakeReport` is `MinProcess`' `send_kma_data` (queue of one, no wait). A requester's
steps are `kma_cmd_handler_AB`: `Ask`, two seconds, `ReadQueue`, then either the
report taken is copied to `g_kma_data_ab` (`SaveFirst`, `SaveSecond`) or, with the
queue empty, the copy is read (`LookForCopy`, `LoadFirst`, `LoadSecond`). Two halves
stand for the structure's many words, since the semaphore made for it is never
taken. `before` is how the two seconds are modelled: what others were copying
when the request came they have copied when it looks.

## 3. Runs

Every run starts in a state the program boots into.

| Run | Shows | Bounds |
|---|---|---|
| `rain_pulse` | `Conservation`, `NoUnderflow`, `Debounced`, `LedgerSpec`, `EventuallyCounted` | event queue 2, counter 2^6 (a bound on tips keeps it from wrapping, as in the code), `current` mod 8 so that two tips in one second wrap, tick mod 3 with debounce 2, 3 tips, 1 fault |
| `rain_archive` | `Books`, `ReportsAddUp`, `KeptForACycle` | year of 16 minutes (2 months x 2 days x 2 hours x 2 minutes, "ten minutes" = 1), two file names, sectors of four records, from minute 45 to 49: an hour that ends no day, then every period at once, then the fourth year in the file of the second; a new card or one in use for a cycle, with or without rain on it; 1 unit of rain, queue of 1, one power loss, failed write and erase |
| `schedule` | `Settled`, `ClosedOnce`, `StampsInOrder`, `CatchesUp` | minute of 3 s, year of 48 s, seconds 43 to 54 across the year's end, copy cut at every byte, lag of 2 s, one setting, one reset |
| `sd_journal` | `WriteAhead`, `Acknowledged`, `TornIsJournalled` | 2 cards, sectors written singly or both at once, 2 data values, 2 writes, one failure, late transfer, removal and power loss; a message queue of 1, so that it fills |
| `minute_file` | `KeptForYears`, `FindsTheMinute`, `KeepsARing` | years of 3 months, names repeat every 2 years, 22 minutes = nearly three years, 2 minutes lost |
| `cellular_link` | `SlotOwned`, `NoLostWakeup`, `OneCallAtATime`, `LinkComesUp`, `RightServer`, `RetargetTried` | 3 callers, 2 servers; either two faults or one message and nothing else |
| `modbus_master` | `TakenOnce`, `QuietReadSucceeds` | 2 tasks (symmetric), 3 requests, each a write or a read of 1 or 2 registers, answered, refused or not answered |
| `log_store` | `SystemKept`, `AlarmKept` | file of 4 slots in sectors of 2, flash of 4 in pages of 2, numbers up to 5 so that both rings wrap, counts of two-valued bytes so that every save may tear, menus that set 1, queue of 1 |
| `kma_reports` | `AnswersRecent` | 3 requesters (symmetric), 6 minutes, a request served in every minute |

Why these bounds are enough: every queue fills, every counter and ring that can
wrap does, each pair of faults meets each step, and each boundary (minute to year,
a cycle of years, a page, a sector, a byte of a count) is crossed, alone and together with
others. The properties relate at most three operations and two faults, so one more
of the same kind adds histories and no new situation; where a theorem is listed
below, it removes the bound.

What the runs say beyond type correctness:

- `Conservation`: each accepted tip is on its way, counted, or lost at a named
  place: full event queue, reading timed out, reset, the 8 bits of `current`.
- `Books`: each accumulator is the sum of the minute records of its period,
  whether in the archive, queued, dropped, torn or unfinished, across period ends,
  file names that come back, slow logging and resets.
- `ReportsAddUp`: the 10-minute, hourly and daily figures equal their minutes.
- `KeptForACycle`: a record stays until that of the same minute a cycle of years
  later takes its slot; a write that fails or is cut off costs its sector at most.
- `ClosedOnce`, `StampsInOrder`: although the half-written date is read, no end is
  handled twice or skipped, and no record is stamped with the new day and the
  old time, because of the order of the fields.
- `Acknowledged`: a sector holds what the last successful write put there,
  except by the two ways listed as `suspect`.
- `TornIsJournalled`: with the power on, a torn single sector can be repaired.
- `KeepsARing`: writes, and the gaps that lost minutes leave, touch no other
  minute's record, and a read looks where it was written.
- `OneCallAtATime`, `NoLostWakeup`: the answer that races the time-out reaches
  its own call or nobody, never the next call.
- `LinkComesUp`: whatever the faults were (a disconnect notice taken by another
  command's ack list or cleared with the flags, a modem hung or left at the SMS
  prompt, an address it did not hear), in the end the task serves a session the
  modem has. `RightServer`, `RetargetTried`: with the server last configured or
  asked for, except by the interleavings listed in `missed`.
- `TakenOnce`, `QuietReadSucceeds`: a late answer may be taken for another
  request's, once; it is never mixed with another, and the master is in step
  again as soon as the line is quiet.
- `SystemKept`, `AlarmKept`: what the last counted numbers promise is in the
  slots, through failed, spilling and cut-off writes and through readers, but for
  the logs of a torn sector and the alarms of a page lost in programming.
- `AnswersRecent`: no half of an answer is more than two reports behind.

Three further runs check a statement of the repository that the code does not
keep; TLC's trace is the explanation (`PROJECT.json`, "findings"):

| Run | Statement | What happens |
|---|---|---|
| `rain_restore` | `calculate_rain` computes from all that RAIN_01.rcd has | `read_file` fails unless the file has 366 days |
| `minute_month` | 00:00 of the first belongs to the month before | the reader opens the new month's file |
| `kma_latest` | the first request is answered with the latest report | the queue keeps the oldest report nobody fetched |

Six more configurations are kept beside the runs. Each states what one would
expect and shows with a short trace that the code does otherwise:

| Configuration | Property | What happens |
|---|---|---|
| `MCRainToday` | `TodayIsToday`: `g_rainfall.today` is today's rain | midnight between `calculate_rain` and `time_old` |
| `MCScheduleDay` | `LastRecordOfDay`: the 00:00 record is the last of the day before | half-copied date closes the day early, the 00:00 record has the new day's 0 |
| `MCSdStale` | `SuccessIsKept`: a record left behind costs only an unneeded recovery | recovery overwrites newer data |
| `MCSdLate` | `WorksAfterRemount`: a remount clears an error | a stale completion message answers the next access |
| `MCModbusWrite` | `QuietWriteSucceeds`: a write that was obeyed is RET_OK | `modbus_master.c:252` waits for 11 bytes, the echo has 8 |
| `MCLogPage` | `AlarmKept` for a buffer whose address is too narrow for the page | `at45db_write_buffer` sends 8 address bits: in a 512-byte page slots 4 to 7 land on 0 to 3. `at45db.h:6` names the AT45DB321 among the supported chips; the run `log_store` is the chip with 256-byte pages |

Met while modelling and stated nowhere else: `get_10min_accu` and
`get_hourly_accu` include the record stamped :00, against the comment at
`rain_data.c:190-201`; `README.md:32` promises the journal in FRAM, which
`JOURNAL_USE 0` leaves out; a record left by one card is written to the next; the
sunshine hour counts its minute twice; `mMinAws` is written every second
(`schedule.c:133`) although line 33 forbids it; `g_kma_access_sem_id` is created
and never taken, so that an answer can be half one report and half another;
`divas_read_log` answers a request for
alarms with the system log (its `case` falls through); `alarm_save_log` counts an
alarm whose write to the flash failed; a count reset in a menu is undone when
`loggingTask` had already read it; `write_ip`'s result is not looked at;
`+CMGD=,4` deletes messages that were not read yet; `at_direct`'s empty ack list
swallows a disconnect or boot notice; a disconnect between the answer to OPEN and
`osEventFlagsClear` is found only by the 180 s timer; `tx700_send_sms` returns 0
when its first prompt times out.

Deadlock is checked in every run but `modbus_master` and `MCModbusWrite`, whose
behaviours stop with their last request. `RainArchive` has an explicit `Stopped`
step for the end of its bounded clock with all work done; any other stuck state is
reported.

## 4. Fairness and time

`RainPulse`: weak fairness of `EventTask`, `MeasureTask`, `AwsTask`, `ResetSystem`
and `RtcSecond`. The three tasks have real-time priorities, run on a preemptive
scheduler and block only where the guards say, with finite time-outs; systemTask
runs whenever the others wait. Interrupts, faults and the kernel tick are not
fair. `MeasureTask` is fair as a whole, so `SendTimeout` is not forced: nothing
relies on it.

`Schedule`: weak fairness of the RTC read, of each piece of the copy and of
`DUALPORT_TASK`. systemTask has a low priority but the tasks above it wait for the
next measurement. The RTC is assumed readable; when it is not, `Date_Time` stands
still and nothing is closed. A pass of systemTask and the next scan take less
than a minute (`MaxLag < MinLen`).

`CellularLink`: weak fairness of the cellular task, the SMS worker, the console
call's end, each wait's time-out, the parser, the hour of `reset_time` and the boot
of a modem that has power: tasks of a preemptive scheduler that block only where
the guards say, finite time-outs, and an external device whose boot the code waits
30 s for. Nothing is asked of the network, the server, the operator or of a modem
that hangs. `GhostSession` stands for three minutes without a byte, which end a
session the modem does not have; a server polls more often than that. `HourPasses`
waits for a modem that boots and for its boot notice, which take seconds.

The other modules state safety only. Their assumptions on time are guards:
`KmaReports` lets a request take less than a minute and the two seconds suffice
for a copy under way, and, with `Polled`, a request is served every minute (the
weather office's); without it only `AnswersLatest` is checked. `ModbusMaster`
assumes that the line delivers answers in the order of the requests. `RainArchive`
and `LogStore` take a write for one step, which happens, fails or is cut off.

## 5. Proofs

Everything in this section holds for every value of the constants that satisfies
the named assumptions, most of all for every number of faults, requests, settings
and minutes.

| Module | Theorems | Assumed |
|---|---|---|
| `RainPulse_proofs` | `TypeCorrect`, `ConservationHolds`, `NoUnderflowHolds`, `DebounceHolds`, `ImplementsLedger` | `RainPulseAssumption` |
| `Schedule_proofs` | `ScheduleTypeCorrect`, `ClosedOnceHolds`, `SettledHolds`, `StampsInOrderHolds` | `ScheduleAssumption`; the last also that no field above the minute is stored after it, which is `DATE_TIME_BUF`'s order |
| `RainArchive_proofs` | `ArchiveTypeCorrect`, `BooksHold`, `ReportsAddUpHolds`, `KeptForACycleHolds`, `NothingRestored`, all from `ArchiveInvariance` | `RainArchiveAssumption`; `NothingRestored` also that years have fewer days than the 366 of `MaxYearLen` and that no file on the card is as long as that at the start |
| `SdJournal_proofs` | `SdTypeCorrect`, `WriteAheadHolds`, `AcknowledgedHolds`, `TornIsJournalledHolds` | `SdJournalAssumption` |
| `CellularLink_proofs` | `DispatcherInvariance` (`SlotOwned`, `NoLostWakeup`), `DispatcherImplementsCalls`; `LinkUsesDispatcher`, `LinkSlotOwned`, `LinkNoLostWakeup`, `LinkCallsOneAtATime`, `LinkTypeCorrect` | `CallersAssumption`, `FramesAssumption`; for the link also `CallersAre`, `FramesAre` |
| `ModbusMaster_proofs` | `MasterTypeCorrect`, `TakenOnceHolds`, `QuietReadHolds`, `EchoNeverTakenHolds` | `KindsAssumption` |
| `LogStore_proofs` | `LogTypeCorrect`, `SystemKeptHolds`, `AlarmKeptHolds` | `LogAssumption`; `AlarmKeptHolds` also `BufferSlots >= PageSlots`, a chip whose buffer address reaches the whole page |
| `Answers_proofs` | `KmaTypeCorrect`, `AnswersRecentHolds`, `AnswersLatestAlone` | `PollAssumption`, `Polled`; the last also a single requester |
| | `MinuteTypeCorrect`, `KeptForYearsHolds`, `FindsTheMinuteHolds`, `MinuteImplementsRing`, `MonthStartNeverFound` | `MinuteFileAssumption`; the last also more than one month |

The arguments:

- **RainPulse.** `IInv == TypeOK /\ NoUnderflow /\ NothingHeld /\ Conservation`; the
  debounce has `GapInv == gap < Debounce => Elapsed <= gap`. `Conservation` alone is
  not inductive: `GetRain` subtracts an earlier peek in modular arithmetic, so the
  step needs `NoUnderflow` (the counter has not shrunk since the peek), which needs
  that the counter does not wrap (`10 * MaxPulses < PulseMod` and `Conservation`
  bound it by the accepted tips), and `NothingHeld` (overwriting `mVal` loses
  nothing). The assumption is the code's situation: the counter is drained four
  times a second, so the claim is about bursts of fewer than 6553 tips of one
  behaviour, not about rain in general.
- **Schedule.** `IInv` says how far apart the chip, `nt`, each field of `Date_Time`
  and `time_old` may be: a later reading of the same clock setting is ahead by at
  most `MaxLag` seconds, hence (`MaxLag < MinLen`) by at most one unit of any other
  field. Digits that differ therefore mean exactly one unit more, and equal digits
  the same unit (`SameShown`, from arithmetic on nested divisions), which is
  `ClosedOnce`. `OrderInv` names, while the minute is not stored yet, the second
  whose date the fields not yet stored are of; a scan in that state stamps a
  minute that exists.
- **RainArchive.** The sums of `Books` are folds over sets of minutes. What such a
  sum does when a record moves from the queue to the file, or when a set of
  minutes is split at the end of a period, is proved by the smallest counterexample
  (every non-empty set of naturals has a least element), so no induction schema
  is needed. `IInv` has a part per piece of state: the records on the path (the one
  `loggingTask` holds, then the queue) are in the order of their minutes
  (`PathInv`); each record in a file is in the slot of its minute, and that minute is
  before those on the path (`FileInv`); what a restore computes from slots of its own
  period is the sum of the minutes filed (`RestoredInv`); and a whole accumulator is
  the sum of its minutes (`BooksInv`). Minutes with the same slot are whole cycles
  of years apart (`SlotsRepeat`), from which `KeptForACycle`, and the minutes of a
  period under way are too recent to share one (`Recent`), so that a write leaves the
  minutes already counted alone although the names come back. `Books` alone is not
  inductive: a record out of order could take the slot of a minute already counted.
- **SdJournal.** What SDIO does is what the driver waits for or has given up
  (`TransferInv`); the journal holds the sector that is written or waited for
  (`JournalInv`); what is being written is not acknowledged, or suspect (`AckInv`);
  the number of late transfers bounds the message queue. Without `AckInv` a
  transfer given up earlier could change an acknowledged sector.
- **AtDispatcher, CellularLink.** `SlotOwned` and `NoLostWakeup` are inductive
  together with the types; each step is a step of `AtCalls` or a stutter. The link
  changes the dispatcher's variables only through the dispatcher's actions
  (`LinkUsesDispatcher`), so its theorems follow without looking into it.
- **ModbusMaster.** The bytes read, buffered and under way are one stream without
  duplicates; an answer that was taken has lost its first byte, so it is never
  taken again; during a request sent on a quiet line the stream is its own answer and
  nothing else.
- **LogStore.** The counts in RAM and FRAM differ only while being saved; the number
  being stored is the count unless a menu has set it, and then nothing is relied
  upon; a torn sector takes its logs out of what is relied upon; between load and
  program the chip's buffer is the page with or without the new log. Numbers less
  than a ring apart have different slots, so a write meets no number within the
  window.
- **KmaReports.** The copy is at most three reports behind, two when only the last
  report is still being copied, one when that is done; a request that has waited
  finds no older report being copied, which is what the two seconds are for.
- **MinuteFile.** A minute's slot is a month, a year modulo the cycle, and the minutes
  of the month passed when it began; that the months cover a year without overlap
  is proved by the least month that goes wrong. Two minutes share a slot exactly
  when they are whole cycles apart (`SharedSlot`, `CyclesShare`). The invariant: a
  slot is undefined or holds a minute that belongs there, and the slot of a minute
  that was written holds it or a later one. `MinuteImplementsRing` maps each place
  of the ring to its slot and each step to the ring's.

Four theorems say how far the statements go that the code does not keep. What
`rain_restore`, `minute_month` and `MCModbusWrite` show in one behaviour is general:
in years of 365 days, on a card with no file of a leap year's length,
`calculate_rain` restores nothing (`NothingRestored`), no
00:00 of the first of a month is answered with its record (`MonthStartNeverFound`),
no write's echo is taken for an answer (`EchoNeverTakenHolds`). And
`AnswersLatestAlone` names the condition, one requester that asks every minute,
under which the statement holds that `kma_latest` refutes.

Every invariant, action property and refinement that a passing run checks is a
theorem above. Only model-checked are the liveness properties `EventuallyCounted`,
`CatchesUp`, `LinkComesUp`, `RightServer` and `RetargetTried`: fairness and ENABLED
are outside the prover's reach.

## 6. Plan

Done: RainPulse, RainArchive, Schedule, SdJournal, MinuteFile, AtDispatcher,
CellularLink, ModbusMaster, LogStore, KmaReports, with proofs about all of them.

Left, in this order:

1. `Watchdog`: task registry, feeding by messages, the RTC standing still,
   `reset_system` with the file semaphore's time-out.
2. `TcpServer`: accept, the clients' requests, a client that goes away while an
   answer is made; it would share `KmaReports`.
3. `Ymodem` and `FirmwareUpdate`: block numbers, retransmission, a reset between
   the steps.
4. `ConfigStore`: save, checksum, default.
5. `SensorFilter`: failure timer, rain-presence off delay.
6. An abstract archive for `RainArchive`, as `MinuteRing` is for `MinuteFile`: what
   the menu's erase and the restore may do to the rain of a minute.
7. Reading the log by pages (DIVAS) on top of `LogStore`.

## 7. Not modelled, and why

- Layout, text, register access and floating-point averages: no state that the
  properties relate.
- Vendored code, which is all but a few percent of the repository's lines (HAL,
  CMSIS-DSP, FatFs with its code pages, LwIP, mbedTLS, flashDB): represented by
  what the application relies on (queues are FIFO and bounded, semaphores exclude,
  `f_write` at an offset extends a file). The share of the repository the models
  stand for is small for that reason.
- Leap days, dates before the station's epoch, and a clock set while the
  archive is being closed (`RainArchive`): setting the clock back closes periods
  again and overwrites yesterday; this is what the code does and no
  document says otherwise.
- In `CellularLink`: modems other than the TX700, voice calls, signal strength and
  the text of messages; three consecutive readings of the telephone number are one.
- In `LogStore`: `task_logger.c` (console output), severities, and the
  server's paging. In `KmaReports`: AI, which is handled alike but for the wait, and
  the archive downloads.
- The menus, but for the actions that change the archive, the clock, the counts
  or the configured server; TCP server, update, settings, sensors: see the plan.
