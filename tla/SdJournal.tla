------------------------------ MODULE SdJournal ------------------------------
(***************************************************************************)
(* The SD card driver below FatFs and its one-sector journal:               *)
(*                                                                          *)
(*   a task with g_file_sem --SD_read/SD_write--> DMA --> the card          *)
(*   SDIO interrupt --SDQueueID--> the task that waits                      *)
(*   systemTask: check_sd_card notices insertion, removal and errors, and   *)
(*   mounts again; SD_initialize writes the journalled sector back          *)
(*                                                                          *)
(* sd_diskio.c, journal_manager.c, fatfs.c and task_system.c.  The journal  *)
(* is RAM: journal_manager.c is built with JOURNAL_USE 0, which leaves out  *)
(* every access to the FRAM.                                                *)
(***************************************************************************)
EXTENDS Integers, Sequences, FiniteSets

CONSTANTS
    Cards,          \* SD cards a user may put in
    Blocks,         \* the runs of consecutive sectors a caller writes at once
    Data, Blank,    \* contents of a sector
    None,
    QueueSize,      \* #define QUEUE_SIZE 10                  sd_diskio.c:31
    MaxWrites,      \* bound: writes callers begin
    MaxFailures,    \* bound: transfers that fail
    MaxLate,        \* bound: transfers that take longer than SD_TIMEOUT
    MaxSwaps,       \* bound: times the card is taken out
    MaxPowerLosses  \* bound

ASSUME SdJournalAssumption ==
    /\ Blank \notin Data /\ None \notin Cards
    /\ "torn" \notin Data \cup {Blank}
    /\ \A b \in Blocks : b # {} /\ IsFiniteSet(b)
    /\ QueueSize \in Nat \ {0}
    /\ {MaxWrites, MaxFailures, MaxLate, MaxSwaps, MaxPowerLosses} \subseteq Nat

VARIABLES
    slot,       \* the card in the socket
    ready,      \* it has been identified, and answers in the transfer state
    card,       \* card[c][s]: what sector s of card c holds
    record,     \* g_journal_record
    msgs,       \* SDQueueID
    dma,        \* the transfer the SDIO peripheral is busy with
    op,         \* the SD_read, SD_write or SD_write_sector that has not returned
    stage,      \* "run", or how far MX_FATFS_Init has come
    volume,     \* FatFs: no volume registered, registered, or mounted
    inserted,   \* pre_sd_inserted
    error,      \* g_sd_diskio_error # 0
    \* History, not in the program:
    acked,      \* acked[c][s]: what the last write of the sector, reported
                \* successful, wrote; Unclear during and after other writes
    suspect,    \* sectors rewritten by a recovery after a successful write, or
                \* reported written although the transfer had failed
    clean,      \* no fault since the last MX_FATFS_Init
    owner,      \* the card whose write is in the record
    last,       \* card and sector of the last SD_write, if it was of a single
                \* sector and the journal still stands for it
    writes, failures, late, swaps, powerLosses

driver == <<record, msgs, dma, op, stage, volume, inserted, error>>
ghosts == <<acked, suspect, clean, owner, last>>
bounds == <<writes, failures, late, swaps, powerLosses>>
vars == <<slot, ready, card, driver, ghosts, bounds>>

Sectors == UNION Blocks
Torn == "torn"          \* the write was cut off in the middle of the sector
Unclear == "unclear"
Idle == [kind |-> "none"]
NoRecord == [valid |-> FALSE]

Init == /\ slot \in Cards /\ ready = TRUE
        /\ card = [c \in Cards |-> [s \in Sectors |-> Blank]]
        /\ record = NoRecord /\ msgs = <<>> /\ dma = Idle /\ op = Idle
        /\ stage = "run" /\ volume = "mounted"
        /\ inserted = TRUE /\ error = FALSE
        /\ acked = card /\ suspect = {} /\ clean = TRUE
        /\ owner = None /\ last = None
        /\ writes = 0 /\ failures = 0 /\ late = 0 /\ swaps = 0 /\ powerLosses = 0

-----------------------------------------------------------------------------
(* The card and the SDIO peripheral (external).                             *)

\* What the card may hold when the transfer in progress is cut off: of the
\* sectors in order, the first are written, one may be torn, the rest is old.
CutOff ==
    IF dma.kind # "write" THEN {card}
    ELSE {[card EXCEPT ![dma.card] =
             [s \in Sectors |-> IF s \in dma.block /\ s < k THEN dma.data
                                ELSE IF s = k /\ torn THEN Torn ELSE @[s]]] :
             k \in dma.block, torn \in BOOLEAN}

\* Slip: the put's result is taken for granted.
RoomAlways == TRUE

\* BSP_SD_WriteCpltCallback, BSP_SD_ReadCpltCallback: the put finds room or
\* the message is lost.
Room == Len(msgs) < QueueSize

\* SDIO's data end interrupt: HAL_SD_TxCpltCallback, HAL_SD_RxCpltCallback.
TransferDone ==
    /\ dma # Idle
    /\ card' = IF dma.kind # "write" THEN card
               ELSE [card EXCEPT ![dma.card] =
                       [s \in Sectors |-> IF s \in dma.block THEN dma.data ELSE @[s]]]
    /\ msgs' = IF Room THEN Append(msgs, dma.kind) ELSE msgs
    /\ dma' = Idle
    /\ UNCHANGED <<slot, ready, record, op, stage, volume, inserted, error,
                   ghosts, bounds>>

\* A data or CRC error: HAL_SD_ErrorCallback is not used, no message is sent.
TransferFailed ==
    /\ dma # Idle
    /\ failures < MaxFailures /\ failures' = failures + 1
    /\ card' \in CutOff
    /\ dma' = Idle
    /\ op' = IF op.kind = "none" THEN op ELSE [op EXCEPT !.hurt = TRUE]
    /\ clean' = FALSE
    /\ UNCHANGED <<slot, ready, record, msgs, stage, volume, inserted, error,
                   acked, suspect, owner, last, writes, late, swaps,
                        powerLosses>>

TakeOut == /\ slot # None
           /\ swaps < MaxSwaps /\ swaps' = swaps + 1
           /\ card' \in CutOff
           /\ slot' = None /\ ready' = FALSE /\ dma' = Idle
           /\ clean' = FALSE
           /\ UNCHANGED <<record, msgs, op, stage, volume, inserted, error,
                          acked, suspect, owner, last, writes, failures, late,
                          powerLosses>>

PutIn == /\ slot = None
         /\ slot' \in Cards
         /\ UNCHANGED <<ready, card, driver, ghosts, bounds>>

-----------------------------------------------------------------------------
(* Beginning a transfer.                                                    *)

\* BSP_PlatformIsDetected, and SD_CheckStatusWithTimeout: the card answers in
\* the transfer state.
Accessible == slot # None /\ ready /\ dma = Idle

\* The transfer is handed to SDIO, and the caller waits for its message.
Begin(by, kind, block, data) ==
    /\ dma' = [kind |-> kind, block |-> block, data |-> data, card |-> slot]
    /\ op' = [kind |-> kind, by |-> by, block |-> block, data |-> data,
              card |-> slot, step |-> "wait", hurt |-> FALSE]

\* journal_backup_sector.
Backup(s, d) == /\ record' = [valid |-> TRUE, lba |-> s, data |-> d]
                /\ owner' = slot /\ last' = <<slot, s>>

\* Slip: the backup is made only of sectors that have none yet.
BacksUpOnce(b) == Cardinality(b) = 1 /\ ~record.valid

\* SD_write: only the write of a single sector is journalled.
BacksUp(b) == Cardinality(b) = 1

\* SD_write from a task that holds g_file_sem.
Write ==
    /\ stage = "run" /\ op = Idle /\ volume = "mounted" /\ Accessible
    /\ writes < MaxWrites /\ writes' = writes + 1
    /\ \E b \in Blocks, d \in Data :
         /\ IF BacksUp(b) THEN \E s \in b : Backup(s, d)
                          ELSE last' = None /\ UNCHANGED <<record, owner>>
         /\ Begin("file", "write", b, d)
         /\ acked' = [acked EXCEPT ![slot] =
                        [s \in Sectors |-> IF s \in b THEN Unclear ELSE @[s]]]
         /\ suspect' = suspect \ ({slot} \X b)
    /\ UNCHANGED <<slot, ready, card, msgs, stage, volume, inserted, error, clean,
                   failures, late, swaps, powerLosses>>

\* SD_read from a task that holds g_file_sem, also find_volume's first read.
Read ==
    /\ stage = "run" /\ op = Idle /\ volume # "none" /\ Accessible
    /\ Begin("file", "read", {}, Blank)
    /\ UNCHANGED <<slot, ready, card, record, msgs, stage, volume, inserted,
                   error, ghosts, bounds>>

\* SD_read or SD_write finds no card, or one that does not answer; f_open,
\* which asks for SD_status first, then forgets that the volume is mounted.
Refused ==
    /\ stage = "run" /\ op = Idle /\ volume # "none" /\ ~Accessible
    /\ error' = TRUE
    /\ volume' \in {volume, "registered"}
    /\ UNCHANGED <<slot, ready, card, record, msgs, dma, op, stage, inserted,
                   ghosts, bounds>>

-----------------------------------------------------------------------------
(* Ending a transfer.                                                       *)

\* journal_commit, in SD_write and in journal_init_and_recover: SD_write
\* commits only the write of a single sector.
Committed(b) == IF Cardinality(b) = 1 THEN NoRecord ELSE record

\* What the driver does with a result, and what its callers do: SD_initialize
\* ignores the recovery's, MX_FATFS_Init only reports the mount's, and
\* check_sd_card clears g_sd_diskio_error after it.
Return(ok) ==
    /\ op' = Idle
    /\ stage' = IF op.by = "recover" THEN "mount" ELSE "run"
    /\ volume' = CASE op.by = "recover"         -> volume
                   [] op.by # "recover" /\ ok   -> "mounted"
                   [] op.by = "file" /\ ~ok     -> volume
                   [] OTHER                     -> "registered"
    /\ error' = CASE op.by = "file"  -> error \/ ~ok
                  [] op.by = "boot"  -> ~ok
                  [] op.by = "mount" -> FALSE
                  [] OTHER           -> error
    /\ record' = IF ok /\ op.kind = "write" THEN Committed(op.block) ELSE record
    /\ last' = IF ok /\ op.kind = "write" /\ op.hurt THEN None ELSE last
    /\ IF ok /\ op.kind = "write" /\ op.by = "file"
       THEN /\ acked' = [acked EXCEPT ![op.card] =
                           [s \in Sectors |-> IF s \in op.block THEN op.data ELSE @[s]]]
            /\ suspect' = IF op.hurt THEN suspect \cup ({op.card} \X op.block)
                                     ELSE suspect
       ELSE UNCHANGED <<acked, suspect>>

\* The message is the completion of the kind of transfer the caller began.
Matches == Head(msgs) = op.kind

\* osMessageQueueGet delivers a message: if it matches, the card is polled.
GetMessage ==
    /\ op # Idle /\ op.step = "wait" /\ msgs # <<>>
    /\ msgs' = Tail(msgs)
    /\ IF Matches
       THEN /\ op' = [op EXCEPT !.step = "poll"]
            /\ UNCHANGED <<record, stage, volume, error, acked, suspect, last>>
       ELSE Return(FALSE)
    /\ UNCHANGED <<slot, ready, card, dma, inserted, clean, owner, bounds>>

\* Slip: res starts as RES_OK.
TimeoutResultOk == TRUE

\* DRESULT res = RES_ERROR, unless the card is seen to have finished.
TimeoutResult == FALSE

\* No message within SD_TIMEOUT.  When the transfer is still under way, its
\* message will find nobody waiting.
GetTimeout ==
    /\ op # Idle /\ op.step = "wait" /\ msgs = <<>>
    /\ dma # Idle => late < MaxLate
    /\ late' = IF dma # Idle THEN late + 1 ELSE late
    /\ clean' = IF dma # Idle THEN FALSE ELSE clean
    /\ Return(TimeoutResult)
    /\ UNCHANGED <<slot, ready, card, msgs, dma, inserted, owner,
                   writes, failures, swaps, powerLosses>>

\* Slip: the message is taken for the end of the write.
AnswersAtOnce == TRUE

\* BSP_SD_GetCardState() = SD_TRANSFER_OK.
Answers == Accessible

PollSucceeds ==
    /\ op # Idle /\ op.step = "poll" /\ Answers
    /\ Return(TRUE)
    /\ UNCHANGED <<slot, ready, card, msgs, dma, inserted, clean, owner, bounds>>

\* The card does not answer within SD_TIMEOUT.
PollTimeout ==
    /\ op # Idle /\ op.step = "poll" /\ ~Accessible
    /\ dma # Idle => late < MaxLate
    /\ late' = IF dma # Idle THEN late + 1 ELSE late
    /\ clean' = FALSE
    /\ Return(TimeoutResult)
    /\ UNCHANGED <<slot, ready, card, msgs, dma, inserted, owner,
                   writes, failures, swaps, powerLosses>>

-----------------------------------------------------------------------------
(* Mounting.                                                                *)

\* SD_initialize: HAL_SD_Init may fail, and then there is no recovery.  The
\* message queue is created once and not emptied.  f_mount follows.
Initialize(mount) ==
    /\ slot # None
    /\ card' \in CutOff /\ dma' = Idle
    /\ volume' = "registered"
    /\ \/ /\ ready' = TRUE
          /\ stage' = IF record'.valid THEN "recover" ELSE mount
          /\ clean' = TRUE
          /\ UNCHANGED failures
       \/ /\ failures < MaxFailures /\ failures' = failures + 1
          /\ ready' = FALSE /\ stage' = mount /\ clean' = FALSE

\* check_sd_card: a card has come, or an access has failed.  hal_sd_deinit
\* resets SDIO, whatever it was doing.
Remount ==
    /\ stage = "run" /\ op = Idle
    /\ ~inserted \/ error
    /\ inserted' = TRUE
    /\ UNCHANGED record
    /\ Initialize("mount")
    /\ UNCHANGED <<slot, msgs, op, error, acked, suspect, owner, last,
                   writes, late, swaps, powerLosses>>

\* journal_init_and_recover writes the sector back through SD_write_sector.
Recover ==
    /\ stage = "recover" /\ op = Idle
    /\ IF Accessible
       THEN /\ Begin("recover", "write", {record.lba}, record.data)
            /\ suspect' = IF acked[slot][record.lba] = Unclear THEN suspect
                          ELSE suspect \cup {<<slot, record.lba>>}
            /\ last' = IF slot = owner THEN last ELSE None
            /\ UNCHANGED stage
       ELSE stage' = "mount" /\ UNCHANGED <<dma, op, suspect, last>>
    /\ UNCHANGED <<slot, ready, card, record, msgs, volume, inserted, error,
                   acked, clean, owner, bounds>>

\* f_mount reads the volume's boot sector.
Mount ==
    /\ stage \in {"mount", "boot"} /\ op = Idle
    /\ IF Accessible
       THEN Begin(stage, "read", {}, Blank) /\ UNCHANGED <<stage, error>>
       ELSE stage' = "run" /\ error' = FALSE /\ UNCHANGED <<dma, op>>
    /\ UNCHANGED <<slot, ready, card, record, msgs, volume, inserted, ghosts,
                   bounds>>

\* check_sd_card: the card has gone.
CardGone ==
    /\ stage = "run" /\ op = Idle
    /\ inserted /\ slot = None
    /\ inserted' = FALSE
    /\ volume' = "none" /\ error' = TRUE
    /\ UNCHANGED <<slot, ready, card, record, msgs, dma, op, stage, ghosts, bounds>>

-----------------------------------------------------------------------------
\* A reset, by power or by reset_system, and filesystem_init after it: the
\* journal record is RAM that the start-up code clears.
PowerLoss ==
    /\ powerLosses < MaxPowerLosses /\ powerLosses' = powerLosses + 1
    /\ record' = NoRecord /\ owner' = None /\ last' = None
    /\ msgs' = <<>> /\ op' = Idle
    /\ error' = FALSE
    /\ inserted' = (slot # None)
    /\ IF slot # None THEN Initialize("boot")
       ELSE /\ stage' = "run" /\ volume' = "registered" /\ ready' = FALSE
            /\ UNCHANGED <<card, dma, clean, failures>>
    /\ UNCHANGED <<slot, acked, suspect, writes, late, swaps>>

Sdio == TransferDone \/ TransferFailed
File == Write \/ Read \/ Refused
Waiter == GetMessage \/ GetTimeout \/ PollSucceeds \/ PollTimeout
System == Remount \/ Recover \/ Mount \/ CardGone
User == TakeOut \/ PutIn

Next == Sdio \/ File \/ Waiter \/ System \/ User \/ PowerLoss

Spec == Init /\ [][Next]_vars

-----------------------------------------------------------------------------
(* The state the code can be in; the queue holds at most one message more    *)
(* than transfers have outlasted SD_TIMEOUT: SDQueueID, of ten, loses one     *)
(* only after ten of those.                                                  *)
TypeOK ==
    /\ slot \in Cards \cup {None} /\ ready \in BOOLEAN
    /\ (ready => slot # None)
    /\ card \in [Cards -> [Sectors -> Data \cup {Blank, Torn}]]
    /\ record.valid => record.lba \in Sectors /\ record.data \in Data
    /\ msgs \in Seq({"read", "write"}) /\ Len(msgs) <= QueueSize
    /\ Len(msgs) <= late + 1
    /\ dma.kind \in {"none", "read", "write"} /\ op.kind \in {"none", "read", "write"}
    /\ stage \in {"run", "recover", "mount", "boot"}
    /\ volume \in {"none", "registered", "mounted"}
    /\ inserted \in BOOLEAN /\ error \in BOOLEAN /\ clean \in BOOLEAN
    /\ acked \in [Cards -> [Sectors -> Data \cup {Blank, Unclear}]]
    /\ suspect \subseteq Cards \X Sectors

(* Write-ahead: while the card is being written in a single sector, the      *)
(* journal holds that sector.  The next SD_write, which replaces the record, *)
(* and the commit wait until the card is done, even when the message they    *)
(* got was that of an older transfer.                                        *)
WriteAhead ==
    (dma.kind = "write" /\ Cardinality(dma.block) = 1) =>
        record.valid /\ {record.lba} = dma.block /\ record.data = dma.data

(* A sector holds what the last write that was reported successful put       *)
(* there, unless a later write of it was begun.  Only two things set them    *)
(* apart: a recovery that rewrites a sector after it was written anew, and a *)
(* failed write that takes the message of an older transfer for its own.     *)
Acknowledged ==
    \A c \in Cards, s \in Sectors :
        acked[c][s] \notin {Unclear, card[c][s]} => <<c, s>> \in suspect

(* When the last write was of a single sector, and has left the sector torn, *)
(* the journal holds it, on the same card and while the power stays on,      *)
(* until it is written: a failed recovery does not commit the record, and    *)
(* the next mount tries again.                                               *)
TornIsJournalled ==
    (last # None /\ card[last[1]][last[2]] = Torn) =>
        record.valid /\ record.lba = last[2] /\ owner = last[1]

-----------------------------------------------------------------------------
(* Claims of the repository.                                                *)

(* sd_diskio.c:438-440: RES_OK means that the data are on the card and stay  *)
(* intact, even if a recovery that is not needed is made later.              *)
SuccessIsKept ==
    \A c \in Cards, s \in Sectors : acked[c][s] \in {Unclear, card[c][s]}

(* task_system.c:96: an error is answered by deinitialising and mounting     *)
(* again.  After that, with no fault since, every access succeeds.           *)
WorksAfterRemount ==
    [][ (op # Idle /\ op.by = "file" /\ op' = Idle /\ clean /\ clean' /\ powerLosses' = powerLosses)
        => ~error' ]_vars
=============================================================================
