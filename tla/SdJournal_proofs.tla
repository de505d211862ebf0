--------------------------- MODULE SdJournal_proofs ---------------------------
(***************************************************************************)
(* Proofs about SdJournal, for every number of cards, sectors, contents and*)
(* faults: the write-ahead rule, what an acknowledged write is worth, and  *)
(* that the journal stands by a torn sector.                               *)
(***************************************************************************)
EXTENDS SdJournal, FiniteSetTheorems, TLAPS

Records == [valid : {TRUE}, lba : Sectors, data : Data]
Transfers == [kind : {"read", "write"}, block : SUBSET Sectors,
              data : Data \cup {Blank}, card : Cards]
Ops == [kind : {"read", "write"}, by : {"file", "recover", "mount", "boot"},
        block : SUBSET Sectors, data : Data \cup {Blank}, card : Cards,
        step : {"wait", "poll"}, hurt : BOOLEAN]
Contents == [Cards -> [Sectors -> Data \cup {Blank, Torn}]]

Outstanding == IF dma = Idle THEN 0 ELSE 1
Awaited == IF op # Idle /\ op.step = "wait" THEN 1 ELSE 0

TypeInv ==
  /\ slot \in Cards \cup {None} /\ ready \in BOOLEAN /\ (ready => slot # None)
  /\ card \in Contents
  /\ record = NoRecord \/ record \in Records
  /\ dma = Idle \/ dma \in Transfers
  /\ op = Idle \/ op \in Ops
  /\ msgs \in Seq({"read", "write"}) /\ Len(msgs) <= QueueSize
  /\ late \in Nat /\ Len(msgs) + Outstanding <= late + Awaited
  /\ stage \in {"run", "recover", "mount", "boot"}
  /\ volume \in {"none", "registered", "mounted"}
  /\ inserted \in BOOLEAN /\ error \in BOOLEAN /\ clean \in BOOLEAN
  /\ acked \in [Cards -> [Sectors -> Data \cup {Blank, Unclear}]]
  /\ suspect \subseteq Cards \X Sectors
  /\ last # None => last \in Cards \X Sectors
  /\ stage = "recover" => record.valid

\* What SDIO is doing is what the driver waits for, or what it has given up.
TransferInv ==
  /\ dma # Idle => ready /\ dma.card = slot
  /\ (op # Idle /\ dma # Idle) =>
       dma.kind = op.kind /\ dma.block = op.block /\ dma.data = op.data /\ dma.card = op.card
  /\ (op # Idle /\ op.kind = "write" /\ ~op.hurt /\ ready /\ dma = Idle) =>
       \A s \in op.block : card[op.card][s] = op.data
  /\ dma.kind = "write" => dma.data \in Data
  /\ op.kind = "write" => op.data \in Data

\* A write that is under way, or waited for, is of the journalled sector.
JournalInv ==
  /\ last # None =>
       /\ record.valid => record.lba = last[2] /\ owner = last[1]
       /\ ~record.valid => card[last[1]][last[2]] # Torn /\ dma.kind # "write"
       /\ dma.kind = "write" => dma.card = last[1] /\ dma.block = {last[2]}
       /\ op.kind = "write" => op.card = last[1] /\ op.block = {last[2]}

\* What is being written has not been acknowledged, or is suspect.
AckInv ==
  dma.kind = "write" =>
    \A s \in dma.block : acked[dma.card][s] = Unclear \/ <<dma.card, s>> \in suspect

IInv == TypeInv /\ TransferInv /\ WriteAhead /\ JournalInv /\ AckInv /\ Acknowledged

-----------------------------------------------------------------------------
(* The transfer that is cut off, and what a result leads to                *)

\* A transfer that is cut off changes nothing but the sectors it was writing.
LEMMA CutOffOnlyItsBlock ==
  ASSUME TypeInv, TransferInv, NEW cut \in CutOff
  PROVE  /\ cut \in Contents
         /\ dma.kind # "write" => cut = card
         /\ \A c \in Cards, s \in Sectors :
              cut[c][s] # card[c][s] => dma.kind = "write" /\ c = dma.card /\ s \in dma.block
<1>1. CASE dma.kind # "write"
  BY <1>1 DEF CutOff, TypeInv
<1>2. CASE dma.kind = "write"
  <2>1. dma \in Transfers /\ dma.card \in Cards /\ dma.data \in Data
    BY <1>2 DEF TypeInv, TransferInv, Idle, Transfers
  <2>2. PICK k \in dma.block, torn \in BOOLEAN :
          cut = [card EXCEPT ![dma.card] =
                   [s \in Sectors |-> IF s \in dma.block /\ s < k THEN dma.data
                                      ELSE IF s = k /\ torn THEN Torn ELSE @[s]]]
    BY <1>2 DEF CutOff
  <2>3. /\ \A c \in Cards : c # dma.card => cut[c] = card[c]
        /\ cut[dma.card] = [s \in Sectors |-> IF s \in dma.block /\ s < k THEN dma.data
                                             ELSE IF s = k /\ torn THEN Torn ELSE card[dma.card][s]]
        /\ DOMAIN cut = Cards
    BY <2>1, <2>2 DEF TypeInv, Contents
  <2>4. cut[dma.card] \in [Sectors -> Data \cup {Blank, Torn}]
    BY <2>1, <2>3 DEF TypeInv, Contents
  <2>5. cut \in Contents
    BY <2>1, <2>2, <2>4 DEF TypeInv, Contents
  <2>6. \A s \in Sectors : cut[dma.card][s] # card[dma.card][s] => s \in dma.block
    BY <2>3
  <2> QED
    BY <1>2, <2>3, <2>5, <2>6
<1> QED
  BY <1>1, <1>2

\* What Return leaves behind, whatever the result.
LEMMA ReturnType ==
  ASSUME TypeInv, TransferInv, op # Idle, NEW ok \in BOOLEAN, Return(ok)
  PROVE  /\ op' = Idle
         /\ record' = NoRecord \/ record' = record
         /\ stage' \in {"run", "mount"}
         /\ volume' \in {"none", "registered", "mounted"}
         /\ error' \in BOOLEAN
         /\ acked' \in [Cards -> [Sectors -> Data \cup {Blank, Unclear}]]
         /\ suspect' \subseteq Cards \X Sectors
         /\ last' = None \/ last' = last
<1>1. op \in Ops
  BY DEF TypeInv
<1>2. op.by \in {"file", "recover", "mount", "boot"} /\ op.card \in Cards /\ op.block \subseteq Sectors
  BY <1>1 DEF Ops
<1>3. op' = Idle /\ (record' = NoRecord \/ record' = record) /\ stage' \in {"run", "mount"}
      /\ (last' = None \/ last' = last)
  BY DEF Return, Committed
<1>4. volume' \in {"none", "registered", "mounted"}
  BY <1>2 DEF Return, TypeInv
<1>5. error' \in BOOLEAN
  BY <1>2 DEF Return, TypeInv
<1>6. CASE ok /\ op.kind = "write" /\ op.by = "file"
  <2>1. op.data \in Data
    BY <1>6 DEF TransferInv
  <2>2. acked' = [acked EXCEPT ![op.card] =
                    [s \in Sectors |-> IF s \in op.block THEN op.data ELSE @[s]]]
    BY <1>6 DEF Return
  <2>3. [s \in Sectors |-> IF s \in op.block THEN op.data ELSE acked[op.card][s]]
          \in [Sectors -> Data \cup {Blank, Unclear}]
    BY <1>2, <2>1 DEF TypeInv
  <2>4. acked' \in [Cards -> [Sectors -> Data \cup {Blank, Unclear}]]
    BY <1>2, <2>2, <2>3 DEF TypeInv
  <2>5. suspect' \subseteq Cards \X Sectors
    BY <1>2, <1>6 DEF Return, TypeInv
  <2> QED
    BY <1>3, <1>4, <1>5, <2>4, <2>5
<1>7. CASE ~(ok /\ op.kind = "write" /\ op.by = "file")
  <2>1. acked' = acked /\ suspect' = suspect
    BY <1>7 DEF Return
  <2> QED
    BY <1>3, <1>4, <1>5, <2>1 DEF TypeInv
<1> QED
  BY <1>6, <1>7

-----------------------------------------------------------------------------
(* Types                                                                   *)

LEMMA InitInv == Init => IInv
<1> SUFFICES ASSUME Init PROVE IInv
  OBVIOUS
<1>1. /\ slot \in Cards /\ ready = TRUE /\ dma = Idle /\ op = Idle /\ record = NoRecord /\ last = None
      /\ card = acked /\ suspect = {}
  BY DEF Init
<1>2. TypeInv
  <2>1. card \in Contents /\ acked \in [Cards -> [Sectors -> Data \cup {Blank, Unclear}]]
    BY DEF Init, Contents
  <2>2. msgs \in Seq({"read", "write"}) /\ Len(msgs) = 0 /\ Len(msgs) <= QueueSize /\ late = 0
    BY SdJournalAssumption DEF Init
  <2>3. Len(msgs) + Outstanding <= late + Awaited
    BY <1>1, <2>2 DEF Outstanding, Awaited
  <2>4. /\ stage = "run" /\ volume = "mounted" /\ inserted = TRUE /\ error = FALSE /\ clean = TRUE
    BY DEF Init
  <2> QED
    BY <1>1, <2>1, <2>2, <2>3, <2>4, SdJournalAssumption DEF TypeInv
<1>3. TransferInv /\ WriteAhead /\ JournalInv /\ AckInv
  BY <1>1 DEF TransferInv, WriteAhead, JournalInv, AckInv, Idle
<1>4. Acknowledged
  BY <1>1 DEF Acknowledged
<1> QED
  BY <1>2, <1>3, <1>4 DEF IInv

\* A message leaves the queue, or arrives in it.
LEMMA QueueType ==
  ASSUME msgs \in Seq({"read", "write"})
  PROVE  /\ Len(msgs) \in Nat
         /\ \A k \in {"read", "write"} : /\ Append(msgs, k) \in Seq({"read", "write"})
                                         /\ Len(Append(msgs, k)) = Len(msgs) + 1
         /\ msgs # <<>> => /\ Tail(msgs) \in Seq({"read", "write"})
                           /\ Len(Tail(msgs)) = Len(msgs) - 1
OBVIOUS

LEMMA SdioType == ASSUME IInv, Sdio PROVE TypeInv'
<1> USE SdJournalAssumption
<1>0. TypeInv /\ TransferInv
  BY DEF IInv
<1>1. CASE TransferDone
  <2>1. dma \in Transfers /\ dma # Idle /\ dma' = Idle
    BY <1>0, <1>1 DEF TypeInv, TransferDone
  <2>2. card' \in Contents
    <3>1. CASE dma.kind # "write"
      BY <1>0, <1>1, <3>1 DEF TransferDone, TypeInv
    <3>2. CASE dma.kind = "write"
      <4>1. dma.data \in Data /\ dma.card \in Cards
        BY <1>0, <2>1, <3>2 DEF TransferInv, Transfers
      <4>2. card' = [card EXCEPT ![dma.card] =
                       [s \in Sectors |-> IF s \in dma.block THEN dma.data ELSE @[s]]]
        BY <1>1, <3>2 DEF TransferDone
      <4>3. [s \in Sectors |-> IF s \in dma.block THEN dma.data ELSE card[dma.card][s]]
              \in [Sectors -> Data \cup {Blank, Torn}]
        BY <1>0, <4>1 DEF TypeInv, Contents
      <4> QED
        BY <1>0, <4>1, <4>2, <4>3 DEF TypeInv, Contents
    <3> QED
      BY <3>1, <3>2
  <2>3. dma.kind \in {"read", "write"}
    BY <2>1 DEF Transfers
  <2>4. /\ msgs' \in Seq({"read", "write"}) /\ Len(msgs') <= QueueSize
        /\ Len(msgs') + Outstanding' <= late' + Awaited'
    <3>1. Outstanding = 1 /\ Outstanding' = 0 /\ Awaited' = Awaited /\ late' = late
      BY <1>1, <2>1 DEF TransferDone, Outstanding, Awaited, bounds
    <3>2. Awaited \in {0, 1}
      BY DEF Awaited
    <3> QED
      BY <1>0, <1>1, <2>3, <3>1, <3>2, QueueType DEF TypeInv, TransferDone, Room
  <2> QED
    BY <1>0, <1>1, <2>1, <2>2, <2>4 DEF TypeInv, TransferDone, ghosts, bounds
<1>2. CASE TransferFailed
  <2>1. card' \in Contents
    BY <1>0, <1>2, CutOffOnlyItsBlock DEF TransferFailed
  <2>2. op' = Idle \/ op' \in Ops
    BY <1>0, <1>2 DEF TypeInv, TransferFailed, Ops, Idle
  <2>3. Awaited' = Awaited
    BY <1>0, <1>2 DEF TypeInv, TransferFailed, Ops, Idle, Awaited
  <2>4. Outstanding = 1 /\ Outstanding' = 0 /\ Awaited \in {0, 1}
    BY <1>2 DEF TransferFailed, Outstanding, Awaited
  <2>5. Len(msgs') + Outstanding' <= late' + Awaited'
    BY <1>0, <1>2, <2>3, <2>4, QueueType DEF TypeInv, TransferFailed
  <2> QED
    BY <1>0, <1>2, <2>1, <2>2, <2>5 DEF TypeInv, TransferFailed
<1> QED
  BY <1>1, <1>2 DEF Sdio


LEMMA BeginType ==
  ASSUME IInv, op = Idle, Accessible, NEW by \in {"file", "recover", "mount", "boot"},
         NEW kind \in {"read", "write"}, NEW block \in SUBSET Sectors,
         NEW data \in Data \cup {Blank}, Begin(by, kind, block, data),
         msgs' = msgs, late' = late
  PROVE  /\ dma' \in Transfers /\ op' \in Ops
         /\ Len(msgs') + Outstanding' <= late' + Awaited'
<1>1. slot \in Cards /\ dma = Idle
  BY DEF Accessible, IInv, TypeInv
<1>2. dma' \in Transfers /\ op' \in Ops /\ op'.step = "wait" /\ dma'.kind # "none" /\ op'.kind # "none"
  BY <1>1 DEF Begin, Transfers, Ops
<1>3. dma' # Idle /\ op' # Idle
  BY <1>2 DEF Idle
<1>4. Outstanding = 0 /\ Outstanding' = 1 /\ Awaited = 0 /\ Awaited' = 1
  BY <1>1, <1>2, <1>3 DEF Outstanding, Awaited
<1> QED
  BY <1>2, <1>4, QueueType DEF IInv, TypeInv

LEMMA FileType == ASSUME IInv, File PROVE TypeInv'
<1> USE SdJournalAssumption
<1>0. TypeInv
  BY DEF IInv
<1>1. CASE Write
  <2>1. PICK b \in Blocks, d \in Data :
          /\ IF BacksUp(b) THEN \E s \in b : Backup(s, d)
                           ELSE last' = None /\ UNCHANGED <<record, owner>>
          /\ Begin("file", "write", b, d)
          /\ acked' = [acked EXCEPT ![slot] =
                         [s \in Sectors |-> IF s \in b THEN Unclear ELSE @[s]]]
          /\ suspect' = suspect \ ({slot} \X b)
    BY <1>1 DEF Write
  <2>2. op = Idle /\ Accessible /\ slot \in Cards /\ b \in SUBSET Sectors
        /\ msgs' = msgs /\ late' = late
    BY <1>0, <1>1 DEF Write, Accessible, TypeInv, Sectors
  <2>3. /\ dma' \in Transfers /\ op' \in Ops
        /\ Len(msgs') + Outstanding' <= late' + Awaited'
    BY <2>1, <2>2, BeginType
  <2>4. (record' = NoRecord \/ record' \in Records) /\ (last' # None => last' \in Cards \X Sectors)
    <3>1. CASE BacksUp(b)
      <4>1. PICK s \in b : Backup(s, d)
        BY <2>1, <3>1
      <4> QED
        BY <2>2, <4>1 DEF Backup, Records
    <3>2. CASE ~BacksUp(b)
      BY <1>0, <2>1, <3>2 DEF TypeInv
    <3> QED
      BY <3>1, <3>2
  <2>5. acked' \in [Cards -> [Sectors -> Data \cup {Blank, Unclear}]]
    <3>1. [s \in Sectors |-> IF s \in b THEN Unclear ELSE acked[slot][s]]
            \in [Sectors -> Data \cup {Blank, Unclear}]
      BY <1>0, <2>2 DEF TypeInv
    <3> QED
      BY <1>0, <2>1, <2>2, <3>1 DEF TypeInv
  <2>6. suspect' \subseteq Cards \X Sectors
    BY <1>0, <2>1 DEF TypeInv
  <2> QED
    BY <1>0, <1>1, <2>3, <2>4, <2>5, <2>6 DEF TypeInv, Write
<1>2. CASE Read
  <2>1. /\ dma' \in Transfers /\ op' \in Ops
        /\ Len(msgs') + Outstanding' <= late' + Awaited'
    BY <1>2, BeginType DEF Read, bounds
  <2> QED
    BY <1>0, <1>2, <2>1 DEF TypeInv, Read, ghosts, bounds
<1>3. CASE Refused
  BY <1>0, <1>3 DEF TypeInv, Refused, ghosts, bounds, Outstanding, Awaited
<1> QED
  BY <1>1, <1>2, <1>3 DEF File

LEMMA WaiterType == ASSUME IInv, Waiter PROVE TypeInv'
<1> USE SdJournalAssumption
<1>0. TypeInv /\ TransferInv
  BY DEF IInv
<1>1. CASE GetMessage
  <2>1. op \in Ops /\ op # Idle /\ op.step = "wait" /\ Awaited = 1
    BY <1>0, <1>1 DEF GetMessage, TypeInv, Awaited
  <2>2. /\ msgs' \in Seq({"read", "write"}) /\ Len(msgs') = Len(msgs) - 1 /\ Len(msgs) \in Nat
        /\ Outstanding' = Outstanding /\ Outstanding \in {0, 1} /\ late' = late
    BY <1>0, <1>1, QueueType DEF TypeInv, GetMessage, Outstanding, bounds
  <2>3. CASE Matches
    <3>1. op' \in Ops /\ op'.step = "poll"
      BY <1>1, <2>1, <2>3 DEF GetMessage, Ops
    <3>2. Awaited' = 0
      BY <3>1 DEF Awaited
    <3>3. Len(msgs') + Outstanding' <= late' + Awaited' /\ Len(msgs') <= QueueSize
      BY <1>0, <2>1, <2>2, <3>2 DEF TypeInv
    <3> QED
      BY <1>0, <1>1, <2>2, <2>3, <3>1, <3>3 DEF TypeInv, GetMessage, bounds
  <2>4. CASE ~Matches
    <3>1. Return(FALSE)
      BY <1>1, <2>4 DEF GetMessage
    <3>2. Awaited' = 0 /\ op' = Idle
      BY <3>1 DEF Return, Awaited
    <3>3. Len(msgs') + Outstanding' <= late' + Awaited' /\ Len(msgs') <= QueueSize
      BY <1>0, <2>1, <2>2, <3>2 DEF TypeInv
    <3> QED
      BY <1>0, <1>1, <2>1, <2>2, <3>1, <3>3, ReturnType DEF TypeInv, GetMessage, bounds
  <2> QED
    BY <2>3, <2>4
<1>2. CASE GetTimeout
  <2>1. op # Idle /\ Return(FALSE)
    BY <1>2 DEF GetTimeout, TimeoutResult
  <2>2. op' = Idle /\ msgs' = msgs /\ Len(msgs') = 0 /\ dma' = dma
    BY <1>2, <2>1 DEF GetTimeout, Return
  <2>3. late' \in Nat /\ Outstanding' \in {0, 1} /\ Outstanding' <= late' /\ Awaited' = 0
    BY <1>0, <1>2, <2>2 DEF TypeInv, GetTimeout, Outstanding, Awaited
  <2>4. Len(msgs') + Outstanding' <= late' + Awaited'
    BY <1>0, <1>2, <2>2 DEF TypeInv, GetTimeout, Outstanding, Awaited
  <2>5. clean' \in BOOLEAN
    BY <1>0, <1>2 DEF TypeInv, GetTimeout
  <2>6. /\ record' = NoRecord \/ record' = record
        /\ stage' \in {"run", "mount"}
        /\ volume' \in {"none", "registered", "mounted"}
        /\ error' \in BOOLEAN
        /\ acked' \in [Cards -> [Sectors -> Data \cup {Blank, Unclear}]]
        /\ suspect' \subseteq Cards \X Sectors
        /\ last' = None \/ last' = last
    BY <1>0, <2>1, ReturnType
  <2>7. UNCHANGED <<slot, ready, card, msgs, dma, inserted>>
    BY <1>2 DEF GetTimeout
  <2> QED
    BY <1>0, <2>2, <2>3, <2>4, <2>5, <2>6, <2>7 DEF TypeInv
<1>3. CASE PollSucceeds
  <2>1. op # Idle /\ Return(TRUE) /\ op' = Idle
    BY <1>3 DEF PollSucceeds, Return
  <2>2. Awaited = 0 /\ Awaited' = 0 /\ Outstanding' = Outstanding /\ late' = late /\ msgs' = msgs
    BY <1>0, <1>3, <2>1 DEF TypeInv, PollSucceeds, Awaited, Outstanding, bounds
  <2> QED
    BY <1>0, <1>3, <2>1, <2>2, ReturnType DEF TypeInv, PollSucceeds, bounds
<1>4. CASE PollTimeout
  <2>1. op # Idle /\ Return(FALSE) /\ op' = Idle
    BY <1>4 DEF PollTimeout, TimeoutResult, Return
  <2>2. Awaited = 0 /\ Awaited' = 0 /\ Outstanding' = Outstanding /\ late' \in Nat /\ late' >= late
        /\ msgs' = msgs /\ Outstanding \in {0, 1}
    BY <1>0, <1>4, <2>1 DEF TypeInv, PollTimeout, Awaited, Outstanding
  <2>3. Len(msgs') + Outstanding' <= late' + Awaited'
    BY <1>0, <2>2, QueueType DEF TypeInv
  <2> QED
    BY <1>0, <1>4, <2>1, <2>2, <2>3, ReturnType DEF TypeInv, PollTimeout
<1> QED
  BY <1>1, <1>2, <1>3, <1>4 DEF Waiter

LEMMA InitializeType ==
  ASSUME TypeInv, TransferInv, NEW mount \in {"mount", "boot"}, Initialize(mount),
         record' = NoRecord \/ record' \in Records
  PROVE  /\ slot # None /\ card' \in Contents /\ dma' = Idle
         /\ ready' \in BOOLEAN /\ clean' \in BOOLEAN /\ volume' = "registered"
         /\ stage' \in {"recover", "mount", "boot"} /\ (stage' = "recover" => record'.valid)
         /\ Outstanding' = 0
<1>1. card' \in Contents
  BY CutOffOnlyItsBlock DEF Initialize
<1> QED
  BY <1>1 DEF Initialize, Outstanding

LEMMA SystemType == ASSUME IInv, System PROVE TypeInv'
<1> USE SdJournalAssumption
<1>0. TypeInv /\ TransferInv
  BY DEF IInv
<1>1. CASE Remount
  <2>1. Initialize("mount") /\ record' = record /\ op = Idle /\ op' = op /\ msgs' = msgs /\ late' = late
    BY <1>1 DEF Remount
  <2>2. /\ slot # None /\ card' \in Contents /\ dma' = Idle
        /\ ready' \in BOOLEAN /\ clean' \in BOOLEAN /\ volume' = "registered"
        /\ stage' \in {"recover", "mount", "boot"} /\ (stage' = "recover" => record'.valid)
        /\ Outstanding' = 0
    BY <1>0, <2>1, InitializeType DEF TypeInv
  <2>3. Awaited = 0 /\ Awaited' = 0 /\ Outstanding \in {0, 1}
    BY <2>1 DEF Awaited, Outstanding
  <2>4. Len(msgs') + Outstanding' <= late' + Awaited'
    BY <1>0, <2>1, <2>2, <2>3, QueueType DEF TypeInv
  <2> QED
    BY <1>0, <1>1, <2>1, <2>2, <2>4 DEF TypeInv, Remount
<1>2. CASE Recover
  <2>1. record = NoRecord => ~record.valid
    BY DEF NoRecord
  <2>2. record \in Records
    BY <1>0, <1>2, <2>1 DEF Recover, TypeInv
  <2>3. CASE Accessible
    <3>1. slot \in Cards
      BY <1>0, <2>3 DEF Accessible, TypeInv
    <3>2. /\ dma' \in Transfers /\ op' \in Ops
          /\ Len(msgs') + Outstanding' <= late' + Awaited'
      BY <1>2, <2>2, <2>3, BeginType DEF Recover, Records, bounds
    <3>3. suspect' \subseteq Cards \X Sectors
      BY <1>0, <1>2, <2>2, <2>3, <3>1 DEF TypeInv, Recover, Records
    <3> QED
      BY <1>0, <1>2, <2>3, <3>2, <3>3 DEF TypeInv, Recover, bounds
  <2>4. CASE ~Accessible
    BY <1>0, <1>2, <2>4 DEF TypeInv, Recover, bounds, Outstanding, Awaited
  <2> QED
    BY <2>3, <2>4
<1>3. CASE Mount
  <2>1. CASE Accessible
    <3>1. /\ dma' \in Transfers /\ op' \in Ops
          /\ Len(msgs') + Outstanding' <= late' + Awaited'
      BY <1>3, <2>1, BeginType DEF Mount, bounds
    <3> QED
      BY <1>0, <1>3, <2>1, <3>1 DEF TypeInv, Mount, ghosts, bounds
  <2>2. CASE ~Accessible
    BY <1>0, <1>3, <2>2 DEF TypeInv, Mount, ghosts, bounds, Outstanding, Awaited
  <2> QED
    BY <2>1, <2>2
<1>4. CASE CardGone
  BY <1>0, <1>4 DEF TypeInv, CardGone, ghosts, bounds, Outstanding, Awaited
<1> QED
  BY <1>1, <1>2, <1>3, <1>4 DEF System

\* With no card in the socket SDIO does nothing.
LEMMA NoCardNoTransfer ==
  ASSUME TypeInv, TransferInv, slot = None PROVE dma = Idle
BY SdJournalAssumption DEF TypeInv, TransferInv, Transfers

LEMMA UserType == ASSUME IInv, User \/ PowerLoss PROVE TypeInv'
<1> USE SdJournalAssumption
<1>0. TypeInv /\ TransferInv
  BY DEF IInv
<1>1. CASE TakeOut
  <2>1. card' \in Contents
    BY <1>0, <1>1, CutOffOnlyItsBlock DEF TakeOut
  <2>2. Outstanding' = 0 /\ Awaited' = Awaited /\ Outstanding \in {0, 1} /\ Awaited \in {0, 1}
    BY <1>1 DEF TakeOut, Outstanding, Awaited
  <2>3. Len(msgs') + Outstanding' <= late' + Awaited'
    BY <1>0, <1>1, <2>2, QueueType DEF TypeInv, TakeOut
  <2> QED
    BY <1>0, <1>1, <2>1, <2>3 DEF TypeInv, TakeOut
<1>2. CASE PutIn
  BY <1>0, <1>2 DEF TypeInv, PutIn, driver, ghosts, bounds, Outstanding, Awaited
<1>3. CASE PowerLoss
  <2>1. /\ record' = NoRecord /\ last' = None /\ msgs' = <<>> /\ op' = Idle /\ late' = late
        /\ error' \in BOOLEAN /\ inserted' \in BOOLEAN
        /\ UNCHANGED <<slot, acked, suspect>>
    BY <1>3 DEF PowerLoss
  <2>2. Awaited' = 0 /\ Len(msgs') = 0 /\ msgs' \in Seq({"read", "write"})
    BY <2>1 DEF Awaited
  <2>3. /\ card' \in Contents /\ dma' = Idle
        /\ ready' \in BOOLEAN /\ clean' \in BOOLEAN /\ volume' = "registered"
        /\ stage' \in {"run", "recover", "mount", "boot"} /\ (stage' = "recover" => record'.valid)
        /\ (ready' => slot # None)
        /\ Outstanding' = 0
    <3>1. CASE slot # None
      BY <1>0, <1>3, <2>1, <3>1, InitializeType DEF PowerLoss
    <3>2. CASE slot = None
      BY <1>0, <1>3, <2>1, <3>2, NoCardNoTransfer DEF PowerLoss, TypeInv, Outstanding
    <3> QED
      BY <3>1, <3>2
  <2>4. Len(msgs') + Outstanding' <= late' + Awaited' /\ Len(msgs') <= QueueSize
    BY <1>0, <2>1, <2>2, <2>3 DEF TypeInv
  <2> QED
    BY <1>0, <2>1, <2>2, <2>3, <2>4 DEF TypeInv
<1> QED
  BY <1>1, <1>2, <1>3 DEF User

LEMMA TypeNext == ASSUME IInv, [Next]_vars PROVE TypeInv'
<1>1. CASE Next
  BY <1>1, SdioType, FileType, WaiterType, SystemType, UserType DEF Next
<1>2. CASE UNCHANGED vars
  BY <1>2 DEF IInv, TypeInv, vars, driver, ghosts, bounds, Outstanding, Awaited
<1> QED
  BY <1>1, <1>2

-----------------------------------------------------------------------------
(* The journal                                                             *)

Rest == TransferInv /\ WriteAhead /\ JournalInv /\ AckInv /\ Acknowledged

\* A transfer ends well: the card holds what was written, which was journalled
\* and not yet acknowledged.
LEMMA TransferDoneRest == ASSUME IInv, TransferDone PROVE Rest'
<1>0. TypeInv /\ Rest
  BY DEF IInv, Rest
<1>1. /\ dma' = Idle /\ dma'.kind = "none" /\ dma \in Transfers /\ dma # Idle
      /\ UNCHANGED <<slot, ready, record, op, acked, suspect, owner, last>>
  BY <1>0 DEF TransferDone, TypeInv, Idle, ghosts
<1>2. /\ \A c \in Cards, s \in Sectors :
            card'[c][s] = IF dma.kind = "write" /\ c = dma.card /\ s \in dma.block
                            THEN dma.data ELSE card[c][s]
  <2>1. CASE dma.kind = "write"
    <3>1. dma.card \in Cards
      BY <1>1 DEF Transfers
    <3>2. card' = [card EXCEPT ![dma.card] =
                     [s \in Sectors |-> IF s \in dma.block THEN dma.data ELSE @[s]]]
      BY <2>1 DEF TransferDone
    <3> QED
      BY <1>0, <2>1, <3>1, <3>2 DEF TypeInv, Contents
  <2>2. CASE dma.kind # "write"
    BY <2>2 DEF TransferDone
  <2> QED
    BY <2>1, <2>2
<1>3. TransferInv'
  <2>1. (op # Idle /\ op.kind = "write") => \A s \in op.block : card'[op.card][s] = op.data
    BY <1>0, <1>1, <1>2 DEF Rest, TransferInv, TypeInv, Ops
  <2> QED
    BY <1>0, <1>1, <2>1 DEF Rest, TransferInv
<1>4. WriteAhead' /\ AckInv'
  BY <1>1 DEF WriteAhead, AckInv
<1>5. JournalInv'
  <2>1. last # None => last[1] \in Cards /\ last[2] \in Sectors
    BY <1>0 DEF TypeInv
  <2>2. (last # None /\ ~record.valid) => card'[last[1]][last[2]] # Torn
    BY <1>0, <1>2, <2>1 DEF Rest, JournalInv
  <2> QED
    BY <1>0, <1>1, <2>2 DEF Rest, JournalInv
<1>6. Acknowledged'
  <2> SUFFICES ASSUME NEW c \in Cards, NEW s \in Sectors,
                      acked[c][s] # Unclear, acked[c][s] # card'[c][s]
               PROVE  <<c, s>> \in suspect
    BY <1>1 DEF Acknowledged
  <2>1. CASE dma.kind = "write" /\ c = dma.card /\ s \in dma.block
    BY <1>0, <2>1 DEF Rest, AckInv
  <2>2. CASE ~(dma.kind = "write" /\ c = dma.card /\ s \in dma.block)
    BY <1>0, <1>2, <2>2 DEF Rest, Acknowledged
  <2> QED
    BY <2>1, <2>2
<1> QED
  BY <1>3, <1>4, <1>5, <1>6 DEF Rest

\* A transfer is cut off, by an error, the user, a remount or a reset: what it
\* has touched stays journalled, and is suspect if it was acknowledged.
LEMMA CutOffRest ==
  ASSUME IInv, card' \in CutOff, dma' = Idle,
         UNCHANGED <<record, acked, suspect, owner, last>>,
         op' = op \/ op' = Idle \/ (op # Idle /\ op' = [op EXCEPT !.hurt = TRUE]),
         op' # Idle => op'.hurt \/ ~ready' \/ (dma = Idle /\ op' = op /\ ready' = ready)
  PROVE  Rest'
<1>0. TypeInv /\ Rest
  BY DEF IInv, Rest
<1>1. /\ dma'.kind = "none"
      /\ dma.kind # "write" => card' = card
      /\ \A c \in Cards, s \in Sectors :
            card'[c][s] # card[c][s] => dma.kind = "write" /\ c = dma.card /\ s \in dma.block
  BY <1>0, CutOffOnlyItsBlock DEF Rest, Idle
<1>2. /\ op' # Idle => /\ op # Idle /\ op'.kind = op.kind /\ op'.block = op.block
                       /\ op'.data = op.data /\ op'.card = op.card
      /\ op'.kind = "write" => op' # Idle
  BY <1>0 DEF TypeInv, Ops, Idle
<1>3. TransferInv'
  <2>1. (op' # Idle /\ op'.kind = "write" /\ ~op'.hurt /\ ready') =>
          \A s \in op'.block : card'[op'.card][s] = op'.data
    BY <1>0, <1>1, <1>2 DEF Rest, TransferInv, Idle
  <2> QED
    BY <1>0, <1>1, <1>2, <2>1 DEF Rest, TransferInv
<1>4. WriteAhead' /\ AckInv'
  BY <1>1 DEF WriteAhead, AckInv
<1>5. JournalInv'
  <2>1. last # None => last[1] \in Cards /\ last[2] \in Sectors
    BY <1>0 DEF TypeInv
  <2> QED
    BY <1>0, <1>1, <1>2, <2>1 DEF Rest, JournalInv
<1>6. Acknowledged'
  BY <1>0, <1>1 DEF Rest, AckInv, Acknowledged
<1> QED
  BY <1>3, <1>4, <1>5, <1>6 DEF Rest

\* A read begins.
LEMMA ReadRest ==
  ASSUME IInv, op = Idle, Accessible, NEW by, Begin(by, "read", {}, Blank),
         UNCHANGED <<slot, ready, card, record, acked, suspect, owner, last>>
  PROVE  Rest'
<1>0. TypeInv /\ Rest
  BY DEF IInv, Rest
<1>1. /\ dma'.kind = "read" /\ op'.kind = "read" /\ dma'.card = slot /\ op'.card = slot
      /\ dma'.block = op'.block /\ dma'.data = op'.data /\ ready /\ dma = Idle /\ dma.kind = "none"
  BY DEF Begin, Accessible, Idle
<1>2. TransferInv' /\ WriteAhead' /\ AckInv' /\ JournalInv'
  BY <1>0, <1>1 DEF Rest, TransferInv, WriteAhead, AckInv, JournalInv, Idle
<1>3. Acknowledged'
  BY <1>0 DEF Rest, Acknowledged
<1> QED
  BY <1>2, <1>3 DEF Rest

\* A write begins: the journal has the sector, if it is one, and nobody takes it
\* to be as it was acknowledged.
LEMMA WriteRest ==
  ASSUME IInv, op = Idle, Accessible, NEW by, NEW b \in SUBSET Sectors, NEW d \in Data,
         Begin(by, "write", b, d), UNCHANGED <<slot, ready, card>>,
         Cardinality(b) = 1 => record'.valid /\ {record'.lba} = b /\ record'.data = d,
         last' # None => record'.valid /\ record'.lba = last'[2] /\ owner' = last'[1]
                         /\ slot = last'[1] /\ b = {last'[2]},
         \A s \in b : acked'[slot][s] = Unclear \/ <<slot, s>> \in suspect',
         \A c \in Cards, s \in Sectors : c # slot \/ s \notin b =>
              acked'[c][s] = acked[c][s] /\ (<<c, s>> \in suspect => <<c, s>> \in suspect')
  PROVE  Rest'
<1>0. TypeInv /\ Rest
  BY DEF IInv, Rest
<1>1. /\ dma'.kind = "write" /\ op'.kind = "write" /\ dma'.card = slot /\ op'.card = slot
      /\ dma'.block = b /\ op'.block = b /\ dma'.data = d /\ op'.data = d
      /\ ready /\ dma = Idle
  BY DEF Begin, Accessible
<1>2. dma' # Idle
  BY <1>1 DEF Idle
<1>3. TransferInv' /\ WriteAhead' /\ AckInv' /\ JournalInv'
  BY <1>0, <1>1, <1>2 DEF TransferInv, WriteAhead, AckInv, JournalInv
<1>4. Acknowledged'
  BY <1>0 DEF Rest, Acknowledged
<1> QED
  BY <1>3, <1>4 DEF Rest

LEMMA FileRest == ASSUME IInv, File PROVE Rest'
<1> USE SdJournalAssumption
<1>0. TypeInv /\ Rest
  BY DEF IInv, Rest
<1>1. CASE Write
  <2>1. PICK b \in Blocks, d \in Data :
          /\ IF BacksUp(b) THEN \E s \in b : Backup(s, d)
                           ELSE last' = None /\ UNCHANGED <<record, owner>>
          /\ Begin("file", "write", b, d)
          /\ acked' = [acked EXCEPT ![slot] =
                         [s \in Sectors |-> IF s \in b THEN Unclear ELSE @[s]]]
          /\ suspect' = suspect \ ({slot} \X b)
    BY <1>1 DEF Write
  <2>2. op = Idle /\ Accessible /\ slot \in Cards /\ b \in SUBSET Sectors
        /\ UNCHANGED <<slot, ready, card>>
    BY <1>0, <1>1 DEF Write, Accessible, TypeInv, Sectors
  <2>3. /\ Cardinality(b) = 1 => record'.valid /\ {record'.lba} = b /\ record'.data = d
        /\ last' # None => record'.valid /\ record'.lba = last'[2] /\ owner' = last'[1]
                           /\ slot = last'[1] /\ b = {last'[2]}
    <3>1. CASE BacksUp(b)
      <4>1. PICK s \in b : Backup(s, d)
        BY <2>1, <3>1
      <4>2. PICK x : b = {x}
        BY <3>1, FS_Singleton DEF BacksUp
      <4>3. b = {s}
        BY <4>2
      <4> QED
        BY <4>1, <4>3 DEF Backup
    <3>2. CASE ~BacksUp(b)
      BY <2>1, <3>2 DEF BacksUp
    <3> QED
      BY <3>1, <3>2
  <2>4. /\ \A s \in b : acked'[slot][s] = Unclear
        /\ \A c \in Cards, s \in Sectors : c # slot \/ s \notin b =>
              acked'[c][s] = acked[c][s] /\ (<<c, s>> \in suspect => <<c, s>> \in suspect')
    BY <1>0, <2>1, <2>2 DEF TypeInv
  <2> QED
    BY <2>1, <2>2, <2>3, <2>4, WriteRest
<1>2. CASE Read
  BY <1>2, ReadRest DEF Read, ghosts
<1>3. CASE Refused
  BY <1>0, <1>3 DEF Rest, Refused, ghosts, TransferInv, WriteAhead, AckInv, JournalInv, Acknowledged
<1> QED
  BY <1>1, <1>2, <1>3 DEF File

\* The result is no success: nothing is committed, nothing acknowledged.
LEMMA FailureRest ==
  ASSUME IInv, op # Idle, Return(FALSE), UNCHANGED <<slot, ready, card, dma, owner>>
  PROVE  Rest'
<1>0. TypeInv /\ Rest
  BY DEF IInv, Rest
<1>1. op' = Idle /\ op'.kind = "none" /\ UNCHANGED <<record, last, acked, suspect>>
  BY DEF Return, Idle
<1> QED
  BY <1>0, <1>1 DEF Rest, TransferInv, WriteAhead, AckInv, JournalInv, Acknowledged

\* It is one: the card holds what was written, or the sectors become suspect.
LEMMA SuccessRest == ASSUME IInv, PollSucceeds PROVE Rest'
<1> USE SdJournalAssumption
<1>0. TypeInv /\ Rest
  BY DEF IInv, Rest
<1>1. /\ op # Idle /\ op \in Ops /\ Return(TRUE) /\ op' = Idle /\ op'.kind = "none"
      /\ dma = Idle /\ dma' = Idle /\ dma.kind = "none" /\ ready
      /\ UNCHANGED <<slot, ready, card, owner>>
  BY <1>0 DEF PollSucceeds, Answers, Accessible, Return, Idle, TypeInv
<1>2. TransferInv' /\ WriteAhead' /\ AckInv'
  BY <1>1 DEF TransferInv, WriteAhead, AckInv, Idle
<1>3. (op.kind = "write" /\ ~op.hurt) => \A s \in op.block : card[op.card][s] = op.data
  BY <1>0, <1>1 DEF Rest, TransferInv
<1>4. JournalInv'
  <2> SUFFICES ASSUME last' # None
               PROVE  /\ record'.valid => record'.lba = last'[2] /\ owner' = last'[1]
                      /\ ~record'.valid => card'[last'[1]][last'[2]] # Torn
    BY <1>1 DEF JournalInv
  <2>1. last' = last /\ last # None
    BY <1>1 DEF Return
  <2>2. CASE op.kind # "write"
    BY <1>0, <1>1, <2>1, <2>2 DEF Return, Rest, JournalInv
  <2>3. CASE op.kind = "write"
    <3>1. ~op.hurt
      BY <1>1, <2>1, <2>3 DEF Return
    <3>2. op.card = last[1] /\ op.block = {last[2]} /\ op.data \in Data
      BY <1>0, <2>1, <2>3 DEF Rest, JournalInv, TransferInv
    <3>3. record' = NoRecord
      BY <1>1, <2>3, <3>2, FS_Singleton DEF Return, Committed
    <3>4. card[last[1]][last[2]] = op.data /\ op.data # Torn
      BY <1>3, <2>3, <3>1, <3>2 DEF Torn
    <3> QED
      BY <1>1, <2>1, <3>3, <3>4 DEF NoRecord
  <2> QED
    BY <2>2, <2>3
<1>5. Acknowledged'
  <2>1. CASE op.kind = "write" /\ op.by = "file"
    <3>1. /\ acked' = [acked EXCEPT ![op.card] =
                         [s \in Sectors |-> IF s \in op.block THEN op.data ELSE @[s]]]
          /\ suspect' = IF op.hurt THEN suspect \cup ({op.card} \X op.block) ELSE suspect
      BY <1>1, <2>1 DEF Return
    <3>2. op.card \in Cards
      BY <1>1 DEF Ops
    <3>3. \A c \in Cards, s \in Sectors :
            acked'[c][s] = IF c = op.card /\ s \in op.block THEN op.data ELSE acked[c][s]
      BY <1>0, <3>1, <3>2 DEF TypeInv
    <3> SUFFICES ASSUME NEW c \in Cards, NEW s \in Sectors,
                        acked'[c][s] # Unclear, acked'[c][s] # card[c][s]
                 PROVE  <<c, s>> \in suspect'
      BY <1>1 DEF Acknowledged
    <3>4. CASE c = op.card /\ s \in op.block
      BY <1>3, <2>1, <3>1, <3>3, <3>4
    <3>5. CASE ~(c = op.card /\ s \in op.block)
      BY <1>0, <3>1, <3>3, <3>5 DEF Rest, Acknowledged
    <3> QED
      BY <3>4, <3>5
  <2>2. CASE ~(op.kind = "write" /\ op.by = "file")
    BY <1>0, <1>1, <2>2 DEF Return, Rest, Acknowledged
  <2> QED
    BY <2>1, <2>2
<1> QED
  BY <1>2, <1>4, <1>5 DEF Rest

LEMMA WaiterRest == ASSUME IInv, Waiter PROVE Rest'
<1>0. TypeInv /\ Rest
  BY DEF IInv, Rest
<1>1. CASE GetMessage
  <2>1. CASE Matches
    <3>1. /\ op \in Ops /\ op # Idle /\ op' = [op EXCEPT !.step = "poll"]
          /\ UNCHANGED <<slot, ready, card, dma, record, acked, suspect, owner, last>>
      BY <1>0, <1>1, <2>1 DEF GetMessage, TypeInv
    <3>2. /\ op'.kind = op.kind /\ op'.block = op.block /\ op'.data = op.data
          /\ op'.card = op.card /\ op'.hurt = op.hurt
      BY <3>1 DEF Ops
    <3> QED
      BY <1>0, <3>1, <3>2 DEF Rest, TransferInv, WriteAhead, AckInv, JournalInv, Acknowledged
  <2>2. CASE ~Matches
    BY <1>1, <2>2, FailureRest DEF GetMessage
  <2> QED
    BY <2>1, <2>2
<1>2. CASE GetTimeout
  BY <1>2, FailureRest DEF GetTimeout, TimeoutResult
<1>3. CASE PollSucceeds
  BY <1>3, SuccessRest
<1>4. CASE PollTimeout
  BY <1>4, FailureRest DEF PollTimeout, TimeoutResult
<1> QED
  BY <1>1, <1>2, <1>3, <1>4 DEF Waiter

\* A recovery rewrites the journalled sector, and distrusts it from then on.
LEMMA RecoverRest == ASSUME IInv, Recover PROVE Rest'
<1>0. TypeInv /\ Rest
  BY DEF IInv, Rest
<1>1. record \in Records
  BY <1>0 DEF Recover, TypeInv, NoRecord
<1>2. record.valid /\ record.lba \in Sectors /\ record.data \in Data
  BY <1>1 DEF Records
<1>3. CASE Accessible
  <2>1. /\ op = Idle /\ Begin("recover", "write", {record.lba}, record.data)
        /\ suspect' = IF acked[slot][record.lba] = Unclear THEN suspect
                      ELSE suspect \cup {<<slot, record.lba>>}
        /\ last' = IF slot = owner THEN last ELSE None
        /\ UNCHANGED <<slot, ready, card, record, acked, owner>>
    BY <1>3 DEF Recover
  <2>2. last' # None => record'.lba = last'[2] /\ owner' = last'[1]
                        /\ slot = last'[1] /\ {record.lba} = {last'[2]}
    BY <1>0, <1>2, <2>1 DEF Rest, JournalInv
  <2>3. {record.lba} \in SUBSET Sectors
    BY <1>2
  <2>4. \A s \in {record.lba} : acked'[slot][s] = Unclear \/ <<slot, s>> \in suspect'
    BY <2>1
  <2>5. \A c \in Cards, s \in Sectors :
          acked'[c][s] = acked[c][s] /\ (<<c, s>> \in suspect => <<c, s>> \in suspect')
    BY <2>1
  <2> QED
    BY <1>2, <1>3, <2>1, <2>2, <2>3, <2>4, <2>5, WriteRest
<1>4. CASE ~Accessible
  BY <1>0, <1>4 DEF Recover, Rest, TransferInv, WriteAhead, AckInv, JournalInv, Acknowledged
<1> QED
  BY <1>3, <1>4

LEMMA SystemRest == ASSUME IInv, System PROVE Rest'
<1>0. TypeInv /\ Rest
  BY DEF IInv, Rest
<1>1. CASE Remount
  <2>1. card' \in CutOff /\ dma' = Idle /\ op = Idle /\ op' = Idle
        /\ UNCHANGED <<record, acked, suspect, owner, last>>
    BY <1>1 DEF Remount, Initialize
  <2> QED
    BY <2>1, CutOffRest
<1>2. CASE Recover
  BY <1>2, RecoverRest
<1>3. CASE Mount
  <2>1. CASE Accessible
    BY <1>3, <2>1, ReadRest DEF Mount, ghosts
  <2>2. CASE ~Accessible
    BY <1>0, <1>3, <2>2
       DEF Mount, ghosts, Rest, TransferInv, WriteAhead, AckInv, JournalInv, Acknowledged
  <2> QED
    BY <2>1, <2>2
<1>4. CASE CardGone
  BY <1>0, <1>4 DEF CardGone, ghosts, Rest, TransferInv, WriteAhead, AckInv, JournalInv, Acknowledged
<1> QED
  BY <1>1, <1>2, <1>3, <1>4 DEF System

LEMMA UserRest == ASSUME IInv, User PROVE Rest'
<1>0. TypeInv /\ Rest
  BY DEF IInv, Rest
<1>1. CASE TakeOut
  <2>1. card' \in CutOff /\ dma' = Idle /\ op' = op /\ ready' = FALSE
        /\ UNCHANGED <<record, acked, suspect, owner, last>>
    BY <1>1 DEF TakeOut
  <2> QED
    BY <2>1, CutOffRest
<1>2. CASE PutIn
  <2>1. dma = Idle /\ dma.kind = "none"
    BY <1>0, <1>2, NoCardNoTransfer DEF Rest, PutIn, Idle
  <2>2. UNCHANGED <<ready, card, record, dma, op, acked, suspect, owner, last>>
    BY <1>2 DEF PutIn, driver, ghosts
  <2> QED
    BY <1>0, <2>1, <2>2 DEF Rest, TransferInv, WriteAhead, AckInv, JournalInv, Acknowledged
<1> QED
  BY <1>1, <1>2 DEF User

\* A reset: the journal is gone, and with it every claim about the last write.
LEMMA PowerLossRest == ASSUME IInv, PowerLoss PROVE Rest'
<1>0. TypeInv /\ Rest
  BY DEF IInv, Rest
<1>1. /\ last' = None /\ op' = Idle /\ UNCHANGED <<acked, suspect>>
  BY DEF PowerLoss
<1>2. dma' = Idle /\ (card' = card \/ card' \in CutOff)
  <2>1. CASE slot # None
    BY <2>1 DEF PowerLoss, Initialize
  <2>2. CASE slot = None
    BY <1>0, <2>2, NoCardNoTransfer DEF PowerLoss, Rest
  <2> QED
    BY <2>1, <2>2
<1>3. op'.kind = "none" /\ dma'.kind = "none"
  BY <1>1, <1>2 DEF Idle
<1>4. TransferInv' /\ WriteAhead' /\ AckInv' /\ JournalInv'
  BY <1>1, <1>2, <1>3 DEF TransferInv, WriteAhead, AckInv, JournalInv
<1>5. \A c \in Cards, s \in Sectors :
        card'[c][s] # card[c][s] => dma.kind = "write" /\ c = dma.card /\ s \in dma.block
  BY <1>0, <1>2, CutOffOnlyItsBlock DEF Rest
<1>6. Acknowledged'
  BY <1>0, <1>1, <1>5 DEF Rest, AckInv, Acknowledged
<1> QED
  BY <1>4, <1>6 DEF Rest

LEMMA RestNext == ASSUME IInv, [Next]_vars PROVE Rest'
<1>1. CASE TransferFailed
  <2>1. /\ card' \in CutOff /\ dma' = Idle /\ ready' = ready
        /\ UNCHANGED <<record, acked, suspect, owner, last>>
        /\ op' = IF op.kind = "none" THEN op ELSE [op EXCEPT !.hurt = TRUE]
    BY <1>1 DEF TransferFailed
  <2>2. op \in Ops \/ op = Idle
    BY DEF IInv, TypeInv
  <2>3. CASE op = Idle
    BY <2>1, <2>3, CutOffRest DEF Idle
  <2>4. CASE op # Idle
    <3>1. op' = [op EXCEPT !.hurt = TRUE] /\ op'.hurt
      BY <2>1, <2>2, <2>4 DEF Ops, Idle
    <3> QED
      BY <2>1, <2>4, <3>1, CutOffRest
  <2> QED
    BY <2>3, <2>4
<1>2. CASE UNCHANGED vars
  BY <1>2 DEF IInv, Rest, vars, driver, ghosts,
              TransferInv, WriteAhead, AckInv, JournalInv, Acknowledged
<1> QED
  BY <1>1, <1>2, TransferDoneRest, FileRest, WaiterRest, SystemRest, UserRest, PowerLossRest
     DEF Next, Sdio

-----------------------------------------------------------------------------
(* Theorems                                                                *)

\* Every reachable state of the driver, whatever the faults, satisfies the
\* inductive invariant IInv.
THEOREM SdInvariance == Spec => []IInv
<1>1. Init => IInv
  BY InitInv
<1>2. IInv /\ [Next]_vars => IInv'
  BY TypeNext, RestNext DEF IInv, Rest
<1> QED
  BY <1>1, <1>2, PTL DEF Spec

\* The driver's state is always one the code can be in; at most one message
\* more waits than transfers have outlasted SD_TIMEOUT, so that a queue longer
\* than that never loses one (SDQueueID, sd_diskio.c:31).
THEOREM SdTypeCorrect == Spec => []TypeOK
<1>1. IInv => TypeOK
  <2> SUFFICES ASSUME TypeInv PROVE TypeOK
    BY DEF IInv
  <2>1. record.valid => record.lba \in Sectors /\ record.data \in Data
    <3>1. record = NoRecord => ~record.valid
      BY DEF NoRecord
    <3>2. record \in Records => record.lba \in Sectors /\ record.data \in Data
      BY DEF Records
    <3> QED
      BY <3>1, <3>2 DEF TypeInv
  <2>2. dma.kind \in {"none", "read", "write"} /\ op.kind \in {"none", "read", "write"}
    BY DEF TypeInv, Transfers, Ops, Idle
  <2>3. Len(msgs) <= late + 1
    <3>1. Outstanding \in {0, 1} /\ Awaited \in {0, 1}
      BY DEF Outstanding, Awaited
    <3> QED
      BY <3>1, QueueType DEF TypeInv
  <2> QED
    BY <2>1, <2>2, <2>3 DEF TypeInv, TypeOK, Contents
<1> QED
  BY <1>1, SdInvariance, PTL

\* While a card is being written in a single sector the journal holds that
\* sector and its data (SD_write, journal_backup_sector).
THEOREM WriteAheadHolds == Spec => []WriteAhead
<1>1. IInv => WriteAhead
  BY DEF IInv
<1> QED
  BY <1>1, SdInvariance, PTL

\* A sector differs from what the last successful write of it put there only
\* after a needless recovery, or after a failed write that took an older
\* transfer's message for its own (SD_write, journal_init_and_recover).
THEOREM AcknowledgedHolds == Spec => []Acknowledged
<1>1. IInv => Acknowledged
  BY DEF IInv
<1> QED
  BY <1>1, SdInvariance, PTL

\* A sector the last single-sector write has left torn is in the journal, for
\* the card it is on, until it is written anew (journal_commit only after a
\* success, journal_init_and_recover at every mount).
THEOREM TornIsJournalledHolds == Spec => []TornIsJournalled
<1>1. IInv => TornIsJournalled
  BY DEF IInv, JournalInv, TornIsJournalled
<1> QED
  BY <1>1, SdInvariance, PTL
===============================================================================
