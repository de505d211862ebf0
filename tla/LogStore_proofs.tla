---------------------------- MODULE LogStore_proofs ----------------------------
(***************************************************************************)
(* Proofs about LogStore, for any sizes of the rings, of a page and of the *)
(* queue: what a reader may rely upon is there.                            *)
(***************************************************************************)
EXTENDS LogStore, Integers, TLAPS

Phases == {"idle", "write", "load", "fill", "program", "count", "save"}

TypeInv ==
  /\ queue \in Seq(Kinds)
  /\ task \in [at : Phases, kind : Kinds, n : Nat]
  /\ file \in [0..LogMax - 1 -> Nat] /\ flash \in [0..AlarmMax - 1 -> Nat]
  /\ buffer \in [0..PageSlots - 1 -> Nat] /\ chip \in BOOLEAN
  /\ count \in [Kinds -> Nat] /\ fram \in [Kinds -> Nat]
  /\ kept \in [Kinds -> SUBSET (Nat \ {0})]

\* Only a count that is being saved differs from the one in FRAM.
CountInv == \A k \in Kinds : fram[k] # count[k] => task.at = "save" /\ k = task.kind

\* The log that is being stored is numbered by the count, unless a menu has set
\* that since, and then nothing is relied upon.
NumberInv ==
  /\ task.at \notin {"idle", "save"} =>
       kept[task.kind] = {} \/ task.n = count[task.kind]
  /\ task.at = "write" => task.kind = "system"
  /\ task.at \in {"load", "fill", "program"} => task.kind = "alarm"
  /\ ~chip => kept["alarm"] = {}

\* The buffer's address tells all the slots of a page apart.
WholePage == BufferSlots >= PageSlots

\* Whether log m of its kind is in its slot; of alarms nothing is said of a chip
\* whose buffer address is too narrow for its page.
Stored(k, m) == IF k = "system" THEN file[FileSlot(m - 1)] = m
                ELSE WholePage => flash[FlashSlot(m - 1)] = m

\* Before it is counted the log is in its slot.
WrittenInv ==
  (task.at = "count" /\ (task.kind = "alarm" => chip)) => Stored(task.kind, task.n + 1)

\* The chip's buffer between the steps of a write.
BufferInv ==
  WholePage =>
  LET s == FlashSlot(task.n) IN
  /\ task.at = "fill" => buffer = PageOf(flash, Page(s))
  /\ task.at = "program" => buffer = [PageOf(flash, Page(s)) EXCEPT ![s % PageSlots] = task.n + 1]

\* What is relied upon is there, by the count in RAM and by the one in FRAM.
KeptInv ==
  \A k \in Kinds : \A m \in kept[k] :
    (m \in Within(k, count[k]) \/ m \in Within(k, fram[k])) => Stored(k, m)

IInv == TypeInv /\ CountInv /\ NumberInv /\ WrittenInv /\ BufferInv /\ KeptInv

-----------------------------------------------------------------------------
(* Slots: numbers modulo the size of a ring, and pages of slots            *)

LEMMA DivMod ==
  ASSUME NEW a \in Nat, NEW M \in Nat \ {0}
  PROVE  a \div M \in Nat /\ a % M \in 0..M - 1 /\ a = (a \div M) * M + (a % M)
OBVIOUS

LEMMA FactorOut ==
  ASSUME NEW q \in Int, NEW r \in Int, NEW M \in Nat \ {0}
  PROVE  q * M - r * M = (q - r) * M
OBVIOUS

LEMMA AtLeast ==
  ASSUME NEW q \in Int, NEW M \in Nat \ {0}, q >= 1
  PROVE  q * M >= M
OBVIOUS

LEMMA PageAndPlace ==
  ASSUME NEW p \in Nat, NEW i \in Nat, NEW M \in Nat \ {0}, i < M
  PROVE  (p * M + i) \div M = p /\ (p * M + i) % M = i
OBVIOUS

\* Numbers less than a ring apart have different slots.
LEMMA Differ ==
  ASSUME NEW a \in Nat, NEW b \in Nat, NEW M \in Nat \ {0}, a < b, b - a < M
  PROVE  a % M # b % M
<1> DEFINE q == a \div M
           r == b \div M
<1>1. SUFFICES ASSUME a % M = b % M PROVE FALSE
  OBVIOUS
<1>2. /\ q \in Nat /\ r \in Nat /\ a % M \in Nat
      /\ a = q * M + (a % M) /\ b = r * M + (a % M)
  <2>1. q \in Nat /\ a % M \in Nat /\ a = q * M + (a % M)
    BY DivMod
  <2>2. r \in Nat /\ b % M \in Nat /\ b = r * M + (b % M)
    BY DivMod
  <2> QED
    BY <1>1, <2>1, <2>2
<1> HIDE DEF q, r
<1>3. q * M \in Nat /\ r * M \in Nat
  BY <1>2
<1>4. b - a = r * M - q * M
  BY <1>2, <1>3
<1>5. b - a = (r - q) * M
  BY <1>2, <1>4, FactorOut
<1>6. r - q >= 1 \/ r - q <= 0
  BY <1>2
<1>7. CASE r - q >= 1
  BY <1>2, <1>5, <1>7, AtLeast
<1>8. CASE r - q <= 0
  <2>1. (r - q) * M <= 0
    BY <1>2, <1>8
  <2> QED
    BY <1>5, <2>1
<1> QED
  BY <1>6, <1>7, <1>8

LEMMA NextSlot ==
  ASSUME NEW a \in Nat, NEW M \in Nat \ {0}, (a % M) + 1 < M
  PROVE  (a + 1) % M = (a % M) + 1
<1> DEFINE q == a \div M
           i == (a % M) + 1
<1>1. q \in Nat /\ i \in Nat /\ i < M /\ a + 1 = q * M + i
  <2>1. a \div M \in Nat /\ a % M \in 0..M - 1 /\ a = (a \div M) * M + (a % M)
    BY DivMod
  <2> QED
    BY <2>1
<1> HIDE DEF q, i
<1>2. (q * M + i) % M = i
  BY <1>1, PageAndPlace
<1> QED
  BY <1>1, <1>2 DEF i

LEMMA Sizes ==
  /\ LogMax \in Nat \ {0} /\ AlarmMax \in Nat \ {0} /\ PageSlots \in Nat \ {0}
  /\ BufferSlots \in Nat \ {0} /\ ByteValues \in Nat \ {0} /\ LogMax > 2
BY LogAssumption

LEMMA SlotFacts ==
  /\ \A n \in Nat : FileSlot(n) \in 0..LogMax - 1 /\ FlashSlot(n) \in 0..AlarmMax - 1
  /\ \A s \in 0..AlarmMax - 1 : Page(s) \in Nat /\ s % PageSlots \in 0..PageSlots - 1
                                /\ s = Page(s) * PageSlots + (s % PageSlots)
<1>1. \A n \in Nat : FileSlot(n) \in 0..LogMax - 1 /\ FlashSlot(n) \in 0..AlarmMax - 1
  BY Sizes, DivMod DEF FileSlot, FlashSlot
<1>2. ASSUME NEW s \in 0..AlarmMax - 1
      PROVE  Page(s) \in Nat /\ s % PageSlots \in 0..PageSlots - 1
             /\ s = Page(s) * PageSlots + (s % PageSlots)
  <2>1. s \in Nat
    BY Sizes
  <2> QED
    BY <2>1, Sizes, DivMod DEF Page
<1> QED
  BY <1>1, <1>2

LEMMA PageOfType ==
  ASSUME TypeInv, NEW p \in Nat
  PROVE  /\ PageOf(flash, p) \in [0..PageSlots - 1 -> Nat]
         /\ \A s \in 0..AlarmMax - 1 : Page(s) = p => PageOf(flash, p)[s % PageSlots] = flash[s]
<1>1. PageOf(flash, p) \in [0..PageSlots - 1 -> Nat]
  <2>1. ASSUME NEW i \in 0..PageSlots - 1
        PROVE  (IF p * PageSlots + i < AlarmMax THEN flash[p * PageSlots + i] ELSE Damaged) \in Nat
    <3>1. p * PageSlots \in Nat /\ i \in Nat
      BY Sizes
    <3>2. p * PageSlots + i \in Nat
      BY <3>1
    <3>3. p * PageSlots + i < AlarmMax => p * PageSlots + i \in 0..AlarmMax - 1
      BY <3>2, Sizes
    <3> QED
      BY <3>3 DEF TypeInv, Damaged
  <2> QED
    BY <2>1 DEF PageOf
<1>2. ASSUME NEW s \in 0..AlarmMax - 1, Page(s) = p
      PROVE  PageOf(flash, p)[s % PageSlots] = flash[s]
  <2>1. s % PageSlots \in 0..PageSlots - 1 /\ s = p * PageSlots + (s % PageSlots)
    BY <1>2, SlotFacts
  <2>2. PageOf(flash, p)[s % PageSlots]
          = IF p * PageSlots + (s % PageSlots) < AlarmMax
              THEN flash[p * PageSlots + (s % PageSlots)] ELSE Damaged
    BY <2>1 DEF PageOf
  <2>3. s < AlarmMax
    BY Sizes
  <2> QED
    BY <2>1, <2>2, <2>3
<1> QED
  BY <1>1, <1>2

\* What a count of c still holds is not where the log after it goes.
LEMMA Untouched ==
  ASSUME NEW c \in Nat, NEW m \in Nat \ {0}
  PROVE  /\ m \in Within("system", c) =>
              FileSlot(m - 1) # FileSlot(c) /\ FileSlot(m - 1) # FileSlot(c + 1)
         /\ m \in Within("alarm", c) => FlashSlot(m - 1) # FlashSlot(c)
<1> DEFINE a == m - 1
<1>1. a \in Nat /\ c + 1 \in Nat /\ m = a + 1
  OBVIOUS
<1>2. ASSUME m \in Within("system", c)
      PROVE  FileSlot(m - 1) # FileSlot(c) /\ FileSlot(m - 1) # FileSlot(c + 1)
  <2>1. m <= c /\ m + (LogMax - 2) > c
    BY <1>2 DEF Within, Window
  <2>2. a < c /\ c - a < LogMax /\ a < c + 1 /\ (c + 1) - a < LogMax
    BY <1>1, <2>1, Sizes
  <2> HIDE DEF a
  <2>3. a % LogMax # c % LogMax
    BY <1>1, <2>2, Sizes, Differ
  <2>4. a % LogMax # (c + 1) % LogMax
    <3> DEFINE d == c + 1
    <3>1. d \in Nat /\ a < d /\ d - a < LogMax
      BY <1>1, <2>2
    <3> HIDE DEF d
    <3>2. a % LogMax # d % LogMax
      BY <1>1, <3>1, Sizes, Differ
    <3> QED
      BY <3>2 DEF d
  <2> QED
    BY <2>3, <2>4 DEF FileSlot, a
<1>3. ASSUME m \in Within("alarm", c)
      PROVE  FlashSlot(m - 1) # FlashSlot(c)
  <2>1. m <= c /\ m + (AlarmMax - PageSlots) > c
    BY <1>3 DEF Within, Window
  <2>2. a < c /\ c - a < AlarmMax
    BY <1>1, <2>1, Sizes
  <2> HIDE DEF a
  <2>3. a % AlarmMax # c % AlarmMax
    BY <1>1, <2>2, Sizes, Differ
  <2> QED
    BY <2>3 DEF FlashSlot, a
<1> QED
  BY <1>2, <1>3

\* Of the slots a write makes bad, log m is in none but the one spilt into.
SpiltOnly(bad, m) == FileSlot(m - 1) \in bad => FileSlot(m - 1) = FileSlot(task.n) + 1

\* A write of the file spares what its count still holds in the sectors not torn.
LEMMA FileKept ==
  ASSUME TypeInv, NEW v \in Nat, NEW bad,
         NEW m \in Nat \ {0}, m \in Within("system", task.n), SpiltOnly(bad, m)
  PROVE  FileWritten(FileSlot(task.n), v, bad)[FileSlot(m - 1)] = file[FileSlot(m - 1)]
<1> DEFINE s == FileSlot(task.n)
           t == FileSlot(m - 1)
<1>1. task.n \in Nat /\ m - 1 \in Nat /\ DOMAIN file = 0..LogMax - 1
  BY DEF TypeInv
<1>2. s \in 0..LogMax - 1 /\ t \in 0..LogMax - 1
  BY <1>1, SlotFacts
<1>3. t # s /\ t # FileSlot(task.n + 1)
  BY <1>1, Untouched
<1>4. s + 1 < LogMax => FileSlot(task.n + 1) = s + 1
  BY <1>1, Sizes, NextSlot DEF FileSlot
<1>7. t \in bad => t = s + 1
  BY DEF SpiltOnly
<1> HIDE DEF s, t
<1>5. t # s + 1
  BY <1>2, <1>3, <1>4, Sizes
<1>6. FileWritten(s, v, bad)[t] = file[t]
  BY <1>1, <1>2, <1>3, <1>5, <1>7 DEF FileWritten
<1> QED
  BY <1>6 DEF s, t

LEMMA FileType ==
  ASSUME TypeInv, NEW v \in Nat, NEW bad
  PROVE  /\ FileWritten(FileSlot(task.n), v, bad) \in [0..LogMax - 1 -> Nat]
         /\ FileSlot(task.n) \notin bad =>
              FileWritten(FileSlot(task.n), v, bad)[FileSlot(task.n)] = v
<1>1. task.n \in Nat /\ DOMAIN file = 0..LogMax - 1 /\ file \in [0..LogMax - 1 -> Nat]
  BY DEF TypeInv
<1>2. FileSlot(task.n) \in 0..LogMax - 1
  BY <1>1, SlotFacts
<1> QED
  BY <1>1, <1>2 DEF FileWritten, Damaged

\* The page that is programmed differs from the flash in the slot of the log.
LEMMA ProgramOne ==
  ASSUME TypeInv, BufferInv, WholePage, task.at = "program"
  PROVE  Programmed(Page(FlashSlot(task.n)))
           = [flash EXCEPT ![FlashSlot(task.n)] = task.n + 1]
<1> DEFINE s == FlashSlot(task.n)
           p == Page(s)
           i == s % PageSlots
<1>1. task.n \in Nat /\ DOMAIN flash = 0..AlarmMax - 1
  BY DEF TypeInv
<1>2. s \in 0..AlarmMax - 1 /\ p \in Nat /\ i \in 0..PageSlots - 1 /\ s = p * PageSlots + i
  BY <1>1, SlotFacts
<1>3. buffer = [PageOf(flash, p) EXCEPT ![i] = task.n + 1]
  BY DEF BufferInv
<1>4. PageOf(flash, p) \in [0..PageSlots - 1 -> Nat]
      /\ \A t \in 0..AlarmMax - 1 : Page(t) = p => PageOf(flash, p)[t % PageSlots] = flash[t]
  BY <1>2, PageOfType
<1>5. p = Page(s) /\ i = s % PageSlots
  OBVIOUS
<1> HIDE DEF s, p, i
<1>6. ASSUME NEW t \in 0..AlarmMax - 1
      PROVE  (IF Page(t) = p THEN buffer[t % PageSlots] ELSE flash[t])
               = [flash EXCEPT ![s] = task.n + 1][t]
  <2>1. Page(t) \in Nat /\ t % PageSlots \in 0..PageSlots - 1
        /\ t = Page(t) * PageSlots + (t % PageSlots)
    BY SlotFacts
  <2>2. CASE t = s
    BY <1>1, <1>3, <1>4, <1>5, <2>1, <2>2
  <2>3. CASE t # s /\ Page(t) = p
    <3>1. t % PageSlots # i
      BY <1>2, <2>1, <2>3
    <3> QED
      BY <1>1, <1>3, <1>4, <2>1, <2>3, <3>1
  <2>4. CASE t # s /\ Page(t) # p
    BY <1>1, <2>4
  <2> QED
    BY <2>2, <2>3, <2>4
<1>7. Programmed(p) = [flash EXCEPT ![s] = task.n + 1]
  BY <1>1, <1>6 DEF Programmed
<1> QED
  BY <1>7 DEF p, s

LEMMA ProgrammedType ==
  ASSUME TypeInv, NEW p
  PROVE  Programmed(p) \in [0..AlarmMax - 1 -> Nat]
<1>1. \A t \in 0..AlarmMax - 1 : t % PageSlots \in 0..PageSlots - 1
  BY SlotFacts
<1> QED
  BY <1>1 DEF Programmed, TypeInv

\* While a log is being stored, the counts are its number if anything is relied upon.
LEMMA Numbered ==
  ASSUME TypeInv, CountInv, NumberInv, task.at \notin {"idle", "save"}, NEW m \in kept[task.kind]
  PROVE  count[task.kind] = task.n /\ fram[task.kind] = task.n
<1>1. task.kind \in Kinds
  BY DEF TypeInv
<1> QED
  BY <1>1 DEF CountInv, NumberInv

-----------------------------------------------------------------------------
(* The initial states, and one lemma per action                            *)

LEMMA InitInv ==
  ASSUME Init
  PROVE  IInv
<1>1. Idle \in [at : Phases, kind : Kinds, n : Nat]
  BY DEF Idle, Phases, Kinds
<1>2. TypeInv
  BY <1>1 DEF Init, TypeInv, Damaged
<1>3. CountInv
  BY DEF Init, CountInv
<1>4. task.at = "idle"
  BY DEF Init, Idle
<1>5. NumberInv /\ WrittenInv /\ BufferInv
  BY <1>4 DEF NumberInv, WrittenInv, BufferInv, Init, Kinds
<1>6. KeptInv
  BY DEF Init, KeptInv
<1> QED
  BY <1>2, <1>3, <1>5, <1>6 DEF IInv

\* Steps that leave what is stored, counted and relied upon alone.
LEMMA KeptSame ==
  ASSUME KeptInv, UNCHANGED <<file, flash, count, fram, kept>>
  PROVE  KeptInv'
BY DEF KeptInv, Stored, Within, Window

LEMMA LogWriteInv ==
  ASSUME IInv, NEW k \in Kinds, LogWrite(k)
  PROVE  IInv'
<1>1. UNCHANGED <<task, file, chip, flash, buffer, count, fram, kept>> /\ queue' \in Seq(Kinds)
  BY DEF LogWrite, IInv, TypeInv
<1>2. TypeInv'
  BY <1>1 DEF IInv, TypeInv
<1>3. CountInv' /\ NumberInv' /\ WrittenInv' /\ BufferInv'
  BY <1>1 DEF IInv, CountInv, NumberInv, WrittenInv, BufferInv, Stored, PageOf
<1> QED
  BY <1>1, <1>2, <1>3, KeptSame DEF IInv

LEMMA UnchangedInv ==
  ASSUME IInv, UNCHANGED vars
  PROVE  IInv'
<1>1. TypeInv'
  BY DEF IInv, TypeInv, vars
<1>2. CountInv' /\ NumberInv' /\ WrittenInv' /\ BufferInv'
  BY DEF IInv, CountInv, NumberInv, WrittenInv, BufferInv, Stored, PageOf, vars
<1> QED
  BY <1>1, <1>2, KeptSame DEF IInv, vars

LEMMA ReceiveInv ==
  ASSUME IInv, Receive
  PROVE  IInv'
<1> DEFINE k == Head(queue)
<1>1. k \in Kinds /\ queue' \in Seq(Kinds) /\ count[k] \in Nat
  BY DEF Receive, IInv, TypeInv
<1>2. task' = [at |-> IF k = "system" THEN "write" ELSE IF chip THEN "load" ELSE "count",
               kind |-> k, n |-> count[k]]
      /\ UNCHANGED <<file, chip, flash, buffer, count, fram, kept>>
  BY DEF Receive
<1> HIDE DEF k
<1>3. task' \in [at : Phases, kind : Kinds, n : Nat] /\ task'.kind = k /\ task'.n = count[k]
      /\ task'.at = IF k = "system" THEN "write" ELSE IF chip THEN "load" ELSE "count"
  BY <1>1, <1>2 DEF Phases
<1>4. TypeInv'
  BY <1>1, <1>2, <1>3 DEF IInv, TypeInv
<1>5. CountInv'
  BY <1>2 DEF IInv, CountInv, Receive
<1>6. NumberInv'
  BY <1>1, <1>2, <1>3 DEF IInv, NumberInv, Kinds
<1>7. WrittenInv' /\ BufferInv'
  BY <1>1, <1>2, <1>3 DEF WrittenInv, BufferInv, Kinds
<1> QED
  BY <1>2, <1>4, <1>5, <1>6, <1>7, KeptSame DEF IInv

\* A write of the file, whole or not, while a log of the system is being stored.
LEMMA FileStep ==
  ASSUME IInv, task.at = "write", NEW v \in Nat, NEW bad,
         file' = FileWritten(FileSlot(task.n), v, bad),
         UNCHANGED <<flash, count, fram>>,
         \A k \in Kinds : kept'[k] \subseteq kept[k],
         \A m \in kept'["system"] : SpiltOnly(bad, m)
  PROVE  KeptInv' /\ file' \in [0..LogMax - 1 -> Nat]
<1>1. task.kind = "system" /\ TypeInv
  BY DEF IInv, NumberInv
<1>2. file' \in [0..LogMax - 1 -> Nat]
  BY <1>1, FileType
<1>3. ASSUME NEW k \in Kinds, NEW m \in kept'[k],
             m \in Within(k, count'[k]) \/ m \in Within(k, fram'[k])
      PROVE  IF k = "system" THEN file'[FileSlot(m - 1)] = m
             ELSE WholePage => flash'[FlashSlot(m - 1)] = m
  <2>1. m \in Nat \ {0} /\ m \in kept[k] /\ Stored(k, m)
    BY <1>3 DEF IInv, TypeInv, KeptInv
  <2>2. CASE k = "system"
    <3>1. m \in Within("system", task.n)
      BY <1>1, <1>3, <2>1, <2>2, Numbered DEF IInv
    <3>3. SpiltOnly(bad, m)
      BY <1>3, <2>2
    <3>2. file'[FileSlot(m - 1)] = file[FileSlot(m - 1)]
      BY <1>1, <2>1, <3>1, <3>3, FileKept
    <3> QED
      BY <2>1, <2>2, <3>2 DEF Stored
  <2>3. CASE k # "system"
    BY <2>1, <2>3 DEF Stored
  <2> QED
    BY <2>2, <2>3
<1>4. KeptInv'
  BY <1>3 DEF KeptInv, Stored, Within, Window
<1> QED
  BY <1>2, <1>4

LEMMA WriteFileInv ==
  ASSUME IInv, WriteFile
  PROVE  IInv'
<1>1. PICK spill \in Spill(FileSlot(task.n)) :
        file' = FileWritten(FileSlot(task.n), task.n + 1, spill)
  BY DEF WriteFile
<1>2. task.at = "write" /\ task' = [task EXCEPT !.at = "count"]
      /\ UNCHANGED <<queue, chip, flash, buffer, count, fram, kept>>
  BY DEF WriteFile
<1>3. task.n + 1 \in Nat /\ task.kind = "system"
  BY <1>2 DEF IInv, TypeInv, NumberInv
<1>4. KeptInv' /\ file' \in [0..LogMax - 1 -> Nat] /\ file'[FileSlot(task.n)] = task.n + 1
  <2>1. \A m : SpiltOnly(spill, m)
    BY DEF Spill, SpiltOnly
  <2>2. KeptInv' /\ file' \in [0..LogMax - 1 -> Nat]
    BY <1>1, <1>2, <1>3, <2>1, FileStep
  <2>3. FileSlot(task.n) \notin spill
    <3>1. FileSlot(task.n) \in Nat
      BY SlotFacts DEF IInv, TypeInv
    <3> QED
      BY <3>1 DEF Spill
  <2>4. file'[FileSlot(task.n)] = task.n + 1
    BY <1>1, <1>3, <2>3, FileType DEF IInv
  <2> QED
    BY <2>2, <2>4
<1>5. task' \in [at : Phases, kind : Kinds, n : Nat] /\ task'.at = "count"
      /\ task'.kind = task.kind /\ task'.n = task.n
  BY <1>2 DEF IInv, TypeInv, Phases
<1>6. TypeInv'
  BY <1>2, <1>4, <1>5 DEF IInv, TypeInv
<1>7. CountInv' /\ NumberInv' /\ BufferInv'
  BY <1>2, <1>5 DEF IInv, CountInv, NumberInv, BufferInv
<1>8. WrittenInv'
  <2>1. task.n + 1 - 1 = task.n
    BY DEF IInv, TypeInv
  <2> QED
    BY <1>3, <1>4, <1>5, <2>1 DEF WrittenInv, Stored, FileSlot
<1> QED
  BY <1>4, <1>6, <1>7, <1>8 DEF IInv

LEMMA WriteFailsInv ==
  ASSUME IInv, WriteFails
  PROVE  IInv'
<1>1. PICK spill \in Spill(FileSlot(task.n)), torn \in Tears(FileSlot(task.n)),
           v \in {file[FileSlot(task.n)], Damaged, task.n + 1} :
        /\ file' = FileWritten(FileSlot(task.n), v, spill \cup torn)
        /\ kept' = [kept EXCEPT !["system"] = Spared(torn)]
  BY DEF WriteFails, FailedWrite
<1>9. PICK bad : bad = spill \cup torn
  OBVIOUS
<1>2. task.at = "write" /\ task' = Idle
      /\ UNCHANGED <<queue, chip, flash, buffer, count, fram>>
  BY DEF WriteFails
<1>8. /\ kept' \in [Kinds -> SUBSET (Nat \ {0})]
      /\ \A k \in Kinds : kept'[k] \subseteq kept[k]
      /\ \A m \in kept'["system"] : SpiltOnly(bad, m)
  <2>1. kept \in [Kinds -> SUBSET (Nat \ {0})]
    BY DEF IInv, TypeInv
  <2>2. Spared(torn) \subseteq kept["system"] /\ \A m \in Spared(torn) : SpiltOnly(bad, m)
    BY <1>9 DEF Spared, Spill, SpiltOnly
  <2> QED
    BY <1>1, <2>1, <2>2 DEF Kinds
<1>3. v \in Nat
  <2>1. FileSlot(task.n) \in 0..LogMax - 1 /\ task.n \in Nat
    BY SlotFacts DEF IInv, TypeInv
  <2> QED
    BY <2>1 DEF IInv, TypeInv, Damaged
<1>4. KeptInv' /\ file' \in [0..LogMax - 1 -> Nat]
  <2>1. file' = FileWritten(FileSlot(task.n), v, bad)
    BY <1>1, <1>9
  <2> QED
    BY <1>2, <1>3, <1>8, <2>1, FileStep
<1>5. task' \in [at : Phases, kind : Kinds, n : Nat] /\ task'.at = "idle"
  BY <1>2 DEF Idle, Phases, Kinds
<1>6. TypeInv'
  BY <1>2, <1>4, <1>5, <1>8 DEF IInv, TypeInv
<1>7. CountInv' /\ NumberInv' /\ BufferInv' /\ WrittenInv'
  BY <1>2, <1>5, <1>8 DEF Kinds, IInv, CountInv, NumberInv, BufferInv, WrittenInv
<1> QED
  BY <1>4, <1>6, <1>7 DEF IInv

LEMMA LoadPageInv ==
  ASSUME IInv, LoadPage
  PROVE  IInv'
<1>1. task.at = "load" /\ task' = [task EXCEPT !.at = "fill"]
      /\ buffer' = PageOf(flash, Page(FlashSlot(task.n)))
      /\ UNCHANGED <<queue, file, chip, flash, count, fram, kept>>
  BY DEF LoadPage
<1>2. task' \in [at : Phases, kind : Kinds, n : Nat] /\ task'.at = "fill"
      /\ task'.kind = task.kind /\ task'.n = task.n
  BY <1>1 DEF IInv, TypeInv, Phases
<1>3. buffer' \in [0..PageSlots - 1 -> Nat]
  <2>1. Page(FlashSlot(task.n)) \in Nat
    BY SlotFacts DEF IInv, TypeInv
  <2> QED
    BY <1>1, <2>1, PageOfType DEF IInv
<1>4. TypeInv'
  BY <1>1, <1>2, <1>3 DEF IInv, TypeInv
<1>5. CountInv' /\ NumberInv' /\ WrittenInv'
  BY <1>1, <1>2 DEF IInv, CountInv, NumberInv, WrittenInv
<1>6. BufferInv'
  BY <1>1, <1>2 DEF BufferInv, PageOf, Page, FlashSlot
<1> QED
  BY <1>1, <1>4, <1>5, <1>6, KeptSame DEF IInv

LEMMA FillBufferInv ==
  ASSUME IInv, FillBuffer
  PROVE  IInv'
<1> DEFINE s == FlashSlot(task.n)
<1>1. task.at = "fill" /\ task' = [task EXCEPT !.at = "program"]
      /\ buffer' = [buffer EXCEPT ![BufferAddress(s)] = task.n + 1]
      /\ UNCHANGED <<queue, file, chip, flash, count, fram, kept>>
  BY DEF FillBuffer
<1>2. task' \in [at : Phases, kind : Kinds, n : Nat] /\ task'.at = "program"
      /\ task'.kind = task.kind /\ task'.n = task.n /\ task.n \in Nat
  BY <1>1 DEF IInv, TypeInv, Phases
<1>3. s \in 0..AlarmMax - 1
  BY <1>2, SlotFacts
<1>4. WholePage => buffer = PageOf(flash, Page(s))
  BY <1>1 DEF IInv, BufferInv
<1> HIDE DEF s
<1>5. s % PageSlots \in 0..PageSlots - 1
  BY <1>3, SlotFacts
<1>6. ASSUME WholePage PROVE BufferAddress(s) = s % PageSlots
  <2> DEFINE i == s % PageSlots
  <2>1. i \in Nat /\ i < BufferSlots
    BY <1>5, <1>6, Sizes DEF WholePage
  <2> HIDE DEF i
  <2>2. (0 * BufferSlots + i) % BufferSlots = i
    BY <2>1, Sizes, PageAndPlace
  <2>3. 0 * BufferSlots + i = i
    BY <2>1, Sizes
  <2> QED
    BY <2>2, <2>3 DEF BufferAddress, i
<1>7. buffer' \in [0..PageSlots - 1 -> Nat]
  <2>1. buffer \in [0..PageSlots - 1 -> Nat] /\ task.n + 1 \in Nat
    BY <1>2 DEF IInv, TypeInv
  <2> QED
    BY <1>1, <2>1
<1>8. TypeInv'
  BY <1>1, <1>2, <1>7 DEF IInv, TypeInv
<1>9. CountInv' /\ NumberInv' /\ WrittenInv'
  BY <1>1, <1>2 DEF IInv, CountInv, NumberInv, WrittenInv
<1>10. BufferInv'
  BY <1>1, <1>2, <1>4, <1>6 DEF BufferInv, PageOf, Page, FlashSlot, s
<1> QED
  BY <1>1, <1>8, <1>9, <1>10, KeptSame DEF IInv

\* The log replaces another in the flash.
LEMMA FlashStep ==
  ASSUME IInv, task.at = "program",
         WholePage => flash' = [flash EXCEPT ![FlashSlot(task.n)] = task.n + 1],
         NEW k \in Kinds, NEW m \in kept[k],
         m \in Within(k, count[k]) \/ m \in Within(k, fram[k]), UNCHANGED file
  PROVE  IF k = "system" THEN file'[FileSlot(m - 1)] = m
             ELSE WholePage => flash'[FlashSlot(m - 1)] = m
<1>1. task.kind = "alarm" /\ TypeInv /\ task.n \in Nat
  BY DEF IInv, NumberInv, TypeInv
<1>2. m \in Nat \ {0} /\ Stored(k, m)
  BY DEF IInv, TypeInv, KeptInv
<1>3. CASE k = "system"
  BY <1>2, <1>3 DEF Stored
<1>4. CASE k = "alarm"
  <2>1. m \in Within("alarm", task.n)
    BY <1>1, <1>2, <1>4, Numbered DEF IInv
  <2>2. FlashSlot(m - 1) # FlashSlot(task.n)
    BY <1>1, <1>2, <2>1, Untouched
  <2>3. m - 1 \in Nat
    BY <1>2
  <2>4. FlashSlot(m - 1) \in DOMAIN flash
    BY <1>1, <2>3, SlotFacts DEF TypeInv
  <2> QED
    BY <1>2, <1>4, <2>2, <2>4 DEF Stored
<1> QED
  BY <1>3, <1>4 DEF Kinds

LEMMA ProgramPageInv ==
  ASSUME IInv, ProgramPage
  PROVE  IInv'
<1> DEFINE s == FlashSlot(task.n)
<1>1. task.at = "program" /\ task' = [task EXCEPT !.at = "count"]
      /\ flash' = Programmed(Page(s))
      /\ UNCHANGED <<queue, file, chip, buffer, count, fram, kept>>
  BY DEF ProgramPage
<1>2. task' \in [at : Phases, kind : Kinds, n : Nat] /\ task'.at = "count"
      /\ task'.kind = task.kind /\ task'.n = task.n /\ task.n \in Nat /\ task.kind = "alarm"
  BY <1>1 DEF IInv, TypeInv, NumberInv, Phases
<1>3. WholePage => flash' = [flash EXCEPT ![s] = task.n + 1]
  BY <1>1, ProgramOne DEF IInv
<1>4. s \in 0..AlarmMax - 1
  BY <1>2, SlotFacts
<1>5. flash' \in [0..AlarmMax - 1 -> Nat] /\ (WholePage => flash'[s] = task.n + 1)
  <2>1. flash' \in [0..AlarmMax - 1 -> Nat]
    BY <1>1, ProgrammedType DEF IInv
  <2> QED
    BY <1>2, <1>3, <1>4, <2>1 DEF IInv, TypeInv
<1>6. TypeInv'
  BY <1>1, <1>2, <1>5 DEF IInv, TypeInv
<1>7. CountInv' /\ NumberInv' /\ BufferInv'
  BY <1>1, <1>2 DEF IInv, CountInv, NumberInv, BufferInv
<1>8. WrittenInv'
  <2>1. task.n + 1 - 1 = task.n
    BY <1>2
  <2> QED
    BY <1>2, <1>5, <2>1 DEF WrittenInv, Stored, FlashSlot
<1>9. \A k \in Kinds : \A m \in kept[k] :
        (m \in Within(k, count[k]) \/ m \in Within(k, fram[k])) =>
          IF k = "system" THEN file'[FileSlot(m - 1)] = m
             ELSE WholePage => flash'[FlashSlot(m - 1)] = m
  BY <1>1, <1>3, FlashStep
<1>10. KeptInv'
  BY <1>1, <1>9 DEF KeptInv, Stored, Within, Window
<1> QED
  BY <1>6, <1>7, <1>8, <1>10 DEF IInv

LEMMA ReadAlarmInv ==
  ASSUME IInv, NEW s \in 0..AlarmMax - 1, ReadAlarm(s)
  PROVE  IInv'
<1>1. task.at \notin {"fill", "program"} /\ buffer' = PageOf(flash, Page(s))
      /\ UNCHANGED <<queue, task, file, chip, flash, count, fram, kept>>
  BY DEF ReadAlarm
<1>2. buffer' \in [0..PageSlots - 1 -> Nat]
  BY <1>1, SlotFacts, PageOfType DEF IInv
<1>3. TypeInv'
  BY <1>1, <1>2 DEF IInv, TypeInv
<1>4. CountInv' /\ NumberInv' /\ WrittenInv' /\ BufferInv'
  BY <1>1 DEF IInv, CountInv, NumberInv, WrittenInv, BufferInv, Stored
<1> QED
  BY <1>1, <1>3, <1>4, KeptSame DEF IInv

LEMMA CountUpInv ==
  ASSUME IInv, CountUp
  PROVE  IInv'
<1> DEFINE K == task.kind
           c == task.n + 1
<1>1. task.at = "count" /\ count' = [count EXCEPT ![K] = c] /\ task' = [task EXCEPT !.at = "save"]
      /\ UNCHANGED <<queue, file, chip, flash, buffer, fram>>
      /\ kept' = [kept EXCEPT ![K] = IF K = "alarm" /\ ~chip THEN kept[K]
                                      ELSE (kept[K] \cup {c}) \cap Within(K, c)]
  BY DEF CountUp
<1>2. K \in Kinds /\ c \in Nat \ {0} /\ task.n \in Nat /\ kept \in [Kinds -> SUBSET (Nat \ {0})]
      /\ count \in [Kinds -> Nat] /\ c = task.n + 1
  BY DEF IInv, TypeInv
<1>3. task'.at = "save" /\ task'.kind = K /\ task' \in [at : Phases, kind : Kinds, n : Nat]
  BY <1>1 DEF IInv, TypeInv, Phases
<1>4. IF K = "alarm" /\ ~chip THEN kept' = kept
      ELSE kept' = [kept EXCEPT ![K] = (kept[K] \cup {c}) \cap Within(K, c)]
  BY <1>1, <1>2
<1>5. (K = "alarm" => chip) => Stored(K, c)
  BY <1>1 DEF IInv, WrittenInv
<1>6. \A m \in kept[K] : count[K] = task.n /\ fram[K] = task.n
  BY <1>1, Numbered DEF IInv
<1>7. ~chip => kept["alarm"] = {}
  BY DEF IInv, NumberInv
<1> HIDE DEF K, c
<1>8. kept' \in [Kinds -> SUBSET (Nat \ {0})]
  <2>1. (kept[K] \cup {c}) \cap Within(K, c) \in SUBSET (Nat \ {0})
    BY <1>2
  <2> QED
    BY <1>2, <1>4, <2>1
<1>9. TypeInv'
  BY <1>1, <1>2, <1>3, <1>8 DEF IInv, TypeInv
<1>10. CountInv'
  <2>1. ASSUME NEW k \in Kinds, k # K
        PROVE  fram'[k] = count'[k]
    BY <1>1, <1>2, <2>1 DEF IInv, CountInv
  <2> QED
    BY <1>3, <2>1 DEF CountInv
<1>11. NumberInv'
  <2>1. ~chip => kept'["alarm"] = {}
    BY <1>2, <1>4, <1>7 DEF Kinds
  <2> QED
    BY <1>1, <1>3, <2>1 DEF NumberInv
<1>12. WrittenInv' /\ BufferInv'
  BY <1>3 DEF WrittenInv, BufferInv
<1>13. ASSUME NEW k \in Kinds, NEW m \in kept'[k],
              m \in Within(k, count'[k]) \/ m \in Within(k, fram'[k])
       PROVE  Stored(k, m)
  <2>1. CASE k # K
    BY <1>1, <1>2, <1>4, <1>13, <2>1 DEF IInv, KeptInv
  <2>2. CASE k = K /\ K = "alarm" /\ ~chip
    BY <1>4, <1>7, <1>13, <2>2
  <2>3. CASE k = K /\ ~(K = "alarm" /\ ~chip)
    <3>1. m \in (kept[K] \cup {c}) \cap Within(K, c)
      BY <1>2, <1>4, <1>13, <2>3
    <3>2. CASE m = c
      BY <1>5, <2>3, <3>2
    <3>3. CASE m # c
      <4>1. m \in kept[K] /\ count[K] = task.n
        BY <1>6, <3>1, <3>3
      <4>2. m \in Nat \ {0} /\ m \in Within(K, c)
        BY <1>2, <3>1, <4>1
      <4>3. Window(K) \in Int
        BY Sizes DEF Window
      <4>4. m \in Within(K, task.n)
        BY <1>2, <3>3, <4>2, <4>3 DEF Within
      <4> QED
        BY <1>2, <2>3, <4>1, <4>4 DEF IInv, KeptInv
    <3> QED
      BY <3>2, <3>3
  <2> QED
    BY <2>1, <2>2, <2>3
<1>14. KeptInv'
  BY <1>1, <1>13 DEF KeptInv, Stored, Within, Window
<1> QED
  BY <1>9, <1>10, <1>11, <1>12, <1>14 DEF IInv

LEMMA SaveCountsInv ==
  ASSUME IInv, SaveCounts
  PROVE  IInv'
<1>1. fram' = count /\ task' = Idle
      /\ UNCHANGED <<queue, file, chip, flash, buffer, count, kept>>
  BY DEF SaveCounts
<1>2. task' \in [at : Phases, kind : Kinds, n : Nat] /\ task'.at = "idle"
  BY <1>1 DEF Idle, Phases, Kinds
<1>3. TypeInv'
  BY <1>1, <1>2 DEF IInv, TypeInv
<1>4. CountInv'
  BY <1>1 DEF CountInv
<1>5. NumberInv' /\ WrittenInv' /\ BufferInv'
  BY <1>1, <1>2 DEF IInv, NumberInv, WrittenInv, BufferInv
<1>6. KeptInv'
  BY <1>1 DEF IInv, KeptInv, Stored, Within, Window
<1> QED
  BY <1>3, <1>4, <1>5, <1>6 DEF IInv

LEMMA MenuSetInv ==
  ASSUME IInv, NEW k \in Kinds, NEW v \in MenuCounts, MenuSet(k, v)
  PROVE  IInv'
<1>1. count' = [count EXCEPT ![k] = v] /\ fram' = count' /\ kept' = [kept EXCEPT ![k] = {}]
      /\ UNCHANGED <<queue, task, file, chip, flash, buffer>>
  BY DEF MenuSet
<1>2. v \in Nat
  <2>1. MenuCounts \subseteq 0..LogMax
    BY LogAssumption
  <2> QED
    BY <2>1, Sizes
<1>3. count' \in [Kinds -> Nat] /\ kept' \in [Kinds -> SUBSET (Nat \ {0})]
  BY <1>1, <1>2 DEF IInv, TypeInv
<1>4. TypeInv'
  BY <1>1, <1>3 DEF IInv, TypeInv
<1>5. CountInv'
  BY <1>1 DEF CountInv
<1>6. \A j \in Kinds : kept'[j] = {} \/ (j # k /\ kept'[j] = kept[j] /\ count'[j] = count[j])
  BY <1>1 DEF IInv, TypeInv
<1>7. NumberInv'
  <2>1. task.kind \in Kinds /\ "alarm" \in Kinds
    BY DEF IInv, TypeInv, Kinds
  <2> QED
    BY <1>1, <1>6, <2>1 DEF IInv, NumberInv
<1>8. WrittenInv' /\ BufferInv'
  BY <1>1 DEF IInv, WrittenInv, BufferInv, Stored, PageOf
<1>9. ASSUME NEW j \in Kinds, NEW m \in kept'[j], m \in Within(j, count'[j])
      PROVE  Stored(j, m)
  BY <1>6, <1>9 DEF IInv, KeptInv
<1>10. KeptInv'
  BY <1>1, <1>9 DEF KeptInv, Stored, Within, Window
<1> QED
  BY <1>4, <1>5, <1>7, <1>8, <1>10 DEF IInv

\* After the power fails what is relied upon is there, by the counts in FRAM:
\* a page or a sector that was lost takes the logs in it with it.
LEMMA CutStored ==
  ASSUME IInv, NEW w \in Nat, NEW bad,
         file' = IF task.at = "write" THEN FileWritten(FileSlot(task.n), w, bad) ELSE file,
         NEW p, p = Page(FlashSlot(task.n)),
         \/ flash' = flash
         \/ /\ task.at = "program"
            /\ flash' = [s \in DOMAIN flash |-> IF Page(s) = p THEN Damaged ELSE flash[s]]
         \/ /\ task.at = "program"
            /\ flash' = Programmed(p),
         NEW k \in Kinds, NEW m \in kept[k],
         m \in Within(k, count[k]) \/ m \in Within(k, fram[k]),
         k = "system" => SpiltOnly(bad, m),
         k = "alarm" =>
           \/ flash' = flash \/ (flash' = Programmed(p) /\ task.at = "program")
           \/ Page(FlashSlot(m - 1)) # p
  PROVE  IF k = "system" THEN file'[FileSlot(m - 1)] = m
             ELSE WholePage => flash'[FlashSlot(m - 1)] = m
<1>1. TypeInv /\ task.n \in Nat /\ m \in Nat \ {0} /\ m - 1 \in Nat /\ Stored(k, m)
  <2>1. TypeInv /\ task.n \in Nat /\ m \in Nat \ {0}
    BY DEF IInv, TypeInv
  <2>2. m - 1 \in Nat
    BY <2>1
  <2> QED
    BY <2>1, <2>2 DEF IInv, KeptInv
<1>2. CASE k = "system"
  <2>1. CASE task.at = "write"
    <3>1. task.kind = "system"
      BY <2>1 DEF IInv, NumberInv
    <3>2. m \in Within("system", task.n)
      BY <1>1, <1>2, <2>1, <3>1, Numbered DEF IInv
    <3>4. SpiltOnly(bad, m)
      BY <1>2
    <3>5. FileWritten(FileSlot(task.n), w, bad)[FileSlot(m - 1)] = file[FileSlot(m - 1)]
      BY <1>1, <3>2, <3>4, FileKept
    <3>3. file'[FileSlot(m - 1)] = file[FileSlot(m - 1)]
      BY <2>1, <3>5
    <3> QED
      BY <1>1, <1>2, <3>3 DEF Stored
  <2>2. CASE task.at # "write"
    BY <1>1, <1>2, <2>2 DEF Stored
  <2> QED
    BY <2>1, <2>2
<1>3. CASE k = "alarm"
  <2>1. FlashSlot(m - 1) \in DOMAIN flash /\ (WholePage => flash[FlashSlot(m - 1)] = m)
    BY <1>1, <1>3, SlotFacts DEF TypeInv, Stored
  <2>2. CASE flash' = flash
    BY <1>3, <2>1, <2>2
  <2>3. CASE task.at = "program" /\ flash' = Programmed(p)
    <3>1. WholePage => flash' = [flash EXCEPT ![FlashSlot(task.n)] = task.n + 1]
      BY <1>1, <2>3, ProgramOne DEF IInv
    <3>2. task.kind = "alarm"
      BY <2>3 DEF IInv, NumberInv
    <3>3. m \in Within("alarm", task.n)
      BY <1>1, <1>3, <2>3, <3>2, Numbered DEF IInv
    <3>4. FlashSlot(m - 1) # FlashSlot(task.n)
      BY <1>1, <3>3, Untouched
    <3> QED
      BY <1>3, <2>1, <3>1, <3>4
  <2>4. CASE /\ Page(FlashSlot(m - 1)) # p
             /\ flash' = [s \in DOMAIN flash |-> IF Page(s) = p THEN Damaged ELSE flash[s]]
    BY <1>3, <2>1, <2>4
  <2> QED
    BY <1>3, <2>2, <2>3, <2>4
<1> QED
  BY <1>2, <1>3 DEF Kinds

\* The three outcomes of a page being programmed, and what they leave to rely upon.
LEMMA PowerCutInv ==
  ASSUME IInv, PowerCut
  PROVE  IInv'
<1> DEFINE s == FileSlot(task.n)
           p == Page(FlashSlot(task.n))
           lost == [t \in DOMAIN flash |-> IF Page(t) = p THEN Damaged ELSE flash[t]]
           inPage == {m \in kept["alarm"] : Page(FlashSlot(m - 1)) = p}
<1>1. queue' = <<>> /\ task' = Idle /\ count' = fram' /\ chip' = chip
      /\ buffer' = [i \in DOMAIN buffer |-> Damaged]
  BY DEF PowerCut
<1>2. TypeInv /\ task.n \in Nat /\ task.kind \in Kinds
  BY DEF IInv, TypeInv
<1>4. PICK x \in {file[s], task.n + 1}, spill \in Spill(s),
           torn \in IF task.at = "write" THEN Tears(s) ELSE {{}},
           program \in IF task.at = "program" THEN {"before", "during", "after"} ELSE {"before"},
           v \in IF task.at = "save" THEN Torn(fram[task.kind], count[task.kind])
                                     ELSE {fram[task.kind]} :
        /\ file' = IF task.at = "write" THEN FileWritten(s, x, spill \cup torn) ELSE file
        /\ flash' = CASE program = "before" -> flash
                      [] program = "during" -> lost
                      [] program = "after"  -> Programmed(p)
        /\ fram' = [fram EXCEPT ![task.kind] = v]
        /\ kept' = [k \in Kinds |->
                      IF k = task.kind /\ v \notin {fram[k], count[k]} THEN {}
                      ELSE IF k = "system" THEN Spared(torn)
                      ELSE IF program = "during" THEN kept[k] \ inPage
                      ELSE kept[k]]
  BY DEF PowerCut
<1>3. PICK w \in Nat : w = x
  <2>1. FileSlot(task.n) \in 0..LogMax - 1
    BY <1>2, SlotFacts
  <2> QED
    BY <1>2, <2>1 DEF TypeInv
<1>19. PICK bad : bad = spill \cup torn
  OBVIOUS
<1>18. Spared(torn) \subseteq kept["system"] /\ \A m \in Spared(torn) : SpiltOnly(bad, m)
  BY <1>19 DEF Spared, Spill, SpiltOnly
<1>5. v \in Nat
  <2>1. fram[task.kind] \in Nat /\ count[task.kind] \in Nat
    BY <1>2 DEF TypeInv
  <2>2. Torn(fram[task.kind], count[task.kind]) \subseteq Nat
    <3> DEFINE a == fram[task.kind]
               b == count[task.kind]
    <3>1. a \in Nat /\ b \in Nat
      BY <2>1
    <3> HIDE DEF a, b
    <3>2. a \div ByteValues \in Nat /\ b % ByteValues \in Nat
      BY <3>1, Sizes, DivMod
    <3>3. (a \div ByteValues) * ByteValues + (b % ByteValues) \in Nat
      BY <3>2, Sizes
    <3>4. Torn(a, b) \subseteq Nat
      BY <3>1, <3>3 DEF Torn
    <3> QED
      BY <3>4 DEF a, b
  <2> QED
    BY <2>1, <2>2
<1>6. \/ program = "before" /\ flash' = flash
      \/ program = "during" /\ task.at = "program" /\ flash' = lost
      \/ program = "after" /\ task.at = "program" /\ flash' = Programmed(p)
  <2>1. program \in {"before", "during", "after"} /\ (program # "before" => task.at = "program")
    BY <1>4
  <2> QED
    BY <1>4, <2>1
<1>7. task' \in [at : Phases, kind : Kinds, n : Nat] /\ task'.at = "idle"
  BY <1>1 DEF Idle, Phases, Kinds
<1>8. file' \in [0..LogMax - 1 -> Nat]
  <2>3. file' = IF task.at = "write" THEN FileWritten(FileSlot(task.n), w, bad) ELSE file
    BY <1>3, <1>4, <1>19
  <2>1. FileWritten(FileSlot(task.n), w, bad) \in [0..LogMax - 1 -> Nat]
    BY <1>2, FileType
  <2>2. file \in [0..LogMax - 1 -> Nat]
    BY <1>2 DEF TypeInv
  <2> QED
    BY <2>1, <2>2, <2>3
<1>9. flash' \in [0..AlarmMax - 1 -> Nat]
  <2>1. flash \in [0..AlarmMax - 1 -> Nat]
    BY <1>2 DEF TypeInv
  <2>2. lost \in [0..AlarmMax - 1 -> Nat]
    BY <2>1 DEF Damaged
  <2>3. Programmed(p) \in [0..AlarmMax - 1 -> Nat]
    BY <1>2, ProgrammedType
  <2> QED
    BY <1>6, <2>1, <2>2, <2>3
<1>10. buffer' \in [0..PageSlots - 1 -> Nat]
  BY <1>1, <1>2 DEF TypeInv, Damaged
<1>11. fram' \in [Kinds -> Nat] /\ kept' \in [Kinds -> SUBSET (Nat \ {0})]
  <2>1. fram' \in [Kinds -> Nat]
    BY <1>2, <1>4, <1>5 DEF TypeInv
  <2>2. \A k \in Kinds : kept'[k] \subseteq kept[k]
    BY <1>4, <1>18
  <2>3. kept' = [k \in Kinds |-> kept'[k]]
    BY <1>4
  <2>4. kept' \in [Kinds -> SUBSET (Nat \ {0})]
    BY <1>2, <2>2, <2>3 DEF TypeInv
  <2> QED
    BY <2>1, <2>4
<1>12. TypeInv'
  BY <1>1, <1>2, <1>7, <1>8, <1>9, <1>10, <1>11 DEF TypeInv
<1>13. CountInv'
  BY <1>1 DEF CountInv
<1>14. NumberInv' /\ WrittenInv' /\ BufferInv'
  <2>1. ~chip => kept["alarm"] = {}
    BY DEF IInv, NumberInv
  <2>2. ~chip' => kept'["alarm"] = {}
    <3>1. kept'["alarm"] \subseteq kept["alarm"]
      BY <1>4 DEF Kinds
    <3> QED
      BY <1>1, <2>1, <3>1
  <2> QED
    BY <1>7, <2>2 DEF NumberInv, WrittenInv, BufferInv
<1>15. \A k \in Kinds : kept'[k] = {} \/ fram'[k] = fram[k] \/ fram'[k] = count[k]
  BY <1>2, <1>4 DEF TypeInv
<1>16. ASSUME NEW k \in Kinds, NEW m \in kept'[k], m \in Within(k, fram'[k])
       PROVE  IF k = "system" THEN file'[FileSlot(m - 1)] = m
             ELSE WholePage => flash'[FlashSlot(m - 1)] = m
  <2>1. m \in kept[k] /\ (k = "system" => SpiltOnly(bad, m))
    BY <1>4, <1>16, <1>18
  <2>2. m \in Within(k, count[k]) \/ m \in Within(k, fram[k])
    BY <1>15, <1>16
  <2>3. k = "alarm" /\ program = "during" => Page(FlashSlot(m - 1)) # p
    BY <1>4, <1>16, <2>1
  <2>4. p = Page(FlashSlot(task.n))
    OBVIOUS
  <2>5. lost = [t \in DOMAIN flash |-> IF Page(t) = p THEN Damaged ELSE flash[t]]
    OBVIOUS
  <2> HIDE DEF p, lost
  <2>6. \/ flash' = flash
        \/ /\ task.at = "program"
           /\ flash' = [t \in DOMAIN flash |-> IF Page(t) = p THEN Damaged ELSE flash[t]]
        \/ /\ task.at = "program"
           /\ flash' = Programmed(p)
    BY <1>6, <2>5
  <2>7. k = "alarm" =>
          \/ flash' = flash \/ (flash' = Programmed(p) /\ task.at = "program")
          \/ Page(FlashSlot(m - 1)) # p
    BY <1>6, <2>3
  <2>8. file' = IF task.at = "write" THEN FileWritten(FileSlot(task.n), w, bad) ELSE file
    BY <1>3, <1>4, <1>19
  <2> HIDE DEF s
  <2> QED
    BY <2>1, <2>2, <2>4, <2>6, <2>7, <2>8, CutStored
<1>17. KeptInv'
  BY <1>1, <1>16 DEF KeptInv, Stored, Within, Window
<1> QED
  BY <1>12, <1>13, <1>14, <1>17 DEF IInv

LEMMA NextInv ==
  ASSUME IInv, [Next]_vars
  PROVE  IInv'
<1>1. CASE UNCHANGED vars
  BY <1>1, UnchangedInv
<1>2. ASSUME NEW k \in Kinds, LogWrite(k) PROVE IInv'
  BY <1>2, LogWriteInv
<1>3. CASE Receive
  BY <1>3, ReceiveInv
<1>4. CASE WriteFile
  BY <1>4, WriteFileInv
<1>5. CASE WriteFails
  BY <1>5, WriteFailsInv
<1>6. CASE LoadPage
  BY <1>6, LoadPageInv
<1>7. CASE FillBuffer
  BY <1>7, FillBufferInv
<1>8. CASE ProgramPage
  BY <1>8, ProgramPageInv
<1>9. ASSUME NEW s \in 0..AlarmMax - 1, ReadAlarm(s) PROVE IInv'
  BY <1>9, ReadAlarmInv
<1>10. CASE CountUp
  BY <1>10, CountUpInv
<1>11. CASE SaveCounts
  BY <1>11, SaveCountsInv
<1>12. ASSUME NEW k \in Kinds, NEW v \in MenuCounts, MenuSet(k, v) PROVE IInv'
  BY <1>12, MenuSetInv
<1>13. CASE PowerCut
  BY <1>13, PowerCutInv
<1> QED
  BY <1>1, <1>2, <1>3, <1>4, <1>5, <1>6, <1>7, <1>8, <1>9, <1>10, <1>11, <1>12, <1>13 DEF Next

-----------------------------------------------------------------------------
(***************************************************************************)
(* The inductive invariant; what it says of the flash is for a chip whose  *)
(* buffer address reaches the whole page, as with pages of 256 bytes.      *)
(***************************************************************************)
THEOREM LogInvariance == Spec => []IInv
<1>1. Init => IInv
  BY InitInv
<1>2. IInv /\ [Next]_vars => IInv'
  BY NextInv
<1> QED
  BY <1>1, <1>2, PTL DEF Spec

(***************************************************************************)
(* save_log: the last LOG_COUNT_MAX - 2 logs that were counted are in the  *)
(* file under their numbers, but those of a sector that a write tore which *)
(* failed or was cut off, for a ring and sectors of any size; writes that  *)
(* spill into the next slot cost none of them.                             *)
(***************************************************************************)
THEOREM SystemKeptHolds == Spec => []SystemKept
<1>1. IInv => SystemKept
  BY DEF IInv, KeptInv, SystemKept, Stored, Kinds
<1> QED
  BY <1>1, LogInvariance, PTL

(***************************************************************************)
(* alarm_save_log with at45db_write and at45db_read: whoever reads the     *)
(* flash meanwhile, the alarms of every page but one lost to a power cut   *)
(* are there, for a flash and pages of any size.                           *)
(***************************************************************************)
THEOREM AlarmKeptHolds ==
  ASSUME BufferSlots >= PageSlots
  PROVE  Spec => []AlarmKept
<1>1. IInv => AlarmKept
  BY DEF IInv, KeptInv, AlarmKept, Stored, WholePage, Kinds
<1> QED
  BY <1>1, LogInvariance, PTL

-----------------------------------------------------------------------------
(* The types, whatever the buffer's address tells apart: a count is never  *)
(* more than a byte beyond what was numbered or entered.                   *)

Bounded ==
  /\ TypeOK
  /\ task.at # "save" => fram = count
  /\ task.at # "idle" => /\ fram[task.kind] <= MaxCount + LogMax
                         /\ count[task.kind] <= MaxCount + LogMax
  /\ task.at \notin {"idle", "save"} => task.n < MaxCount

\* The rings and the buffer take numbers of logs.
LEMMA NumberFacts ==
  /\ MaxCount \in Nat /\ Damaged \in Numbers
  /\ \A n \in Nat : n < MaxCount => n + 1 \in Numbers
  /\ \A v \in MenuCounts : v \in Numbers /\ v <= MaxCount + LogMax
  /\ \A n \in Numbers : n \in Nat
<1>1. LogMax \in Nat \ {0} /\ ByteValues \in Nat \ {0} /\ MaxCount \in Nat
  BY LogAssumption
<1>2. \A v \in MenuCounts : v \in 0..LogMax
  BY LogAssumption
<1>3. \A v \in 0..LogMax : v \in Nat /\ v <= MaxCount + LogMax
                         /\ v <= MaxCount + LogMax + ByteValues
  BY <1>1
<1>4. \A v : v \in Numbers <=> v \in Nat /\ v <= MaxCount + LogMax + ByteValues
  BY <1>1 DEF Numbers
<1>5. \A n \in Nat : n < MaxCount => n + 1 \in Nat /\ n + 1 <= MaxCount + LogMax + ByteValues
  BY <1>1
<1>6. Damaged \in Nat /\ Damaged <= MaxCount + LogMax + ByteValues
  BY <1>1 DEF Damaged
<1> QED
  BY <1>1, <1>2, <1>3, <1>4, <1>5, <1>6

LEMMA IdleBounded ==
  /\ Idle \in [at : {"idle", "write", "load", "fill", "program", "count", "save"},
              kind : Kinds, n : Numbers]
  /\ Idle.at = "idle"
BY NumberFacts DEF Idle, Kinds, Damaged

LEMMA FileBounded ==
  ASSUME TypeOK, NEW s, NEW v \in Numbers, NEW bad
  PROVE  FileWritten(s, v, bad) \in [0..LogMax - 1 -> Numbers]
BY NumberFacts DEF TypeOK, FileWritten

LEMMA PageBounded ==
  ASSUME TypeOK, NEW p \in Nat
  PROVE  PageOf(flash, p) \in [0..PageSlots - 1 -> Numbers]
<1>1. ASSUME NEW i \in 0..PageSlots - 1
      PROVE  (IF p * PageSlots + i < AlarmMax THEN flash[p * PageSlots + i] ELSE Damaged)
               \in Numbers
  <2>1. p * PageSlots + i \in Nat
    BY Sizes
  <2> QED
    BY <2>1, Sizes, NumberFacts DEF TypeOK
<1> QED
  BY <1>1 DEF PageOf

LEMMA ProgrammedBounded ==
  ASSUME TypeOK, NEW p
  PROVE  Programmed(p) \in [0..AlarmMax - 1 -> Numbers]
<1>1. \A s \in 0..AlarmMax - 1 : s % PageSlots \in 0..PageSlots - 1
  BY SlotFacts
<1> QED
  BY <1>1 DEF TypeOK, Programmed

LEMMA TornBounded ==
  ASSUME NEW old \in Nat, NEW new \in Numbers, old <= MaxCount + LogMax,
         NEW v \in Torn(old, new)
  PROVE  v \in Numbers
<1>1. old \in Numbers
  BY LogAssumption DEF Numbers
<1>2. CASE v = (old \div ByteValues) * ByteValues + (new % ByteValues)
  <2>4. ByteValues \in Nat \ {0} /\ new \in Nat
    BY Sizes, NumberFacts
  <2>1. /\ old \div ByteValues \in Nat /\ old % ByteValues \in 0..ByteValues - 1
        /\ old = (old \div ByteValues) * ByteValues + (old % ByteValues)
    BY <2>4, DivMod
  <2>2. new % ByteValues \in 0..ByteValues - 1
    BY <2>4, DivMod
  <2>3. (old \div ByteValues) * ByteValues \in Nat
    BY <2>1, Sizes
  <2> QED
    BY <1>2, <2>1, <2>2, <2>3, Sizes, NumberFacts DEF Numbers
<1> QED
  BY <1>1, <1>2 DEF Torn

LEMMA StoringBounded ==
  ASSUME Bounded, WriteFile \/ WriteFails \/ LoadPage \/ FillBuffer \/ ProgramPage
  PROVE  Bounded'
<1>1. task.n \in Nat /\ task.n < MaxCount /\ task.n + 1 \in Numbers
  BY NumberFacts DEF Bounded, TypeOK, WriteFile, WriteFails, LoadPage, FillBuffer, ProgramPage
<1>2. FileSlot(task.n) \in 0..LogMax - 1 /\ FlashSlot(task.n) \in 0..AlarmMax - 1
  BY <1>1, SlotFacts
<1>3. CASE WriteFile
  <2>1. file' \in [0..LogMax - 1 -> Numbers]
    BY <1>1, <1>3, FileBounded DEF Bounded, WriteFile
  <2> QED
    BY <1>3, <2>1 DEF Bounded, TypeOK, WriteFile
<1>4. CASE WriteFails
  <2>1. file' \in [0..LogMax - 1 -> Numbers]
    <3>1. file[FileSlot(task.n)] \in Numbers
      BY <1>2 DEF Bounded, TypeOK
    <3>2. PICK v \in {file[FileSlot(task.n)], Damaged, task.n + 1} :
            \E bad : file' = FileWritten(FileSlot(task.n), v, bad)
      BY <1>4 DEF WriteFails, FailedWrite
    <3>3. v \in Numbers
      BY <1>1, <3>1, NumberFacts
    <3> QED
      BY <3>2, <3>3, FileBounded DEF Bounded
  <2>2. kept' \in [Kinds -> SUBSET Numbers]
    <3>1. kept \in [Kinds -> SUBSET Numbers]
      BY DEF Bounded, TypeOK
    <3>2. PICK torn : kept' = [kept EXCEPT !["system"] = Spared(torn)]
      BY <1>4 DEF WriteFails, FailedWrite
    <3>3. Spared(torn) \subseteq kept["system"]
      BY DEF Spared
    <3> QED
      BY <3>1, <3>2, <3>3 DEF Kinds
  <2>3. /\ UNCHANGED <<queue, chip, flash, buffer, count, fram>> /\ task' = Idle
        /\ task.at = "write"
    BY <1>4 DEF WriteFails
  <2> QED
    BY <2>1, <2>2, <2>3, IdleBounded DEF Bounded, TypeOK
<1>5. CASE LoadPage
  <2>1. buffer' \in [0..PageSlots - 1 -> Numbers]
    BY <1>2, <1>5, SlotFacts, PageBounded DEF Bounded, LoadPage
  <2> QED
    BY <1>5, <2>1 DEF Bounded, TypeOK, LoadPage
<1>6. CASE FillBuffer
  BY <1>1, <1>6 DEF Bounded, TypeOK, FillBuffer
<1>7. CASE ProgramPage
  <2>1. flash' \in [0..AlarmMax - 1 -> Numbers]
    BY <1>7, ProgrammedBounded DEF Bounded, ProgramPage
  <2> QED
    BY <1>7, <2>1 DEF Bounded, TypeOK, ProgramPage
<1> QED
  BY <1>3, <1>4, <1>5, <1>6, <1>7

LEMMA CountingBounded ==
  ASSUME Bounded, CountUp \/ SaveCounts
  PROVE  Bounded'
<1>1. CASE CountUp
  <2>1. task.n \in Nat /\ task.n < MaxCount /\ task.n + 1 \in Numbers /\ task.kind \in Kinds
    BY <1>1, NumberFacts DEF Bounded, TypeOK, CountUp
  <2>2. kept' \in [Kinds -> SUBSET Numbers]
    <3>1. CASE task.kind = "alarm" /\ ~chip
      BY <1>1, <3>1 DEF Bounded, TypeOK, CountUp
    <3>2. CASE ~(task.kind = "alarm" /\ ~chip)
      <4>1. (kept[task.kind] \cup {task.n + 1}) \cap Within(task.kind, task.n + 1)
              \in SUBSET Numbers
        BY <2>1 DEF Bounded, TypeOK
      <4> QED
        BY <1>1, <2>1, <3>2, <4>1 DEF Bounded, TypeOK, CountUp
    <3> QED
      BY <3>1, <3>2
  <2> QED
    <3>1. count' = [count EXCEPT ![task.kind] = task.n + 1] /\ task' = [task EXCEPT !.at = "save"]
          /\ UNCHANGED <<queue, file, chip, flash, buffer, fram>> /\ task.at = "count"
      BY <1>1 DEF CountUp
    <3>2. count' \in [Kinds -> Numbers] /\ count'[task.kind] = task.n + 1
      BY <2>1, <3>1 DEF Bounded, TypeOK
    <3>3. task.n + 1 <= MaxCount + LogMax
      BY <2>1, Sizes, NumberFacts
    <3>4. task' \in [at : {"idle", "write", "load", "fill", "program", "count", "save"},
                     kind : Kinds, n : Numbers]
          /\ task'.at = "save" /\ task'.kind = task.kind
      BY <3>1 DEF Bounded, TypeOK
    <3> QED
      BY <2>2, <3>1, <3>2, <3>3, <3>4 DEF Bounded, TypeOK
<1>2. CASE SaveCounts
  BY <1>2, NumberFacts DEF Bounded, TypeOK, SaveCounts, Idle, Kinds, Damaged
<1> QED
  BY <1>1, <1>2

LEMMA CutBounded ==
  ASSUME Bounded, PowerCut
  PROVE  Bounded'
<1> DEFINE p == Page(FlashSlot(task.n))
<1>1. task.n \in Nat /\ task.kind \in Kinds
  BY NumberFacts DEF Bounded, TypeOK
<1>2. FileSlot(task.n) \in 0..LogMax - 1 /\ FlashSlot(task.n) \in 0..AlarmMax - 1
  BY <1>1, SlotFacts
<1>3. file' \in [0..LogMax - 1 -> Numbers]
  <2>1. CASE task.at = "write"
    <3>1. task.n + 1 \in Numbers /\ file[FileSlot(task.n)] \in Numbers
      BY <1>1, <1>2, <2>1, NumberFacts DEF Bounded, TypeOK
    <3>2. PICK v \in {file[FileSlot(task.n)], task.n + 1} :
            \E bad : file' = FileWritten(FileSlot(task.n), v, bad)
      BY <2>1 DEF PowerCut
    <3>3. v \in Numbers
      BY <3>1, <3>2
    <3> QED
      BY <3>2, <3>3, FileBounded DEF Bounded
  <2>2. CASE task.at # "write"
    BY <2>2 DEF Bounded, TypeOK, PowerCut
  <2> QED
    BY <2>1, <2>2
<1>4. flash' \in [0..AlarmMax - 1 -> Numbers]
  <2>1. \/ flash' = flash
        \/ flash' = [s \in DOMAIN flash |-> IF Page(s) = p THEN Damaged ELSE flash[s]]
        \/ flash' = Programmed(p)
    BY DEF PowerCut
  <2>2. [s \in DOMAIN flash |-> IF Page(s) = p THEN Damaged ELSE flash[s]]
          \in [0..AlarmMax - 1 -> Numbers]
    BY NumberFacts DEF Bounded, TypeOK
  <2> QED
    BY <2>1, <2>2, ProgrammedBounded DEF Bounded, TypeOK
<1>5. fram' \in [Kinds -> Numbers] /\ kept' \in [Kinds -> SUBSET Numbers]
  <2>1. DOMAIN kept' = Kinds /\ \A k \in Kinds : kept'[k] \in SUBSET kept[k]
    <3>1. PICK torn : \E program \in {"before", "during", "after"} :
                        \E v \in Torn(fram[task.kind], count[task.kind]) \cup {fram[task.kind]} :
            kept' = [k \in Kinds |->
                      IF k = task.kind /\ v \notin {fram[k], count[k]} THEN {}
                      ELSE IF k = "system" THEN Spared(torn)
                      ELSE IF program = "during"
                           THEN kept[k] \ {m \in kept["alarm"] : Page(FlashSlot(m - 1)) = p}
                           ELSE kept[k]]
      BY DEF PowerCut
    <3>2. Spared(torn) \in SUBSET kept["system"]
      BY DEF Spared
    <3> QED
      BY <3>1, <3>2 DEF Kinds
  <2> DEFINE saved == IF task.at = "save" THEN Torn(fram[task.kind], count[task.kind])
                                          ELSE {fram[task.kind]}
  <2>2. PICK v \in saved : fram' = [fram EXCEPT ![task.kind] = v]
    BY DEF PowerCut
  <2>3. v \in Numbers
    <3>1. fram[task.kind] \in Numbers /\ count[task.kind] \in Numbers
      BY <1>1 DEF Bounded, TypeOK
    <3>2. CASE task.at = "save"
      BY <2>2, <3>1, <3>2, NumberFacts, TornBounded DEF Bounded
    <3> QED
      BY <2>2, <3>1, <3>2
  <2>4. fram' \in [Kinds -> Numbers]
    BY <2>2, <2>3 DEF Bounded, TypeOK
  <2>5. \A k \in Kinds : kept[k] \in SUBSET Numbers
    BY DEF Bounded, TypeOK
  <2> HIDE DEF saved
  <2>6. kept' \in [Kinds -> SUBSET Numbers]
    <3>1. kept' = [k \in Kinds |-> kept'[k]]
      BY DEF PowerCut
    <3> QED
      BY <2>1, <2>5, <3>1
  <2> QED
    BY <2>4, <2>6
<1>6. buffer' \in [0..PageSlots - 1 -> Numbers]
  BY NumberFacts DEF Bounded, TypeOK, PowerCut
<1>7. /\ queue' = <<>> /\ task' = Idle /\ count' = fram' /\ chip' = chip
  BY DEF PowerCut
<1>8. <<>> \in Seq(Kinds) /\ Len(<<>>) <= QueueSize
  BY LogAssumption
<1> QED
  BY <1>3, <1>4, <1>5, <1>6, <1>7, <1>8, IdleBounded DEF Bounded, TypeOK

LEMMA NextBounded ==
  ASSUME Bounded, [Next]_vars
  PROVE  Bounded'
<1>1. CASE UNCHANGED vars
  BY <1>1 DEF vars, Bounded, TypeOK
<1>2. ASSUME NEW k \in Kinds, LogWrite(k) PROVE Bounded'
  BY <1>2, LogAssumption DEF Bounded, TypeOK, LogWrite
<1>3. CASE Receive
  <2>1. /\ Head(queue) \in Kinds /\ Tail(queue) \in Seq(Kinds) /\ Len(Tail(queue)) <= QueueSize
        /\ Len(queue) \in Nat
    <3>1. queue \in Seq(Kinds) /\ Len(queue) <= QueueSize /\ queue # <<>>
      BY <1>3 DEF Bounded, TypeOK, Receive
    <3>2. Len(queue) \in Nat /\ Head(queue) \in Kinds /\ Tail(queue) \in Seq(Kinds)
          /\ Len(Tail(queue)) = Len(queue) - 1
      BY <3>1, SMTT(30)
    <3> QED
      BY <3>1, <3>2, LogAssumption
  <2>2. count[Head(queue)] \in Numbers /\ count[Head(queue)] < MaxCount
    BY <1>3, <2>1 DEF Bounded, TypeOK, Receive
  <2>3. fram[Head(queue)] <= MaxCount + LogMax
    BY <1>3, <2>2, Sizes, NumberFacts DEF Bounded, Receive
  <2> QED
    BY <1>3, <2>1, <2>2, <2>3 DEF Bounded, TypeOK, Receive
<1>4. ASSUME NEW s \in 0..AlarmMax - 1, ReadAlarm(s) PROVE Bounded'
  <2>1. buffer' \in [0..PageSlots - 1 -> Numbers]
    BY <1>4, SlotFacts, PageBounded DEF Bounded, ReadAlarm
  <2> QED
    BY <1>4, <2>1 DEF Bounded, TypeOK, ReadAlarm
<1>5. ASSUME NEW k \in Kinds, NEW v \in MenuCounts, MenuSet(k, v) PROVE Bounded'
  <2>1. v \in Numbers /\ v <= MaxCount + LogMax
    BY NumberFacts
  <2>2. count' \in [Kinds -> Numbers] /\ fram' = count' /\ kept' \in [Kinds -> SUBSET Numbers]
    BY <1>5, <2>1 DEF Bounded, TypeOK, MenuSet
  <2>3. task.at # "idle" => fram'[task.kind] <= MaxCount + LogMax
    BY <1>5, <2>1 DEF Bounded, TypeOK, MenuSet
  <2> QED
    BY <1>5, <2>2, <2>3 DEF Bounded, TypeOK, MenuSet
<1> QED
  BY <1>1, <1>2, <1>3, <1>4, <1>5, StoringBounded, CountingBounded, CutBounded DEF Next

(***************************************************************************)
(* Every variable of the log store has its type, for any sizes and any     *)
(* width of a byte: the queue is within its size, the rings have their     *)
(* slots, and a count torn by a power cut is still less than a byte beyond *)
(* what was numbered or entered.                                           *)
(***************************************************************************)
THEOREM LogTypeCorrect == Spec => []TypeOK
<1>1. Init => Bounded
  <2> SUFFICES ASSUME Init PROVE Bounded
    OBVIOUS
  <2>1. <<>> \in Seq(Kinds) /\ Len(<<>>) <= QueueSize
    BY LogAssumption
  <2>2. 0 \in Numbers
    BY NumberFacts DEF Damaged
  <2> QED
    BY <2>1, <2>2, NumberFacts, IdleBounded DEF Init, Bounded, TypeOK
<1>2. Bounded /\ [Next]_vars => Bounded'
  BY NextBounded
<1>3. Bounded => TypeOK
  BY DEF Bounded
<1> QED
  BY <1>1, <1>2, <1>3, PTL DEF Spec
===============================================================================
