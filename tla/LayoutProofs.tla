---------------------------- MODULE LayoutProofs ----------------------------
(***************************************************************************)
(* Theorems about Layout for every number of tasks, every table, every     *)
(* file and every width of a u32 that is a multiple of 8: instructions,    *)
(* uniforms and read buffers stay aligned (Aligned), files are read whole  *)
(* (Loaded), linking and the control block are sound (LinkedSoundly,       *)
(* ControlledSoundly), and the assertions keep the regions apart even when *)
(* mem_size's sum has wrapped (KeptApart).  SizesMatch compares that sum   *)
(* with the space init_mem takes; it rests on what a fold over a finite    *)
(* set returns, which SumEmpty and SumRemove say.                          *)
(***************************************************************************)
EXTENDS Layout, SequenceTheorems, FiniteSetTheorems, TLAPS

-----------------------------------------------------------------------------
(* The inductive invariant                                                 *)

\* The table is one that the layout relies on; nothing changes it.
TableInv ==
  /\ ntasks \in 1 .. MaxTasks
  /\ active \in [Slot -> BOOLEAN]
  /\ size \in [Slot -> Word]
  /\ \A i \in Tasks : active[<<i, "inst">>]
  /\ \A s \in FileSlot : active[s] =>
       /\ file[s] \in Named[s[2]] /\ file[s] \in Files
       /\ size[s] = FileSize[file[s]] /\ size[s] % Factor[s[2]] = 0

\* Slots are placed in the order of PlacedBefore, and all of them are before
\* link_mem starts.
PlaceInv ==
  /\ placed \subseteq InUse
  /\ offset \in [Slot -> Word] /\ used \in Word
  /\ pc = "size" => placed = {} /\ data = 0
  /\ pc \in {"link", "ready"} => placed = InUse
  /\ \A s \in placed, t \in Unplaced : PlacedBefore(s, t)

\* What has been placed so far decides how far the next region is aligned.
AlignInv ==
  /\ pc = "place" =>
       /\ (\A s \in placed : s[2] = "inst") => used % 8 = 0
       /\ (\A s \in placed : s \notin BufSlot) => used % 4 = 0
  /\ RegionsAligned

LoadInv ==
  /\ length \in [Files -> Nat]
  /\ \A f \in Files : length[f] <= FileSize[f]
  /\ count \in [FileSlot -> Nat]
  /\ LoadedWhole

\* With the assertions, everything placed lies between the control block and
\* used, one region behind the other.
ApartInv ==
  Debug /\ data \in CtlSize .. U32 - 1 =>
    /\ used \in CtlSize .. data
    /\ \A s \in placed : offset[s] >= CtlSize /\ offset[s] + size[s] <= used
    /\ \A s, t \in placed : s # t => \/ offset[s] + size[s] <= offset[t]
                                     \/ offset[t] + size[t] <= offset[s]

Instruction == [op : Op, addr : Word \union {Null}]

\* Task i has been linked: its placeholders stand for regions, and its buffers
\* are referred to.
IsLinked(i) ==
  /\ \A j \in DOMAIN text[i] :
       text[i][j].op \in Placeholder =>
         /\ active[Target(i, text[i][j].op)]
         /\ text[i][j].addr = offset[Target(i, text[i][j].op)]
  /\ \A k \in {"rbuf", "wbuf"} : active[<<i, k>>] =>
       \E j \in DOMAIN text[i] : text[i][j].addr = offset[<<i, k>>]

LinkInv ==
  /\ text \in [Task -> Seq(Instruction)]
  /\ linked \in 0 .. ntasks /\ linkError \in BOOLEAN
  /\ pc \in {"size", "place"} => linked = 0
  /\ pc = "ready" => linked = ntasks /\ ~linkError
  /\ pc \in {"link", "ready"} /\ ~linkError => \A i \in 0 .. linked - 1 : IsLinked(i)

\* What WriteControl wrote.
ControlInv ==
  pc \in {"link", "ready"} =>
    control = [i \in Task |->
                 IF i \in Tasks
                 THEN [unif |-> UnifOf(i), inst |-> offset[<<i, "inst">>]]
                 ELSE [unif |-> Null, inst |-> Null]]

PcInv == pc \in {"size", "place", "link", "ready", "failed", "abort"}

IInv == /\ PcInv /\ TableInv /\ PlaceInv /\ AlignInv /\ LoadInv
        /\ ApartInv /\ LinkInv /\ ControlInv

USE MaxTasksAssumption, U32Assumption, U32LayoutAssumption, FilesAssumption,
    BufSizesAssumption, NullAssumption

-----------------------------------------------------------------------------
(* Slots                                                                   *)

\* Every slot holds a file or a size, never both.
LEMMA SlotKinds ==
  /\ FileSlot \subseteq Slot /\ BufSlot \subseteq Slot
  /\ \A s \in Slot : s \notin BufSlot <=> s \in FileSlot
  /\ \A s \in BufSlot : s[2] = "wbuf"
  /\ \A s \in FileSlot : s[2] \in FileKind /\ s[1] \in Owner
BY DEF Slot, FileSlot, BufSlot, Kind, FileKind, Owner, Glob, Task

\* The slots of a counted task, and the placeholders' targets, are slots.
LEMMA TaskSlots ==
  ASSUME TableInv, NEW i \in Tasks
  PROVE  /\ i \in Task
         /\ \A k \in Kind : <<i, k>> \in Slot
         /\ \A op \in Placeholder : /\ Target(i, op) \in Slot
                                    /\ Target(i, op)[1] < ntasks
<1>1. i \in Task
  BY DEF TableInv, Tasks, Task
<1>2. \A k \in Kind : <<i, k>> \in Slot
  BY <1>1 DEF Slot, Kind, FileKind, Owner, Glob, Task
<1>3. <<Glob, "rbuf">> \in Slot /\ <<Glob, "wbuf">> \in Slot
  BY DEF Slot, Kind, FileKind, Owner, Glob
<1>4. ntasks > Glob /\ i < ntasks
  BY DEF TableInv, Tasks, Glob
<1>5. \A op \in Placeholder :
        Target(i, op) \in {<<Glob, "rbuf">>, <<Glob, "wbuf">>, <<i, "rbuf">>, <<i, "wbuf">>}
  BY DEF Placeholder, Target
<1>6. QED
  BY <1>1, <1>2, <1>3, <1>4, <1>5 DEF Kind, FileKind

\* Sums of multiples of 4 and 8 stay multiples when they wrap.
LEMMA WrapAligned ==
  ASSUME NEW a \in Word, NEW b \in Word
  PROVE  /\ (a + b) % U32 \in Word
         /\ a % 8 = 0 /\ b % 8 = 0 => ((a + b) % U32) % 8 = 0
         /\ a % 4 = 0 /\ b % 4 = 0 => ((a + b) % U32) % 4 = 0
         /\ a % 8 = 0 => a % 4 = 0
<1>1. CASE a + b < U32
  <2>1. (a + b) % U32 = a + b
    BY <1>1 DEF Word
  <2>2. QED
    BY <2>1, <1>1 DEF Word
<1>2. CASE a + b >= U32
  <2>1. (a + b) % U32 = (a + b) - U32
    BY <1>2 DEF Word
  <2>2. QED
    BY <2>1, <1>2 DEF Word
<1>3. QED
  BY <1>1, <1>2 DEF Word

-----------------------------------------------------------------------------
(* Initial states                                                          *)

\* The invariant holds of every table that init may be given.
LEMMA InitInv ==
  ASSUME Init
  PROVE  IInv
<1>1. PcInv /\ ControlInv
  BY DEF Init, PcInv, ControlInv
<1>2. TableInv
  <2>1. /\ ntasks \in 1 .. MaxTasks
        /\ \A x \in FileSlot : active[x] => Loads(file[x], x) /\ file[x] \in Files
    <3>1. /\ file \in [{x \in FileSlot : active[x]} -> Files]
          /\ \A x \in DOMAIN file : Loads(file[x], x)
      BY DEF Init
    <3>2. QED
      BY <3>1 DEF Init
  <2>2. PICK others \in SUBSET {x \in Slot : x[1] < ntasks /\ x[2] # "inst"} :
          active = [x \in Slot |-> x \in others \/ (x[2] = "inst" /\ x[1] < ntasks)]
    BY DEF Init
  <2>3. active \in [Slot -> BOOLEAN]
    BY <2>2
  <2>4. \A i \in Tasks : active[<<i, "inst">>]
    <3>1. \A i \in Tasks : i < ntasks /\ i \in Task
      BY <2>1 DEF Tasks, Task
    <3>2. \A i \in Tasks : <<i, "inst">> \in Slot
      BY <3>1 DEF Slot, Owner, Kind, FileKind, Glob, Task
    <3>3. QED
      BY <2>2, <3>1, <3>2
  <2>5. PICK n \in [{x \in BufSlot : active[x]} -> BufSizes] :
          size = [x \in Slot |-> IF ~active[x] THEN 0
                                 ELSE IF x \in BufSlot THEN n[x]
                                 ELSE FileSize[file[x]]]
    BY DEF Init
  <2>6. \A x \in Slot : size[x] \in Word
    <3> SUFFICES ASSUME NEW x \in Slot PROVE size[x] \in Word
      OBVIOUS
    <3>1. CASE ~active[x]
      BY <2>5, <3>1 DEF Word
    <3>2. CASE active[x] /\ x \in BufSlot
      BY <2>5, <3>2
    <3>3. CASE active[x] /\ x \notin BufSlot
      BY <2>1, <2>5, <3>3, SlotKinds
    <3>4. QED
      BY <3>1, <3>2, <3>3
  <2>7. size \in [Slot -> Word]
    BY <2>5, <2>6
  <2>8. \A x \in FileSlot : active[x] => size[x] = FileSize[file[x]]
    BY <2>5, SlotKinds
  <2>9. QED
    BY <2>1, <2>3, <2>4, <2>7, <2>8 DEF TableInv, Loads
<1>3. PlaceInv
  BY DEF Init, PlaceInv, Word
<1>4. AlignInv
  BY DEF Init, AlignInv, RegionsAligned
<1>5. LoadInv
  BY DEF Init, LoadInv, LoadedWhole, Word
<1>6. ApartInv
  BY DEF Init, ApartInv, CtlSize
<1>7. LinkInv
  <2>1. text \in [Task -> Seq(Instruction)]
    BY DEF Init
  <2>2. linked = 0 /\ linkError = FALSE /\ pc = "size"
    BY DEF Init
  <2>3. ntasks \in 1 .. MaxTasks
    BY <1>2 DEF TableInv
  <2>4. linked \in 0 .. ntasks
    BY <2>2, <2>3
  <2>5. pc # "ready" /\ pc # "link"
    BY <2>2
  <2>6. QED
    BY <2>1, <2>2, <2>4, <2>5, Zenon DEF LinkInv
<1>8. QED
  BY <1>1, <1>2, <1>3, <1>4, <1>5, <1>6, <1>7 DEF IInv

-----------------------------------------------------------------------------
(* init_file and init_buf                                                  *)

\* What Reserve does to the slots and their offsets.
LEMMA Reserved ==
  ASSUME PlaceInv, NEW s \in Slot, Reserve(s)
  PROVE  /\ placed' = placed \union {s} /\ data' = data
         /\ offset' \in [Slot -> Word]
         /\ offset'[s] = used /\ \A t \in Slot \ {s} : offset'[t] = offset[t]
         /\ used' = (used + size[s]) % U32
BY DEF Reserve, PlaceInv

\* The slot that is next comes behind everything placed and before the rest.
LEMMA ReservePlace ==
  ASSUME TableInv, PlaceInv, NEW s \in Slot, IsNext(s), Reserve(s), UNCHANGED <<pc, table>>
  PROVE  PlaceInv'
<1>1. s \in InUse \ placed
  BY DEF IsNext, Unplaced
<1>2. InUse' = InUse
  BY DEF table, InUse
<1>3. used' \in Word
  BY Reserved, WrapAligned DEF PlaceInv, TableInv
<1>4. Unplaced' = Unplaced \ {s}
  BY <1>2, Reserved DEF Unplaced
<1>5. \A x \in placed', t \in Unplaced' : PlacedBefore(x, t)
  BY <1>4, Reserved DEF PlaceInv, IsNext
<1>6. QED
  BY <1>1, <1>2, <1>3, <1>5, Reserved DEF PlaceInv, IsNext, PlacedBefore

\* Alignment: all that is placed before a file is of its kind or an earlier one.
LEMMA ReserveAlign ==
  ASSUME TableInv, PlaceInv, AlignInv, NEW s \in Slot, IsNext(s), Reserve(s),
         UNCHANGED <<pc, table>>
  PROVE  AlignInv'
<1>1. s \in InUse /\ active[s] /\ pc = "place" /\ pc' = "place"
  BY DEF IsNext, Unplaced, InUse
<1>2. \A x \in placed : PlacedBefore(x, s) /\ x \in Slot
  BY DEF PlaceInv, IsNext, InUse
<1>3. size[s] \in Word /\ used \in Word
  BY DEF TableInv, PlaceInv
<1>4. \A x \in placed : x # s
  BY DEF IsNext, Unplaced
<1>5. CASE s[2] = "inst"
  <2>1. \A x \in placed : x[2] = "inst"
    BY <1>2, <1>5 DEF PlacedBefore, Phase, Slot, Kind, FileKind
  <2>2. used % 8 = 0
    BY <1>1, <2>1 DEF AlignInv
  <2>3. s \in FileSlot /\ size[s] % 8 = 0
    BY <1>1, <1>5, SlotKinds DEF TableInv, Factor
  <2>4. used' % 8 = 0 /\ used' % 4 = 0
    BY <1>3, <2>2, <2>3, Reserved, WrapAligned
  <2>5. RegionsAligned'
    BY <1>2, <1>4, <1>5, <2>2, Reserved DEF AlignInv, RegionsAligned, Factor
  <2>6. QED
    BY <2>4, <2>5 DEF AlignInv
<1>6. CASE s[2] \in {"unif", "rbuf"}
  <2>1. s \in FileSlot
    BY <1>6, SlotKinds
  <2>2. \A x \in placed : x \notin BufSlot
    BY <1>2, <1>6, SlotKinds DEF PlacedBefore, Phase, Slot, Kind, FileKind
  <2>3. used % 4 = 0
    BY <1>1, <2>2 DEF AlignInv
  <2>4. size[s] % 4 = 0
    BY <1>1, <1>6, <2>1 DEF TableInv, Factor
  <2>5. used' % 4 = 0
    BY <1>3, <2>3, <2>4, Reserved, WrapAligned
  <2>6. RegionsAligned'
    BY <1>2, <1>4, <1>6, <2>3, Reserved DEF AlignInv, RegionsAligned, Factor
  <2>7. \E x \in placed' : x[2] # "inst"
    BY <1>6, Reserved
  <2>8. QED
    BY <2>5, <2>6, <2>7 DEF AlignInv
<1>7. CASE s \in BufSlot
  <2>1. s \in placed' /\ s[2] # "inst"
    BY <1>7, SlotKinds, Reserved
  <2>2. RegionsAligned'
    BY <1>2, <1>4, <1>7, Reserved DEF AlignInv, RegionsAligned
  <2>3. QED
    BY <1>7, <2>1, <2>2 DEF AlignInv
<1>8. QED
  BY <1>5, <1>6, <1>7, SlotKinds DEF FileKind

\* The assertion: while used is no larger than data, it is exact.
LEMMA ReserveApart ==
  ASSUME TableInv, PlaceInv, ApartInv, NEW s \in Slot, IsNext(s), Reserve(s),
         UNCHANGED table, Debug => HasRoom(s)
  PROVE  ApartInv'
<1> SUFFICES ASSUME Debug, data' \in CtlSize .. U32 - 1
             PROVE  /\ used' \in CtlSize .. data'
                    /\ \A x \in placed' : /\ offset'[x] >= CtlSize
                                          /\ offset'[x] + size'[x] <= used'
                    /\ \A x, t \in placed' : x # t =>
                         \/ offset'[x] + size'[x] <= offset'[t]
                         \/ offset'[t] + size'[t] <= offset'[x]
  BY DEF ApartInv
<1>1. size' = size /\ data' = data
  BY Reserved DEF table
<1>2. size[s] \in 0 .. U32 - 1 /\ used \in 0 .. U32 - 1
  BY DEF TableInv, PlaceInv, Word
<1>3. CtlSize \in Nat
  BY DEF CtlSize
<1>4. used \in CtlSize .. data
  BY <1>1 DEF ApartInv
<1>5. used + size[s] <= data
  <2>1. (data - used) % U32 = data - used
    BY <1>1, <1>2, <1>3, <1>4
  <2>2. QED
    BY <1>1, <1>2, <1>3, <1>4, <2>1 DEF HasRoom
<1>6. used' = used + size[s]
  <2>1. used + size[s] \in 0 .. U32 - 1
    BY <1>1, <1>2, <1>5
  <2>2. (used + size[s]) % U32 = used + size[s]
    BY <2>1
  <2>3. QED
    BY <2>2, Reserved
<1>7. \A x \in placed : /\ x \in Slot /\ x # s
                        /\ size[x] \in Nat /\ offset[x] \in Nat
                        /\ offset[x] >= CtlSize /\ offset[x] + size[x] <= used
  BY <1>1 DEF ApartInv, TableInv, PlaceInv, InUse, IsNext, Unplaced, Word
<1>8. \A x, t \in placed : x # t => \/ offset[x] + size[x] <= offset[t]
                                    \/ offset[t] + size[t] <= offset[x]
  BY <1>1 DEF ApartInv
<1>9. QED
  BY <1>1, <1>2, <1>3, <1>4, <1>5, <1>6, <1>7, <1>8, Reserved

\* A file slot that is next has read its whole file, unless that got shorter.
LEMMA PlaceLoaded ==
  ASSUME TableInv, PlaceInv, LoadInv, NEW s \in Slot, PlaceFile(s)
  PROVE  LoadInv'
<1>1. s \in InUse /\ active[s] /\ s \in FileSlot
  BY DEF PlaceFile, IsNext, Unplaced, InUse
<1>2. /\ file[s] \in Files /\ size[s] = FileSize[file[s]] /\ size[s] \in Nat
      /\ length[file[s]] \in Nat
  BY <1>1 DEF TableInv, LoadInv, Word
<1>3. Available(s) \in Nat /\ (Available(s) = size[s] \/ length[file[s]] < FileSize[file[s]])
  BY <1>2 DEF Available, Start
<1>4. /\ count' = [count EXCEPT ![s] = Available(s)] /\ length' = length
      /\ size' = size /\ file' = file
  BY DEF PlaceFile, table
<1>5. /\ count' \in [FileSlot -> Nat] /\ count'[s] = Available(s)
      /\ \A x \in FileSlot : x # s => count'[x] = count[x]
  BY <1>1, <1>3, <1>4 DEF LoadInv
<1>6. placed' = placed \union {s} /\ placed \subseteq Slot
  BY Reserved DEF PlaceFile, PlaceInv, InUse
<1>7. LoadedWhole'
  BY <1>1, <1>3, <1>4, <1>5, <1>6, SlotKinds DEF LoadInv, LoadedWhole
<1>8. QED
  BY <1>4, <1>5, <1>7 DEF LoadInv

\* What a file leaves in GPU memory is a sequence of instructions.
LEMMA PlaceText ==
  ASSUME TableInv, PlaceInv, LoadInv, LinkInv, NEW s \in Slot, PlaceFile(s)
  PROVE  LinkInv'
<1>1. s \in InUse /\ active[s] /\ s \in FileSlot /\ pc = "place" /\ pc' = "place"
  BY DEF PlaceFile, IsNext, Unplaced, InUse
<1>2. text' \in [Task -> Seq(Instruction)]
  <2>1. CASE s[2] # "inst"
    BY <2>1 DEF PlaceFile, LinkInv
  <2>2. CASE s[2] = "inst"
    <3>1. PICK stale \in Stale :
            text' = [text EXCEPT ![s[1]] =
                       [j \in 1 .. size[s] \div 8 |->
                          [op |-> IF 8 * j <= Available(s)
                                  THEN Code[file[s]][j] ELSE stale,
                           addr |-> Null]]]
      BY <2>2 DEF PlaceFile
    <3>2. /\ file[s] \in Named["inst"] /\ file[s] \in Files
          /\ size[s] = FileSize[file[s]] /\ size[s] \in Nat /\ size[s] % 8 = 0
      BY <1>1, <2>2 DEF TableInv, Word, Factor
    <3>3. Code[file[s]] \in Seq(Op) /\ Len(Code[file[s]]) = size[s] \div 8
      BY <3>2, CodeAssumption
    <3>4. \A j \in 1 .. size[s] \div 8 : Code[file[s]][j] \in Op
      BY <3>3
    <3>5. stale \in Op
      BY CodeAssumption
    <3> DEFINE loaded == [j \in 1 .. size[s] \div 8 |->
                            [op |-> IF 8 * j <= Available(s)
                                    THEN Code[file[s]][j] ELSE stale,
                             addr |-> Null]]
    <3>6. \A j \in 1 .. size[s] \div 8 : loaded[j] \in Instruction
      BY <3>4, <3>5 DEF Instruction
    <3>7. size[s] \div 8 \in Nat
      BY <3>2
    <3>8. loaded \in [1 .. size[s] \div 8 -> Instruction]
      BY <3>6
    <3>9. text' = [text EXCEPT ![s[1]] = loaded]
      BY <3>1
    <3> HIDE DEF loaded
    <3>10. loaded \in Seq(Instruction)
      BY <3>7, <3>8, SeqDef
    <3>11. QED
      BY <3>9, <3>10 DEF LinkInv
  <2>3. QED
    BY <2>1, <2>2
<1>3. UNCHANGED <<ntasks, linked, linkError>>
  BY DEF PlaceFile, table, link
<1>4. QED
  BY <1>1, <1>2, <1>3 DEF LinkInv

-----------------------------------------------------------------------------
(* link_mem                                                                *)

\* A task whose checks pass is linked.
LEMMA LinkTaskLinked ==
  ASSUME TableInv, LinkInv, LinkTask, ~linkError', NEW i, i = linked
  PROVE  IsLinked(i)'
<1>1. i \in Tasks
  BY DEF LinkTask, LinkInv, TableInv, Tasks
<1>2. ~Mismatch(i)
  BY DEF LinkTask
<1>3. /\ text' = [text EXCEPT ![i] = [j \in DOMAIN @ |-> Link(i, @[j])]]
      /\ active' = active /\ offset' = offset
  BY DEF LinkTask, table, mem
<1>4. /\ i \in Tasks /\ ~Mismatch(i)
      /\ text' = [text EXCEPT ![i] = [j \in DOMAIN @ |-> Link(i, @[j])]]
      /\ active' = active /\ offset' = offset
  BY <1>1, <1>2, <1>3
<1>5. i \in Task
  BY <1>4, TaskSlots
<1>6. /\ DOMAIN text'[i] = DOMAIN text[i]
      /\ \A j \in DOMAIN text[i] : text'[i][j] = Link(i, text[i][j])
  BY <1>4, <1>5 DEF LinkInv
<1>7. \A j \in DOMAIN text[i] : text[i][j] \in Instruction
  <2>1. text[i] \in Seq(Instruction)
    BY <1>5 DEF LinkInv
  <2>2. QED
    BY <2>1
<1>8. \A j \in DOMAIN text[i] :
        /\ text'[i][j].op = text[i][j].op
        /\ text[i][j].op \in Placeholder =>
             text'[i][j].addr = offset[Target(i, text[i][j].op)]
  BY <1>6, <1>7 DEF Link, Instruction
<1>9. \A j \in DOMAIN text[i] : text[i][j].op \in Placeholder =>
        active[Target(i, text[i][j].op)]
  BY <1>4 DEF Mismatch, Found, Placeholder, Target
<1>10. /\ active[<<i, "rbuf">>] => \E j \in DOMAIN text[i] : text[i][j].op = "task_rbuf"
       /\ active[<<i, "wbuf">>] => \E j \in DOMAIN text[i] : text[i][j].op = "task_wbuf"
  BY <1>4, <1>5, TaskSlots DEF Mismatch, Found, TableInv, Kind, FileKind
<1>11. \A k \in {"rbuf", "wbuf"} : active[<<i, k>>] =>
        \E j \in DOMAIN text[i] : text'[i][j].addr = offset[<<i, k>>]
  BY <1>8, <1>10 DEF Target, Placeholder
<1>12. \A j \in DOMAIN text'[i] : text'[i][j].op \in Placeholder =>
        /\ active[Target(i, text'[i][j].op)]
        /\ text'[i][j].addr = offset[Target(i, text'[i][j].op)]
  BY <1>6, <1>8, <1>9
<1>13. \A j \in DOMAIN text'[i] : text'[i][j].op \in Placeholder =>
        /\ active'[Target(i, text'[i][j].op)]
        /\ text'[i][j].addr = offset'[Target(i, text'[i][j].op)]
  BY <1>4, <1>12
<1>14. \A k \in {"rbuf", "wbuf"} : active'[<<i, k>>] =>
        \E j \in DOMAIN text'[i] : text'[i][j].addr = offset'[<<i, k>>]
  BY <1>4, <1>6, <1>11
<1>15. QED
  BY <1>13, <1>14 DEF IsLinked

\* Linking a task leaves those before it as they were.
LEMMA LinkTaskInv ==
  ASSUME TableInv, PlaceInv, LinkInv, LinkTask
  PROVE  LinkInv'
<1>1. linked \in Tasks /\ linked' = linked + 1 /\ pc = "link" /\ pc' = "link" /\ ntasks' = ntasks
  BY DEF LinkTask, LinkInv, TableInv, Tasks, table
<1>2. linked \in Task /\ linked' \in 0 .. ntasks'
  BY <1>1, TaskSlots DEF TableInv, Tasks
<1>3. linkError' \in BOOLEAN
  BY DEF LinkTask, LinkInv
<1>4. text' \in [Task -> Seq(Instruction)]
  <2> DEFINE t == text[linked]
             t2 == [j \in DOMAIN t |-> Link(linked, t[j])]
  <2>1. t \in Seq(Instruction)
    BY <1>2 DEF LinkInv
  <2>2. PICK n \in Nat : t \in [1 .. n -> Instruction]
    BY <2>1, SeqDef
  <2>3. \A op \in Placeholder : offset[Target(linked, op)] \in Word \union {Null}
    BY <1>1, TaskSlots DEF LinkTask, PlaceInv
  <2>4. \A x \in Instruction : Link(linked, x) \in Instruction
    BY <2>3 DEF Link, Instruction
  <2>5. t2 \in [1 .. n -> Instruction]
    BY <2>2, <2>4
  <2>6. t2 \in Seq(Instruction)
    BY <2>2, <2>5, SeqDef
  <2>7. text' = [text EXCEPT ![linked] = t2]
    BY DEF LinkTask
  <2> HIDE DEF t2
  <2>8. QED
    BY <2>6, <2>7 DEF LinkInv
<1>5. ASSUME ~linkError', NEW i \in 0 .. linked' - 1
      PROVE  IsLinked(i)'
  <2>1. CASE i = linked
    BY <1>5, <2>1, LinkTaskLinked
  <2>2. CASE i # linked
    <3>1. ~linkError
      BY <1>5 DEF LinkTask
    <3>2. i \in 0 .. linked - 1
      BY <1>1, <1>5, <2>2 DEF Tasks
    <3>3. i \in 0 .. linked - 1 /\ ~linkError
      BY <3>1, <3>2
    <3>4. IsLinked(i)
      BY <1>1, <3>3 DEF LinkInv
    <3>5. text'[i] = text[i] /\ active' = active /\ offset' = offset
      BY <1>1, <2>2, <3>3 DEF LinkTask, LinkInv, table, mem
    <3>6. QED
      BY <3>4, <3>5 DEF IsLinked
  <2>3. QED
    BY <2>1, <2>2
<1>6. QED
  BY <1>1, <1>2, <1>3, <1>4, <1>5 DEF LinkInv

-----------------------------------------------------------------------------
(* Every step                                                              *)

\* mem_size's sum is a u32.
LEMMA AllocInv ==
  ASSUME IInv, Alloc
  PROVE  IInv'
<1>1. pc = "size" /\ pc' = "place" /\ used' = CtlSize /\ placed = {} /\ linked = 0
  BY DEF Alloc, IInv, PlaceInv, LinkInv
<1>2. UNCHANGED <<ntasks, active, file, size, length, placed, offset, count, text, control,
                  linked, linkError>>
  BY DEF Alloc, table, link
<1>3. CtlSize \in Word /\ CtlSize % 8 = 0 /\ CtlSize % 4 = 0
  BY DEF CtlSize, Word
<1>4. PcInv' /\ ControlInv'
  BY <1>1 DEF PcInv, ControlInv
<1>5. TableInv'
  BY <1>2 DEF IInv, TableInv, Tasks
<1>6. PlaceInv'
  BY <1>1, <1>2, <1>3 DEF IInv, PlaceInv, InUse, Unplaced
<1>7. AlignInv'
  BY <1>1, <1>2, <1>3 DEF AlignInv, RegionsAligned
<1>8. LoadInv'
  BY <1>2 DEF IInv, LoadInv, LoadedWhole
<1>9. ApartInv'
  BY <1>1, <1>2, <1>3 DEF ApartInv, Word
<1>10. LinkInv'
  BY <1>1, <1>2 DEF IInv, LinkInv
<1>11. QED
  BY <1>4, <1>5, <1>6, <1>7, <1>8, <1>9, <1>10 DEF IInv

\* init_file and init_buf change what has been placed; init_file also what has
\* been read and the text of the task.
LEMMA PlaceSlotInv ==
  ASSUME IInv, NEW s \in Slot, PlaceFile(s) \/ PlaceBuf(s)
  PROVE  IInv'
<1>1. IsNext(s) /\ Reserve(s) /\ UNCHANGED <<pc, table, length, control>>
  BY DEF PlaceFile, PlaceBuf
<1>2. Debug => HasRoom(s)
  BY DEF PlaceFile, PlaceBuf
<1>3. pc = "place" /\ pc' = "place"
  BY <1>1 DEF IsNext
<1>4. PlaceInv' /\ AlignInv' /\ ApartInv'
  BY <1>1, <1>2, ReservePlace, ReserveAlign, ReserveApart DEF IInv
<1>5. PcInv' /\ ControlInv'
  BY <1>3 DEF PcInv, ControlInv
<1>6. TableInv'
  BY <1>1 DEF IInv, TableInv, Tasks, table
<1>7. CASE PlaceFile(s)
  BY <1>4, <1>5, <1>6, <1>7, PlaceLoaded, PlaceText DEF IInv
<1>8. CASE PlaceBuf(s)
  <2>1. s \in BufSlot /\ UNCHANGED <<length, count, text, linked, linkError, ntasks, size, file>>
    BY <1>8 DEF PlaceBuf, link, table
  <2>2. placed' \ BufSlot = placed \ BufSlot
    BY <1>1, <2>1, Reserved DEF IInv
  <2>3. LoadInv'
    BY <2>1, <2>2 DEF IInv, LoadInv, LoadedWhole
  <2>4. LinkInv'
    BY <1>3, <2>1 DEF IInv, LinkInv
  <2>5. QED
    BY <1>4, <1>5, <1>6, <2>3, <2>4 DEF IInv
<1>9. QED
  BY <1>7, <1>8

\* Steps that only move the program on, or write the control block.
LEMMA MoveInv ==
  ASSUME IInv,
         UNCHANGED <<table, length, mem, text, link>>,
         \/ pc' = "failed" \/ pc' = "abort"
         \/ pc' = pc /\ control' = control
         \/ pc = "link" /\ linked = ntasks /\ ~linkError /\ pc' = "ready" /\ control' = control
         \/ pc = "place" /\ Unplaced = {} /\ pc' = "link"
               /\ control' = [i \in Task |->
                                IF i \in Tasks
                                THEN [unif |-> UnifOf(i), inst |-> offset[<<i, "inst">>]]
                                ELSE [unif |-> Null, inst |-> Null]]
  PROVE  IInv'
<1>1. UNCHANGED <<ntasks, active, file, size, length, data, used, placed, offset, count, text,
                  linked, linkError>>
  BY DEF table, mem, link
<1>2. TableInv'
  BY <1>1 DEF IInv, TableInv, Tasks
<1>3. PcInv'
  BY DEF IInv, PcInv
<1>4. PlaceInv'
  BY <1>1 DEF IInv, PlaceInv, InUse, Unplaced
<1>5. AlignInv'
  BY <1>1 DEF IInv, AlignInv, RegionsAligned
<1>6. LoadInv'
  BY <1>1 DEF IInv, LoadInv, LoadedWhole
<1>7. ApartInv'
  BY <1>1 DEF IInv, ApartInv
<1>8. LinkInv'
  <2>1. \A i : IsLinked(i) => IsLinked(i)'
    BY <1>1 DEF IsLinked
  <2>2. QED
    BY <1>1, <2>1 DEF IInv, LinkInv
<1>9. ControlInv'
  BY <1>1 DEF IInv, ControlInv, Tasks, UnifOf
<1>10. QED
  BY <1>2, <1>3, <1>4, <1>5, <1>6, <1>7, <1>8, <1>9 DEF IInv

\* Another process may only make a file shorter.
LEMMA TruncateInv ==
  ASSUME IInv, NEW f \in Files, Truncate(f)
  PROVE  IInv'
<1>1. /\ UNCHANGED <<pc, ntasks, active, file, size, data, used, placed, offset, count, text,
                     control, linked, linkError>>
      /\ length' = [length EXCEPT ![f] = FileSize[f] \div 2]
      /\ FileSize[f] > 0
  BY DEF Truncate, table, mem, link
<1>2. FileSize[f] \div 2 \in Nat /\ FileSize[f] \div 2 < FileSize[f]
  BY <1>1 DEF Word
<1>3. /\ length' \in [Files -> Nat]
      /\ \A g \in Files : length'[g] <= FileSize[g] /\ length'[g] <= length[g]
  <2>1. length \in [Files -> Nat] /\ \A g \in Files : length[g] <= FileSize[g]
    BY DEF IInv, LoadInv
  <2>2. length[f] = FileSize[f]
    BY DEF Truncate
  <2>3. QED
    BY <1>1, <1>2, <2>1, <2>2
<1>4. \A s \in placed \ BufSlot : file[s] \in Files
  BY SlotKinds DEF IInv, PlaceInv, InUse, TableInv
<1>5. LoadedWhole'
  <2> SUFFICES ASSUME NEW s \in placed \ BufSlot, count[s] # size[s]
               PROVE  length'[file[s]] < FileSize[file[s]]
    BY <1>1 DEF LoadedWhole
  <2>1. length[file[s]] < FileSize[file[s]]
    BY DEF IInv, LoadInv, LoadedWhole
  <2>2. QED
    BY <1>3, <1>4, <2>1 DEF IInv, LoadInv, Word
<1>6. LoadInv'
  BY <1>1, <1>3, <1>5 DEF IInv, LoadInv
<1>7. TableInv'
  BY <1>1 DEF IInv, TableInv, Tasks
<1>8. PcInv' /\ ControlInv'
  BY <1>1 DEF IInv, PcInv, ControlInv, Tasks, UnifOf
<1>9. PlaceInv'
  BY <1>1 DEF IInv, PlaceInv, InUse, Unplaced
<1>10. AlignInv' /\ ApartInv'
  BY <1>1 DEF IInv, AlignInv, RegionsAligned, ApartInv
<1>11. LinkInv'
  <2>1. \A i : IsLinked(i) => IsLinked(i)'
    BY <1>1 DEF IsLinked
  <2>2. QED
    BY <1>1, <2>1 DEF IInv, LinkInv
<1>12. QED
  BY <1>6, <1>7, <1>8, <1>9, <1>10, <1>11 DEF IInv

\* Every step of the program and of its environment keeps the invariant.
LEMMA InvStep ==
  ASSUME IInv, [Next]_vars
  PROVE  IInv'
<1>1. CASE Alloc
  BY <1>1, AllocInv
<1>2. CASE AllocFails
  BY <1>2, MoveInv DEF AllocFails
<1>3. ASSUME NEW s \in Slot, PlaceFile(s) \/ PlaceBuf(s)
      PROVE  IInv'
  BY <1>3, PlaceSlotInv
<1>4. ASSUME NEW s \in Slot, ReadFails(s) \/ NoRoom(s)
      PROVE  IInv'
  BY <1>4, MoveInv DEF ReadFails, NoRoom
<1>5. CASE WriteControl
  BY <1>5, MoveInv DEF WriteControl
<1>6. CASE LinkTask
  <2>1. UNCHANGED <<pc, ntasks, active, file, size, length, data, used, placed, offset, count,
                    control>> /\ pc = "link"
    BY <1>6 DEF LinkTask, table, mem
  <2>2. LinkInv'
    BY <1>6, LinkTaskInv DEF IInv
  <2>3. TableInv'
    BY <2>1 DEF IInv, TableInv, Tasks
  <2>4. PcInv' /\ ControlInv'
    BY <2>1 DEF IInv, PcInv, ControlInv, Tasks, UnifOf
  <2>5. PlaceInv' /\ LoadInv'
    BY <2>1 DEF IInv, PlaceInv, InUse, Unplaced, LoadInv, LoadedWhole
  <2>6. AlignInv' /\ ApartInv'
    BY <2>1 DEF IInv, AlignInv, RegionsAligned, ApartInv
  <2>7. QED
    BY <2>2, <2>3, <2>4, <2>5, <2>6 DEF IInv
<1>7. CASE Linked
  BY <1>7, MoveInv DEF Linked
<1>8. ASSUME NEW f \in Files, Truncate(f)
      PROVE  IInv'
  BY <1>8, TruncateInv
<1>9. CASE UNCHANGED vars
  BY <1>9, MoveInv DEF vars
<1>10. QED
  BY <1>1, <1>2, <1>3, <1>4, <1>5, <1>6, <1>7, <1>8, <1>9 DEF Next, Program, Terminated

-----------------------------------------------------------------------------
(* Sums over finite sets: what the fold in mem_size returns                *)

\* Induction over the subsets of a finite set: a set of subsets that holds each one whose
\* proper subsets it holds, holds them all.
LEMMA SubsetInduction ==
  ASSUME NEW U, IsFiniteSet(U), NEW Good,
         \A V \in SUBSET U : (\A W \in SUBSET V : W # V => W \in Good) => V \in Good
  PROVE  \A V \in SUBSET U : V \in Good
<1> DEFINE bad == {V \in SUBSET U : V \notin Good}
<1>1. IsWellFoundedOn(StrictSubsetOrdering(U), SUBSET U)
  BY FS_StrictSubsetOrderingWellFounded, FS_FiniteSubsetsOfFinite
<1>2. SUFFICES ASSUME bad # {} PROVE FALSE
  OBVIOUS
<1>a. bad \subseteq SUBSET U
  OBVIOUS
<1>3. PICK V \in bad : \A W \in bad : ~(<<W, V>> \in StrictSubsetOrdering(U))
  <2> HIDE DEF bad
  <2>1. QED
    BY <1>1, <1>2, <1>a, WFMin
<1>4. \A W \in SUBSET V : W # V => W \in Good
  <2> SUFFICES ASSUME NEW W \in SUBSET V, W # V, W \notin Good PROVE FALSE
    OBVIOUS
  <2>1. W \in bad
    OBVIOUS
  <2>2. <<W, V>> \in StrictSubsetOrdering(U)
    BY <2>1 DEF StrictSubsetOrdering
  <2>3. QED
    BY <1>3, <2>1, <2>2
<1>5. QED
  BY <1>3, <1>4

\* The element that the fold takes first.
Pick(S) == CHOOSE x \in S : TRUE

\* The recursion that defines a sum, as an equation for the function of all subsets of U.
Sums(g, f, U) ==
  g = [S \in SUBSET U |-> IF S = {} THEN 0 ELSE f[Pick(S)] + g[S \ {Pick(S)}]]

\* A sum is the value of the chosen solution of that equation.
LEMMA SumIsChosen ==
  ASSUME NEW f, NEW U
  PROVE  SumFunctionOnSet(f, U) = (CHOOSE g : Sums(g, f, U))[U]
BY Zenon DEF SumFunctionOnSet, FoldFunctionOnSet, MapThenFoldSet, Sums, Pick

\* Something is picked from what is not empty.
LEMMA Picked == \A S : S # {} => Pick(S) \in S
BY DEF Pick

\* Solutions of the equation agree.
LEMMA SumsAgree ==
  ASSUME NEW f, NEW U, NEW V \in SUBSET U, IsFiniteSet(V), NEW g, NEW h, Sums(g, f, V), Sums(h, f, U)
  PROVE  g[V] = h[V]
<1> DEFINE same == {S \in SUBSET V : g[S] = h[S]}
<1>1. ASSUME NEW S \in SUBSET V, \A W \in SUBSET S : W # S => W \in same
      PROVE  S \in same
  <2>1. CASE S = {}
    BY <2>1 DEF Sums
  <2>2. CASE S # {}
    <3>1. Pick(S) \in S
      BY <2>2, Picked
    <3>2. g[S \ {Pick(S)}] = h[S \ {Pick(S)}]
      BY <1>1, <3>1
    <3>3. g[S] = f[Pick(S)] + g[S \ {Pick(S)}]
      BY <2>2 DEF Sums
    <3>4. h[S] = f[Pick(S)] + h[S \ {Pick(S)}]
      BY <2>2 DEF Sums
    <3>5. QED
      BY <3>2, <3>3, <3>4
  <2>3. QED
    BY <2>1, <2>2
<1> HIDE DEF same
<1>2. V \in same
  BY <1>1, SubsetInduction
<1>3. QED
  BY <1>2 DEF same

\* Where the equation has solutions, a sum is an element and the sum of the rest.
LEMMA SumStep ==
  ASSUME NEW f, NEW U, IsFiniteSet(U), U # {},
         \E g : Sums(g, f, U), \E g : Sums(g, f, U \ {Pick(U)})
  PROVE  SumFunctionOnSet(f, U) = f[Pick(U)] + SumFunctionOnSet(f, U \ {Pick(U)})
<1> DEFINE V == U \ {Pick(U)}
           g == CHOOSE s : Sums(s, f, U)
           h == CHOOSE s : Sums(s, f, V)
<1>1. Sums(g, f, U) /\ Sums(h, f, V)
  BY Zenon
<1>2. IsFiniteSet(V) /\ V \in SUBSET U
  BY FS_Subset
<1>3. g[V] = h[V]
  BY <1>1, <1>2, SumsAgree
<1>4. g[U] = f[Pick(U)] + g[V]
  BY <1>1 DEF Sums
<1>5. QED
  BY <1>3, <1>4, SumIsChosen

\* Every finite set has a sum.
LEMMA SumsExist ==
  ASSUME NEW f, NEW U, IsFiniteSet(U)
  PROVE  \A V \in SUBSET U : \E g : Sums(g, f, V)
<1> DEFINE solved == {V \in SUBSET U : \E g : Sums(g, f, V)}
<1>1. ASSUME NEW V \in SUBSET U, \A W \in SUBSET V : W # V => W \in solved
      PROVE  V \in solved
  <2> DEFINE Term(S) == IF S = {} THEN 0 ELSE f[Pick(S)] + SumFunctionOnSet(f, S \ {Pick(S)})
             g == [S \in SUBSET V |-> Term(S)]
  <2>1. ASSUME NEW S \in SUBSET V, S # V PROVE Term(S) = SumFunctionOnSet(f, S)
    <3>1. IsFiniteSet(S)
      BY FS_Subset
    <3>2. CASE S = {}
      <4>1. \E h : Sums(h, f, {})
        BY <1>1, <2>1, <3>2
      <4>2. Sums(CHOOSE h : Sums(h, f, {}), f, {})
        BY <4>1, Zenon
      <4>3. (CHOOSE h : Sums(h, f, {}))[{}] = 0
        BY <4>2 DEF Sums
      <4>4. QED
        BY <3>2, <4>3, SumIsChosen
    <3>3. CASE S # {}
      <4>1. S \in solved /\ S \ {Pick(S)} \in solved
        BY <1>1, <2>1, <3>3, Picked
      <4>2. QED
        BY <3>1, <3>3, <4>1, SumStep
    <3>4. QED
      BY <3>2, <3>3
  <2>2. ASSUME NEW S \in SUBSET V, S # {} PROVE g[S \ {Pick(S)}] = SumFunctionOnSet(f, S \ {Pick(S)})
    <3>1. S \ {Pick(S)} \in SUBSET V /\ S \ {Pick(S)} # V
      BY <2>2, Picked
    <3>2. QED
      BY <2>1, <3>1
  <2>3. Sums(g, f, V)
    BY <2>2 DEF Sums
  <2>4. QED
    BY <2>3
<1> HIDE DEF solved
<1>2. \A V \in SUBSET U : V \in solved
  BY <1>1, SubsetInduction
<1>3. QED
  BY <1>2 DEF solved

\* The sum over nothing.
LEMMA SumEmpty == ASSUME NEW f PROVE SumFunctionOnSet(f, {}) = 0
<1>1. \E g : Sums(g, f, {})
  BY SumsExist, FS_EmptySet
<1>2. Sums(CHOOSE g : Sums(g, f, {}), f, {})
  BY <1>1, Zenon
<1>3. QED
  BY <1>2, SumIsChosen DEF Sums

\* A sum is the element picked first and the sum of the others.
LEMMA SumPick ==
  ASSUME NEW f, NEW U, IsFiniteSet(U), U # {}
  PROVE  SumFunctionOnSet(f, U) = f[Pick(U)] + SumFunctionOnSet(f, U \ {Pick(U)})
BY SumsExist, SumStep

\* Sums of naturals are naturals.
LEMMA SumNat ==
  ASSUME NEW f, NEW U, IsFiniteSet(U), \A x \in U : f[x] \in Nat
  PROVE  SumFunctionOnSet(f, U) \in Nat
<1> DEFINE good == {V \in SUBSET U : SumFunctionOnSet(f, V) \in Nat}
<1>1. ASSUME NEW V \in SUBSET U, \A W \in SUBSET V : W # V => W \in good
      PROVE  V \in good
  <2>1. CASE V = {}
    BY <2>1, SumEmpty
  <2>2. CASE V # {}
    <3>1. IsFiniteSet(V) /\ Pick(V) \in V
      BY <2>2, Picked, FS_Subset
    <3>2. V \ {Pick(V)} \in good
      BY <1>1, <3>1
    <3>3. QED
      BY <2>2, <3>1, <3>2, SumPick
  <2>3. QED
    BY <2>1, <2>2
<1> HIDE DEF good
<1>2. U \in good
  BY <1>1, SubsetInduction
<1>3. QED
  BY <1>2 DEF good

\* The order of the summands does not matter: any of them can be taken first.
LEMMA SumRemove ==
  ASSUME NEW f, NEW U, IsFiniteSet(U), \A x \in U : f[x] \in Nat, NEW x \in U
  PROVE  SumFunctionOnSet(f, U) = f[x] + SumFunctionOnSet(f, U \ {x})
<1> DEFINE Sum(S) == SumFunctionOnSet(f, S)
           good == {V \in SUBSET U : \A y \in V : Sum(V) = f[y] + Sum(V \ {y})}
<1>1. ASSUME NEW V \in SUBSET U, \A W \in SUBSET V : W # V => W \in good
      PROVE  V \in good
  <2> SUFFICES ASSUME NEW y \in V PROVE Sum(V) = f[y] + Sum(V \ {y})
    OBVIOUS
  <2> DEFINE p == Pick(V)
  <2>1. IsFiniteSet(V) /\ p \in V
    BY Picked, FS_Subset
  <2>2. Sum(V) = f[p] + Sum(V \ {p})
    BY <2>1, SumPick
  <2>3. CASE y = p
    BY <2>2, <2>3
  <2>4. CASE y # p
    <3>1. V \ {p} \in good /\ V \ {y} \in good
      BY <1>1, <2>1
    <3> DEFINE rest == (V \ {p}) \ {y}
    <3>2. rest = (V \ {y}) \ {p}
      OBVIOUS
    <3>3. Sum(V \ {p}) = f[y] + Sum(rest)
      BY <2>4, <3>1
    <3>4. Sum(V \ {y}) = f[p] + Sum(rest)
      BY <2>1, <2>4, <3>1, <3>2
    <3>5. IsFiniteSet(rest) /\ \A z \in rest : f[z] \in Nat
      BY <2>1, FS_Subset
    <3>6. Sum(rest) \in Nat
      BY <3>5, SumNat
    <3>7. f[p] \in Nat /\ f[y] \in Nat
      BY <2>1
    <3> HIDE DEF rest, p, Sum
    <3>8. QED
      BY <2>2, <3>3, <3>4, <3>6, <3>7
  <2>5. QED
    BY <2>3, <2>4
<1> HIDE DEF good
<1>2. U \in good
  BY <1>1, SubsetInduction
<1>3. QED
  BY <1>2 DEF good

\* A larger set has no smaller sum.
LEMMA SumSubset ==
  ASSUME NEW f, NEW U, IsFiniteSet(U), \A x \in U : f[x] \in Nat, NEW S \in SUBSET U
  PROVE  SumFunctionOnSet(f, S) <= SumFunctionOnSet(f, U)
<1> DEFINE Sum(T) == SumFunctionOnSet(f, T)
           good == {V \in SUBSET U : S \subseteq V => Sum(S) <= Sum(V)}
<1>1. ASSUME NEW V \in SUBSET U, \A W \in SUBSET V : W # V => W \in good
      PROVE  V \in good
  <2> SUFFICES ASSUME S \subseteq V PROVE Sum(S) <= Sum(V)
    OBVIOUS
  <2>1. IsFiniteSet(V) /\ IsFiniteSet(S)
    BY FS_Subset
  <2>2. CASE S = V
    BY <2>1, <2>2, SumNat
  <2>3. CASE S # V
    <3>1. PICK x \in V : x \notin S
      BY <2>3
    <3>2. V \ {x} \in good
      BY <1>1, <3>1
    <3>3. Sum(S) <= Sum(V \ {x})
      BY <3>1, <3>2
    <3>4. Sum(V) = f[x] + Sum(V \ {x})
      BY <2>1, SumRemove
    <3>5. Sum(V \ {x}) \in Nat /\ Sum(S) \in Nat /\ f[x] \in Nat
      BY <2>1, SumNat, FS_Subset
    <3> HIDE DEF Sum
    <3>6. QED
      BY <3>3, <3>4, <3>5
  <2>4. QED
    BY <2>2, <2>3
<1> HIDE DEF good
<1>2. U \in good
  BY <1>1, SubsetInduction
<1>3. QED
  BY <1>2 DEF good

-----------------------------------------------------------------------------
(* mem_size and the space that init_mem takes                              *)

\* mem_size's result, the space used so far and the space allocated; an
\* assertion only fails for a table that does not fit.
SizeInv ==
  /\ data \in Word /\ alloc \in Word
  /\ pc \notin {"size", "failed"} => data = MemSize /\ alloc = RoundUp(data, PageSize)
  /\ pc = "place" => used = (CtlSize + SumFunctionOnSet(size, placed)) % U32
  /\ pc = "abort" => Total + PageSize > U32

\* Adding multiples of the modulus leaves the remainder.
LEMMA Multiples ==
  ASSUME NEW x \in Int, NEW k \in Int, NEW m \in Nat \ {0}
  PROVE  (x + k * m) % m = x % m
<1>1. x = m * (x \div m) + (x % m) /\ x \div m \in Int /\ x % m \in 0 .. m - 1
  OBVIOUS
<1>2. x + k * m = m * ((x \div m) + k) + (x % m)
  BY <1>1
<1>3. \A q \in Int, r \in 0 .. m - 1 : (m * q + r) % m = r
  OBVIOUS
<1>4. (x \div m) + k \in Int
  BY <1>1
<1>5. QED
  BY <1>1, <1>2, <1>3, <1>4

\* Adding to a wrapped sum is wrapping the larger sum.
LEMMA WrapAdd ==
  ASSUME NEW a \in Nat, NEW b \in Nat
  PROVE  ((a % U32) + b) % U32 = (a + b) % U32
<1>1. U32 \in Nat \ {0} /\ a \div U32 \in Int /\ a % U32 \in Int
  OBVIOUS
<1>2. a + b = ((a % U32) + b) + (a \div U32) * U32
  BY <1>1
<1>3. (a % U32) + b \in Int
  BY <1>1
<1>4. (((a % U32) + b) + (a \div U32) * U32) % U32 = ((a % U32) + b) % U32
  BY <1>1, <1>3, Multiples
<1>5. QED
  BY <1>2, <1>4

\* Rounding up to whole pages, when the result fits a u32.
LEMMA RoundedUp ==
  ASSUME NEW a \in Word
  PROVE  /\ RoundUp(a, PageSize) \in Word
         /\ a + PageSize <= U32 =>
              RoundUp(a, PageSize) >= a /\ RoundUp(a, PageSize) % PageSize = 0
<1> DEFINE x == ((PageSize + a) - 1) % U32
           pages == x \div PageSize
<1>1. PageSize \in Nat \ {0} /\ a \in Nat
  BY PageSizeAssumption DEF Word
<1>2. x \in 0 .. U32 - 1
  BY <1>1
<1>3. pages \in Nat /\ x = PageSize * pages + (x % PageSize) /\ x % PageSize \in 0 .. PageSize - 1
  BY <1>1, <1>2
<1>4. RoundUp(a, PageSize) = pages * PageSize
  BY DEF RoundUp, x, pages
<1>5. pages * PageSize \in Nat /\ pages * PageSize = PageSize * pages
  BY <1>1, <1>3
<1>6. pages * PageSize <= x
  BY <1>1, <1>2, <1>3, <1>5
<1> HIDE DEF x, pages
<1>7. (PageSize * pages + 0) % PageSize = 0
  BY <1>1, <1>3
<1>8. (pages * PageSize) % PageSize = 0
  BY <1>1, <1>5, <1>7
<1>9. ASSUME a + PageSize <= U32 PROVE pages * PageSize >= a
  <2>1. x = (PageSize + a) - 1
    BY <1>1, <1>9 DEF x
  <2>2. QED
    BY <1>1, <1>3, <1>5, <2>1
<1>10. QED
  BY <1>2, <1>4, <1>5, <1>6, <1>8, <1>9 DEF Word

\* The slots in use are finitely many, and each has a size.
LEMMA InUseSums ==
  ASSUME TableInv
  PROVE  /\ IsFiniteSet(InUse) /\ InUse \subseteq Slot
         /\ \A s \in InUse : size[s] \in Nat
         /\ SumFunctionOnSet(size, InUse) \in Nat
<1>1. IsFiniteSet(Owner) /\ IsFiniteSet(Kind)
  <2>1. IsFiniteSet(0 .. MaxTasks - 1)
    BY FS_Interval
  <2>2. IsFiniteSet((0 .. MaxTasks - 1) \union {Glob})
    BY <2>1, FS_AddElement
  <2>3. Owner = (0 .. MaxTasks - 1) \union {Glob}
    BY DEF Owner, Task
  <2>4. IsFiniteSet({"inst"} \union {"unif"})
    BY FS_Singleton, FS_AddElement
  <2>5. IsFiniteSet({"inst"} \union {"unif"} \union {"rbuf"})
    BY <2>4, FS_AddElement
  <2>6. IsFiniteSet({"inst"} \union {"unif"} \union {"rbuf"} \union {"wbuf"})
    BY <2>5, FS_AddElement
  <2>7. Kind = {"inst"} \union {"unif"} \union {"rbuf"} \union {"wbuf"}
    BY DEF Kind, FileKind
  <2>8. QED
    BY <2>2, <2>3, <2>6, <2>7
<1>2. IsFiniteSet(Owner \X Kind)
  BY <1>1, FS_Product
<1>3. InUse \subseteq Slot /\ InUse \subseteq Owner \X Kind
  BY DEF InUse, Slot
<1>4. IsFiniteSet(InUse)
  BY <1>2, <1>3, FS_Subset
<1>5. \A s \in InUse : size[s] \in Nat
  BY <1>3 DEF TableInv, Word
<1>6. QED
  BY <1>3, <1>4, <1>5, SumNat

\* mem_size's sum, as a number and as a u32.
LEMMA MemSizeType ==
  ASSUME TableInv
  PROVE  /\ Total \in Nat /\ CtlSize \in Nat /\ MemSize = Total % U32 /\ MemSize \in Word
         /\ Total < U32 => MemSize = Total
<1>1. CtlSize \in Nat
  BY DEF CtlSize
<1>2. Total \in Nat
  BY <1>1, InUseSums DEF Total
<1>3. MemSize = Total % U32
  BY DEF MemSize, Total, Counted
<1>4. QED
  BY <1>1, <1>2, <1>3 DEF Word

\* One more slot is placed.
LEMMA ReserveSize ==
  ASSUME TableInv, PlaceInv, SizeInv, NEW s \in Slot, IsNext(s), Reserve(s),
         UNCHANGED <<pc, table>>
  PROVE  SizeInv'
<1>1. /\ pc = "place" /\ s \in InUse \ placed /\ placed \subseteq InUse
      /\ UNCHANGED <<pc, size, ntasks, active, data, alloc>>
      /\ placed' = placed \union {s} /\ used' = (used + size[s]) % U32
  BY DEF IsNext, Unplaced, PlaceInv, Reserve, table
<1> DEFINE sum == SumFunctionOnSet(size, placed)
<1>2. IsFiniteSet(placed) /\ IsFiniteSet(placed') /\ placed' \subseteq InUse
  BY <1>1, InUseSums, FS_Subset
<1>3. sum \in Nat /\ size[s] \in Nat /\ \A t \in placed' : size[t] \in Nat
  BY <1>1, <1>2, InUseSums, SumNat
<1>4. SumFunctionOnSet(size, placed') = size[s] + sum
  <2>1. placed' \ {s} = placed /\ s \in placed'
    BY <1>1
  <2>2. QED
    BY <1>2, <1>3, <2>1, SumRemove
<1>5. used' = (CtlSize + SumFunctionOnSet(size, placed')) % U32
  <2>1. CtlSize \in Nat /\ CtlSize + sum \in Nat
    BY <1>3 DEF CtlSize
  <2>2. used = (CtlSize + sum) % U32
    BY <1>1 DEF SizeInv
  <2>3. used' = ((CtlSize + sum) + size[s]) % U32
    BY <1>1, <1>3, <2>1, <2>2, WrapAdd
  <2>4. (CtlSize + sum) + size[s] = CtlSize + (size[s] + sum)
    BY <1>3, <2>1
  <2>5. QED
    BY <1>4, <2>3, <2>4
<1>6. MemSize' = MemSize
  BY <1>1 DEF MemSize, Counted, InUse
<1>7. QED
  BY <1>1, <1>5, <1>6 DEF SizeInv

\* The assertion of init_file and init_buf holds of a table that fits.
LEMMA RoomForAll ==
  ASSUME TableInv, PlaceInv, SizeInv, NEW s \in Slot, IsNext(s), Total + PageSize <= U32
  PROVE  HasRoom(s)
<1>1. pc = "place" /\ s \in InUse \ placed /\ placed \subseteq InUse
  BY DEF IsNext, Unplaced, PlaceInv
<1> DEFINE sum == SumFunctionOnSet(size, placed)
           all == SumFunctionOnSet(size, InUse)
           more == placed \union {s}
<1>2. IsFiniteSet(placed) /\ IsFiniteSet(more) /\ more \subseteq InUse
  BY <1>1, InUseSums, FS_Subset
<1>3. sum \in Nat /\ all \in Nat /\ size[s] \in Nat /\ \A t \in more : size[t] \in Nat
  BY <1>1, <1>2, InUseSums, SumNat
<1>4. SumFunctionOnSet(size, more) = size[s] + sum
  <2>1. more \ {s} = placed /\ s \in more
    BY <1>1
  <2>2. QED
    BY <1>2, <1>3, <2>1, SumRemove
<1>5. size[s] + sum <= all
  BY <1>2, <1>4, InUseSums, SumSubset
<1>6. PageSize \in Nat \ {0} /\ CtlSize \in Nat /\ Total = CtlSize + all
  BY PageSizeAssumption DEF CtlSize, Total
<1> HIDE DEF sum, all
<1>7. data = CtlSize + all
  <2>1. data = MemSize
    BY <1>1 DEF SizeInv
  <2>2. QED
    BY <1>3, <1>6, <2>1, MemSizeType
<1>8. used = CtlSize + sum
  <2>1. used = (CtlSize + sum) % U32
    BY <1>1 DEF SizeInv, sum
  <2>2. QED
    BY <1>3, <1>5, <1>6, <2>1
<1>9. data - used = all - sum /\ all - sum \in 0 .. U32 - 1
  BY <1>3, <1>5, <1>6, <1>7, <1>8
<1>10. (data - used) % U32 = all - sum
  BY <1>9
<1>11. QED
  BY <1>3, <1>5, <1>10 DEF HasRoom

\* Every step keeps the sizes in agreement.
LEMMA SizeStep == IInv /\ SizeInv /\ [Next]_vars => SizeInv'
<1> SUFFICES ASSUME IInv, SizeInv, [Next]_vars PROVE SizeInv'
  OBVIOUS
<1>t. TableInv /\ PlaceInv
  BY DEF IInv
<1>k. ASSUME UNCHANGED <<table, mem>>,
             pc' = "failed" \/ pc' = pc \/ (pc = "place" /\ pc' = "link")
               \/ (pc = "link" /\ pc' = "ready")
      PROVE  SizeInv'
  <2>1. MemSize' = MemSize /\ Total' = Total
    BY <1>k DEF MemSize, Total, Counted, InUse, table
  <2>2. UNCHANGED <<data, alloc, used, placed, size>>
    BY <1>k DEF mem, table
  <2>3. QED
    BY <1>k, <2>1, <2>2 DEF SizeInv
<1>1. CASE Alloc
  <2>1. /\ pc = "size" /\ pc' = "place" /\ data' = MemSize
        /\ alloc' = RoundUp(MemSize, PageSize) /\ used' = CtlSize
        /\ UNCHANGED <<ntasks, active, size>> /\ placed' = {}
    BY <1>1, <1>t DEF Alloc, table, PlaceInv
  <2>2. MemSize' = MemSize
    BY <2>1 DEF MemSize, Counted, InUse
  <2>3. CtlSize % U32 = CtlSize /\ CtlSize + 0 = CtlSize
    BY DEF CtlSize
  <2>4. used' = (CtlSize + SumFunctionOnSet(size, placed)') % U32
    BY <2>1, <2>3, SumEmpty
  <2>5. MemSize \in Word /\ RoundUp(MemSize, PageSize) \in Word
    BY <1>t, MemSizeType, RoundedUp
  <2>6. QED
    BY <2>1, <2>2, <2>4, <2>5 DEF SizeInv
<1>2. CASE AllocFails
  BY <1>2, <1>k DEF AllocFails
<1>3. ASSUME NEW s \in Slot, PlaceFile(s) \/ PlaceBuf(s) PROVE SizeInv'
  BY <1>3, <1>t, ReserveSize DEF PlaceFile, PlaceBuf
<1>4. ASSUME NEW s \in Slot, ReadFails(s) PROVE SizeInv'
  BY <1>4, <1>k DEF ReadFails
<1>5. ASSUME NEW s \in Slot, NoRoom(s) PROVE SizeInv'
  <2>1. pc' = "abort" /\ pc = "place" /\ UNCHANGED <<table, mem>> /\ ~HasRoom(s)
    BY <1>5 DEF NoRoom, IsNext
  <2>2. ~(Total + PageSize <= U32)
    BY <1>5, <1>t, <2>1, RoomForAll DEF NoRoom
  <2>3. Total + PageSize > U32
    BY <1>t, <2>2, MemSizeType, PageSizeAssumption
  <2>4. MemSize' = MemSize /\ Total' = Total /\ UNCHANGED <<data, alloc>>
    BY <2>1 DEF MemSize, Total, Counted, InUse, table, mem
  <2>5. QED
    BY <2>1, <2>3, <2>4 DEF SizeInv
<1>6. CASE WriteControl
  BY <1>6, <1>k DEF WriteControl
<1>7. CASE LinkTask
  BY <1>7, <1>k DEF LinkTask
<1>8. CASE Linked
  BY <1>8, <1>k DEF Linked
<1>9. ASSUME NEW f \in Files, Truncate(f) PROVE SizeInv'
  BY <1>9, <1>k DEF Truncate
<1>10. CASE UNCHANGED vars
  BY <1>10, <1>k DEF vars
<1>11. QED
  BY <1>1, <1>2, <1>3, <1>4, <1>5, <1>6, <1>7, <1>8, <1>9, <1>10 DEF Next, Program, Terminated

-----------------------------------------------------------------------------
(* What the invariant implies                                              *)

\* With the assertions, the regions placed one behind the other are disjoint.
LEMMA ApartHolds == ASSUME IInv PROVE AssertedDisjoint
<1> SUFFICES ASSUME Debug, data \in CtlSize .. U32 - 1
             PROVE  RegionsDisjoint
  BY DEF AssertedDisjoint
<1>1. /\ used \in CtlSize .. data
      /\ \A s \in placed : offset[s] >= CtlSize /\ offset[s] + size[s] <= used
      /\ \A s, t \in placed : s # t => \/ offset[s] + size[s] <= offset[t]
                                       \/ offset[t] + size[t] <= offset[s]
  BY DEF IInv, ApartInv
<1>2. \A s \in placed : offset[s] \in Int /\ size[s] \in Int
  BY DEF IInv, PlaceInv, TableInv, InUse, Word
<1>3. CtlSize \in Int
  BY DEF CtlSize
<1>4. QED
  BY <1>1, <1>2, <1>3 DEF RegionsDisjoint, Region

\* Once every task is linked, link_mem's checks leave only sound addresses.
LEMMA LinkHolds == ASSUME IInv PROVE LinkSound
<1> SUFFICES ASSUME pc = "ready" PROVE LinkSound
  BY DEF LinkSound
<1>1. placed = InUse /\ \A i \in Tasks : IsLinked(i)
  BY DEF IInv, PlaceInv, LinkInv, Tasks
<1>2. \A i \in Tasks : \A op \in Placeholder :
        active[Target(i, op)] => Target(i, op) \in placed
  BY <1>1, TaskSlots DEF IInv, InUse
<1>3. \A s \in placed : s[1] \in Tasks /\ s[2] \in {"rbuf", "wbuf"} =>
        \E j \in DOMAIN text[s[1]] : text[s[1]][j].addr = offset[s]
  <2> SUFFICES ASSUME NEW s \in placed, s[1] \in Tasks, s[2] \in {"rbuf", "wbuf"}
               PROVE  \E j \in DOMAIN text[s[1]] : text[s[1]][j].addr = offset[s]
    OBVIOUS
  <2>1. s = <<s[1], s[2]>> /\ active[s]
    BY <1>1 DEF InUse, Slot
  <2>2. active[<<s[1], s[2]>>] /\ IsLinked(s[1])
    BY <1>1, <2>1
  <2>3. PICK j \in DOMAIN text[s[1]] : text[s[1]][j].addr = offset[<<s[1], s[2]>>]
    BY <2>2 DEF IsLinked
  <2>4. QED
    BY <2>1, <2>3
<1>4. \A i \in Tasks : \A j \in DOMAIN text[i] :
        text[i][j].op \in Placeholder =>
          /\ Target(i, text[i][j].op) \in placed
          /\ text[i][j].addr = offset[Target(i, text[i][j].op)]
  BY <1>1, <1>2 DEF IsLinked
<1>5. QED
  BY <1>3, <1>4 DEF LinkSound

\* What init_mem wrote into the control block is what ControlSound asks for.
LEMMA ControlHolds == ASSUME IInv PROVE ControlSound
<1> SUFFICES ASSUME pc = "ready", NEW i \in Task
             PROVE  /\ IF i \in Tasks
                       THEN <<i, "inst">> \in placed /\ control[i].inst = offset[<<i, "inst">>]
                       ELSE control[i].inst = Null
                    /\ \/ \E o \in {i, Glob} : /\ <<o, "unif">> \in placed
                                               /\ control[i].unif = offset[<<o, "unif">>]
                                               /\ o = Glob => <<i, "unif">> \notin placed
                                               /\ i \in Tasks
                       \/ /\ control[i].unif = Null
                          /\ i \in Tasks => {<<i, "unif">>, <<Glob, "unif">>} \intersect placed = {}
  BY DEF ControlSound
<1>1. placed = InUse /\ ntasks \in 1 .. MaxTasks
  BY DEF IInv, PlaceInv, TableInv
<1>2. control[i] = IF i \in Tasks
                   THEN [unif |-> UnifOf(i), inst |-> offset[<<i, "inst">>]]
                   ELSE [unif |-> Null, inst |-> Null]
  BY DEF IInv, ControlInv
<1>3. /\ <<i, "inst">> \in Slot /\ <<i, "unif">> \in Slot /\ <<Glob, "unif">> \in Slot
      /\ i # Glob
  BY DEF Slot, Kind, FileKind, Owner, Glob, Task
<1>4. CASE i \notin Tasks
  BY <1>2, <1>4
<1>5. CASE i \in Tasks
  <2>1. /\ <<i, "inst">> \in placed
        /\ <<i, "unif">> \in placed <=> active[<<i, "unif">>]
        /\ <<Glob, "unif">> \in placed <=> active[<<Glob, "unif">>]
    BY <1>1, <1>3, <1>5 DEF IInv, TableInv, InUse, Tasks, Glob
  <2>2. control[i].inst = offset[<<i, "inst">>] /\ control[i].unif = UnifOf(i)
    BY <1>2, <1>5
  <2>3. CASE active[<<i, "unif">>]
    BY <1>3, <1>5, <2>1, <2>2, <2>3 DEF UnifOf
  <2>4. CASE ~active[<<i, "unif">>] /\ active[<<Glob, "unif">>]
    BY <1>3, <1>5, <2>1, <2>2, <2>4 DEF UnifOf
  <2>5. CASE ~active[<<i, "unif">>] /\ ~active[<<Glob, "unif">>]
    BY <1>3, <1>5, <2>1, <2>2, <2>5 DEF UnifOf
  <2>6. QED
    BY <2>3, <2>4, <2>5
<1>6. QED
  BY <1>4, <1>5

-----------------------------------------------------------------------------
(* Theorems                                                                *)

\* The invariant of gpu_exec_via_mbox's memory set-up: the table, the order of
\* init_mem, alignment, what has been read, the assertions and link_mem.
THEOREM Invariant == Spec => []IInv
BY InitInv, InvStep, PTL DEF Spec

\* Instructions are 8-byte aligned, uniforms and read buffers 4-byte aligned,
\* whatever the sizes of the write buffers placed after them (init_mem), even
\* when the sum of the sizes has wrapped.
THEOREM Aligned == Spec => []RegionsAligned
<1>1. IInv => RegionsAligned
  BY DEF IInv, AlignInv
<1>2. QED
  BY <1>1, Invariant, PTL

\* A file slot holds its whole file from the first byte, unless the file got
\* shorter, although descriptors share positions (init_file's lseek and read).
THEOREM Loaded == Spec => []LoadedWhole
<1>1. IInv => LoadedWhole
  BY DEF IInv, LoadInv
<1>2. QED
  BY <1>1, Invariant, PTL

\* In builds with the assertions of init_file and init_buf, no two regions
\* overlap, also when mem_size's sum has wrapped, as long as it has room for
\* the control block.
THEOREM KeptApart == Spec => []AssertedDisjoint
BY ApartHolds, Invariant, PTL

\* A program that is ready to run has no placeholder left and refers to all of
\* its buffers (link_mem's checks after each task).
THEOREM LinkedSoundly == Spec => []LinkSound
BY LinkHolds, Invariant, PTL

\* The control block of a program that is ready to run gives each task its own
\* instructions, and its own uniforms or the global ones (end of init_mem).
THEOREM ControlledSoundly == Spec => []ControlSound
BY ControlHolds, Invariant, PTL
\* The sum that mem_size returns and the space that init_mem takes, before and
\* after wrapping.
THEOREM Sizes == Spec => []SizeInv
<1>1. Init => SizeInv
  BY DEF Init, SizeInv, Word
<1>2. QED
  BY <1>1, InitInv, InvStep, SizeStep, PTL DEF Spec

\* Types of everything that gpu_exec_via_mbox computes for the layout.
THEOREM TypeCorrect == Spec => []TypeOK
<1>1. IInv /\ SizeInv => TypeOK
  BY DEF IInv, PcInv, PlaceInv, LinkInv, SizeInv, TypeOK, Instruction
<1>2. QED
  BY <1>1, Invariant, Sizes, PTL

\* init_mem takes what mem_size counted, also when the sum has wrapped; a table
\* that fits a u32 fails no assertion and gets whole pages that cover it.
THEOREM SizesMatch == Spec => []SizesAgree
<1>1. ASSUME IInv, SizeInv PROVE SizesAgree
  <2>t. TableInv /\ PlaceInv
    BY <1>1 DEF IInv
  <2>1. ASSUME pc = "place", Unplaced = {} PROVE used = data
    <3>1. placed = InUse
      BY <2>t, <2>1 DEF PlaceInv, Unplaced
    <3>2. QED
      BY <1>1, <2>1, <3>1 DEF SizeInv, MemSize, Counted
  <2>2. ASSUME Total + PageSize <= U32 PROVE pc # "abort"
    BY <1>1, <2>2, <2>t, MemSizeType, PageSizeAssumption DEF SizeInv
  <2>3. ASSUME Total + PageSize <= U32, pc \notin {"size", "failed"}
        PROVE  data = Total /\ data <= alloc /\ alloc % PageSize = 0
    <3>1. data = MemSize /\ alloc = RoundUp(data, PageSize) /\ data \in Word
      BY <1>1, <2>3 DEF SizeInv
    <3>2. data = Total
      BY <2>t, <2>3, <3>1, MemSizeType, PageSizeAssumption
    <3>3. RoundUp(data, PageSize) >= data /\ RoundUp(data, PageSize) % PageSize = 0
      BY <2>3, <3>1, <3>2, RoundedUp
    <3>4. alloc \in Nat /\ data \in Nat
      BY <1>1 DEF SizeInv, Word
    <3>5. QED
      BY <3>1, <3>2, <3>3, <3>4
  <2>4. QED
    BY <2>1, <2>2, <2>3 DEF SizesAgree
<1>2. QED
  BY <1>1, Invariant, Sizes, PTL
=============================================================================
