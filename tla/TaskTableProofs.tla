--------------------------- MODULE TaskTableProofs ---------------------------
(***************************************************************************)
(* Theorems about TaskTable for every number of tasks, every set of files, *)
(* arguments and descriptors, and every width of a u32.                    *)
(***************************************************************************)
EXTENDS TaskTable, TLAPS

(***************************************************************************)
(* The inductive invariant.  While gpu_replicate runs, its bound stays     *)
(* within the table and every task before dst has its instructions, which  *)
(* is what makes the new count safe even when the product wrapped.         *)
(***************************************************************************)
LoopInv ==
  pc = "replicate" =>
    /\ ntasks > 0
    /\ rep.mult \in Numbers
    /\ Product(rep.mult) <= MaxTasks
    /\ ntasks <= rep.dst
    /\ rep.kind # "inst" => rep.dst < Product(rep.mult)

InstInv ==
  /\ pc \in {"args", "replicate", "execute"} => AllHaveInst
  /\ pc = "replicate" =>
       /\ \A i \in 0 .. rep.dst - 1 : active[<<i, "inst">>]
       /\ rep.kind # "inst" => active[<<rep.dst, "inst">>]

TableType ==
  /\ active \in [Slot -> BOOLEAN]
  /\ size \in [Slot -> Word]
  /\ fd \in [FileSlot -> Fds \union {0}]
  /\ open \in [Fds -> Files \union {Closed}]

\* DescriptorsOwned without its last conjunct, which needs the assertions.
FdInv ==
  /\ \A s \in ActiveFiles : fd[s] \in Fds /\ open[fd[s]] # Closed
  /\ \A s, t \in ActiveFiles : fd[s] = fd[t] => s = t

NoLeak == \A d \in Fds : open[d] # Closed => \E s \in ActiveFiles : fd[s] = d

TableInv == TableType /\ FdInv /\ SizeAgrees /\ (Debug => NoLeak)

IInv == TypeOK /\ LoopInv /\ InstInv /\ TableInv

USE MaxTasksAssumption, U32Assumption, FilesAssumption, NumbersAssumption,
    FdsAssumption, DebugAssumption

\* A remainder is smaller than its modulus: what % in Narrow, in Product and in
\* gpu_replicate's choice of a source returns.
LEMMA ModRange == \A a \in Int : \A n \in Nat \ {0} : a % n \in 0 .. n - 1
  OBVIOUS

\* The u32 product of gpu_replicate is a u32.
LEMMA ProductWord ==
  ASSUME ntasks \in 0 .. MaxTasks PROVE \A m \in Numbers : Product(m) \in Word
<1> TAKE m \in Numbers
<1>1. Narrow(m) \in Int BY ModRange DEF Narrow
<1>2. Narrow(m) * ntasks \in Int BY <1>1
<1> QED BY <1>2, ModRange DEF Product, Word, Narrow

\* Storing an open file in a slot (gpu_task_inst, gpu_task_unif, ..., and
\* dup_file) keeps the table sound.  A slot that was in use would lose its
\* descriptor, which the assertion of dup_file rules out in a debug build.
LEMMA StoreFile ==
  ASSUME TableInv, NEW s \in FileSlot, NEW d \in Fds, NEW f \in Files,
         open[d] = Closed,
         FileSize[f] > 0, FileSize[f] % Factor[s[2]] = 0,
         Debug => ~active[s],
         open' = [open EXCEPT ![d] = f],
         fd' = [fd EXCEPT ![s] = d],
         size' = [size EXCEPT ![s] = FileSize[f]],
         active' = [active EXCEPT ![s] = TRUE]
  PROVE  TableInv'
<1> USE DEF TableInv
<1>0. FileSlot \subseteq Slot BY DEF FileSlot, Slot, FileKind, Kind
<1>1. TableType' BY <1>0 DEF TableType
<1>2. /\ active'[s] /\ size'[s] = FileSize[f] /\ fd'[s] = d /\ open'[d] = f
      /\ \A t \in FileSlot \ {s} : 
           active'[t] = active[t] /\ size'[t] = size[t] /\ fd'[t] = fd[t]
      /\ \A e \in Fds \ {d} : open'[e] = open[e]
  BY <1>0 DEF TableType
<1>3. ActiveFiles' = ActiveFiles \union {s} BY <1>2 DEF ActiveFiles
<1>4. FdInv' BY <1>2, <1>3 DEF FdInv, ActiveFiles
<1>5. SizeAgrees' BY <1>2, <1>3 DEF SizeAgrees, FdInv, ActiveFiles
<1>6. ASSUME Debug PROVE NoLeak'
  <2> SUFFICES ASSUME NEW e \in Fds, open'[e] # Closed
               PROVE  \E t \in ActiveFiles' : fd'[t] = e
    BY DEF NoLeak
  <2>1. CASE e = d BY <2>1, <1>2, <1>3
  <2>2. CASE e # d
    <3>1. PICK t \in ActiveFiles : fd[t] = e BY <2>2, <1>2, <1>6 DEF NoLeak
    <3>2. t # s BY <3>1, <1>6 DEF ActiveFiles
    <3> QED BY <3>1, <3>2, <1>2, <1>3 DEF ActiveFiles
  <2> QED BY <2>1, <2>2
<1> QED BY <1>1, <1>4, <1>5, <1>6

\* Storing a size in a write buffer slot (gpu_task_wbuf, gpu_glob_wbuf and
\* dup_buf) does not concern the file slots.
LEMMA StoreBuf ==
  ASSUME TableInv, NEW s \in BufSlot, NEW n \in Word,
         size' = [size EXCEPT ![s] = n],
         active' = [active EXCEPT ![s] = TRUE],
         UNCHANGED <<fd, open>>
  PROVE  TableInv' /\ \A t \in FileSlot : active'[t] = active[t]
<1> USE DEF TableInv
<1>1. s \in Slot /\ s \notin FileSlot /\ FileSlot \subseteq Slot
  BY DEF BufSlot, Slot, FileSlot, Kind, FileKind, Owner, Glob, Task
<1>2. TableType' BY <1>1 DEF TableType
<1>3. \A t \in FileSlot : active'[t] = active[t] /\ size'[t] = size[t]
  BY <1>1 DEF TableType
<1>4. ActiveFiles' = ActiveFiles BY <1>3 DEF ActiveFiles
<1>5. FdInv' BY <1>4 DEF FdInv
<1>6. SizeAgrees' BY <1>3, <1>4 DEF SizeAgrees, ActiveFiles
<1>7. Debug => NoLeak' BY <1>4 DEF NoLeak
<1> QED BY <1>2, <1>3, <1>5, <1>6, <1>7

\* A step that leaves the table alone leaves its invariant alone.
LEMMA SameTable ==
  ASSUME TableInv, UNCHANGED table PROVE TableInv'
BY DEF table, TableInv, TableType, FdInv, NoLeak, SizeAgrees, ActiveFiles

\* A slot of a counted task is a slot of the table.
LEMMA TaskSlots ==
  ASSUME NEW i \in Task
  PROVE  /\ \A k \in Kind : <<i, k>> \in Slot
         /\ \A k \in FileKind : <<i, k>> \in FileSlot
         /\ <<i, "wbuf">> \in BufSlot
         /\ <<i, "inst">> \in FileSlot
BY DEF Task, Slot, FileSlot, BufSlot, Owner, Kind, FileKind, Glob

\* The instruction slots of the counted tasks.
LEMMA InstSlots ==
  ASSUME NEW n \in 0 .. MaxTasks, NEW i \in 0 .. n - 1
  PROVE  <<i, "inst">> \in FileSlot /\ <<i, "inst">> \in Slot
<1>1. i \in Task BY DEF Task
<1> QED BY <1>1, TaskSlots DEF Kind, FileKind

\* The slots that u, r and w may fill.
LEMMA CurrentSlots ==
  ASSUME ntasks \in 0 .. MaxTasks
  PROVE  /\ <<Current, "unif">> \in FileSlot
         /\ <<Current, "rbuf">> \in FileSlot
         /\ <<Current, "wbuf">> \in BufSlot
BY DEF Current, Task, Slot, FileSlot, BufSlot, Owner, Kind, FileKind, Glob

\* gpu_task_inst and its siblings keep the table sound and fill their slot.
LEMMA SetFileStores ==
  ASSUME TableInv, NEW s \in FileSlot, NEW f \in Files, SetFile(s, f)
  PROVE  /\ TableInv'
         /\ active'[s]
         /\ \A t \in Slot : active[t] => active'[t]
<1>1. PICK d \in Fds : /\ IsNewFd(d)
                       /\ open' = [open EXCEPT ![d] = f]
                       /\ fd' = [fd EXCEPT ![s] = d]
  BY DEF SetFile
<1>2. TableInv' BY <1>1, StoreFile DEF SetFile, IsNewFd, Loadable
<1>3. s \in Slot BY DEF FileSlot, Slot, FileKind, Kind
<1> QED BY <1>2, <1>3 DEF SetFile, TableInv, TableType

-----------------------------------------------------------------------------

\* The initial table satisfies the invariant.
LEMMA InitInv == Init => IInv
<1> SUFFICES ASSUME Init PROVE IInv OBVIOUS
<1>1. 0 \in Word BY DEF Word
<1>2. FileSlot \subseteq Slot BY DEF FileSlot, Slot, FileKind, Kind
<1>3. TypeOK
  <2>1. rep \in [mult : Numbers \union {0}, dst : 0 .. MaxTasks, kind : Kind]
    BY DEF Init, Idle, Kind, FileKind
  <2>2. /\ active \in [Slot -> BOOLEAN] /\ size \in [Slot -> Word]
        /\ fd \in [FileSlot -> Fds \union {0}]
        /\ open \in [Fds -> Files \union {Closed}]
    BY <1>1 DEF Init
  <2>3. pc \in PC /\ ntasks \in 0 .. MaxTasks BY DEF Init, PC
  <2>4. error \in BOOLEAN BY Zenon DEF Init
  <2> QED BY <2>1, <2>2, <2>3, <2>4 DEF TypeOK
<1>4. ActiveFiles = {} BY <1>2 DEF Init, ActiveFiles
<1>5. TableInv
  BY <1>3, <1>4 DEF Init, TypeOK, TableInv, TableType, FdInv, NoLeak, SizeAgrees
<1>6. LoopInv /\ InstInv BY DEF Init, LoopInv, InstInv, AllHaveInst
<1> QED BY <1>3, <1>5, <1>6 DEF IInv

\* Each handler of command_execute preserves the invariant.
LEMMA HandlerInv == IInv /\ Handler => IInv'
<1> SUFFICES ASSUME IInv, Handler PROVE IInv' OBVIOUS
<1> USE DEF IInv
<1>0. ntasks \in 0 .. MaxTasks BY DEF TypeOK
<1>1. ASSUME NEW f \in Files, HandleI(f) PROVE IInv'
  <2>1. ntasks \in Task BY <1>0, <1>1 DEF HandleI, Task
  <2>2. /\ TableInv' /\ active'[<<ntasks, "inst">>]
        /\ \A t \in Slot : active[t] => active'[t]
    BY <1>1, <2>1, TaskSlots, SetFileStores DEF HandleI
  <2>3. TypeOK' BY <1>1, <2>2 DEF HandleI, TypeOK, TableInv, TableType
  <2>4. LoopInv' BY <1>1 DEF HandleI, LoopInv
  <2>5. InstInv'
    <3>1. \A i \in 0 .. ntasks - 1 : active[<<i, "inst">>]
      BY <1>1 DEF HandleI, InstInv, AllHaveInst
    <3>2. \A i \in 0 .. ntasks - 1 : <<i, "inst">> \in Slot
      BY <1>0, InstSlots
    <3> QED BY <1>1, <1>0, <2>2, <3>1, <3>2 DEF HandleI, InstInv, AllHaveInst
  <2> QED BY <2>2, <2>3, <2>4, <2>5
<1>2. ASSUME NEW f \in Files, HandleU(f) \/ HandleR(f) PROVE IInv'
  <2>1. /\ TableInv'
        /\ \A t \in Slot : active[t] => active'[t]
    BY <1>0, <1>2, CurrentSlots, SetFileStores DEF HandleU, HandleR
  <2>2. /\ pc = "args" /\ UNCHANGED <<pc, error, ntasks, rep>>
    BY <1>2 DEF HandleU, HandleR
  <2>3. TypeOK' BY <2>1, <2>2 DEF TypeOK, TableInv, TableType
  <2>4. LoopInv' BY <2>2 DEF LoopInv
  <2>5. InstInv'
    <3>1. \A i \in 0 .. ntasks - 1 : <<i, "inst">> \in Slot
      BY <1>0, InstSlots
    <3> QED BY <2>1, <2>2, <3>1 DEF InstInv, AllHaveInst
  <2> QED BY <2>1, <2>3, <2>4, <2>5
<1>3. ASSUME NEW n \in Numbers, HandleW(n) PROVE IInv'
  <2>1. Narrow(n) \in Word BY ModRange DEF Narrow, Word
  <2>2. /\ TableInv' /\ \A t \in FileSlot : active'[t] = active[t]
    BY <1>0, <1>3, <2>1, CurrentSlots, StoreBuf DEF HandleW
  <2>3. TypeOK' BY <1>3, <2>2 DEF HandleW, TypeOK, TableInv, TableType
  <2>4. LoopInv' BY <1>3 DEF HandleW, LoopInv
  <2>5. InstInv'
    <3>1. \A i \in 0 .. ntasks - 1 : <<i, "inst">> \in FileSlot
      BY <1>0, InstSlots
    <3> QED BY <1>3, <2>2, <3>1 DEF HandleW, InstInv, AllHaveInst
  <2> QED BY <2>2, <2>3, <2>4, <2>5
<1>4. ASSUME NEW m \in Numbers, HandleX(m) PROVE IInv'
  <2>1. TableInv' BY <1>4, SameTable DEF HandleX
  <2>2. TypeOK'
    <3>1. /\ pc' = "replicate" /\ error' = error /\ ntasks' = ntasks
          /\ rep' = [mult |-> m, dst |-> ntasks, kind |-> "inst"]
      BY <1>4 DEF HandleX
    <3> QED BY <2>1, <3>1 DEF TypeOK, TableInv, TableType, PC, Kind, FileKind
  <2>3. LoopInv' BY <1>0, <1>4 DEF HandleX, LoopInv, Product
  <2>4. InstInv' BY <1>4 DEF HandleX, InstInv, AllHaveInst, table
  <2> QED BY <2>1, <2>2, <2>3, <2>4
<1>5. ASSUME HandleIFails \/ RejectArgument \/ EndOfArguments PROVE IInv'
  <2> USE <1>5 DEF HandleIFails, RejectArgument, EndOfArguments, Stop
  <2>1. TableInv' BY SameTable
  <2>2. TypeOK'
    <3>1. pc' \in {"cleanup", "execute"} /\ rep' = rep
      OBVIOUS
    <3>2. error' \in BOOLEAN BY Zenon DEF TypeOK
    <3>3. ntasks' \in 0 .. MaxTasks
      <4>1. ntasks' = ntasks \/ (ntasks < MaxTasks /\ ntasks' = ntasks + 1)
        OBVIOUS
      <4> QED BY <4>1, <1>0
    <3> QED BY <2>1, <3>1, <3>2, <3>3 DEF TypeOK, TableInv, TableType, PC
  <2>3. LoopInv' BY DEF LoopInv
  <2>4. InstInv' BY DEF InstInv, AllHaveInst, table
  <2> QED BY <2>1, <2>2, <2>3, <2>4
<1> QED BY <1>1, <1>2, <1>3, <1>4, <1>5 DEF Handler

\* Where the loop of gpu_replicate reads and writes: a counted task's slot
\* and a slot within the table.
LEMMA CopySlots ==
  ASSUME TypeOK, LoopInv, Copying
  PROVE  /\ rep.kind \in Kind
         /\ rep.dst \in Task /\ rep.dst % ntasks \in 0 .. ntasks - 1
         /\ Src \in Slot /\ Dst \in Slot
         /\ rep.kind \in FileKind => Src \in FileSlot /\ Dst \in FileSlot
         /\ rep.kind = "wbuf" => Src \in BufSlot /\ Dst \in BufSlot
<1>1. /\ rep.kind \in Kind /\ rep.dst \in 0 .. MaxTasks
      /\ ntasks \in 0 .. MaxTasks /\ ntasks > 0
      /\ rep.mult \in Numbers /\ Product(rep.mult) <= MaxTasks
      /\ rep.dst < Product(rep.mult)
  BY DEF TypeOK, LoopInv, Copying
<1>2. Product(rep.mult) \in Word BY <1>1, ProductWord
<1>3. rep.dst \in Task BY <1>1, <1>2 DEF Task, Word
<1>4. rep.dst % ntasks \in 0 .. ntasks - 1
  <2>1. rep.dst \in Int /\ ntasks \in Nat \ {0} BY <1>1
  <2> QED BY <2>1, ModRange
<1>5. rep.dst % ntasks \in Task BY <1>1, <1>4 DEF Task
<1>6. /\ <<rep.dst, rep.kind>> \in Slot
      /\ rep.kind \in FileKind => <<rep.dst, rep.kind>> \in FileSlot
      /\ rep.kind = "wbuf" => <<rep.dst, rep.kind>> \in BufSlot
  BY <1>1, <1>3, TaskSlots
<1>7. /\ <<rep.dst % ntasks, rep.kind>> \in Slot
      /\ rep.kind \in FileKind => <<rep.dst % ntasks, rep.kind>> \in FileSlot
      /\ rep.kind = "wbuf" => <<rep.dst % ntasks, rep.kind>> \in BufSlot
  BY <1>1, <1>5, TaskSlots
<1> QED BY <1>1, <1>3, <1>4, <1>6, <1>7 DEF Src, Dst

\* After a step of the loop's body that copied what the source slot held (or
\* skipped it because it held nothing) the invariants of the loop hold again.
LEMMA AdvanceInv ==
  ASSUME TypeOK, LoopInv, InstInv, Copying, Advance, TableType',
         UNCHANGED <<pc, error, ntasks>>,
         \A t \in Slot : active[t] => active'[t],
         rep.kind = "inst" => active'[Dst]
  PROVE  TypeOK' /\ LoopInv' /\ InstInv'
<1>1. /\ rep.kind \in Kind /\ rep.dst \in 0 .. MaxTasks
      /\ ntasks \in 0 .. MaxTasks /\ rep.mult \in Numbers
      /\ Product(rep.mult) <= MaxTasks /\ rep.dst < Product(rep.mult)
      /\ rep \in [mult : Numbers \union {0}, dst : 0 .. MaxTasks, kind : Kind]
  BY DEF TypeOK, LoopInv, Copying
<1>2. Product(rep.mult) \in Word BY <1>1, ProductWord
<1>3. /\ rep'.mult = rep.mult
      /\ rep'.kind = NextKind[rep.kind]
      /\ rep'.dst = IF rep.kind = "wbuf" THEN rep.dst + 1 ELSE rep.dst
      /\ rep' = [mult |-> rep.mult, dst |-> rep'.dst, kind |-> NextKind[rep.kind]]
  BY <1>1 DEF Advance
<1>4. Product(rep.mult)' = Product(rep.mult)
  BY <1>3 DEF Product, Narrow
<1>5. /\ rep'.kind \in Kind
      /\ rep'.kind = "inst" <=> rep.kind = "wbuf"
      /\ rep.dst <= rep'.dst /\ rep'.dst <= Product(rep.mult)
  BY <1>1, <1>2, <1>3 DEF NextKind, Kind, FileKind, Word
<1>6. TypeOK'
  <2>1. rep'.dst \in 0 .. MaxTasks BY <1>1, <1>2, <1>3, <1>5 DEF Word
  <2>2. rep' \in [mult : Numbers \union {0}, dst : 0 .. MaxTasks, kind : Kind]
    BY <1>1, <1>3, <1>5, <2>1
  <2> QED BY <2>2 DEF TypeOK, TableType
<1>7. LoopInv'
  <2> SUFFICES ASSUME pc' = "replicate" PROVE LoopInv' BY DEF LoopInv
  <2>1. rep'.kind # "inst" => rep'.dst < Product(rep.mult)
    BY <1>1, <1>3, <1>5
  <2>2. ntasks <= rep'.dst /\ ntasks > 0
    BY <1>1, <1>2, <1>3, <1>5 DEF LoopInv, Word
  <2> QED BY <2>1, <2>2, <1>1, <1>3, <1>4 DEF LoopInv
<1>8. InstInv'
  <2>1. \A i \in 0 .. rep.dst - 1 : active'[<<i, "inst">>]
    BY <1>1, InstSlots DEF InstInv, Copying
  <2>2. AllHaveInst'
    <3>1. \A i \in 0 .. ntasks - 1 : <<i, "inst">> \in Slot BY <1>1, InstSlots
    <3> QED BY <3>1 DEF InstInv, AllHaveInst, Copying
  <2>3. active'[<<rep.dst, "inst">>]
    <3>1. CASE rep.kind = "inst" BY <3>1 DEF Dst
    <3>2. CASE rep.kind # "inst"
      <4>1. <<rep.dst, "inst">> \in Slot
        BY CopySlots, TaskSlots DEF Kind, FileKind
      <4> QED BY <3>2, <4>1 DEF InstInv, Copying
    <3> QED BY <3>1, <3>2
  <2>4. \A i \in 0 .. rep'.dst - 1 : active'[<<i, "inst">>]
    <3> TAKE i \in 0 .. rep'.dst - 1
    <3>1. i \in 0 .. rep.dst - 1 \/ i = rep.dst BY <1>1, <1>3
    <3> QED BY <3>1, <2>1, <2>3
  <2>5. rep'.kind # "inst" => active'[<<rep'.dst, "inst">>]
    BY <1>3, <1>5, <2>3
  <2> QED BY <2>2, <2>4, <2>5 DEF InstInv
<1> QED BY <1>6, <1>7, <1>8

\* Each step of gpu_replicate preserves the invariant.
LEMMA ReplicateInv == IInv /\ Replicate => IInv'
<1> SUFFICES ASSUME IInv, Replicate PROVE IInv' OBVIOUS
<1> USE DEF IInv
<1>1. CASE SkipInactive
  <2>1. TableInv' BY <1>1, SameTable DEF SkipInactive
  <2>2. rep.kind # "inst"
    <3>1. Copying /\ ~active[Src] BY <1>1 DEF SkipInactive
    <3>2. rep.dst % ntasks \in 0 .. ntasks - 1 BY <3>1, CopySlots
    <3>3. active[<<rep.dst % ntasks, "inst">>]
      BY <3>1, <3>2 DEF Copying, InstInv, AllHaveInst
    <3> QED BY <3>1, <3>3 DEF Src
  <2>3. TypeOK' /\ LoopInv' /\ InstInv'
    BY <1>1, <2>1, <2>2, AdvanceInv DEF SkipInactive, table, TableInv
  <2> QED BY <2>1, <2>3
<1>2. CASE DupAssert \/ DupFileFails
  <2> USE <1>2 DEF DupAssert, DupFileFails, Stop
  <2>1. TableInv' BY SameTable
  <2>2. TypeOK'
    <3>1. pc' \in {"abort", "cleanup"} /\ ntasks' = ntasks /\ rep' = rep
      OBVIOUS
    <3>2. error' \in BOOLEAN BY Zenon DEF TypeOK
    <3> QED BY <2>1, <3>1, <3>2 DEF TypeOK, TableInv, TableType, PC
  <2>3. LoopInv' /\ InstInv' BY DEF LoopInv, InstInv
  <2> QED BY <2>1, <2>2, <2>3
<1>3. CASE DupFile
  <2>1. /\ Copying /\ active[Src] /\ (Debug => ~active[Dst])
        /\ rep.kind \in FileKind
    BY <1>3 DEF DupFile, MayDup
  <2>2. Src \in FileSlot /\ Dst \in FileSlot /\ Dst \in Slot
    BY <2>1, CopySlots
  <2>3. /\ fd[Src] \in Fds /\ open[fd[Src]] \in Files
        /\ size[Src] = FileSize[open[fd[Src]]]
        /\ size[Src] > 0 /\ size[Src] % Factor[rep.kind] = 0
    <3>1. Src \in ActiveFiles /\ Src[2] = rep.kind
      BY <2>1, <2>2 DEF ActiveFiles, Src
    <3>2. fd[Src] \in Fds /\ open[fd[Src]] # Closed
      BY <3>1 DEF TableInv, FdInv
    <3>3. open[fd[Src]] \in Files BY <3>2 DEF TableInv, TableType
    <3> QED BY <3>1, <3>2, <3>3 DEF TableInv, SizeAgrees
  <2>4. PICK d \in Fds : /\ open[d] = Closed
                         /\ open' = [open EXCEPT ![d] = open[fd[Src]]]
                         /\ fd' = [fd EXCEPT ![Dst] = d]
    BY <1>3 DEF DupFile, IsNewFd
  <2>5. /\ size' = [size EXCEPT ![Dst] = FileSize[open[fd[Src]]]]
        /\ active' = [active EXCEPT ![Dst] = TRUE]
    BY <1>3, <2>3 DEF DupFile
  <2>6. Factor[Dst[2]] = Factor[rep.kind] BY DEF Dst
  <2>7. TableInv' BY <2>1, <2>2, <2>3, <2>4, <2>5, <2>6, StoreFile
  <2>8. active'[Dst] /\ \A t \in Slot : active[t] => active'[t]
    BY <2>2, <2>5 DEF TableInv, TableType
  <2>9. TypeOK' /\ LoopInv' /\ InstInv'
    BY <1>3, <2>1, <2>7, <2>8, AdvanceInv DEF DupFile, TableInv
  <2> QED BY <2>7, <2>9
<1>4. CASE DupBuf
  <2>1. Copying /\ rep.kind = "wbuf" BY <1>4 DEF DupBuf, MayDup
  <2>2. Src \in BufSlot /\ Dst \in BufSlot /\ Src \in Slot /\ Dst \in Slot
    BY <2>1, CopySlots
  <2>3. size[Src] \in Word BY <2>2 DEF TableInv, TableType
  <2>4. TableInv' BY <1>4, <2>2, <2>3, StoreBuf DEF DupBuf
  <2>5. \A t \in Slot : active[t] => active'[t]
    BY <1>4, <2>2 DEF DupBuf, TableInv, TableType
  <2>6. TypeOK' /\ LoopInv' /\ InstInv'
    BY <1>4, <2>1, <2>4, <2>5, AdvanceInv DEF DupBuf, TableInv
  <2> QED BY <2>4, <2>6
<1>5. CASE Replicated
  <2>1. TableInv' BY <1>5, SameTable DEF Replicated
  <2>2. /\ pc = "replicate" /\ pc' = "args" /\ rep' = Idle
        /\ error' = error /\ active' = active
        /\ ntasks' = Product(rep.mult) /\ ~(rep.dst < Product(rep.mult))
    BY <1>5 DEF Replicated, Copying, table
  <2>3. Product(rep.mult) \in 0 .. MaxTasks
    <3>1. rep.mult \in Numbers /\ Product(rep.mult) <= MaxTasks
      BY <2>2 DEF LoopInv
    <3>2. Product(rep.mult) \in Word BY <3>1, ProductWord DEF TypeOK
    <3> QED BY <3>1, <3>2 DEF Word
  <2>4. TypeOK'
    <3>1. Idle \in [mult : Numbers \union {0}, dst : 0 .. MaxTasks, kind : Kind]
      BY DEF Idle, Kind, FileKind
    <3> QED BY <2>1, <2>2, <2>3, <3>1 DEF TypeOK, TableInv, TableType, PC
  <2>5. LoopInv' BY <2>2 DEF LoopInv
  <2>6. InstInv'
    <3>1. \A i \in 0 .. rep.dst - 1 : active[<<i, "inst">>]
      BY <2>2 DEF InstInv
    <3>2. rep.dst \in Nat /\ Product(rep.mult) <= rep.dst
      BY <2>2, <2>3 DEF TypeOK
    <3>3. \A i \in 0 .. Product(rep.mult) - 1 : active[<<i, "inst">>]
      <4> TAKE i \in 0 .. Product(rep.mult) - 1
      <4>1. i \in 0 .. rep.dst - 1 BY <2>3, <3>2
      <4> QED BY <3>1, <4>1
    <3> QED BY <2>2, <3>3 DEF InstInv, AllHaveInst
  <2> QED BY <2>1, <2>4, <2>5, <2>6
<1> QED BY <1>1, <1>2, <1>3, <1>4, <1>5 DEF Replicate

\* Using the table and tearing it down preserve the invariant.
LEMMA FinishInv == IInv /\ (Execute \/ Cleanup) => IInv'
<1> SUFFICES ASSUME IInv, Execute \/ Cleanup PROVE IInv' OBVIOUS
<1> USE DEF IInv
<1>1. CASE Execute
  <2>1. TableInv' BY <1>1, SameTable DEF Execute
  <2>2. /\ pc' \in {"abort", "cleanup"} /\ ntasks' = ntasks /\ rep' = rep
    BY <1>1 DEF Execute
  <2>3. error' \in BOOLEAN
    <3>1. PICK failed \in BOOLEAN : error' = (failed /\ ntasks > 0)
      BY <1>1 DEF Execute
    <3> QED BY <3>1
  <2>4. TypeOK' BY <2>1, <2>2, <2>3 DEF TypeOK, TableInv, TableType, PC
  <2>5. LoopInv' /\ InstInv' BY <2>2 DEF LoopInv, InstInv
  <2> QED BY <2>1, <2>4, <2>5
<1>2. CASE Cleanup
  <2>1. /\ pc' = "exit" /\ UNCHANGED <<ntasks, size, fd, rep>>
        /\ active' = [s \in Slot |-> s \in BufSlot /\ active[s]]
        /\ open' = [d \in Fds |-> IF \E s \in ActiveFiles : fd[s] = d
                                    THEN Closed ELSE open[d]]
    BY <1>2 DEF Cleanup
  <2>2. ActiveFiles' = {}
    <3>1. \A s \in FileSlot : s \in Slot /\ s \notin BufSlot
      BY DEF FileSlot, BufSlot, Slot, FileKind, Kind
    <3> QED BY <2>1, <3>1 DEF ActiveFiles
  <2>3. TableInv'
    <3>1. active' \in [Slot -> BOOLEAN] BY <2>1
    <3>2. open' \in [Fds -> Files \union {Closed}]
      BY <2>1 DEF TableInv, TableType
    <3>3. TableType' BY <2>1, <3>1, <3>2 DEF TableInv, TableType
    <3>4. FdInv' /\ SizeAgrees' BY <2>2 DEF FdInv, SizeAgrees
    <3>5. Debug => NoLeak' BY <2>1 DEF TableInv, NoLeak
    <3> QED BY <3>3, <3>4, <3>5 DEF TableInv
  <2>4. error' \in BOOLEAN
    <3>1. PICK failed \in BOOLEAN :
            error' = (error \/ (failed /\ ActiveFiles # {}))
      BY <1>2 DEF Cleanup
    <3> QED BY <3>1
  <2>5. TypeOK' BY <2>1, <2>3, <2>4 DEF TypeOK, TableInv, TableType, PC
  <2>6. LoopInv' /\ InstInv' BY <2>1 DEF LoopInv, InstInv
  <2> QED BY <2>3, <2>5, <2>6
<1> QED BY <1>1, <1>2

\* The invariant is inductive.
LEMMA NextInv == IInv /\ [Next]_vars => IInv'
<1> SUFFICES ASSUME IInv, [Next]_vars PROVE IInv' OBVIOUS
<1>1. CASE UNCHANGED vars
  <2>1. TableInv' BY <1>1, SameTable DEF IInv, vars
  <2>2. UNCHANGED <<pc, error, ntasks, active, size, fd, open, rep>>
    BY <1>1 DEF vars, table
  <2> QED BY <2>1, <2>2
       DEF IInv, TypeOK, LoopInv, InstInv, AllHaveInst, Product, Narrow
<1> QED BY <1>1, HandlerInv, ReplicateInv, FinishInv DEF Next, Terminated

-----------------------------------------------------------------------------

\* The type invariant and the strengthening hold in every reachable state.
THEOREM Invariance == Spec => []IInv
BY InitInv, NextInv, PTL DEF Spec

\* Type correctness of the task table: ntasks and dst stay within the table
\* whatever the multipliers are, and every size is a u32.
THEOREM TypeCorrect == Spec => []TypeOK
<1>1. IInv => TypeOK BY DEF IInv
<1> QED BY <1>1, Invariance, PTL

\* The assertion of link_mem (gpu.c:507) holds for every command line, in
\* every build and also when the product of gpu_replicate wraps.
THEOREM InstructionsPresent == Spec => []TasksHaveInst
<1>1. IInv => TasksHaveInst BY DEF IInv, InstInv, TasksHaveInst
<1> QED BY <1>1, Invariance, PTL

\* The recorded sizes are those of the files that the descriptors refer to.
THEOREM SizesAgree == Spec => []SizeAgrees
<1>1. IInv => SizeAgrees BY DEF IInv, TableInv
<1> QED BY <1>1, Invariance, PTL

\* At exit gpu_cleanup has emptied every file slot, also those beyond ntasks.
ExitInv == pc = "exit" => ActiveFiles = {}

\* Only Cleanup reaches exit, and it closes every file slot.
LEMMA ExitStep == IInv /\ ExitInv /\ [Next]_vars => ExitInv'
<1> SUFFICES ASSUME IInv, ExitInv, [Next]_vars, pc' = "exit"
             PROVE  ActiveFiles' = {}
  BY DEF ExitInv
<1>1. CASE Cleanup
  <2>1. \A s \in FileSlot : s \in Slot /\ s \notin BufSlot
    BY DEF FileSlot, BufSlot, Slot, FileKind, Kind
  <2> QED BY <1>1, <2>1 DEF Cleanup, ActiveFiles
<1>2. CASE UNCHANGED vars
  BY <1>2 DEF vars, table, ExitInv, ActiveFiles
<1>3. CASE Handler
  BY <1>3 DEF Handler, HandleI, HandleU, HandleR, HandleW, HandleX,
     HandleIFails, RejectArgument, EndOfArguments, Stop
<1>4. CASE Replicate
  BY <1>4 DEF Replicate, SkipInactive, DupAssert, DupFile, DupFileFails,
     DupBuf, Replicated, Copying, MayDup, Stop
<1>5. CASE Execute BY <1>5 DEF Execute
<1> QED BY <1>1, <1>2, <1>3, <1>4, <1>5 DEF Next, Terminated

\* In a build with assertions the active slots own the open descriptors one
\* to one at every step, so gpu_cleanup leaves none open.
THEOREM NoDescriptorLost ==
  ASSUME Debug PROVE Spec => [](DescriptorsOwned /\ CleanExit)
<1>1. Init => ExitInv BY DEF Init, ExitInv
<1>2. IInv /\ ExitInv => DescriptorsOwned /\ CleanExit
  BY DEF IInv, TableInv, FdInv, NoLeak, ExitInv, DescriptorsOwned, CleanExit
<1> QED BY <1>1, <1>2, InitInv, NextInv, ExitStep, PTL DEF Spec
=============================================================================
