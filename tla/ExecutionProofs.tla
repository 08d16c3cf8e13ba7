-------------------------- MODULE ExecutionProofs --------------------------
(***************************************************************************)
(* Proofs about `qpu execute` as a whole, for any number of tasks and      *)
(* descriptors, any files, any width of a u32 that is a multiple of 8 and  *)
(* any command line: what LayoutProofs shows of the memory holds for every *)
(* table that a command line builds (Sound); and unless a product of       *)
(* gpu_replicate wraps, such a table is all that Layout relies on (Legal), *)
(* and what is laid out is the list of tasks that the arguments spell      *)
(* (ListExecuted).                                                         *)
(*                                                                         *)
(* The invariants of TaskTable and Layout and their inductive steps are    *)
(* those of their own proof modules, P and M below.  Table and Memory, the *)
(* instances in Execution, expand to the same formulas.                    *)
(***************************************************************************)
EXTENDS Execution, Sequences, TLAPS

P == INSTANCE ReplicationProofs

M == INSTANCE LayoutProofs WITH
  pc <- stage, file <- FileOf,
  Named <- [k \in FileKind |-> Files], BufSizes <- Word, MaxTruncations <- 0

-----------------------------------------------------------------------------
(* What the two proof modules assume and define                            *)

\* The assumptions of ReplicationProofs are those of Execution.
LEMMA TableConstants ==
  /\ P!FilesAssumption /\ P!NumbersAssumption /\ P!FdsAssumption
  /\ P!DebugAssumption /\ P!MaxTasksAssumption /\ P!U32Assumption
BY TableAssumption, MaxTasksAssumption, U32Assumption DEF Table!Word, P!Word

\* The assumptions of LayoutProofs are those of Execution, which gives every
\* kind of slot all the files and every write buffer any size.
LEMMA MemoryConstants ==
  /\ M!FilesAssumption /\ M!BufSizesAssumption /\ M!PageSizeAssumption
  /\ M!U32LayoutAssumption /\ M!NullAssumption /\ M!TruncationsAssumption
  /\ M!DebugAssumption /\ M!CodeAssumption /\ M!MaxTasksAssumption /\ M!U32Assumption
<1>1. M!FilesAssumption /\ M!BufSizesAssumption
  BY TableAssumption DEF Table!Word, M!Word, Word, M!FileKind, FileKind
<1>2. /\ M!PageSizeAssumption /\ M!U32LayoutAssumption /\ M!NullAssumption
      /\ M!TruncationsAssumption /\ M!DebugAssumption
  BY TableAssumption, MemoryAssumption
<1>3. M!CodeAssumption
  BY MemoryAssumption DEF Memory!Op, M!Op, Memory!Placeholder, M!Placeholder
<1>4. M!MaxTasksAssumption /\ M!U32Assumption
  BY MaxTasksAssumption, U32Assumption
<1>5. QED
  BY <1>1, <1>2, <1>3, <1>4

\* The handlers of command_execute, in both instances of TaskTable.
LEMMA SameHandler == Table!Handler => P!Handler
BY DEF Table!Handler, P!Handler, Table!HandleI, P!HandleI, Table!SetFile, P!SetFile,
       Table!Loadable, P!Loadable, Table!Factor, P!Factor, Table!IsNewFd, P!IsNewFd,
       Table!HandleU, P!HandleU, Table!Current, P!Current, Table!Glob, P!Glob,
       Table!HandleR, P!HandleR, Table!HandleW, P!HandleW, Table!Narrow, P!Narrow,
       Table!HandleX, P!HandleX, Table!Product, P!Product, Table!table, P!table,
       Table!HandleIFails, P!HandleIFails, Table!Stop, P!Stop, Table!RejectArgument,
       P!RejectArgument, Table!EndOfArguments, P!EndOfArguments

\* The loop of gpu_replicate, in both instances of TaskTable.
LEMMA SameReplicate == Table!Replicate => P!Replicate
BY DEF Table!Replicate, P!Replicate, Table!SkipInactive, P!SkipInactive, Table!Copying,
       P!Copying, Table!Product, P!Product, Table!Narrow, P!Narrow, Table!Src, P!Src,
       Table!Advance, P!Advance, Table!NextKind, P!NextKind, Table!table, P!table,
       Table!DupAssert, P!DupAssert, Table!Dst, P!Dst, Table!DupFile, P!DupFile,
       Table!MayDup, P!MayDup, Table!FileKind, P!FileKind, Table!IsNewFd, P!IsNewFd,
       Table!DupFileFails, P!DupFileFails, Table!Stop, P!Stop, Table!DupBuf, P!DupBuf,
       Table!Replicated, P!Replicated, Table!Idle, P!Idle

\* mem_alloc, init_mem and link_mem, in both instances of Layout.
LEMMA SameProgram == Memory!Program => M!Program
<1>1. \A S : Memory!SumFunctionOnSet(size, S) = M!SumFunctionOnSet(size, S)
  BY DEF Memory!SumFunctionOnSet, M!SumFunctionOnSet,
         Memory!FoldFunctionOnSet, M!FoldFunctionOnSet,
         Memory!MapThenFoldSet, M!MapThenFoldSet
<1>2. Memory!MemSize = M!MemSize
  BY <1>1
  DEF Memory!MemSize, M!MemSize, Memory!CtlSize, M!CtlSize, Memory!Counted, M!Counted,
      Memory!InUse, M!InUse, Memory!Slot, M!Slot, Memory!Owner, M!Owner, Memory!Glob,
      M!Glob, Memory!Task, M!Task, Memory!Kind, M!Kind, Memory!FileKind, M!FileKind
<1>3. QED
  BY <1>2
  DEF Memory!Program, M!Program, Memory!Alloc, M!Alloc, Memory!CtlSize, M!CtlSize,
      Memory!Counted, M!Counted, Memory!InUse, M!InUse, Memory!Slot, M!Slot,
      Memory!Owner, M!Owner, Memory!Glob, M!Glob, Memory!Task, M!Task, Memory!Kind,
      M!Kind, Memory!FileKind, M!FileKind, Memory!RoundUp, M!RoundUp, Memory!table,
      M!table, Memory!link, M!link, Memory!AllocFails, M!AllocFails, Memory!mem, M!mem,
      Memory!PlaceFile, M!PlaceFile, Memory!IsNext, M!IsNext, Memory!Unplaced,
      M!Unplaced, Memory!PlacedBefore, M!PlacedBefore, Memory!Phase, M!Phase,
      Memory!FileSlot, M!FileSlot, Memory!HasRoom, M!HasRoom, Memory!Reserve, M!Reserve,
      Memory!Available, M!Available, Memory!Start, M!Start, Memory!ReadFails,
      M!ReadFails, Memory!PlaceBuf, M!PlaceBuf, Memory!BufSlot, M!BufSlot,
      Memory!NoRoom, M!NoRoom, Memory!WriteControl, M!WriteControl, Memory!Tasks,
      M!Tasks, Memory!UnifOf, M!UnifOf, Memory!LinkTask, M!LinkTask, Memory!Link,
      M!Link, Memory!Placeholder, M!Placeholder, Memory!Target, M!Target,
      Memory!Mismatch, M!Mismatch, Memory!Found, M!Found, Memory!Linked, M!Linked

\* What Layout promises, in both instances of Layout.
LEMMA SamePromises ==
  /\ M!AssertedDisjoint => Memory!AssertedDisjoint
  /\ M!RegionsAligned => Memory!RegionsAligned
  /\ M!LoadedWhole => Memory!LoadedWhole
  /\ M!LinkSound => Memory!LinkSound
  /\ M!ControlSound => Memory!ControlSound
BY DEF Memory!AssertedDisjoint, M!AssertedDisjoint, Memory!CtlSize, M!CtlSize,
       Memory!RegionsDisjoint, M!RegionsDisjoint, Memory!Region, M!Region,
       Memory!RegionsAligned, M!RegionsAligned, Memory!BufSlot, M!BufSlot, Memory!Owner,
       M!Owner, Memory!Glob, M!Glob, Memory!Task, M!Task, Memory!Factor, M!Factor,
       Memory!LoadedWhole, M!LoadedWhole, Memory!LinkSound, M!LinkSound, Memory!Tasks,
       M!Tasks, Memory!Placeholder, M!Placeholder, Memory!Target, M!Target,
       Memory!ControlSound, M!ControlSound

\* Seen from the proofs of TaskTable, every step is one of its steps.
LEMMA TableStep == [Next]_vars => [P!Next]_(P!vars)
<1>1. SUFFICES ASSUME [Next]_vars PROVE P!Next \/ UNCHANGED P!vars
  OBVIOUS
<1>2. CASE Build
  BY <1>2, SameHandler, SameReplicate DEF Build, Table!Replicate, P!Next
<1>3. CASE Start \/ LayOut
  BY <1>3 DEF Start, LayOut, table, P!vars, P!table
<1>4. CASE Finish
  BY <1>4 DEF Finish, Table!Execute, P!Execute, Table!AllHaveInst, P!AllHaveInst,
              Table!table, P!table, P!Next
<1>5. CASE Cleanup
  BY <1>5 DEF Cleanup, Table!Cleanup, P!Cleanup, Table!ActiveFiles, P!ActiveFiles, P!Next,
              Table!Slot, P!Slot, Table!FileSlot, P!FileSlot, Table!BufSlot, P!BufSlot,
              Table!Owner, P!Owner, Table!Kind, P!Kind, Table!FileKind, P!FileKind,
              Table!Glob, P!Glob, Table!Task, P!Task
<1>6. CASE Terminated \/ UNCHANGED vars
  BY <1>6 DEF Terminated, vars, table, P!vars, P!table
<1>7. QED
  BY <1>1, <1>2, <1>3, <1>4, <1>5, <1>6 DEF Next

\* The invariant of TaskTable holds of every state of Execution.
LEMMA TableInvInit == Init => P!IInv
<1>1. Init => P!Init
  BY DEF Init, Table!Init, P!Init, Table!Idle, P!Idle, Table!Slot, P!Slot, Table!FileSlot,
         P!FileSlot, Table!Owner, P!Owner, Table!Kind, P!Kind, Table!FileKind, P!FileKind,
         Table!Glob, P!Glob, Table!Task, P!Task
<1>2. QED
  BY <1>1, TableConstants, P!InitInv

\* Every step keeps it.
LEMMA TableInvStep == P!IInv /\ [Next]_vars => P!IInv'
BY TableStep, TableConstants, P!NextInv

\* The names of the slots are the same everywhere.
LEMMA SameSlots ==
  /\ P!Slot = Slot /\ P!FileSlot = FileSlot /\ P!BufSlot = BufSlot /\ P!Word = Word
  /\ M!Slot = Slot /\ M!FileSlot = FileSlot /\ M!BufSlot = BufSlot /\ M!Word = Word
  /\ Table!FileSlot = FileSlot /\ Memory!Slot = Slot /\ Memory!FileSlot = FileSlot
  /\ Memory!BufSlot = BufSlot
  /\ M!Task = Task /\ M!FileKind = FileKind /\ M!Factor = Factor /\ P!Factor = Factor
  /\ Memory!Factor = Factor /\ P!FileKind = FileKind
BY DEF P!Slot, P!FileSlot, P!BufSlot, P!Word, P!Owner, P!Glob, P!Task, P!Kind, P!FileKind,
       M!Slot, M!FileSlot, M!BufSlot, M!Word, M!Owner, M!Glob, M!Task, M!Kind, M!FileKind,
       Table!FileSlot, Table!Owner, Table!Glob, Table!Task, Table!FileKind,
       Memory!Slot, Memory!FileSlot, Memory!BufSlot, Memory!Owner, Memory!Glob,
       Memory!Task, Memory!Kind, Memory!FileKind,
       Slot, FileSlot, BufSlot, Word, Owner, Glob, Task, Kind, FileKind,
       P!Factor, M!Factor, Memory!Factor, Factor

-----------------------------------------------------------------------------
(* The memory of every command line                                        *)

\* Before gpu_exec_via_mbox nothing has been laid out.
Untouched ==
  /\ length = FileSize
  /\ data = 0 /\ used = 0
  /\ placed = {}
  /\ offset = [s \in FileSlot \union BufSlot |-> 0]
  /\ count = [s \in FileSlot |-> 0]
  /\ text = [i \in Task |-> <<>>]
  /\ linked = 0 /\ linkError = FALSE

\* From then on until gpu_cleanup, the table and the memory are as in Layout.
MemoryInv ==
  /\ stage = "idle" => Untouched
  /\ pc \in {"args", "replicate"} => stage = "idle"
  /\ pc = "execute" /\ stage # "idle" => M!IInv

\* A table that is handed over satisfies what the proofs of Layout start from:
\* types, instructions, and the sizes of the files behind the descriptors.
LEMMA HandedOver == P!IInv /\ pc = "execute" /\ ntasks > 0 => M!TableInv
<1> SUFFICES ASSUME P!IInv, pc = "execute", ntasks > 0
             PROVE  M!TableInv
  OBVIOUS
<1> USE SameSlots, MaxTasksAssumption, TableAssumption
<1>1. /\ ntasks \in 1 .. MaxTasks
      /\ active \in [Slot -> BOOLEAN] /\ size \in [Slot -> Word]
      /\ open \in [Fds -> Files \union {Closed}]
  BY DEF P!IInv, P!TypeOK
<1>2. \A i \in M!Tasks : active[<<i, "inst">>]
  BY DEF P!IInv, P!InstInv, P!AllHaveInst, M!Tasks
<1>3. ASSUME NEW s \in FileSlot, active[s]
      PROVE  /\ FileOf[s] \in [k \in FileKind |-> Files][s[2]] /\ FileOf[s] \in Files
             /\ size[s] = FileSize[FileOf[s]] /\ size[s] % Factor[s[2]] = 0
  <2>1. s \in P!ActiveFiles /\ s \in Table!ActiveFiles
    BY <1>3 DEF P!ActiveFiles, Table!ActiveFiles
  <2>2. FileOf[s] = open[fd[s]]
    BY <2>1 DEF FileOf
  <2>3. fd[s] \in Fds /\ open[fd[s]] # Closed
    BY <2>1 DEF P!IInv, P!TableInv, P!FdInv
  <2>4. FileOf[s] \in Files
    BY <1>1, <2>2, <2>3
  <2>5. size[s] = FileSize[open[fd[s]]] /\ size[s] % Factor[s[2]] = 0
    BY <2>1 DEF P!IInv, P!TableInv, P!SizeAgrees
  <2>6. s[2] \in FileKind
    BY DEF FileSlot
  <2>7. QED
    BY <2>2, <2>4, <2>5, <2>6
<1>4. QED
  BY <1>1, <1>2, <1>3 DEF M!TableInv

\* With such a table, and nothing laid out, Layout's invariant holds.
LEMMA LayoutStarts == M!TableInv /\ Untouched /\ stage = "size" => M!IInv
<1> SUFFICES ASSUME M!TableInv, Untouched, stage = "size"
             PROVE  M!IInv
  OBVIOUS
<1> USE SameSlots, MaxTasksAssumption, U32Assumption, TableAssumption, MemoryAssumption
<1>1. Slot = FileSlot \union BufSlot
  BY DEF Slot, FileSlot, BufSlot, Owner, Kind, FileKind, Glob, Task
<1>2. 0 \in Word
  BY DEF Word
<1>3. M!PcInv /\ M!ControlInv
  BY DEF M!PcInv, M!ControlInv
<1>4. M!PlaceInv
  BY <1>1, <1>2 DEF M!PlaceInv, Untouched
<1>5. M!AlignInv
  BY DEF M!AlignInv, M!RegionsAligned, Untouched
<1>6. FileSize \in [Files -> Word]
  BY DEF Table!Word, Word
<1>7. M!LoadInv
  BY <1>6 DEF M!LoadInv, M!LoadedWhole, Untouched, Word
<1>8. M!ApartInv
  BY DEF M!ApartInv, M!CtlSize, Untouched
<1>9. M!LinkInv
  <2>1. <<>> \in Seq(M!Instruction)
    OBVIOUS
  <2>2. text \in [Task -> Seq(M!Instruction)]
    BY <2>1 DEF Untouched
  <2>3. linked \in 0 .. ntasks
    BY DEF Untouched, M!TableInv
  <2>4. QED
    BY <2>2, <2>3 DEF M!LinkInv, Untouched
<1>10. QED
  BY <1>3, <1>4, <1>5, <1>7, <1>8, <1>9 DEF M!IInv

\* Nothing is laid out when the program starts.
LEMMA MemoryInvInit == Init => MemoryInv
<1>1. Slot = FileSlot \union BufSlot
  BY DEF Slot, FileSlot, BufSlot, Owner, Kind, FileKind, Glob, Task
<1>2. QED
  BY <1>1 DEF Init, Table!Init, MemoryInv, Untouched

\* Every step keeps the memory as it was, or is one of Layout's steps.
LEMMA MemoryInvStep == P!IInv /\ MemoryInv /\ [Next]_vars => MemoryInv'
<1> SUFFICES ASSUME P!IInv, MemoryInv, [Next]_vars
             PROVE  MemoryInv'
  OBVIOUS
<1>1. ASSUME UNCHANGED layout
      PROVE  stage' = stage /\ (Untouched => Untouched')
  BY <1>1 DEF layout, Untouched
<1>2. CASE Build
  <2>1. pc \in {"args", "replicate"} /\ UNCHANGED layout
    BY <1>2 DEF Build, Table!Handler, Table!HandleI, Table!HandleU, Table!HandleR,
                Table!HandleW, Table!HandleX, Table!HandleIFails, Table!RejectArgument,
                Table!EndOfArguments, Table!DupFile, Table!SkipInactive, Table!DupAssert,
                Table!DupFileFails, Table!DupBuf, Table!Replicated, Table!MayDup,
                Table!Copying
  <2>2. QED
    BY <1>1, <2>1 DEF MemoryInv
<1>3. CASE Start
  <2>1. /\ pc' = "execute" /\ stage' = "size"
        /\ P!IInv' /\ Untouched' /\ ntasks' > 0
    BY <1>3, TableInvStep DEF Start, MemoryInv, table, Untouched
  <2>2. (P!IInv /\ pc = "execute" /\ ntasks > 0 => M!TableInv)'
    BY HandedOver, PTL
  <2>3. (M!TableInv /\ Untouched /\ stage = "size" => M!IInv)'
    BY LayoutStarts, PTL
  <2>4. QED
    BY <2>1, <2>2, <2>3 DEF MemoryInv
<1>4. CASE LayOut
  <2>1. M!Program /\ pc' = pc
    BY <1>4, SameProgram DEF LayOut, table
  <2>2. stage \in {"size", "place", "link"} /\ stage' # "idle"
    BY <2>1 DEF M!Program, M!Alloc, M!AllocFails, M!PlaceFile, M!ReadFails, M!PlaceBuf,
                M!NoRoom, M!IsNext, M!WriteControl, M!LinkTask, M!Linked
  <2>3. M!IInv => M!IInv'
    BY <2>1, MemoryConstants, M!InvStep DEF M!Next
  <2>4. QED
    BY <2>1, <2>2, <2>3 DEF MemoryInv
<1>5. CASE Finish \/ Cleanup
  <2>1. UNCHANGED layout /\ pc' \notin {"args", "replicate", "execute"}
    BY <1>5 DEF Finish, Cleanup, Table!Execute, Table!Cleanup
  <2>2. QED
    BY <1>1, <2>1 DEF MemoryInv
<1>6. CASE Terminated \/ UNCHANGED vars
  <2>1. UNCHANGED <<table, description, layout>>
    BY <1>6 DEF Terminated, vars
  <2>2. UNCHANGED <<M!vars, pc>>
    BY <2>1 DEF table, layout, M!vars, M!table, M!mem, M!link, FileOf, Table!ActiveFiles
  <2>3. M!IInv => M!IInv'
    BY <2>2, MemoryConstants, M!InvStep
  <2>4. QED
    BY <1>1, <2>1, <2>2, <2>3 DEF MemoryInv
<1>7. QED
  BY <1>2, <1>3, <1>4, <1>5, <1>6 DEF Next

\* For every command line, also when a product of gpu_replicate wrapped: the
\* regions of the tasks are aligned and hold their files, with assertions they
\* are kept apart, links and control block are sound, until gpu_cleanup.
THEOREM Sound == Spec => []ProgramSound
<1>1. ASSUME P!IInv, MemoryInv, pc = "execute"
      PROVE  /\ M!AssertedDisjoint /\ M!RegionsAligned /\ M!LoadedWhole
             /\ M!LinkSound /\ M!ControlSound
  <2>1. CASE stage # "idle"
    <3>1. M!IInv
      BY <1>1, <2>1 DEF MemoryInv
    <3>2. M!RegionsAligned /\ M!LoadedWhole
      BY <3>1 DEF M!IInv, M!AlignInv, M!LoadInv
    <3>3. M!AssertedDisjoint
      BY <3>1, MemoryConstants, M!ApartHolds
    <3>4. M!LinkSound
      BY <3>1, MemoryConstants, M!LinkHolds
    <3>5. M!ControlSound
      BY <3>1, MemoryConstants, M!ControlHolds
    <3>6. QED
      BY <3>2, <3>3, <3>4, <3>5
  <2>2. CASE stage = "idle"
    BY <1>1, <2>2 DEF MemoryInv, Untouched, M!AssertedDisjoint, M!RegionsDisjoint,
                      M!RegionsAligned, M!LoadedWhole, M!LinkSound, M!ControlSound
  <2>3. QED
    BY <2>1, <2>2
<1>2. P!IInv /\ MemoryInv => ProgramSound
  BY <1>1, SamePromises DEF ProgramSound
<1>3. QED
  BY <1>2, TableInvInit, TableInvStep, MemoryInvInit, MemoryInvStep, PTL DEF Spec

-----------------------------------------------------------------------------
(* The table that is handed over                                           *)

\* A slot that is in use shares the description of the slot that its file was
\* opened for, which is still in use, of the same kind and refers to the file.
SharedInv ==
  /\ description \in [FileSlot -> FileSlot]
  /\ pc # "exit" =>
       \A s \in FileSlot :
         /\ ~active[s] => description[s] = s
         /\ active[s] => LET o == description[s]
                         IN  active[o] /\ o[2] = s[2] /\ open[fd[o]] = open[fd[s]]

\* What TaskTable keeps between arguments holds until the table is laid out.
ReadyInv ==
  /\ pc = "execute" => \A s \in Slot : s[1] >= ntasks => ~active[s]
  /\ stage = "size" => pc = "execute" /\ ntasks > 0

HandInv == SharedInv /\ ReadyInv

\* The invariant of ReplicationProofs holds of every state of Execution.
LEMMA ExactInit == Init => P!ExactInv
<1>1. Init => P!Init
  BY DEF Init, Table!Init, P!Init, Table!Idle, P!Idle, Table!Slot, P!Slot, Table!FileSlot,
         P!FileSlot, Table!Owner, P!Owner, Table!Kind, P!Kind, Table!FileKind, P!FileKind,
         Table!Glob, P!Glob, Table!Task, P!Task
<1>2. QED
  BY <1>1, TableConstants, P!ExactInit

\* Every step keeps it, unless a product of gpu_replicate wraps.
LEMMA ExactStep ==
  ASSUME P!NoWrap
  PROVE  P!IInv /\ P!ExactInv /\ [Next]_vars => P!ExactInv'
BY TableStep, TableConstants, P!ExactStep

\* Opening a file for an empty slot, or duplicating one for it, keeps shared
\* descriptions within a kind and a file.
LEMMA Shares ==
  ASSUME P!IInv, SharedInv, pc # "exit", NEW s \in FileSlot, ~active[s],
         NEW o \in FileSlot, NEW d \in Fds, NEW f,
         open[d] = Closed, f # Closed,
         o = s \/ (active[o] /\ o[2] = s[2] /\ open[fd[o]] = f),
         active' = [active EXCEPT ![s] = TRUE],
         open' = [open EXCEPT ![d] = f],
         fd' = [fd EXCEPT ![s] = d],
         description' = [description EXCEPT ![s] = o]
  PROVE  SharedInv'
<1> USE SameSlots
<1>1. /\ active \in [Slot -> BOOLEAN] /\ fd \in [FileSlot -> Fds \union {0}]
      /\ open \in [Fds -> Files \union {Closed}] /\ FileSlot \subseteq Slot
      /\ description \in [FileSlot -> FileSlot]
  BY DEF P!IInv, P!TypeOK, SharedInv, FileSlot, Slot, FileKind, Kind
<1>2. \A t \in FileSlot : active[t] => fd[t] \in Fds /\ fd[t] # d
  BY DEF P!IInv, P!TableInv, P!FdInv, P!ActiveFiles
<1>3. \A t \in FileSlot \ {s} : /\ active'[t] = active[t] /\ fd'[t] = fd[t]
                                /\ description'[t] = description[t]
                                /\ active[t] => open'[fd'[t]] = open[fd[t]]
  BY <1>1, <1>2
<1>4. active'[s] /\ open'[fd'[s]] = f /\ description'[s] = o
  BY <1>1
<1>5. description' \in [FileSlot -> FileSlot]
  BY <1>1
<1>6. ASSUME NEW t \in FileSlot, t # s, active[t]
      PROVE  LET e == description'[t]
             IN  active'[e] /\ e[2] = t[2] /\ open'[fd'[e]] = open'[fd'[t]]
  <2>1. /\ description[t] \in FileSlot /\ active[description[t]]
        /\ description[t][2] = t[2] /\ open[fd[description[t]]] = open[fd[t]]
    BY <1>1, <1>6 DEF SharedInv
  <2>2. description[t] # s
    BY <2>1
  <2>3. QED
    BY <1>3, <1>6, <2>1, <2>2
<1>7. active'[o] /\ o[2] = s[2] /\ open'[fd'[o]] = f
  BY <1>3, <1>4
<1>8. QED
  BY <1>3, <1>4, <1>5, <1>6, <1>7 DEF SharedInv

\* A step that opens, closes and duplicates nothing keeps them as they are.
LEMMA Unshared ==
  ASSUME SharedInv, pc = "exit" => pc' = "exit",
         UNCHANGED <<fd, open, description>>,
         \A s \in FileSlot : active'[s] = active[s]
  PROVE  SharedInv'
BY DEF SharedInv

\* The steps of gpu_replicate's loop, one by one, in both instances of TaskTable.
LEMMA SameLoop ==
  /\ Table!DupFile => P!DupFile
  /\ (\/ Table!SkipInactive \/ Table!DupAssert \/ Table!DupFileFails
      \/ Table!DupBuf \/ Table!Replicated)
     => P!SkipInactive \/ P!DupAssert \/ P!DupFileFails \/ P!DupBuf \/ P!Replicated
  /\ Table!Src = P!Src /\ Table!Dst = P!Dst
BY DEF Table!SkipInactive, P!SkipInactive, Table!Copying, P!Copying, Table!Product,
       P!Product, Table!Narrow, P!Narrow, Table!Src, P!Src, Table!Advance, P!Advance,
       Table!NextKind, P!NextKind, Table!table, P!table, Table!DupAssert, P!DupAssert,
       Table!Dst, P!Dst, Table!DupFile, P!DupFile, Table!MayDup, P!MayDup,
       Table!FileKind, P!FileKind, Table!IsNewFd, P!IsNewFd, Table!DupFileFails,
       P!DupFileFails, Table!Stop, P!Stop, Table!DupBuf, P!DupBuf, Table!Replicated,
       P!Replicated, Table!Idle, P!Idle

\* Between arguments and in gpu_replicate every step keeps the table ready.
LEMMA BuildHands ==
  ASSUME P!NoWrap, P!IInv, P!ExactInv, MemoryInv, HandInv, Build
  PROVE  HandInv'
<1> USE SameSlots
<1>1. FileSlot \subseteq Slot /\ BufSlot \intersect FileSlot = {} /\ P!TypeOK /\ P!LoopInv
  BY DEF FileSlot, BufSlot, Slot, FileKind, Kind, P!IInv
<1>2. ASSUME NEW s \in FileSlot, NEW f, f # Closed, ~active[s], pc # "exit",
             active' = [active EXCEPT ![s] = TRUE], UNCHANGED description,
             NEW d \in Fds, open[d] = Closed, open' = [open EXCEPT ![d] = f],
             fd' = [fd EXCEPT ![s] = d]
      PROVE  SharedInv'
  <2>1. description = [description EXCEPT ![s] = s]
    BY <1>2 DEF HandInv, SharedInv
  <2>2. QED
    BY <1>2, <2>1, Shares DEF HandInv
<1>3. ASSUME NEW s \in FileSlot, NEW f, P!SetFile(s, f), pc = "args", UNCHANGED description
      PROVE  SharedInv'
  <2>1. f # Closed
    BY <1>3, TableAssumption DEF P!SetFile, P!Loadable
  <2>2. PICK d \in Fds : /\ open[d] = Closed
                         /\ open' = [open EXCEPT ![d] = f]
                         /\ fd' = [fd EXCEPT ![s] = d]
    BY <1>3 DEF P!SetFile, P!IsNewFd
  <2>3. QED
    BY <1>2, <1>3, <2>1, <2>2 DEF P!SetFile
<1>4. pc \in {"args", "replicate"} /\ stage' = "idle"
  BY DEF Build, Table!Handler, Table!HandleI, Table!HandleU, Table!HandleR,
         Table!HandleW, Table!HandleX, Table!HandleIFails, Table!RejectArgument,
         Table!EndOfArguments, Table!DupFile, Table!SkipInactive, Table!DupAssert,
         Table!DupFileFails, Table!DupBuf, Table!Replicated, Table!MayDup,
         Table!Copying, MemoryInv, layout
<1>5. P!Current \in Owner \ Task \/ P!Current \in Task
  BY <1>1, MaxTasksAssumption DEF P!TypeOK, P!Current, P!Glob, Owner, Glob, Task
<1>6. ASSUME P!Handler, UNCHANGED description
      PROVE  SharedInv'
  <2>1. ASSUME NEW f \in Files, P!HandleI(f)
        PROVE  SharedInv'
    <3>1. <<ntasks, "inst">> \in FileSlot
      BY <1>1, <2>1, MaxTasksAssumption
         DEF P!HandleI, P!TypeOK, FileSlot, Owner, Task, FileKind, Glob
    <3>2. QED
      BY <1>3, <1>6, <2>1, <3>1 DEF P!HandleI
  <2>2. ASSUME NEW f \in Files, P!HandleU(f) \/ P!HandleR(f)
        PROVE  SharedInv'
    <3>1. <<P!Current, "unif">> \in FileSlot /\ <<P!Current, "rbuf">> \in FileSlot
      BY <1>5 DEF FileSlot, Owner, FileKind
    <3>2. QED
      BY <1>3, <1>6, <2>2, <3>1 DEF P!HandleU, P!HandleR
  <2>3. ASSUME NEW n \in Numbers, P!HandleW(n)
        PROVE  SharedInv'
    <3>1. <<P!Current, "wbuf">> \notin FileSlot
      BY DEF FileSlot, FileKind
    <3>2. \A s \in FileSlot : active'[s] = active[s]
      BY <1>1, <2>3, <3>1 DEF P!HandleW, P!TypeOK
    <3>3. QED
      BY <1>6, <2>3, <3>2, Unshared DEF P!HandleW, HandInv
  <2>4. ASSUME NEW n \in Numbers, P!HandleX(n)
        PROVE  SharedInv'
    BY <1>6, <2>4, Unshared DEF P!HandleX, P!table, HandInv
  <2>5. CASE P!HandleIFails \/ P!RejectArgument \/ P!EndOfArguments
    BY <1>6, <2>5, Unshared DEF P!HandleIFails, P!RejectArgument, P!EndOfArguments,
                                P!Stop, P!table, HandInv
  <2>6. QED
    BY <1>6, <2>1, <2>2, <2>3, <2>4, <2>5 DEF P!Handler
<1>7. ASSUME P!DupFile, description' = [description EXCEPT ![P!Dst] = description[P!Src]]
      PROVE  SharedInv'
  <2>1. /\ P!Copying /\ active[P!Src] /\ P!Src \in FileSlot /\ P!Dst \in FileSlot
        /\ P!Src[2] = P!Dst[2] /\ ~active[P!Dst]
    <3>1. P!Copying /\ active[P!Src] /\ rep.kind \in FileKind
      BY <1>7 DEF P!DupFile, P!MayDup
    <3>2. /\ P!Dst \in Slot /\ P!Dst[1] >= ntasks /\ ~P!Passed(P!Dst)
          /\ P!Src \in FileSlot /\ P!Dst \in FileSlot
      BY <1>1, <3>1, TableConstants, P!Position
    <3>3. ~active[P!Dst]
      BY <3>1, <3>2 DEF P!ExactInv, P!FreshInv, P!Copying
    <3>4. QED
      BY <3>1, <3>2, <3>3 DEF P!Src, P!Dst
  <2>2. PICK d \in Fds : /\ open[d] = Closed
                         /\ open' = [open EXCEPT ![d] = open[fd[P!Src]]]
                         /\ fd' = [fd EXCEPT ![P!Dst] = d]
    BY <1>7 DEF P!DupFile, P!IsNewFd
  <2>3. /\ description[P!Src] \in FileSlot /\ active[description[P!Src]]
        /\ description[P!Src][2] = P!Dst[2]
        /\ open[fd[description[P!Src]]] = open[fd[P!Src]]
    BY <1>4, <2>1 DEF HandInv, SharedInv
  <2>4. open[fd[P!Src]] # Closed
    BY <2>1 DEF P!IInv, P!TableInv, P!FdInv, P!ActiveFiles
  <2>5. active' = [active EXCEPT ![P!Dst] = TRUE]
    BY <1>7 DEF P!DupFile
  <2>6. PICK s \in FileSlot : s = P!Dst
    BY <2>1
  <2>7. PICK o \in FileSlot : o = description[P!Src]
    BY <2>3
  <2>8. PICK f : f = open[fd[P!Src]]
    OBVIOUS
  <2>9. QED
    BY <1>4, <1>7, <2>1, <2>2, <2>3, <2>4, <2>5, <2>6, <2>7, <2>8, Shares DEF HandInv
<1>8. ASSUME P!SkipInactive \/ P!DupAssert \/ P!DupFileFails \/ P!DupBuf \/ P!Replicated,
             UNCHANGED description
      PROVE  SharedInv'
  <2>1. ASSUME P!DupBuf
        PROVE  \A s \in FileSlot : active'[s] = active[s]
    <3>1. P!Dst \notin FileSlot
      BY <2>1 DEF P!DupBuf, P!Dst, FileSlot, FileKind
    <3>2. QED
      BY <1>1, <2>1, <3>1 DEF P!DupBuf, P!TypeOK
  <2>2. UNCHANGED <<fd, open>> /\ pc # "exit" /\ \A s \in FileSlot : active'[s] = active[s]
    BY <1>4, <1>8, <2>1 DEF P!SkipInactive, P!DupAssert, P!DupFileFails, P!DupBuf,
                            P!Replicated, P!table
  <2>3. QED
    BY <1>8, <2>2, Unshared DEF HandInv
<1>9. SharedInv'
  BY <1>6, <1>7, <1>8, SameHandler, SameLoop DEF Build
<1>10. ReadyInv'
  <2>1. ASSUME pc' = "execute"
        PROVE  pc = "args" /\ UNCHANGED <<ntasks, active>>
    BY <2>1, <1>4 DEF Build, Table!Handler, Table!HandleI, Table!HandleU, Table!HandleR,
         Table!HandleW, Table!HandleX, Table!HandleIFails, Table!RejectArgument,
         Table!EndOfArguments, Table!DupFile, Table!SkipInactive, Table!DupAssert,
         Table!DupFileFails, Table!DupBuf, Table!Replicated, Table!MayDup,
         Table!Copying, Table!Stop, Table!table
  <2>2. pc = "args" => \A s \in Slot : s[1] >= ntasks => ~active[s]
    BY DEF P!ExactInv, P!FreshInv, P!FreshBeyond
  <2>3. QED
    BY <1>4, <2>1, <2>2 DEF ReadyInv
<1>11. QED
  BY <1>9, <1>10 DEF HandInv

\* Every step keeps the table ready.
LEMMA HandStep ==
  ASSUME P!NoWrap
  PROVE  P!IInv /\ P!ExactInv /\ MemoryInv /\ HandInv /\ [Next]_vars => HandInv'
<1> SUFFICES ASSUME P!IInv, P!ExactInv, MemoryInv, HandInv, [Next]_vars
             PROVE  HandInv'
  OBVIOUS
<1>1. CASE Build
  BY <1>1, BuildHands
<1>2. CASE Start
  BY <1>2, Unshared DEF Start, table, HandInv, ReadyInv
<1>3. CASE LayOut
  <2>1. M!Program /\ UNCHANGED <<pc, ntasks, active, fd, open, description>>
    BY <1>3, SameProgram DEF LayOut, table
  <2>2. stage' # "size"
    BY <2>1 DEF M!Program, M!Alloc, M!AllocFails, M!PlaceFile, M!ReadFails, M!PlaceBuf,
                M!NoRoom, M!IsNext, M!WriteControl, M!LinkTask, M!Linked
  <2>3. QED
    BY <2>1, <2>2, Unshared DEF HandInv, ReadyInv
<1>4. CASE Finish
  <2>1. /\ pc = "execute" /\ pc' \in {"abort", "cleanup"} /\ stage' = stage
        /\ UNCHANGED <<ntasks, active, fd, open, description>>
        /\ ntasks = 0 \/ stage \in {"ready", "failed"}
    BY <1>4 DEF Finish, Table!Execute, Table!table, layout
  <2>2. stage # "size"
    BY <2>1 DEF HandInv, ReadyInv
  <2>3. QED
    BY <2>1, <2>2, Unshared DEF HandInv, ReadyInv
<1>5. CASE Cleanup
  <2>1. pc = "cleanup" /\ pc' = "exit" /\ stage' = stage /\ description' = description
    BY <1>5 DEF Cleanup, Table!Cleanup, layout
  <2>2. QED
    BY <2>1 DEF HandInv, SharedInv, ReadyInv
<1>6. CASE Terminated \/ UNCHANGED vars
  <2>1. UNCHANGED <<pc, stage, ntasks, active, fd, open, description>>
    BY <1>6 DEF Terminated, vars, table, layout
  <2>2. QED
    BY <2>1, Unshared DEF HandInv, ReadyInv
<1>7. QED
  BY <1>1, <1>2, <1>3, <1>4, <1>5, <1>6 DEF Next

\* Unless a product of gpu_replicate wraps, the table of every command line is
\* one that Layout relies on, whatever x replicated, in whatever order: only
\* counted tasks have slots, all have instructions, sizes are those of the
\* files, and a file position is shared only within a kind and a file.
THEOREM Legal == ASSUME P!NoWrap PROVE Spec => []HandsOverLegal
<1>1. Init => HandInv
  BY SameSlots DEF Init, Table!Init, Table!FileSlot, HandInv, SharedInv, ReadyInv,
                   FileSlot, Slot, FileKind, Kind
<1>2. ASSUME P!IInv, HandInv, stage = "size"
      PROVE  Memory!LegalTable
  <2> USE SameSlots
  <2>1. /\ pc = "execute" /\ ntasks \in 1 .. MaxTasks
        /\ \A s \in Slot : s[1] >= ntasks => ~active[s]
        /\ M!TableInv
    BY <1>2, HandedOver, MaxTasksAssumption DEF HandInv, ReadyInv, P!IInv, P!TypeOK
  <2>2. \A s \in Slot : active[s] => s[1] < ntasks
    <3>1. \A s \in Slot : s[1] \in Int
      BY DEF Slot, Owner, Glob, Task
    <3>2. QED
      BY <2>1, <3>1
  <2>3. \A i \in Memory!Tasks : active[<<i, "inst">>]
    BY <2>1 DEF M!TableInv, M!Tasks, Memory!Tasks
  <2>4. ASSUME NEW s \in FileSlot, active[s]
        PROVE  /\ Memory!Loads(FileOf[s], s)
               /\ size[s] = FileSize[FileOf[s]] /\ FileOf[s] = open[fd[s]]
    <3>1. s \in P!ActiveFiles /\ s \in Table!ActiveFiles
      BY <2>4 DEF P!ActiveFiles, Table!ActiveFiles
    <3>2. size[s] > 0 /\ FileOf[s] = open[fd[s]]
      BY <1>2, <3>1 DEF P!IInv, P!TableInv, P!SizeAgrees, FileOf
    <3>3. s[2] \in FileKind
      BY DEF FileSlot
    <3>4. QED
      BY <2>1, <2>4, <3>2, <3>3 DEF M!TableInv, Memory!Loads
  <2>5. \A s \in BufSlot : active[s] => size[s] \in Word
    BY <2>1 DEF M!TableInv, BufSlot, Slot, Kind
  <2>6. ASSUME NEW s \in FileSlot, NEW t \in FileSlot, active[s], active[t],
               description[s] = description[t]
        PROVE  s[2] = t[2] /\ FileOf[s] = FileOf[t]
    BY <1>2, <2>1, <2>4, <2>6 DEF HandInv, SharedInv
  <2>7. QED
    BY <2>1, <2>2, <2>3, <2>4, <2>5, <2>6 DEF Memory!LegalTable
<1>3. P!IInv /\ HandInv => HandsOverLegal
  BY <1>2 DEF HandsOverLegal
<1>4. QED
  BY <1>1, <1>3, TableInvInit, TableInvStep, ExactInit, ExactStep, MemoryInvInit,
     MemoryInvStep, HandStep, PTL DEF Spec

-----------------------------------------------------------------------------
\* Steps of gpu_exec_via_mbox leave the table alone, so ListRefinement carries
\* over: what is laid out, loaded and linked is the list of tasks that the
\* arguments spell.
THEOREM ListExecuted == ASSUME P!NoWrap PROVE Spec => P!ListSpec
<1>1. Init => P!Init
  BY DEF Init, Table!Init, P!Init, Table!Idle, P!Idle, Table!Slot, P!Slot, Table!FileSlot,
         P!FileSlot, Table!Owner, P!Owner, Table!Kind, P!Kind, Table!FileKind, P!FileKind,
         Table!Glob, P!Glob, Table!Task, P!Task
<1>2. [Next]_vars => [P!Next]_(P!vars)
  BY TableStep
<1>3. P!Spec => P!ListSpec
  BY TableConstants, P!ListRefinement
<1>4. QED
  BY <1>1, <1>2, <1>3, PTL DEF Spec, P!Spec
=============================================================================
