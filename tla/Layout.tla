------------------------------- MODULE Layout -------------------------------
(***************************************************************************)
(* How gpu_exec_via_mbox lays a finished task table out in GPU memory:     *)
(* mem_size, the sizes mem_alloc computes, init_mem and link_mem of gpu.c. *)
(*                                                                         *)
(* The memory holds the control block (two addresses per task), then the   *)
(* regions of the slots in the order of PlacedBefore.  An address is its   *)
(* offset from G.mem.bus, which is page aligned; Null is the zero that the *)
(* control block starts with.  The text of a task is what its instruction  *)
(* region holds: for each 64-bit instruction the placeholder that link_mem *)
(* finds in it and the address it writes there.  Descriptors duplicated by *)
(* gpu_replicate share one file position.  Another process may shorten a   *)
(* file between open_file's fstat and the read; what a short read leaves   *)
(* in the memory is whatever it held before.                               *)
(*                                                                         *)
(* The allocation itself, its lock and its mapping are the subject of      *)
(* Session: here they succeed or fail.  Definitions named Def_Suffix are   *)
(* mutants of Def, as in TaskTable.                                        *)
(***************************************************************************)
EXTENDS Slots, Sequences, FiniteSets, Functions

CONSTANTS
  Files,       \* the files in use
  Named,       \* for each kind, the files that the command line names for it
  Code,        \* the placeholders in each file's instructions, a sequence
  FileSize,    \* st_size of each file when open_file looked at it
  BufSizes,    \* sizes of write buffers, a subset of Word
  PageSize,    \* G.page_sz
  Stale,       \* what memory that was never written may hold, a subset of Op
  Null,        \* the address 0
  MaxTruncations,  \* bound: how many files get shorter during the run
  Debug        \* TRUE in the builds that compile the assertions in

ASSUME FilesAssumption == 
  FileSize \in [Files -> Word] /\ Named \in [FileKind -> SUBSET Files]
ASSUME BufSizesAssumption == BufSizes \subseteq Word
ASSUME PageSizeAssumption == PageSize \in Nat \ {0}
ASSUME U32LayoutAssumption == U32 % 8 = 0 /\ 8 * MaxTasks < U32
ASSUME NullAssumption == Null \notin Int
ASSUME TruncationsAssumption == MaxTruncations \in Nat
ASSUME DebugAssumption == Debug \in BOOLEAN

\* What link_mem tells apart in an instruction: the placeholders of an ldi
\* that is_link_inst knows, or anything else.
Placeholder == {"glob_rbuf", "glob_wbuf", "task_rbuf", "task_wbuf"}
Op == Placeholder \union {"other"}

ASSUME CodeAssumption ==
  /\ Code \in [Files -> Seq(Op)]
  /\ \A f \in Named["inst"] : FileSize[f] % 8 = 0 => Len(Code[f]) = FileSize[f] \div 8
  /\ Stale \subseteq Op

\* The slot whose address a task's placeholder stands for.
Target(i, op) ==
  CASE op = "glob_rbuf" -> <<Glob, "rbuf">>
    [] op = "glob_wbuf" -> <<Glob, "wbuf">>
    [] op = "task_rbuf" -> <<i, "rbuf">>
    [] op = "task_wbuf" -> <<i, "wbuf">>

CtlSize == 8 * MaxTasks

VARIABLES
  pc,         \* where gpu_exec_via_mbox is
  ntasks,     \* G.ntasks
  active,     \* the active flag of each slot
  file,       \* the file that each active file slot refers to
  size,       \* the size field of each slot
  description,  \* the slot whose open_file or dup created the open file
                \* description (and so its position) that a file slot uses
  length,     \* the current length of each file
  pos,        \* the position of each open file description
  data,       \* G.mem.data_sz
  alloc,      \* G.mem.alloc_sz
  used,       \* G.mem.used_sz
  placed,     \* the slots that init_mem has placed
  offset,     \* the offset field of each slot
  count,      \* how many bytes each placed file slot has read
  text,       \* the instructions of each task in GPU memory
  control,    \* the control block in GPU memory
  linked,     \* the number of tasks that link_mem has linked
  linkError   \* link_mem's error flag

table == <<ntasks, active, file, size, description>>
mem   == <<data, alloc, used, placed, offset, count>>
link  == <<linked, linkError>>
vars  == <<pc, table, length, pos, mem, text, control, link>>

Tasks == 0 .. ntasks - 1

\* The slots that take part: those of the global entry and the counted tasks.
InUse == {s \in Slot : active[s] /\ s[1] < ntasks}

-----------------------------------------------------------------------------
(* The tables that the handlers of TaskTable may leave.                    *)

Loads(f, s) ==
  f \in Named[s[2]] /\ FileSize[f] > 0 /\ FileSize[f] % Factor[s[2]] = 0

\* gpu_replicate has copied slot s from origin.  The last task may have got
\* more slots since.
CopyOf(s, origin) ==
  active[origin] =>
    /\ active[s] /\ size[s] = size[origin]
    /\ s \in FileSlot => file[s] = file[origin]

Init ==
  /\ pc = "size"
  /\ ntasks \in 1 .. MaxTasks
  /\ \E others \in SUBSET {s \in Slot : s[1] < ntasks /\ s[2] # "inst"} :
       active = [s \in Slot |-> s \in others \/ (s[2] = "inst" /\ s[1] < ntasks)]
  /\ file \in {g \in [{s \in FileSlot : active[s]} -> Files] :
                 \A s \in DOMAIN g : Loads(g[s], s)}
  /\ \E n \in [{s \in BufSlot : active[s]} -> BufSizes] :
       size = [s \in Slot |-> IF ~active[s] THEN 0
                              ELSE IF s \in BufSlot THEN n[s]
                              ELSE FileSize[file[s]]]
  /\ \E base \in 1 .. ntasks : \E copied \in {n \in base .. ntasks : n % base = 0} :
       LET Copy == (base .. copied - 1) \X Kind
           Origin(s) == <<s[1] % base, s[2]>>
       IN  /\ \A s \in Copy : CopyOf(s, Origin(s))
           /\ description = [s \in FileSlot |->
                                IF s \in Copy /\ active[Origin(s)] THEN Origin(s) ELSE s]
  /\ length = FileSize
  /\ pos = [s \in FileSlot |-> 0]
  /\ data = 0 /\ alloc = 0 /\ used = 0
  /\ placed = {}
  /\ offset = [s \in Slot |-> 0]
  /\ count = [s \in FileSlot |-> 0]
  /\ text = [i \in Task |-> <<>>]
  /\ control = [i \in Task |-> [unif |-> Null, inst |-> Null]]
  /\ linked = 0
  /\ linkError = FALSE

\* What the layout relies on, of any table it is given: only counted tasks have
\* slots, all of them have instructions, the sizes are those of the files, and
\* slots share a file position only with slots of their kind and file.
LegalTable ==
  /\ ntasks \in 1 .. MaxTasks
  /\ \A s \in Slot : active[s] => s[1] < ntasks
  /\ \A i \in Tasks : active[<<i, "inst">>]
  /\ \A s \in FileSlot : active[s] => Loads(file[s], s) /\ size[s] = FileSize[file[s]]
  /\ \A s \in BufSlot : active[s] => size[s] \in BufSizes
  /\ \A s, t \in FileSlot :
       active[s] /\ active[t] /\ description[s] = description[t] =>
         s[2] = t[2] /\ file[s] = file[t]

-----------------------------------------------------------------------------
(* mem_size and mem_alloc                                                  *)

\* The slots whose sizes mem_size adds up.
Counted == InUse

MemSize_ControlTwice == (2 * CtlSize + SumFunctionOnSet(size, Counted)) % U32
MemSize == (CtlSize + SumFunctionOnSet(size, Counted)) % U32

\* ROUNDUP(from, to), computed in u32s.
RoundUp(from, to) == ((((to + from) - 1) % U32) \div to) * to

\* init_mem skips the control block before it places the first slot.
Alloc ==
  /\ pc = "size"
  /\ pc' = "place"
  /\ data' = MemSize
  /\ alloc' = RoundUp(MemSize, PageSize)
  /\ used' = CtlSize
  /\ UNCHANGED <<table, length, pos, placed, offset, count, text, control, link>>

\* mbox_alloc, mbox_lock or mem_map fails.
AllocFails ==
  /\ pc = "size"
  /\ pc' = "failed"
  /\ UNCHANGED <<table, length, pos, mem, text, control, link>>

-----------------------------------------------------------------------------
(* init_mem                                                                *)

Phase_BufsFirst == [inst |-> 1, unif |-> 2, rbuf |-> 3, wbuf |-> 0]
\* init_mem's order: kind by kind, in each the global slot, then the tasks.
Phase == [inst |-> 0, unif |-> 1, rbuf |-> 2, wbuf |-> 3]

PlacedBefore(s, t) ==
  \/ Phase[s[2]] < Phase[t[2]]
  \/ Phase[s[2]] = Phase[t[2]] /\ s[1] < t[1]

Unplaced == InUse \ placed
IsNext(s) ==
  /\ pc = "place"
  /\ s \in Unplaced
  /\ \A t \in Unplaced \ {s} : PlacedBefore(s, t)

HasRoom_NoBytesLeft(s) == data # used
\* The assertion at the head of init_file and init_buf, on u32s.
HasRoom(s) == (data - used) % U32 >= size[s]

Reserve(s) ==
  /\ placed' = placed \union {s}
  /\ offset' = [offset EXCEPT ![s] = used]
  /\ used' = (used + size[s]) % U32
  /\ UNCHANGED <<data, alloc>>

NoRoom(s) ==
  /\ IsNext(s)
  /\ Debug /\ ~HasRoom(s)
  /\ pc' = "abort"
  /\ UNCHANGED <<table, length, pos, mem, text, control, link>>

Start_NoLseek(s) == pos[description[s]]
\* Where the read starts: lseek has rewound the description.
Start(s) == 0

\* The bytes that read finds from there on.
Available(s) ==
  IF Start(s) >= length[file[s]] THEN 0
  ELSE IF length[file[s]] - Start(s) < size[s]
       THEN length[file[s]] - Start(s) ELSE size[s]

PlaceFile(s) ==
  /\ IsNext(s)
  /\ s \in FileSlot
  /\ Debug => HasRoom(s)
  /\ Reserve(s)
  /\ count' = [count EXCEPT ![s] = Available(s)]
  /\ pos' = [pos EXCEPT ![description[s]] = Start(s) + Available(s)]
  /\ IF s[2] = "inst"
     THEN \E stale \in Stale :
            text' = [text EXCEPT ![s[1]] =
                       [j \in 1 .. size[s] \div 8 |->
                          [op |-> IF 8 * j <= Available(s)
                                  THEN Code[file[s]][j] ELSE stale,
                           addr |-> Null]]]
     ELSE text' = text
  /\ UNCHANGED <<pc, table, length, control, link>>

\* lseek or read fails.
ReadFails(s) ==
  /\ IsNext(s)
  /\ s \in FileSlot
  /\ Debug => HasRoom(s)
  /\ pc' = "failed"
  /\ UNCHANGED <<table, length, pos, mem, text, control, link>>

PlaceBuf(s) ==
  /\ IsNext(s)
  /\ s \in BufSlot
  /\ Debug => HasRoom(s)
  /\ Reserve(s)
  /\ UNCHANGED <<pc, table, length, pos, count, text, control, link>>

UnifOf_TaskOnly(i) ==
  IF active[<<i, "unif">>] THEN offset[<<i, "unif">>] ELSE Null
\* A task without uniforms of its own gets the global ones.
UnifOf(i) ==
  IF active[<<i, "unif">>] THEN offset[<<i, "unif">>]
  ELSE IF active[<<Glob, "unif">>] THEN offset[<<Glob, "unif">>]
  ELSE Null

\* The control block is written last; the sizes must then agree.
WriteControl ==
  /\ pc = "place"
  /\ Unplaced = {}
  /\ control' = [i \in Task |->
                   IF i \in Tasks
                   THEN [unif |-> UnifOf(i), inst |-> offset[<<i, "inst">>]]
                   ELSE [unif |-> Null, inst |-> Null]]
  /\ pc' = IF used = data THEN "link" ELSE "failed"
  /\ UNCHANGED <<table, length, pos, mem, text, link>>

-----------------------------------------------------------------------------
(* link_mem                                                                *)

Found(i, op) == \E j \in DOMAIN text[i] : text[i][j].op = op

Mismatch_GlobalIgnored(i) ==
  \E k \in {"rbuf", "wbuf"} :
    active[<<i, k>>] # Found(i, IF k = "rbuf" THEN "task_rbuf" ELSE "task_wbuf")
\* The errors of the checks that follow a task's instructions.
Mismatch(i) ==
  \/ Found(i, "glob_rbuf") /\ ~active[<<Glob, "rbuf">>]
  \/ Found(i, "glob_wbuf") /\ ~active[<<Glob, "wbuf">>]
  \/ Found(i, "task_rbuf") # active[<<i, "rbuf">>]
  \/ Found(i, "task_wbuf") # active[<<i, "wbuf">>]

\* An inactive slot's offset is written as well; the checks then fail.
Link(i, inst) ==
  IF inst.op \in Placeholder
  THEN [inst EXCEPT !.addr = offset[Target(i, inst.op)]] ELSE inst

LinkTask ==
  /\ pc = "link"
  /\ linked < ntasks
  /\ text' = [text EXCEPT ![linked] =
                [j \in DOMAIN @ |-> Link(linked, @[j])]]
  /\ linkError' = (linkError \/ Mismatch(linked))
  /\ linked' = linked + 1
  /\ UNCHANGED <<pc, table, length, pos, mem, control>>

Linked ==
  /\ pc = "link"
  /\ linked = ntasks
  /\ pc' = IF linkError THEN "failed" ELSE "ready"
  /\ UNCHANGED <<table, length, pos, mem, text, control, link>>

-----------------------------------------------------------------------------

\* Another process shortens a file, in at most MaxTruncations of the files.
Truncate(f) ==
  /\ pc = "place"
  /\ Cardinality({g \in Files : length[g] # FileSize[g]}) < MaxTruncations
  /\ length[f] = FileSize[f]
  /\ length[f] > 0
  /\ length' = [length EXCEPT ![f] = FileSize[f] \div 2]
  /\ UNCHANGED <<pc, table, pos, mem, text, control, link>>

Terminated == pc \in {"ready", "failed", "abort"} /\ UNCHANGED vars

Program ==
  \/ Alloc \/ AllocFails
  \/ \E s \in Slot : PlaceFile(s) \/ ReadFails(s) \/ PlaceBuf(s) \/ NoRoom(s)
  \/ WriteControl
  \/ LinkTask \/ Linked

Next == Program \/ Terminated \/ \E f \in Files : Truncate(f)

Spec == Init /\ [][Next]_vars

-----------------------------------------------------------------------------
(* Properties                                                              *)

\* Type invariant of the memory layout.
TypeOK ==
  /\ pc \in {"size", "place", "link", "ready", "failed", "abort"}
  /\ data \in Word /\ alloc \in Word /\ used \in Word
  /\ placed \subseteq InUse
  /\ offset \in [Slot -> Word]
  /\ text \in [Task -> Seq([op : Op, addr : Word \union {Null}])]
  /\ linked \in 0 .. ntasks /\ linkError \in BOOLEAN

Region(s) == offset[s] .. offset[s] + size[s] - 1

RegionsDisjoint ==
  /\ \A s, t \in placed : s # t => Region(s) \intersect Region(t) = {}
  /\ \A s \in placed : Region(s) \subseteq CtlSize .. data - 1

\* The regions never overlap each other or the control block and never leave
\* what mem_size asked for, so a read into one region and the GPU's writes to
\* a write buffer change nothing else.  The assertion of init_file and init_buf
\* sees to it even when mem_size's sum has wrapped, as long as that leaves room
\* for the control block; below, the subtraction in the assertion wraps too.
AssertedDisjoint == Debug /\ data \in CtlSize .. U32 - 1 => RegionsDisjoint

\* Instructions stay 8-byte aligned, uniforms and read buffers 4-byte aligned,
\* although write buffers of any size share the memory with them.
RegionsAligned == \A s \in placed \ BufSlot : offset[s] % Factor[s[2]] = 0

\* A region holds the whole file from its first byte, also when the file's
\* descriptor shares its position with that of another task, unless the file
\* got shorter after open_file had looked at it.
LoadedWhole ==
  \A s \in placed \ BufSlot :
    count[s] = size[s] \/ length[file[s]] < FileSize[file[s]]

\* What the table asks for, as a number that does not wrap.
Total == CtlSize + SumFunctionOnSet(size, InUse)

\* init_mem places what mem_size counted, so that its last check never fails,
\* also when the sum has wrapped.  A table whose sizes fit a u32 after rounding
\* up to pages is laid out: no assertion fails, and the allocation covers it in
\* whole pages.
SizesAgree ==
  /\ pc = "place" /\ Unplaced = {} => used = data
  /\ Total + PageSize <= U32 =>
       /\ pc # "abort"
       /\ pc \notin {"size", "failed"} => /\ data = Total /\ data <= alloc
                                         /\ alloc % PageSize = 0

\* The assertions of init_file and init_buf (gpu.c:331, gpu.c:353) never fail.
NoAbort == pc # "abort"

\* When the program is ready to run, no placeholder is left, every address in
\* a task's instructions is the start of a region that was laid out, the
\* task's own or the global one, and no buffer of a task goes unreferenced.
LinkSound ==
  pc = "ready" =>
    /\ \A i \in Tasks : \A j \in DOMAIN text[i] :
         LET inst == text[i][j]
         IN  inst.op \in Placeholder =>
               /\ Target(i, inst.op) \in placed
               /\ inst.addr = offset[Target(i, inst.op)]
    /\ \A s \in placed :
         s[1] \in Tasks /\ s[2] \in {"rbuf", "wbuf"} =>
           \E j \in DOMAIN text[s[1]] : text[s[1]][j].addr = offset[s]

\* When the program is ready to run, the control block gives each task its
\* own instructions and its own uniforms, or the global ones if it has none,
\* and it holds no other address.
ControlSound ==
  pc = "ready" =>
    \A i \in Task :
      /\ IF i \in Tasks
         THEN <<i, "inst">> \in placed /\ control[i].inst = offset[<<i, "inst">>]
         ELSE control[i].inst = Null
      /\ \/ \E o \in {i, Glob} : /\ <<o, "unif">> \in placed
                                 /\ control[i].unif = offset[<<o, "unif">>]
                                 /\ o = Glob => <<i, "unif">> \notin placed
                                 /\ i \in Tasks
         \/ /\ control[i].unif = Null
            /\ i \in Tasks => {<<i, "unif">>, <<Glob, "unif">>} \intersect placed = {}
=============================================================================
