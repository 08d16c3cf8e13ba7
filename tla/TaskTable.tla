------------------------------ MODULE TaskTable ------------------------------
(***************************************************************************)
(* How `qpu execute` builds its table of GPU tasks from the command line,  *)
(* uses it and tears it down: command_execute and the handlers of main.c,  *)
(* the builders, gpu_replicate and gpu_cleanup of gpu.c.                   *)
(*                                                                         *)
(* An argument pair of the command line is one action.  A handler that     *)
(* returns FAILURE before it changed anything is RejectArgument, whatever  *)
(* the reason: which pairs are accepted is the guard of the handler's own  *)
(* action.  gpu_replicate duplicates descriptors one at a time and stops   *)
(* at the first one that cannot be duplicated, so its loop is a state      *)
(* machine of its own.  A path name stands for the file it resolves to;    *)
(* open and fstat may fail at any time.  What gpu_exec_via_mbox does with  *)
(* the table is the subject of Layout and Session; here it succeeds or     *)
(* fails.  The counters are bounded by the code itself.                    *)
(*                                                                         *)
(* A definition named Def_Suffix is a mutant: Def as a plausible mistake   *)
(* in the code would change it.  Only the mutation runs use them.          *)
(***************************************************************************)
EXTENDS Slots, FiniteSets

CONSTANTS
  Files,      \* files that the arguments may name
  FileSize,   \* st_size of each file
  Regular,    \* the files for which S_ISREG holds
  Numbers,    \* what parse_num may return for the arguments of w and x (i64)
  Fds,        \* the descriptor numbers the process may use for its table
  Closed,     \* marks a descriptor that is not open
  Debug       \* TRUE in the builds that compile the assertions in

\* Without large file support (Makefile:6) off_t has 32 bits: open refuses a
\* file whose length does not fit.
ASSUME FilesAssumption ==
  FileSize \in [Files -> Word] /\ Regular \subseteq Files /\ Closed \notin Files
ASSUME NumbersAssumption == Numbers \subseteq Int
ASSUME FdsAssumption == Fds \subseteq Nat
ASSUME DebugAssumption == Debug \in BOOLEAN

VARIABLES
  pc,       \* where the command is
  error,    \* main's error flag
  ntasks,   \* G.ntasks
  active,   \* the active flag of each slot
  size,     \* the size field of each slot
  fd,       \* the fd field of each file slot
  open,     \* the file each descriptor of the process refers to
  rep       \* gpu_replicate's argument, dst and position in the loop body

table == <<active, size, fd, open>>
vars  == <<pc, error, ntasks, table, rep>>

Idle == [mult |-> 0, dst |-> 0, kind |-> "inst"]

Init ==
  /\ pc = "args"
  /\ error = FALSE
  /\ ntasks = 0
  /\ active = [s \in Slot |-> FALSE]
  /\ size = [s \in Slot |-> 0]
  /\ fd = [s \in FileSlot |-> 0]
  /\ open = [d \in Fds |-> Closed]
  /\ rep = Idle

-----------------------------------------------------------------------------
(* System calls and helpers                                                *)

\* open and dup return the lowest descriptor number that is free.
IsNewFd(d) ==
  /\ open[d] = Closed
  /\ \A e \in Fds : open[e] = Closed => d <= e

Loadable_AnyFactor(f, kind) == f \in Regular /\ FileSize[f] > 0

\* The checks of open_file on a file it managed to open.
Loadable(f, kind) ==
  /\ f \in Regular
  /\ FileSize[f] > 0
  /\ FileSize[f] % Factor[kind] = 0

\* gpu_task_inst, gpu_task_unif, ... once every check has passed.
SetFile(s, f) ==
  /\ ~active[s]
  /\ Loadable(f, s[2])
  /\ \E d \in Fds :
       /\ IsNewFd(d)
       /\ open' = [open EXCEPT ![d] = f]
       /\ fd' = [fd EXCEPT ![s] = d]
  /\ size' = [size EXCEPT ![s] = FileSize[f]]
  /\ active' = [active EXCEPT ![s] = TRUE]

Current_Global == Glob

\* The owner that u, r and w extend: the last task, or the global entry
\* while gpu_has_task is false.
Current == IF ntasks > 0 THEN ntasks - 1 ELSE Glob

\* An i64 argument passed as a u32 parameter.
Narrow(n) == n % U32

Stop == pc' = "cleanup" /\ error' = TRUE

-----------------------------------------------------------------------------
(* The handlers of command_execute                                         *)

HandleI(f) ==
  /\ pc = "args"
  /\ ntasks < MaxTasks
  /\ ntasks' = ntasks + 1
  /\ SetFile(<<ntasks, "inst">>, f)
  /\ UNCHANGED <<pc, error, rep>>

HandleIFails_Ignored ==
  /\ pc = "args"
  /\ ntasks < MaxTasks
  /\ ntasks' = ntasks + 1
  /\ UNCHANGED <<pc, error, table, rep>>

\* gpu_next_task has counted the task before gpu_task_inst fails.
HandleIFails ==
  /\ pc = "args"
  /\ ntasks < MaxTasks
  /\ ntasks' = ntasks + 1
  /\ Stop
  /\ UNCHANGED <<table, rep>>

HandleU(f) ==
  /\ pc = "args"
  /\ SetFile(<<Current, "unif">>, f)
  /\ UNCHANGED <<pc, error, ntasks, rep>>

HandleR(f) ==
  /\ pc = "args"
  /\ SetFile(<<Current, "rbuf">>, f)
  /\ UNCHANGED <<pc, error, ntasks, rep>>

\* The i64 argument is checked before the call narrows it to a u32.
HandleW(n) ==
  /\ pc = "args"
  /\ n > 0
  /\ ~active[<<Current, "wbuf">>]
  /\ size' = [size EXCEPT ![<<Current, "wbuf">>] = Narrow(n)]
  /\ active' = [active EXCEPT ![<<Current, "wbuf">>] = TRUE]
  /\ UNCHANGED <<pc, error, ntasks, fd, open, rep>>

\* mult * G.ntasks as the u32 product that gpu_replicate computes.
Product(mult) == (Narrow(mult) * ntasks) % U32

HandleX(mult) ==
  /\ pc = "args"
  /\ ntasks > 0
  /\ mult > 1
  /\ Narrow(mult) > 1
  /\ Product(mult) <= MaxTasks
  /\ pc' = "replicate"
  /\ rep' = [mult |-> mult, dst |-> ntasks, kind |-> "inst"]
  /\ UNCHANGED <<error, ntasks, table>>

\* Every other outcome of an argument pair: no value, a number that does not
\* parse, an unknown word, a file that does not open or load, a second file
\* for the same slot, too many tasks.
RejectArgument ==
  /\ pc = "args"
  /\ Stop
  /\ UNCHANGED <<ntasks, table, rep>>

EndOfArguments ==
  /\ pc = "args"
  /\ pc' = "execute"
  /\ UNCHANGED <<error, ntasks, table, rep>>

-----------------------------------------------------------------------------
(* The loop of gpu_replicate                                               *)

Copying == pc = "replicate" /\ rep.dst < Product(rep.mult)
Src == <<rep.dst % ntasks, rep.kind>>
Dst_OffByOne == <<rep.dst - 1, rep.kind>>
Dst == <<rep.dst, rep.kind>>

NextKind_NoRbuf ==
  [inst |-> "unif", unif |-> "wbuf", rbuf |-> "wbuf", wbuf |-> "inst"]
\* The order in which the loop's body copies the slots of a task.
NextKind == [inst |-> "unif", unif |-> "rbuf", rbuf |-> "wbuf", wbuf |-> "inst"]

Advance ==
  rep' = [rep EXCEPT !.kind = NextKind[@],
                     !.dst = IF rep.kind = "wbuf" THEN @ + 1 ELSE @]

SkipInactive_NoAdvance == Copying /\ ~active[Src] /\ UNCHANGED vars
SkipInactive ==
  /\ Copying
  /\ ~active[Src]
  /\ Advance
  /\ UNCHANGED <<pc, error, ntasks, table>>

\* The assertion of dup_file and dup_buf: it stops a debug build only.
DupAssert ==
  /\ Copying
  /\ active[Src] /\ active[Dst]
  /\ Debug
  /\ pc' = "abort"
  /\ UNCHANGED <<error, ntasks, table, rep>>

MayDup_Unasserted == Copying /\ active[Src]
MayDup == Copying /\ active[Src] /\ ~(Debug /\ active[Dst])

DupFile ==
  /\ MayDup
  /\ rep.kind \in FileKind
  /\ \E d \in Fds :
       /\ IsNewFd(d)
       /\ open' = [open EXCEPT ![d] = open[fd[Src]]]
       /\ fd' = [fd EXCEPT ![Dst] = d]
  /\ size' = [size EXCEPT ![Dst] = size[Src]]
  /\ active' = [active EXCEPT ![Dst] = TRUE]
  /\ Advance
  /\ UNCHANGED <<pc, error, ntasks>>

DupFileFails ==
  /\ MayDup
  /\ rep.kind \in FileKind
  /\ Stop
  /\ UNCHANGED <<ntasks, table, rep>>

DupBuf ==
  /\ MayDup
  /\ rep.kind = "wbuf"
  /\ size' = [size EXCEPT ![Dst] = size[Src]]
  /\ active' = [active EXCEPT ![Dst] = TRUE]
  /\ Advance
  /\ UNCHANGED <<pc, error, ntasks, fd, open>>

Replicated ==
  /\ pc = "replicate"
  /\ ~Copying
  /\ ntasks' = Product(rep.mult)
  /\ pc' = "args"
  /\ rep' = Idle
  /\ UNCHANGED <<error, table>>

-----------------------------------------------------------------------------
(* gpu_exec_via_mbox and gpu_cleanup                                       *)

\* The assertion of link_mem on each task that is going to run.
AllHaveInst == \A i \in 0 .. ntasks - 1 : active[<<i, "inst">>]

Execute ==
  /\ pc = "execute"
  /\ pc' = IF Debug /\ ~AllHaveInst THEN "abort" ELSE "cleanup"
  /\ \E failed \in BOOLEAN : error' = (failed /\ ntasks > 0)
  /\ UNCHANGED <<ntasks, table, rep>>

ActiveFiles_Counted == {s \in FileSlot : active[s] /\ s[1] < ntasks}
ActiveFiles == {s \in FileSlot : active[s]}

\* A close that fails still releases the descriptor, but main exits with
\* EXIT_FAILURE.
Cleanup ==
  /\ pc = "cleanup"
  /\ pc' = "exit"
  /\ active' = [s \in Slot |-> s \in BufSlot /\ active[s]]
  /\ open' = [d \in Fds |-> IF \E s \in ActiveFiles : fd[s] = d
                              THEN Closed ELSE open[d]]
  /\ \E failed \in BOOLEAN : error' = (error \/ (failed /\ ActiveFiles # {}))
  /\ UNCHANGED <<ntasks, size, fd, rep>>

Handler ==
  \/ \E f \in Files : HandleI(f) \/ HandleU(f) \/ HandleR(f)
  \/ \E n \in Numbers : HandleW(n) \/ HandleX(n)
  \/ HandleIFails
  \/ RejectArgument
  \/ EndOfArguments

Replicate ==
  SkipInactive \/ DupAssert \/ DupFile \/ DupFileFails \/ DupBuf \/ Replicated

Terminated == pc \in {"exit", "abort"} /\ UNCHANGED vars

Next == Handler \/ Replicate \/ Execute \/ Cleanup \/ Terminated

Spec == Init /\ [][Next]_vars

\* The process is one thread that is never blocked for ever by open, dup or
\* close on regular files, and its command line is finite.
FairSpec == Spec /\ WF_vars(Next)

-----------------------------------------------------------------------------
(* Properties                                                              *)

PC == {"args", "replicate", "execute", "cleanup", "exit", "abort"}

\* Type invariant of the task table.
TypeOK ==
  /\ pc \in PC
  /\ error \in BOOLEAN
  /\ ntasks \in 0 .. MaxTasks
  /\ active \in [Slot -> BOOLEAN]
  /\ size \in [Slot -> Word]
  /\ fd \in [FileSlot -> Fds \union {0}]
  /\ open \in [Fds -> Files \union {Closed}]
  /\ rep \in [mult : Numbers \union {0}, dst : 0 .. MaxTasks, kind : Kind]

\* What link_mem asserts (gpu.c:507): every task that is going to run has
\* instructions, even though handle_i counts a task before it knows whether
\* its file loads and gpu_replicate copies whatever the source slots hold.
TasksHaveInst == pc \in {"args", "execute"} => AllHaveInst

\* The active file slots own the open descriptors one to one: no descriptor
\* is lost when a slot is overwritten and none is in two slots, so that
\* gpu_cleanup closes each exactly once.
DescriptorsOwned ==
  /\ \A s \in ActiveFiles : fd[s] \in Fds /\ open[fd[s]] # Closed
  /\ \A s, t \in ActiveFiles : fd[s] = fd[t] => s = t
  /\ \A d \in Fds : open[d] # Closed => \E s \in ActiveFiles : fd[s] = d

\* The size that a file slot records, which lays out the GPU memory, is the
\* length of the file its descriptor refers to, and it is a legal length for
\* the slot's kind: also for slots filled by dup from another task.
SizeAgrees ==
  \A s \in ActiveFiles :
    /\ size[s] = FileSize[open[fd[s]]]
    /\ size[s] > 0 /\ size[s] % Factor[s[2]] = 0

\* Between arguments no slot beyond the counted tasks is in use: the next
\* handle_i or gpu_replicate finds its destination empty, as dup_file's and
\* dup_buf's assertion says (gpu.c:304, gpu.c:320).
FreshBeyond ==
  pc = "args" => \A s \in Slot : s[1] >= ntasks => ~active[s]

\* The assertions of gpu.c:304, gpu.c:320 and gpu.c:507 never fail.
NoAbort == pc # "abort"

\* The content of slot <<d, k>> after the step is that of <<e, k>> before.
CopyOf(d, e, k) ==
  /\ active'[<<d, k>>] = active[<<e, k>>]
  /\ active[<<e, k>>] =>
       /\ size'[<<d, k>>] = size[<<e, k>>]
       /\ k \in FileKind => open'[fd'[<<d, k>>]] = open[fd[<<e, k>>]]

\* "x <mult> Replicate Preceeding Tasks" (main.c:108): when gpu_replicate
\* returns SUCCESS there are mult times as many tasks, and task d is a copy of
\* task d modulo the old count.
ReplicationExact ==
  [][Replicated =>
       /\ ntasks' = rep.mult * ntasks
       /\ \A d \in 0 .. ntasks' - 1 : \A k \in Kind :
            CopyOf(d, d % ntasks, k)]_vars

\* After gpu_cleanup no descriptor is left open, whichever handler failed:
\* also those that a partly failed gpu_replicate left beyond ntasks.
CleanExit == pc = "exit" => \A d \in Fds : open[d] = Closed

\* How far the command has come, as TaskList counts.
Status ==
  IF error /\ pc \in {"cleanup", "exit"} THEN "failed"
  ELSE [args |-> "building", replicate |-> "building", execute |-> "accepted",
        cleanup |-> "executed", exit |-> "succeeded", abort |-> "aborted"][pc]

\* What an argument gave the slots of an owner: files, and sizes of buffers.
Entry(o) ==
  [k \in Kind |->
    IF <<o, k>> \notin Slot \/ ~active[<<o, k>>] THEN Closed
    ELSE IF k \in FileKind THEN open[fd[<<o, k>>]] ELSE size[<<o, k>>]]

Over == Status \in {"succeeded", "failed"}

List   == IF Over THEN <<>> ELSE [i \in 1 .. ntasks |-> Entry(i - 1)]
Common == IF Over THEN [k \in Kind |-> Closed] ELSE Entry(Glob)

\* What the command line can offer a task: the files that load as a kind, and
\* sizes.
Offers == [k \in Kind |-> IF k \in FileKind THEN {f \in Files : Loadable(f, k)}
                                           ELSE {n \in Numbers : n > 0}]

Lists == INSTANCE TaskList WITH
  Offered <- Offers, Empty <- Closed,
  status <- Status, tasks <- List, global <- Common

\* The table, its descriptors and gpu_replicate's loop implement the list of
\* tasks that the usage text describes: whatever the order of the arguments,
\* what is executed is the list they spell, and a partly made copy or a task
\* whose file failed never is.
ListSpec == Lists!Spec

\* The command always ends, and so does the loop of gpu_replicate, whose
\* bound is a product of u32s.
Terminates == <>(pc \in {"exit", "abort"})
=============================================================================
