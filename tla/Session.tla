------------------------------- MODULE Session -------------------------------
(***************************************************************************)
(* The life of qpu processes: main, gpu_exec_via_mbox with mem_alloc and   *)
(* mem_free, the mailbox calls they make (mbox.c), /dev/mem (mem.c) and    *)
(* the register mapping (reg_init, reg_cleanup, reg_gpu_is_enabled).       *)
(*                                                                         *)
(* One action is one call whose outcome the others can see: a mailbox      *)
(* transaction, a mapping, a read of the registers.  Every call may fail;  *)
(* a call that fails has no effect, except where the code leaves one       *)
(* behind (mem_map).  The processes share the firmware: its memory         *)
(* outlives the process that allocated it, one switch turns the QPUs on    *)
(* and off for all, and a program that timed out goes on until it ends or  *)
(* the QPUs are turned off.  Mailbox transactions are atomic (the vcio     *)
(* driver serialises them).  A process may be killed at any time.          *)
(*                                                                         *)
(* What the arguments of `execute` do is the subject of TaskTable, what    *)
(* the GPU memory holds of Layout.  Definitions named Def_Suffix are       *)
(* mutants of Def, as in TaskTable.                                        *)
(***************************************************************************)
EXTENDS Integers

CONSTANTS
  Procs,       \* the processes
  None,        \* no descriptor, nobody
  MaxArgs,     \* bound: subcommands of `firmware` or `register` on one line
  Timeouts     \* what -g may say, in ms; 0 stands for its absence

ASSUME NoneAssumption == None \notin Procs /\ None \notin Int
ASSUME MaxArgsAssumption == MaxArgs \in Nat
ASSUME TimeoutsAssumption == Timeouts \subseteq Nat /\ 0 \in Timeouts

\* C.timeout_ms of gpu.c.
DefaultTimeout == 10000

VARIABLES
  pc,        \* per process: the next call
  opt,       \* per process: its options
  error,     \* per process: main's error flag, the exit status
  failed,    \* history: the calls of each process that failed to give back
  args,      \* per process: subcommands that may still follow
  vcio,      \* per process: G.vcio_fd of mbox.c while it is open, else None
  regs,      \* per process: the registers are mapped (G.map.addr)
  flags,     \* per process: G.mem.flags
  refct,     \* per process: G.mem.refct
  leaks,     \* per process: what failed calls of mem_map left behind
  sent,      \* per process: the timeout its exec message carried
  heap,      \* firmware: state of the memory each process allocated
  gpuOn,     \* firmware: the QPUs are enabled
  switched,  \* the process that last turned the QPUs on or off
  running    \* the processes whose program still runs after a timeout

firmware == <<heap, gpuOn, switched, running>>
memory   == <<flags, refct>>
devices  == <<vcio, regs, leaks>>
vars == <<pc, opt, error, failed, args, devices, memory, sent, firmware>>

Init ==
  /\ pc = [p \in Procs |-> "options"]
  /\ opt \in [Procs -> [dry : BOOLEAN, measure : BOOLEAN, timeout : Timeouts]]
  /\ error = [p \in Procs |-> FALSE]
  /\ failed = [p \in Procs |-> {}]
  /\ args = [p \in Procs |-> MaxArgs]
  /\ vcio = [p \in Procs |-> None]
  /\ regs = [p \in Procs |-> FALSE]
  /\ flags = [p \in Procs |-> {}]
  /\ refct = [p \in Procs |-> 0]
  /\ leaks = [p \in Procs |-> {}]
  /\ sent = [p \in Procs |-> None]
  /\ heap = [p \in Procs |-> {}]
  /\ gpuOn \in BOOLEAN
  /\ switched = None
  /\ running = {}

Succeed(p, label) ==
  /\ pc' = [pc EXCEPT ![p] = label]
  /\ UNCHANGED <<error, failed>>

\* The calls that give something back.
Returning == {"disable", "unmap", "unlock", "free"}

Fail(p, label) ==
  /\ pc' = [pc EXCEPT ![p] = label]
  /\ error' = [error EXCEPT ![p] = TRUE]
  /\ failed' = [failed EXCEPT ![p] = @ \union ({pc[p]} \intersect Returning)]

-----------------------------------------------------------------------------
(* main: options and the three init functions                              *)

\* parse_options: usable options, help only, or an error.  Nothing is open
\* yet, so main returns at once in the last two cases.
Options(p) ==
  /\ pc[p] = "options"
  /\ Succeed(p, "mbox_init") \/ Succeed(p, "exit") \/ Fail(p, "exit")
  /\ UNCHANGED <<opt, args, devices, memory, sent, firmware>>

\* open returns 0 if standard input is closed.
MboxInit_Continues(p) ==
  /\ pc[p] = "mbox_init"
  /\ \/ /\ \E fd \in {0, 3} : vcio' = [vcio EXCEPT ![p] = fd]
        /\ Succeed(p, "reg_init")
     \/ Fail(p, "reg_init") /\ UNCHANGED vcio
  /\ UNCHANGED <<opt, args, regs, leaks, memory, sent, firmware>>

MboxInit(p) ==
  /\ pc[p] = "mbox_init"
  /\ \/ /\ \E fd \in {0, 3} : vcio' = [vcio EXCEPT ![p] = fd]
        /\ Succeed(p, "reg_init")
     \/ Fail(p, "gpu_cleanup") /\ UNCHANGED vcio
  /\ UNCHANGED <<opt, args, regs, leaks, memory, sent, firmware>>

\* What a failing mem_map leaves behind: nothing if open failed, its
\* descriptor if mmap failed, a mapping nobody remembers if close failed.
Leak(p) == \E left \in {{}, {"descriptor"}, {"mapping"}} :
             leaks' = [leaks EXCEPT ![p] = @ \union left]

RegInit(p) ==
  /\ pc[p] = "reg_init"
  /\ \/ /\ regs' = [regs EXCEPT ![p] = TRUE]
        /\ Succeed(p, "gpu_init")
        /\ UNCHANGED leaks
     \/ Leak(p) /\ Fail(p, "gpu_cleanup") /\ UNCHANGED regs
  /\ UNCHANGED <<opt, args, vcio, memory, sent, firmware>>

GpuInit(p) ==
  /\ pc[p] = "gpu_init"
  /\ Succeed(p, "command") \/ Fail(p, "gpu_cleanup")
  /\ UNCHANGED <<opt, args, devices, memory, sent, firmware>>

-----------------------------------------------------------------------------
(* parse_command                                                           *)

\* command_execute built a task table, or one without tasks; command_register
\* and command_firmware start, or find the GPU disabled or no argument.
Command(p) ==
  /\ pc[p] = "command"
  /\ \/ Succeed(p, "mem_alloc")
     \/ Succeed(p, "gpu_cleanup")
     \/ Succeed(p, "firmware")
     \/ gpuOn /\ Succeed(p, "register")
     \/ Fail(p, "gpu_cleanup")
  /\ UNCHANGED <<opt, args, devices, memory, sent, firmware>>

\* The end of the arguments: there are no tasks, so gpu_exec_via_mbox does
\* nothing.  An argument that is refused ends the command with an error.
EndOfArguments(p) ==
  /\ pc[p] \in {"firmware", "register"}
  /\ Succeed(p, "gpu_cleanup") \/ Fail(p, "gpu_cleanup")
  /\ UNCHANGED <<opt, args, devices, memory, sent, firmware>>

NextArgument_Stuck(p) == args[p] > 0 /\ UNCHANGED args
NextArgument(p) == args[p] > 0 /\ args' = [args EXCEPT ![p] = @ - 1]

\* qpu_enable's message as the firmware carries it out: turning the QPUs off
\* stops what runs on them.
Switch(p, on) ==
  /\ gpuOn' = on
  /\ switched' = p
  /\ running' = IF on THEN running ELSE {}
  /\ UNCHANGED heap

\* `firmware enable` and `firmware disable`.
FirmwareSwitch(p) ==
  /\ pc[p] = "firmware"
  /\ NextArgument(p)
  /\ \/ \E on \in BOOLEAN : Switch(p, on) /\ Succeed(p, "firmware")
     \/ Fail(p, "gpu_cleanup") /\ UNCHANGED firmware
  /\ UNCHANGED <<opt, devices, memory, sent>>

\* A register argument: CHECK_ENABLED reads IDENT0 and returns if the GPU is
\* off; the access itself comes later.
RegisterCheck(p) ==
  /\ pc[p] = "register"
  /\ NextArgument(p)
  /\ Succeed(p, IF gpuOn THEN "access" ELSE "register")
  /\ UNCHANGED <<opt, devices, memory, sent, firmware>>

RegisterAccess(p) ==
  /\ pc[p] = "access"
  /\ Succeed(p, "register")
  /\ UNCHANGED <<opt, args, devices, memory, sent, firmware>>

-----------------------------------------------------------------------------
(* init_mem: mem_alloc                                                     *)

MboxAlloc(p) ==
  /\ pc[p] = "mem_alloc"
  /\ \/ /\ heap' = [heap EXCEPT ![p] = @ \union {"alloc"}]
        /\ flags' = [flags EXCEPT ![p] = @ \union {"alloc"}]
        /\ refct' = [refct EXCEPT ![p] = 1]
        /\ Succeed(p, "lock")
     \/ \* mem_free: it finds nothing to release.
        /\ Fail(p, "gpu_cleanup")
        /\ UNCHANGED <<heap, memory>>
  /\ UNCHANGED <<opt, args, devices, sent, gpuOn, switched, running>>

\* mem_alloc's own mem_free, after a failure.
Undo(p) == refct' = [refct EXCEPT ![p] = 0] /\ Fail(p, "unmap")

MboxLock(p) ==
  /\ pc[p] = "lock"
  /\ \/ /\ heap' = [heap EXCEPT ![p] = @ \union {"lock"}]
        /\ flags' = [flags EXCEPT ![p] = @ \union {"lock"}]
        /\ Succeed(p, "map")
        /\ UNCHANGED refct
     \/ Undo(p) /\ UNCHANGED <<heap, flags>>
  /\ UNCHANGED <<opt, args, devices, sent, gpuOn, switched, running>>

MemMap_KeepsMemory(p) ==
  /\ pc[p] = "map"
  /\ \/ /\ flags' = [flags EXCEPT ![p] = @ \union {"map"}]
        /\ Succeed(p, "layout")
        /\ UNCHANGED <<leaks, refct>>
     \/ /\ Leak(p)
        /\ refct' = [refct EXCEPT ![p] = 0]
        /\ Fail(p, "gpu_cleanup")
        /\ UNCHANGED flags
  /\ UNCHANGED <<opt, args, vcio, regs, sent, firmware>>

MemMap(p) ==
  /\ pc[p] = "map"
  /\ \/ /\ flags' = [flags EXCEPT ![p] = @ \union {"map"}]
        /\ Succeed(p, "layout")
        /\ UNCHANGED <<leaks, refct>>
     \/ Leak(p) /\ Undo(p) /\ UNCHANGED flags
  /\ UNCHANGED <<opt, args, vcio, regs, sent, firmware>>

-----------------------------------------------------------------------------
(* gpu_exec_via_mbox                                                       *)

\* The rest of init_mem, and link_mem: see Layout.  -n stops here.
Layout(p) ==
  /\ pc[p] = "layout"
  /\ \/ Succeed(p, IF opt[p].dry THEN "gpu_cleanup" ELSE "enable")
     \/ Fail(p, "gpu_cleanup")
  /\ UNCHANGED <<opt, args, devices, memory, sent, firmware>>

MboxEnable(p) ==
  /\ pc[p] = "enable"
  /\ \/ /\ Switch(p, TRUE)
        /\ Succeed(p, IF opt[p].measure THEN "before" ELSE "exec")
     \/ Fail(p, "gpu_cleanup") /\ UNCHANGED firmware
  /\ UNCHANGED <<opt, args, devices, memory, sent>>

\* reg_debug_before, reg_init_pctr and reg_perf_before read the registers.
MeasureBefore(p) ==
  /\ pc[p] = "before"
  /\ Succeed(p, "exec")
  /\ UNCHANGED <<opt, args, devices, memory, sent, firmware>>

\* gpu_set_timeout has no caller, so G.timeout_ms is 0 whatever -g says.
Timeout(p) == DefaultTimeout

\* A program that failed is measured and turned off like one that ended.
AfterExec(p) == IF opt[p].measure THEN "after" ELSE "disable"
AfterFailedExec_NoDisable(p) == "gpu_cleanup"
AfterFailedExec(p) == AfterExec(p)

\* mbox_exec_qpu: the program ends (it cannot while the QPUs are off), it
\* times out and goes on running, or it does not start.
MboxExec(p) ==
  /\ pc[p] = "exec"
  /\ sent' = [sent EXCEPT ![p] = Timeout(p)]
  /\ \/ gpuOn /\ Succeed(p, AfterExec(p)) /\ UNCHANGED running
     \/ /\ gpuOn /\ running' = running \union {p}
        /\ Fail(p, AfterFailedExec(p))
     \/ Fail(p, AfterFailedExec(p)) /\ UNCHANGED running
  /\ UNCHANGED <<opt, args, devices, memory, heap, gpuOn, switched>>

MeasureAfter(p) ==
  /\ pc[p] = "after"
  /\ Succeed(p, "disable")
  /\ UNCHANGED <<opt, args, devices, memory, sent, firmware>>

MboxDisable_BeforeMeasure(p) ==
  /\ pc[p] = "disable"
  /\ \/ /\ Switch(p, FALSE)
        /\ Succeed(p, IF opt[p].measure THEN "after" ELSE "gpu_cleanup")
     \/ Fail(p, "gpu_cleanup") /\ UNCHANGED firmware
  /\ UNCHANGED <<opt, args, devices, memory, sent>>

MboxDisable(p) ==
  /\ pc[p] = "disable"
  /\ \/ Switch(p, FALSE) /\ Succeed(p, "gpu_cleanup")
     \/ Fail(p, "gpu_cleanup") /\ UNCHANGED firmware
  /\ UNCHANGED <<opt, args, devices, memory, sent>>

-----------------------------------------------------------------------------
(* gpu_cleanup and mem_free                                                *)

\* The files are closed (see TaskTable), then mem_free is entered if the
\* memory is still referenced.
GpuCleanup(p) ==
  /\ pc[p] = "gpu_cleanup"
  /\ refct' = [refct EXCEPT ![p] = 0]
  /\ \/ Succeed(p, IF refct[p] > 0 THEN "unmap" ELSE "reg_cleanup")
     \/ Fail(p, IF refct[p] > 0 THEN "unmap" ELSE "reg_cleanup")
  /\ UNCHANGED <<opt, args, devices, flags, sent, firmware>>

\* mem_free returns at the first failure and is never entered again.
MemUnmap(p) ==
  /\ pc[p] = "unmap"
  /\ \/ "map" \notin flags[p] /\ Succeed(p, "unlock") /\ UNCHANGED flags
     \/ /\ "map" \in flags[p]
        /\ \/ /\ flags' = [flags EXCEPT ![p] = @ \ {"map"}]
              /\ Succeed(p, "unlock")
           \/ Fail(p, "reg_cleanup") /\ UNCHANGED flags
  /\ UNCHANGED <<opt, args, devices, refct, sent, firmware>>

MboxUnlock_FlagKept(p) ==
  /\ pc[p] = "unlock"
  /\ \/ "lock" \notin flags[p] /\ Succeed(p, "free") /\ UNCHANGED <<flags, heap>>
     \/ /\ "lock" \in flags[p]
        /\ \/ /\ heap' = [heap EXCEPT ![p] = @ \ {"lock"}]
              /\ Succeed(p, "free")
              /\ UNCHANGED flags
           \/ Fail(p, "reg_cleanup") /\ UNCHANGED <<flags, heap>>
  /\ UNCHANGED <<opt, args, devices, refct, sent, gpuOn, switched, running>>

MboxUnlock(p) ==
  /\ pc[p] = "unlock"
  /\ \/ "lock" \notin flags[p] /\ Succeed(p, "free") /\ UNCHANGED <<flags, heap>>
     \/ /\ "lock" \in flags[p]
        /\ \/ /\ flags' = [flags EXCEPT ![p] = @ \ {"lock"}]
              /\ heap' = [heap EXCEPT ![p] = @ \ {"lock"}]
              /\ Succeed(p, "free")
           \/ Fail(p, "reg_cleanup") /\ UNCHANGED <<flags, heap>>
  /\ UNCHANGED <<opt, args, devices, refct, sent, gpuOn, switched, running>>

MboxFree_ResultIgnored(p) ==
  /\ pc[p] = "free"
  /\ \/ /\ flags' = [flags EXCEPT ![p] = @ \ {"alloc"}]
        /\ heap' = [heap EXCEPT ![p] = @ \ {"alloc"}]
     \/ UNCHANGED <<flags, heap>>
  /\ Succeed(p, "reg_cleanup")
  /\ UNCHANGED <<opt, args, devices, refct, sent, gpuOn, switched, running>>

\* The memory is allocated whenever mem_free gets here.
MboxFree(p) ==
  /\ pc[p] = "free"
  /\ \/ /\ flags' = [flags EXCEPT ![p] = @ \ {"alloc"}]
        /\ heap' = [heap EXCEPT ![p] = @ \ {"alloc"}]
        /\ Succeed(p, "reg_cleanup")
     \/ Fail(p, "reg_cleanup") /\ UNCHANGED <<flags, heap>>
  /\ UNCHANGED <<opt, args, devices, refct, sent, gpuOn, switched, running>>

-----------------------------------------------------------------------------
(* reg_cleanup, mbox_cleanup and the end                                   *)

\* The address is forgotten even if munmap failed.
RegCleanup(p) ==
  /\ pc[p] = "reg_cleanup"
  /\ regs' = [regs EXCEPT ![p] = FALSE]
  /\ \/ Succeed(p, "mbox_cleanup")
     \/ regs[p] /\ Fail(p, "mbox_cleanup")
  /\ UNCHANGED <<opt, args, vcio, leaks, memory, sent, firmware>>

\* mbox_cleanup takes descriptor 0 for "not open".
MboxCleanup(p) ==
  /\ pc[p] = "mbox_cleanup"
  /\ \/ vcio[p] \in {None, 0} /\ Succeed(p, "exit") /\ UNCHANGED vcio
     \/ /\ vcio[p] \notin {None, 0}
        /\ vcio' = [vcio EXCEPT ![p] = None]
        /\ Succeed(p, "exit") \/ Fail(p, "exit")
  /\ UNCHANGED <<opt, args, regs, leaks, memory, sent, firmware>>

Ended(p) == pc[p] \in {"exit", "killed"}

\* There is no signal handler.  The kernel takes back descriptors and
\* mappings; the firmware does not notice.
Kill(p) ==
  /\ ~Ended(p)
  /\ pc' = [pc EXCEPT ![p] = "killed"]
  /\ vcio' = [vcio EXCEPT ![p] = None]
  /\ regs' = [regs EXCEPT ![p] = FALSE]
  /\ leaks' = [leaks EXCEPT ![p] = {}]
  /\ UNCHANGED <<opt, error, failed, args, memory, sent, firmware>>

\* A program that had timed out comes to its end.
ProgramEnds ==
  /\ \E p \in running : running' = running \ {p}
  /\ UNCHANGED <<pc, opt, error, failed, args, devices, memory, sent, heap, gpuOn,
                 switched>>

Step(p) ==
  \/ Options(p) \/ MboxInit(p) \/ RegInit(p) \/ GpuInit(p)
  \/ Command(p) \/ EndOfArguments(p) \/ FirmwareSwitch(p)
  \/ RegisterCheck(p) \/ RegisterAccess(p)
  \/ MboxAlloc(p) \/ MboxLock(p) \/ MemMap(p)
  \/ Layout(p) \/ MboxEnable(p) \/ MeasureBefore(p) \/ MboxExec(p)
  \/ MeasureAfter(p) \/ MboxDisable(p)
  \/ GpuCleanup(p) \/ MemUnmap(p) \/ MboxUnlock(p) \/ MboxFree(p)
  \/ RegCleanup(p) \/ MboxCleanup(p)

Terminated == (\A p \in Procs : Ended(p)) /\ UNCHANGED vars

Next ==
  \/ \E p \in Procs : Step(p) \/ Kill(p)
  \/ ProgramEnds
  \/ Terminated

Spec == Init /\ [][Next]_vars

\* Every process is scheduled, and every call it makes returns: the firmware
\* answers an exec message at the latest when its timeout has passed.
FairSpec == Spec /\ \A p \in Procs : WF_vars(Step(p))

-----------------------------------------------------------------------------
(* Properties                                                              *)

Labels ==
  {"options", "mbox_init", "reg_init", "gpu_init", "command", "firmware",
   "register", "access", "mem_alloc", "lock", "map", "layout", "enable",
   "before", "exec", "after", "disable", "gpu_cleanup", "unmap", "unlock",
   "free", "reg_cleanup", "mbox_cleanup", "exit", "killed"}

\* Type invariant of the sessions; flags never claims what the process has not
\* got, nor does the firmware hold what flags does not know of.
TypeOK ==
  /\ pc \in [Procs -> Labels]
  /\ error \in [Procs -> BOOLEAN]
  /\ failed \in [Procs -> SUBSET Returning]
  /\ args \in [Procs -> 0 .. MaxArgs]
  /\ vcio \in [Procs -> {None, 0, 3}]
  /\ regs \in [Procs -> BOOLEAN]
  /\ leaks \in [Procs -> SUBSET {"descriptor", "mapping"}]
  /\ flags \in [Procs -> SUBSET {"alloc", "lock", "map"}]
  /\ refct \in [Procs -> 0 .. 1]
  /\ sent \in [Procs -> Nat \union {None}]
  /\ heap \in [Procs -> SUBSET {"alloc", "lock"}]
  /\ gpuOn \in BOOLEAN
  /\ switched \in Procs \union {None}
  /\ running \subseteq Procs

\* G.mem.flags and the firmware agree at every step about what this process
\* has allocated and locked, and the stages are given back in the reverse
\* order: nothing is mapped that is not locked, or locked and not allocated.
FlagsTruthful ==
  \A p \in Procs :
    /\ heap[p] = flags[p] \ {"map"}
    /\ "map" \in flags[p] => "lock" \in flags[p]
    /\ "lock" \in flags[p] => "alloc" \in flags[p]

\* Mailbox calls are made while /dev/vcio is open and the registers are read
\* while they are mapped: the cleanup functions run in an order that serves
\* mem_free, also after a failed init function.
DevicesReady ==
  \A p \in Procs :
    /\ pc[p] \in {"firmware", "mem_alloc", "lock", "enable", "exec", "disable",
                  "unlock", "free"} => vcio[p] # None
    /\ pc[p] \in {"command", "register", "access", "before", "after"} => regs[p]

\* The exit status tells the truth: after EXIT_SUCCESS the process has given
\* back its GPU memory, its mappings and descriptors (save a descriptor 0),
\* and no program of its runs on.
SuccessMeansClean ==
  \A p \in Procs :
    pc[p] = "exit" /\ ~error[p] =>
      /\ heap[p] = {} /\ flags[p] = {} /\ leaks[p] = {}
      /\ vcio[p] \in {None, 0} /\ ~regs[p]
      /\ p \notin running

\* A process that ends by itself leaves GPU memory behind only if a call that
\* gives it back failed; any other failure, at any point, is cleaned up.
MemoryReturned ==
  \A p \in Procs :
    pc[p] = "exit" /\ heap[p] # {} =>
      failed[p] \intersect {"unmap", "unlock", "free"} # {}

\* A process that executed a program leaves the QPUs on only if turning them
\* off failed or another process turned them on: a program that fails or
\* times out is turned off too.
SwitchedOff ==
  \A p \in Procs :
    pc[p] = "exit" /\ sent[p] # None /\ gpuOn /\ switched = p =>
      "disable" \in failed[p]

\* The memory of a program is given back while the program may still run on
\* it only if turning the QPUs off failed.
FreedIdle ==
  \A p \in running : heap[p] = {} => "disable" \in failed[p]

\* From its own mbox_enable to its own mbox_disable a process finds the QPUs
\* on, so that the counters it compares were counting, unless another process
\* turned them off.
OwnWindow ==
  \A p \in Procs :
    pc[p] \in {"before", "exec", "after", "disable"} /\ switched = p => gpuOn

\* "-g <sec> Set GPU Timeout" (main.c:86): the program runs with the timeout
\* that was asked for.
TimeoutHonoured ==
  \A p \in Procs :
    opt[p].timeout > 0 /\ sent[p] # None => sent[p] = opt[p].timeout

\* What a process holds in its hands, as stages of Lease: what the firmware
\* has allocated and locked for it, and its mapping.
Held(p) ==
  IF "map" \in flags[p] THEN 3
  ELSE IF "lock" \in heap[p] THEN 2
  ELSE IF "alloc" \in heap[p] THEN 1 ELSE 0

Releasing == {"unmap", "unlock", "free", "reg_cleanup", "mbox_cleanup"}

LeasePhase(p) ==
  IF pc[p] = "killed" THEN "gone"
  ELSE IF failed[p] \intersect {"unmap", "unlock", "free"} # {} THEN "stuck"
  ELSE IF pc[p] = "exit" THEN "done"
  ELSE IF pc[p] \in Releasing THEN "closing"
  ELSE "open"

Leases == INSTANCE Lease WITH held  <- [p \in Procs |-> Held(p)],
                              phase <- [p \in Procs |-> LeasePhase(p)]

\* Sessions implement the abstract lease of GPU memory: whatever fails and
\* whoever interferes, stages are taken once and in order, given back in the
\* reverse order, and no process ends by itself with memory in its hands
\* unless mem_free was stopped by a call that failed.
LeaseSpec == Leases!Spec

\* Memory is given back in the end, unless mem_free was stopped by a call that
\* failed or the process was killed.
LeaseReturned == Leases!Returned

\* Every process ends, whatever fails and whatever the others do.
Terminates == \A p \in Procs : <>Ended(p)
=============================================================================
