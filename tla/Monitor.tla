------------------------------- MODULE Monitor -------------------------------
(***************************************************************************)
(* What `qpu execute` tells its user: the part of gpu_exec_via_mbox that   *)
(* follows link_mem, with dump_all, dump_wbufs, print_mem and print_time   *)
(* of gpu.c, the monitor of -d (reg_debug_before, _after, _print, diff_    *)
(* and print_debug of reg.c) and timespecsub of types.h.                   *)
(*                                                                         *)
(* The firmware queues one user program per task.  A task's result is that *)
(* it has contributed to its write buffer and to the global one, so the    *)
(* content of memory is the set of tasks that have ended.  Programs go on  *)
(* after an execution that timed out, and other processes run theirs.      *)
(* A debug register is read at one moment, two registers are not.  Its     *)
(* fields count events and wrap; a flag is a field of one bit that an      *)
(* event flips.  `events' holds the counts without wrapping, and `seen'    *)
(* what they were at each reading: the program has the remainders only.    *)
(* A dump is an image of one moment.                                       *)
(*                                                                         *)
(* Bounds: MaxOthers programs of other processes, MaxFlips events of other *)
(* fields, a clock that stops at MaxClock.  The power switch and what      *)
(* failures leave behind are the subject of Session, -1 and -2 that of     *)
(* Registers.  Definitions named Def_Suffix are mutants of Def.            *)
(***************************************************************************)
EXTENDS Slots, Sequences, FiniteSets

CONSTANTS
  DebugRegs,   \* the registers of reg_debug_before, in its order
  Fields,      \* the fields of each of them
  Width,       \* the number of values of each field
  Options,     \* the options that users give
  Past,        \* how often the events may have happened before
  NsPerSec,    \* nanoseconds per second, scaled down
  NsPerUs,     \* nanoseconds per microsecond, scaled down
  MaxOthers,   \* bound: programs that other processes run
  MaxFlips,    \* bound: events of the fields that do not count programs
  MaxClock     \* bound: the last moment

Field == UNION {Fields[DebugRegs[i]] : i \in DOMAIN DebugRegs}

Option == [isatty : BOOLEAN, dump0 : BOOLEAN, dump1 : BOOLEAN,
           mdebug : BOOLEAN, mtime : BOOLEAN, dry : BOOLEAN, verbose : BOOLEAN]

ASSUME FieldsAssumption ==
  /\ DebugRegs \in Seq(DOMAIN Fields)
  /\ {"requests", "completed"} \subseteq Field
  /\ \A f \in Field : Width[f] \in Nat \ {0}
  /\ Past \subseteq Nat
ASSUME ClockAssumption ==
  /\ NsPerSec \in Nat \ {0} /\ NsPerUs \in Nat \ {0} /\ NsPerSec % NsPerUs = 0
ASSUME OptionsAssumption == Options \subseteq Option
ASSUME BoundsAssumption == MaxOthers \in Nat /\ MaxFlips \in Nat /\ MaxClock \in Nat

VARIABLES
  pc,       \* where gpu_exec_via_mbox is
  opt,      \* the options
  ntasks,   \* G.ntasks
  wbufs,    \* the owners of the active write buffers
  error,    \* whether the execution reports FAILURE
  next,     \* how far a loop over registers or write buffers is
  stdout,   \* what print_mem has written: region, image, whether in full
  complaints,  \* the errors that print_mem has reported
  before,   \* G.debug.before, by field
  after,    \* G.debug.after
  report,   \* the lines of reg_debug_print, by field
  time,     \* the readings of the clock
  elapsed,  \* what print_time has printed, seconds and microseconds
  queued,   \* whether the firmware has got the program
  done,     \* the tasks that have ended
  events,   \* how often each field's event has happened
  seen,     \* events at the reading before and at the reading after
  others,   \* the programs that other processes have run
  clock     \* CLOCK_MONOTONIC_RAW, in nanoseconds

program == <<pc, error, next, stdout, complaints, before, after, report, time, elapsed>>
command == <<opt, ntasks, wbufs>>
world   == <<queued, done, events, others, clock>>
vars    == <<program, command, world, seen>>

Tasks == 0 .. ntasks - 1
Nothing == <<>>   \* a function without lines, a sequence without elements
All == -2         \* the whole of the GPU memory, beside the buffers of Owner

Init ==
  /\ pc = "dump0"
  /\ opt \in Options
  /\ ntasks \in 1 .. MaxTasks
  /\ wbufs \in SUBSET ({Glob} \union Tasks)
  /\ error = FALSE
  /\ next = 1
  /\ stdout = <<>> /\ complaints = 0
  /\ before = [f \in Field |-> 0] /\ after = [f \in Field |-> 0]
  /\ report = Nothing
  /\ time = Nothing /\ elapsed = Nothing
  /\ queued = FALSE /\ done = {}
  /\ \E n \in Past : events = [f \in Field |-> n]
  /\ seen = [before |-> events, after |-> events]
  /\ others = 0
  /\ clock \in {0, NsPerSec - 1}

Following_EarlyDump ==
  [dump0 |-> "enable", enable |-> "debug_before", debug_before |-> "time0",
   time0 |-> "dump1", dump1 |-> "wbufs", wbufs |-> "exec", exec |-> "time1",
   time1 |-> "debug_after", debug_after |-> "debug_print",
   debug_print |-> "time_print", time_print |-> "disable"]
Following_EarlyDebug ==
  [dump0 |-> "enable", enable |-> "debug_before", debug_before |-> "time0",
   time0 |-> "debug_after", debug_after |-> "exec", exec |-> "time1",
   time1 |-> "dump1", dump1 |-> "wbufs", wbufs |-> "debug_print",
   debug_print |-> "time_print", time_print |-> "disable"]
\* The order of gpu_exec_via_mbox.
Following ==
  [dump0 |-> "enable", enable |-> "debug_before", debug_before |-> "time0",
   time0 |-> "exec", exec |-> "time1", time1 |-> "debug_after",
   debug_after |-> "dump1", dump1 |-> "wbufs", wbufs |-> "debug_print",
   debug_print |-> "time_print", time_print |-> "disable"]

Move == pc' = Following[pc] /\ next' = 1

-----------------------------------------------------------------------------
(* print_mem, dump_all, dump_wbufs                                         *)

\* What a region holds: the tasks that have contributed to it.
Image(region) ==
  IF region \in Task THEN done \intersect {region} ELSE done

\* write may fail or write less; both are reported, and then ignored.
PrintMem(region) ==
  \E lost \in {"nothing", "some", "all"} :
    /\ stdout' = Append(stdout, [region |-> region, image |-> Image(region), lost |-> lost])
    /\ complaints' = complaints + (IF lost = "nothing" THEN 0 ELSE 1)

DumpAll(wanted) ==
  IF wanted /\ ~opt.isatty THEN PrintMem(All) ELSE UNCHANGED <<stdout, complaints>>

Dump0 ==
  /\ pc = "dump0"
  /\ DumpAll(opt.dump0)
  /\ next' = 1
  /\ pc' = IF opt.dry THEN "end" ELSE Following[pc]
  /\ UNCHANGED <<command, world, seen, error, before, after, report, time, elapsed>>

Dump1 ==
  /\ pc = "dump1"
  /\ DumpAll(opt.dump1)
  /\ Move
  /\ UNCHANGED <<command, world, seen, error, before, after, report, time, elapsed>>

NextOwner_TasksFirst == IF next <= ntasks THEN next - 1 ELSE Glob
\* The order of dump_wbufs: the global buffer, then those of the tasks.
NextOwner == IF next = 1 THEN Glob ELSE next - 2

Dumping ==
  /\ pc = "wbufs"
  /\ ~opt.isatty /\ ~opt.dump0 /\ ~opt.dump1
  /\ next <= ntasks + 1

DumpWbuf ==
  /\ Dumping
  /\ IF NextOwner \in wbufs THEN PrintMem(NextOwner) ELSE UNCHANGED <<stdout, complaints>>
  /\ next' = next + 1
  /\ UNCHANGED <<command, world, seen, pc, error, before, after, report, time, elapsed>>

WbufsDumped ==
  /\ pc = "wbufs"
  /\ ~Dumping
  /\ Move
  /\ UNCHANGED <<command, world, seen, error, stdout, complaints, before, after, report, time,
                 elapsed>>

-----------------------------------------------------------------------------
(* The monitor of -d                                                       *)

\* read_ERRSTAT, read_FDBGS, ...: the fields of the register that is next.
Read(reading) ==
  [f \in Field |-> IF f \in Fields[DebugRegs[next]] THEN events[f] % Width[f] ELSE reading[f]]

See(moment) ==
  seen' = [seen EXCEPT ![moment] =
             [f \in Field |-> IF f \in Fields[DebugRegs[next]] THEN events[f] ELSE @[f]]]

Reading(moment) == pc = moment /\ opt.mdebug /\ next <= Len(DebugRegs)

DebugBefore ==
  /\ Reading("debug_before")
  /\ before' = Read(before)
  /\ See("before")
  /\ next' = next + 1
  /\ UNCHANGED <<command, world, pc, error, stdout, complaints, after, report, time, elapsed>>

DebugAfter ==
  /\ Reading("debug_after")
  /\ after' = Read(after)
  /\ See("after")
  /\ next' = next + 1
  /\ UNCHANGED <<command, world, pc, error, stdout, complaints, before, report, time, elapsed>>

\* Without -d, or once every register has been read.
ReadingEnds ==
  /\ pc \in {"debug_before", "debug_after"}
  /\ ~Reading(pc)
  /\ Move
  /\ UNCHANGED <<command, world, seen, error, stdout, complaints, before, after, report, time,
                 elapsed>>

Diff_Swapped(f) == (before[f] - after[f]) % Width[f]
\* D(f.x): the difference is stored in a bit field of the same width.
Diff(f) == (after[f] - before[f]) % Width[f]

\* print_ERRSTAT, print_FDBGS, ... leave out what did not change, unless verbose.
Shown == {f \in Field : opt.verbose \/ Diff(f) # 0}

DebugPrint ==
  /\ pc = "debug_print"
  /\ report' = IF opt.mdebug THEN [f \in Shown |-> Diff(f)] ELSE report
  /\ Move
  /\ UNCHANGED <<command, world, seen, error, stdout, complaints, before, after, time, elapsed>>

-----------------------------------------------------------------------------
(* The measurement of -t                                                   *)

\* A struct timespec.
Timespec == [sec |-> clock \div NsPerSec, nsec |-> clock % NsPerSec]

ReadClock ==
  /\ pc \in {"time0", "time1"}
  /\ time' = IF opt.mtime THEN Append(time, Timespec) ELSE time
  /\ Move
  /\ UNCHANGED <<command, world, seen, error, stdout, complaints, before, after, report, elapsed>>

TimespecSub_NoBorrow(a, b) == [sec |-> b.sec - a.sec, nsec |-> (b.nsec - a.nsec) % NsPerSec]
TimespecSub(a, b) ==
  LET sec  == b.sec - a.sec
      nsec == b.nsec - a.nsec
  IN  IF nsec < 0 THEN [sec |-> sec - 1, nsec |-> nsec + NsPerSec]
      ELSE [sec |-> sec, nsec |-> nsec]

PrintTime ==
  /\ pc = "time_print"
  /\ elapsed' = IF opt.mtime
                THEN LET diff == TimespecSub(time[1], time[2])
                     IN  <<diff.sec, diff.nsec \div NsPerUs>>
                ELSE elapsed
  /\ Move
  /\ UNCHANGED <<command, world, seen, error, stdout, complaints, before, after, report, time>>

-----------------------------------------------------------------------------
(* The calls of the mailbox                                                *)

Enable ==
  /\ pc = "enable"
  /\ \E failed \in BOOLEAN :
       /\ error' = failed
       /\ pc' = IF failed THEN "end" ELSE Following[pc]
  /\ next' = 1
  /\ UNCHANGED <<command, world, seen, stdout, complaints, before, after, report, time, elapsed>>

\* The firmware queues the programs of all tasks, or refuses them.
Exec ==
  /\ pc = "exec"
  /\ ~queued
  /\ queued' = TRUE
  /\ events' = [events EXCEPT !["requests"] = @ + ntasks]
  /\ UNCHANGED <<program, command, seen, done, others, clock>>

\* It answers when all have ended.
ExecReturns ==
  /\ pc = "exec"
  /\ queued /\ done = Tasks
  /\ Move
  /\ UNCHANGED <<command, world, seen, error, stdout, complaints, before, after, report, time,
                 elapsed>>

\* ioctl or the firmware fails, before or after the programs were queued, or
\* they take too long.
ExecFails ==
  /\ pc = "exec"
  /\ error' = TRUE
  /\ Move
  /\ UNCHANGED <<command, world, seen, stdout, complaints, before, after, report, time, elapsed>>

Disable ==
  /\ pc = "disable"
  /\ pc' = "end"
  /\ \E failed \in BOOLEAN : error' = (error \/ failed)
  /\ UNCHANGED <<command, world, seen, next, stdout, complaints, before, after, report, time,
                 elapsed>>

-----------------------------------------------------------------------------
(* The GPU, other processes and time                                       *)

TaskEnds(i) ==
  /\ queued
  /\ i \in Tasks \ done
  /\ done' = done \union {i}
  /\ events' = [events EXCEPT !["completed"] = @ + 1]
  /\ UNCHANGED <<program, command, seen, queued, others, clock>>

\* The registers are read between these; other moments' events show nowhere.
Watched == opt.mdebug /\ pc \in {"debug_before", "time0", "exec", "time1", "debug_after"}

\* Another process queues a program or one of its programs ends.
OtherProgram ==
  /\ Watched
  /\ others < MaxOthers
  /\ \E f \in {"requests", "completed"} : events' = [events EXCEPT ![f] = @ + 1]
  /\ others' = others + 1
  /\ UNCHANGED <<program, command, seen, queued, done, clock>>

Event(f) ==
  /\ Watched
  /\ f \notin {"requests", "completed"}
  /\ events[f] - seen.before[f] < MaxFlips
  /\ events' = [events EXCEPT ![f] = @ + 1]
  /\ UNCHANGED <<program, command, seen, queued, done, others, clock>>

\* Init chooses the moment of the first reading.
Tick ==
  /\ Len(time) = 1
  /\ clock < MaxClock
  /\ clock' = clock + 1
  /\ UNCHANGED <<program, command, seen, queued, done, events, others>>

Terminated == pc = "end" /\ UNCHANGED vars

Program ==
  \/ Dump0 \/ Dump1 \/ DumpWbuf \/ WbufsDumped
  \/ DebugBefore \/ DebugAfter \/ ReadingEnds \/ DebugPrint
  \/ ReadClock \/ PrintTime
  \/ Enable \/ Exec \/ ExecReturns \/ ExecFails \/ Disable

World == (\E i \in Task : TaskEnds(i)) \/ OtherProgram \/ (\E f \in Field : Event(f)) \/ Tick

Next == Program \/ Terminated \/ (pc # "end" /\ World)

Spec == Init /\ [][Next]_vars

-----------------------------------------------------------------------------
(* Properties                                                              *)

\* The execution ran to its end and succeeded.
Succeeded == pc = "end" /\ ~error /\ ~opt.dry

\* Type invariant of the report.
TypeOK ==
  /\ pc \in DOMAIN Following \union {"disable", "end"}
  /\ error \in BOOLEAN
  /\ done \subseteq Tasks
  /\ \A f \in Field : before[f] \in 0 .. Width[f] - 1 /\ after[f] \in 0 .. Width[f] - 1
  /\ Len(time) <= 2
  /\ next \in 1 .. MaxTasks + 2 \union 1 .. Len(DebugRegs) + 1

Regions == [i \in DOMAIN stdout |-> stdout[i].region]

\* print_mem reports every dump that stdout did not get in full.
LossReported == complaints = Cardinality({i \in DOMAIN stdout : stdout[i].lost # "nothing"})

\* The memory before, the memory after, or, without either option, the write
\* buffers, the global one first, then in task order, each of them once.
DumpsExact ==
  Succeeded =>
    LET dumps == (IF opt.dump0 THEN <<All>> ELSE <<>>) \o (IF opt.dump1 THEN <<All>> ELSE <<>>)
    IN  CASE opt.isatty -> stdout = <<>>
          [] ~opt.isatty /\ (opt.dump0 \/ opt.dump1) -> Regions = dumps
          [] OTHER ->
               /\ {Regions[i] : i \in DOMAIN Regions} = wbufs
               /\ \A i, j \in DOMAIN Regions : i < j => Regions[i] < Regions[j]

\* "Dump GPU Memory Before Execution", "Dump GPU Memory After Execution"
\* (main.c:86): a successful execution has made the dumps asked for and no
\* other, on a stdout that is no terminal, also when a write failed or came up
\* short on the way; and whoever has read no complaint has all of their bytes.
OutputExact == DumpsExact /\ LossReported

\* After a successful execution the buffers written to stdout hold the results
\* of every task that writes to them, and a dump made before holds none,
\* although programs run beside the process that dumps.
ResultsFinal ==
  Succeeded =>
    \A i \in DOMAIN stdout :
      LET dumpedBefore == opt.dump0 /\ i = 1
      IN  stdout[i].image = IF dumpedBefore THEN {}
                            ELSE IF stdout[i].region \in Task THEN {stdout[i].region}
                            ELSE Tasks

\* -d reports how often each field's event happened between its two readings,
\* modulo the field's width, and leaves out only what did not change: also
\* when a count wrapped or another process changed the registers meanwhile.
DebugTrue ==
  pc \in {"time_print", "disable"} /\ opt.mdebug =>
    \A f \in Field :
      (IF f \in DOMAIN report THEN report[f] ELSE 0) =
        (seen.after[f] - seen.before[f]) % Width[f]

\* After a successful execution that no other program disturbed, -d reports as
\* many programs requested and completed as there are tasks.
ProgramsAccounted ==
  Succeeded /\ opt.mdebug /\ opt.verbose /\ others = 0 =>
    \A f \in {"requests", "completed"} : report[f] = ntasks % Width[f]

\* -t reports, in whole microseconds, the time that passed between the two
\* readings, with microseconds that are no more than a second.
TimeTrue ==
  elapsed # Nothing =>
    LET t == [i \in 1 .. 2 |-> time[i].sec * NsPerSec + time[i].nsec]
        usPerSec == NsPerSec \div NsPerUs
    IN  /\ elapsed[1] >= 0 /\ elapsed[2] \in 0 .. usPerSec - 1
        /\ elapsed[1] * usPerSec + elapsed[2] = (t[2] - t[1]) \div NsPerUs
=============================================================================
