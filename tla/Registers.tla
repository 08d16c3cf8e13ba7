------------------------------ MODULE Registers ------------------------------
(***************************************************************************)
(* The GPU's registers as reg.c uses them, on behalf of several processes: *)
(* `qpu register` (command_register of main.c), `qpu -1 execute` and       *)
(* `qpu -2 execute` with their performance measurement, and                *)
(* `qpu firmware enable` and `disable`.                                    *)
(*                                                                         *)
(* Every access to a register is an action of its own, as is every         *)
(* CHECK_ENABLED.  The words of the performance counter registers have     *)
(* their meaning: an event for PCTRSn, counters and the master enable for  *)
(* PCTRE, counters for PCTRC.  Any other word is told apart by two bits:   *)
(* one that unions.h names and one that it calls reserved.  What the       *)
(* hardware does is modelled from that: an enabled counter counts the      *)
(* event it selects; while the QPUs are off writes are lost and reads give *)
(* anything; turning the QPUs on keeps the registers or clears them.       *)
(*                                                                         *)
(* The rest of a process, and what it does after a failure, is the subject *)
(* of Session.  Definitions named Def_Suffix are mutants of Def, as in     *)
(* TaskTable.                                                              *)
(***************************************************************************)
EXTENDS Integers, FiniteSets

CONSTANTS
  Procs,      \* the processes
  Jobs,       \* what they run: "register", "-1", "-2" or "firmware" each
  Ctr,        \* the performance counters, 0 .. 15
  Event,      \* values of the field pctrs, a subset of 0 .. 31
  U32,        \* the number of values of a u32
  Named,      \* per process: the registers that its command line may name
  Left,       \* what earlier users left in the counter registers
  Read,       \* marks an argument without a value
  MaxArgs,    \* bound: arguments of one `register` or `firmware` command
  MaxEvents   \* bound: how many events happen

ASSUME JobsAssumption == Jobs \subseteq [Procs -> {"register", "-1", "-2", "firmware"}]
ASSUME CtrAssumption == Ctr \subseteq 0 .. 15 /\ Ctr # {}
ASSUME EventAssumption == Event \subseteq 0 .. 31
ASSUME U32Assumption == U32 \in Nat \ {0}
ASSUME BoundsAssumption == MaxArgs \in Nat /\ MaxEvents \in Nat

Word == 0 .. U32 - 1

Enables == [ctrs : SUBSET Ctr, master : BOOLEAN]
Selects == [Ctr -> Event]
Counts  == [Ctr -> Word]

ASSUME LeftAssumption ==
  Left \subseteq [select : Selects, enabled : Enables, count : Counts]

\* A register is its name, with the number of the counter for pctr<n> and
\* pctrs<n>, else All.
All == -1

-----------------------------------------------------------------------------
(* Which register may be accessed how                                      *)

\* The help text of -r.
HelpR  == {"ident0", "ident1", "ident2", "ct00ra0", "ct01ra0", "ct0pc", "ct1pc",
           "pcs", "bpca", "bpcs", "pctr", "dbge", "fdbgo", "fdbgb", "fdbgr",
           "fdbgs", "errstat"}
HelpW  == {"slcactl", "srqpc", "pctrc"}
HelpRW == {"scratch", "l2cactl", "intctl", "intena", "intdis", "ct0cs", "ct1cs",
           "ct0ea", "ct1ea", "ct0ca", "ct1ca", "ct0lc", "ct1lc", "bfc", "rfc",
           "bpoa", "bpos", "bxcf", "sqrsv0", "sqrsv1", "sqcntl", "srqua", "srqul",
           "srqcs", "vpacntl", "vpmbase", "pctre", "pctrs", "dbqite", "dbqitc"}
Name == HelpR \union HelpW \union HelpRW

Register == {r \in Name \X ({All} \union Ctr) : r[2] # All => r[1] \in {"pctr", "pctrs"}}

ASSUME NamedAssumption == Named \in [Procs -> SUBSET Register]

NoWrite_Pcs ==
  {"errstat", "fdbgs", "fdbgr", "fdbgb", "fdbgo", "dbge", "pctr", "bpcs", "bpca",
   "ct1pc", "ct0pc", "ct01ra0", "ct00ra0", "ident2", "ident1", "ident0"}
\* The registers whose reg_write_ function only prints that it cannot.
NoWrite ==
  {"errstat", "fdbgs", "fdbgr", "fdbgb", "fdbgo", "dbge", "pctr", "bpcs", "bpca",
   "pcs", "ct1pc", "ct0pc", "ct01ra0", "ct00ra0", "ident2", "ident1", "ident0"}

\* The registers whose reg_read_ function only prints that it cannot.
NoRead == {"pctrc", "srqpc", "slcactl"}

\* The registers whose layout in unions.h has reserved bits; the others are
\* fields throughout, or have no layout because they hold an address.
Reserving ==
  {"ident2", "l2cactl", "slcactl", "intctl", "intena", "intdis", "ct0cs", "ct1cs", "pcs",
   "bfc", "rfc", "bxcf", "sqcntl", "srqul", "srqcs", "vpacntl", "vpmbase", "pctrc", "pctre",
   "pctrs", "dbqite", "dbqitc", "dbge", "fdbgo", "fdbgb", "fdbgr", "fdbgs", "errstat"}

Unmasked_Sqcntl ==
  {"sqcntl", "srqul", "srqua", "srqpc", "sqrsv1", "sqrsv0", "bpos", "bpoa", "ct1ca",
   "ct0ca", "ct1ea", "ct0ea", "scratch"}
\* The registers whose accessor in reg.c writes the word as it is given; all
\* others write fields by their names, and 0 between them.
Unmasked == {"srqul", "srqua", "srqpc", "sqrsv1", "sqrsv0", "bpos", "bpoa", "ct1ca",
             "ct0ca", "ct1ea", "ct0ea", "scratch"}

\* A word by two kinds of bits: those of a field that the accessor writes (of
\* ct<n>cs three of the seven), and those that unions.h reserves.
Bits  == [field : BOOLEAN, reserved : BOOLEAN]
Plain == {r \in Register : r[1] \notin {"pctr", "pctrs", "pctre", "pctrc"}}

\* The words that an argument may carry, by what they mean to the register.
Words(r) ==
  CASE r[1] = "pctrs" -> Event
    [] r[1] = "pctre" -> Enables
    [] r[1] = "pctrc" -> SUBSET Ctr
    [] OTHER -> {w \in Bits : w.reserved => r[1] \in Reserving}

VARIABLES
  on,         \* the QPUs are enabled
  select,     \* PCTRSn: the event that each counter counts
  enabled,    \* PCTRE
  count,      \* PCTRn
  plain,      \* the other registers
  happened,   \* how often each event has happened
  job,        \* per process: what it runs
  pc,         \* per process: the next step
  args,       \* per process: arguments that may still follow
  pending,    \* per process: the access that an argument asked for
  todo,       \* per process: the counters that a loop has yet to handle
  before,     \* per process: G.perf.before
  after,      \* per process: G.perf.after
  names,      \* per process: reg_perf_print's pctrs
  from,       \* history: what had happened at each reading of before
  to,         \* history: what had happened at each reading of after
  run,        \* history: what had happened when the program started and ended
  accessed,   \* history: the registers each process has read or written
  disturbed   \* history: another process has interfered with this one

counters == <<select, enabled, count>>
readings == <<before, after, names, from, to, run>>
vars == <<on, counters, plain, happened, job, pc, args, pending, todo, readings,
          accessed, disturbed>>

Nothing == [e \in Event |-> 0]
NoCount == [i \in Ctr |-> 0]

Init ==
  /\ on \in BOOLEAN
  /\ \E l \in Left : select = l.select /\ enabled = l.enabled /\ count = l.count
  /\ plain = [r \in Plain |-> [field |-> FALSE, reserved |-> FALSE]]
  /\ happened = Nothing
  /\ job \in Jobs
  /\ pc = [p \in Procs |-> "start"]
  /\ args = [p \in Procs |-> MaxArgs]
  /\ pending = [p \in Procs |-> <<>>]
  /\ todo = [p \in Procs |-> Ctr]
  /\ before = [p \in Procs |-> NoCount]
  /\ after = [p \in Procs |-> NoCount]
  /\ names = [p \in Procs |-> NoCount]
  /\ from = [p \in Procs |-> [i \in Ctr |-> Nothing]]
  /\ to = [p \in Procs |-> [i \in Ctr |-> Nothing]]
  /\ run = [p \in Procs |-> [start |-> Nothing, end |-> Nothing]]
  /\ accessed = [p \in Procs |-> {}]
  /\ disturbed = [p \in Procs |-> FALSE]

GoTo(p, label) == pc' = [pc EXCEPT ![p] = label]

\* Handled(p, i, label): a loop over the counters has done i; the step after
\* the last one is label.
Handled(p, i, label) ==
  /\ todo' = [todo EXCEPT ![p] = IF @ = {i} THEN Ctr ELSE @ \ {i}]
  /\ GoTo(p, IF todo[p] = {i} THEN label ELSE pc[p])

\* The counter that a loop in the order of the counters handles next.
IsFirst(p, i) == i \in todo[p] /\ \A j \in todo[p] : i <= j

-----------------------------------------------------------------------------
(* Accesses                                                                *)

\* A write to the counter registers as the hardware takes it.
WriteCounters(s, e, c) ==
  IF on THEN select' = s /\ enabled' = e /\ count' = c ELSE UNCHANGED counters

WriteSelect(i, e) == WriteCounters([select EXCEPT ![i] = e], enabled, count)

\* What a read of a register with content v may give, out of possible.
Reading(v, possible) == IF on THEN {v} ELSE possible

Switch(value) ==
  /\ on' = value
  /\ \/ UNCHANGED counters
     \/ /\ value /\ ~on
        /\ 0 \in Event
        /\ select' = NoCount
        /\ enabled' = [ctrs |-> {}, master |-> FALSE]
        /\ count' = NoCount

-----------------------------------------------------------------------------
(* qpu register                                                            *)

\* command_register itself checks that the QPUs are on, once.
StartRegister(p) ==
  /\ pc[p] = "start" /\ job[p] = "register"
  /\ GoTo(p, IF on THEN "argument" ELSE "done")
  /\ UNCHANGED <<on, counters, plain, happened, args, pending, todo, readings, accessed>>

Argument_Unchecked(p) ==
  /\ pc[p] = "argument"
  /\ args[p] > 0
  /\ args' = [args EXCEPT ![p] = @ - 1]
  /\ \E r \in Named[p] : \E w \in Words(r) \union {Read} :
       pending' = [pending EXCEPT ![p] = [reg |-> r, word |-> w]]
  /\ GoTo(p, "access")
  /\ UNCHANGED <<on, counters, plain, happened, todo, readings, accessed>>

\* A register and perhaps a number; then reg_read_ or reg_write_ checks again.
Argument(p) ==
  /\ pc[p] = "argument"
  /\ args[p] > 0
  /\ args' = [args EXCEPT ![p] = @ - 1]
  /\ \E r \in Named[p] : \E w \in Words(r) \union {Read} :
       pending' = [pending EXCEPT ![p] = [reg |-> r, word |-> w]]
  /\ GoTo(p, IF on THEN "access" ELSE "argument")
  /\ UNCHANGED <<on, counters, plain, happened, todo, readings, accessed>>

\* The end of the line, or an unknown register.
EndOfArguments(p) ==
  /\ pc[p] = "argument"
  /\ GoTo(p, "done")
  /\ UNCHANGED <<on, counters, plain, happened, args, pending, todo, readings, accessed>>

Pending(p, r, w) == pc[p] = "access" /\ pending[p] = [reg |-> r, word |-> w]

Accessed(p, r, mode) == accessed' = [accessed EXCEPT ![p] = @ \union {<<r, mode>>}]

\* What was asked for is not supported.
Refuse(p) ==
  /\ pc[p] = "access"
  /\ pending[p].reg[1] \in (IF pending[p].word = Read THEN NoRead ELSE NoWrite)
  /\ GoTo(p, "argument")
  /\ UNCHANGED <<on, counters, plain, happened, args, pending, todo, readings, accessed>>

\* A read; the registers of pctr and pctrs one after the other.
ReadRegister(p, r) ==
  /\ Pending(p, r, Read)
  /\ r[1] \notin NoRead
  /\ Accessed(p, r, "R")
  /\ IF r[1] \in {"pctr", "pctrs"} /\ r[2] = All
     THEN \E i \in todo[p] : Handled(p, i, "argument")
     ELSE GoTo(p, "argument") /\ UNCHANGED todo
  /\ UNCHANGED <<on, counters, plain, happened, args, pending, readings>>

\* The word that the accessor writes to a register without a meaning of its own.
Stored(r, w) == IF r[1] \in Unmasked THEN w ELSE [w EXCEPT !.reserved = FALSE]

WritePlain(p, r, w) ==
  /\ Pending(p, r, w)
  /\ r \in Plain /\ w # Read
  /\ r[1] \notin NoWrite
  /\ plain' = IF on THEN [plain EXCEPT ![r] = Stored(r, w)] ELSE plain
  /\ Accessed(p, r, "W")
  /\ GoTo(p, "argument")
  /\ UNCHANGED <<on, counters, happened, args, pending, todo, readings>>

\* pctrs<n>.
WriteOne(p, i, w) ==
  /\ Pending(p, <<"pctrs", i>>, w)
  /\ i \in Ctr /\ w # Read
  /\ WriteSelect(i, w)
  /\ Accessed(p, <<"pctrs", i>>, "W")
  /\ GoTo(p, "argument")
  /\ UNCHANGED <<on, plain, happened, args, pending, todo, readings>>

\* pctrs, one register after the other.
WriteAll(p, i, w) ==
  /\ Pending(p, <<"pctrs", All>>, w)
  /\ w # Read
  /\ IsFirst(p, i)
  /\ WriteSelect(i, w)
  /\ Accessed(p, <<"pctrs", All>>, "W")
  /\ Handled(p, i, "argument")
  /\ UNCHANGED <<on, plain, happened, args, pending, readings>>

WriteEnable(p, w) ==
  /\ Pending(p, <<"pctre", All>>, w)
  /\ w # Read
  /\ WriteCounters(select, w, count)
  /\ Accessed(p, <<"pctre", All>>, "W")
  /\ GoTo(p, "argument")
  /\ UNCHANGED <<on, plain, happened, args, pending, todo, readings>>

WriteClear(p, w) ==
  /\ Pending(p, <<"pctrc", All>>, w)
  /\ w # Read
  /\ WriteCounters(select, enabled, [i \in Ctr |-> IF i \in w THEN 0 ELSE count[i]])
  /\ Accessed(p, <<"pctrc", All>>, "W")
  /\ GoTo(p, "argument")
  /\ UNCHANGED <<on, plain, happened, args, pending, todo, readings>>

RegisterStep(p) ==
  \/ StartRegister(p) \/ Argument(p) \/ EndOfArguments(p) \/ Refuse(p)
  \/ pc[p] = "access" /\ ReadRegister(p, pending[p].reg)
  \/ pc[p] = "access" /\ WritePlain(p, pending[p].reg, pending[p].word)
  \/ pc[p] = "access" /\ \E i \in Ctr : WriteOne(p, i, pending[p].word)
                                          \/ WriteAll(p, i, pending[p].word)
  \/ pc[p] = "access" /\ WriteEnable(p, pending[p].word)
  \/ pc[p] = "access" /\ WriteClear(p, pending[p].word)

-----------------------------------------------------------------------------
(* qpu firmware enable, qpu firmware disable                               *)

FirmwareSwitch(p) ==
  /\ pc[p] = "start" /\ job[p] = "firmware"
  /\ args[p] > 0
  /\ args' = [args EXCEPT ![p] = @ - 1]
  /\ \E value \in BOOLEAN : Switch(value)
  /\ UNCHANGED <<plain, happened, pc, pending, todo, readings, accessed>>

EndOfFirmware(p) ==
  /\ pc[p] = "start" /\ job[p] = "firmware"
  /\ GoTo(p, "done")
  /\ UNCHANGED <<on, counters, plain, happened, args, pending, todo, readings, accessed>>

-----------------------------------------------------------------------------
(* qpu -1 execute, qpu -2 execute                                          *)

\* mbox_enable; -1 configures the counters, -2 takes them as they are.
MboxEnable(p) ==
  /\ pc[p] = "start" /\ job[p] \in {"-1", "-2"}
  /\ Switch(TRUE)
  /\ GoTo(p, IF job[p] = "-1" THEN "check_select" ELSE "before")
  /\ UNCHANGED <<plain, happened, args, pending, todo, readings, accessed>>

\* select_counters: 13 to 17 and 19 to 29.
Preset(i) == IF i < 5 THEN 13 + i ELSE 14 + i

ASSUME PresetAssumption == \A i \in Ctr : Preset(i) \in Event

CheckSelect(p) ==
  /\ pc[p] = "check_select"
  /\ GoTo(p, IF on THEN "select" ELSE "check_enable")
  /\ UNCHANGED <<on, counters, plain, happened, args, pending, todo, readings, accessed>>

SelectCounter(p, i) ==
  /\ pc[p] = "select"
  /\ IsFirst(p, i)
  /\ WriteSelect(i, Preset(i))
  /\ Handled(p, i, "check_enable")
  /\ UNCHANGED <<on, plain, happened, args, pending, readings, accessed>>

CheckEnable(p) ==
  /\ pc[p] = "check_enable"
  /\ GoTo(p, IF on THEN "enable" ELSE "before")
  /\ UNCHANGED <<on, counters, plain, happened, args, pending, todo, readings, accessed>>

EnableCounters_NoMaster(p) ==
  /\ pc[p] = "enable"
  /\ WriteCounters(select, [ctrs |-> Ctr, master |-> FALSE], count)
  /\ GoTo(p, "before")
  /\ UNCHANGED <<on, plain, happened, args, pending, todo, readings, accessed>>

EnableCounters(p) ==
  /\ pc[p] = "enable"
  /\ WriteCounters(select, [ctrs |-> Ctr, master |-> TRUE], count)
  /\ GoTo(p, "before")
  /\ UNCHANGED <<on, plain, happened, args, pending, todo, readings, accessed>>

\* read_PCTR reads the counters in an order that C leaves open.
ReadBefore(p, i) ==
  /\ pc[p] = "before"
  /\ i \in todo[p]
  /\ \E v \in Reading(count[i], Word) : before' = [before EXCEPT ![p][i] = v]
  /\ from' = [from EXCEPT ![p][i] = happened]
  /\ Handled(p, i, "start_program")
  /\ UNCHANGED <<on, counters, plain, happened, args, pending, after, names, to, run,
                 accessed>>

\* mbox_exec_qpu.
StartProgram(p) ==
  /\ pc[p] = "start_program"
  /\ run' = [run EXCEPT ![p].start = happened]
  /\ GoTo(p, "end_program")
  /\ UNCHANGED <<on, counters, plain, happened, args, pending, todo, before, after,
                 names, from, to, accessed>>

EndProgram(p) ==
  /\ pc[p] = "end_program"
  /\ run' = [run EXCEPT ![p].end = happened]
  /\ GoTo(p, "after")
  /\ UNCHANGED <<on, counters, plain, happened, args, pending, todo, before, after,
                 names, from, to, accessed>>

ReadAfter(p, i) ==
  /\ pc[p] = "after"
  /\ i \in todo[p]
  /\ \E v \in Reading(count[i], Word) : after' = [after EXCEPT ![p][i] = v]
  /\ to' = [to EXCEPT ![p][i] = happened]
  /\ Handled(p, i, "names")
  /\ UNCHANGED <<on, counters, plain, happened, args, pending, before, names, from, run,
                 accessed>>

\* reg_perf_print reads PCTRSn to name what was counted.
ReadName(p, i) ==
  /\ pc[p] = "names"
  /\ i \in todo[p]
  /\ \E e \in Reading(select[i], Event) : names' = [names EXCEPT ![p][i] = e]
  /\ Handled(p, i, "disable")
  /\ UNCHANGED <<on, counters, plain, happened, args, pending, before, after, from, to,
                 run, accessed>>

\* The process ends, and what it has read is gone.
MboxDisable(p) ==
  /\ pc[p] = "disable"
  /\ Switch(FALSE)
  /\ GoTo(p, "done")
  /\ before' = [before EXCEPT ![p] = NoCount]
  /\ after' = [after EXCEPT ![p] = NoCount]
  /\ names' = [names EXCEPT ![p] = NoCount]
  /\ from' = [from EXCEPT ![p] = [i \in Ctr |-> Nothing]]
  /\ to' = [to EXCEPT ![p] = [i \in Ctr |-> Nothing]]
  /\ run' = [run EXCEPT ![p] = [start |-> Nothing, end |-> Nothing]]
  /\ UNCHANGED <<plain, happened, args, pending, todo, accessed>>

MeasureStep(p) ==
  \/ MboxEnable(p) \/ CheckSelect(p) \/ CheckEnable(p) \/ EnableCounters(p)
  \/ \E i \in Ctr : \/ SelectCounter(p, i) \/ ReadBefore(p, i)
                    \/ ReadAfter(p, i) \/ ReadName(p, i)
  \/ StartProgram(p) \/ EndProgram(p) \/ MboxDisable(p)

Diff_Swapped(a, b) == (a - b) % U32
\* What reg_perf_print prints for counter i: diff_PCTR's u32 difference.
Diff(a, b) == (b - a) % U32
Printed(p, i) == Diff(before[p][i], after[p][i])

-----------------------------------------------------------------------------

Total == LET s[e \in 0 .. 32] == IF e = 0 THEN 0
                                 ELSE s[e - 1] + (IF e - 1 \in Event THEN happened[e - 1] ELSE 0)
         IN  s[32]

\* The hardware: an event happens, and the counters that select it count it.
Happen(e) ==
  /\ on
  /\ Total < MaxEvents
  /\ happened' = [happened EXCEPT ![e] = @ + 1]
  /\ count' = [i \in Ctr |->
                 IF enabled.master /\ i \in enabled.ctrs /\ select[i] = e
                 THEN (count[i] + 1) % U32 ELSE count[i]]
  /\ UNCHANGED <<on, select, enabled, plain, pc, job, args, pending, todo, readings,
                 accessed, disturbed>>

\* From here a process counts on the state of the registers.
Depends(p) ==
  pc[p] \in {"access", "check_select", "select", "check_enable", "enable", "before",
             "start_program", "end_program", "after", "names", "disable"}

\* p's step disturbs the others if it changes the switch or the counters.
Disturb(p) ==
  disturbed' = [q \in Procs |->
                  \/ disturbed[q]
                  \/ q # p /\ Depends(q) /\ <<on, counters>>' # <<on, counters>>]

Step(p) == RegisterStep(p) \/ FirmwareSwitch(p) \/ EndOfFirmware(p) \/ MeasureStep(p)

Terminated == (\A p \in Procs : pc[p] = "done") /\ UNCHANGED vars

Next ==
  \/ \E p \in Procs : Step(p) /\ Disturb(p) /\ UNCHANGED job
  \/ \E e \in Event : Happen(e)
  \/ Terminated

Spec == Init /\ [][Next]_vars

-----------------------------------------------------------------------------
(* Properties                                                              *)

Label == {"start", "argument", "access", "check_select", "select", "check_enable",
          "enable", "before", "start_program", "end_program", "after", "names",
          "disable", "done"}

\* Type invariant of the registers and of the processes that use them: an
\* access is to a register that was named, with a word that fits it.
TypeOK ==
  /\ on \in BOOLEAN
  /\ select \in Selects /\ enabled \in Enables /\ count \in Counts
  /\ plain \in [Plain -> Bits]
  /\ happened \in [Event -> Nat]
  /\ job \in [Procs -> {"register", "-1", "-2", "firmware"}]
  /\ pc \in [Procs -> Label]
  /\ args \in [Procs -> 0 .. MaxArgs]
  /\ todo \in [Procs -> (SUBSET Ctr) \ {{}}]
  /\ before \in [Procs -> Counts] /\ after \in [Procs -> Counts]
  /\ accessed \in [Procs -> SUBSET (Register \X {"R", "W"})]
  /\ disturbed \in [Procs -> BOOLEAN]
  /\ DOMAIN pending = Procs
  /\ \A p \in Procs :
       pc[p] = "access" => /\ pending[p].reg \in Named[p]
                           /\ pending[p].word \in Words(pending[p].reg) \union {Read}

\* Three hand-written tables agree, the help of -r, the accessors of reg.c and
\* the layouts of unions.h: what the tool does with a register is what the help
\* allows, a register that the help calls R keeps its fields, and a bit that
\* unions.h reserves is never set.  The exception is srqul: unions.h:298
\* reserves 20 of its bits, write_SRQUL (reg.c:457) writes the whole word.
HelpHonoured ==
  /\ \A p \in Procs : \A a \in accessed[p] :
       a[1][1] \in HelpRW \union (IF a[2] = "R" THEN HelpR ELSE HelpW)
  /\ \A r \in Plain : r[1] \in HelpR => ~plain[r].field
  /\ \A r \in Plain : plain[r].reserved => r[1] = "srqul"

\* Between CHECK_ENABLED, or its own mbox_enable, and its access a process
\* finds the QPUs on unless another process has interfered.
PoweredAccess ==
  \A p \in Procs : Depends(p) /\ ~disturbed[p] => on

\* A measurement that nobody disturbed is true: each line that reg_perf_print
\* prints gives the number of times that the event it names happened between
\* the two readings, as a u32, or 0 for a counter that is not enabled; also
\* when the 32-bit counter wrapped in between.
ReportTrue ==
  \A p \in Procs :
    pc[p] = "disable" /\ ~disturbed[p] =>
      \A i \in Ctr :
        LET e == names[p][i]
        IN  Printed(p, i) = IF enabled.master /\ i \in enabled.ctrs
                            THEN (to[p][i][e] - from[p][i][e]) % U32 ELSE 0

\* -1 "Monitor Preconfigured Perf Counters" (main.c:76): if nobody interfered,
\* every counter is enabled and counts its preconfigured event, from before the
\* program starts until after it has ended.
MonitorsProgram ==
  \A p \in Procs :
    pc[p] = "disable" /\ job[p] = "-1" /\ ~disturbed[p] =>
      \A i \in Ctr :
        LET e == Preset(i)
        IN  /\ names[p][i] = e /\ enabled.master /\ i \in enabled.ctrs
            /\ from[p][i][e] <= run[p].start[e] /\ run[p].end[e] <= to[p][i][e]
=============================================================================
