# qpu in TLA+

`qpu` is a command line tool for the VideoCore IV GPU of the Raspberry Pi. It
asks the firmware for information, reads and writes GPU registers, and runs GPU
programs: it collects files named on the command line into a table of tasks,
lays them out in GPU memory, links buffer addresses into the instructions,
executes them through the firmware's mailbox and writes the results out.

This directory holds TLA+ models of it, TLC configurations that check them on
small instances, and theorems that TLAPS proves for every instance. Source lines
are those of the repository (`src/gpu.c` and so on in its own naming).

## 1. The system

| Component | Code | State | Operations | What is hard |
|---|---|---|---|---|
| Task table | `main.c:128-304`, `gpu.c:84-101,302-325,665-954` | `G.task[]`, `G.glob`, `G.ntasks`: per slot `active`, `size`, `fd` | `handle_i/u/r/w/x`, `gpu_replicate`, `gpu_cleanup` | failures in the middle of a replication, u32 arithmetic, descriptors that must be closed exactly once |
| GPU memory layout and linking | `gpu.c:222-564` | `G.mem` sizes, slot offsets, control block, instructions in GPU memory | `mem_size`, `init_mem`, `init_file`, `init_buf`, `link_mem` | two computations of one total, alignment, file positions shared by `dup`, files that change under the program |
| Program session | `main.c:462-604`, `gpu.c:108-220,566-663,892-973` | `G.mem.flags`, `refct`, error flags | `main`, `mem_alloc`, `mem_free`, `gpu_exec_via_mbox`, cleanup functions | every call may fail; what was obtained must be given back once and in order; timeouts; kills |
| Mailbox client | `mbox.c` | `G.vcio_fd` | memory alloc/lock/unlock/free, QPU switch, exec, information | the firmware outlives the process and is shared by all processes |
| Physical memory mapping | `mem.c` | descriptors, mappings | `mem_map`, `mem_unmap` | failures that leave something behind |
| Registers | `reg.c`, `unions.h`, `main.c:306-408` | `G.map`, the counters' readings | `reg_read_*`, `reg_write_*`, `reg_init_pctr`, `reg_perf_*`, `reg_debug_*` | registers are shared by all processes; the check that the GPU is on and the access are two steps; 32-bit counters wrap |
| Options, numbers | `main.c:110-147,462-541` | `G.opt` | `parse_options`, `parse_num`, `parse_timeout` | narrowing of i64 to u32 |
| Execution report | `gpu.c:108-150,596-656`, `reg.c:2045-2345`, `types.h:24-40` | debug register readings, clock readings | `dump_all`, `dump_wbufs`, `print_mem`, `reg_debug_*`, `timespecsub`, `print_time` | counts that wrap in a few bits; writes that fail; what is dumped when |
| Firmware command | `main.c:410-460`, `mbox.c:604-875` | none; the QPU switch | `command_firmware`, `mbox_clocks`, `mbox_power`, ... | hand-written pairs of id and name; a request that fails half way |
| Logging, help texts | `log.h`, `reg_print_*` of `reg.c` | none | | nothing the models tell apart |

How they interact. `main` runs `mbox_init`, `reg_init` and `gpu_init`, then one
command, then `gpu_cleanup`, `reg_cleanup` and `mbox_cleanup`, these three also
after any failure. `command_execute` fills the task table; the process then calls
`gpu_exec_via_mbox`, which uses the table (read only), the mailbox for memory,
switch and execution, `/dev/mem` for the mapping, and the registers for
measurements. There are no threads, no callbacks and no signal handlers: all
concurrency is between processes, through the firmware (its memory and its one
QPU switch), the registers, and the files that were named.

What makes each component correct:

* Task table: every counted task has instructions; a slot in use owns exactly one
  open descriptor; its size is that file's; `x` copies exactly; nothing stays open.
* Layout: regions are disjoint, aligned, inside the allocation, loaded whole; the
  two totals agree; after linking every address is that of a region in use and the
  control block names the right uniforms.
* Session: flags and firmware agree; whatever was obtained is given back unless
  the call that gives it back failed; memory is not freed under a running program;
  the exit status tells the truth; the program ends.
* Registers: what the help texts call readable or writable is; a measurement that
  nobody disturbed reports the events that happened.
* Execution report: the dumps are those asked for, complete and of the results; what
  `-d` and `-t` print is true, also when a field or the nanoseconds wrap.
* Firmware command: every device is reported under its own name and heading, once;
  nothing is carried out after a request that failed.

## 2. The modules

| Module | Models | Checked by | Proved in |
|---|---|---|---|
| `Slots` | names of the slots of the table, u32 words | | |
| `TaskTable` | command line handlers, `gpu_replicate`, `gpu_cleanup`'s files | `MC_TaskTable` | `TaskTableProofs`, `ReplicationProofs` |
| `TaskList` | abstract: the list of tasks that the arguments of `execute` spell | as a property of `MC_TaskTable` | `ReplicationProofs`, `ExecutionProofs` |
| `Layout` | `mem_size`, `init_mem`, `link_mem` | `MC_Layout` | `LayoutProofs` |
| `Execution` | `TaskTable` and `Layout` composed | `MC_Execution` | `ExecutionProofs` |
| `Session` | life of several processes: `main`, mailbox, memory, switch, cleanup | `MC_Session` | `SessionProofs` |
| `Lease` | abstract: what `mem_alloc` and `mem_free` promise of GPU memory | as a property of `MC_Session` | `SessionProofs` |
| `Registers` | `qpu register`, the measurements of `-1` and `-2`, the switch | `MC_Registers` | `RegistersProofs` |
| `Monitor` | what an execution prints: dumps, `-d`, `-t` | `MC_Monitor` | `MonitorProofs` |
| `Firmware` | `qpu firmware`: information calls and switch | `MC_Firmware` | `FirmwareProofs` |

`TaskTable`, `TaskList`, `Layout`, `Execution` and `Monitor` extend `Slots`. `Execution` runs
`TaskTable` into `Layout` (both as instances over its own variables), so the tables
that `Layout` starts from are no longer assumed. `Session` abstracts both to calls that
succeed or fail (`Command`, `Layout`), and they abstract `Session` in the same way
(`Execute`, `AllocFails`). `Registers` and `Monitor` take up the part of a process that
`Session` leaves out, between the two calls of the switch; `Firmware` takes up the
command that `Session` knows only as a number of uses of the switch.

Two refinements tie them to what they promise. `Session` implements `Lease` (`LeaseSpec`): `held` is
how many of the stages alloc, lock, map are in `flags`, `phase` is read off `pc` and the
history of failed calls (`LeasePhase`). `TaskTable` implements `TaskList` (`ListSpec`), a list of tasks without slots, sizes of words, descriptors or
loops: its `tasks` are the entries of the counted slots, each slot read through its
descriptor (`Entry`), and a whole `gpu_replicate` is the one step `Repeat`, taken when
`ntasks` is multiplied. `Execution`, whose other steps leave the table alone, implements it
too.

### Conventions

* A definition carries the name of the C function it models where there is one
  (`HandleI` for `handle_i`), and the file `PROJECT.json` maps every definition to
  its lines.
* A definition named `Def_Suffix` is a *mutant* of `Def`: the same code with one
  plausible mistake. No specification uses it. The mutation runs replace `Def`
  by it and expect a property to fail, which shows that the property depends on
  what the code does there.
* History variables (`failed`, `sent`, `switched` in `Session`; `happened`, `from`, `to`,
  `run`, `accessed`, `disturbed` in `Registers`; `seen` in `Monitor`; `sent`, `refused`, `left`
  in `Firmware`) are never read by the guards of the modelled code.

### TaskTable

One argument pair of the command line is one action. `HandleI(f)` is `handle_i`
with everything below it: `gpu_next_task` counts the task, `open_file` checks the
file, the slot takes descriptor and size. The code counts the task *before* it
knows whether the file loads, so the failing variant `HandleIFails` is an action
of its own which leaves the counted task without instructions (and ends the
command). All other refusals change nothing before they return `FAILURE`:
`RejectArgument`. Which files load is `Loadable`: regular, not empty, a multiple
of 8 or 4 bytes.

`gpu_replicate` is a small state machine, because it can stop half way: `rep`
holds its argument, `dst` and the position in the loop body, each step skips or
copies one slot, `DupFileFails` leaves what was copied so far behind. The
assertion of `dup_file`/`dup_buf` is an action too, present when `Debug` holds:
release builds compile it out (`Makefile:29`) and overwrite the slot instead.

Numbers are i64 on the command line and u32 in the table: `Narrow` is the
implicit conversion, `Product` the 32-bit product that is compared with
`MAX_TASKS`. `open` and `dup` return the lowest free descriptor.

### Layout

By itself it starts with any table of one `x`. `Alloc` computes `data_sz` (`MemSize`, a
u32 sum) and `alloc_sz`; then `PlaceFile`/`PlaceBuf` lay the slots out in `init_mem`'s
order, one slot a step, because files are read in between and another process may
shorten them (`Truncate`). `pos` is the position of an open file description; tasks that
`gpu_replicate` made share one with their origin (`description`), which is why
`init_file` must rewind. A task's text is, per 64-bit instruction, which placeholder
`link_mem` recognises in it and the address it wrote; `LinkTask` is one turn of
`link_mem`'s outer loop with its checks.

Abstractions: which bit patterns are the eight placeholder instructions is left out;
addresses are offsets from the page-aligned bus address.

### Execution

`Build` is a step of the command line, and adds to `TaskTable` what a descriptor
shares: `open` makes a new description, `dup` passes on that of its source, through
any number of `x`. `Start` is the entry of `gpu_exec_via_mbox`, which returns at once
without tasks; `LayOut` is a step of `Layout` over the table as it was built; `Finish`
and `Cleanup` are `TaskTable`'s. Files keep their length here.

### Session

Several processes, each a sequence of calls; one action is one call that another
process or the firmware can notice. `pc` names the next call. The firmware is
three variables: `heap` (what each process has allocated and locked), `gpuOn`,
and `running` (programs that timed out and still run). A failing call has no
effect, save `mem_map`, which forgets its descriptor or mapping on two of its
error paths (`leaks`). `gpu_cleanup`, `mem_free` and `mem_alloc`'s own clean-up
on failure are modelled call by call, with `flags` and `refct` as in the code. `Kill`
may end a process anywhere: the kernel takes back descriptors and mappings, the
firmware keeps memory and switch.

### Registers

Several processes, each with one job: `register`, an `execute` with `-1` or `-2`, or
`firmware`. Each access to a register is an action, and so is each
`CHECK_ENABLED`, because another process may turn the QPUs off between the two.
Loops over the sixteen counters are one action per counter: in the order of the
code where that is written down (`SelectCounter`, `WriteAll`), in any order where the
code leaves it to the compiler (`ReadBefore`, `ReadAfter`: the initialisers of
`read_PCTR`).

The words of the counter registers have their meaning; of every other word two
bits are told apart, one that `unions.h` names and one that it reserves, which is
what a mask can get wrong. Three parts of the code are read independently: the help text
(`HelpR`, `HelpW`, `HelpRW`), the accessors (`NoRead`, `NoWrite`, and `Unmasked`, those that
write a word as it is) and the layouts of `unions.h` (`Reserving`, those with reserved bits;
a word for any other register has none). `HelpHonoured` compares them by what the
accesses do: an accessor that lets a bit through which `unions.h` reserves sets it in the
register. The one that does, `srqul`, is its named exception.

The hardware is external and modelled by what the code relies on: an enabled
counter counts the event it selects (`Happen`), accesses without power are lost
(`WriteCounters`) or give anything (`Reading`), and turning the QPUs on keeps or
clears the registers (`Switch`).

### Monitor

`gpu_exec_via_mbox` from the end of `link_mem` on, as a list of labels (`Following`)
through which the options choose a way: the dump before, enabling, `-d`'s first readings,
the clock, exec, the clock, `-d`'s second readings, the dump after, the write buffers, the
lines of `-d`, the time, disabling. The content of memory is the set of tasks whose
program has ended, which is what tells a result from a half of one. `print_mem` may
write less than asked or fail, and the process goes on, as the code does. Each of the
debug registers is read at one moment, two of them are not; their fields count
events (`World`) and wrap at their own width. `Diff` and what is printed follow
`diff_` and `print_` of each register: a field that did not change is left out.
`timespecsub` is modelled with its borrow. Levels among the fields, such as the length
of the queue, are not told from counters.

### Firmware

The requests of each command and the lines of their answers, in the order of the
code: which id is sent with which name for clocks, power domains and voltages; the
`-v` headings; enabling and disabling with their announcements. An answer is
abstracted to the tag and the id it is about. A refused request for the switch may
have had its effect; other processes use the switch meanwhile, and `left` remembers what
the last of them left and at which argument. `SwitchFollows` can so say at every moment
whose switch it is: that of the last `enable` or `disable` carried out since, or the other
process's, also when a list or an information request has failed.

## 3. Runs

| Run | Instance | Shows |
|---|---|---|
| `task_table` | 4 tasks, words of 6 bits, 3 files, 6 descriptors, assertions on | counted tasks have instructions, sizes are true, no assertion fails, exact replication, nothing left open, termination, and `TaskList` is refined, for command lines whose products fit a u32 |
| `task_table_wrap` | words of 4 bits, multipliers 6 and 18, assertions on | active slots own the descriptors also when products wrap, because the assertion of `dup_file` stops the program first |
| `replication_wrap` | the same, assertions off | *violation*: `x` with a large multiplier replicates something else |
| `layout` | 2 tasks, 7-bit words, every combination of slots and files, one `x`, one truncation, write buffers of 0, 3 and `2^w - 8` bytes, assertions on | all layout properties, also for totals that wrap: what fits is never refused, what wraps never overlaps unless it wraps to less than the control block |
| `size_wrap` | write buffers of `2^w - 8` bytes only | *violation*: `mem_size` wraps and the assertion of `init_file` fails |
| `execution` | 4 tasks, 8-bit words, `x 2` any number of times | every table that a command line builds is one the layout relies on, and what is made of it is sound |
| `session` | 1 process, 2 arguments | every run of the program ends, and its memory is given back first |
| `session_pair` | 2 processes, 1 argument each | all safety properties of sessions, with interference, failures and kills at every step; `Lease` is refined |
| `timeout_option` | 1 process with `-g` | *violation*: the option has no effect |
| `monitor` | 2 tasks, three fields of 1 and 2 bits in two registers, 1 other program, a clock of 6 moments | dumps, complaints about them, `-d` and `-t` are true |
| `firmware` | command lines of up to 3 commands, one intervention by others | complete report under the right headings, the switch and its announcements, also after a failure half-way, stop at the first failure |
| `registers` | 2 processes: one that names any register beside one at the switch, or one that measures beside one that measures, writes counter registers or switches; 2 counters, 3 events, 1 occurrence, 2-bit counters at their last value | help text, accessors and the layouts of `unions.h` agree, but for `srqul`; accesses are powered and measurements true and complete unless somebody interfered |

Bounds and why they suffice. Four tasks allow two replications in a row (1 to 2
to 4), a replication of several tasks, and the limit; six descriptors run out in
the middle of a replication; three files tell all of `open_file`'s checks apart.
Words of 4 and 6 bits keep the relation that matters: `U32 > MaxTasks`, with
products that do or do not exceed it. Two tasks in `Layout` show sharing of
descriptions, a global slot next to task slots, and every order of two regions;
a 3-byte write buffer disturbs any alignment that does not place buffers last, one of
0 bytes is what an argument of 2^32 narrows to, and with `2^w - 8` the total wraps to a
little more than the control block, or, with two, to less.
Two processes show every pairwise interference in `Session`; a third adds
nothing, since all interaction goes through one switch and one set of running
programs. In `registers` two counters show that each is compared with its own
selection, and the one occurrence of an event may fall before, between or after the
readings, with a counter that wraps; the second process names only the counter
registers, since no other register is shared between the jobs. In `monitor` a 1-bit
field wraps with every second event, and the two clock readings may lie on either side
of a second. Three commands let one fail before, between and after others. The
properties that are proved below hold for every value of these bounds.

The named bounds are `MaxTruncations` (`Layout`), `MaxArgs` (`Session`, `Registers`,
`Firmware`: arguments of a command line), `MaxEvents` (`Registers`: occurrences of
events), `MaxOthers`, `MaxFlips`, `MaxClock` (`Monitor`) and `MaxOthers` (`Firmware`).

Fairness. `TaskTable`: `WF_vars(Next)`, one thread, finite command line (the action
`EndOfArguments` is always enabled while arguments are read, but nothing forces
it: termination rests on the slots and the counted tasks filling up), system
calls on regular files that return. `Session`: `WF` for each process's steps: the
scheduler runs it and each call returns, an exec at the latest when the firmware's
timeout has passed. Nothing is assumed of other processes, and no call is assumed
to succeed. `Firmware` states `WF` of the program's steps; no property rests
on it.

Deadlock is checked everywhere; `Terminated` is the explicit end.

## 4. Findings

* `replication_wrap` (`gpu.c:673`): `x 4294967298` behaves like `x 2`, and after three
  tasks `x 1431655766` is accepted and leaves two tasks. After such a product the next
  `x` finds its destination in use (`gpu.c:304`): a debug build aborts, a release build
  loses a descriptor.
* `size_wrap` (`gpu.c:331`): a write buffer near 4 GiB makes `mem_size` wrap to a small
  number.
* `timeout_option` (`gpu.c:568`): `-g` stores a value that nothing reads.

Not a run of its own, but an exception that `HelpHonoured` has to make: `unions.h:298`
reserves 20 bits of SRQUL, and `write_SRQUL` (`reg.c:457`) writes the whole word that the
command line gives. Every other register with reserved bits is written field by field.

Four properties except what another process does to the switch or the registers between
two steps, because the code does not prevent it: `OwnWindow`, `PoweredAccess`, `ReportTrue`
and `MonitorsProgram`; `SwitchedOff` excepts later uses of the switch by others. They show
that nothing else can go wrong, not that this cannot. `AssertedDisjoint` excepts totals
that wrap to less than the control block, where the assertion of `gpu.c:331` passes too.

## 5. Proofs

All theorems hold for every value of the constants that the named assumptions of the
modules allow; `NoWrap` is the only further hypothesis, where it is stated.

`TaskTableProofs`, for every `MaxTasks`, every word width, every set of files,
numbers and descriptors:

* `TypeCorrect`. The difficulty is that `ntasks` is assigned a product that may have
  wrapped: it stays within the table only because `gpu_replicate` compares that same
  wrapped product.
* `InstructionsPresent`, with wrapping products as well; `SizesAgree`, also when
  assertions are off and slots are overwritten.
* `NoDescriptorLost`: with assertions, `DescriptorsOwned` and `CleanExit`. Without them
  the claim is false after a wrapped product.

The inductive invariant is `IInv`: `TypeOK`; `LoopInv`, that while `gpu_replicate`
runs, `dst` lies between `ntasks` and the product or is the product, and both are
within the table; `InstInv`, that every task below `dst` which has passed the `inst`
step has instructions (without it the copy loop could count a task whose
source had none); and `TableInv`, that file slots in use refer to open
descriptors of files with the recorded size, with ownership one to one under
`Debug`.

`ReplicationProofs` extends it under `NoWrap`: no multiplier on the command line times
`MaxTasks` reaches `U32`; on the real machine, none reaches 2^32 / 12. The hypothesis is
needed: without it the claims are false, which is the first finding. Then
`NeverAborts` (`NoAbort`), `Replication` (`ReplicationExact`) and `Fresh`
(`FreshBeyond`: the next destination is empty). `ExactInv` says which slots the loop has
passed, that those beyond it are empty, and that each one passed holds what its source
holds. Two more results rest on it:

* `ListRefinement`: `Spec => ListSpec`. A step of a handler is the step of the list that its
  argument asks for, or a failure (`HandlerLists`). The copies of an unfinished
  `gpu_replicate` are beyond `ntasks`, hence no part of the list (`CopiesUnseen`), and
  when it ends they are what `Repeat` makes of the list (`Repeats`). A handler changes the
  slots of one owner only (`KeepEntry`, `KeepList`), because no two slots share a
  descriptor.
* `Released`: descriptors are owned one to one and none is open at exit, also in a build
  without assertions, whose copy loop would overwrite a slot in use: under `NoWrap` the
  loop meets none (`StoreOwned`).

`LayoutProofs`: `TypeCorrect`, `SizesMatch`, `Aligned`, `Loaded`, `KeptApart`,
`LinkedSoundly`, `ControlledSoundly`, for every table. The invariant says in which order slots are placed, what that makes of
the alignment of `used` (also when it wraps: `WrapAligned`), that under the assertions
everything placed lies between control block and `used`, and which tasks are linked.

`SizesMatch` is about the two computations of one total: `mem_size` adds the sizes up in
its order, `init_mem` in another while it places the slots. Its invariant is that `used`
is the sum over the slots placed, modulo the word. It rests on lemmas about
`SumFunctionOnSet`: what one element more adds to the sum of a finite set. The sum is a
fold, that is a recursive function over sets, and the lemmas are proved by induction over
the subsets of a finite set. The induction theorems of the library take an operator as
parameter, which the provers cannot instantiate; `SubsetInduction` takes the set of those
for which the claim holds, and follows from the well-foundedness of the order of subsets.

`ExecutionProofs` composes the two:

* `Sound`: `Spec => []ProgramSound`. While the table is built the memory is untouched;
  when `Start` hands it over, `TaskTable`'s invariant gives what the invariant of `Layout`
  needs (`HandedOver`, `LayoutStarts`), and from then on each step is one of `Layout`'s. No
  hypothesis on the multipliers: even a table of wrapped products is laid out soundly.
* `ListExecuted`: under `NoWrap`, `Execution` implements `TaskList`: its steps are those of
  `TaskTable` or leave the table alone (`TableStep`), so `ListRefinement` carries over.
* `Legal`: under `NoWrap`, `Spec => []HandsOverLegal`. `SharedInv` follows a description
  through every `dup`: it belongs to a slot still in use, of the same kind and file.

The steps of the instances in `Execution` are those of the instances that the proof
modules were written about; `SameHandler`, `SameReplicate` and `SameProgram` say so.

`SessionProofs`, for any number of processes: `Truthful`, `Ready`, `CleanOnSuccess`,
`MemoryGivenBack`, `LeftOff`, `FreedWhenIdle`, `Window`, and `Refinement`, that `Session`
implements `Lease`. `Consistent(p)` says what the next call of `p` implies about what `p`
holds, has failed to give back and has running. Every action is looked at twice: what
it does to its own process, and that it touches others only through the switch and the
running programs (`OthersUntouched`).

`RegistersProofs`, for every number of processes, any set of jobs, counters, events and
registers, every counter width and any number of events:

* `HelpKept`, from `AccessorsHonourHelp`, which compares the help text with the accessors,
  and `AccessorsMask`, which compares the accessors with the layouts: what is stored in a
  register that `unions.h` gives reserved bits has none of them set, but for `srqul`.
* `Powered`, inductive with `TypeOK`. A process that starts to depend on the registers
  has just seen or made them powered (`OwnPower`); another process's step either leaves
  them alone or marks it disturbed (`DisturbStep`).
* `Monitored`. The strengthening `MonitorInv` says at which step of the measurement the
  counters are selected and enabled, and that the readings and the run of the program
  are in the order of time.
* `Reported`. The strengthening `ReportInv` says that an enabled counter is ahead of its
  first reading by what its event has happened since, modulo its width, and keeps
  being so when it wraps (`WrapStep`); `DiffTrue` is the arithmetic of `diff_PCTR`. So
  the small counters and the single event of the run `registers` lose nothing.

`MonitorProofs`, for any number of tasks, registers, fields of any width, any clock and
any number of other programs: `Output`, `Results`, `DebugReport`, `Accounts`, `TimeReport`,
each from an invariant of its own over `Typed`. `Output` has two: `Written`, which dumps
have been made, and `Complained`, that each one cut short has been reported.

`FirmwareProofs`, for command lines of any length: `Switching`, `Sections`,
`FirstFailureEnds`, `Complete`. The invariant counts the messages of a place in the command
line, and says that the output ends with the section of the command in hand. `Switching`
needs two more parts: `Follows`, whose the switch is, and `ToldLast`, which word the last
announcement belongs to (`AnnouncedKept`, `AnnouncedMore`). `Complete`
(`ReportComplete`) compares whole sequences: the lines about devices with the devices that
the arguments ask for, one by one. `ReportInv` states this for the arguments passed and the
requests answered so far (`AskedNow`). `ListAsked` says that the requests of a list are
those of its devices in the order of their ids (and so that the twenty-seven pairs of id
and name in `mbox.c` are right), `ReportsMore` that one more line about a device
corresponds to one more device, and `FlattenMore`, by the same kind of induction over
lengths (`NumbersAll`), that one more argument appends its devices.

Each component's type invariant is proved (`TypeCorrect`), and is therefore not
repeated in the runs.

Only model-checked are `Terminates` (twice) and `LeaseReturned`: liveness is out of reach
of TLAPS here. Every invariant and every action property that a run finds to hold is
also a theorem.

## 6. Not modelled

Register printing, the tables of the help texts' wording, and logging (no state;
which registers the help calls R or W is modelled); `getopt` and `strtoll`, so how an
option or a number is spelt; `build`, `compl` and the example programs; in `reg.c` five
functions without a caller (`reg_enable_irqs`, `reg_enable_counters`,
`reg_select_counters`, `reg_reserve_vpm`, `reg_reserve_qpus`). What the GPU computes, and
whether a word is an instruction that it can run, is outside the program.

These are also the parts of the repository that make up most of its remaining lines:
`unions.h` and most of `reg.c` are one structure, one accessor and one printer per
register, of which the models keep what tells registers apart.
