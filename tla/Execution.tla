------------------------------ MODULE Execution ------------------------------
(***************************************************************************)
(* `qpu execute` from its command line to the program in GPU memory:       *)
(* TaskTable, whose table Layout lays out, loads and links when the        *)
(* arguments end, and closes afterwards.                                   *)
(*                                                                         *)
(* Layout by itself starts from tables that at most one x has extended.    *)
(* Here it starts from every table that a command line can build, x after  *)
(* x: what a copied descriptor shares with its origin, the position in the *)
(* file, is followed through the whole line by `description`.  Files keep  *)
(* their length here; Layout lets another process shorten them.            *)
(***************************************************************************)
EXTENDS Slots

CONSTANTS
  Files, FileSize, Regular,    \* the files, as in TaskTable
  Numbers,                     \* the numbers on the command line
  Fds, Closed,                 \* the descriptors
  Code, Stale, Null,           \* what memory holds, as in Layout
  PageSize,                    \* G.page_sz
  Debug                        \* TRUE in the builds with assertions

VARIABLES
  pc, error, ntasks, active, size, fd, open, rep,   \* of TaskTable
  stage,         \* where gpu_exec_via_mbox is, the pc of Layout
  description,   \* the slot whose open_file created a slot's description
  length, pos, data, alloc, used, placed, offset, count, text, control, linked,
  linkError      \* of Layout

Table == INSTANCE TaskTable

\* The file that each active file slot refers to.
FileOf == [s \in Table!ActiveFiles |-> open[fd[s]]]

Memory == INSTANCE Layout WITH
  pc <- stage, file <- FileOf,
  Named <- [k \in FileKind |-> Files], BufSizes <- Word, MaxTruncations <- 0

\* TaskTable and Layout assume of their constants what they need.
ASSUME TableAssumption ==
  Table!FilesAssumption /\ Table!NumbersAssumption /\ Table!FdsAssumption /\ Table!DebugAssumption
ASSUME MemoryAssumption ==
  /\ Memory!PageSizeAssumption /\ Memory!U32LayoutAssumption
  /\ Memory!NullAssumption /\ Memory!CodeAssumption

table  == <<pc, error, ntasks, active, size, fd, open, rep>>
layout == <<stage, length, pos, data, alloc, used, placed, offset, count, text,
            control, linked, linkError>>
vars   == <<table, description, layout>>

Init ==
  /\ Table!Init
  /\ stage = "idle"
  /\ description = [s \in FileSlot |-> s]
  /\ length = FileSize
  /\ pos = [s \in FileSlot |-> 0]
  /\ data = 0 /\ alloc = 0 /\ used = 0
  /\ placed = {}
  /\ offset = [s \in Slot |-> 0]
  /\ count = [s \in FileSlot |-> 0]
  /\ text = [i \in Task |-> <<>>]
  /\ control = [i \in Task |-> [unif |-> Null, inst |-> Null]]
  /\ linked = 0
  /\ linkError = FALSE

\* The command line.  open makes a new description; dup shares that of the
\* slot it copies.
Build ==
  /\ \/ Table!Handler /\ UNCHANGED description
     \/ /\ Table!DupFile
        /\ description' = [description EXCEPT ![Table!Dst] = description[Table!Src]]
     \/ /\ \/ Table!SkipInactive \/ Table!DupAssert \/ Table!DupFileFails
           \/ Table!DupBuf \/ Table!Replicated
        /\ UNCHANGED description
  /\ UNCHANGED layout

\* gpu_exec_via_mbox does nothing without tasks.
Start ==
  /\ pc = "execute"
  /\ ntasks > 0
  /\ stage = "idle"
  /\ stage' = "size"
  /\ UNCHANGED <<table, description, length, pos, data, alloc, used, placed,
                 offset, count, text, control, linked, linkError>>

LayOut ==
  /\ UNCHANGED <<table, description>>
  /\ Memory!Program

\* A layout that failed ends in an error; one that is ready is executed, which
\* may fail as well (see Session).
Finish ==
  /\ pc = "execute"
  /\ ntasks = 0 \/ stage \in {"ready", "failed"}
  /\ Table!Execute
  /\ stage = "failed" => error'
  /\ UNCHANGED <<description, layout>>

Cleanup == Table!Cleanup /\ UNCHANGED <<description, layout>>

Terminated == (pc \in {"exit", "abort"} \/ stage = "abort") /\ UNCHANGED vars

Next == Build \/ Start \/ LayOut \/ Finish \/ Cleanup \/ Terminated

Spec == Init /\ [][Next]_vars

-----------------------------------------------------------------------------
(* Properties                                                              *)

\* Every table that a command line builds is one that the layout relies on,
\* also after several x with other arguments between them.
HandsOverLegal == stage = "size" => Memory!LegalTable

\* What Layout promises of the memory holds for every table a command line
\* builds, until gpu_cleanup closes the files: regions, contents, links and
\* control block.
ProgramSound ==
  pc = "execute" =>
    /\ Memory!AssertedDisjoint /\ Memory!RegionsAligned /\ Memory!LoadedWhole
    /\ Memory!LinkSound /\ Memory!ControlSound
=============================================================================
