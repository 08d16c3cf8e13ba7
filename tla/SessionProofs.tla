---------------------------- MODULE SessionProofs ----------------------------
(***************************************************************************)
(* Proofs of the safety properties of Session, for any number of processes *)
(* and any options, and of its refinement of Lease.                        *)
(*                                                                         *)
(* The inductive invariant says, for each process, what its next call      *)
(* implies about what it holds.  A step of p can disturb another process   *)
(* only through the switch and through the programs that still run, so     *)
(* every action is looked at twice: what it does to p (OwnStep), and that  *)
(* it interferes with the others only in the ways of Interferes            *)
(* (OthersUntouched).                                                      *)
(***************************************************************************)
EXTENDS Session, TLAPS

-----------------------------------------------------------------------------
(* The inductive invariant                                                 *)

Stages == {"alloc", "lock", "map"}

\* Calls before there is memory, those of a program with its memory complete,
\* and those after mem_free.
Early   == {"options", "mbox_init", "reg_init", "gpu_init", "command", "firmware",
            "register", "access", "mem_alloc"}
Holding == {"layout", "enable", "before", "exec", "after", "disable"}
Late    == {"reg_cleanup", "mbox_cleanup", "exit"}

GivesMemory == {"unmap", "unlock", "free"}

\* What the next call implies about the stages that the process holds.
MemoryAt(p) ==
  /\ pc[p] \in Early => flags[p] = {} /\ refct[p] = 0
  /\ pc[p] = "lock" => flags[p] = {"alloc"} /\ refct[p] = 1
  /\ pc[p] = "map" => flags[p] = {"alloc", "lock"} /\ refct[p] = 1
  /\ pc[p] \in Holding => flags[p] = Stages /\ refct[p] = 1
  /\ pc[p] = "gpu_cleanup" => \/ flags[p] = {} /\ refct[p] = 0
                              \/ flags[p] = Stages /\ refct[p] = 1
  /\ pc[p] = "unmap" => "alloc" \in flags[p]
  /\ pc[p] = "unlock" => "alloc" \in flags[p] /\ "map" \notin flags[p]
  /\ pc[p] = "free" => flags[p] = {"alloc"}
  /\ pc[p] \in GivesMemory \union Late => refct[p] = 0

\* Which calls may have failed to give something back by then.
FailedAt(p) ==
  /\ pc[p] \in Early \union Holding \union {"lock", "map"} => failed[p] = {}
  /\ pc[p] \notin Late \union {"killed"} => failed[p] \intersect GivesMemory = {}
  /\ pc[p] \in Late /\ flags[p] # {} => failed[p] \intersect GivesMemory # {}
  /\ failed[p] # {} => error[p]

\* Which devices are open, and that whatever is left behind is reported.
DevicesAt(p) ==
  /\ pc[p] \in {"options", "mbox_init"} => vcio[p] = None
  /\ pc[p] \notin {"options", "mbox_init", "gpu_cleanup", "killed"} \union Late =>
       vcio[p] # None
  /\ refct[p] > 0 /\ pc[p] # "killed" => vcio[p] # None
  /\ pc[p] \in {"options", "mbox_init", "reg_init", "mbox_cleanup", "exit"} => ~regs[p]
  /\ pc[p] \in (Early \ {"options", "mbox_init", "reg_init"}) \union Holding
       \union {"lock", "map"} => regs[p]
  /\ pc[p] = "exit" => vcio[p] \in {None, 0} \/ error[p]
  /\ leaks[p] # {} => error[p]

\* The switch and the program that still runs.
ProgramAt(p) ==
  /\ pc[p] \in (Early \union Holding \union {"lock", "map"}) \ {"after", "disable"} =>
       sent[p] = None
  /\ sent[p] = None => p \notin running
  /\ p \in running => error[p]
  /\ p \in running /\ "disable" \notin failed[p] =>
       flags[p] = Stages /\ pc[p] \in {"after", "disable", "killed"}
  /\ pc[p] \in Holding \ {"layout", "enable"} /\ switched = p => gpuOn
  /\ sent[p] # None /\ pc[p] \notin {"after", "disable", "killed"} /\ switched = p =>
       ~gpuOn \/ "disable" \in failed[p]

Nested(p) ==
  /\ heap[p] = flags[p] \ {"map"}
  /\ "map" \in flags[p] => "lock" \in flags[p]
  /\ "lock" \in flags[p] => "alloc" \in flags[p]

Consistent(p) ==
  Nested(p) /\ MemoryAt(p) /\ FailedAt(p) /\ DevicesAt(p) /\ ProgramAt(p)

IInv == TypeOK /\ \A p \in Procs : Consistent(p)

-----------------------------------------------------------------------------
(* Types                                                                   *)

\* Every call returns with success or with failure, and goes on somewhere.
Continues(p) == \E label \in Labels : Succeed(p, label) \/ Fail(p, label)

\* Each call of a process continues (Kill is not a call).
LEMMA CallsContinue ==
  ASSUME NEW p \in Procs, Step(p)
  PROVE  Continues(p)
<1> USE DEF Continues, Labels
<1>1. CASE Options(p)
  BY <1>1 DEF Options
<1>2. CASE MboxInit(p)
  BY <1>2 DEF MboxInit
<1>3. CASE RegInit(p)
  BY <1>3 DEF RegInit
<1>4. CASE GpuInit(p)
  BY <1>4 DEF GpuInit
<1>5. CASE Command(p)
  BY <1>5 DEF Command
<1>6. CASE EndOfArguments(p)
  BY <1>6 DEF EndOfArguments
<1>7. CASE FirmwareSwitch(p)
  BY <1>7 DEF FirmwareSwitch
<1>8. CASE RegisterCheck(p)
  BY <1>8 DEF RegisterCheck
<1>9. CASE RegisterAccess(p)
  BY <1>9 DEF RegisterAccess
<1>10. CASE MboxAlloc(p)
  BY <1>10 DEF MboxAlloc
<1>11. CASE MboxLock(p)
  BY <1>11 DEF MboxLock, Undo
<1>12. CASE MemMap(p)
  BY <1>12 DEF MemMap, Undo
<1>13. CASE Layout(p)
  BY <1>13 DEF Layout
<1>14. CASE MboxEnable(p)
  BY <1>14 DEF MboxEnable
<1>15. CASE MeasureBefore(p)
  BY <1>15 DEF MeasureBefore
<1>16. CASE MboxExec(p)
  BY <1>16 DEF MboxExec, AfterExec, AfterFailedExec
<1>17. CASE MeasureAfter(p)
  BY <1>17 DEF MeasureAfter
<1>18. CASE MboxDisable(p)
  BY <1>18 DEF MboxDisable
<1>19. CASE GpuCleanup(p)
  BY <1>19 DEF GpuCleanup
<1>20. CASE MemUnmap(p)
  BY <1>20 DEF MemUnmap
<1>21. CASE MboxUnlock(p)
  BY <1>21 DEF MboxUnlock
<1>22. CASE MboxFree(p)
  BY <1>22 DEF MboxFree
<1>23. CASE RegCleanup(p)
  BY <1>23 DEF RegCleanup
<1>24. CASE MboxCleanup(p)
  BY <1>24 DEF MboxCleanup
<1>25. QED
  BY <1>1, <1>2, <1>3, <1>4, <1>5, <1>6, <1>7, <1>8, <1>9, <1>10, <1>11, <1>12, <1>13,
     <1>14, <1>15, <1>16, <1>17, <1>18, <1>19, <1>20, <1>21, <1>22, <1>23, <1>24 DEF
     Step

\* Going on to a label moves this process only.
LEMMA GoesOn ==
  ASSUME TypeOK, NEW p \in Procs, NEW label \in Labels,
         pc' = [pc EXCEPT ![p] = label]
  PROVE  /\ pc' \in [Procs -> Labels]
         /\ pc'[p] = label
         /\ \A q \in Procs \ {p} : pc'[q] = pc[q]
BY DEF TypeOK

\* A call that succeeds leaves the exit status and the record of failures alone.
LEMMA Success ==
  ASSUME TypeOK, NEW p \in Procs, NEW label \in Labels, Succeed(p, label)
  PROVE  /\ pc' \in [Procs -> Labels]
         /\ pc'[p] = label
         /\ \A q \in Procs \ {p} : pc'[q] = pc[q]
         /\ error' = error
         /\ failed' = failed
BY GoesOn DEF TypeOK, Succeed

\* A call that fails is reported, and recorded if it should have given back.
LEMMA Failure ==
  ASSUME TypeOK, NEW p \in Procs, NEW label \in Labels, Fail(p, label)
  PROVE  /\ pc' \in [Procs -> Labels]
         /\ pc'[p] = label
         /\ error' \in [Procs -> BOOLEAN]
         /\ error'[p]
         /\ failed' \in [Procs -> SUBSET Returning]
         /\ failed'[p] = failed[p] \union ({pc[p]} \intersect Returning)
         /\ \A q \in Procs \ {p} :
              pc'[q] = pc[q] /\ error'[q] = error[q] /\ failed'[q] = failed[q]
<1>1. /\ pc' = [pc EXCEPT ![p] = label]
      /\ error' = [error EXCEPT ![p] = TRUE]
      /\ failed' = [failed EXCEPT ![p] = failed[p] \union ({pc[p]} \intersect Returning)]
  BY DEF Fail
<1>2. failed[p] \union ({pc[p]} \intersect Returning) \in SUBSET Returning
  BY DEF TypeOK
<1>3. error \in [Procs -> BOOLEAN] /\ failed \in [Procs -> SUBSET Returning]
  BY DEF TypeOK
<1>4. QED
  BY <1>1, <1>2, <1>3, GoesOn

\* Whatever a call returns, the control state keeps its type and the other
\* processes theirs.
LEMMA Returns ==
  ASSUME TypeOK, NEW p \in Procs, Continues(p)
  PROVE  /\ pc' \in [Procs -> Labels]
         /\ error' \in [Procs -> BOOLEAN]
         /\ failed' \in [Procs -> SUBSET Returning]
         /\ \A q \in Procs \ {p} :
              pc'[q] = pc[q] /\ error'[q] = error[q] /\ failed'[q] = failed[q]
BY Success, Failure DEF Continues, TypeOK

\* An argument is taken from those that are left.
LEMMA NextArgumentStep ==
  ASSUME TypeOK, NEW p \in Procs, NextArgument(p)
  PROVE  args' \in [Procs -> 0 .. MaxArgs]
<1>1. args[p] \in 0 .. MaxArgs /\ args[p] > 0
  BY DEF TypeOK, NextArgument
<1>2. args[p] - 1 \in 0 .. MaxArgs
  BY <1>1, MaxArgsAssumption
<1>3. args \in [Procs -> 0 .. MaxArgs] /\ args' = [args EXCEPT ![p] = args[p] - 1]
  BY DEF TypeOK, NextArgument
<1>4. QED
  BY <1>2, <1>3

\* What a failing mem_map leaves behind is this process's own.
LEMMA LeakStep ==
  ASSUME TypeOK, NEW p \in Procs, Leak(p)
  PROVE  /\ leaks' \in [Procs -> SUBSET {"descriptor", "mapping"}]
         /\ \A q \in Procs \ {p} : leaks'[q] = leaks[q]
<1>1. PICK left \in {{}, {"descriptor"}, {"mapping"}} :
        leaks' = [leaks EXCEPT ![p] = leaks[p] \union left]
  BY DEF Leak
<1>2. leaks[p] \union left \in SUBSET {"descriptor", "mapping"}
  BY DEF TypeOK
<1>3. leaks \in [Procs -> SUBSET {"descriptor", "mapping"}]
  BY DEF TypeOK
<1>4. QED
  BY <1>1, <1>2, <1>3

\* Every step of a process keeps the types.
LEMMA TypeStep ==
  ASSUME TypeOK, NEW p \in Procs, Step(p) \/ Kill(p)
  PROVE  TypeOK'
<1>1. CASE Kill(p)
  <2>1. "killed" \in Labels
    BY DEF Labels
  <2>2. QED
    BY <1>1, <2>1, GoesOn DEF Kill, TypeOK, memory, firmware
<1>2. CASE Step(p)
  <2>1. /\ pc' \in [Procs -> Labels]
        /\ error' \in [Procs -> BOOLEAN]
        /\ failed' \in [Procs -> SUBSET Returning]
    BY <1>2, CallsContinue, Returns
  <2> USE DEF TypeOK, memory, devices, firmware
  <2>2. CASE Options(p)
    BY <2>1, <2>2 DEF Options
  <2>3. CASE MboxInit(p)
    BY <2>1, <2>3, NoneAssumption DEF MboxInit
  <2>4. CASE RegInit(p)
    BY <2>1, <2>4, LeakStep DEF RegInit
  <2>5. CASE GpuInit(p)
    BY <2>1, <2>5 DEF GpuInit
  <2>6. CASE Command(p)
    BY <2>1, <2>6 DEF Command
  <2>7. CASE EndOfArguments(p)
    BY <2>1, <2>7 DEF EndOfArguments
  <2>8. CASE FirmwareSwitch(p)
    BY <2>1, <2>8, NextArgumentStep DEF FirmwareSwitch, Switch, firmware
  <2>9. CASE RegisterCheck(p)
    BY <2>1, <2>9, NextArgumentStep DEF RegisterCheck
  <2>10. CASE RegisterAccess(p)
    BY <2>1, <2>10 DEF RegisterAccess
  <2>11. CASE MboxAlloc(p)
    BY <2>1, <2>11 DEF MboxAlloc
  <2>12. CASE MboxLock(p)
    BY <2>1, <2>12 DEF MboxLock, Undo
  <2>13. CASE MemMap(p)
    BY <2>1, <2>13, LeakStep DEF MemMap, Undo
  <2>14. CASE Layout(p)
    BY <2>1, <2>14 DEF Layout
  <2>15. CASE MboxEnable(p)
    BY <2>1, <2>15 DEF MboxEnable, Switch, firmware
  <2>16. CASE MeasureBefore(p)
    BY <2>1, <2>16 DEF MeasureBefore
  <2>17. CASE MboxExec(p)
    BY <2>1, <2>17, NoneAssumption DEF MboxExec, Timeout, DefaultTimeout
  <2>18. CASE MeasureAfter(p)
    BY <2>1, <2>18 DEF MeasureAfter
  <2>19. CASE MboxDisable(p)
    BY <2>1, <2>19 DEF MboxDisable, Switch, firmware
  <2>20. CASE GpuCleanup(p)
    BY <2>1, <2>20 DEF GpuCleanup
  <2>21. CASE MemUnmap(p)
    BY <2>1, <2>21 DEF MemUnmap
  <2>22. CASE MboxUnlock(p)
    BY <2>1, <2>22 DEF MboxUnlock
  <2>23. CASE MboxFree(p)
    BY <2>1, <2>23 DEF MboxFree
  <2>24. CASE RegCleanup(p)
    BY <2>1, <2>24 DEF RegCleanup
  <2>25. CASE MboxCleanup(p)
    BY <2>1, <2>25, NoneAssumption DEF MboxCleanup
  <2>26. QED
    BY <1>2, <2>2, <2>3, <2>4, <2>5, <2>6, <2>7, <2>8, <2>9, <2>10, <2>11, <2>12,
       <2>13, <2>14, <2>15, <2>16, <2>17, <2>18, <2>19, <2>20, <2>21, <2>22, <2>23,
       <2>24, <2>25 DEF Step
<1>3. QED
  BY <1>1, <1>2

-----------------------------------------------------------------------------
(* What a step may do to the other processes                               *)

\* Only the switch and the programs that still run are shared: q loses its
\* right to the switch when somebody else uses it, and its program may be
\* stopped by it.
Interferes(p, q) ==
  /\ pc'[q] = pc[q] /\ error'[q] = error[q] /\ failed'[q] = failed[q]
  /\ vcio'[q] = vcio[q] /\ regs'[q] = regs[q] /\ leaks'[q] = leaks[q]
  /\ flags'[q] = flags[q] /\ refct'[q] = refct[q] /\ heap'[q] = heap[q]
  /\ sent'[q] = sent[q]
  /\ q \in running' => q \in running
  /\ switched' = q => switched = q /\ gpuOn' = gpuOn

\* Every step of p leaves q alone but for that.
LEMMA OthersUntouched ==
  ASSUME TypeOK, NEW p \in Procs, NEW q \in Procs \ {p}, Step(p) \/ Kill(p)
  PROVE  Interferes(p, q)
<1>1. CASE Kill(p)
  <2>1. "killed" \in Labels
    BY DEF Labels
  <2>2. QED
    BY <1>1, <2>1, GoesOn DEF Kill, TypeOK, Interferes, memory, firmware
<1>2. CASE Step(p)
  <2>1. pc'[q] = pc[q] /\ error'[q] = error[q] /\ failed'[q] = failed[q]
    BY <1>2, CallsContinue, Returns
  <2> USE DEF TypeOK, Interferes, memory, devices, firmware
  <2>2. CASE Options(p)
    BY <2>1, <2>2 DEF Options
  <2>3. CASE MboxInit(p)
    BY <2>1, <2>3, NoneAssumption DEF MboxInit
  <2>4. CASE RegInit(p)
    BY <2>1, <2>4, LeakStep DEF RegInit
  <2>5. CASE GpuInit(p)
    BY <2>1, <2>5 DEF GpuInit
  <2>6. CASE Command(p)
    BY <2>1, <2>6 DEF Command
  <2>7. CASE EndOfArguments(p)
    BY <2>1, <2>7 DEF EndOfArguments
  <2>8. CASE FirmwareSwitch(p)
    BY <2>1, <2>8, NextArgumentStep DEF FirmwareSwitch, Switch, firmware
  <2>9. CASE RegisterCheck(p)
    BY <2>1, <2>9, NextArgumentStep DEF RegisterCheck
  <2>10. CASE RegisterAccess(p)
    BY <2>1, <2>10 DEF RegisterAccess
  <2>11. CASE MboxAlloc(p)
    BY <2>1, <2>11 DEF MboxAlloc
  <2>12. CASE MboxLock(p)
    BY <2>1, <2>12 DEF MboxLock, Undo
  <2>13. CASE MemMap(p)
    BY <2>1, <2>13, LeakStep DEF MemMap, Undo
  <2>14. CASE Layout(p)
    BY <2>1, <2>14 DEF Layout
  <2>15. CASE MboxEnable(p)
    BY <2>1, <2>15 DEF MboxEnable, Switch, firmware
  <2>16. CASE MeasureBefore(p)
    BY <2>1, <2>16 DEF MeasureBefore
  <2>17. CASE MboxExec(p)
    BY <2>1, <2>17, NoneAssumption DEF MboxExec, Timeout, DefaultTimeout
  <2>18. CASE MeasureAfter(p)
    BY <2>1, <2>18 DEF MeasureAfter
  <2>19. CASE MboxDisable(p)
    BY <2>1, <2>19 DEF MboxDisable, Switch, firmware
  <2>20. CASE GpuCleanup(p)
    BY <2>1, <2>20 DEF GpuCleanup
  <2>21. CASE MemUnmap(p)
    BY <2>1, <2>21 DEF MemUnmap
  <2>22. CASE MboxUnlock(p)
    BY <2>1, <2>22 DEF MboxUnlock
  <2>23. CASE MboxFree(p)
    BY <2>1, <2>23 DEF MboxFree
  <2>24. CASE RegCleanup(p)
    BY <2>1, <2>24 DEF RegCleanup
  <2>25. CASE MboxCleanup(p)
    BY <2>1, <2>25, NoneAssumption DEF MboxCleanup
  <2>26. QED
    BY <1>2, <2>2, <2>3, <2>4, <2>5, <2>6, <2>7, <2>8, <2>9, <2>10, <2>11, <2>12,
       <2>13, <2>14, <2>15, <2>16, <2>17, <2>18, <2>19, <2>20, <2>21, <2>22, <2>23,
       <2>24, <2>25 DEF Step
<1>3. QED
  BY <1>1, <1>2

\* Interference of that kind keeps q consistent.
LEMMA OthersStep ==
  ASSUME TypeOK, NEW p \in Procs, NEW q \in Procs \ {p}, Consistent(q),
         Interferes(p, q)
  PROVE  Consistent(q)'
<1> USE DEF Interferes
<1>1. Nested(q)' /\ MemoryAt(q)' /\ FailedAt(q)' /\ DevicesAt(q)'
  BY DEF Consistent, Nested, MemoryAt, FailedAt, DevicesAt
<1>2. ProgramAt(q)'
  BY DEF Consistent, ProgramAt
<1>3. QED
  BY <1>1, <1>2 DEF Consistent

-----------------------------------------------------------------------------
(* What a step does to its own process                                     *)

\* mem_map: the memory is complete, or mem_alloc undoes what it did.
LEMMA MemMapReturns ==
  ASSUME TypeOK, NEW p \in Procs, MemMap(p)
  PROVE  /\ pc[p] = "map" /\ vcio' = vcio /\ regs' = regs
         /\ \/ pc'[p] = "layout" /\ leaks' = leaks /\ error' = error /\ refct' = refct
            \/ pc'[p] = "unmap" /\ error'[p] /\ refct'[p] = 0
<1>1. "layout" \in Labels /\ "unmap" \in Labels
  BY DEF Labels
<1>2. CASE Succeed(p, "layout") /\ UNCHANGED <<leaks, refct>>
  BY <1>1, <1>2, Success DEF MemMap
<1>3. CASE Undo(p)
  BY <1>1, <1>3, Failure DEF MemMap, Undo, TypeOK
<1>4. QED
  BY <1>2, <1>3 DEF MemMap

\* mbox_disable: the QPUs are off, or the failure is on record.
LEMMA DisableReturns ==
  ASSUME TypeOK, NEW p \in Procs, MboxDisable(p)
  PROVE  /\ pc'[p] = "gpu_cleanup" /\ flags' = flags /\ sent' = sent
         /\ \/ ~gpuOn' /\ running' = {} /\ error' = error /\ failed' = failed
            \/ /\ error'[p] /\ failed'[p] = failed[p] \union {"disable"}
               /\ running' = running
<1>1. "gpu_cleanup" \in Labels /\ {pc[p]} \intersect Returning = {"disable"}
  BY DEF Labels, Returning, MboxDisable
<1>2. CASE Switch(p, FALSE) /\ Succeed(p, "gpu_cleanup")
  BY <1>1, <1>2, Success DEF MboxDisable, Switch, memory
<1>3. CASE Fail(p, "gpu_cleanup") /\ UNCHANGED firmware
  BY <1>1, <1>3, Failure DEF MboxDisable, memory, firmware
<1>4. QED
  BY <1>2, <1>3 DEF MboxDisable

\* mem_unmap: mem_free goes on, or it stops and the failure is on record.
LEMMA UnmapReturns ==
  ASSUME TypeOK, NEW p \in Procs, MemUnmap(p)
  PROVE  /\ pc[p] = "unmap"
         /\ \/ pc'[p] = "unlock" /\ error' = error /\ failed' = failed
            \/ /\ pc'[p] = "reg_cleanup" /\ error'[p]
               /\ failed'[p] = failed[p] \union {"unmap"}
<1>1. /\ "unlock" \in Labels /\ "reg_cleanup" \in Labels
      /\ {pc[p]} \intersect Returning = {"unmap"}
  BY DEF Labels, Returning, MemUnmap
<1>2. QED
  BY <1>1, Success, Failure DEF MemUnmap

\* mbox_unlock: the same.
LEMMA UnlockReturns ==
  ASSUME TypeOK, NEW p \in Procs, MboxUnlock(p)
  PROVE  /\ pc[p] = "unlock"
         /\ \/ pc'[p] = "free" /\ error' = error /\ failed' = failed
            \/ /\ pc'[p] = "reg_cleanup" /\ error'[p]
               /\ failed'[p] = failed[p] \union {"unlock"}
<1>1. /\ "free" \in Labels /\ "reg_cleanup" \in Labels
      /\ {pc[p]} \intersect Returning = {"unlock"}
  BY DEF Labels, Returning, MboxUnlock
<1>2. QED
  BY <1>1, Success, Failure DEF MboxUnlock

\* mbox_free ends mem_free in either case.
LEMMA FreeReturns ==
  ASSUME TypeOK, NEW p \in Procs, MboxFree(p)
  PROVE  /\ pc[p] = "free" /\ pc'[p] = "reg_cleanup"
         /\ \/ error' = error /\ failed' = failed /\ flags'[p] = flags[p] \ {"alloc"}
            \/ error'[p] /\ failed'[p] = failed[p] \union {"free"}
<1>1. "reg_cleanup" \in Labels /\ {pc[p]} \intersect Returning = {"free"}
  BY DEF Labels, Returning, MboxFree
<1>2. CASE flags' = [flags EXCEPT ![p] = @ \ {"alloc"}] /\ Succeed(p, "reg_cleanup")
  BY <1>1, <1>2, Success DEF TypeOK
<1>3. CASE Fail(p, "reg_cleanup")
  BY <1>1, <1>3, Failure
<1>4. QED
  BY <1>2, <1>3 DEF MboxFree

\* mbox_cleanup is the last call of a process.
LEMMA MboxCleanupReturns ==
  ASSUME TypeOK, NEW p \in Procs, MboxCleanup(p)
  PROVE  /\ pc[p] = "mbox_cleanup" /\ pc'[p] = "exit" /\ vcio'[p] \in {None, 0}
         /\ regs' = regs /\ leaks' = leaks /\ refct' = refct
         /\ error[p] => error'[p]
<1>1. "exit" \in Labels
  BY DEF Labels
<1>2. regs' = regs /\ leaks' = leaks /\ refct' = refct
  BY DEF MboxCleanup, memory
<1>3. pc'[p] = "exit" /\ (error[p] => error'[p])
  BY <1>1, Success, Failure DEF MboxCleanup
<1>4. vcio'[p] \in {None, 0}
  BY DEF MboxCleanup, TypeOK
<1>5. QED
  BY <1>2, <1>3, <1>4 DEF MboxCleanup

\* A step of p keeps p consistent.
LEMMA OwnStep ==
  ASSUME TypeOK, NEW p \in Procs, Consistent(p), Step(p) \/ Kill(p)
  PROVE  Consistent(p)'
<1> USE DEF Consistent, Nested, MemoryAt, FailedAt, DevicesAt, ProgramAt
<1>1. CASE Kill(p)
  BY <1>1 DEF Kill, TypeOK, memory, firmware, Stages, Early, Holding, Late,
     GivesMemory
<1>2. CASE Step(p)
  <2> USE DEF TypeOK, memory, devices, firmware, Stages, Early, Holding, Late, GivesMemory, Labels, Returning
  <2>1. CASE Options(p)
    BY <2>1, Success, Failure DEF Options
  <2>2. CASE MboxInit(p)
    <3>1. Nested(p)'
      BY <2>2, NoneAssumption, Success, Failure DEF MboxInit
    <3>2. MemoryAt(p)'
      BY <2>2, NoneAssumption, Success, Failure DEF MboxInit
    <3>3. FailedAt(p)'
      BY <2>2, NoneAssumption, Success, Failure DEF MboxInit
    <3>4. DevicesAt(p)'
      BY <2>2, NoneAssumption, Success, Failure DEF MboxInit
    <3>5. ProgramAt(p)'
      BY <2>2, NoneAssumption, Success, Failure DEF MboxInit
    <3>6. QED
      BY <3>1, <3>2, <3>3, <3>4, <3>5
  <2>3. CASE RegInit(p)
    BY <2>3, LeakStep, Success, Failure DEF RegInit
  <2>4. CASE GpuInit(p)
    BY <2>4, Success, Failure DEF GpuInit
  <2>5. CASE Command(p)
    BY <2>5, Success, Failure DEF Command
  <2>6. CASE EndOfArguments(p)
    BY <2>6, Success, Failure DEF EndOfArguments
  <2>7. CASE FirmwareSwitch(p)
    BY <2>7, NextArgumentStep, Success, Failure DEF FirmwareSwitch, Switch, firmware
  <2>8. CASE RegisterCheck(p)
    BY <2>8, NextArgumentStep, Success, Failure DEF RegisterCheck
  <2>9. CASE RegisterAccess(p)
    BY <2>9, Success, Failure DEF RegisterAccess
  <2>10. CASE MboxAlloc(p)
    BY <2>10, Success, Failure DEF MboxAlloc
  <2>11. CASE MboxLock(p)
    BY <2>11, Success, Failure DEF MboxLock, Undo
  <2>12. CASE MemMap(p)
    <3>1. Nested(p)'
      BY <2>12, LeakStep, Success, Failure DEF MemMap, Undo
    <3>2. MemoryAt(p)'
      BY <2>12, LeakStep, Success, Failure DEF MemMap, Undo
    <3>3. FailedAt(p)'
      BY <2>12, LeakStep, Success, Failure DEF MemMap, Undo
    <3>4. DevicesAt(p)'
      BY <2>12, MemMapReturns
    <3>5. ProgramAt(p)'
      BY <2>12, LeakStep, Success, Failure DEF MemMap, Undo
    <3>6. QED
      BY <3>1, <3>2, <3>3, <3>4, <3>5
  <2>13. CASE Layout(p)
    BY <2>13, Success, Failure DEF Layout
  <2>14. CASE MboxEnable(p)
    BY <2>14, Success, Failure DEF MboxEnable, Switch, firmware
  <2>15. CASE MeasureBefore(p)
    BY <2>15, Success, Failure DEF MeasureBefore
  <2>16. CASE MboxExec(p)
    <3>1. Nested(p)'
      BY <2>16, NoneAssumption, Success, Failure DEF MboxExec, Timeout,
         DefaultTimeout, AfterExec, AfterFailedExec
    <3>2. MemoryAt(p)'
      BY <2>16, NoneAssumption, Success, Failure DEF MboxExec, Timeout,
         DefaultTimeout, AfterExec, AfterFailedExec
    <3>3. FailedAt(p)'
      BY <2>16, NoneAssumption, Success, Failure DEF MboxExec, Timeout,
         DefaultTimeout, AfterExec, AfterFailedExec
    <3>4. DevicesAt(p)'
      BY <2>16, NoneAssumption, Success, Failure DEF MboxExec, Timeout,
         DefaultTimeout, AfterExec, AfterFailedExec
    <3>5. ProgramAt(p)'
      BY <2>16, NoneAssumption, Success, Failure DEF MboxExec, Timeout,
         DefaultTimeout, AfterExec, AfterFailedExec
    <3>6. QED
      BY <3>1, <3>2, <3>3, <3>4, <3>5
  <2>17. CASE MeasureAfter(p)
    BY <2>17, Success, Failure DEF MeasureAfter
  <2>18. CASE MboxDisable(p)
    <3>1. Nested(p)'
      BY <2>18, Success, Failure DEF MboxDisable, Switch, firmware
    <3>2. MemoryAt(p)'
      BY <2>18, Success, Failure DEF MboxDisable, Switch, firmware
    <3>3. FailedAt(p)'
      BY <2>18, Success, Failure DEF MboxDisable, Switch, firmware
    <3>4. DevicesAt(p)'
      BY <2>18, Success, Failure DEF MboxDisable, Switch, firmware
    <3>5. ProgramAt(p)'
      BY <2>18, DisableReturns
    <3>6. QED
      BY <3>1, <3>2, <3>3, <3>4, <3>5
  <2>19. CASE GpuCleanup(p)
    BY <2>19, Success, Failure DEF GpuCleanup
  <2>20. CASE MemUnmap(p)
    <3>1. Nested(p)'
      BY <2>20, Success, Failure DEF MemUnmap
    <3>2. MemoryAt(p)'
      BY <2>20, Success, Failure DEF MemUnmap
    <3>3. FailedAt(p)'
      BY <2>20, UnmapReturns, SMTT(30)
    <3>4. DevicesAt(p)'
      BY <2>20, Success, Failure DEF MemUnmap
    <3>5. ProgramAt(p)'
      BY <2>20, Success, Failure DEF MemUnmap
    <3>6. QED
      BY <3>1, <3>2, <3>3, <3>4, <3>5
  <2>21. CASE MboxUnlock(p)
    <3>1. Nested(p)'
      BY <2>21, Success, Failure DEF MboxUnlock
    <3>2. MemoryAt(p)'
      BY <2>21, Success, Failure DEF MboxUnlock
    <3>3. FailedAt(p)'
      BY <2>21, UnlockReturns
    <3>4. DevicesAt(p)'
      BY <2>21, Success, Failure DEF MboxUnlock
    <3>5. ProgramAt(p)'
      BY <2>21, Success, Failure DEF MboxUnlock
    <3>6. QED
      BY <3>1, <3>2, <3>3, <3>4, <3>5
  <2>22. CASE MboxFree(p)
    <3>1. Nested(p)'
      BY <2>22, Success, Failure DEF MboxFree
    <3>2. MemoryAt(p)'
      BY <2>22, Success, Failure DEF MboxFree
    <3>3. FailedAt(p)'
      BY <2>22, FreeReturns
    <3>4. DevicesAt(p)'
      BY <2>22, Success, Failure DEF MboxFree
    <3>5. ProgramAt(p)'
      BY <2>22, Success, Failure DEF MboxFree
    <3>6. QED
      BY <3>1, <3>2, <3>3, <3>4, <3>5
  <2>23. CASE RegCleanup(p)
    BY <2>23, Success, Failure DEF RegCleanup
  <2>24. CASE MboxCleanup(p)
    <3>1. Nested(p)'
      BY <2>24, NoneAssumption, Success, Failure DEF MboxCleanup
    <3>2. MemoryAt(p)'
      BY <2>24, NoneAssumption, Success, Failure DEF MboxCleanup
    <3>3. FailedAt(p)'
      BY <2>24, NoneAssumption, Success, Failure DEF MboxCleanup
    <3>4. DevicesAt(p)'
      BY <2>24, MboxCleanupReturns
    <3>5. ProgramAt(p)'
      BY <2>24, NoneAssumption, Success, Failure DEF MboxCleanup
    <3>6. QED
      BY <3>1, <3>2, <3>3, <3>4, <3>5
  <2>25. QED
    BY <1>2, <2>1, <2>2, <2>3, <2>4, <2>5, <2>6, <2>7, <2>8, <2>9, <2>10, <2>11,
       <2>12, <2>13, <2>14, <2>15, <2>16, <2>17, <2>18, <2>19, <2>20, <2>21, <2>22,
       <2>23, <2>24 DEF Step
<1>3. QED
  BY <1>1, <1>2

-----------------------------------------------------------------------------
(* The invariant and the properties                                        *)

\* The program that ends is forgotten, and nothing else changes.
LEMMA ProgramEndsStep ==
  ASSUME IInv, ProgramEnds
  PROVE  IInv'
<1>1. TypeOK'
  BY DEF IInv, TypeOK, ProgramEnds, devices, memory
<1>2. ASSUME NEW q \in Procs PROVE Consistent(q)'
  <2>1. q \in running' => q \in running
    BY DEF ProgramEnds
  <2>2. Consistent(q)
    BY DEF IInv
  <2>3. QED
    BY <2>1, <2>2 DEF ProgramEnds, devices, memory, Consistent, Nested, MemoryAt,
                      FailedAt, DevicesAt, ProgramAt
<1>3. QED
  BY <1>1, <1>2 DEF IInv

\* The invariant holds initially.
LEMMA InvInit ==
  ASSUME Init
  PROVE  IInv
<1>1. TypeOK
  BY MaxArgsAssumption DEF Init, TypeOK, Labels
<1>2. ASSUME NEW p \in Procs PROVE Consistent(p)
  BY NoneAssumption DEF Init, Consistent, Nested, MemoryAt, FailedAt, DevicesAt,
                        ProgramAt, Early, Holding, Late, GivesMemory
<1>3. QED
  BY <1>1, <1>2 DEF IInv

\* Every step keeps the invariant.
LEMMA InvStep ==
  ASSUME IInv, [Next]_vars
  PROVE  IInv'
<1>1. ASSUME NEW p \in Procs, Step(p) \/ Kill(p)
      PROVE  IInv'
  <2>1. TypeOK /\ \A q \in Procs : Consistent(q)
    BY DEF IInv
  <2>2. TypeOK'
    BY <1>1, <2>1, TypeStep
  <2>3. ASSUME NEW q \in Procs PROVE Consistent(q)'
    <3>1. CASE q = p
      BY <1>1, <2>1, <3>1, OwnStep
    <3>2. CASE q # p
      BY <1>1, <2>1, <3>2, OthersUntouched, OthersStep
    <3>3. QED
      BY <3>1, <3>2
  <2>4. QED
    BY <2>2, <2>3 DEF IInv
<1>2. CASE ProgramEnds
  BY <1>2, ProgramEndsStep
<1>3. CASE UNCHANGED vars
  BY <1>3 DEF IInv, TypeOK, Consistent, Nested, MemoryAt, FailedAt, DevicesAt,
     ProgramAt,
              vars, devices, memory, firmware
<1>4. QED
  BY <1>1, <1>2, <1>3 DEF Next, Terminated

\* The invariant always holds.
THEOREM Invariant == Spec => []IInv
<1>1. Init => IInv
  BY InvInit
<1>2. IInv /\ [Next]_vars => IInv'
  BY InvStep
<1>3. QED
  BY <1>1, <1>2, PTL DEF Spec

\* What the invariant says, property by property.
LEMMA InvImplies ==
  ASSUME IInv
  PROVE  /\ TypeOK /\ FlagsTruthful /\ DevicesReady /\ SuccessMeansClean
         /\ MemoryReturned /\ SwitchedOff /\ FreedIdle /\ OwnWindow
<1>1. TypeOK /\ \A p \in Procs : Consistent(p)
  BY DEF IInv
<1>2. FlagsTruthful
  BY <1>1 DEF FlagsTruthful, Consistent, Nested
<1>3. DevicesReady
  BY <1>1 DEF DevicesReady, Consistent, DevicesAt, Early, Holding, Late
<1>4. SuccessMeansClean
  <2>1. ASSUME NEW p \in Procs, pc[p] = "exit", ~error[p]
        PROVE  /\ heap[p] = {} /\ flags[p] = {} /\ leaks[p] = {}
               /\ vcio[p] \in {None, 0} /\ ~regs[p]
               /\ p \notin running
    <3>1. failed[p] = {} /\ leaks[p] = {} /\ p \notin running /\ ~regs[p]
          /\ vcio[p] \in {None, 0}
      BY <1>1, <2>1 DEF Consistent, FailedAt, DevicesAt, ProgramAt
    <3>2. flags[p] = {} /\ heap[p] = {}
      BY <1>1, <2>1, <3>1 DEF Consistent, FailedAt, Nested, Late
    <3>3. QED
      BY <3>1, <3>2
  <2>2. QED
    BY <2>1 DEF SuccessMeansClean
<1>5. MemoryReturned
  BY <1>1 DEF MemoryReturned, Consistent, FailedAt, Nested, Late, GivesMemory
<1>6. SwitchedOff
  BY <1>1 DEF SwitchedOff, Consistent, ProgramAt
<1>7. FreedIdle
  <2>1. ASSUME NEW p \in running, heap[p] = {}
        PROVE  "disable" \in failed[p]
    <3>1. p \in Procs
      BY <1>1 DEF TypeOK
    <3>2. flags[p] # Stages
      BY <1>1, <2>1, <3>1 DEF Consistent, Nested, Stages
    <3>3. QED
      BY <1>1, <3>1, <3>2 DEF Consistent, ProgramAt
  <2>2. QED
    BY <2>1 DEF FreedIdle
<1>8. OwnWindow
  BY <1>1 DEF OwnWindow, Consistent, ProgramAt, Holding
<1>9. QED
  BY <1>1, <1>2, <1>3, <1>4, <1>5, <1>6, <1>7, <1>8

\* Sessions of any number of processes keep their types.
THEOREM TypeCorrect == Spec => []TypeOK
<1>1. IInv => TypeOK
  BY InvImplies
<1>2. QED
  BY <1>1, Invariant, PTL

\* G.mem.flags never disagrees with what the firmware holds for the process,
\* whatever fails in mem_alloc and mem_free, and whoever is killed.
THEOREM Truthful == Spec => []FlagsTruthful
<1>1. IInv => FlagsTruthful
  BY InvImplies
<1>2. QED
  BY <1>1, Invariant, PTL

\* No mailbox call without /dev/vcio, no register access without the mapping,
\* whichever init function failed and in whatever order others interfere.
THEOREM Ready == Spec => []DevicesReady
<1>1. IInv => DevicesReady
  BY InvImplies
<1>2. QED
  BY <1>1, Invariant, PTL

\* EXIT_SUCCESS is never reported by a process that left anything behind.
THEOREM CleanOnSuccess == Spec => []SuccessMeansClean
<1>1. IInv => SuccessMeansClean
  BY InvImplies
<1>2. QED
  BY <1>1, Invariant, PTL

\* A process that ends by itself leaves memory behind only where mem_free was
\* stopped by a call that failed.
THEOREM MemoryGivenBack == Spec => []MemoryReturned
<1>1. IInv => MemoryReturned
  BY InvImplies
<1>2. QED
  BY <1>1, Invariant, PTL

\* A process that executed a program leaves the QPUs on only if its own
\* mbox_disable failed, or another process turned them on.
THEOREM LeftOff == Spec => []SwitchedOff
<1>1. IInv => SwitchedOff
  BY InvImplies
<1>2. QED
  BY <1>1, Invariant, PTL

\* Memory is given back under a program that still runs only after a failed
\* mbox_disable.
THEOREM FreedWhenIdle == Spec => []FreedIdle
<1>1. IInv => FreedIdle
  BY InvImplies
<1>2. QED
  BY <1>1, Invariant, PTL

\* Between its own mbox_enable and mbox_disable a process finds the QPUs on
\* unless another process used the switch.
THEOREM Window == Spec => []OwnWindow
<1>1. IInv => OwnWindow
  BY InvImplies
<1>2. QED
  BY <1>1, Invariant, PTL

-----------------------------------------------------------------------------
(* The refinement of Lease                                                 *)

\* What a step may do to one lease.
Moves(p) ==
  LET held == Held(p)
      phase == LeasePhase(p)
      heldNext == Held(p)'
      phaseNext == LeasePhase(p)'
  IN  \/ heldNext = held /\ phaseNext = phase
      \/ phase = "open" /\ phaseNext = "open" /\ held < 3 /\ heldNext = held + 1
      \/ phase = "open" /\ phaseNext = "closing" /\ heldNext = held
      \/ phase = "closing" /\ phaseNext = "closing" /\ held > 0 /\ heldNext = held - 1
      \/ phase = "closing" /\ phaseNext = "stuck" /\ held > 0 /\ heldNext = held
      \/ phase \in {"open", "closing"} /\ phaseNext = "done" /\ held = 0 /\ heldNext = held
      \/ phase # "done" /\ phaseNext = "gone" /\ heldNext = held

\* The stages in the hands of a process are those of its flags.
LEMMA HeldOf ==
  ASSUME NEW p \in Procs, Nested(p)
  PROVE  /\ flags[p] = {} => Held(p) = 0
         /\ flags[p] = {"alloc"} => Held(p) = 1
         /\ flags[p] = {"alloc", "lock"} => Held(p) = 2
         /\ flags[p] = Stages => Held(p) = 3
         /\ "alloc" \in flags[p] /\ "lock" \notin flags[p] => Held(p) = 1
         /\ "alloc" \in flags[p] => Held(p) > 0
BY DEF Nested, Held, Stages

\* The same for the state after a step.
LEMMA HeldNext ==
  ASSUME NEW p \in Procs, Nested(p)'
  PROVE  /\ flags'[p] = {} => Held(p)' = 0
         /\ flags'[p] = {"alloc"} => Held(p)' = 1
         /\ flags'[p] = {"alloc", "lock"} => Held(p)' = 2
         /\ flags'[p] = Stages => Held(p)' = 3
BY DEF Nested, Held, Stages

\* How far the lease is, by the next call.
LEMMA PhaseOf ==
  ASSUME NEW p \in Procs, pc[p] \in Labels, FailedAt(p)
  PROVE  /\ pc[p] \notin GivesMemory \union Late \union {"killed"} => LeasePhase(p) = "open"
         /\ pc[p] \in GivesMemory => LeasePhase(p) = "closing"
         /\ failed[p] \intersect GivesMemory # {} /\ pc[p] # "killed" =>
              LeasePhase(p) = "stuck"
         /\ pc[p] \in Late \ {"exit"} /\ failed[p] \intersect GivesMemory = {} =>
              LeasePhase(p) = "closing" /\ flags[p] = {}
         /\ pc[p] = "exit" /\ failed[p] \intersect GivesMemory = {} =>
              LeasePhase(p) = "done" /\ flags[p] = {}
BY DEF FailedAt, LeasePhase, Releasing, GivesMemory, Late, Labels

\* The same for the state after a step.
LEMMA PhaseNext ==
  ASSUME NEW p \in Procs, pc'[p] \in Labels, FailedAt(p)'
  PROVE  /\ pc'[p] \notin GivesMemory \union Late \union {"killed"} => LeasePhase(p)' = "open"
         /\ pc'[p] \in GivesMemory => LeasePhase(p)' = "closing"
         /\ failed'[p] \intersect GivesMemory # {} /\ pc'[p] # "killed" =>
              LeasePhase(p)' = "stuck"
         /\ pc'[p] \in Late \ {"exit"} /\ failed'[p] \intersect GivesMemory = {} =>
              LeasePhase(p)' = "closing" /\ flags'[p] = {}
         /\ pc'[p] = "exit" /\ failed'[p] \intersect GivesMemory = {} =>
              LeasePhase(p)' = "done" /\ flags'[p] = {}
BY DEF FailedAt, LeasePhase, Releasing, GivesMemory, Late, Labels

\* A call that leaves the memory alone, before mem_free, leaves the lease alone.
LEMMA StaysOpen ==
  ASSUME TypeOK, TypeOK', NEW p \in Procs, Consistent(p), Consistent(p)',
         flags' = flags, heap' = heap,
         pc[p] \notin GivesMemory \union Late \union {"killed"},
         pc'[p] \notin GivesMemory \union Late \union {"killed"}
  PROVE  Moves(p)
<1>1. LeasePhase(p) = "open" /\ LeasePhase(p)' = "open"
  BY PhaseOf, PhaseNext DEF TypeOK, Consistent
<1>2. Held(p)' = Held(p)
  BY DEF Held
<1>3. QED
  BY <1>1, <1>2 DEF Moves

\* Every step of a process moves its own lease as Lease allows.
LEMMA LeaseMoves ==
  ASSUME TypeOK, TypeOK', NEW p \in Procs, Consistent(p), Consistent(p)',
         Step(p) \/ Kill(p)
  PROVE  Moves(p)
<1>1. /\ pc[p] \in Labels /\ pc'[p] \in Labels
      /\ Nested(p) /\ Nested(p)' /\ FailedAt(p) /\ FailedAt(p)'
      /\ MemoryAt(p) /\ MemoryAt(p)'
  BY DEF TypeOK, Consistent
<1>2. CASE Options(p)
  <2>1. /\ pc[p] = "options" /\ flags' = flags /\ heap' = heap
        /\ pc'[p] = "mbox_init" \/ pc'[p] = "exit"
    BY <1>2, Success, Failure DEF Options, firmware, memory, Labels
  <2>2. CASE pc'[p] = "mbox_init"
    BY <2>1, <2>2, StaysOpen DEF GivesMemory, Late
  <2>3. CASE pc'[p] = "exit"
    <3>1. LeasePhase(p) = "open" /\ Held(p) = 0 /\ Held(p)' = 0
      BY <1>1, <2>1, HeldOf, HeldNext, PhaseOf DEF MemoryAt, Early, GivesMemory, Late
    <3>2. failed'[p] \intersect GivesMemory = {}
      BY <1>2, <1>1, <2>1, Success, Failure
         DEF Options, FailedAt, Labels, Returning, GivesMemory, Early
    <3>3. LeasePhase(p)' = "done"
      BY <1>1, <2>3, <3>2, PhaseNext
    <3>4. QED
      BY <3>1, <3>3 DEF Moves
  <2>4. QED
    BY <2>1, <2>2, <2>3
<1>3. CASE MboxInit(p)
  BY <1>3, StaysOpen, Success, Failure DEF MboxInit, firmware, memory, GivesMemory,
     Late, Labels
<1>4. CASE RegInit(p)
  BY <1>4, StaysOpen, Success, Failure DEF RegInit, firmware, memory, GivesMemory,
     Late, Labels
<1>5. CASE GpuInit(p)
  BY <1>5, StaysOpen, Success, Failure DEF GpuInit, firmware, memory, GivesMemory,
     Late, Labels
<1>6. CASE Command(p)
  BY <1>6, StaysOpen, Success, Failure DEF Command, firmware, memory, GivesMemory,
     Late, Labels
<1>7. CASE EndOfArguments(p)
  BY <1>7, StaysOpen, Success, Failure DEF EndOfArguments, firmware, memory,
     GivesMemory, Late, Labels
<1>8. CASE FirmwareSwitch(p)
  BY <1>8, StaysOpen, Success, Failure DEF FirmwareSwitch, Switch, firmware, memory,
     GivesMemory, Late, Labels
<1>9. CASE RegisterCheck(p)
  BY <1>9, StaysOpen, Success, Failure DEF RegisterCheck, firmware, memory,
     GivesMemory, Late, Labels
<1>10. CASE RegisterAccess(p)
  BY <1>10, StaysOpen, Success, Failure DEF RegisterAccess, firmware, memory,
     GivesMemory, Late, Labels
<1>11. CASE Layout(p)
  BY <1>11, StaysOpen, Success, Failure DEF Layout, firmware, memory, GivesMemory,
     Late, Labels
<1>12. CASE MboxEnable(p)
  BY <1>12, StaysOpen, Success, Failure DEF MboxEnable, Switch, firmware, memory,
     GivesMemory, Late, Labels
<1>13. CASE MeasureBefore(p)
  BY <1>13, StaysOpen, Success, Failure DEF MeasureBefore, firmware, memory,
     GivesMemory, Late, Labels
<1>14. CASE MboxExec(p)
  BY <1>14, StaysOpen, Success, Failure DEF MboxExec, AfterExec, AfterFailedExec,
     firmware, memory, GivesMemory, Late, Labels
<1>15. CASE MeasureAfter(p)
  BY <1>15, StaysOpen, Success, Failure DEF MeasureAfter, firmware, memory,
     GivesMemory, Late, Labels
<1>16. CASE MboxDisable(p)
  BY <1>16, StaysOpen, Success, Failure DEF MboxDisable, Switch, firmware, memory,
     GivesMemory, Late, Labels
<1>17. CASE MboxAlloc(p)
  <2>1. (flags' = flags /\ heap' = heap) \/ flags'[p] = flags[p] \union {"alloc"}
    BY <1>17 DEF MboxAlloc, memory, TypeOK
  <2>2. pc[p] = "mem_alloc" /\ pc'[p] \in {"lock", "gpu_cleanup"}
    BY <1>17, Success, Failure DEF MboxAlloc, Labels
  <2>3. CASE flags' = flags /\ heap' = heap
    BY <2>2, <2>3, StaysOpen DEF GivesMemory, Late
  <2>4. CASE flags'[p] = flags[p] \union {"alloc"}
    <3>1. Held(p) = 0 /\ Held(p)' = 1
      BY <1>1, <2>2, <2>4, HeldOf, HeldNext DEF MemoryAt, Early
    <3>2. LeasePhase(p) = "open" /\ LeasePhase(p)' = "open"
      BY <1>1, <2>2, PhaseOf, PhaseNext DEF GivesMemory, Late
    <3>3. QED
      BY <3>1, <3>2 DEF Moves
  <2>5. QED
    BY <2>1, <2>3, <2>4
<1>18. CASE MboxLock(p)
  <2>1. /\ pc[p] = "lock"
        /\ \/ pc'[p] = "map" /\ flags'[p] = flags[p] \union {"lock"}
           \/ pc'[p] = "unmap" /\ flags' = flags
    BY <1>18, Success, Failure DEF MboxLock, Undo, Labels, TypeOK
  <2>2. LeasePhase(p) = "open" /\ Held(p) = 1
    BY <1>1, <2>1, HeldOf, PhaseOf DEF MemoryAt, GivesMemory, Late
  <2>3. CASE pc'[p] = "map"
    <3>1. LeasePhase(p)' = "open" /\ Held(p)' = 2
      BY <1>1, <2>3, HeldNext, PhaseNext DEF MemoryAt, GivesMemory, Late, Holding
    <3>2. QED
      BY <2>2, <3>1 DEF Moves
  <2>4. CASE pc'[p] = "unmap" /\ flags' = flags
    <3>1. LeasePhase(p)' = "closing" /\ Held(p)' = 1
      BY <1>1, <2>1, <2>4, HeldNext, PhaseNext DEF MemoryAt, GivesMemory
    <3>2. QED
      BY <2>2, <3>1 DEF Moves
  <2>5. QED
    BY <2>1, <2>3, <2>4
<1>19. CASE MemMap(p)
  <2>1. /\ pc[p] = "map"
        /\ \/ pc'[p] = "layout" /\ flags'[p] = flags[p] \union {"map"}
           \/ pc'[p] = "unmap" /\ flags' = flags
    BY <1>19, Success, Failure DEF MemMap, Undo, Labels, TypeOK
  <2>2. LeasePhase(p) = "open" /\ Held(p) = 2
    BY <1>1, <2>1, HeldOf, PhaseOf DEF MemoryAt, GivesMemory, Late
  <2>3. CASE pc'[p] = "layout"
    <3>1. LeasePhase(p)' = "open" /\ Held(p)' = 3
      BY <1>1, <2>3, HeldNext, PhaseNext DEF MemoryAt, GivesMemory, Late, Holding
    <3>2. QED
      BY <2>2, <3>1 DEF Moves
  <2>4. CASE pc'[p] = "unmap" /\ flags' = flags
    <3>1. LeasePhase(p)' = "closing" /\ Held(p)' = 2
      BY <1>1, <2>1, <2>4, HeldNext, PhaseNext DEF MemoryAt, GivesMemory
    <3>2. QED
      BY <2>2, <3>1 DEF Moves
  <2>5. QED
    BY <2>1, <2>3, <2>4
<1>20. CASE GpuCleanup(p)
  <2>1. /\ pc[p] = "gpu_cleanup" /\ pc'[p] \in {"unmap", "reg_cleanup"}
        /\ flags' = flags /\ heap' = heap
        /\ failed'[p] \subseteq failed[p] \union {"gpu_cleanup"}
    BY <1>20, Success, Failure DEF GpuCleanup, Labels, firmware
  <2>2. LeasePhase(p) = "open" /\ failed[p] \intersect GivesMemory = {}
    BY <1>1, <2>1, PhaseOf DEF GivesMemory, Late, FailedAt
  <2>3. LeasePhase(p)' = "closing"
    BY <1>1, <2>1, <2>2, PhaseNext DEF GivesMemory, Late
  <2>4. Held(p)' = Held(p)
    BY <2>1 DEF Held
  <2>5. QED
    BY <2>2, <2>3, <2>4 DEF Moves
<1>21. CASE MemUnmap(p)
  <2>1. pc[p] = "unmap" /\ heap' = heap
    BY <1>21 DEF MemUnmap, firmware
  <2>2. LeasePhase(p) = "closing" /\ Held(p) > 0
    BY <1>1, <2>1, PhaseOf, HeldOf DEF GivesMemory, MemoryAt
  <2>3. CASE pc'[p] = "unlock"
    <3>1. LeasePhase(p)' = "closing"
      BY <1>1, <2>3, PhaseNext DEF GivesMemory
    <3>2. CASE "map" \notin flags[p]
      <4>1. flags' = flags
        BY <1>21, <3>2 DEF MemUnmap
      <4>2. QED
        BY <2>1, <2>2, <3>1, <4>1 DEF Moves, Held
    <3>3. CASE "map" \in flags[p]
      <4>1. flags'[p] = flags[p] \ {"map"}
        BY <1>21, <2>3, <3>3, <1>1, UnmapReturns DEF MemUnmap, TypeOK, Nested,
           MemoryAt
      <4>2. Held(p) = 3 /\ Held(p)' = 2
        BY <1>1, <2>1, <3>3, <4>1 DEF Held, Nested
      <4>3. QED
        BY <2>2, <3>1, <4>2 DEF Moves
    <3>4. QED
      BY <3>2, <3>3
  <2>4. CASE pc'[p] # "unlock"
    <3>1. pc'[p] = "reg_cleanup" /\ "unmap" \in failed'[p]
      BY <1>21, <2>4, UnmapReturns
    <3>2. LeasePhase(p)' = "stuck"
      BY <1>1, <3>1, PhaseNext DEF GivesMemory
    <3>3. flags' = flags
      BY <1>21, <2>4, Success DEF MemUnmap, Labels
    <3>4. QED
      BY <2>1, <2>2, <3>2, <3>3 DEF Moves, Held
  <2>5. QED
    BY <2>3, <2>4
<1>22. CASE MboxUnlock(p)
  <2>1. pc[p] = "unlock" /\ "alloc" \in flags[p] /\ "map" \notin flags[p]
    BY <1>22, <1>1 DEF MboxUnlock, MemoryAt
  <2>2. LeasePhase(p) = "closing" /\ Held(p) > 0
    BY <1>1, <2>1, PhaseOf, HeldOf DEF GivesMemory
  <2>3. CASE pc'[p] = "free"
    <3>1. LeasePhase(p)' = "closing" /\ Held(p)' = 1
      BY <1>1, <2>3, PhaseNext, HeldNext DEF GivesMemory, MemoryAt
    <3>2. CASE "lock" \notin flags[p]
      BY <1>1, <2>1, <2>2, <3>1, <3>2, HeldOf DEF Moves
    <3>3. CASE "lock" \in flags[p]
      <4>1. Held(p) = 2
        BY <1>1, <2>1, <3>3 DEF Held, Nested
      <4>2. QED
        BY <2>2, <3>1, <4>1 DEF Moves
    <3>4. QED
      BY <3>2, <3>3
  <2>4. CASE pc'[p] # "free"
    <3>1. pc'[p] = "reg_cleanup" /\ "unlock" \in failed'[p]
      BY <1>22, <2>4, UnlockReturns
    <3>2. LeasePhase(p)' = "stuck"
      BY <1>1, <3>1, PhaseNext DEF GivesMemory
    <3>3. flags' = flags /\ heap' = heap
      BY <1>22, <2>4, Success DEF MboxUnlock, Labels
    <3>4. QED
      BY <2>1, <2>2, <3>2, <3>3 DEF Moves, Held
  <2>5. QED
    BY <2>3, <2>4
<1>23. CASE MboxFree(p)
  <2>1. pc[p] = "free" /\ flags[p] = {"alloc"} /\ pc'[p] = "reg_cleanup"
    BY <1>23, <1>1, FreeReturns DEF MemoryAt
  <2>2. LeasePhase(p) = "closing" /\ Held(p) = 1
    BY <1>1, <2>1, PhaseOf, HeldOf DEF GivesMemory
  <2>3. failed[p] \intersect GivesMemory = {}
    BY <1>1, <2>1 DEF FailedAt, Late
  <2>4. CASE failed'[p] \intersect GivesMemory = {}
    <3>1. LeasePhase(p)' = "closing" /\ flags'[p] = {}
      BY <1>1, <2>1, <2>4, PhaseNext DEF Late
    <3>2. Held(p)' = 0
      BY <1>1, <3>1, HeldNext
    <3>3. QED
      BY <2>2, <3>1, <3>2 DEF Moves
  <2>5. CASE failed'[p] \intersect GivesMemory # {}
    <3>1. flags' = flags /\ heap' = heap
      BY <1>23, <2>3, <2>5, Success DEF MboxFree, Labels
    <3>2. LeasePhase(p)' = "stuck" /\ Held(p)' = Held(p)
      BY <1>1, <2>1, <2>5, <3>1, PhaseNext DEF Held
    <3>3. QED
      BY <2>2, <3>2 DEF Moves
  <2>6. QED
    BY <2>4, <2>5
<1>24. CASE RegCleanup(p)
  <2>1. /\ pc[p] = "reg_cleanup" /\ pc'[p] = "mbox_cleanup"
        /\ flags' = flags /\ heap' = heap
        /\ failed'[p] \intersect GivesMemory = failed[p] \intersect GivesMemory
    BY <1>24, Success, Failure DEF RegCleanup, Labels, memory, firmware, Returning,
       GivesMemory
  <2>2. Held(p)' = Held(p)
    BY <2>1 DEF Held
  <2>3. CASE failed[p] \intersect GivesMemory = {}
    <3>1. LeasePhase(p) = "closing" /\ LeasePhase(p)' = "closing" /\ Held(p) = 0
      BY <1>1, <2>1, <2>3, PhaseOf, PhaseNext, HeldOf DEF Late
    <3>2. QED
      BY <2>2, <3>1 DEF Moves
  <2>4. CASE failed[p] \intersect GivesMemory # {}
    BY <1>1, <2>1, <2>2, <2>4, PhaseOf, PhaseNext DEF Moves
  <2>5. QED
    BY <2>3, <2>4
<1>25. CASE MboxCleanup(p)
  <2>1. /\ pc[p] = "mbox_cleanup" /\ pc'[p] = "exit"
        /\ flags' = flags /\ heap' = heap
        /\ failed'[p] \intersect GivesMemory = failed[p] \intersect GivesMemory
    BY <1>25, Success, Failure DEF MboxCleanup, Labels, memory, firmware, Returning,
       GivesMemory
  <2>2. Held(p)' = Held(p)
    BY <2>1 DEF Held
  <2>3. CASE failed[p] \intersect GivesMemory = {}
    <3>1. LeasePhase(p) = "closing" /\ LeasePhase(p)' = "done" /\ Held(p) = 0
      BY <1>1, <2>1, <2>3, PhaseOf, PhaseNext, HeldOf DEF Late
    <3>2. QED
      BY <2>2, <3>1 DEF Moves
  <2>4. CASE failed[p] \intersect GivesMemory # {}
    BY <1>1, <2>1, <2>2, <2>4, PhaseOf, PhaseNext DEF Moves
  <2>5. QED
    BY <2>3, <2>4
<1>26. CASE Kill(p)
  <2>1. /\ pc[p] \notin {"exit", "killed"} /\ pc'[p] = "killed"
        /\ flags' = flags /\ heap' = heap
    BY <1>26 DEF Kill, Ended, memory, firmware, TypeOK
  <2>2. LeasePhase(p) # "done" /\ LeasePhase(p)' = "gone" /\ Held(p)' = Held(p)
    BY <2>1 DEF LeasePhase, Held
  <2>3. QED
    BY <2>2 DEF Moves
<1>27. QED
  BY <1>2, <1>3, <1>4, <1>5, <1>6, <1>7, <1>8, <1>9, <1>10, <1>11, <1>12, <1>13,
     <1>14, <1>15, <1>16, <1>17, <1>18, <1>19, <1>20, <1>21, <1>22, <1>23, <1>24,
     <1>25, <1>26 DEF Step

\* The other leases do not move.
LEMMA OthersRest ==
  ASSUME NEW p \in Procs, NEW q \in Procs \ {p}, Interferes(p, q)
  PROVE  Held(q)' = Held(q) /\ LeasePhase(q)' = LeasePhase(q)
BY DEF Interferes, Held, LeasePhase

\* Sessions begin where leases begin.
LEMMA LeaseInit ==
  ASSUME Init
  PROVE  Leases!Init
BY DEF Init, Leases!Init, Held, LeasePhase, Releasing

\* Every step of a process is a step of its lease, or leaves all leases alone.
LEMMA LeaseStep ==
  ASSUME IInv, IInv', NEW p \in Procs, Step(p) \/ Kill(p)
  PROVE  [Leases!Next]_(Leases!vars)
<1> DEFINE held == [q \in Procs |-> Held(q)]
           phase == [q \in Procs |-> LeasePhase(q)]
<1>1. Moves(p)
  BY LeaseMoves DEF IInv
<1>2. \A q \in Procs \ {p} : Held(q)' = Held(q) /\ LeasePhase(q)' = LeasePhase(q)
  BY OthersUntouched, OthersRest DEF IInv
<1>3. held' = [held EXCEPT ![p] = Held(p)'] /\ phase' = [phase EXCEPT ![p] = LeasePhase(p)']
  BY <1>2
<1>4. held[p] = Held(p) /\ phase[p] = LeasePhase(p)
  OBVIOUS
<1>5. Held(p)' = Held(p) => held' = held
  BY <1>2
<1>6. LeasePhase(p)' = LeasePhase(p) => phase' = phase
  BY <1>2
<1> HIDE DEF held, phase
<1>7. CASE Held(p)' = Held(p) /\ LeasePhase(p)' = LeasePhase(p)
  BY <1>5, <1>6, <1>7 DEF Leases!vars, held, phase
<1>8. CASE /\ LeasePhase(p) = "open" /\ LeasePhase(p)' = "open"
           /\ Held(p) < 3 /\ Held(p)' = Held(p) + 1
  <2>1. Leases!Take(p)
    BY <1>3, <1>4, <1>6, <1>8 DEF Leases!Take, Leases!Stages, held, phase
  <2>2. QED
    BY <2>1 DEF Leases!Next
<1>9. CASE LeasePhase(p) = "open" /\ LeasePhase(p)' = "closing" /\ Held(p)' = Held(p)
  <2>1. Leases!Close(p)
    BY <1>3, <1>4, <1>5, <1>9 DEF Leases!Close, Leases!Enter, held, phase
  <2>2. QED
    BY <2>1 DEF Leases!Next
<1>10. CASE /\ LeasePhase(p) = "closing" /\ LeasePhase(p)' = "closing"
            /\ Held(p) > 0 /\ Held(p)' = Held(p) - 1
  <2>1. Leases!GiveBack(p)
    BY <1>3, <1>4, <1>6, <1>10 DEF Leases!GiveBack, held, phase
  <2>2. QED
    BY <2>1 DEF Leases!Next
<1>11. CASE /\ LeasePhase(p) = "closing" /\ LeasePhase(p)' = "stuck"
            /\ Held(p) > 0 /\ Held(p)' = Held(p)
  <2>1. Leases!GiveBackFails(p)
    BY <1>3, <1>4, <1>5, <1>11 DEF Leases!GiveBackFails, Leases!Enter, held, phase
  <2>2. QED
    BY <2>1 DEF Leases!Next
<1>12. CASE /\ LeasePhase(p) \in {"open", "closing"} /\ LeasePhase(p)' = "done"
            /\ Held(p) = 0 /\ Held(p)' = Held(p)
  <2>1. Leases!Finish(p)
    BY <1>3, <1>4, <1>5, <1>12 DEF Leases!Finish, Leases!Enter, held, phase
  <2>2. QED
    BY <2>1 DEF Leases!Next
<1>13. CASE LeasePhase(p) # "done" /\ LeasePhase(p)' = "gone" /\ Held(p)' = Held(p)
  <2>1. Leases!Kill(p)
    BY <1>3, <1>4, <1>5, <1>13 DEF Leases!Kill, Leases!Enter, held, phase
  <2>2. QED
    BY <2>1 DEF Leases!Next
<1>14. QED
  BY <1>1, <1>7, <1>8, <1>9, <1>10, <1>11, <1>12, <1>13 DEF Moves

\* Every step of the system is a step of one lease, or of none.
LEMMA SystemStep ==
  ASSUME IInv, IInv', [Next]_vars
  PROVE  [Leases!Next]_(Leases!vars)
<1>1. ASSUME NEW p \in Procs, Step(p) \/ Kill(p)
      PROVE  [Leases!Next]_(Leases!vars)
  BY <1>1, LeaseStep
<1>2. CASE ProgramEnds \/ UNCHANGED vars
  BY <1>2 DEF ProgramEnds, vars, devices, memory, firmware, Leases!vars, Held,
     LeasePhase
<1>3. QED
  BY <1>1, <1>2 DEF Next, Terminated

\* Sessions implement Lease, for any number of processes: under every failure,
\* kill and interference, mem_alloc and mem_free keep what Lease promises.
THEOREM Refinement == Spec => LeaseSpec
<1>1. Init => Leases!Init
  BY LeaseInit
<1>2. IInv /\ IInv' /\ [Next]_vars => [Leases!Next]_(Leases!vars)
  BY SystemStep
<1>3. QED
  BY <1>1, <1>2, Invariant, PTL DEF Spec, LeaseSpec, Leases!Spec
=============================================================================
