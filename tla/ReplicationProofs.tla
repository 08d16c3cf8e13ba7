--------------------------- MODULE ReplicationProofs ---------------------------
(***************************************************************************)
(* What gpu_replicate does when its product does not wrap, for every       *)
(* number of tasks, width of a u32, set of files and command line: the     *)
(* copies are exact (Replication), they land in empty slots (Fresh), and   *)
(* no assertion fails (NeverAborts).  So the table is a way of keeping the *)
(* list of tasks that the arguments spell (ListRefinement), and no         *)
(* descriptor is lost on the way (Released).                               *)
(*                                                                         *)
(* The hypothesis NoWrap is about the arguments alone.  Without it the     *)
(* claims fail; the run of ReplicationWrap.cfg, whose numbers exceed it,   *)
(* shows this of the first.  The numbers of TaskTable.cfg stay below it.   *)
(***************************************************************************)
EXTENDS TaskTableProofs, Sequences

\* No accepted multiplier makes the product of a full table wrap: on the real
\* machine, every argument of x is less than 2^32 / 12.
NoWrap == \A n \in Numbers : n > 0 => n * MaxTasks < U32

-----------------------------------------------------------------------------
(* The inductive invariant: where gpu_replicate is, in the order in which  *)
(* its loop fills the slots.                                               *)

Turn == [inst |-> 0, unif |-> 1, rbuf |-> 2, wbuf |-> 3]

\* Slot s lies before the loop's position.
Passed(s) == s[1] < rep.dst \/ (s[1] = rep.dst /\ Turn[s[2]] < Turn[rep.kind])

\* Slot s holds what slot o holds.
SameContent(s, o) ==
  /\ active[s] = active[o]
  /\ active[o] => /\ size[s] = size[o]
                  /\ s \in FileSlot => open[fd[s]] = open[fd[o]]

\* The slot that gpu_replicate copies to s.
Source(s) == <<s[1] % ntasks, s[2]>>

CountInv ==
  pc = "replicate" =>
    /\ rep.mult > 1
    /\ Product(rep.mult) = rep.mult * ntasks
    /\ rep.dst <= Product(rep.mult)

FreshInv ==
  /\ FreshBeyond
  /\ pc = "replicate" => \A s \in Slot : s[1] >= ntasks /\ ~Passed(s) => ~active[s]

CopiedInv ==
  pc = "replicate" => \A s \in Slot : s[1] >= ntasks /\ Passed(s) => SameContent(s, Source(s))

ExactInv == CountInv /\ FreshInv /\ CopiedInv /\ NoAbort

USE MaxTasksAssumption, U32Assumption, NumbersAssumption

-----------------------------------------------------------------------------

\* Under NoWrap the product is exact.
LEMMA ExactProduct ==
  ASSUME NoWrap, TypeOK, NEW m \in Numbers, m > 1
  PROVE  Narrow(m) = m /\ Product(m) = m * ntasks
<1>1. ntasks \in 0 .. MaxTasks /\ MaxTasks \in Nat \ {0} /\ m \in Int /\ U32 \in Nat
  BY DEF TypeOK
<1>2. m * MaxTasks < U32
  BY DEF NoWrap
<1>3. m * MaxTasks >= m /\ m * ntasks <= m * MaxTasks /\ m * ntasks >= 0
  BY <1>1
<1>4. m \in 0 .. U32 - 1 /\ m * ntasks \in 0 .. U32 - 1
  BY <1>1, <1>2, <1>3
<1>5. m % U32 = m /\ (m * ntasks) % U32 = m * ntasks
  BY <1>1, <1>4
<1>6. QED
  BY <1>5 DEF Narrow, Product

\* While gpu_replicate runs, its bound and its position are numbers.
LEMMA LoopNumbers ==
  ASSUME TypeOK, LoopInv, pc = "replicate"
  PROVE  /\ rep.mult \in Numbers /\ rep.mult \in Int
         /\ rep.dst \in 0 .. MaxTasks /\ rep.kind \in Kind
         /\ ntasks \in 1 .. MaxTasks /\ ntasks <= rep.dst
         /\ Product(rep.mult) \in 0 .. MaxTasks
<1>1. /\ rep.mult \in Numbers /\ ntasks <= rep.dst /\ ntasks > 0
      /\ Product(rep.mult) <= MaxTasks
  BY DEF LoopInv
<1>2. rep.dst \in 0 .. MaxTasks /\ ntasks \in 0 .. MaxTasks /\ rep.kind \in Kind
  BY DEF TypeOK
<1>3. Product(rep.mult) \in Word
  BY <1>1, <1>2, ProductWord
<1>4. Product(rep.mult) \in 0 .. MaxTasks
  BY <1>1, <1>3 DEF Word
<1>5. rep.mult \in Int
  BY <1>1
<1>6. ntasks \in 1 .. MaxTasks
  BY <1>1, <1>2
<1>7. QED
  BY <1>1, <1>2, <1>4, <1>5, <1>6

\* The loop's position: the slot it is at is behind everything it has passed.
LEMMA Position ==
  ASSUME TypeOK, LoopInv, Copying
  PROVE  /\ Dst \in Slot /\ Src \in Slot /\ Src = Source(Dst)
         /\ Dst[1] >= ntasks /\ Src[1] < ntasks /\ ~Passed(Dst) /\ Src # Dst
         /\ Dst[2] = rep.kind
         /\ Src \in FileSlot <=> rep.kind \in FileKind
         /\ Dst \in FileSlot <=> rep.kind \in FileKind
<1>1. /\ Dst = <<rep.dst, rep.kind>> /\ Src = <<rep.dst % ntasks, rep.kind>>
      /\ Dst \in Slot /\ Src \in Slot /\ rep.dst % ntasks \in 0 .. ntasks - 1
      /\ rep.kind \in Kind /\ rep.dst \in Task
      /\ rep.kind \in FileKind => Src \in FileSlot /\ Dst \in FileSlot
  BY CopySlots DEF Src, Dst
<1>2. ntasks <= rep.dst /\ ntasks \in 0 .. MaxTasks
  BY DEF LoopInv, Copying, TypeOK
<1>3. Turn[rep.kind] \in Int
  BY <1>1 DEF Turn, Kind, FileKind
<1>4. ~Passed(Dst)
  BY <1>1, <1>2, <1>3 DEF Passed, Task
<1>5. rep.kind \notin FileKind => Src \notin FileSlot /\ Dst \notin FileSlot
  BY <1>1 DEF FileSlot
<1>6. QED
  BY <1>1, <1>2, <1>4, <1>5 DEF Source, Task

\* Advancing passes the slot the loop was at, and no other.
LEMMA Advanced ==
  ASSUME TypeOK, LoopInv, Copying, Advance, NEW s \in Slot
  PROVE  Passed(s)' <=> Passed(s) \/ s = Dst
<1>1. /\ rep \in [mult : Numbers \union {0}, dst : 0 .. MaxTasks, kind : Kind]
      /\ rep.kind \in Kind /\ rep.dst \in Int
  BY DEF TypeOK
<1>2. /\ rep'.kind = NextKind[rep.kind]
      /\ rep'.dst = IF rep.kind = "wbuf" THEN rep.dst + 1 ELSE rep.dst
  BY <1>1 DEF Advance
<1>3. s = <<s[1], s[2]>> /\ s[2] \in Kind /\ s[1] \in Int
  BY DEF Slot, Owner, Glob, Task
<1>4. Dst = <<rep.dst, rep.kind>>
  BY DEF Dst
<1>5. s = Dst <=> s[1] = rep.dst /\ s[2] = rep.kind
  BY <1>3, <1>4
<1>6. Turn[s[2]] < Turn[rep.kind] \/ s[2] = rep.kind <=> Turn[s[2]] <= Turn[rep.kind]
  BY <1>1, <1>3 DEF Turn, Kind, FileKind
<1>7. CASE rep.kind = "wbuf"
  <2>1. rep'.dst = rep.dst + 1 /\ Turn[rep'.kind] = 0 /\ Turn[rep.kind] = 3
    BY <1>2, <1>7 DEF NextKind, Turn
  <2>2. Turn[s[2]] \in 0 .. 3
    BY <1>3 DEF Turn, Kind, FileKind
  <2>3. QED
    BY <1>1, <1>3, <1>5, <1>6, <2>1, <2>2 DEF Passed
<1>8. CASE rep.kind # "wbuf"
  <2>1. rep'.dst = rep.dst /\ Turn[rep'.kind] = Turn[rep.kind] + 1
    BY <1>1, <1>2, <1>8 DEF NextKind, Turn, Kind, FileKind
  <2>2. Turn[s[2]] \in 0 .. 3 /\ Turn[rep.kind] \in 0 .. 3
    BY <1>1, <1>3 DEF Turn, Kind, FileKind
  <2>3. QED
    BY <1>1, <1>3, <1>5, <1>6, <2>1, <2>2 DEF Passed
<1>9. QED
  BY <1>7, <1>8

\* A step that changes no slot but the one the loop is at, which then holds
\* what its source holds, keeps the copies made so far.
LEMMA CopyStep ==
  ASSUME IInv, ExactInv, Copying, Advance, UNCHANGED <<pc, ntasks>>,
         NEW d, d = Dst, NEW o, o = Src,
         \A t \in Slot \ {d} :
           /\ active'[t] = active[t]
           /\ active[t] => size'[t] = size[t]
           /\ active[t] /\ t \in FileSlot => open'[fd'[t]] = open[fd[t]],
         SameContent(d, o)'
  PROVE  ExactInv'
<1>1. TypeOK /\ LoopInv /\ pc = "replicate" /\ pc' = "replicate" /\ ntasks \in 0 .. MaxTasks /\ ntasks > 0
  BY DEF IInv, Copying, TypeOK, LoopInv
<1>2. /\ d \in Slot /\ o \in Slot /\ o = Source(d)
      /\ d[1] >= ntasks /\ o[1] < ntasks /\ ~Passed(d) /\ o # d
  BY <1>1, Position
<1>3. \A s \in Slot : Passed(s)' <=> Passed(s) \/ s = d
  BY <1>1, Advanced
<1>4. CountInv'
  <2>1. rep'.mult = rep.mult /\ rep'.dst = (IF rep.kind = "wbuf" THEN rep.dst + 1 ELSE rep.dst)
    BY <1>1 DEF Advance, TypeOK
  <2>2. rep.mult \in Int /\ rep.dst \in Int
    BY <1>1, LoopNumbers
  <2>3. Product(rep.mult)' = Product(rep.mult)
    BY <2>1 DEF Product, Narrow
  <2>4. Product(rep.mult) \in Int /\ rep.dst < Product(rep.mult)
    BY <1>1, LoopNumbers DEF Copying
  <2>5. rep'.dst <= Product(rep.mult)
    BY <2>1, <2>2, <2>4
  <2>6. QED
    BY <1>1, <2>1, <2>3, <2>5 DEF ExactInv, CountInv
<1>5. FreshInv'
  <2>1. \A s \in Slot : s[1] >= ntasks /\ ~Passed(s)' => ~active'[s]
    BY <1>1, <1>3 DEF ExactInv, FreshInv
  <2>2. QED
    BY <1>1, <2>1 DEF FreshInv, FreshBeyond
<1>6. \A s \in Slot : Source(s)' = Source(s)
  BY DEF Source
<1>7. CopiedInv'
  <2>1. ASSUME NEW s \in Slot, s[1] >= ntasks, Passed(s)'
        PROVE  SameContent(s, Source(s))'
    <3>1. CASE s = d
      BY <1>2, <1>6, <3>1 DEF SameContent
    <3>2. CASE s # d
      <4>1. SameContent(s, Source(s))
        BY <1>1, <1>3, <2>1, <3>2 DEF ExactInv, CopiedInv
      <4>2. Source(s) \in Slot /\ Source(s)[1] \in 0 .. ntasks - 1 /\ (s \in FileSlot => Source(s) \in FileSlot)
        <5>1. s[1] \in Task /\ s[2] \in Kind /\ s = <<s[1], s[2]>>
          BY <1>1, <2>1 DEF Slot, Owner, Glob
        <5>2. s[1] % ntasks \in 0 .. ntasks - 1
          BY <1>1, <5>1, ModRange DEF Task
        <5>3. s[1] % ntasks \in Task
          BY <1>1, <5>2 DEF Task
        <5>4. s \in FileSlot => s[2] \in FileKind
          BY DEF FileSlot
        <5>5. Source(s) = <<s[1] % ntasks, s[2]>>
          BY DEF Source
        <5>6. Source(s) \in Slot /\ (s[2] \in FileKind => Source(s) \in FileSlot)
          BY <5>1, <5>3, <5>5, TaskSlots
        <5>7. QED
          BY <5>2, <5>4, <5>5, <5>6, <1>1
      <4>3. Source(s) # d
        BY <1>1, <1>2, <4>2
      <4>4. QED
        BY <1>6, <3>2, <4>1, <4>2, <4>3 DEF SameContent
    <3>3. QED
      BY <3>1, <3>2
  <2>2. QED
    BY <1>1, <2>1 DEF CopiedInv
<1>8. QED
  BY <1>1, <1>4, <1>5, <1>7 DEF ExactInv, NoAbort

\* Each step of gpu_replicate's loop keeps the copies exact.
LEMMA ReplicateExact ==
  ASSUME IInv, ExactInv, Replicate
  PROVE  ExactInv'
<1>1. TypeOK /\ LoopInv /\ TableInv /\ TableType
  BY DEF IInv, TableInv
<1>2. ASSUME Copying
      PROVE  ~active[Dst] /\ Src \in Slot /\ Dst \in Slot /\ Src # Dst
  BY <1>1, <1>2, Position DEF ExactInv, FreshInv, Copying
<1>3. CASE SkipInactive
  <2>1. Copying /\ Advance /\ ~active[Src] /\ UNCHANGED <<pc, ntasks, active, size, fd, open>>
    BY <1>3 DEF SkipInactive, table
  <2> DEFINE d == Dst
             o == Src
  <2>2. ASSUME NEW x, x = Dst, NEW y, y = Src
        PROVE  SameContent(x, y)'
    <3>1. active[x] = FALSE /\ active[y] = FALSE
      BY <1>1, <1>2, <2>1, <2>2 DEF TableType
    <3>2. QED
      BY <2>1, <3>1 DEF SameContent
  <2>3. QED
    BY <2>1, <2>2, CopyStep
<1>4. CASE DupAssert
  BY <1>2, <1>4 DEF DupAssert
<1>5. CASE DupFile
  <2>1. Copying /\ Advance /\ active[Src] /\ UNCHANGED <<pc, ntasks>> /\ rep.kind \in FileKind
    BY <1>5 DEF DupFile, MayDup
  <2>2. PICK e \in Fds : /\ open[e] = Closed
                         /\ open' = [open EXCEPT ![e] = open[fd[Src]]]
                         /\ fd' = [fd EXCEPT ![Dst] = e]
    BY <1>5 DEF DupFile, IsNewFd
  <2>3. /\ size' = [size EXCEPT ![Dst] = size[Src]]
        /\ active' = [active EXCEPT ![Dst] = TRUE]
    BY <1>5 DEF DupFile
  <2>4. PICK d : d = Dst
    OBVIOUS
  <2>5. PICK o : o = Src
    OBVIOUS
  <2>6. d \in FileSlot /\ o \in FileSlot /\ d \in Slot /\ o \in Slot /\ d # o
    BY <1>1, <2>1, <2>4, <2>5, Position
  <2>7. \A t \in FileSlot : active[t] => fd[t] \in Fds /\ fd[t] # e
    BY <1>1, <2>2 DEF TableInv, FdInv, ActiveFiles
  <2>8. fd'[d] = e /\ \A t \in FileSlot \ {d} : fd'[t] = fd[t]
    BY <1>1, <2>2, <2>4, <2>6 DEF TableType
  <2>9. open'[e] = open[fd[o]] /\ \A x \in Fds \ {e} : open'[x] = open[x]
    BY <1>1, <2>2, <2>5 DEF TableType
  <2>10. /\ active'[d] = TRUE /\ size'[d] = size[o]
         /\ \A t \in Slot \ {d} : active'[t] = active[t] /\ size'[t] = size[t]
    BY <1>1, <2>3, <2>4, <2>5, <2>6 DEF TableType
  <2>11. active[o] = TRUE
    BY <1>1, <2>1, <2>5, <2>6 DEF TableType
  <2>12. open'[fd'[o]] = open[fd[o]] /\ open'[fd'[d]] = open[fd[o]]
    BY <2>6, <2>7, <2>8, <2>9, <2>11
  <2>13. SameContent(d, o)'
    BY <2>6, <2>10, <2>11, <2>12 DEF SameContent
  <2>14. \A t \in Slot \ {d} :
           /\ active'[t] = active[t]
           /\ active[t] => size'[t] = size[t]
           /\ active[t] /\ t \in FileSlot => open'[fd'[t]] = open[fd[t]]
    BY <2>7, <2>8, <2>9, <2>10
  <2>15. QED
    BY <2>1, <2>4, <2>5, <2>13, <2>14, CopyStep
<1>6. CASE DupBuf
  <2>1. Copying /\ Advance /\ active[Src] /\ UNCHANGED <<pc, ntasks, fd, open>> /\ rep.kind = "wbuf"
    BY <1>6 DEF DupBuf, MayDup
  <2>2. /\ size' = [size EXCEPT ![Dst] = size[Src]]
        /\ active' = [active EXCEPT ![Dst] = TRUE]
    BY <1>6 DEF DupBuf
  <2>3. PICK d : d = Dst
    OBVIOUS
  <2>4. PICK o : o = Src
    OBVIOUS
  <2>5. d \notin FileSlot /\ d \in Slot /\ o \in Slot /\ d # o
    BY <1>1, <2>1, <2>3, <2>4, Position DEF FileKind
  <2>6. /\ active'[d] = TRUE /\ size'[d] = size[o]
        /\ \A t \in Slot \ {d} : active'[t] = active[t] /\ size'[t] = size[t]
    BY <1>1, <2>2, <2>3, <2>4, <2>5 DEF TableType
  <2>7. active[o] = TRUE
    BY <1>1, <2>1, <2>4, <2>5 DEF TableType
  <2>8. SameContent(d, o)'
    BY <2>5, <2>6, <2>7 DEF SameContent
  <2>9. QED
    BY <2>1, <2>3, <2>4, <2>6, <2>8, CopyStep
<1>7. CASE DupFileFails
  BY <1>7 DEF DupFileFails, Stop, ExactInv, CountInv, FreshInv, FreshBeyond, CopiedInv, NoAbort
<1>8. CASE Replicated
  <2>1. /\ pc = "replicate" /\ pc' = "args" /\ active' = active
        /\ ntasks' = Product(rep.mult) /\ ~(rep.dst < Product(rep.mult))
    BY <1>8 DEF Replicated, Copying, table
  <2>2. /\ ntasks' = rep.dst /\ ntasks <= rep.dst /\ rep.dst \in 0 .. MaxTasks /\ rep.kind = "inst"
        /\ ntasks \in 0 .. MaxTasks
    <3>1. rep.dst <= Product(rep.mult)
      BY <2>1 DEF ExactInv, CountInv
    <3>2. rep.dst = Product(rep.mult)
      BY <1>1, <2>1, <3>1, LoopNumbers
    <3>3. rep.kind = "inst"
      BY <1>1, <2>1 DEF LoopInv
    <3>4. QED
      BY <1>1, <2>1, <3>2, <3>3, LoopNumbers
  <2>3. ASSUME NEW s \in Slot, s[1] >= ntasks'
        PROVE  ~active[s]
    <3>1. s[2] \in Kind /\ s[1] \in Int
      BY DEF Slot, Owner, Glob, Task
    <3>2. Turn[s[2]] \in 0 .. 3 /\ Turn[rep.kind] = 0
      BY <2>2, <3>1 DEF Turn, Kind, FileKind
    <3>3. ~Passed(s) /\ s[1] >= ntasks
      BY <2>2, <2>3, <3>1, <3>2 DEF Passed
    <3>4. QED
      BY <2>1, <3>3 DEF ExactInv, FreshInv
  <2>4. QED
    BY <2>1, <2>3 DEF ExactInv, CountInv, FreshInv, FreshBeyond, CopiedInv, NoAbort
<1>9. QED
  BY <1>3, <1>4, <1>5, <1>6, <1>7, <1>8 DEF Replicate

\* Each handler of command_execute leaves the slots beyond the tasks empty.
LEMMA HandlerExact ==
  ASSUME NoWrap, IInv, ExactInv, Handler
  PROVE  ExactInv'
<1>1. TypeOK /\ TableType /\ pc = "args" /\ ntasks \in 0 .. MaxTasks
  BY DEF IInv, TypeOK, TableInv, Handler, HandleI, HandleU, HandleR, HandleW, HandleX,
         HandleIFails, RejectArgument, EndOfArguments
<1>2. \A s \in Slot : s[1] >= ntasks => ~active[s]
  BY <1>1 DEF ExactInv, FreshInv, FreshBeyond
<1>3. Current < ntasks
  BY <1>1 DEF Current, Glob
<1>4. ASSUME pc' = "args",
             \A s \in Slot : s[1] >= ntasks' => ~active'[s]
      PROVE  ExactInv'
  BY <1>4 DEF ExactInv, CountInv, FreshInv, FreshBeyond, CopiedInv, NoAbort
<1>5. \A s \in Slot : s[1] \in Int
  BY DEF Slot, Owner, Glob, Task
<1>6. ASSUME NEW f \in Files, HandleI(f)
      PROVE  ExactInv'
  <2>1. /\ pc' = "args" /\ ntasks' = ntasks + 1
        /\ active' = [active EXCEPT ![<<ntasks, "inst">>] = TRUE]
    BY <1>1, <1>6 DEF HandleI, SetFile
  <2>2. \A s \in Slot : s[1] >= ntasks' => ~active'[s]
    <3> SUFFICES ASSUME NEW s \in Slot, s[1] >= ntasks' PROVE ~active'[s]
      OBVIOUS
    <3>1. s[1] >= ntasks /\ s[1] # ntasks
      BY <1>1, <1>5, <2>1
    <3>2. s # <<ntasks, "inst">>
      BY <3>1
    <3>3. active'[s] = active[s]
      BY <1>1, <2>1, <3>2 DEF TableType
    <3>4. QED
      BY <1>2, <3>1, <3>3
  <2>3. QED
    BY <1>4, <2>1, <2>2
<1>7. ASSUME NEW k \in Kind, active' = [active EXCEPT ![<<Current, k>>] = TRUE],
             UNCHANGED <<pc, ntasks>>
      PROVE  ExactInv'
  <2>1. \A s \in Slot : s[1] >= ntasks' => ~active'[s]
    <3> SUFFICES ASSUME NEW s \in Slot, s[1] >= ntasks PROVE ~active'[s]
      BY <1>7
    <3>1. s[1] # Current
      BY <1>1, <1>3, <1>5 DEF Current, Glob
    <3>2. s # <<Current, k>>
      BY <3>1
    <3>3. active'[s] = active[s]
      BY <1>1, <1>7, <3>2 DEF TableType
    <3>4. QED
      BY <1>2, <3>3
  <2>2. QED
    BY <1>1, <1>4, <1>7, <2>1
<1>8. ASSUME NEW f \in Files, HandleU(f) \/ HandleR(f)
      PROVE  ExactInv'
  BY <1>7, <1>8 DEF HandleU, HandleR, SetFile, Kind, FileKind
<1>9. ASSUME NEW n \in Numbers, HandleW(n)
      PROVE  ExactInv'
  BY <1>7, <1>9 DEF HandleW, Kind
<1>10. ASSUME NEW m \in Numbers, HandleX(m)
       PROVE  ExactInv'
  <2>1. /\ pc' = "replicate" /\ m > 1 /\ UNCHANGED <<ntasks, active>>
        /\ rep' = [mult |-> m, dst |-> ntasks, kind |-> "inst"]
    BY <1>10 DEF HandleX, table
  <2>2. Product(m) = m * ntasks /\ m \in Int
    BY <1>1, <2>1, ExactProduct
  <2>3. ntasks <= m * ntasks
    BY <1>1, <2>1, <2>2
  <2>4. CountInv'
    <3>1. rep'.mult = m /\ rep'.dst = ntasks
      BY <2>1
    <3>2. Product(rep.mult)' = Product(m)
      BY <2>1, <3>1 DEF Product, Narrow
    <3>3. QED
      BY <2>1, <2>2, <2>3, <3>1, <3>2 DEF CountInv
  <2>5. FreshInv'
    BY <1>2, <2>1 DEF FreshInv, FreshBeyond
  <2>6. CopiedInv'
    <3>1. ASSUME NEW s \in Slot, s[1] >= ntasks
          PROVE  ~Passed(s)'
      <4>1. rep'.dst = ntasks /\ Turn[rep'.kind] = 0
        BY <2>1 DEF Turn
      <4>2. Turn[s[2]] \in 0 .. 3 /\ s[1] \in Int
        BY <1>5 DEF Slot, Turn, Kind, FileKind
      <4>3. QED
        BY <1>1, <3>1, <4>1, <4>2 DEF Passed
    <3>2. QED
      BY <2>1, <3>1 DEF CopiedInv
  <2>7. QED
    BY <2>1, <2>4, <2>5, <2>6 DEF ExactInv, NoAbort
<1>11. CASE HandleIFails \/ RejectArgument \/ EndOfArguments
  BY <1>11 DEF HandleIFails, RejectArgument, EndOfArguments, Stop, ExactInv, CountInv,
               FreshInv, FreshBeyond, CopiedInv, NoAbort
<1>12. QED
  BY <1>6, <1>8, <1>9, <1>10, <1>11 DEF Handler

\* Every step keeps the copies exact, under NoWrap.
LEMMA ExactStep ==
  ASSUME NoWrap, IInv, ExactInv, [Next]_vars
  PROVE  ExactInv'
<1>1. CASE Execute \/ Cleanup
  <2>1. pc' # "abort"
    BY <1>1 DEF Execute, Cleanup, IInv, InstInv
  <2>2. pc' # "args" /\ pc' # "replicate"
    BY <1>1 DEF Execute, Cleanup
  <2>3. QED
    BY <2>1, <2>2 DEF ExactInv, CountInv, FreshInv, FreshBeyond, CopiedInv, NoAbort
<1>2. CASE UNCHANGED vars
  <2>1. UNCHANGED <<pc, ntasks, active, size, fd, open, rep>>
    BY <1>2 DEF vars, table
  <2>2. QED
    BY <2>1 DEF ExactInv, CountInv, FreshInv, FreshBeyond, CopiedInv, NoAbort, Product, Narrow,
                Passed, SameContent, Source
<1>3. QED
  BY <1>1, <1>2, HandlerExact, ReplicateExact DEF Next, Terminated

\* The copies are exact from the beginning.
LEMMA ExactInit ==
  ASSUME Init
  PROVE  ExactInv
BY DEF Init, ExactInv, CountInv, FreshInv, FreshBeyond, CopiedInv, NoAbort

-----------------------------------------------------------------------------

\* The invariants that the theorems rest on, together.
LEMMA Exactly == ASSUME NoWrap PROVE Spec => [](IInv /\ ExactInv)
BY InitInv, NextInv, ExactInit, ExactStep, PTL DEF Spec

\* Between arguments no slot beyond the counted tasks is in use, as dup_file's
\* and dup_buf's assertions say (gpu.c:304, gpu.c:320).
THEOREM Fresh == ASSUME NoWrap PROVE Spec => []FreshBeyond
<1>1. ExactInv => FreshBeyond
  BY DEF ExactInv, FreshInv
<1>2. QED
  BY <1>1, Exactly, PTL

\* The assertions of dup_file, dup_buf and link_mem never fail.
THEOREM NeverAborts == ASSUME NoWrap PROVE Spec => []NoAbort
<1>1. ExactInv => NoAbort
  BY DEF ExactInv
<1>2. QED
  BY <1>1, Exactly, PTL

\* What a gpu_replicate that returns SUCCESS has done.
LEMMA ReplicatedExactly ==
  ASSUME IInv, ExactInv, Replicated
  PROVE  /\ ntasks' = rep.mult * ntasks
         /\ \A d \in 0 .. ntasks' - 1 : \A k \in Kind : CopyOf(d, d % ntasks, k)
<1>1. /\ pc = "replicate" /\ UNCHANGED <<active, size, fd, open>>
      /\ ntasks' = Product(rep.mult) /\ ~(rep.dst < Product(rep.mult))
  BY DEF Replicated, Copying, table
<1>2. /\ ntasks' = rep.mult * ntasks /\ rep.dst = ntasks'
      /\ rep.dst \in 0 .. MaxTasks /\ ntasks \in 1 .. MaxTasks
  <2>1. TypeOK /\ LoopInv /\ rep.dst <= Product(rep.mult) /\ Product(rep.mult) = rep.mult * ntasks
    BY <1>1 DEF IInv, ExactInv, CountInv
  <2>2. QED
    BY <1>1, <2>1, LoopNumbers
<1>3. ASSUME NEW d \in 0 .. ntasks' - 1, NEW k \in Kind
      PROVE  CopyOf(d, d % ntasks, k)
  <2>1. d \in Task /\ <<d, k>> \in Slot /\ (k \in FileKind => <<d, k>> \in FileSlot)
    <3>1. d \in Task
      BY <1>2 DEF Task
    <3>2. QED
      BY <3>1, TaskSlots
  <2>2. CASE d < ntasks
    <3>1. d % ntasks = d
      BY <1>2, <2>2
    <3>2. QED
      BY <1>1, <3>1 DEF CopyOf
  <2>3. CASE d >= ntasks
    <3>1. Passed(<<d, k>>)
      BY <1>2 DEF Passed
    <3>2. SameContent(<<d, k>>, <<d % ntasks, k>>)
      BY <1>1, <2>1, <2>3, <3>1 DEF ExactInv, CopiedInv, Source
    <3>3. QED
      BY <1>1, <2>1, <3>2 DEF CopyOf, SameContent
  <2>4. QED
    BY <1>2, <2>2, <2>3
<1>4. QED
  BY <1>2, <1>3

\* When gpu_replicate returns SUCCESS there are mult times as many tasks, and
\* each is a copy, with descriptors of its own, of the task it stems from.
THEOREM Replication == ASSUME NoWrap PROVE Spec => ReplicationExact
<1>1. IInv /\ ExactInv /\ [Next]_vars =>
        [Replicated =>
          /\ ntasks' = rep.mult * ntasks
          /\ \A d \in 0 .. ntasks' - 1 : \A k \in Kind : CopyOf(d, d % ntasks, k)]_vars
  BY ReplicatedExactly
<1>2. QED
  BY <1>1, Exactly, PTL DEF Spec, ReplicationExact

-----------------------------------------------------------------------------
(* The table implements the list of tasks of TaskList.                     *)

\* After the step slot s holds what it held before.
SameSlot(s) ==
  /\ active'[s] = active[s]
  /\ active[s] => size'[s] = size[s]
  /\ active[s] /\ s \in FileSlot => open'[fd'[s]] = open[fd[s]]

\* An owner and a kind name a slot, with a descriptor if the kind is a file's.
LEMMA EntrySlots ==
  ASSUME NEW o \in Owner, NEW k \in Kind, <<o, k>> \in Slot
  PROVE  <<o, k>> \in FileSlot <=> k \in FileKind
BY DEF Slot, FileSlot, FileKind, Kind

\* An owner all of whose slots are kept has the entry it had.
LEMMA KeepEntry ==
  ASSUME NEW o \in Owner, \A k \in Kind : <<o, k>> \in Slot => SameSlot(<<o, k>>)
  PROVE  Entry(o)' = Entry(o)
<1>1. ASSUME NEW k \in Kind
      PROVE  (IF <<o, k>> \notin Slot \/ ~active'[<<o, k>>] THEN Closed
              ELSE IF k \in FileKind THEN open'[fd'[<<o, k>>]] ELSE size'[<<o, k>>])
           = (IF <<o, k>> \notin Slot \/ ~active[<<o, k>>] THEN Closed
              ELSE IF k \in FileKind THEN open[fd[<<o, k>>]] ELSE size[<<o, k>>])
  BY EntrySlots DEF SameSlot
<1>2. QED
  BY <1>1 DEF Entry

\* An owner one of whose slots is filled has an entry with one more component.
LEMMA FillEntry ==
  ASSUME NEW o \in Owner, NEW k \in Kind, <<o, k>> \in Slot, NEW c,
         ~active[<<o, k>>], active'[<<o, k>>],
         c = IF k \in FileKind THEN open'[fd'[<<o, k>>]] ELSE size'[<<o, k>>],
         \A t \in Slot \ {<<o, k>>} : SameSlot(t)
  PROVE  /\ Entry(o)[k] = Closed
         /\ Entry(o)' = [Entry(o) EXCEPT ![k] = c]
         /\ \A p \in Owner \ {o} : Entry(p)' = Entry(p)
<1>1. Entry(o)[k] = Closed
  BY DEF Entry
<1>2. \A p \in Owner \ {o} : Entry(p)' = Entry(p)
  BY KeepEntry
<1>3. ASSUME NEW j \in Kind \ {k}
      PROVE  Entry(o)'[j] = Entry(o)[j]
  <2>1. <<o, j>> \in Slot => SameSlot(<<o, j>>)
    OBVIOUS
  <2>2. QED
    BY <2>1, EntrySlots DEF SameSlot, Entry
<1>4. Entry(o)'[k] = c
  BY DEF Entry
<1>5. Entry(o)' = [j \in Kind |-> Entry(o)'[j]] /\ Entry(o) = [j \in Kind |-> Entry(o)[j]]
  BY DEF Entry
<1>6. QED
  BY <1>1, <1>2, <1>3, <1>4, <1>5

\* An open file stored in an empty slot: no other slot changes, and no
\* descriptor that a slot holds is used for it.
LEMMA StoredFile ==
  ASSUME TableInv, NEW s \in FileSlot, NEW d \in Fds, NEW f,
         ~active[s], open[d] = Closed,
         open' = [open EXCEPT ![d] = f],
         fd' = [fd EXCEPT ![s] = d],
         \E n : size' = [size EXCEPT ![s] = n],
         active' = [active EXCEPT ![s] = TRUE]
  PROVE  /\ active'[s] /\ open'[fd'[s]] = f
         /\ \A t \in Slot \ {s} : SameSlot(t)
<1>1. s \in Slot /\ TableType /\ FdInv
  BY DEF TableInv, FileSlot, Slot, FileKind, Kind
<1>2. active'[s] /\ open'[fd'[s]] = f
  BY <1>1 DEF TableType
<1>3. ASSUME NEW t \in Slot \ {s}
      PROVE  SameSlot(t)
  <2>1. active'[t] = active[t] /\ size'[t] = size[t]
    BY <1>1 DEF TableType
  <2>2. ASSUME t \in FileSlot, active[t]
        PROVE  open'[fd'[t]] = open[fd[t]]
    <3>1. fd'[t] = fd[t] /\ fd[t] \in Fds /\ fd[t] # d
      BY <1>1, <2>2 DEF TableType, FdInv, ActiveFiles
    <3>2. QED
      BY <1>1, <3>1 DEF TableType
  <2>3. QED
    BY <2>1, <2>2 DEF SameSlot
<1>4. QED
  BY <1>2, <1>3

\* The owners of the entries the list is made of.
LEMMA ListOwners ==
  ASSUME TypeOK
  PROVE  /\ Glob \in Owner /\ \A i \in 1 .. ntasks : i - 1 \in Owner \ {Glob}
         /\ \A k \in Kind \ {"inst"} : <<Glob, k>> \in Slot
         /\ ntasks \in Nat
BY DEF TypeOK, Owner, Task, Slot, Kind, FileKind, Glob

\* A step that keeps the slots of the counted tasks and the global ones keeps
\* the list.
LEMMA KeepList ==
  ASSUME TypeOK, ntasks' = ntasks,
         \A s \in Slot : s[1] < ntasks => SameSlot(s),
         Over' = Over
  PROVE  List' = List /\ Common' = Common
<1>1. /\ Glob \in Owner /\ \A i \in 1 .. ntasks : i - 1 \in Owner \ {Glob} /\ i - 1 < ntasks
      /\ Glob < ntasks
  BY ListOwners DEF Glob, TypeOK
<1>2. Entry(Glob)' = Entry(Glob)
  BY <1>1, KeepEntry
<1>3. \A i \in 1 .. ntasks : Entry(i - 1)' = Entry(i - 1)
  BY <1>1, KeepEntry
<1>4. QED
  BY <1>2, <1>3 DEF List, Common

\* TaskList's kinds are those of the table, and so are its blank entries.
LEMMA Blanks == Lists!Kind = Kind /\ Lists!Blank = [k \in Kind |-> Closed]
BY DEF Lists!Blank, Lists!Kind, Lists!FileKind, Kind, FileKind

\* While arguments are handled the list is in the making.
LEMMA Building ==
  ASSUME pc \in {"args", "replicate"}
  PROVE  /\ Status = "building" /\ ~Over
         /\ List = [i \in 1 .. ntasks |-> Entry(i - 1)] /\ Common = Entry(Glob)
BY DEF Status, Over, List, Common

\* A step that ends in cleanup with the error flag set drops the list.
LEMMA Failing ==
  ASSUME pc' = "cleanup" \/ pc' = "exit", error' = TRUE
  PROVE  Status' = "failed" /\ List' = <<>> /\ Common' = Lists!Blank
BY Blanks DEF Status, Over, List, Common

\* handle_i adds a task that has instructions and nothing else.
LEMMA AddsTask ==
  ASSUME NoWrap, IInv, ExactInv, NEW f \in Files, HandleI(f)
  PROVE  f \in Offers["inst"] /\ Lists!Add(f)
<1>1. /\ TypeOK /\ TableInv /\ pc = "args" /\ pc' = "args" /\ ntasks < MaxTasks
      /\ ntasks \in 0 .. MaxTasks /\ ntasks' = ntasks + 1
  BY DEF IInv, HandleI, TypeOK
<1>o. PICK o : o = ntasks
  OBVIOUS
<1> DEFINE s == <<o, "inst">>
<1>2. s \in FileSlot /\ s \in Slot /\ o \in Owner /\ "inst" \in Kind /\ "inst" \in FileKind
  BY <1>1, <1>o, InstSlots DEF Owner, Task, Kind, FileKind, FileSlot, Slot
<1>3. PICK d \in Fds : /\ open[d] = Closed
                       /\ open' = [open EXCEPT ![d] = f]
                       /\ fd' = [fd EXCEPT ![s] = d]
  BY <1>o DEF HandleI, SetFile, IsNewFd
<1>4. /\ ~active[s] /\ Loadable(f, "inst")
      /\ size' = [size EXCEPT ![s] = FileSize[f]] /\ active' = [active EXCEPT ![s] = TRUE]
  BY <1>o DEF HandleI, SetFile
<1>5. /\ active'[s] /\ open'[fd'[s]] = f
      /\ \A t \in Slot \ {s} : SameSlot(t)
  BY <1>1, <1>2, <1>3, <1>4, StoredFile
<1>6. /\ Entry(o)' = [Entry(o) EXCEPT !["inst"] = f]
      /\ \A p \in Owner \ {o} : Entry(p)' = Entry(p)
  BY <1>2, <1>4, <1>5, FillEntry
<1>7. Entry(o) = Lists!Blank
  <2>1. \A t \in Slot : t[1] >= ntasks => ~active[t]
    BY <1>1 DEF ExactInv, FreshInv, FreshBeyond
  <2>2. \A k \in Kind : <<o, k>> \in Slot => ~active[<<o, k>>]
    BY <1>1, <1>o, <2>1
  <2>3. QED
    BY <2>2, Blanks DEF Entry
<1>8. /\ Status = "building" /\ Status' = "building"
      /\ List = [i \in 1 .. ntasks |-> Entry(i - 1)] /\ Common = Entry(Glob)
      /\ List' = [i \in 1 .. ntasks + 1 |-> Entry(i - 1)'] /\ Common' = Entry(Glob)'
  <2>1. pc \in {"args", "replicate"} /\ pc' \in {"args", "replicate"}
    BY <1>1
  <2>2. Status' = "building" /\ List' = [i \in 1 .. ntasks' |-> Entry(i - 1)'] /\ Common' = Entry(Glob)'
    BY <2>1 DEF Status, Over, List, Common
  <2>3. QED
    BY <1>1, <2>1, <2>2, Building
<1>9. Common' = Common
  BY <1>1, <1>o, <1>6, <1>8, ListOwners DEF Glob
<1>10. /\ \A i \in 1 .. ntasks : Entry(i - 1)' = Entry(i - 1)
       /\ Entry(o)' = [Lists!Blank EXCEPT !["inst"] = f]
  BY <1>1, <1>o, <1>6, <1>7, ListOwners
<1>11. Len(List) = ntasks /\ List' = Append(List, [Lists!Blank EXCEPT !["inst"] = f])
  <2> DEFINE e == [Lists!Blank EXCEPT !["inst"] = f]
  <2>1. Entry(o)' = e
    BY <1>10
  <2> HIDE DEF e
  <2>2. Len(List) = ntasks /\ Append(List, e) = [i \in 1 .. ntasks + 1 |-> IF i = ntasks + 1 THEN e ELSE Entry(i - 1)]
    BY <1>1, <1>8
  <2>3. \A i \in 1 .. ntasks + 1 : Entry(i - 1)' = IF i = ntasks + 1 THEN e ELSE Entry(i - 1)
    <3> TAKE i \in 1 .. ntasks + 1
    <3>1. CASE i = ntasks + 1
      <4>1. i - 1 = o
        BY <1>1, <1>o, <3>1
      <4>2. QED
        BY <2>1, <3>1, <4>1
    <3>2. CASE i # ntasks + 1
      BY <1>1, <1>10, <3>2
    <3>3. QED
      BY <3>1, <3>2
  <2>4. List' = Append(List, e)
    BY <1>8, <2>2, <2>3
  <2>5. QED
    BY <2>2, <2>4 DEF e
<1>12. f \in Offers["inst"]
  BY <1>2, <1>4 DEF Offers
<1>13. QED
  BY <1>1, <1>8, <1>9, <1>11, <1>12 DEF Lists!Add

\* A handler that fills one slot of the last task, or of the global entry while
\* there is no task, gives the list what it says.
LEMMA Gives ==
  ASSUME TypeOK, pc = "args", pc' = "args", ntasks' = ntasks,
         NEW k \in Kind \ {"inst"}, NEW o, o = Current, <<o, k>> \in Slot,
         NEW c, c = IF k \in FileKind THEN open'[fd'[<<o, k>>]] ELSE size'[<<o, k>>],
         ~active[<<o, k>>], active'[<<o, k>>],
         \A t \in Slot \ {<<o, k>>} : SameSlot(t)
  PROVE  Lists!GiveAll(k, c) \/ Lists!GiveLast(k, c)
<1>1. ntasks \in Nat /\ o = (IF ntasks > 0 THEN ntasks - 1 ELSE Glob) /\ o \in Owner
      /\ Glob \in Owner /\ \A i \in 1 .. ntasks : i - 1 \in Owner \ {Glob}
  BY ListOwners DEF Current
<1>2. /\ Entry(o)[k] = Closed
      /\ Entry(o)' = [Entry(o) EXCEPT ![k] = c]
      /\ \A p \in Owner \ {o} : Entry(p)' = Entry(p)
  BY <1>1, FillEntry
<1>3. /\ Status = "building" /\ Status' = "building"
      /\ List = [i \in 1 .. ntasks |-> Entry(i - 1)] /\ Common = Entry(Glob)
      /\ List' = [i \in 1 .. ntasks |-> Entry(i - 1)'] /\ Common' = Entry(Glob)'
  BY Building DEF Status, Over, List, Common
<1>4. CASE ntasks = 0
  <2>1. o = Glob /\ List = <<>> /\ List' = <<>>
    BY <1>1, <1>3, <1>4
  <2>2. Common[k] = Closed /\ Common' = [Common EXCEPT ![k] = c]
    BY <1>2, <1>3, <2>1
  <2>3. QED
    BY <1>3, <2>1, <2>2 DEF Lists!GiveAll
<1>5. CASE ntasks > 0
  <2>1. o = ntasks - 1 /\ o # Glob
    BY <1>1, <1>5 DEF Glob
  <2>2. Common' = Common
    BY <1>1, <1>2, <1>3, <2>1
  <2>3. Len(List) = ntasks /\ List # <<>> /\ List[ntasks] = Entry(o)
    BY <1>1, <1>3, <1>5, <2>1
  <2>4. ASSUME NEW i \in 1 .. ntasks
        PROVE  Entry(i - 1)' = IF i = ntasks THEN [List[ntasks] EXCEPT ![k] = c] ELSE List[i]
    <3>1. CASE i = ntasks
      BY <1>2, <2>1, <2>3, <3>1
    <3>2. CASE i # ntasks
      <4>1. i - 1 \in Owner \ {o}
        BY <1>1, <2>1, <3>2
      <4>2. QED
        BY <1>2, <1>3, <3>2, <4>1
    <3>3. QED
      BY <3>1, <3>2
  <2>5. List' = [List EXCEPT ![ntasks][k] = c]
    <3>1. [List EXCEPT ![ntasks][k] = c]
            = [i \in 1 .. ntasks |-> IF i = ntasks THEN [List[ntasks] EXCEPT ![k] = c] ELSE List[i]]
      BY <1>1, <1>3, <1>5
    <3>2. QED
      BY <1>3, <2>4, <3>1
  <2>6. List[ntasks][k] = Closed
    BY <1>2, <2>3
  <2>7. QED
    BY <1>3, <2>2, <2>3, <2>5, <2>6 DEF Lists!GiveLast
<1>6. QED
  BY <1>1, <1>4, <1>5

\* u and r give the last task, or all of them, a file.
LEMMA GivesFile ==
  ASSUME IInv, ExactInv, NEW f \in Files, NEW k \in {"unif", "rbuf"}, pc = "args",
         SetFile(<<Current, k>>, f), UNCHANGED <<pc, ntasks>>
  PROVE  f \in Offers[k] /\ (Lists!GiveAll(k, f) \/ Lists!GiveLast(k, f))
<1>1. TypeOK /\ TableInv /\ TableType
  BY DEF IInv, TableInv
<1>2. PICK o : o = Current
  OBVIOUS
<1> DEFINE s == <<o, k>>
<1>3. s \in FileSlot /\ s \in Slot /\ k \in FileKind /\ k \in Kind \ {"inst"}
  BY <1>1, <1>2, CurrentSlots DEF TypeOK, FileSlot, Slot, FileKind, Kind
<1>4. PICK d \in Fds : /\ open[d] = Closed
                       /\ open' = [open EXCEPT ![d] = f]
                       /\ fd' = [fd EXCEPT ![s] = d]
  BY <1>2 DEF SetFile, IsNewFd
<1>5. /\ ~active[s] /\ Loadable(f, k)
      /\ size' = [size EXCEPT ![s] = FileSize[f]] /\ active' = [active EXCEPT ![s] = TRUE]
  BY <1>2 DEF SetFile
<1>6. /\ active'[s] /\ open'[fd'[s]] = f
      /\ \A t \in Slot \ {s} : SameSlot(t)
  BY <1>1, <1>3, <1>4, <1>5, StoredFile
<1>7. Lists!GiveAll(k, f) \/ Lists!GiveLast(k, f)
  BY <1>1, <1>2, <1>3, <1>5, <1>6, Gives
<1>8. f \in Offers[k]
  BY <1>3, <1>5 DEF Offers
<1>9. QED
  BY <1>7, <1>8

\* w gives the last task, or all of them, a size, which is not narrowed.
LEMMA GivesSize ==
  ASSUME NoWrap, IInv, ExactInv, NEW n \in Numbers, HandleW(n)
  PROVE  n \in Offers["wbuf"] /\ (Lists!GiveAll("wbuf", n) \/ Lists!GiveLast("wbuf", n))
<1>1. TypeOK /\ TableType
  BY DEF IInv, TableInv
<1>2. PICK o : o = Current
  OBVIOUS
<1> DEFINE s == <<o, "wbuf">>
<1>3. s \in BufSlot /\ s \in Slot /\ "wbuf" \in Kind \ {"inst"} /\ "wbuf" \notin FileKind
  BY <1>1, <1>2, CurrentSlots DEF TypeOK, BufSlot, Slot, FileKind, Kind
<1>4. /\ pc = "args" /\ n > 0 /\ ~active[s]
      /\ size' = [size EXCEPT ![s] = Narrow(n)] /\ active' = [active EXCEPT ![s] = TRUE]
      /\ UNCHANGED <<pc, ntasks, fd, open>>
  BY <1>2 DEF HandleW
<1>5. Narrow(n) = n
  <2>1. n \in Int /\ n * MaxTasks < U32 /\ MaxTasks \in Nat \ {0} /\ n > 0
    BY <1>4 DEF NoWrap
  <2>2. n <= n * MaxTasks
    BY <2>1
  <2>3. n \in 0 .. U32 - 1
    BY <2>1, <2>2
  <2>4. QED
    BY <2>3 DEF Narrow
<1>6. active'[s] /\ size'[s] = n /\ \A t \in Slot \ {s} : SameSlot(t)
  BY <1>1, <1>3, <1>4, <1>5 DEF TableType, SameSlot
<1>7. Lists!GiveAll("wbuf", n) \/ Lists!GiveLast("wbuf", n)
  BY <1>1, <1>2, <1>3, <1>4, <1>6, Gives
<1>8. n \in Offers["wbuf"]
  BY <1>3, <1>4 DEF Offers
<1>9. QED
  BY <1>7, <1>8

\* While gpu_replicate copies, the list stays what it was: the slots it fills
\* belong to tasks that do not count yet.
LEMMA CopiesUnseen ==
  ASSUME IInv, ExactInv, SkipInactive \/ DupFile \/ DupBuf
  PROVE  UNCHANGED Lists!vars
<1>1. TypeOK /\ LoopInv /\ TableInv /\ TableType /\ pc = "replicate" /\ Copying
      /\ UNCHANGED <<pc, error, ntasks>>
  BY DEF IInv, TableInv, SkipInactive, DupFile, DupBuf, MayDup, Copying
<1>2. PICK d : d = Dst
  OBVIOUS
<1>3. d \in Slot /\ d[1] >= ntasks /\ ~active[d] /\ (d \in FileSlot <=> rep.kind \in FileKind)
  BY <1>1, <1>2, Position DEF ExactInv, FreshInv
<1>4. \A t \in Slot \ {d} : SameSlot(t)
  <2>1. CASE SkipInactive
    BY <2>1 DEF SkipInactive, table, SameSlot
  <2>2. CASE DupFile
    <3>1. PICK e \in Fds : /\ open[e] = Closed
                           /\ open' = [open EXCEPT ![e] = open[fd[Src]]]
                           /\ fd' = [fd EXCEPT ![d] = e]
      BY <1>2, <2>2 DEF DupFile, IsNewFd
    <3>2. PICK f : f = open[fd[Src]]
      OBVIOUS
    <3>3. /\ \E n : size' = [size EXCEPT ![d] = n]
          /\ active' = [active EXCEPT ![d] = TRUE]
      BY <1>2, <2>2 DEF DupFile
    <3>4. d \in FileSlot /\ open' = [open EXCEPT ![e] = f]
      BY <1>3, <2>2, <3>1, <3>2 DEF DupFile
    <3>5. QED
      BY <1>1, <1>3, <3>1, <3>3, <3>4, StoredFile
  <2>3. CASE DupBuf
    <3>1. /\ size' = [size EXCEPT ![d] = size[Src]] /\ active' = [active EXCEPT ![d] = TRUE]
          /\ UNCHANGED <<fd, open>>
      BY <1>2, <2>3 DEF DupBuf
    <3>2. QED
      BY <1>1, <3>1 DEF TableType, SameSlot
  <2>4. QED
    BY <2>1, <2>2, <2>3
<1>5. \A s \in Slot : s[1] < ntasks => SameSlot(s)
  <2>1. ASSUME NEW s \in Slot, s[1] < ntasks
        PROVE  s # d
    <3>1. s[1] \in Int /\ ntasks \in Int
      BY <1>1 DEF Slot, Owner, Glob, Task, TypeOK
    <3>2. QED
      BY <1>3, <2>1, <3>1
  <2>2. QED
    BY <1>4, <2>1
<1>6. Status' = Status /\ Over' = Over
  BY <1>1 DEF Status, Over
<1>7. List' = List /\ Common' = Common
  BY <1>1, <1>5, <1>6, KeepList
<1>8. QED
  BY <1>6, <1>7 DEF Lists!vars

\* A gpu_replicate that succeeds repeats the list.
LEMMA Repeats ==
  ASSUME IInv, ExactInv, Replicated
  PROVE  \E n \in 2 .. MaxTasks : Lists!Repeat(n)
<1>1. TypeOK /\ LoopInv /\ TableType /\ pc = "replicate" /\ pc' = "args"
      /\ UNCHANGED <<active, size, fd, open>>
  BY DEF IInv, TableInv, Replicated, table
<1>2. /\ rep.mult \in Int /\ rep.mult > 1 /\ ntasks \in 1 .. MaxTasks
      /\ rep.mult * ntasks \in 1 .. MaxTasks /\ rep.mult * ntasks = ntasks'
  <2>1. rep.mult > 1 /\ Product(rep.mult) = rep.mult * ntasks
    BY <1>1 DEF ExactInv, CountInv
  <2>2. /\ rep.mult \in Int /\ ntasks \in 1 .. MaxTasks
        /\ Product(rep.mult) \in 0 .. MaxTasks
    BY <1>1, LoopNumbers
  <2>3. rep.mult * ntasks >= 1
    BY <2>1, <2>2
  <2>4. QED
    BY <2>1, <2>2, <2>3, ReplicatedExactly
<1>3. PICK n : n = rep.mult
  OBVIOUS
<1>4. PICK m : m = ntasks
  OBVIOUS
<1>5. n \in 2 .. MaxTasks
  <2>1. n <= n * m
    BY <1>2, <1>3, <1>4
  <2>2. QED
    BY <1>2, <1>3, <1>4, <2>1
<1>6. /\ m \in 1 .. MaxTasks /\ n * m \in 1 .. MaxTasks
      /\ Status = "building" /\ Status' = "building"
      /\ List = [i \in 1 .. m |-> Entry(i - 1)] /\ Common = Entry(Glob)
      /\ List' = [i \in 1 .. n * m |-> Entry(i - 1)'] /\ Common' = Entry(Glob)'
  <2>1. Status' = "building" /\ List' = [i \in 1 .. ntasks' |-> Entry(i - 1)'] /\ Common' = Entry(Glob)'
    BY <1>1 DEF Status, Over, List, Common
  <2>2. QED
    BY <1>1, <1>2, <1>3, <1>4, <2>1, Building
<1>7. \A o \in Owner : Entry(o)' = Entry(o)
  BY <1>1 DEF Entry
<1>8. ASSUME NEW i \in 1 .. n * m
      PROVE  Entry(i - 1) = List[((i - 1) % m) + 1]
  <2>1. /\ i - 1 \in 0 .. ntasks' - 1 /\ i - 1 \in Task
        /\ (i - 1) % m \in 0 .. m - 1 /\ (i - 1) % m \in Task
    <3>1. i - 1 \in Int /\ m \in Nat \ {0} /\ i - 1 \in Task
      BY <1>6 DEF Task
    <3>2. (i - 1) % m \in 0 .. m - 1
      BY <3>1, ModRange
    <3>3. i - 1 \in 0 .. ntasks' - 1
      BY <1>2, <1>3, <1>4
    <3>4. 0 .. m - 1 \subseteq Task
      BY <1>6 DEF Task
    <3>5. QED
      BY <3>1, <3>2, <3>3, <3>4
  <2> DEFINE o == i - 1
             e == (i - 1) % m
  <2>2. \A k \in Kind : CopyOf(o, e, k)
    BY <1>4, <2>1, ReplicatedExactly
  <2>3. o \in Task /\ e \in Task /\ e \in 0 .. m - 1
    BY <2>1
  <2>4. List[e + 1] = Entry(e)
    <3> HIDE DEF e
    <3>1. e + 1 \in 1 .. m /\ (e + 1) - 1 = e
      BY <1>6, <2>3
    <3>2. QED
      BY <1>6, <3>1
  <2>5. Entry(o) = Entry(e)
    <3> HIDE DEF o, e
    <3>1. ASSUME NEW k \in Kind
          PROVE  /\ <<o, k>> \in Slot /\ <<e, k>> \in Slot /\ active[<<o, k>>] = active[<<e, k>>]
                 /\ active[<<e, k>>] => size[<<o, k>>] = size[<<e, k>>]
                 /\ active[<<e, k>>] /\ k \in FileKind => open[fd[<<o, k>>]] = open[fd[<<e, k>>]]
      BY <1>1, <2>2, <2>3, TaskSlots DEF CopyOf
    <3>2. QED
      BY <3>1 DEF Entry
  <2>6. QED
    BY <2>4, <2>5
<1>9. Len(List) = m
  BY <1>6
<1>10. List' = [i \in 1 .. n * m |-> List[((i - 1) % m) + 1]]
  <2>1. \A i \in 1 .. n * m : Entry(i - 1)' = List[((i - 1) % m) + 1]
    <3> TAKE i \in 1 .. n * m
    <3>1. i - 1 \in Owner
      BY <1>6 DEF Owner, Task
    <3>2. QED
      BY <1>7, <1>8, <3>1
  <2>2. QED
    BY <1>6, <2>1
<1>11. Common' = Common
  BY <1>6, <1>7 DEF Owner
<1>12. Lists!Repeat(n)
  BY <1>6, <1>9, <1>10, <1>11 DEF Lists!Repeat
<1>13. QED
  BY <1>5, <1>12

\* A step that touches neither the table nor the count keeps the list while it
\* is not over.
LEMMA SameTableSameList ==
  ASSUME UNCHANGED <<ntasks, table>>, ~Over, ~Over'
  PROVE  List' = List /\ Common' = Common
BY DEF List, Common, Entry, table

\* Each handler of command_execute is a step of the list.
LEMMA HandlerLists ==
  ASSUME NoWrap, IInv, ExactInv, Handler
  PROVE  [Lists!Next]_(Lists!vars)
<1>1. CASE \E f \in Files : HandleI(f)
  BY <1>1, AddsTask DEF Lists!Next
<1>2. CASE \E f \in Files : HandleU(f) \/ HandleR(f)
  <2>1. PICK f \in Files, k \in {"unif", "rbuf"} :
          pc = "args" /\ SetFile(<<Current, k>>, f) /\ UNCHANGED <<pc, ntasks>>
    BY <1>2 DEF HandleU, HandleR
  <2>2. f \in Offers[k] /\ (Lists!GiveAll(k, f) \/ Lists!GiveLast(k, f))
    BY <2>1, GivesFile
  <2>3. k \in Lists!Kind \ {"inst"}
    BY Blanks DEF Kind, FileKind
  <2>4. QED
    BY <2>2, <2>3 DEF Lists!Next
<1>3. CASE \E n \in Numbers : HandleW(n)
  <2>1. "wbuf" \in Lists!Kind \ {"inst"}
    BY Blanks DEF Kind, FileKind
  <2>2. QED
    BY <1>3, <2>1, GivesSize DEF Lists!Next
<1>4. CASE \E n \in Numbers : HandleX(n)
  <2>1. pc = "args" /\ pc' = "replicate" /\ UNCHANGED <<ntasks, table>>
    BY <1>4 DEF HandleX
  <2>2. Status' = Status /\ ~Over /\ ~Over'
    BY <2>1 DEF Status, Over
  <2>3. QED
    BY <2>1, <2>2, SameTableSameList DEF Lists!vars
<1>5. CASE HandleIFails \/ RejectArgument
  <2>1. pc = "args" /\ pc' = "cleanup" /\ error' = TRUE
    BY <1>5 DEF HandleIFails, RejectArgument, Stop
  <2>2. QED
    BY <2>1, Building, Failing DEF Lists!Next, Lists!Fail, Lists!End
<1>6. CASE EndOfArguments
  <2>1. pc = "args" /\ pc' = "execute" /\ UNCHANGED <<ntasks, table>>
    BY <1>6 DEF EndOfArguments
  <2>2. Status = "building" /\ Status' = "accepted" /\ ~Over /\ ~Over'
    BY <2>1 DEF Status, Over
  <2>3. QED
    BY <2>1, <2>2, SameTableSameList DEF Lists!Next, Lists!Accept
<1>7. QED
  BY <1>1, <1>2, <1>3, <1>4, <1>5, <1>6 DEF Handler

\* gpu_exec_via_mbox executes the list as it stands, and gpu_cleanup drops it.
LEMMA FinishLists ==
  ASSUME IInv, Execute \/ Cleanup
  PROVE  [Lists!Next]_(Lists!vars)
<1>1. TypeOK
  BY DEF IInv
<1>2. CASE Execute
  <2>1. /\ pc = "execute" /\ pc' = "cleanup" /\ error' \in BOOLEAN /\ UNCHANGED <<ntasks, table>>
    BY <1>1, <1>2 DEF Execute, IInv, InstInv, TypeOK
  <2>2. Status = "accepted" /\ ~Over
    BY <2>1 DEF Status, Over
  <2>3. CASE error' = TRUE
    BY <2>1, <2>2, <2>3, Failing DEF Lists!Next, Lists!Fail, Lists!End
  <2>4. CASE error' = FALSE
    <3>1. Status' = "executed" /\ ~Over'
      BY <2>1, <2>4 DEF Status, Over
    <3>2. QED
      BY <2>1, <2>2, <3>1, SameTableSameList DEF Lists!Next, Lists!Execute
  <2>5. QED
    BY <2>1, <2>3, <2>4
<1>3. CASE Cleanup
  <2>1. pc = "cleanup" /\ pc' = "exit" /\ error \in BOOLEAN /\ error' \in BOOLEAN /\ (error => error')
    BY <1>1, <1>3 DEF Cleanup, TypeOK
  <2>2. CASE error = TRUE
    <3>1. error' = TRUE
      BY <2>1, <2>2
    <3>2. Status = "failed" /\ List = <<>> /\ Common = Lists!Blank
      BY <2>1, <2>2, Blanks DEF Status, Over, List, Common
    <3>3. QED
      BY <2>1, <3>1, <3>2, Failing DEF Lists!vars
  <2>3. CASE error = FALSE
    <3>1. Status = "executed"
      BY <2>1, <2>3 DEF Status
    <3>2. CASE error' = TRUE
      BY <2>1, <3>1, <3>2, Failing DEF Lists!Next, Lists!Fail, Lists!End
    <3>3. CASE error' = FALSE
      <4>1. Status' = "succeeded" /\ List' = <<>> /\ Common' = Lists!Blank
        BY <2>1, <3>3, Blanks DEF Status, Over, List, Common
      <4>2. QED
        BY <3>1, <4>1 DEF Lists!Next, Lists!Succeed, Lists!End
    <3>4. QED
      BY <2>1, <3>2, <3>3
  <2>4. QED
    BY <2>1, <2>2, <2>3
<1>4. QED
  BY <1>2, <1>3

\* The command implements the list of tasks that its arguments spell: for every
\* command line, whatever fails, what is executed is that list, each x having
\* repeated it exactly, and a list that failed is dropped.
THEOREM ListRefinement == ASSUME NoWrap PROVE Spec => ListSpec
<1>1. Init => Lists!Init
  <2> SUFFICES ASSUME Init PROVE Lists!Init
    OBVIOUS
  <2>1. pc = "args" /\ ntasks = 0 /\ \A s \in Slot : ~active[s]
    BY DEF Init
  <2>2. Status = "building" /\ List = <<>> /\ Common = Entry(Glob)
    BY <2>1, Building
  <2>3. Entry(Glob) = Lists!Blank
    BY <2>1, Blanks DEF Entry
  <2>4. QED
    BY <2>2, <2>3 DEF Lists!Init
<1>2. ASSUME IInv, ExactInv, ExactInv', [Next]_vars
      PROVE  [Lists!Next]_(Lists!vars)
  <2>1. CASE Handler
    BY <1>2, <2>1, HandlerLists
  <2>2. CASE SkipInactive \/ DupFile \/ DupBuf
    BY <1>2, <2>2, CopiesUnseen
  <2>3. CASE DupAssert
    BY <1>2, <2>3 DEF DupAssert, ExactInv, NoAbort
  <2>4. CASE DupFileFails
    <3>1. pc = "replicate" /\ pc' = "cleanup" /\ error' = TRUE
      BY <2>4 DEF DupFileFails, MayDup, Copying, Stop
    <3>2. QED
      BY <3>1, Building, Failing DEF Lists!Next, Lists!Fail, Lists!End
  <2>5. CASE Replicated
    BY <1>2, <2>5, Repeats DEF Lists!Next
  <2>6. CASE Execute \/ Cleanup
    BY <1>2, <2>6, FinishLists
  <2>7. CASE UNCHANGED vars
    <3>1. UNCHANGED <<pc, error, ntasks, active, size, fd, open>>
      BY <2>7 DEF vars, table
    <3>2. QED
      BY <3>1 DEF Lists!vars, Status, List, Common, Over, Entry
  <2>8. QED
    BY <1>2, <2>1, <2>2, <2>3, <2>4, <2>5, <2>6, <2>7 DEF Next, Replicate, Terminated
<1>3. QED
  BY <1>1, <1>2, Exactly, PTL DEF Spec, ListSpec, Lists!Spec

-----------------------------------------------------------------------------
(* No descriptor is lost, in builds without assertions as well: the slots  *)
(* that files are stored in are empty ones.                                *)

\* A file stored in an empty slot leaves every open descriptor owned.
LEMMA StoreOwned ==
  ASSUME TableInv, NoLeak, NEW s \in FileSlot, NEW d \in Fds, NEW f,
         ~active[s],
         open' = [open EXCEPT ![d] = f],
         fd' = [fd EXCEPT ![s] = d],
         active' = [active EXCEPT ![s] = TRUE]
  PROVE  NoLeak'
<1>1. s \in Slot /\ TableType /\ FileSlot \subseteq Slot
  BY DEF TableInv, FileSlot, Slot, FileKind, Kind
<1>2. /\ active'[s] /\ fd'[s] = d
      /\ \A t \in FileSlot \ {s} : active'[t] = active[t] /\ fd'[t] = fd[t]
      /\ \A e \in Fds \ {d} : open'[e] = open[e]
  BY <1>1 DEF TableType
<1>3. ASSUME NEW e \in Fds, open'[e] # Closed
      PROVE  \E t \in ActiveFiles' : fd'[t] = e
  <2>1. CASE e = d
    BY <1>2, <2>1 DEF ActiveFiles
  <2>2. CASE e # d
    <3>1. PICK t \in ActiveFiles : fd[t] = e
      BY <1>2, <1>3, <2>2 DEF NoLeak
    <3>2. QED
      BY <1>2, <3>1 DEF ActiveFiles
  <2>3. QED
    BY <2>1, <2>2
<1>4. QED
  BY <1>3 DEF NoLeak

\* A step that leaves descriptors and file slots alone loses none.
LEMMA SameOwned ==
  ASSUME NoLeak, UNCHANGED <<fd, open>>, \A t \in FileSlot : active'[t] = active[t]
  PROVE  NoLeak'
BY DEF NoLeak, ActiveFiles

\* Every step leaves every open descriptor owned, under NoWrap.
LEMMA OwnedStep ==
  ASSUME IInv, ExactInv, NoLeak, [Next]_vars
  PROVE  NoLeak'
<1>1. TypeOK /\ LoopInv /\ TableInv /\ TableType
  BY DEF IInv, TableInv
<1>2. ASSUME NEW s \in FileSlot, NEW f \in Files, SetFile(s, f)
      PROVE  NoLeak'
  <2>1. PICK d \in Fds : open' = [open EXCEPT ![d] = f] /\ fd' = [fd EXCEPT ![s] = d]
    BY <1>2 DEF SetFile
  <2>2. ~active[s] /\ active' = [active EXCEPT ![s] = TRUE]
    BY <1>2 DEF SetFile
  <2>3. QED
    BY <1>1, <2>1, <2>2, StoreOwned
<1>3. ASSUME NEW s \in BufSlot, active' = [active EXCEPT ![s] = TRUE], UNCHANGED <<fd, open>>
      PROVE  NoLeak'
  <2>1. s \notin FileSlot /\ FileSlot \subseteq Slot
    BY DEF BufSlot, FileSlot, Slot, FileKind, Kind
  <2>2. QED
    BY <1>1, <1>3, <2>1, SameOwned DEF TableType
<1>4. CASE \E f \in Files : HandleI(f) \/ HandleU(f) \/ HandleR(f)
  <2>1. PICK f \in Files : HandleI(f) \/ HandleU(f) \/ HandleR(f)
    BY <1>4
  <2>2. PICK s \in FileSlot : SetFile(s, f)
    <3>1. ntasks \in 0 .. MaxTasks
      BY <1>1 DEF TypeOK
    <3>2. HandleI(f) => <<ntasks, "inst">> \in FileSlot
      <4>1. HandleI(f) => ntasks \in Task
        BY <3>1 DEF HandleI, Task
      <4>2. QED
        BY <4>1, TaskSlots
    <3>3. QED
      BY <2>1, <3>1, <3>2, CurrentSlots DEF HandleI, HandleU, HandleR
  <2>3. QED
    BY <1>2, <2>2
<1>5. CASE \E n \in Numbers : HandleW(n)
  <2>1. PICK n \in Numbers : HandleW(n)
    BY <1>5
  <2>2. PICK s : s = <<Current, "wbuf">>
    OBVIOUS
  <2>3. s \in BufSlot
    BY <1>1, <2>2, CurrentSlots DEF TypeOK
  <2>4. active' = [active EXCEPT ![s] = TRUE] /\ UNCHANGED <<fd, open>>
    BY <2>1, <2>2 DEF HandleW
  <2>5. QED
    BY <1>3, <2>3, <2>4
<1>6. CASE DupFile
  <2>1. PICK s : s = Dst
    OBVIOUS
  <2>2. PICK f : f = open[fd[Src]]
    OBVIOUS
  <2>3. Copying /\ rep.kind \in FileKind /\ pc = "replicate"
    BY <1>6 DEF DupFile, MayDup, Copying
  <2>4. s \in FileSlot /\ ~active[s]
    BY <1>1, <2>1, <2>3, Position DEF ExactInv, FreshInv
  <2>5. PICK d \in Fds : open' = [open EXCEPT ![d] = f] /\ fd' = [fd EXCEPT ![s] = d]
    BY <1>6, <2>1, <2>2 DEF DupFile
  <2>6. active' = [active EXCEPT ![s] = TRUE]
    BY <1>6, <2>1 DEF DupFile
  <2>7. QED
    BY <1>1, <2>4, <2>5, <2>6, StoreOwned
<1>7. CASE DupBuf
  <2>1. PICK s : s = Dst
    OBVIOUS
  <2>2. Copying /\ rep.kind = "wbuf" /\ active' = [active EXCEPT ![s] = TRUE] /\ UNCHANGED <<fd, open>>
    BY <1>7, <2>1 DEF DupBuf, MayDup
  <2>3. s \in BufSlot
    BY <1>1, <2>1, <2>2, CopySlots DEF Dst
  <2>4. QED
    BY <1>3, <2>2, <2>3
<1>8. CASE Cleanup
  <2>1. \A d \in Fds : open'[d] = Closed
    BY <1>1, <1>8 DEF Cleanup, NoLeak, TableType
  <2>2. QED
    BY <2>1 DEF NoLeak
<1>9. CASE UNCHANGED table
  BY <1>9, SameOwned DEF table
<1>10. QED
  BY <1>4, <1>5, <1>6, <1>7, <1>8, <1>9
  DEF Next, Handler, HandleX, HandleIFails, RejectArgument, EndOfArguments, Replicate,
      SkipInactive, DupAssert, DupFileFails, Replicated, Execute, Terminated, vars

\* When the product does not wrap the active slots own the open descriptors one
\* to one at every step and gpu_cleanup leaves none open: also in builds without
\* assertions, and after a gpu_replicate that failed half way.
THEOREM Released == ASSUME NoWrap PROVE Spec => [](DescriptorsOwned /\ CleanExit)
<1>1. Init => NoLeak /\ ExitInv
  BY DEF Init, NoLeak, ExitInv
<1>2. IInv /\ NoLeak /\ ExitInv => DescriptorsOwned /\ CleanExit
  BY DEF IInv, TableInv, FdInv, NoLeak, ExitInv, DescriptorsOwned, CleanExit
<1>3. IInv /\ ExactInv /\ NoLeak /\ ExitInv /\ [Next]_vars => NoLeak' /\ ExitInv'
  BY OwnedStep, ExitStep
<1>4. QED
  BY <1>1, <1>2, <1>3, Exactly, PTL DEF Spec
=============================================================================
