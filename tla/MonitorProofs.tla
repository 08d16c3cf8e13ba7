----------------------------- MODULE MonitorProofs -----------------------------
(***************************************************************************)
(* Proofs of the safety properties of Monitor, for any number of tasks,    *)
(* any debug registers with fields of any width, any clock and any number  *)
(* of programs of other processes.                                         *)
(*                                                                         *)
(* Each property has an inductive invariant of its own, all over Typed:    *)
(* Timed (the clock readings), Remembered (what the monitor of -d holds),  *)
(* Counted (the programs and their events), Written (which regions were    *)
(* dumped) and Final (what the dumps hold).                                *)
(***************************************************************************)
EXTENDS Monitor, FiniteSetTheorems, SequenceTheorems, TLAPS

Early == {"dump0", "enable", "debug_before", "time0"}
Late  == {"time1", "debug_after", "dump1", "wbufs", "debug_print", "time_print", "disable"}
Labels == Early \union {"exec"} \union Late \union {"end"}

Line == [region : Owner \union {All}, image : SUBSET Task, lost : {"nothing", "some", "all"}]

Typed ==
  /\ pc \in Labels /\ opt \in Option /\ ntasks \in 1 .. MaxTasks
  /\ wbufs \subseteq {Glob} \union Tasks
  /\ error \in BOOLEAN
  /\ next \in 1 .. MaxTasks + 2 \union 1 .. Len(DebugRegs) + 1
  /\ stdout \in Seq(Line) /\ complaints \in Nat
  /\ before \in [Field -> Int] /\ after \in [Field -> Int]
  /\ \A f \in Field : before[f] \in 0 .. Width[f] - 1 /\ after[f] \in 0 .. Width[f] - 1
  /\ queued \in BOOLEAN /\ done \subseteq Tasks
  /\ events \in [Field -> Int]
  /\ seen \in [before : [Field -> Int], after : [Field -> Int]]
  /\ others \in Nat /\ clock \in Nat

-----------------------------------------------------------------------------
(* Arithmetic                                                              *)

\* Quotient and remainder are unique.
LEMMA DivisionUnique ==
  ASSUME NEW m \in Nat \ {0}, NEW q \in Int, NEW r \in 0 .. m - 1
  PROVE  (q * m + r) \div m = q /\ (q * m + r) % m = r
OBVIOUS

\* Division with remainder.
LEMMA Division ==
  ASSUME NEW m \in Nat \ {0}, NEW x \in Int
  PROVE  /\ x \div m \in Int /\ x % m \in 0 .. m - 1
         /\ x = (x \div m) * m + (x % m)
         /\ x >= 0 => x \div m >= 0
OBVIOUS

\* A difference of remainders is the remainder of the difference.
LEMMA RemainderOfDifference ==
  ASSUME NEW m \in Nat \ {0}, NEW x \in Int, NEW y \in Int
  PROVE  ((x % m) - (y % m)) % m = (x - y) % m
<1> DEFINE q == (x \div m) - (y \div m)
           d == (x % m) - (y % m)
<1>1. d \in Int /\ q \in Int /\ x - y = q * m + d
  BY Division
<1>2. d = (d \div m) * m + (d % m) /\ d \div m \in Int /\ d % m \in 0 .. m - 1
  BY <1>1, Division
<1>3. x - y = (q + (d \div m)) * m + (d % m)
  <2> HIDE DEF q, d
  <2>1. (q + (d \div m)) * m = q * m + (d \div m) * m
    BY <1>1, <1>2
  <2>2. QED
    BY <1>1, <1>2, <2>1
<1>4. (x - y) % m = d % m
  <2>1. q + (d \div m) \in Int
    BY <1>1, <1>2
  <2> HIDE DEF q, d
  <2>2. ((q + (d \div m)) * m + (d % m)) % m = d % m
    BY <2>1, <1>2, DivisionUnique
  <2>3. QED
    BY <2>2, <1>3
<1>5. QED
  BY <1>4

-----------------------------------------------------------------------------
(* Types                                                                   *)

\* Where Move leads.
LEMMA Follow ==
  /\ Following["dump0"] = "enable" /\ Following["enable"] = "debug_before"
  /\ Following["debug_before"] = "time0" /\ Following["time0"] = "exec"
  /\ Following["exec"] = "time1" /\ Following["time1"] = "debug_after"
  /\ Following["debug_after"] = "dump1" /\ Following["dump1"] = "wbufs"
  /\ Following["wbufs"] = "debug_print" /\ Following["debug_print"] = "time_print"
  /\ Following["time_print"] = "disable"
BY DEF Following

\* A move leads to another label, and starts a loop anew.
LEMMA MoveOn ==
  ASSUME pc \in Labels \ {"disable", "end"}, Move
  PROVE  pc' \in Labels \ {"dump0"} /\ pc' = Following[pc] /\ next' = 1
BY Follow DEF Move, Labels, Early, Late

\* print_mem appends one line.
LEMMA PrintMemType ==
  ASSUME Typed, NEW region \in Owner \union {All}, PrintMem(region)
  PROVE  /\ stdout' \in Seq(Line) /\ complaints' \in Nat
         /\ Len(stdout') = Len(stdout) + 1
         /\ \A i \in 1 .. Len(stdout) : stdout'[i] = stdout[i]
         /\ stdout'[Len(stdout')].region = region
         /\ stdout'[Len(stdout')].image = Image(region)
         /\ complaints' = complaints +
              (IF stdout'[Len(stdout')].lost = "nothing" THEN 0 ELSE 1)
<1>1. PICK lost \in {"nothing", "some", "all"} :
        /\ stdout' = Append(stdout, [region |-> region, image |-> Image(region), lost |-> lost])
        /\ complaints' = complaints + (IF lost = "nothing" THEN 0 ELSE 1)
  BY DEF PrintMem
<1>2. Image(region) \in SUBSET Task
  BY MaxTasksAssumption DEF Typed, Image, Tasks, Task
<1> DEFINE line == [region |-> region, image |-> Image(region), lost |-> lost]
<1>3. line \in Line /\ line.region = region /\ line.image = Image(region) /\ line.lost = lost
  BY <1>2 DEF Line
<1>4. stdout \in Seq(Line) /\ complaints \in Nat
  BY DEF Typed
<1> HIDE DEF line
<1>5. stdout' = Append(stdout, line)
  BY <1>1 DEF line
<1>6. QED
  BY <1>1, <1>3, <1>4, <1>5

\* dump_all prints the memory at most once.
LEMMA DumpAllType ==
  ASSUME Typed, NEW wanted \in BOOLEAN, DumpAll(wanted)
  PROVE  stdout' \in Seq(Line) /\ complaints' \in Nat
BY PrintMemType DEF DumpAll, Typed

\* A reading takes each field of one register modulo its width.
LEMMA ReadType ==
  ASSUME NEW reading \in [Field -> Int], events \in [Field -> Int],
         \A f \in Field : reading[f] \in 0 .. Width[f] - 1
  PROVE  /\ Read(reading) \in [Field -> Int]
         /\ \A f \in Field : Read(reading)[f] \in 0 .. Width[f] - 1
BY FieldsAssumption DEF Read

\* See keeps the history of readings a history of readings.
LEMMA SeeType ==
  ASSUME seen \in [before : [Field -> Int], after : [Field -> Int]],
         events \in [Field -> Int], NEW moment \in {"before", "after"}, See(moment)
  PROVE  seen' \in [before : [Field -> Int], after : [Field -> Int]]
BY DEF See

\* One more event of a field.
LEMMA EventType ==
  ASSUME events \in [Field -> Int], NEW f \in Field, NEW n \in Int,
         events' = [events EXCEPT ![f] = @ + n]
  PROVE  events' \in [Field -> Int]
<1>1. events[f] + n \in Int
  OBVIOUS
<1>2. QED
  BY <1>1

\* Types at the start.
LEMMA TypedInit == Init => Typed
<1> SUFFICES ASSUME Init PROVE Typed
  OBVIOUS
<1>1. \A f \in Field : Width[f] \in Nat \ {0}
  BY FieldsAssumption
<1>2. events \in [Field -> Int]
  BY FieldsAssumption DEF Init
<1>3. clock \in Nat
  BY ClockAssumption DEF Init
<1>4. DebugRegs \in Seq(DOMAIN Fields)
  BY FieldsAssumption
<1>5. next \in 1 .. MaxTasks + 2 \union 1 .. Len(DebugRegs) + 1
  BY <1>4, MaxTasksAssumption DEF Init
<1>6. ntasks \in 1 .. MaxTasks /\ wbufs \subseteq {Glob} \union Tasks /\ opt \in Option
  BY OptionsAssumption DEF Init
<1>7. stdout \in Seq(Line) /\ pc \in Labels
  BY DEF Init, Labels, Early
<1>8. /\ before \in [Field -> Int] /\ after \in [Field -> Int]
      /\ \A f \in Field : before[f] \in 0 .. Width[f] - 1 /\ after[f] \in 0 .. Width[f] - 1
  BY <1>1 DEF Init
<1>9. seen \in [before : [Field -> Int], after : [Field -> Int]]
  BY <1>2 DEF Init
<1>10. error \in BOOLEAN /\ complaints \in Nat /\ queued \in BOOLEAN /\ done \subseteq Tasks
       /\ others \in Nat
  BY DEF Init
<1>11. QED
  BY <1>2, <1>3, <1>5, <1>6, <1>7, <1>8, <1>9, <1>10 DEF Typed

\* Every step keeps the types.
LEMMA TypedStep == Typed /\ [Next]_vars => Typed'
<1> SUFFICES ASSUME Typed, [Next]_vars PROVE Typed'
  OBVIOUS
<1> USE DEF command, world, program
<1>r. Len(DebugRegs) \in Nat
  BY FieldsAssumption
<1>n. 1 \in 1 .. MaxTasks + 2
  BY MaxTasksAssumption
<1>o. opt.dump0 \in BOOLEAN /\ opt.dump1 \in BOOLEAN /\ opt.dry \in BOOLEAN
  BY DEF Typed, Option
<1>1. CASE Dump0
  <2>1. stdout' \in Seq(Line) /\ complaints' \in Nat
    BY <1>1, <1>o, DumpAllType DEF Dump0
  <2>2. pc' \in Labels
    BY <1>1, Follow DEF Dump0, Labels, Early
  <2>3. QED
    BY <1>1, <1>n, <2>1, <2>2 DEF Dump0, Typed, Tasks
<1>2. CASE Dump1
  <2>1. stdout' \in Seq(Line) /\ complaints' \in Nat
    BY <1>2, <1>o, DumpAllType DEF Dump1
  <2>2. pc' \in Labels /\ next' = 1
    BY <1>2, MoveOn DEF Dump1, Typed
  <2>3. QED
    BY <1>2, <1>n, <2>1, <2>2 DEF Dump1, Typed, Tasks
<1>3. CASE DumpWbuf
  <2>1. stdout' \in Seq(Line) /\ complaints' \in Nat
    <3>1. NextOwner \in wbufs => NextOwner \in Owner \union {All}
      BY MaxTasksAssumption DEF Typed, Owner, Tasks, Task
    <3>2. QED
      BY <1>3, <3>1, PrintMemType DEF DumpWbuf, Typed
  <2>2. next' \in 1 .. MaxTasks + 2
    BY <1>3, <1>r, MaxTasksAssumption DEF DumpWbuf, Dumping, Typed
  <2>3. QED
    BY <1>3, <2>1, <2>2 DEF DumpWbuf, Typed, Tasks
<1>4. CASE WbufsDumped
  BY <1>4, <1>n, MoveOn DEF WbufsDumped, Typed, Tasks
<1>5. CASE DebugBefore
  <2>1. before' \in [Field -> Int] /\ \A f \in Field : before'[f] \in 0 .. Width[f] - 1
    BY <1>5, ReadType DEF DebugBefore, Typed
  <2>2. seen' \in [before : [Field -> Int], after : [Field -> Int]]
    BY <1>5, SeeType DEF DebugBefore, Typed
  <2>3. next' \in 1 .. Len(DebugRegs) + 1
    BY <1>5, <1>r, MaxTasksAssumption DEF DebugBefore, Reading, Typed
  <2>4. QED
    BY <1>5, <2>1, <2>2, <2>3 DEF DebugBefore, Typed, Tasks
<1>6. CASE DebugAfter
  <2>1. after' \in [Field -> Int] /\ \A f \in Field : after'[f] \in 0 .. Width[f] - 1
    BY <1>6, ReadType DEF DebugAfter, Typed
  <2>2. seen' \in [before : [Field -> Int], after : [Field -> Int]]
    BY <1>6, SeeType DEF DebugAfter, Typed
  <2>3. next' \in 1 .. Len(DebugRegs) + 1
    BY <1>6, <1>r, MaxTasksAssumption DEF DebugAfter, Reading, Typed
  <2>4. QED
    BY <1>6, <2>1, <2>2, <2>3 DEF DebugAfter, Typed, Tasks
<1>7. CASE ReadingEnds
  BY <1>7, <1>n, MoveOn DEF ReadingEnds, Typed, Tasks
<1>8. CASE DebugPrint
  BY <1>8, <1>n, MoveOn DEF DebugPrint, Typed, Tasks
<1>9. CASE ReadClock
  BY <1>9, <1>n, MoveOn DEF ReadClock, Typed, Tasks
<1>10. CASE PrintTime
  BY <1>10, <1>n, MoveOn DEF PrintTime, Typed, Tasks
<1>11. CASE Enable
  BY <1>11, <1>n, Follow DEF Enable, Typed, Tasks, Labels, Early
<1>12. CASE Exec
  <2>1. events' \in [Field -> Int]
    <3>1. ntasks \in Int /\ "requests" \in Field
      BY FieldsAssumption DEF Typed
    <3>2. QED
      BY <1>12, <3>1, EventType DEF Exec, Typed
  <2>2. QED
    BY <1>12, <2>1 DEF Exec, Typed, Tasks
<1>13. CASE ExecReturns
  BY <1>13, <1>n, MoveOn DEF ExecReturns, Typed, Tasks
<1>14. CASE ExecFails
  BY <1>14, <1>n, MoveOn DEF ExecFails, Typed, Tasks
<1>15. CASE Disable
  BY <1>15 DEF Disable, Typed, Tasks, Labels
<1>16. CASE \E i \in Task : TaskEnds(i)
  <2>1. events' \in [Field -> Int]
    BY <1>16, EventType, FieldsAssumption DEF TaskEnds, Typed
  <2>2. done' \subseteq Tasks
    BY <1>16 DEF TaskEnds, Typed
  <2>3. QED
    BY <1>16, <2>1, <2>2 DEF TaskEnds, Typed, Tasks
<1>17. CASE OtherProgram
  <2>1. PICK f \in {"requests", "completed"} : events' = [events EXCEPT ![f] = @ + 1]
    BY <1>17 DEF OtherProgram
  <2>2. events' \in [Field -> Int] /\ others' \in Nat
    <3>1. f \in Field /\ 1 \in Int
      BY FieldsAssumption
    <3>2. events' \in [Field -> Int]
      BY <2>1, <3>1, EventType DEF Typed
    <3>3. QED
      BY <1>17, <3>2 DEF OtherProgram, Typed
  <2>3. QED
    BY <1>17, <2>2 DEF OtherProgram, Typed, Tasks
<1>18. CASE \E f \in Field : Event(f)
  <2>1. events' \in [Field -> Int]
    BY <1>18 DEF Event, Typed
  <2>2. QED
    BY <1>18, <2>1 DEF Event, Typed, Tasks
<1>19. CASE Tick
  BY <1>19 DEF Tick, Typed, Tasks
<1>20. CASE UNCHANGED vars
  BY <1>20 DEF vars, Typed, Tasks
<1>21. QED
  BY <1>1, <1>2, <1>3, <1>4, <1>5, <1>6, <1>7, <1>8, <1>9, <1>10, <1>11, <1>12, <1>13,
     <1>14, <1>15, <1>16, <1>17, <1>18, <1>19, <1>20
     DEF Next, Program, World, Terminated

-----------------------------------------------------------------------------
(* The time                                                                *)

Timespecs == [sec : Nat, nsec : 0 .. NsPerSec - 1]
Value(t)  == t.sec * NsPerSec + t.nsec

Timed ==
  /\ time \in Seq(Timespecs)
  /\ \A i \in 1 .. Len(time) : Value(time[i]) <= clock
  /\ Len(time) = 2 => Value(time[1]) <= Value(time[2])
  /\ pc \in Early => Len(time) = 0
  /\ pc \in {"exec", "time1"} => Len(time) = IF opt.mtime THEN 1 ELSE 0
  /\ pc \in Late \ {"time1"} => Len(time) = IF opt.mtime THEN 2 ELSE 0
  /\ Len(time) <= 2
  /\ elapsed # Nothing => pc \in {"disable", "end"} /\ TimeTrue

\* The clock in seconds and nanoseconds is the clock.
LEMMA TimespecValue ==
  ASSUME Typed
  PROVE  Timespec \in Timespecs /\ Value(Timespec) = clock
<1>1. NsPerSec \in Nat \ {0} /\ clock \in Int /\ clock >= 0
  BY ClockAssumption DEF Typed
<1>2. /\ clock \div NsPerSec \in Int /\ clock \div NsPerSec >= 0
      /\ clock % NsPerSec \in 0 .. NsPerSec - 1
      /\ clock = (clock \div NsPerSec) * NsPerSec + (clock % NsPerSec)
  BY <1>1, Division
<1>3. /\ Timespec \in [sec : Nat, nsec : 0 .. NsPerSec - 1]
      /\ Timespec.sec = clock \div NsPerSec /\ Timespec.nsec = clock % NsPerSec
  BY <1>2 DEF Timespec
<1>4. QED
  BY <1>2, <1>3 DEF Timespecs, Value

\* timespecsub, its borrow included, and the conversion to microseconds.
LEMMA Elapsed ==
  ASSUME NEW a \in Timespecs, NEW b \in Timespecs, Value(a) <= Value(b)
  PROVE  LET d == TimespecSub(a, b)
             usPerSec == NsPerSec \div NsPerUs
         IN  /\ d.sec >= 0 /\ d.nsec \div NsPerUs \in 0 .. usPerSec - 1
             /\ d.sec * usPerSec + (d.nsec \div NsPerUs) = (Value(b) - Value(a)) \div NsPerUs
<1> DEFINE S == TimespecSub(a, b).sec
           N == TimespecSub(a, b).nsec
           k == NsPerSec \div NsPerUs
           m == N \div NsPerUs
<1>t. /\ a.sec \in Nat /\ b.sec \in Nat
      /\ a.nsec \in 0 .. NsPerSec - 1 /\ b.nsec \in 0 .. NsPerSec - 1
      /\ NsPerSec \in Nat \ {0} /\ NsPerUs \in Nat \ {0}
  BY ClockAssumption DEF Timespecs
<1>1. S \in Int /\ N \in 0 .. NsPerSec - 1 /\ S * NsPerSec + N = Value(b) - Value(a)
  <2>1. CASE b.nsec - a.nsec < 0
    <3>1. S = b.sec - a.sec - 1 /\ N = b.nsec - a.nsec + NsPerSec
      BY <2>1 DEF TimespecSub
    <3>2. (b.sec - a.sec - 1) * NsPerSec = b.sec * NsPerSec - a.sec * NsPerSec - NsPerSec
      BY <1>t
    <3> HIDE DEF S, N
    <3>3. QED
      BY <1>t, <2>1, <3>1, <3>2 DEF Value
  <2>2. CASE ~(b.nsec - a.nsec < 0)
    <3>1. S = b.sec - a.sec /\ N = b.nsec - a.nsec
      BY <2>2 DEF TimespecSub
    <3>2. (b.sec - a.sec) * NsPerSec = b.sec * NsPerSec - a.sec * NsPerSec
      BY <1>t
    <3> HIDE DEF S, N
    <3>3. QED
      BY <1>t, <2>2, <3>1, <3>2 DEF Value
  <2>3. QED
    BY <2>1, <2>2
<1>2. k \in Int /\ k * NsPerUs = NsPerSec
  BY <1>t, ClockAssumption, Division
<1>v. Value(a) \in Int /\ Value(b) \in Int
  BY <1>t DEF Value
<1> HIDE DEF S, N
<1>3. S >= 0
  <2>1. ASSUME S <= -1 PROVE FALSE
    <3>1. S * NsPerSec <= -NsPerSec
      BY <1>1, <1>t, <2>1
    <3>2. QED
      BY <1>1, <1>t, <1>v, <3>1
  <2>2. QED
    BY <1>1, <2>1
<1>4. m \in Int /\ m >= 0 /\ N = m * NsPerUs + (N % NsPerUs) /\ N % NsPerUs \in 0 .. NsPerUs - 1
  <2>1. N \in Int /\ N >= 0
    BY <1>1, <1>t
  <2>2. QED
    BY <2>1, <1>t, Division
<1> HIDE DEF k, m
<1>5. m <= k - 1
  <2>1. ASSUME m >= k PROVE FALSE
    <3>1. m * NsPerUs >= k * NsPerUs
      BY <1>2, <1>4, <1>t, <2>1
    <3>2. QED
      BY <1>1, <1>2, <1>4, <1>t, <3>1
  <2>2. QED
    BY <1>2, <1>4, <2>1
<1>6. S * NsPerSec + N = (S * k + m) * NsPerUs + (N % NsPerUs)
  <2>1. S * NsPerSec = (S * k) * NsPerUs
    BY <1>1, <1>2, <1>t
  <2>2. S * k \in Int
    BY <1>1, <1>2
  <2>3. (S * k + m) * NsPerUs = (S * k) * NsPerUs + m * NsPerUs
    BY <1>4, <1>t, <2>2
  <2>4. (S * k) * NsPerUs \in Int /\ m * NsPerUs \in Int /\ N % NsPerUs \in Int
    BY <1>4, <1>t, <2>2
  <2>5. QED
    BY <1>4, <2>1, <2>3, <2>4
<1>7. (Value(b) - Value(a)) \div NsPerUs = S * k + m
  <2>1. S * k + m \in Int
    BY <1>1, <1>2, <1>4
  <2>2. ((S * k + m) * NsPerUs + (N % NsPerUs)) \div NsPerUs = S * k + m
    BY <2>1, <1>4, <1>t, DivisionUnique
  <2>3. QED
    BY <1>1, <1>6, <2>2
<1>8. QED
  BY <1>3, <1>4, <1>5, <1>7, <1>2 DEF S, N, k, m

\* Before the first reading of the clock.
LEMMA TimedInit == Init => Timed
BY DEF Init, Timed, Early, Late, Nothing

\* Every step keeps the readings in order, at their places in the program.
LEMMA TimedStep == Typed /\ Timed /\ [Next]_vars => Timed'
<1> SUFFICES ASSUME Typed, Timed, [Next]_vars PROVE Timed'
  OBVIOUS
<1> USE DEF command, world, program
<1>v. \A t \in Timespecs : Value(t) \in Int
  BY ClockAssumption DEF Value, Timespecs
<1>q. /\ Early \intersect Late = {} /\ "exec" \notin Early \union Late
      /\ "end" \notin Early \union Late
  BY DEF Early, Late
<1>k. ASSUME time' = time, elapsed' = elapsed, clock' >= clock, clock' \in Int, opt' = opt,
             \/ pc' = pc
             \/ pc' = "end" /\ pc \in Early \union {"disable"}
             \/ pc \notin {"time0", "time1", "disable", "end"} /\ elapsed = Nothing /\ pc' = Following[pc]
      PROVE  Timed'
  <2>1. TimeTrue' = TimeTrue
    BY <1>k DEF TimeTrue
  <2>2. \A i \in 1 .. Len(time) : Value(time[i])' <= clock'
    BY <1>k, <1>v DEF Timed, Typed
  <2>3. /\ pc' \in Early => Len(time) = 0
        /\ pc' \in {"exec", "time1"} => Len(time) = IF opt.mtime THEN 1 ELSE 0
        /\ pc' \in Late \ {"time1"} => Len(time) = IF opt.mtime THEN 2 ELSE 0
        /\ elapsed # Nothing => pc' \in {"disable", "end"}
    BY <1>k, Follow DEF Timed, Typed, Early, Late, Labels
  <2>4. QED
    BY <1>k, <2>1, <2>2, <2>3 DEF Timed
<1>e. elapsed # Nothing => pc \in {"disable", "end"}
  BY DEF Timed
<1>c. clock \in Int /\ clock >= clock
  BY DEF Typed
<1>1. CASE Dump0
  BY <1>1, <1>k, <1>e, <1>c DEF Dump0, Early
<1>2. CASE Dump1
  BY <1>2, <1>k, <1>e, <1>c DEF Dump1, Move
<1>3. CASE DumpWbuf
  BY <1>3, <1>k, <1>c DEF DumpWbuf
<1>4. CASE WbufsDumped
  BY <1>4, <1>k, <1>e, <1>c DEF WbufsDumped, Move
<1>5. CASE DebugBefore
  BY <1>5, <1>k, <1>c DEF DebugBefore
<1>6. CASE DebugAfter
  BY <1>6, <1>k, <1>c DEF DebugAfter
<1>7. CASE ReadingEnds
  BY <1>7, <1>k, <1>e, <1>c DEF ReadingEnds, Move
<1>8. CASE DebugPrint
  BY <1>8, <1>k, <1>e, <1>c DEF DebugPrint, Move
<1>9. CASE ReadClock
  <2>1. elapsed = Nothing /\ elapsed' = Nothing
    BY <1>9, <1>e DEF ReadClock
  <2>2. pc' = IF pc = "time0" THEN "exec" ELSE "debug_after"
    BY <1>9, Follow DEF ReadClock, Move
  <2>3. CASE opt.mtime
    <3>1. time' = Append(time, Timespec) /\ clock' = clock
      BY <1>9, <2>3 DEF ReadClock
    <3>2. /\ time' \in Seq(Timespecs) /\ Len(time') = Len(time) + 1
          /\ \A i \in 1 .. Len(time) : time'[i] = time[i]
          /\ time'[Len(time')] = Timespec
      BY <3>1, TimespecValue DEF Timed
    <3>3. \A i \in 1 .. Len(time') : Value(time'[i]) <= clock
      BY <3>2, <1>c, TimespecValue DEF Timed
    <3>4. Len(time') = IF pc = "time0" THEN 1 ELSE 2
      BY <1>9, <2>3, <3>2 DEF Timed, ReadClock, Early
    <3>5. Len(time') = 2 => Value(time'[1]) <= Value(time'[2])
      <4>1. SUFFICES ASSUME Len(time') = 2 PROVE Value(time'[1]) <= clock /\ time'[2] = Timespec
        BY TimespecValue
      <4>2. QED
        BY <4>1, <3>2, <3>3
    <3>6. QED
      BY <1>9, <2>1, <2>2, <2>3, <3>1, <3>2, <3>3, <3>4, <3>5 DEF Timed, ReadClock, Early, Late
  <2>4. CASE ~opt.mtime
    <3>1. time' = time /\ Len(time) = 0 /\ clock' = clock /\ opt' = opt
      BY <1>9, <2>4 DEF ReadClock, Timed, Early
    <3>2. QED
      BY <2>1, <2>2, <2>4, <3>1 DEF Timed, Early, Late
  <2>5. QED
    BY <2>3, <2>4
<1>10. CASE PrintTime
  <2>1. pc' = "disable" /\ time' = time /\ clock' = clock /\ opt' = opt
    BY <1>10, Follow DEF PrintTime, Move
  <2>2. elapsed' # Nothing => TimeTrue'
    <3>1. CASE opt.mtime
      <4> DEFINE d == TimespecSub(time[1], time[2])
      <4>1. /\ elapsed' = <<d.sec, d.nsec \div NsPerUs>> /\ time' = time
            /\ Len(time) = 2 /\ time[1] \in Timespecs /\ time[2] \in Timespecs
            /\ Value(time[1]) <= Value(time[2])
        BY <1>10, <3>1 DEF PrintTime, Timed, Late
      <4>2. elapsed'[1] = d.sec /\ elapsed'[2] = d.nsec \div NsPerUs
        BY <4>1
      <4> HIDE DEF d
      <4>3. /\ d.sec >= 0 /\ d.nsec \div NsPerUs \in 0 .. (NsPerSec \div NsPerUs) - 1
            /\ d.sec * (NsPerSec \div NsPerUs) + (d.nsec \div NsPerUs)
                 = (Value(time[2]) - Value(time[1])) \div NsPerUs
        BY <4>1, Elapsed DEF d
      <4>4. QED
        BY <4>1, <4>2, <4>3 DEF TimeTrue, Value
    <3>2. CASE ~opt.mtime
      BY <1>10, <1>e, <3>2 DEF PrintTime
    <3>3. QED
      BY <3>1, <3>2
  <2>3. QED
    BY <1>10, <2>1, <2>2 DEF Timed, PrintTime, Early, Late
<1>11. CASE Enable
  BY <1>11, <1>k, <1>e, <1>c DEF Enable, Early
<1>12. CASE Exec
  BY <1>12, <1>k, <1>c DEF Exec
<1>13. CASE ExecReturns
  BY <1>13, <1>k, <1>e, <1>c DEF ExecReturns, Move
<1>14. CASE ExecFails
  BY <1>14, <1>k, <1>e, <1>c DEF ExecFails, Move
<1>15. CASE Disable
  BY <1>15, <1>k, <1>c DEF Disable
<1>16. CASE \E i \in Task : TaskEnds(i)
  BY <1>16, <1>k, <1>c DEF TaskEnds
<1>17. CASE OtherProgram
  BY <1>17, <1>k, <1>c DEF OtherProgram
<1>18. CASE \E f \in Field : Event(f)
  BY <1>18, <1>k, <1>c DEF Event
<1>19. CASE Tick
  BY <1>19, <1>k, <1>c DEF Tick
<1>20. CASE UNCHANGED vars
  BY <1>20, <1>k, <1>c DEF vars
<1>21. QED
  BY <1>1, <1>2, <1>3, <1>4, <1>5, <1>6, <1>7, <1>8, <1>9, <1>10, <1>11, <1>12, <1>13,
     <1>14, <1>15, <1>16, <1>17, <1>18, <1>19, <1>20
     DEF Next, Program, World, Terminated

-----------------------------------------------------------------------------
(* The monitor of -d                                                       *)

\* The first n - 1 registers have been read into reading.
ReadUpTo(reading, then, n) ==
  \A i \in 1 .. Len(DebugRegs) :
    i < n => \A f \in Fields[DebugRegs[i]] : reading[f] = then[f] % Width[f]

AllRead(reading, then) == \A f \in Field : reading[f] = then[f] % Width[f]

Ended == {"time_print", "disable"}

Remembered ==
  opt.mdebug =>
    /\ pc = "debug_before" => ReadUpTo(before, seen.before, next)
    /\ pc \in {"time0", "exec"} \union Late \/ Succeeded => AllRead(before, seen.before)
    /\ pc = "debug_after" => ReadUpTo(after, seen.after, next)
    /\ pc \in Late \ {"time1", "debug_after"} \/ Succeeded => AllRead(after, seen.after)
    /\ pc \in Ended \/ Succeeded => report = [f \in Shown |-> Diff(f)]

\* The numbers that loops count to and with.
LEMMA LoopTypes ==
  ASSUME Typed
  PROVE  Len(DebugRegs) \in Nat /\ next \in Nat \ {0} /\ ntasks \in Nat
<1>1. Len(DebugRegs) \in Nat
  BY FieldsAssumption
<1>2. MaxTasks \in Nat
  BY MaxTasksAssumption
<1>3. next \in Nat \ {0}
  BY <1>1, <1>2 DEF Typed
<1>4. ntasks \in Nat
  BY <1>2 DEF Typed
<1>5. QED
  BY <1>1, <1>3, <1>4

\* A loop over all registers has read all fields.
LEMMA LoopReadsAll ==
  ASSUME NEW reading, NEW then, NEW n \in Nat, n > Len(DebugRegs), ReadUpTo(reading, then, n)
  PROVE  AllRead(reading, then)
<1>1. DebugRegs \in Seq(DOMAIN Fields) /\ DOMAIN DebugRegs = 1 .. Len(DebugRegs)
      /\ Len(DebugRegs) \in Nat
  BY FieldsAssumption
<1>2. QED
  BY <1>1 DEF ReadUpTo, AllRead, Field

\* One register more.
LEMMA LoopReadsNext ==
  ASSUME NEW reading \in [Field -> Int], NEW then \in [Field -> Int],
         NEW reading2, NEW then2, next \in Nat \ {0}, next <= Len(DebugRegs),
         ReadUpTo(reading, then, next),
         reading2 = Read(reading),
         then2 = [f \in Field |-> IF f \in Fields[DebugRegs[next]] THEN events[f] ELSE then[f]]
  PROVE  ReadUpTo(reading2, then2, next + 1)
<1>1. DebugRegs \in Seq(DOMAIN Fields) /\ DOMAIN DebugRegs = 1 .. Len(DebugRegs)
      /\ Len(DebugRegs) \in Nat
  BY FieldsAssumption
<1>2. SUFFICES ASSUME NEW i \in 1 .. Len(DebugRegs), i < next + 1,
                      NEW f \in Fields[DebugRegs[i]]
               PROVE  reading2[f] = then2[f] % Width[f]
  BY DEF ReadUpTo
<1>3. f \in Field
  BY <1>1 DEF Field
<1>4. CASE f \in Fields[DebugRegs[next]]
  BY <1>3, <1>4 DEF Read
<1>5. CASE f \notin Fields[DebugRegs[next]]
  <2>1. i < next
    BY <1>2, <1>5
  <2>2. QED
    BY <1>3, <1>5, <2>1 DEF Read, ReadUpTo
<1>6. QED
  BY <1>4, <1>5

\* Before the first register is read.
LEMMA RememberedInit == Init => Remembered
<1> SUFFICES ASSUME Init PROVE Remembered
  OBVIOUS
<1>1. pc = "dump0"
  BY DEF Init
<1>2. QED
  BY <1>1 DEF Remembered, Late, Ended, Succeeded

\* Every step keeps what the monitor of -d has read, and its report.
LEMMA RememberedStep == Typed /\ Remembered /\ [Next]_vars => Remembered'
<1> SUFFICES ASSUME Typed, Remembered, [Next]_vars PROVE Remembered'
  OBVIOUS
<1> USE DEF command, world, program
<1>r. Len(DebugRegs) \in Nat /\ next \in Nat \ {0}
  BY LoopTypes
<1>k. ASSUME before' = before, after' = after, seen' = seen, report' = report, opt' = opt,
             \/ pc' = pc /\ error' = error /\ (next' = next \/ pc \notin {"debug_before", "debug_after"})
             \/ pc = "dump0" /\ pc' \in {"enable", "end"} /\ (pc' = "end" => opt.dry)
             \/ pc = "enable" /\ pc' \in {"debug_before", "end"} /\ next' = 1
                  /\ (pc' = "end" => error')
             \/ pc \in {"time0", "exec", "time1", "dump1", "wbufs", "time_print"}
                  /\ pc' = Following[pc] /\ next' = 1
             \/ pc = "disable" /\ pc' = "end"
      PROVE  Remembered'
  <2>1. Shown' = Shown /\ \A f : Diff(f)' = Diff(f)
    BY <1>k DEF Shown, Diff
  <2>2. [f \in Shown |-> Diff(f)]' = [f \in Shown |-> Diff(f)]
    BY <2>1
  <2>3. ReadUpTo(before, seen.before, 1) /\ ReadUpTo(after, seen.after, 1)
    BY <1>r DEF ReadUpTo
  <2>4. SUFFICES ASSUME opt.mdebug
                 PROVE  /\ pc' = "debug_before" => ReadUpTo(before, seen.before, next')
                        /\ pc' \in {"time0", "exec"} \union Late \/ Succeeded' =>
                             AllRead(before, seen.before)
                        /\ pc' = "debug_after" => ReadUpTo(after, seen.after, next')
                        /\ pc' \in Late \ {"time1", "debug_after"} \/ Succeeded' =>
                             AllRead(after, seen.after)
                        /\ pc' \in Ended \/ Succeeded' => report = [f \in Shown |-> Diff(f)]
    BY <1>k, <2>2 DEF Remembered, ReadUpTo, AllRead
  <2>5. CASE pc' = pc /\ error' = error
    BY <1>k, <2>4, <2>5 DEF Remembered, Succeeded
  <2>6. CASE pc = "dump0" /\ pc' \in {"enable", "end"} /\ (pc' = "end" => opt.dry)
    BY <1>k, <2>6 DEF Succeeded, Late, Ended
  <2>7. CASE pc = "enable" /\ pc' \in {"debug_before", "end"} /\ next' = 1 /\ (pc' = "end" => error')
    BY <1>k, <2>3, <2>7 DEF Succeeded, Late, Ended
  <2>8. CASE pc \in {"time0", "exec", "time1", "dump1", "wbufs", "time_print"}
               /\ pc' = Following[pc] /\ next' = 1
    BY <1>k, <2>3, <2>4, <2>8, Follow DEF Remembered, Succeeded, Late, Ended
  <2>9. CASE pc = "disable" /\ pc' = "end"
    BY <1>k, <2>4, <2>9 DEF Remembered, Late, Ended
  <2>10. QED
    BY <1>k, <2>5, <2>6, <2>7, <2>8, <2>9
<1>1. CASE Dump0
  BY <1>1, <1>k, Follow DEF Dump0
<1>2. CASE Dump1
  BY <1>2, <1>k DEF Dump1, Move
<1>3. CASE DumpWbuf
  BY <1>3, <1>k DEF DumpWbuf, Dumping
<1>4. CASE WbufsDumped
  BY <1>4, <1>k DEF WbufsDumped, Move
<1>5. CASE DebugBefore
  <2>1. /\ seen'.before = [f \in Field |-> IF f \in Fields[DebugRegs[next]]
                                           THEN events[f] ELSE seen.before[f]]
        /\ pc' = "debug_before" /\ next' = next + 1 /\ before' = Read(before)
        /\ next <= Len(DebugRegs) /\ opt' = opt /\ opt.mdebug /\ pc = "debug_before"
    BY <1>5 DEF DebugBefore, Reading, See, Typed
  <2>2. ReadUpTo(before, seen.before, next)
    BY <2>1 DEF Remembered
  <2>3. ReadUpTo(before', seen'.before, next + 1)
    BY <2>1, <2>2, <1>r, LoopReadsNext DEF Typed
  <2>4. QED
    BY <2>1, <2>3 DEF Remembered, Late, Ended, Succeeded
<1>6. CASE DebugAfter
  <2>1. /\ seen'.after = [f \in Field |-> IF f \in Fields[DebugRegs[next]]
                                          THEN events[f] ELSE seen.after[f]]
        /\ seen'.before = seen.before /\ before' = before
        /\ pc' = "debug_after" /\ next' = next + 1 /\ after' = Read(after)
        /\ next <= Len(DebugRegs) /\ opt' = opt /\ opt.mdebug /\ pc = "debug_after"
    BY <1>6 DEF DebugAfter, Reading, See, Typed
  <2>2. ReadUpTo(after, seen.after, next) /\ AllRead(before, seen.before)
    BY <2>1 DEF Remembered, Late
  <2>3. ReadUpTo(after', seen'.after, next + 1)
    BY <2>1, <2>2, <1>r, LoopReadsNext DEF Typed
  <2>4. AllRead(before', seen'.before)
    BY <2>1, <2>2
  <2>5. QED
    BY <2>1, <2>3, <2>4 DEF Remembered, Late, Ended, Succeeded
<1>7. CASE ReadingEnds
  <2>1. /\ seen' = seen /\ before' = before /\ after' = after /\ opt' = opt
        /\ \/ pc = "debug_before" /\ pc' = "time0"
           \/ pc = "debug_after" /\ pc' = "dump1"
        /\ opt.mdebug => next > Len(DebugRegs)
    BY <1>7, <1>r, Follow DEF ReadingEnds, Move, Reading
  <2>2. CASE pc = "debug_before"
    <3>1. opt.mdebug => AllRead(before, seen.before)
      BY <2>1, <2>2, <1>r, LoopReadsAll DEF Remembered
    <3>2. (opt.mdebug => AllRead(before, seen.before))'
      BY <2>1, <3>1
    <3>3. QED
      BY <2>1, <2>2, <3>2 DEF Remembered, Late, Ended, Succeeded
  <2>3. CASE pc = "debug_after"
    <3>1. opt.mdebug => AllRead(before, seen.before) /\ AllRead(after, seen.after)
      BY <2>1, <2>3, <1>r, LoopReadsAll DEF Remembered, Late
    <3>2. (opt.mdebug => AllRead(before, seen.before) /\ AllRead(after, seen.after))'
      BY <2>1, <3>1
    <3>3. QED
      BY <2>1, <2>3, <3>2 DEF Remembered, Late, Ended, Succeeded
  <2>4. QED
    BY <2>1, <2>2, <2>3
<1>8. CASE DebugPrint
  <2>1. /\ seen' = seen /\ before' = before /\ after' = after /\ opt' = opt
        /\ pc = "debug_print" /\ pc' = "time_print"
        /\ opt.mdebug => report' = [f \in Shown |-> Diff(f)]
    BY <1>8, Follow DEF DebugPrint, Move
  <2>2. Shown' = Shown /\ \A f : Diff(f)' = Diff(f)
    BY <2>1 DEF Shown, Diff
  <2>3. (opt.mdebug => report = [f \in Shown |-> Diff(f)])'
    BY <2>1, <2>2
  <2>4. opt.mdebug => AllRead(before, seen.before) /\ AllRead(after, seen.after)
    BY <2>1 DEF Remembered, Late
  <2>5. (opt.mdebug => AllRead(before, seen.before) /\ AllRead(after, seen.after))'
    BY <2>1, <2>4
  <2>6. QED
    BY <2>1, <2>3, <2>5 DEF Remembered, Ended, Succeeded
<1>9. CASE ReadClock
  BY <1>9, <1>k DEF ReadClock, Move
<1>10. CASE PrintTime
  BY <1>10, <1>k DEF PrintTime, Move
<1>11. CASE Enable
  BY <1>11, <1>k, Follow DEF Enable
<1>12. CASE Exec
  BY <1>12, <1>k DEF Exec
<1>13. CASE ExecReturns
  BY <1>13, <1>k DEF ExecReturns, Move
<1>14. CASE ExecFails
  BY <1>14, <1>k DEF ExecFails, Move
<1>15. CASE Disable
  BY <1>15, <1>k DEF Disable
<1>16. CASE \E i \in Task : TaskEnds(i)
  BY <1>16, <1>k DEF TaskEnds
<1>17. CASE OtherProgram
  BY <1>17, <1>k DEF OtherProgram
<1>18. CASE \E f \in Field : Event(f)
  BY <1>18, <1>k DEF Event
<1>19. CASE Tick
  BY <1>19, <1>k DEF Tick
<1>20. CASE UNCHANGED vars
  BY <1>20, <1>k DEF vars
<1>21. QED
  BY <1>1, <1>2, <1>3, <1>4, <1>5, <1>6, <1>7, <1>8, <1>9, <1>10, <1>11, <1>12, <1>13,
     <1>14, <1>15, <1>16, <1>17, <1>18, <1>19, <1>20
     DEF Next, Program, World, Terminated

\* What is remembered makes the report true.
LEMMA ReportedTrue == Typed /\ Remembered => DebugTrue
<1> SUFFICES ASSUME Typed, Remembered, pc \in Ended, opt.mdebug, NEW f \in Field
             PROVE  (IF f \in DOMAIN report THEN report[f] ELSE 0) =
                      (seen.after[f] - seen.before[f]) % Width[f]
  BY DEF DebugTrue, Ended
<1>1. /\ before[f] = seen.before[f] % Width[f] /\ after[f] = seen.after[f] % Width[f]
      /\ report = [g \in Shown |-> Diff(g)]
  BY DEF Remembered, AllRead, Late, Ended
<1>2. Diff(f) = (seen.after[f] - seen.before[f]) % Width[f]
  <2>1. Width[f] \in Nat \ {0} /\ seen.after[f] \in Int /\ seen.before[f] \in Int
    BY FieldsAssumption DEF Typed
  <2>2. QED
    BY <1>1, <2>1, RemainderOfDifference DEF Diff
<1>3. f \notin Shown => Diff(f) = 0
  BY DEF Shown
<1>4. QED
  BY <1>1, <1>2, <1>3

-----------------------------------------------------------------------------
(* The programs and their events                                           *)

Programs == {"requests", "completed"}

Counted ==
  /\ ~queued => done = {}
  /\ pc \in Early => ~queued
  /\ pc \in Late \/ Succeeded => error \/ (queued /\ done = Tasks)
  /\ others = 0 =>
       /\ events["requests"] = seen.before["requests"] + (IF queued THEN ntasks ELSE 0)
       /\ events["completed"] = seen.before["completed"] + Cardinality(done)
       /\ ~error /\ opt.mdebug =>
            /\ pc = "debug_after" =>
                 \A i \in 1 .. Len(DebugRegs) :
                   i < next => \A f \in Fields[DebugRegs[i]] \intersect Programs :
                                 seen.after[f] = events[f]
            /\ pc \in Late \ {"time1", "debug_after"} \/ Succeeded =>
                 \A f \in Programs : seen.after[f] = events[f]

\* The two fields that count programs are among the fields.
LEMMA ProgramFields == Programs \subseteq Field /\ "requests" \in Field /\ "completed" \in Field
BY FieldsAssumption DEF Programs

\* The tasks and any set of them can be counted.
LEMMA TasksFinite ==
  ASSUME Typed
  PROVE  /\ IsFiniteSet(Tasks) /\ Cardinality(Tasks) = ntasks
         /\ IsFiniteSet(done) /\ Cardinality(done) \in Nat
<1>1. ntasks \in Nat /\ ntasks >= 1
  BY MaxTasksAssumption DEF Typed
<1>2. IsFiniteSet(Tasks) /\ Cardinality(Tasks) = ntasks
  BY <1>1, FS_Interval DEF Tasks
<1>3. IsFiniteSet(done)
  BY <1>2, FS_Subset DEF Typed
<1>4. QED
  BY <1>2, <1>3, FS_CardinalityType

\* Before any program is queued.
LEMMA CountedInit == Init => Counted
<1> SUFFICES ASSUME Init PROVE Counted
  OBVIOUS
<1>1. /\ pc = "dump0" /\ ~queued /\ done = {} /\ Cardinality({}) = 0
      /\ seen.before = events
  BY FS_EmptySet DEF Init
<1>2. events["requests"] \in Int /\ events["completed"] \in Int
  BY TypedInit, ProgramFields DEF Typed
<1>3. QED
  BY <1>1, <1>2 DEF Counted, Late, Succeeded

\* Every step keeps the events in step with the programs.
LEMMA CountedStep == Typed /\ Typed' /\ Counted /\ [Next]_vars => Counted'
<1> SUFFICES ASSUME Typed, Typed', Counted, [Next]_vars PROVE Counted'
  OBVIOUS
<1> USE DEF command, world, program
<1>r. Len(DebugRegs) \in Nat /\ next \in Nat \ {0} /\ ntasks \in Nat
  BY LoopTypes
<1>q. /\ Early \intersect Late = {} /\ "exec" \notin Early \union Late
      /\ "end" \notin Early \union Late
  BY DEF Early, Late
<1>k. ASSUME queued' = queued, done' = done, ntasks' = ntasks, opt' = opt, others' = others,
             events' = events, seen' = seen,
             \/ pc' = pc /\ error' = error /\ (next' = next \/ pc # "debug_after")
             \/ pc = "dump0" /\ pc' \in {"enable", "end"} /\ (pc' = "end" => opt.dry)
             \/ pc = "enable" /\ pc' \in {"debug_before", "end"} /\ (pc' = "end" => error')
             \/ pc \in {"debug_before", "time0", "time1", "dump1", "wbufs", "debug_print",
                        "time_print"}
                  /\ pc' = Following[pc] /\ next' = 1 /\ error' = error
             \/ pc = "exec" /\ pc' = "time1" /\ (error' \/ (queued /\ done = Tasks))
             \/ pc = "disable" /\ pc' = "end" /\ (error => error')
      PROVE  Counted'
  <2>1. Tasks' = Tasks
    BY <1>k DEF Tasks
  <2>2. /\ ~queued => done = {}
        /\ pc' \in Early => ~queued
        /\ pc' \in Late \/ Succeeded' => error' \/ (queued /\ done = Tasks)
    BY <1>k, Follow DEF Counted, Early, Late, Succeeded
  <2>3. ASSUME others = 0, ~error', opt.mdebug
        PROVE  /\ pc' = "debug_after" =>
                    \A i \in 1 .. Len(DebugRegs) :
                      i < next' => \A f \in Fields[DebugRegs[i]] \intersect Programs :
                                    seen.after[f] = events[f]
               /\ pc' \in Late \ {"time1", "debug_after"} \/ Succeeded' =>
                    \A f \in Programs : seen.after[f] = events[f]
    BY <1>k, <2>3, Follow, <1>r DEF Counted, Early, Late, Succeeded
  <2>4. QED
    BY <1>k, <2>1, <2>2, <2>3 DEF Counted
<1>1. CASE Dump0
  BY <1>1, <1>k, Follow DEF Dump0
<1>2. CASE Dump1
  BY <1>2, <1>k DEF Dump1, Move
<1>3. CASE DumpWbuf
  BY <1>3, <1>k DEF DumpWbuf, Dumping
<1>4. CASE WbufsDumped
  BY <1>4, <1>k DEF WbufsDumped, Move
<1>5. CASE DebugBefore
  <2>1. /\ pc = "debug_before" /\ pc' = pc /\ ~queued /\ done = {} /\ Cardinality({}) = 0
        /\ UNCHANGED <<events, queued, done, ntasks, opt, others, error>>
    BY <1>5, FS_EmptySet DEF DebugBefore, Reading, Counted, Early
  <2>2. \A f \in Field : seen'.before[f] = IF f \in Fields[DebugRegs[next]]
                                           THEN events[f] ELSE seen.before[f]
    BY <1>5 DEF DebugBefore, See, Typed
  <2>3. events["requests"] \in Int /\ events["completed"] \in Int
    BY ProgramFields DEF Typed
  <2>4. others = 0 => /\ seen'.before["requests"] = events["requests"]
                      /\ seen'.before["completed"] = events["completed"]
    <3>1. seen.before["requests"] \in Int /\ seen.before["completed"] \in Int
      BY ProgramFields DEF Typed
    <3>2. others = 0 => /\ seen.before["requests"] = events["requests"]
                        /\ seen.before["completed"] = events["completed"]
      BY <2>1, <2>3, <3>1 DEF Counted
    <3>3. QED
      BY <2>2, <3>2, ProgramFields
  <2>5. QED
    BY <2>1, <2>3, <2>4, <1>q DEF Counted, Succeeded, Late
<1>6. CASE DebugAfter
  <2>1. /\ pc = "debug_after" /\ pc' = pc /\ opt.mdebug /\ next' = next + 1
        /\ UNCHANGED <<events, queued, done, ntasks, opt, others, error>>
    BY <1>6 DEF DebugAfter, Reading
  <2>2. /\ \A f \in Field : seen'.after[f] = IF f \in Fields[DebugRegs[next]]
                                             THEN events[f] ELSE seen.after[f]
        /\ seen'.before = seen.before
    BY <1>6 DEF DebugAfter, See, Typed
  <2>3. ASSUME others = 0, ~error, NEW i \in 1 .. Len(DebugRegs), i < next + 1,
               NEW f \in Fields[DebugRegs[i]] \intersect Programs
        PROVE  seen'.after[f] = events[f]
    <3>1. f \in Field
      BY ProgramFields
    <3>2. f \in Fields[DebugRegs[next]] \/ i < next
      BY <2>3, <1>r
    <3>3. i < next => seen.after[f] = events[f]
      BY <2>1, <2>3 DEF Counted
    <3>4. QED
      BY <2>2, <3>1, <3>2, <3>3
  <2>4. Tasks' = Tasks
    BY <2>1 DEF Tasks
  <2>5. QED
    BY <2>1, <2>2, <2>3, <2>4, <1>q DEF Counted, Succeeded, Late
<1>7. CASE ReadingEnds
  <2>1. CASE pc = "debug_before"
    BY <1>7, <1>k, <2>1 DEF ReadingEnds, Move
  <2>2. CASE pc = "debug_after"
    <3>1. /\ pc' = "dump1" /\ (opt.mdebug => next > Len(DebugRegs))
          /\ UNCHANGED <<events, queued, done, ntasks, opt, others, error, seen>>
      BY <1>7, <2>2, <1>r, Follow DEF ReadingEnds, Move, Reading
    <3>2. ASSUME others = 0, ~error, opt.mdebug, NEW f \in Programs
          PROVE  seen.after[f] = events[f]
      <4>1. PICK i \in 1 .. Len(DebugRegs) : f \in Fields[DebugRegs[i]]
        BY ProgramFields, FieldsAssumption DEF Field
      <4>2. QED
        BY <2>2, <3>1, <3>2, <4>1, <1>r DEF Counted
    <3>3. Tasks' = Tasks
      BY <3>1 DEF Tasks
    <3>4. QED
      BY <2>2, <3>1, <3>2, <3>3, <1>q DEF Counted, Succeeded, Late
  <2>3. QED
    BY <1>7, <2>1, <2>2 DEF ReadingEnds
<1>8. CASE DebugPrint
  BY <1>8, <1>k DEF DebugPrint, Move
<1>9. CASE ReadClock
  BY <1>9, <1>k DEF ReadClock, Move
<1>10. CASE PrintTime
  BY <1>10, <1>k DEF PrintTime, Move
<1>11. CASE Enable
  BY <1>11, <1>k, Follow DEF Enable
<1>12. CASE Exec
  <2>1. /\ pc = "exec" /\ pc' = pc /\ ~queued /\ queued' /\ done' = done /\ error' = error
        /\ ntasks' = ntasks /\ seen' = seen /\ opt' = opt /\ others' = others
        /\ events' = [events EXCEPT !["requests"] = @ + ntasks]
    BY <1>12 DEF Exec
  <2>2. /\ events'["requests"] = events["requests"] + ntasks
        /\ events'["completed"] = events["completed"] /\ events["requests"] \in Int
        /\ seen.before["requests"] \in Int
    BY <2>1, ProgramFields DEF Typed
  <2>3. QED
    BY <2>1, <2>2, <1>q, <1>r DEF Counted, Succeeded, Late
<1>13. CASE ExecReturns
  BY <1>13, <1>k, Follow DEF ExecReturns, Move
<1>14. CASE ExecFails
  BY <1>14, <1>k, Follow DEF ExecFails, Move
<1>15. CASE Disable
  BY <1>15, <1>k DEF Disable
<1>16. CASE pc # "end" /\ \E i \in Task : TaskEnds(i)
  <2>1. PICK i \in Tasks \ done :
          /\ queued /\ done' = done \union {i}
          /\ events' = [events EXCEPT !["completed"] = @ + 1]
          /\ UNCHANGED <<pc, error, next, ntasks, seen, opt, others, queued>>
    BY <1>16 DEF TaskEnds
  <2>2. Cardinality(done') = Cardinality(done) + 1
    BY <2>1, TasksFinite, FS_AddElement
  <2>3. /\ events'["requests"] = events["requests"]
        /\ events'["completed"] = events["completed"] + 1 /\ events["completed"] \in Int
        /\ seen.before["completed"] \in Int
    BY <2>1, ProgramFields DEF Typed
  <2>4. (pc \in Late => error) /\ ~Succeeded /\ ~Succeeded'
    BY <1>16, <2>1 DEF Counted, Succeeded
  <2>5. Cardinality(done) \in Nat
    BY TasksFinite
  <2>6. others = 0 =>
          /\ events'["requests"] = seen.before["requests"] + ntasks
          /\ events'["completed"] = seen.before["completed"] + Cardinality(done')
    BY <2>1, <2>2, <2>3, <2>5 DEF Counted
  <2>7. "debug_after" \in Late
    BY DEF Late
  <2>8. QED
    BY <2>1, <2>4, <2>6, <2>7 DEF Counted
<1>17. CASE OtherProgram
  <2>1. others' # 0 /\ UNCHANGED <<pc, error, next, ntasks, seen, opt, queued, done>>
    BY <1>17 DEF OtherProgram, Typed
  <2>2. Tasks' = Tasks /\ Succeeded' = Succeeded
    BY <2>1 DEF Tasks, Succeeded
  <2>3. QED
    BY <2>1, <2>2 DEF Counted
<1>18. CASE \E f \in Field : Event(f)
  <2>1. PICK f \in Field : f \notin Programs /\ events' = [events EXCEPT ![f] = @ + 1]
    BY <1>18 DEF Event, Programs
  <2>2. UNCHANGED <<pc, error, next, ntasks, seen, opt, queued, done, others>>
    BY <1>18 DEF Event
  <2>3. \A g \in Programs : events'[g] = events[g]
    BY <2>1, ProgramFields DEF Typed
  <2>4. Tasks' = Tasks /\ Succeeded' = Succeeded
    BY <2>2 DEF Tasks, Succeeded
  <2>5. events'["requests"] = events["requests"] /\ events'["completed"] = events["completed"]
    BY <2>3 DEF Programs
  <2>6. QED
    BY <2>2, <2>3, <2>4, <2>5 DEF Counted
<1>19. CASE Tick
  BY <1>19, <1>k DEF Tick
<1>20. CASE UNCHANGED vars
  BY <1>20, <1>k DEF vars
<1>21. QED
  BY <1>1, <1>2, <1>3, <1>4, <1>5, <1>6, <1>7, <1>8, <1>9, <1>10, <1>11, <1>12, <1>13,
     <1>14, <1>15, <1>16, <1>17, <1>18, <1>19, <1>20
     DEF Next, Program, World, Terminated

\* What is counted and remembered makes the report of an undisturbed
\* execution account for its programs.
LEMMA Accounted == Typed /\ Remembered /\ Counted => ProgramsAccounted
<1> SUFFICES ASSUME Typed, Remembered, Counted, Succeeded, opt.mdebug, opt.verbose, others = 0,
                    NEW f \in Programs
             PROVE  report[f] = ntasks % Width[f]
  BY DEF ProgramsAccounted, Programs
<1>1. /\ AllRead(before, seen.before) /\ AllRead(after, seen.after)
      /\ report = [g \in Shown |-> Diff(g)]
  BY DEF Remembered
<1>2. f \in Field /\ f \in Shown
  BY ProgramFields DEF Shown
<1>3. /\ queued /\ done = Tasks /\ ~error /\ seen.after[f] = events[f]
      /\ events["requests"] = seen.before["requests"] + ntasks
      /\ events["completed"] = seen.before["completed"] + Cardinality(done)
  BY DEF Counted, Succeeded
<1>4. seen.after[f] = seen.before[f] + ntasks
  BY <1>3, TasksFinite DEF Programs
<1>5. Width[f] \in Nat \ {0} /\ seen.after[f] \in Int /\ seen.before[f] \in Int /\ ntasks \in Int
  BY <1>2, FieldsAssumption DEF Typed
<1>6. Diff(f) = (seen.after[f] - seen.before[f]) % Width[f]
  BY <1>1, <1>2, <1>5, RemainderOfDifference DEF Diff, AllRead
<1>7. seen.after[f] - seen.before[f] = ntasks
  BY <1>4, <1>5
<1>8. QED
  BY <1>1, <1>2, <1>6, <1>7

-----------------------------------------------------------------------------
(* What is written to stdout                                               *)

BeforeDump1 == {"enable", "debug_before", "time0", "exec", "time1", "debug_after", "dump1"}
AfterDumps  == {"debug_print", "time_print", "disable"}
NoDumps     == ~opt.dump0 /\ ~opt.dump1
HowMany(b)  == IF b THEN 1 ELSE 0

\* The output names the owners in set, each once, in their order.
Lists(out, set) ==
  /\ {out[i].region : i \in 1 .. Len(out)} = set
  /\ \A i, j \in 1 .. Len(out) : i < j => out[i].region < out[j].region

\* The output is n dumps of the whole memory.
Whole(out, n) == Len(out) = n /\ \A i \in 1 .. Len(out) : out[i].region = All

Written ==
  /\ opt.isatty => Len(stdout) = 0
  /\ pc = "dump0" => Len(stdout) = 0
  /\ ~opt.isatty =>
       /\ pc \in BeforeDump1 => Whole(stdout, HowMany(opt.dump0))
       /\ pc = "wbufs" /\ NoDumps => Lists(stdout, {o \in wbufs : o < NextOwner})
       /\ ~NoDumps /\ (pc \in {"wbufs"} \union AfterDumps \/ Succeeded) =>
            Whole(stdout, HowMany(opt.dump0) + HowMany(opt.dump1))
       /\ NoDumps /\ (pc \in AfterDumps \/ Succeeded) => Lists(stdout, wbufs)

Final ==
  \A i \in 1 .. Len(stdout) :
    IF opt.dump0 /\ i = 1 THEN stdout[i].image = {}
    ELSE error \/ stdout[i].image = IF stdout[i].region \in Task THEN {stdout[i].region}
                                    ELSE Tasks

Complained ==
  complaints = Cardinality({i \in 1 .. Len(stdout) : stdout[i].lost # "nothing"})

\* The next owner is -1, 0, 1, ...
LEMMA NextOwnerIs ==
  ASSUME Typed
  PROVE  NextOwner = next - 2 /\ next \in Nat \ {0}
<1>1. next \in Nat \ {0}
  BY LoopTypes
<1>2. QED
  BY <1>1 DEF NextOwner, Glob

\* Write buffers belong to the global entry or to counted tasks.
LEMMA WbufOwners ==
  ASSUME Typed
  PROVE  /\ wbufs \subseteq -1 .. ntasks - 1 /\ ntasks \in Nat /\ ntasks <= MaxTasks
         /\ MaxTasks \in Nat
         /\ \A o \in wbufs : o \in Task => o \in Tasks
         /\ \A o \in wbufs : o \in Owner \union {All}
<1>1. ntasks \in Nat /\ ntasks <= MaxTasks /\ MaxTasks \in Nat
  BY MaxTasksAssumption DEF Typed
<1>2. QED
  BY <1>1 DEF Typed, Tasks, Task, Glob, Owner, All

\* Before any output.
LEMMA WrittenInit == Init => Written /\ Final /\ Complained
<1> SUFFICES ASSUME Init PROVE Written /\ Final /\ Complained
  OBVIOUS
<1>1. Len(stdout) = 0 /\ pc = "dump0" /\ complaints = 0
  BY DEF Init
<1>2. {i \in 1 .. Len(stdout) : stdout[i].lost # "nothing"} = {}
  BY <1>1
<1>3. QED
  BY <1>1, <1>2, FS_EmptySet
     DEF Written, Final, Complained, BeforeDump1, AfterDumps, Succeeded

\* One line of output more is either in full or complained about.
LEMMA PrintComplains ==
  ASSUME Typed, Complained, NEW region \in Owner \union {All}, PrintMem(region)
  PROVE  Complained'
<1> DEFINE short == {i \in 1 .. Len(stdout) : stdout[i].lost # "nothing"}
           last == Len(stdout) + 1
<1>1. /\ Len(stdout) \in Nat /\ Len(stdout') = last
      /\ \A i \in 1 .. Len(stdout) : stdout'[i] = stdout[i]
      /\ complaints' = complaints + (IF stdout'[last].lost = "nothing" THEN 0 ELSE 1)
      /\ complaints \in Nat
  BY PrintMemType DEF Typed
<1>2. IsFiniteSet(short)
  <2>1. IsFiniteSet(1 .. Len(stdout))
    BY <1>1, FS_Interval
  <2>2. QED
    BY <2>1, FS_Subset
<1>3. CASE stdout'[last].lost = "nothing"
  <2>1. short' = short
    BY <1>1, <1>3
  <2>2. QED
    <3>1. complaints' = Cardinality(short)
      BY <1>1, <1>3 DEF Complained
    <3>2. complaints' = Cardinality(short')
      BY <2>1, <3>1
    <3>3. QED
      BY <3>2 DEF Complained
<1>4. CASE stdout'[last].lost # "nothing"
  <2>1. short' = short \union {last} /\ last \notin short
    BY <1>1, <1>4
  <2>2. Cardinality(short \union {last}) = Cardinality(short) + 1
    BY <1>2, <2>1, FS_AddElement
  <2>3. QED
    BY <1>1, <1>4, <2>1, <2>2 DEF Complained
<1>5. QED
  BY <1>3, <1>4

\* Every step keeps as many complaints as lines that were not written in full.
LEMMA ComplainedStep == Typed /\ Complained /\ [Next]_vars => Complained'
<1> SUFFICES ASSUME Typed, Complained, [Next]_vars PROVE Complained'
  OBVIOUS
<1> USE DEF command, world, program
<1>k. ASSUME UNCHANGED <<stdout, complaints>> PROVE Complained'
  BY <1>k DEF Complained
<1>a. All \in Owner \union {All}
  OBVIOUS
<1>1. CASE Dump0
  BY <1>1, <1>k, <1>a, PrintComplains DEF Dump0, DumpAll
<1>2. CASE Dump1
  BY <1>2, <1>k, <1>a, PrintComplains DEF Dump1, DumpAll
<1>3. CASE DumpWbuf
  BY <1>3, <1>k, WbufOwners, PrintComplains DEF DumpWbuf
<1>4. CASE ~(Dump0 \/ Dump1 \/ DumpWbuf)
  <2>1. UNCHANGED <<stdout, complaints>>
    BY <1>4 DEF Next, Program, World, Terminated, WbufsDumped, DebugBefore, DebugAfter,
       ReadingEnds, DebugPrint, ReadClock, PrintTime, Enable, Exec, ExecReturns, ExecFails,
       Disable, TaskEnds, OtherProgram, Event, Tick, vars
  <2>2. QED
    BY <1>k, <2>1
<1>5. QED
  BY <1>1, <1>2, <1>3, <1>4

\* A dump of the whole memory more.
LEMMA WholeMore ==
  ASSUME Typed, NEW n \in Nat, Whole(stdout, n), PrintMem(All)
  PROVE  Whole(stdout', n + 1)
<1> DEFINE last == Len(stdout) + 1
<1>a. All \in Owner \union {All}
  OBVIOUS
<1>1. /\ Len(stdout) \in Nat /\ Len(stdout') = last
      /\ \A i \in 1 .. Len(stdout) : stdout'[i] = stdout[i]
      /\ stdout'[last].region = All
  BY <1>a, PrintMemType DEF Typed
<1>2. Len(stdout) = n /\ \A i \in 1 .. Len(stdout) : stdout[i].region = All
  BY DEF Whole
<1>3. \A i \in 1 .. last : stdout'[i].region = All
  BY <1>1, <1>2
<1>4. QED
  BY <1>1, <1>2, <1>3 DEF Whole

\* The next write buffer is listed last.
LEMMA ListsMore ==
  ASSUME Typed, NEW set \in SUBSET Int, NEW o \in Owner \union {All}, PrintMem(o), Lists(stdout, set),
         o \in Int, \A p \in set : p < o
  PROVE  Lists(stdout', set \union {o})
<1> DEFINE last == Len(stdout) + 1
<1>1. /\ Len(stdout) \in Nat /\ Len(stdout') = last
      /\ \A i \in 1 .. Len(stdout) : stdout'[i] = stdout[i]
      /\ stdout'[last].region = o
  BY PrintMemType DEF Typed
<1>2. {stdout'[i].region : i \in 1 .. last} = {stdout[i].region : i \in 1 .. Len(stdout)} \union {o}
  BY <1>1
<1>3. \A i \in 1 .. Len(stdout) : stdout[i].region \in set
  BY DEF Lists
<1>4. ASSUME NEW i \in 1 .. last, NEW j \in 1 .. last, i < j
      PROVE  stdout'[i].region < stdout'[j].region
  <2>1. i \in 1 .. Len(stdout) /\ (j = last \/ j \in 1 .. Len(stdout))
    BY <1>1, <1>4
  <2>2. QED
    BY <1>1, <1>3, <1>4, <2>1 DEF Lists
<1>5. QED
  BY <1>1, <1>2, <1>4 DEF Lists

\* Every step keeps the regions that have been dumped those that were asked for.
LEMMA WrittenStep == Typed /\ Written /\ [Next]_vars => Written'
<1> SUFFICES ASSUME Typed, Written, [Next]_vars PROVE Written'
  OBVIOUS
<1> USE DEF command, world, program
<1>k. ASSUME stdout' = stdout, wbufs' = wbufs, opt' = opt, ntasks' = ntasks,
             \/ pc' = pc /\ error' = error /\ (next' = next \/ pc # "wbufs")
             \/ pc = "enable" /\ pc' \in {"debug_before", "end"} /\ (pc' = "end" => error')
             \/ pc \in {"debug_before", "time0", "exec", "time1", "debug_after",
                        "debug_print", "time_print"} /\ pc' = Following[pc]
             \/ pc = "disable" /\ pc' = "end"
      PROVE  Written'
  <2>1. /\ \A n : Whole(stdout', n) = Whole(stdout, n)
        /\ \A set : Lists(stdout', set) = Lists(stdout, set)
    BY <1>k DEF Whole, Lists
  <2>2. CASE pc' = pc /\ error' = error /\ (next' = next \/ pc # "wbufs")
    <3>1. Succeeded' = Succeeded /\ NoDumps' = NoDumps /\ HowMany(opt.dump0)' = HowMany(opt.dump0)
          /\ HowMany(opt.dump1)' = HowMany(opt.dump1)
      BY <1>k, <2>2 DEF Succeeded, NoDumps, HowMany
    <3>2. pc = "wbufs" => NextOwner' = NextOwner
      BY <1>k, <2>2 DEF NextOwner
    <3>3. pc = "wbufs" => {o \in wbufs : o < NextOwner}' = {o \in wbufs : o < NextOwner}
      BY <1>k, <3>2
    <3>4. QED
      BY <1>k, <2>1, <2>2, <3>1, <3>3 DEF Written
  <2>3. CASE pc = "enable" /\ pc' \in {"debug_before", "end"} /\ (pc' = "end" => error')
    BY <1>k, <2>1, <2>3 DEF Written, BeforeDump1, AfterDumps, Succeeded, HowMany
  <2>4. CASE pc \in {"debug_before", "time0", "exec", "time1", "debug_after"} /\ pc' = Following[pc]
    BY <1>k, <2>1, <2>4, Follow DEF Written, BeforeDump1, AfterDumps, Succeeded, HowMany
  <2>5. CASE pc \in {"debug_print", "time_print"} /\ pc' = Following[pc]
    BY <1>k, <2>1, <2>5, Follow DEF Written, BeforeDump1, AfterDumps, Succeeded, HowMany, NoDumps
  <2>6. CASE pc = "disable" /\ pc' = "end"
    BY <1>k, <2>1, <2>6 DEF Written, BeforeDump1, AfterDumps, HowMany, NoDumps
  <2>7. QED
    BY <1>k, <2>2, <2>3, <2>4, <2>5, <2>6
<1>o. opt.dump0 \in BOOLEAN /\ opt.dump1 \in BOOLEAN /\ opt.isatty \in BOOLEAN
  BY DEF Typed, Option
<1>1. CASE Dump0
  <2>1. /\ pc = "dump0" /\ Len(stdout) = 0 /\ opt' = opt
        /\ pc' = IF opt.dry THEN "end" ELSE "enable"
        /\ DumpAll(opt.dump0)
    BY <1>1, Follow DEF Dump0, Written
  <2>2. CASE opt.dump0 /\ ~opt.isatty
    <3>1. Whole(stdout, 0)
      BY <2>1 DEF Whole
    <3>2. Whole(stdout', 1)
      BY <2>1, <2>2, <3>1, WholeMore DEF DumpAll
    <3>3. QED
      BY <2>1, <2>2, <3>2 DEF Written, BeforeDump1, AfterDumps, HowMany, Succeeded
  <2>3. CASE ~(opt.dump0 /\ ~opt.isatty)
    <3>1. stdout' = stdout
      BY <2>1, <2>3 DEF DumpAll
    <3>2. Whole(stdout', 0)
      BY <2>1, <3>1 DEF Whole
    <3>3. QED
      BY <2>1, <2>3, <3>1, <3>2 DEF Written, BeforeDump1, AfterDumps, HowMany, Succeeded
  <2>4. QED
    BY <2>2, <2>3
<1>2. CASE Dump1
  <2>1. /\ pc = "dump1" /\ opt' = opt /\ wbufs' = wbufs /\ ntasks' = ntasks
        /\ pc' = "wbufs" /\ next' = 1
        /\ DumpAll(opt.dump1)
    BY <1>2, Follow DEF Dump1, Move
  <2>2. CASE opt.isatty
    BY <2>1, <2>2 DEF Written, DumpAll
  <2>3. CASE ~opt.isatty /\ opt.dump1
    <3>1. Whole(stdout, HowMany(opt.dump0)) /\ HowMany(opt.dump0) \in Nat
      BY <2>1, <2>3 DEF Written, BeforeDump1, HowMany
    <3>2. Whole(stdout', HowMany(opt.dump0) + 1)
      BY <2>1, <2>3, <3>1, WholeMore DEF DumpAll
    <3>3. QED
      BY <2>1, <2>3, <3>2 DEF Written, BeforeDump1, AfterDumps, HowMany, Succeeded, NoDumps
  <2>4. CASE ~opt.isatty /\ ~opt.dump1 /\ opt.dump0
    <3>1. Whole(stdout, 1)
      BY <2>1, <2>4 DEF Written, BeforeDump1, HowMany
    <3>2. Whole(stdout', 1) /\ HowMany(opt.dump0) + HowMany(opt.dump1) = 1
      <4>1. stdout' = stdout
        BY <2>1, <2>4 DEF DumpAll
      <4>2. HowMany(opt.dump0) = 1 /\ HowMany(opt.dump1) = 0
        BY <2>4 DEF HowMany
      <4>3. QED
        BY <3>1, <4>1, <4>2
    <3>3. QED
      BY <2>1, <2>4, <3>2 DEF Written, BeforeDump1, AfterDumps, Succeeded, NoDumps, HowMany
  <2>5. CASE ~opt.isatty /\ NoDumps
    <3>1. Len(stdout) = 0 /\ stdout' = stdout
      BY <2>1, <2>5 DEF Written, BeforeDump1, HowMany, DumpAll, NoDumps, Whole
    <3>2. {o \in wbufs : o < NextOwner}' = {}
      <4>1. NextOwner' = -1
        BY <2>1 DEF NextOwner, Glob
      <4>2. QED
        BY <2>1, <4>1, WbufOwners
    <3>3. Lists(stdout', {})
      BY <3>1 DEF Lists
    <3>4. QED
      BY <2>1, <2>5, <3>1, <3>2, <3>3 DEF Written, BeforeDump1, AfterDumps, Succeeded, NoDumps
  <2>6. QED
    BY <1>o, <2>2, <2>3, <2>4, <2>5 DEF NoDumps
<1>3. CASE DumpWbuf
  <2>1. /\ pc = "wbufs" /\ pc' = "wbufs" /\ opt' = opt /\ wbufs' = wbufs /\ ntasks' = ntasks
        /\ ~opt.isatty /\ NoDumps /\ next' = next + 1
    BY <1>3 DEF DumpWbuf, Dumping, NoDumps
  <2> DEFINE old == {o \in wbufs : o < NextOwner}
  <2>2. Lists(stdout, old) /\ old \in SUBSET Int /\ \A p \in old : p < NextOwner
    BY <2>1, WbufOwners DEF Written
  <2>3. NextOwner \in Int /\ NextOwner' = NextOwner + 1
    BY <2>1, NextOwnerIs DEF NextOwner, Glob
  <2>4. old' = IF NextOwner \in wbufs THEN old \union {NextOwner} ELSE old
    BY <2>1, <2>3, WbufOwners
  <2>5. Lists(stdout', IF NextOwner \in wbufs THEN old \union {NextOwner} ELSE old)
    <3>1. CASE NextOwner \in wbufs
      <4>1. PrintMem(NextOwner) /\ NextOwner \in Owner \union {All}
        BY <1>3, <3>1, WbufOwners DEF DumpWbuf
      <4>2. Lists(stdout', old \union {NextOwner})
        BY <2>2, <2>3, <4>1, ListsMore
      <4>3. QED
        BY <3>1, <4>2
    <3>2. CASE NextOwner \notin wbufs
      BY <1>3, <2>2, <3>2 DEF DumpWbuf, Lists
    <3>3. QED
      BY <3>1, <3>2
  <2>6. QED
    BY <2>1, <2>4, <2>5 DEF Written, BeforeDump1, AfterDumps, Succeeded, NoDumps
<1>4. CASE WbufsDumped
  <2>1. /\ pc = "wbufs" /\ pc' = "debug_print" /\ opt' = opt /\ wbufs' = wbufs
        /\ ntasks' = ntasks /\ stdout' = stdout /\ ~Dumping
    BY <1>4, Follow DEF WbufsDumped, Move
  <2>2. /\ \A n : Whole(stdout', n) = Whole(stdout, n)
        /\ \A set : Lists(stdout', set) = Lists(stdout, set)
    BY <2>1 DEF Whole, Lists
  <2>3. ASSUME ~opt.isatty, NoDumps PROVE {o \in wbufs : o < NextOwner} = wbufs
    <3>1. next > ntasks + 1
      BY <2>1, <2>3, NextOwnerIs, WbufOwners DEF Dumping, NoDumps
    <3>2. QED
      BY <3>1, NextOwnerIs, WbufOwners
  <2>4. QED
    BY <2>1, <2>2, <2>3 DEF Written, BeforeDump1, AfterDumps, Succeeded, HowMany, NoDumps
<1>5. CASE DebugBefore
  BY <1>5, <1>k DEF DebugBefore, Reading
<1>6. CASE DebugAfter
  BY <1>6, <1>k DEF DebugAfter, Reading
<1>7. CASE ReadingEnds
  BY <1>7, <1>k DEF ReadingEnds, Move
<1>8. CASE DebugPrint
  BY <1>8, <1>k DEF DebugPrint, Move
<1>9. CASE ReadClock
  BY <1>9, <1>k DEF ReadClock, Move
<1>10. CASE PrintTime
  BY <1>10, <1>k DEF PrintTime, Move
<1>11. CASE Enable
  BY <1>11, <1>k, Follow DEF Enable
<1>12. CASE Exec
  BY <1>12, <1>k DEF Exec
<1>13. CASE ExecReturns
  BY <1>13, <1>k DEF ExecReturns, Move
<1>14. CASE ExecFails
  BY <1>14, <1>k DEF ExecFails, Move
<1>15. CASE Disable
  BY <1>15, <1>k DEF Disable
<1>16. CASE \E i \in Task : TaskEnds(i)
  BY <1>16, <1>k DEF TaskEnds
<1>17. CASE OtherProgram
  BY <1>17, <1>k DEF OtherProgram
<1>18. CASE \E f \in Field : Event(f)
  BY <1>18, <1>k DEF Event
<1>19. CASE Tick
  BY <1>19, <1>k DEF Tick
<1>20. CASE UNCHANGED vars
  BY <1>20, <1>k DEF vars
<1>21. QED
  BY <1>1, <1>2, <1>3, <1>4, <1>5, <1>6, <1>7, <1>8, <1>9, <1>10, <1>11, <1>12, <1>13,
     <1>14, <1>15, <1>16, <1>17, <1>18, <1>19, <1>20
     DEF Next, Program, World, Terminated

\* Every step keeps what was dumped before the programs empty, and what was dumped
\* after them complete.
LEMMA FinalStep == Typed /\ Counted /\ Written /\ Final /\ [Next]_vars => Final'
<1> SUFFICES ASSUME Typed, Counted, Written, Final, [Next]_vars PROVE Final'
  OBVIOUS
<1> USE DEF command, world, program
<1>l. Len(stdout) \in Nat
  BY DEF Typed
\* Without output there is nothing to say; an error once reported stays.
<1>k. ASSUME stdout' = stdout, opt' = opt, ntasks' = ntasks,
             (error => error') \/ (pc = "enable")
      PROVE  Final'
  <2>1. Tasks' = Tasks
    BY <1>k DEF Tasks
  <2>2. CASE error => error'
    BY <1>k, <2>1, <2>2 DEF Final
  <2>3. CASE pc = "enable"
    <3>1. ASSUME NEW i \in 1 .. Len(stdout) PROVE opt.dump0 /\ i = 1
      <4>1. ~opt.isatty /\ Whole(stdout, HowMany(opt.dump0))
        BY <2>3, <3>1, <1>l DEF Written, BeforeDump1
      <4>2. QED
        BY <3>1, <4>1, <1>l DEF Whole, HowMany
    <3>2. QED
      BY <1>k, <2>1, <3>1 DEF Final
  <2>4. QED
    BY <1>k, <2>2, <2>3
\* A line added after the programs have run.
<1>m. ASSUME NEW region \in Owner \union {All}, PrintMem(region), region \in Task => region \in Tasks,
             pc \in {"dump1", "wbufs"}, opt' = opt, ntasks' = ntasks, error' = error,
             ~(opt.dump0 /\ Len(stdout) = 0)
      PROVE  Final'
  <2> DEFINE last == Len(stdout) + 1
  <2>1. /\ Len(stdout') = last
        /\ \A i \in 1 .. Len(stdout) : stdout'[i] = stdout[i]
        /\ stdout'[last].region = region /\ stdout'[last].image = Image(region)
    BY <1>m, PrintMemType
  <2>2. Tasks' = Tasks
    BY <1>m DEF Tasks
  <2>3. error \/ done = Tasks
    BY <1>m DEF Counted, Late
  <2>4. error \/ Image(region) = IF region \in Task THEN {region} ELSE Tasks
    BY <1>m, <2>3 DEF Image
  <2>5. SUFFICES ASSUME NEW i \in 1 .. last
                 PROVE  IF opt.dump0 /\ i = 1 THEN stdout'[i].image = {}
                        ELSE error \/ stdout'[i].image =
                               IF stdout'[i].region \in Task THEN {stdout'[i].region} ELSE Tasks
    BY <1>m, <2>1, <2>2 DEF Final
  <2>6. CASE i = last
    <3>1. ~(opt.dump0 /\ i = 1)
      BY <1>m, <1>l, <2>6
    <3>2. QED
      BY <2>1, <2>4, <2>6, <3>1
  <2>7. CASE i # last
    <3>1. i \in 1 .. Len(stdout) /\ stdout'[i] = stdout[i]
      BY <2>1, <2>5, <2>7, <1>l
    <3>2. QED
      BY <3>1 DEF Final
  <2>8. QED
    BY <2>6, <2>7
<1>t. All \in Owner \union {All} /\ All \notin Task
  BY MaxTasksAssumption DEF All, Task
<1>1. CASE Dump0
  <2>1. CASE opt.dump0 /\ ~opt.isatty
    <3>1. PrintMem(All) /\ Len(stdout) = 0 /\ done = {} /\ opt' = opt
      BY <1>1, <2>1 DEF Dump0, DumpAll, Written, Counted, Early
    <3>2. Len(stdout') = 1 /\ stdout'[1].image = {}
      BY <3>1, <1>t, PrintMemType DEF Image
    <3>3. QED
      BY <2>1, <3>1, <3>2 DEF Final
  <2>2. CASE ~(opt.dump0 /\ ~opt.isatty)
    BY <1>1, <1>k, <2>2 DEF Dump0, DumpAll
  <2>3. QED
    BY <2>1, <2>2
<1>2. CASE Dump1
  <2>1. CASE opt.dump1 /\ ~opt.isatty
    <3>1. PrintMem(All) /\ pc = "dump1" /\ opt' = opt /\ ntasks' = ntasks /\ error' = error
      BY <1>2, <2>1 DEF Dump1, DumpAll
    <3>2. ~(opt.dump0 /\ Len(stdout) = 0)
      BY <2>1, <3>1 DEF Written, BeforeDump1, Whole, HowMany
    <3>3. QED
      BY <3>1, <3>2, <1>m, <1>t
  <2>2. CASE ~(opt.dump1 /\ ~opt.isatty)
    BY <1>2, <1>k, <2>2 DEF Dump1, DumpAll
  <2>3. QED
    BY <2>1, <2>2
<1>3. CASE DumpWbuf
  <2>1. /\ pc = "wbufs" /\ opt' = opt /\ ntasks' = ntasks /\ error' = error /\ ~opt.dump0
    BY <1>3 DEF DumpWbuf, Dumping
  <2>2. CASE NextOwner \in wbufs
    <3>1. /\ PrintMem(NextOwner) /\ NextOwner \in Owner \union {All}
          /\ NextOwner \in Task => NextOwner \in Tasks
      BY <1>3, <2>2, WbufOwners DEF DumpWbuf
    <3>2. QED
      BY <2>1, <3>1, <1>m
  <2>3. CASE NextOwner \notin wbufs
    BY <1>3, <1>k, <2>1, <2>3 DEF DumpWbuf
  <2>4. QED
    BY <2>2, <2>3
<1>4. CASE ~(Dump0 \/ Dump1 \/ DumpWbuf)
  <2>1. /\ stdout' = stdout /\ opt' = opt /\ ntasks' = ntasks
        /\ (error => error') \/ pc = "enable"
    <3>1. CASE Enable
      BY <3>1 DEF Enable
    <3>2. CASE Disable
      BY <3>2 DEF Disable, Typed
    <3>3. CASE ~(Enable \/ Disable)
      <4>1. /\ UNCHANGED <<stdout, opt, ntasks>>
            /\ error' = error \/ error' = TRUE
        BY <1>4, <3>3 DEF Next, Program, World, Terminated, WbufsDumped, DebugBefore,
           DebugAfter, ReadingEnds, DebugPrint, ReadClock, PrintTime, Exec, ExecReturns,
           ExecFails, TaskEnds, OtherProgram, Event, Tick, vars
      <4>2. QED
        BY <4>1
    <3>4. QED
      BY <3>1, <3>2, <3>3
  <2>2. QED
    BY <1>k, <2>1
<1>5. QED
  BY <1>1, <1>2, <1>3, <1>4

\* What has been written is exactly what was asked for.
LEMMA WrittenExactly == Typed /\ Written => DumpsExact
<1> SUFFICES ASSUME Typed, Written, Succeeded PROVE DumpsExact
  BY DEF DumpsExact
<1> DEFINE n == HowMany(opt.dump0) + HowMany(opt.dump1)
           dumps == (IF opt.dump0 THEN <<All>> ELSE <<>>) \o (IF opt.dump1 THEN <<All>> ELSE <<>>)
<1>b. opt.dump0 \in BOOLEAN /\ opt.dump1 \in BOOLEAN /\ opt.isatty \in BOOLEAN
  BY DEF Typed, Option
<1>l. stdout \in Seq(Line) /\ Len(stdout) \in Nat /\ DOMAIN stdout = 1 .. Len(stdout)
  BY DEF Typed
<1>1. CASE opt.isatty
  <2>1. stdout = <<>>
    BY <1>1, <1>l DEF Written
  <2>2. QED
    BY <1>1, <2>1 DEF DumpsExact
<1>2. CASE ~opt.isatty /\ ~NoDumps
  <2>1. Whole(stdout, n)
    BY <1>2 DEF Written
  <2>2. Regions = [i \in 1 .. n |-> All]
    BY <2>1, <1>l DEF Regions, Whole
  <2>3. dumps = [i \in 1 .. n |-> All]
    <3>1. CASE opt.dump0 /\ opt.dump1
      <4> DEFINE one == <<All>>
      <4>1. one \in Seq({All}) /\ Len(one) = 1 /\ one[1] = All
        OBVIOUS
      <4>2. n = 2 /\ dumps = one \o one
        BY <3>1 DEF HowMany
      <4> HIDE DEF one
      <4>3. /\ one \o one \in Seq({All}) /\ Len(one \o one) = 2
            /\ \A i \in 1 .. 2 : (one \o one)[i] = All
        <5>1. /\ one \o one \in Seq({All}) /\ Len(one \o one) = Len(one) + Len(one)
              /\ \A i \in 1 .. Len(one) + Len(one) :
                   (one \o one)[i] = IF i <= Len(one) THEN one[i] ELSE one[i - Len(one)]
          BY <4>1, ConcatProperties
        <5>2. Len(one) + Len(one) = 2
          BY <4>1
        <5>3. ASSUME NEW i \in 1 .. 2 PROVE (one \o one)[i] = All
          <6>1. i = 1 \/ i = 2
            OBVIOUS
          <6>2. QED
            BY <4>1, <5>1, <5>2, <6>1
        <5>4. QED
          BY <5>1, <5>2, <5>3
      <4>4. QED
        BY <4>2, <4>3
    <3>2. CASE opt.dump0 /\ ~opt.dump1
      <4>1. n = 1 /\ dumps = <<All>>
        BY <3>2 DEF HowMany
      <4>2. QED
        BY <4>1
    <3>3. CASE ~opt.dump0 /\ opt.dump1
      <4>1. n = 1 /\ dumps = <<All>>
        BY <3>3 DEF HowMany
      <4>2. QED
        BY <4>1
    <3>4. QED
      BY <1>2, <1>b, <3>1, <3>2, <3>3 DEF NoDumps
  <2>4. QED
    BY <1>2, <2>2, <2>3 DEF DumpsExact, NoDumps
<1>3. CASE ~opt.isatty /\ NoDumps
  <2>1. Lists(stdout, wbufs)
    BY <1>3 DEF Written
  <2>2. /\ DOMAIN Regions = 1 .. Len(stdout)
        /\ \A i \in 1 .. Len(stdout) : Regions[i] = stdout[i].region
    BY <1>l DEF Regions
  <2>3. /\ {Regions[i] : i \in DOMAIN Regions} = wbufs
        /\ \A i, j \in DOMAIN Regions : i < j => Regions[i] < Regions[j]
    BY <2>1, <2>2 DEF Lists
  <2>4. QED
    BY <1>3, <2>3 DEF DumpsExact, NoDumps
<1>4. QED
  BY <1>1, <1>2, <1>3, <1>b

\* What the dumps hold after a success are the results.
LEMMA FinalResults == Typed /\ Final => ResultsFinal
<1> SUFFICES ASSUME Typed, Final, Succeeded, NEW i \in DOMAIN stdout
             PROVE  stdout[i].image = IF opt.dump0 /\ i = 1 THEN {}
                                      ELSE IF stdout[i].region \in Task
                                           THEN {stdout[i].region} ELSE Tasks
  BY DEF ResultsFinal
<1>1. i \in 1 .. Len(stdout) /\ ~error
  BY DEF Typed, Succeeded
<1>2. QED
  BY <1>1 DEF Final

\* As many complaints as losses.
LEMMA ComplainedLosses == Typed /\ Complained => LossReported
<1> SUFFICES ASSUME Typed, Complained PROVE LossReported
  OBVIOUS
<1>1. DOMAIN stdout = 1 .. Len(stdout)
  BY DEF Typed
<1>2. QED
  BY <1>1 DEF Complained, LossReported

-----------------------------------------------------------------------------
(* The theorems                                                            *)

\* The strengthening of the properties that every step preserves.
IInv == Typed /\ Timed /\ Remembered /\ Counted /\ Written /\ Final /\ Complained

\* The inductive invariant.
LEMMA Invariance == Spec => []IInv
<1>1. Init => IInv
  BY TypedInit, TimedInit, RememberedInit, CountedInit, WrittenInit DEF IInv
<1>2. IInv /\ [Next]_vars => IInv'
  BY TypedStep, TimedStep, RememberedStep, CountedStep, WrittenStep, FinalStep, ComplainedStep
     DEF IInv
<1>3. QED
  BY <1>1, <1>2, PTL DEF Spec

\* Type correctness: what the monitor of -d holds fits the registers' fields,
\* and no loop runs beyond its registers or owners.
THEOREM TypeCorrect == Spec => []TypeOK
<1>1. IInv => TypeOK
  <2> SUFFICES ASSUME IInv PROVE TypeOK
    OBVIOUS
  <2>1. pc \in DOMAIN Following \union {"disable", "end"}
    BY DEF IInv, Typed, Following, Labels, Early, Late
  <2>2. QED
    BY <2>1 DEF IInv, Typed, Timed, TypeOK
<1>2. QED
  BY <1>1, Invariance, PTL

\* dump_all and dump_wbufs (gpu.c:129, gpu.c:636): what a success has written;
\* and print_mem (gpu.c:115) complains of every dump that was cut short.
THEOREM Output == Spec => []OutputExact
<1>1. IInv => OutputExact
  BY WrittenExactly, ComplainedLosses DEF IInv, OutputExact
<1>2. QED
  BY <1>1, Invariance, PTL

\* What is dumped after a success are the results of every task.
THEOREM Results == Spec => []ResultsFinal
<1>1. IInv => ResultsFinal
  BY FinalResults DEF IInv
<1>2. QED
  BY <1>1, Invariance, PTL

\* The report of -d is true, whatever wraps and whoever else runs programs.
THEOREM DebugReport == Spec => []DebugTrue
<1>1. IInv => DebugTrue
  BY ReportedTrue DEF IInv
<1>2. QED
  BY <1>1, Invariance, PTL

\* The report of -d accounts for the programs of an undisturbed execution.
THEOREM Accounts == Spec => []ProgramsAccounted
<1>1. IInv => ProgramsAccounted
  BY Accounted DEF IInv
<1>2. QED
  BY <1>1, Invariance, PTL

\* timespecsub and print_time: -t reports the time that has passed.
THEOREM TimeReport == Spec => []TimeTrue
<1>1. IInv => TimeTrue
  BY DEF IInv, Timed, TimeTrue
<1>2. QED
  BY <1>1, Invariance, PTL
=============================================================================
