--------------------------- MODULE RegistersProofs ---------------------------
(***************************************************************************)
(* Theorems about Registers, for every set of processes, counters, events  *)
(* and registers, and for every width of the counters: its types, that the *)
(* register command keeps to the help text (HelpKept), that only another   *)
(* process can take the power from an access (Powered), that -1 counts     *)
(* what it says it does (Monitored), and that what -1 and -2 print is true *)
(* (Reported).                                                             *)
(***************************************************************************)
EXTENDS Registers, TLAPS

-----------------------------------------------------------------------------
(* Types                                                                   *)

\* A number for a register without a meaning of its own: it has reserved bits
\* only where unions.h has them.
LEMMA PlainWord ==
  ASSUME NEW r \in Plain, NEW w \in (Words(r) \union {Read}), w # Read
  PROVE  w \in Bits /\ (w.reserved => r[1] \in Reserving)
BY DEF Plain, Words

\* A register that a command line names is one that the program knows.
LEMMA NamedRegister ==
  ASSUME NEW p \in Procs, NEW r \in Named[p]
  PROVE  /\ r \in Register
         /\ r = <<r[1], r[2]>>
         /\ r[1] \in Name
BY NamedAssumption DEF Register

\* Counters that start again are counters.
LEMMA ZeroCounts == NoCount \in Counts
BY U32Assumption DEF NoCount, Counts, Word

\* The step that goes on to label l leaves a process at a label.
LEMMA GoToLabel ==
  ASSUME pc \in [Procs -> Label], NEW p \in Procs, NEW l \in Label, GoTo(p, l)
  PROVE  /\ pc' \in [Procs -> Label]
         /\ pc'[p] = l
         /\ \A q \in Procs \ {p} : pc'[q] = pc[q]
BY DEF GoTo

\* The accesses on record are to registers.
LEMMA AccessedType ==
  ASSUME accessed \in [Procs -> SUBSET (Register \X {"R", "W"})], NEW p \in Procs,
         NEW r \in Named[p], NEW mode \in {"R", "W"}, Accessed(p, r, mode)
  PROVE  accessed' \in [Procs -> SUBSET (Register \X {"R", "W"})]
<1>1. accessed[p] \union {<<r, mode>>} \in SUBSET (Register \X {"R", "W"})
  BY NamedRegister
<1>2. QED
  BY <1>1 DEF Accessed

\* A loop over the counters that has handled i either stays or is complete.
LEMMA LoopStep ==
  ASSUME pc \in [Procs -> Label], todo \in [Procs -> (SUBSET Ctr) \ {{}}],
         NEW p \in Procs, NEW i \in Ctr, NEW l \in Label, Handled(p, i, l)
  PROVE  /\ pc' \in [Procs -> Label]
         /\ todo' \in [Procs -> (SUBSET Ctr) \ {{}}]
         /\ \A q \in Procs \ {p} : pc'[q] = pc[q] /\ todo'[q] = todo[q]
         /\ \/ todo[p] = {i} /\ pc'[p] = l /\ todo'[p] = Ctr
            \/ todo[p] # {i} /\ pc'[p] = pc[p] /\ todo'[p] = todo[p] \ {i}
<1>1. CASE todo[p] = {i}
  <2>1. todo' = [todo EXCEPT ![p] = Ctr] /\ pc' = [pc EXCEPT ![p] = l]
    BY <1>1 DEF Handled, GoTo
  <2>2. QED
    BY <1>1, <2>1, CtrAssumption
<1>2. CASE todo[p] # {i}
  <2>1. todo' = [todo EXCEPT ![p] = todo[p] \ {i}] /\ pc' = [pc EXCEPT ![p] = pc[p]]
    BY <1>2 DEF Handled, GoTo
  <2>2. todo[p] \subseteq Ctr /\ todo[p] # {}
    OBVIOUS
  <2>3. PICK j \in todo[p] : j # i
    BY <1>2, <2>2
  <2>4. todo[p] \ {i} \in (SUBSET Ctr) \ {{}}
    BY <2>2, <2>3
  <2>5. QED
    BY <1>2, <2>1, <2>4
<1>3. QED
  BY <1>1, <1>2

\* Disturbance is recorded for every process, and never for one's own step.
LEMMA DisturbStep ==
  ASSUME disturbed \in [Procs -> BOOLEAN], NEW p \in Procs, Disturb(p)
  PROVE  /\ disturbed' \in [Procs -> BOOLEAN]
         /\ disturbed'[p] = disturbed[p]
         /\ \A q \in Procs \ {p} :
              ~disturbed'[q] =>
                /\ ~disturbed[q]
                /\ Depends(q) => /\ on' = on /\ select' = select
                                 /\ enabled' = enabled /\ count' = count
<1>1. disturbed' \in [Procs -> BOOLEAN]
  BY Zenon DEF Disturb
<1>2. disturbed'[p] = disturbed[p]
  BY Zenon DEF Disturb
<1>3. ASSUME NEW q \in Procs \ {p}, ~disturbed'[q]
      PROVE  ~disturbed[q] /\ (Depends(q) => <<on, counters>>' = <<on, counters>>)
  BY <1>3, Zenon DEF Disturb
<1>4. ASSUME <<on, counters>>' = <<on, counters>>
      PROVE  on' = on /\ select' = select /\ enabled' = enabled /\ count' = count
  BY <1>4 DEF counters
<1>5. QED
  BY <1>1, <1>2, <1>3, <1>4

\* A write to the counter registers that fit leaves them fitting.
LEMMA CountersType ==
  ASSUME select \in Selects, enabled \in Enables, count \in Counts,
         NEW s \in Selects, NEW e \in Enables, NEW c \in Counts, WriteCounters(s, e, c)
  PROVE  select' \in Selects /\ enabled' \in Enables /\ count' \in Counts
BY DEF WriteCounters, counters

\* Selecting an event leaves the other registers alone.
LEMMA SelectType ==
  ASSUME select \in Selects, enabled \in Enables, count \in Counts,
         NEW i \in Ctr, NEW e \in Event, WriteSelect(i, e)
  PROVE  select' \in Selects /\ enabled' \in Enables /\ count' \in Counts
<1>1. [select EXCEPT ![i] = e] \in Selects
  BY DEF Selects
<1>2. QED
  BY <1>1, CountersType DEF WriteSelect

\* The switch keeps the counter registers or clears them.
LEMMA SwitchType ==
  ASSUME select \in Selects, enabled \in Enables, count \in Counts,
         NEW value \in BOOLEAN, Switch(value)
  PROVE  /\ on' = value
         /\ select' \in Selects /\ enabled' \in Enables /\ count' \in Counts
<1>1. CASE UNCHANGED counters
  BY <1>1 DEF Switch, counters
<1>2. CASE ~UNCHANGED counters
  <2>1. /\ 0 \in Event /\ select' = NoCount /\ count' = NoCount
        /\ enabled' = [ctrs |-> {}, master |-> FALSE]
    BY <1>2 DEF Switch
  <2>2. select' \in Selects
    BY <2>1 DEF NoCount, Selects
  <2>3. enabled' \in Enables
    BY <2>1 DEF Enables
  <2>4. QED
    BY <2>1, <2>2, <2>3, ZeroCounts DEF Switch
<1>3. QED
  BY <1>1, <1>2

\* A step of the register command keeps the types.
LEMMA RegisterStepType ==
  ASSUME TypeOK, NEW p \in Procs, RegisterStep(p), Disturb(p), job' = job
  PROVE  TypeOK'
<1>d. disturbed' \in [Procs -> BOOLEAN]
  BY DisturbStep DEF TypeOK
<1>1. CASE StartRegister(p)
  <2>1. PICK l \in {"argument", "done"} : GoTo(p, l)
    BY <1>1 DEF StartRegister
  <2>2. pc' \in [Procs -> Label] /\ \A q \in Procs : pc'[q] = "access" => pc[q] = "access"
    BY <2>1, GoToLabel DEF TypeOK, Label
  <2>3. QED
    BY <1>d, <1>1, <2>2 DEF StartRegister, TypeOK, counters, readings
<1>2. CASE Argument(p)
  <2>r. PICK r \in Named[p] : \E w \in Words(r) \union {Read} :
          pending' = [pending EXCEPT ![p] = [reg |-> r, word |-> w]]
    BY <1>2 DEF Argument
  <2>1. PICK w \in Words(r) \union {Read} :
          pending' = [pending EXCEPT ![p] = [reg |-> r, word |-> w]]
    BY <2>r
  <2>2. pc' \in [Procs -> Label] /\ \A q \in Procs \ {p} : pc'[q] = pc[q]
    BY <1>2, GoToLabel DEF Argument, TypeOK, Label
  <2>3. args' \in [Procs -> 0 .. MaxArgs]
    BY <1>2, BoundsAssumption DEF Argument, TypeOK
  <2>4. QED
    BY <1>d, <1>2, <2>1, <2>2, <2>3 DEF Argument, TypeOK, counters, readings
<1>3. CASE EndOfArguments(p)
  <2>1. pc' \in [Procs -> Label] /\ \A q \in Procs : pc'[q] = "access" => pc[q] = "access"
    BY <1>3, GoToLabel DEF EndOfArguments, TypeOK, Label
  <2>2. QED
    BY <1>d, <1>3, <2>1 DEF EndOfArguments, TypeOK, counters, readings
<1>4. CASE Refuse(p)
  <2>1. pc' \in [Procs -> Label] /\ \A q \in Procs : pc'[q] = "access" => pc[q] = "access"
    BY <1>4, GoToLabel DEF Refuse, TypeOK, Label
  <2>2. QED
    BY <1>d, <1>4, <2>1 DEF Refuse, TypeOK, counters, readings
<1>5. CASE pc[p] = "access" /\ ReadRegister(p, pending[p].reg)
  <2>1. PICK r \in Named[p] : r = pending[p].reg /\ ReadRegister(p, r)
    BY <1>5 DEF TypeOK
  <2>2. accessed' \in [Procs -> SUBSET (Register \X {"R", "W"})]
    BY <2>1, AccessedType DEF ReadRegister, TypeOK
  <2>3. /\ pc' \in [Procs -> Label] /\ todo' \in [Procs -> (SUBSET Ctr) \ {{}}]
        /\ \A q \in Procs : pc'[q] = "access" => pc[q] = "access"
    <3>1. CASE r[1] \in {"pctr", "pctrs"} /\ r[2] = All
      <4>1. PICK i \in todo[p] : Handled(p, i, "argument")
        BY <2>1, <3>1 DEF ReadRegister
      <4>2. i \in Ctr /\ "argument" \in Label
        BY DEF TypeOK, Label
      <4>3. QED
        BY <4>1, <4>2, LoopStep DEF TypeOK
    <3>2. CASE ~(r[1] \in {"pctr", "pctrs"} /\ r[2] = All)
      <4>1. GoTo(p, "argument") /\ todo' = todo
        BY <2>1, <3>2 DEF ReadRegister
      <4>2. QED
        BY <4>1, GoToLabel DEF TypeOK, Label
    <3>3. QED
      BY <3>1, <3>2
  <2>4. QED
    BY <1>d, <2>1, <2>2, <2>3 DEF ReadRegister, TypeOK, counters, readings
<1>6. ASSUME NEW r \in Named[p], NEW w \in (Words(r) \union {Read}), WritePlain(p, r, w)
      PROVE  TypeOK'
  <2>1. pc' \in [Procs -> Label] /\ \A q \in Procs : pc'[q] = "access" => pc[q] = "access"
    BY <1>6, GoToLabel DEF WritePlain, TypeOK, Label
  <2>2. accessed' \in [Procs -> SUBSET (Register \X {"R", "W"})]
    BY <1>6, AccessedType DEF WritePlain, TypeOK
  <2>3. w \in Bits
    BY <1>6, PlainWord DEF WritePlain
  <2>4. Stored(r, w) \in Bits
    BY <2>3 DEF Stored, Bits
  <2>5. plain' \in [Plain -> Bits]
    BY <1>6, <2>4 DEF WritePlain, TypeOK
  <2>6. QED
    BY <1>d, <1>6, <2>1, <2>2, <2>5 DEF WritePlain, TypeOK, counters, readings
<1>7. ASSUME NEW r \in Named[p], pending[p].reg = r, NEW w \in (Words(r) \union {Read}),
             NEW i \in Ctr, WriteOne(p, i, w)
      PROVE  TypeOK'
  <2>1. pc' \in [Procs -> Label] /\ \A q \in Procs : pc'[q] = "access" => pc[q] = "access"
    BY <1>7, GoToLabel DEF WriteOne, TypeOK, Label
  <2>2. r = <<"pctrs", i>> /\ w # Read
    BY <1>7 DEF WriteOne, Pending
  <2>3. w \in Event
    BY <2>2 DEF Words
  <2>4. accessed' \in [Procs -> SUBSET (Register \X {"R", "W"})]
    BY <1>7, <2>2, AccessedType DEF WriteOne, TypeOK
  <2>5. select' \in Selects /\ enabled' \in Enables /\ count' \in Counts
    BY <1>7, <2>3, SelectType DEF WriteOne, TypeOK
  <2>6. QED
    BY <1>d, <1>7, <2>1, <2>4, <2>5 DEF WriteOne, TypeOK, readings
<1>8. ASSUME NEW r \in Named[p], pending[p].reg = r, NEW w \in (Words(r) \union {Read}),
             NEW i \in Ctr, WriteAll(p, i, w)
      PROVE  TypeOK'
  <2>1. /\ pc' \in [Procs -> Label] /\ todo' \in [Procs -> (SUBSET Ctr) \ {{}}]
        /\ \A q \in Procs : pc'[q] = "access" => pc[q] = "access"
    <3>1. "argument" \in Label
      BY DEF Label
    <3>2. QED
      BY <1>8, <3>1, LoopStep DEF WriteAll, TypeOK
  <2>2. r = <<"pctrs", All>> /\ w # Read
    BY <1>8 DEF WriteAll, Pending
  <2>3. w \in Event
    BY <2>2 DEF Words
  <2>4. accessed' \in [Procs -> SUBSET (Register \X {"R", "W"})]
    BY <1>8, <2>2, AccessedType DEF WriteAll, TypeOK
  <2>5. select' \in Selects /\ enabled' \in Enables /\ count' \in Counts
    BY <1>8, <2>3, SelectType DEF WriteAll, TypeOK
  <2>6. QED
    BY <1>d, <1>8, <2>1, <2>4, <2>5 DEF WriteAll, TypeOK, readings
<1>9. ASSUME NEW r \in Named[p], pending[p].reg = r, NEW w \in (Words(r) \union {Read}),
             WriteEnable(p, w)
      PROVE  TypeOK'
  <2>1. pc' \in [Procs -> Label] /\ \A q \in Procs : pc'[q] = "access" => pc[q] = "access"
    BY <1>9, GoToLabel DEF WriteEnable, TypeOK, Label
  <2>2. r = <<"pctre", All>> /\ w # Read
    BY <1>9 DEF WriteEnable, Pending
  <2>3. w \in Enables
    BY <2>2 DEF Words
  <2>4. accessed' \in [Procs -> SUBSET (Register \X {"R", "W"})]
    BY <1>9, <2>2, AccessedType DEF WriteEnable, TypeOK
  <2>5. select' \in Selects /\ enabled' \in Enables /\ count' \in Counts
    BY <1>9, <2>3, CountersType DEF WriteEnable, TypeOK
  <2>6. QED
    BY <1>d, <1>9, <2>1, <2>4, <2>5 DEF WriteEnable, TypeOK, readings
<1>10. ASSUME NEW r \in Named[p], pending[p].reg = r, NEW w \in (Words(r) \union {Read}),
              WriteClear(p, w)
       PROVE  TypeOK'
  <2>1. pc' \in [Procs -> Label] /\ \A q \in Procs : pc'[q] = "access" => pc[q] = "access"
    BY <1>10, GoToLabel DEF WriteClear, TypeOK, Label
  <2>2. r = <<"pctrc", All>>
    BY <1>10 DEF WriteClear, Pending
  <2>3. [i \in Ctr |-> IF i \in w THEN 0 ELSE count[i]] \in Counts
    BY U32Assumption DEF TypeOK, Counts, Word
  <2>4. accessed' \in [Procs -> SUBSET (Register \X {"R", "W"})]
    BY <1>10, <2>2, AccessedType DEF WriteClear, TypeOK
  <2>5. select' \in Selects /\ enabled' \in Enables /\ count' \in Counts
    BY <1>10, <2>3, CountersType DEF WriteClear, TypeOK
  <2>6. QED
    BY <1>d, <1>10, <2>1, <2>4, <2>5 DEF WriteClear, TypeOK, readings
<1>11. pc[p] = "access" => /\ pending[p].reg \in Named[p]
                           /\ pending[p].word \in (Words(pending[p].reg) \union {Read})
  BY DEF TypeOK
<1>12. QED
  BY <1>1, <1>2, <1>3, <1>4, <1>5, <1>6, <1>7, <1>8, <1>9, <1>10, <1>11 DEF RegisterStep

\* A step of a measurement keeps the types.
LEMMA MeasureStepType ==
  ASSUME TypeOK, NEW p \in Procs, MeasureStep(p), Disturb(p), job' = job
  PROVE  TypeOK'
<1>d. disturbed' \in [Procs -> BOOLEAN]
  BY DisturbStep DEF TypeOK
<1>1. CASE MboxEnable(p)
  <2>1. /\ pc' \in [Procs -> Label]
        /\ \A q \in Procs : pc'[q] = "access" => pc[q] = "access"
    BY <1>1, GoToLabel DEF MboxEnable, TypeOK, Label
  <2>2. on' \in BOOLEAN /\ select' \in Selects /\ enabled' \in Enables /\ count' \in Counts
    BY <1>1, SwitchType DEF MboxEnable, TypeOK
  <2>3. QED
    BY <1>d, <1>1, <2>1, <2>2 DEF MboxEnable, TypeOK, readings
<1>2. CASE CheckSelect(p)
  <2>1. /\ pc' \in [Procs -> Label]
        /\ \A q \in Procs : pc'[q] = "access" => pc[q] = "access"
    BY <1>2, GoToLabel DEF CheckSelect, TypeOK, Label
  <2>2. QED
    BY <1>d, <1>2, <2>1 DEF CheckSelect, TypeOK, counters, readings
<1>3. ASSUME NEW i \in Ctr, SelectCounter(p, i)
      PROVE  TypeOK'
  <2>1. /\ pc' \in [Procs -> Label] /\ todo' \in [Procs -> (SUBSET Ctr) \ {{}}]
        /\ \A q \in Procs : pc'[q] = "access" => pc[q] = "access"
    <3>1. "check_enable" \in Label
      BY DEF Label
    <3>2. QED
      BY <1>3, <3>1, LoopStep DEF SelectCounter, TypeOK
  <2>2. select' \in Selects /\ enabled' \in Enables /\ count' \in Counts
    BY <1>3, PresetAssumption, SelectType DEF SelectCounter, TypeOK
  <2>3. QED
    BY <1>d, <1>3, <2>1, <2>2 DEF SelectCounter, TypeOK, readings
<1>4. CASE CheckEnable(p)
  <2>1. /\ pc' \in [Procs -> Label]
        /\ \A q \in Procs : pc'[q] = "access" => pc[q] = "access"
    BY <1>4, GoToLabel DEF CheckEnable, TypeOK, Label
  <2>2. QED
    BY <1>d, <1>4, <2>1 DEF CheckEnable, TypeOK, counters, readings
<1>5. CASE EnableCounters(p)
  <2>1. /\ pc' \in [Procs -> Label]
        /\ \A q \in Procs : pc'[q] = "access" => pc[q] = "access"
    BY <1>5, GoToLabel DEF EnableCounters, TypeOK, Label
  <2>2. [ctrs |-> Ctr, master |-> TRUE] \in Enables
    BY DEF Enables
  <2>3. select' \in Selects /\ enabled' \in Enables /\ count' \in Counts
    BY <1>5, <2>2, CountersType DEF EnableCounters, TypeOK
  <2>4. QED
    BY <1>d, <1>5, <2>1, <2>3 DEF EnableCounters, TypeOK, readings
<1>6. ASSUME NEW i \in Ctr, ReadBefore(p, i)
      PROVE  TypeOK'
  <2>1. /\ pc' \in [Procs -> Label] /\ todo' \in [Procs -> (SUBSET Ctr) \ {{}}]
        /\ \A q \in Procs : pc'[q] = "access" => pc[q] = "access"
    <3>1. "start_program" \in Label
      BY DEF Label
    <3>2. QED
      BY <1>6, <3>1, LoopStep DEF ReadBefore, TypeOK
  <2>2. PICK v \in Word : before' = [before EXCEPT ![p][i] = v]
    BY <1>6 DEF ReadBefore, Reading, TypeOK, Counts
  <2>3. before' \in [Procs -> Counts]
    BY <2>2 DEF TypeOK, Counts
  <2>4. QED
    BY <1>d, <1>6, <2>1, <2>3 DEF ReadBefore, TypeOK, counters
<1>7. CASE StartProgram(p)
  <2>1. /\ pc' \in [Procs -> Label]
        /\ \A q \in Procs : pc'[q] = "access" => pc[q] = "access"
    BY <1>7, GoToLabel DEF StartProgram, TypeOK, Label
  <2>2. QED
    BY <1>d, <1>7, <2>1 DEF StartProgram, TypeOK, counters
<1>8. CASE EndProgram(p)
  <2>1. /\ pc' \in [Procs -> Label]
        /\ \A q \in Procs : pc'[q] = "access" => pc[q] = "access"
    BY <1>8, GoToLabel DEF EndProgram, TypeOK, Label
  <2>2. QED
    BY <1>d, <1>8, <2>1 DEF EndProgram, TypeOK, counters
<1>9. ASSUME NEW i \in Ctr, ReadAfter(p, i)
      PROVE  TypeOK'
  <2>1. /\ pc' \in [Procs -> Label] /\ todo' \in [Procs -> (SUBSET Ctr) \ {{}}]
        /\ \A q \in Procs : pc'[q] = "access" => pc[q] = "access"
    <3>1. "names" \in Label
      BY DEF Label
    <3>2. QED
      BY <1>9, <3>1, LoopStep DEF ReadAfter, TypeOK
  <2>2. PICK v \in Word : after' = [after EXCEPT ![p][i] = v]
    BY <1>9 DEF ReadAfter, Reading, TypeOK, Counts
  <2>3. after' \in [Procs -> Counts]
    BY <2>2 DEF TypeOK, Counts
  <2>4. QED
    BY <1>d, <1>9, <2>1, <2>3 DEF ReadAfter, TypeOK, counters
<1>10. ASSUME NEW i \in Ctr, ReadName(p, i)
       PROVE  TypeOK'
  <2>1. /\ pc' \in [Procs -> Label] /\ todo' \in [Procs -> (SUBSET Ctr) \ {{}}]
        /\ \A q \in Procs : pc'[q] = "access" => pc[q] = "access"
    <3>1. "disable" \in Label
      BY DEF Label
    <3>2. QED
      BY <1>10, <3>1, LoopStep DEF ReadName, TypeOK
  <2>2. QED
    BY <1>d, <1>10, <2>1 DEF ReadName, TypeOK, counters
<1>11. CASE MboxDisable(p)
  <2>1. /\ pc' \in [Procs -> Label]
        /\ \A q \in Procs : pc'[q] = "access" => pc[q] = "access"
    BY <1>11, GoToLabel DEF MboxDisable, TypeOK, Label
  <2>2. on' \in BOOLEAN /\ select' \in Selects /\ enabled' \in Enables /\ count' \in Counts
    BY <1>11, SwitchType DEF MboxDisable, TypeOK
  <2>3. before' \in [Procs -> Counts] /\ after' \in [Procs -> Counts]
    BY <1>11, ZeroCounts DEF MboxDisable, TypeOK
  <2>4. QED
    BY <1>d, <1>11, <2>1, <2>2, <2>3 DEF MboxDisable, TypeOK
<1>12. QED
  BY <1>1, <1>2, <1>3, <1>4, <1>5, <1>6, <1>7, <1>8, <1>9, <1>10, <1>11 DEF MeasureStep

\* An event keeps the types.
LEMMA HappenType ==
  ASSUME TypeOK, NEW e \in Event, Happen(e)
  PROVE  TypeOK'
<1>1. happened' \in [Event -> Nat]
  BY DEF Happen, TypeOK
<1>2. \A n \in Word : (n + 1) % U32 \in Word
  BY U32Assumption DEF Word
<1>3. count' \in Counts
  BY <1>2 DEF Happen, TypeOK, Counts
<1>4. QED
  BY <1>1, <1>3 DEF Happen, TypeOK, readings

\* Every step keeps the types.
LEMMA TypeStep ==
  ASSUME TypeOK, [Next]_vars
  PROVE  TypeOK'
<1>1. ASSUME NEW p \in Procs, Step(p), Disturb(p), job' = job
      PROVE  TypeOK'
  <2>d. disturbed' \in [Procs -> BOOLEAN]
    BY <1>1, DisturbStep DEF TypeOK
  <2>1. CASE FirmwareSwitch(p)
    <3>1. /\ on' \in BOOLEAN /\ select' \in Selects
          /\ enabled' \in Enables /\ count' \in Counts
      BY <2>1, SwitchType DEF FirmwareSwitch, TypeOK
    <3>2. args' \in [Procs -> 0 .. MaxArgs]
      BY <2>1, BoundsAssumption DEF FirmwareSwitch, TypeOK
    <3>3. QED
      BY <1>1, <2>d, <2>1, <3>1, <3>2 DEF FirmwareSwitch, TypeOK, readings
  <2>2. CASE EndOfFirmware(p)
    <3>1. /\ pc' \in [Procs -> Label]
          /\ \A q \in Procs : pc'[q] = "access" => pc[q] = "access"
      BY <2>2, GoToLabel DEF EndOfFirmware, TypeOK, Label
    <3>2. QED
      BY <1>1, <2>d, <2>2, <3>1 DEF EndOfFirmware, TypeOK, counters, readings
  <2>3. QED
    BY <1>1, <2>1, <2>2, RegisterStepType, MeasureStepType DEF Step
<1>2. CASE UNCHANGED vars
  BY <1>2 DEF vars, counters, readings, TypeOK
<1>3. QED
  BY <1>1, <1>2, HappenType DEF Next, Terminated

\* The types hold when the processes start.
LEMMA TypeInit ==
  ASSUME Init
  PROVE  TypeOK
<1>2. select \in Selects /\ enabled \in Enables /\ count \in Counts
  BY LeftAssumption DEF Init
<1>3. job \in [Procs -> {"register", "-1", "-2", "firmware"}]
  BY JobsAssumption DEF Init
<1>4. /\ pc \in [Procs -> Label] /\ args \in [Procs -> 0 .. MaxArgs]
      /\ todo \in [Procs -> (SUBSET Ctr) \ {{}}]
  <2>1. Ctr \in (SUBSET Ctr) \ {{}}
    BY CtrAssumption, Zenon
  <2>2. MaxArgs \in 0 .. MaxArgs /\ "start" \in Label
    BY BoundsAssumption DEF Label
  <2>3. QED
    BY <2>1, <2>2 DEF Init
<1>5. before \in [Procs -> Counts] /\ after \in [Procs -> Counts]
  BY ZeroCounts DEF Init
<1>6. happened \in [Event -> Nat] /\ plain \in [Plain -> Bits]
  BY DEF Init, Nothing, Bits
<1>7. /\ accessed \in [Procs -> SUBSET (Register \X {"R", "W"})]
      /\ disturbed \in [Procs -> BOOLEAN] /\ DOMAIN pending = Procs
  BY DEF Init
<1>8. \A p \in Procs : pc[p] # "access"
  BY DEF Init
<1>9. QED
  BY <1>2, <1>3, <1>4, <1>5, <1>6, <1>7, <1>8 DEF Init, TypeOK

\* Every access is to a register that was named, with a word that fits it; the
\* counter registers always hold events, enables and counts.
THEOREM TypeCorrect == Spec => []TypeOK
BY TypeInit, TypeStep, PTL DEF Spec

-----------------------------------------------------------------------------
(* The register command keeps to the help text                             *)

\* The accessors that work are those of registers that the help calls so.
LEMMA AccessorsHonourHelp ==
  /\ Name \ NoRead \subseteq HelpRW \union HelpR
  /\ Name \ NoWrite \subseteq HelpRW \union HelpW
  /\ HelpR \subseteq NoWrite
BY DEF Name, NoRead, NoWrite, HelpR, HelpW, HelpRW

\* Of the registers with reserved bits, only srqul is written unmasked.
LEMMA AccessorsMask == Reserving \intersect Unmasked = {"srqul"}
BY DEF Reserving, Unmasked

\* A process that adds an access within the help's terms keeps to them.
LEMMA AccessStep ==
  ASSUME HelpHonoured, TypeOK, NEW p \in Procs, NEW r \in Register, NEW mode \in {"R", "W"},
         Accessed(p, r, mode),
         r[1] \in HelpRW \union (IF mode = "R" THEN HelpR ELSE HelpW)
  PROVE  \A q \in Procs : \A a \in accessed'[q] :
           a[1][1] \in HelpRW \union (IF a[2] = "R" THEN HelpR ELSE HelpW)
<1>1. accessed' = [accessed EXCEPT ![p] = accessed[p] \union {<<r, mode>>}]
  BY DEF Accessed
<1>2. SUFFICES ASSUME NEW q \in Procs, NEW a \in accessed'[q]
               PROVE  a[1][1] \in HelpRW \union (IF a[2] = "R" THEN HelpR ELSE HelpW)
  OBVIOUS
<1>3. a \in accessed[q] \/ a = <<r, mode>>
  BY <1>1 DEF TypeOK
<1>4. CASE a \in accessed[q]
  BY <1>4 DEF HelpHonoured
<1>5. CASE a = <<r, mode>>
  BY <1>5
<1>6. QED
  BY <1>3, <1>4, <1>5

\* Every step keeps to the help text.
LEMMA HelpStep ==
  ASSUME TypeOK, HelpHonoured, [Next]_vars
  PROVE  HelpHonoured'
<1>1. ASSUME UNCHANGED <<plain, accessed>>
      PROVE  HelpHonoured'
  BY <1>1 DEF HelpHonoured
<1>2. ASSUME NEW p \in Procs, RegisterStep(p)
      PROVE  HelpHonoured'
  <2>1. CASE StartRegister(p) \/ Argument(p) \/ EndOfArguments(p) \/ Refuse(p)
    BY <1>1, <2>1 DEF StartRegister, Argument, EndOfArguments, Refuse
  <2>2. ASSUME NEW r \in Named[p], ReadRegister(p, r)
        PROVE  HelpHonoured'
    <3>1. r[1] \in HelpRW \union HelpR
      BY <2>2, NamedRegister, AccessorsHonourHelp DEF ReadRegister
    <3>2. QED
      BY <2>2, <3>1, NamedRegister, AccessStep DEF ReadRegister, HelpHonoured
  <2>3. ASSUME NEW r \in Named[p], NEW w \in (Words(r) \union {Read}), WritePlain(p, r, w)
        PROVE  HelpHonoured'
    <3>1. r[1] \in HelpRW \union HelpW /\ r[1] \notin HelpR
      BY <2>3, NamedRegister, AccessorsHonourHelp DEF WritePlain
    <3>2. w \in Bits /\ (w.reserved => r[1] \in Reserving) /\ r[1] \notin NoWrite
      BY <2>3, PlainWord DEF WritePlain
    <3>3. Stored(r, w).reserved => r[1] = "srqul"
      <4>1. r[1] \in Unmasked => (Stored(r, w).reserved => w.reserved)
        BY DEF Stored
      <4>2. r[1] \notin Unmasked => ~Stored(r, w).reserved
        BY <3>2 DEF Stored, Bits
      <4>3. QED
        BY <3>2, <4>1, <4>2, AccessorsMask
    <3>4. \A s \in Plain : /\ plain'[s].reserved => s[1] = "srqul"
                           /\ s[1] \in HelpR => ~plain'[s].field
      <4>1. CASE on
        <5>1. plain' = [plain EXCEPT ![r] = Stored(r, w)] /\ r \in Plain
          BY <2>3, <4>1 DEF WritePlain
        <5>2. SUFFICES ASSUME NEW s \in Plain
                       PROVE  /\ plain'[s].reserved => s[1] = "srqul"
                              /\ s[1] \in HelpR => ~plain'[s].field
          OBVIOUS
        <5>3. CASE s = r
          BY <3>1, <3>3, <5>1, <5>3 DEF TypeOK
        <5>4. CASE s # r
          <6>1. plain'[s] = plain[s]
            BY <5>1, <5>4 DEF TypeOK
          <6>2. QED
            BY <6>1 DEF HelpHonoured
        <5>5. QED
          BY <5>3, <5>4
      <4>2. CASE ~on
        BY <2>3, <4>2 DEF WritePlain, HelpHonoured
      <4>3. QED
        BY <4>1, <4>2
    <3>5. \A q \in Procs : \A a \in accessed'[q] :
            a[1][1] \in HelpRW \union (IF a[2] = "R" THEN HelpR ELSE HelpW)
      BY <2>3, <3>1, NamedRegister, AccessStep DEF WritePlain
    <3>6. QED
      BY <3>4, <3>5 DEF HelpHonoured
  <2>4. ASSUME NEW r \in Named[p], Accessed(p, r, "W"), UNCHANGED plain,
               r[1] \in {"pctrs", "pctre", "pctrc"}
        PROVE  HelpHonoured'
    <3>1. r[1] \in HelpRW \union HelpW
      BY <2>4 DEF HelpRW, HelpW
    <3>2. QED
      BY <2>4, <3>1, NamedRegister, AccessStep DEF HelpHonoured
  <2>5. pc[p] = "access" => /\ pending[p].reg \in Named[p]
                            /\ pending[p].word \in (Words(pending[p].reg) \union {Read})
    BY DEF TypeOK
  <2>6. ASSUME NEW i \in Ctr, NEW w,
               \/ WriteOne(p, i, w) \/ WriteAll(p, i, w)
               \/ WriteEnable(p, w) \/ WriteClear(p, w)
        PROVE  HelpHonoured'
    <3>1. PICK r \in {<<"pctrs", i>>, <<"pctrs", All>>, <<"pctre", All>>, <<"pctrc", All>>} :
            r = pending[p].reg /\ Accessed(p, r, "W") /\ UNCHANGED plain /\ pc[p] = "access"
      BY <2>6 DEF WriteOne, WriteAll, WriteEnable, WriteClear, Pending
    <3>2. QED
      BY <2>4, <2>5, <3>1
  <2>7. QED
    BY <1>2, <2>1, <2>2, <2>3, <2>5, <2>6, CtrAssumption DEF RegisterStep
<1>3. ASSUME NEW p \in Procs, FirmwareSwitch(p) \/ EndOfFirmware(p) \/ MeasureStep(p)
      PROVE  HelpHonoured'
  BY <1>1, <1>3 DEF FirmwareSwitch, EndOfFirmware, MeasureStep, MboxEnable, CheckSelect,
     SelectCounter, CheckEnable, EnableCounters, ReadBefore, StartProgram, EndProgram,
     ReadAfter, ReadName, MboxDisable
<1>4. ASSUME NEW e \in Event, Happen(e)
      PROVE  HelpHonoured'
  BY <1>1, <1>4 DEF Happen
<1>5. CASE UNCHANGED vars
  BY <1>1, <1>5 DEF vars
<1>6. QED
  BY <1>2, <1>3, <1>4, <1>5 DEF Next, Step, Terminated

\* For every set of registers that command lines name: what the help calls R is
\* never written, what it calls W never read, and of all the registers that
\* unions.h gives reserved bits only srqul ever has one of them set.
THEOREM HelpKept == Spec => []HelpHonoured
<1>1. Init => HelpHonoured
  BY DEF Init, HelpHonoured
<1>2. QED
  BY <1>1, TypeInit, TypeStep, HelpStep, PTL DEF Spec

-----------------------------------------------------------------------------
(* Power                                                                   *)

\* A step of one process leaves the others where they are.
LEMMA OthersStay ==
  ASSUME TypeOK, NEW p \in Procs, Step(p), NEW q \in Procs \ {p}
  PROVE  pc'[q] = pc[q] /\ todo'[q] = todo[q]
<1>1. ASSUME NEW l, GoTo(p, l)
      PROVE  pc'[q] = pc[q]
  BY <1>1 DEF GoTo, TypeOK
<1>2. ASSUME NEW i, NEW l, Handled(p, i, l)
      PROVE  pc'[q] = pc[q] /\ todo'[q] = todo[q]
  BY <1>2 DEF Handled, GoTo, TypeOK
<1>3. CASE RegisterStep(p)
  BY <1>1, <1>2, <1>3 DEF RegisterStep, StartRegister, Argument, EndOfArguments, Refuse,
     ReadRegister, WritePlain, WriteOne, WriteAll, WriteEnable, WriteClear
<1>4. CASE FirmwareSwitch(p) \/ EndOfFirmware(p)
  BY <1>1, <1>4 DEF FirmwareSwitch, EndOfFirmware
<1>5. CASE MeasureStep(p)
  BY <1>1, <1>2, <1>5 DEF MeasureStep, MboxEnable, CheckSelect, SelectCounter, CheckEnable,
     EnableCounters, ReadBefore, StartProgram, EndProgram, ReadAfter, ReadName, MboxDisable
<1>6. QED
  BY <1>3, <1>4, <1>5 DEF Step

\* A process that comes to count on the registers has just seen the QPUs on or
\* turned them on; one that goes on does not turn them off.
LEMMA OwnPower ==
  ASSUME TypeOK, NEW p \in Procs, Step(p), Depends(p)'
  PROVE  on' = TRUE \/ (Depends(p) /\ on' = on)
<1>1. ASSUME NEW l \in Label, GoTo(p, l)
      PROVE  pc'[p] = l
  BY <1>1, GoToLabel DEF TypeOK
<1>2. CASE RegisterStep(p)
  <2>1. CASE StartRegister(p) \/ EndOfArguments(p)
    <3>1. PICK l \in {"argument", "done"} : GoTo(p, l)
      BY <2>1 DEF StartRegister, EndOfArguments
    <3>2. pc'[p] = l
      BY <1>1, <3>1 DEF Label
    <3>3. QED
      BY <3>1, <3>2 DEF Depends
  <2>2. CASE Argument(p)
    <3>1. on' = on /\ GoTo(p, IF on THEN "access" ELSE "argument")
      BY <2>2 DEF Argument
    <3>2. CASE on = FALSE
      <4>1. pc'[p] = "argument"
        BY <1>1, <3>1, <3>2 DEF Label
      <4>2. QED
        BY <4>1 DEF Depends
    <3>3. QED
      BY <3>1, <3>2 DEF TypeOK
  <2>3. ASSUME ~StartRegister(p), ~EndOfArguments(p), ~Argument(p)
        PROVE  pc[p] = "access" /\ on' = on
    BY <1>2, <2>3 DEF RegisterStep, Refuse, ReadRegister, WritePlain, WriteOne, WriteAll,
       WriteEnable, WriteClear, Pending
  <2>4. QED
    BY <2>1, <2>2, <2>3 DEF Depends
<1>3. CASE FirmwareSwitch(p) \/ EndOfFirmware(p)
  <2>1. pc'[p] \in {"start", "done"}
    BY <1>1, <1>3 DEF FirmwareSwitch, EndOfFirmware, Label
  <2>2. QED
    BY <2>1 DEF Depends
<1>4. CASE MeasureStep(p)
  <2>1. CASE MboxEnable(p)
    BY <2>1 DEF MboxEnable, Switch
  <2>2. CASE MboxDisable(p)
    <3>1. pc'[p] = "done"
      BY <1>1, <2>2 DEF MboxDisable, Label
    <3>2. QED
      BY <3>1 DEF Depends
  <2>3. ASSUME ~MboxEnable(p), ~MboxDisable(p)
        PROVE  Depends(p) /\ on' = on
    BY <1>4, <2>3 DEF MeasureStep, CheckSelect, SelectCounter, CheckEnable, EnableCounters,
       ReadBefore, StartProgram, EndProgram, ReadAfter, ReadName, Depends
  <2>4. QED
    BY <2>1, <2>2, <2>3
<1>5. QED
  BY <1>2, <1>3, <1>4 DEF Step

\* Every step keeps the power where nobody else interferes.
LEMMA PowerStep ==
  ASSUME TypeOK, PoweredAccess, [Next]_vars
  PROVE  PoweredAccess'
<1>1. ASSUME NEW p \in Procs, Step(p), Disturb(p)
      PROVE  PoweredAccess'
  <2>1. SUFFICES ASSUME NEW q \in Procs, Depends(q)', ~disturbed'[q]
                 PROVE  on'
    BY DEF PoweredAccess
  <2>2. CASE q = p
    <3>1. ~disturbed[p]
      BY <1>1, <2>1, <2>2, DisturbStep DEF TypeOK
    <3>2. on' = TRUE \/ (Depends(p) /\ on' = on)
      BY <1>1, <2>1, <2>2, OwnPower DEF Depends
    <3>3. Depends(p) => on
      BY <3>1 DEF PoweredAccess
    <3>4. QED
      BY <3>2, <3>3
  <2>3. CASE q # p
    <3>1. Depends(q)
      BY <1>1, <2>1, <2>3, OthersStay DEF Depends
    <3>2. ~disturbed[q] /\ on' = on
      BY <1>1, <2>1, <2>3, <3>1, DisturbStep DEF TypeOK
    <3>3. QED
      BY <3>1, <3>2 DEF PoweredAccess
  <2>4. QED
    BY <2>2, <2>3
<1>2. ASSUME NEW e \in Event, Happen(e)
      PROVE  PoweredAccess'
  BY <1>2 DEF Happen, PoweredAccess, Depends
<1>3. CASE UNCHANGED vars
  BY <1>3 DEF vars, PoweredAccess, Depends
<1>4. QED
  BY <1>1, <1>2, <1>3 DEF Next, Terminated

\* However many processes there are: only the interference of another one takes
\* the power away between CHECK_ENABLED, or mbox_enable, and the access.
THEOREM Powered == Spec => []PoweredAccess
<1>1. Init => PoweredAccess
  BY DEF Init, PoweredAccess, Depends
<1>2. QED
  BY <1>1, TypeInit, TypeStep, PowerStep, PTL DEF Spec

-----------------------------------------------------------------------------
(* -1 monitors its program                                                 *)

Tally == [Event -> Nat]

\* Types of what a measurement has read and of the history variables.
ReadingsType ==
  /\ names \in [Procs -> [Ctr -> Event \union {0}]]
  /\ from \in [Procs -> [Ctr -> Tally]] /\ to \in [Procs -> [Ctr -> Tally]]
  /\ run \in [Procs -> [start : Tally, end : Tally]]

Measuring == {"before", "start_program", "end_program", "after", "names", "disable"}

\* Which readings of counter i process p has taken in its measurement.
HasBefore(p, i) == \/ pc[p] = "before" /\ i \notin todo[p]
                   \/ pc[p] \in Measuring \ {"before"}
HasAfter(p, i)  == \/ pc[p] = "after" /\ i \notin todo[p]
                   \/ pc[p] \in {"names", "disable"}
HasName(p, i)   == \/ pc[p] = "names" /\ i \notin todo[p]
                   \/ pc[p] = "disable"

NotAfter(a, b) == \A e \in Event : a[e] <= b[e]

\* The counters that a measurement of -1 has selected.
Selected(p) ==
  \A i \in Ctr :
    \/ pc[p] \in Measuring \union {"check_enable", "enable"}
    \/ pc[p] = "select" /\ i \notin todo[p]
    => select[i] = Preset(i)

\* Its readings and the run of the program in the order of time.
InOrder(p) ==
  /\ \A i \in Ctr :
       /\ HasBefore(p, i) => NotAfter(from[p][i], happened)
       /\ pc[p] \in {"end_program", "after", "names", "disable"}
            => NotAfter(from[p][i], run[p].start)
       /\ HasAfter(p, i) => NotAfter(run[p].end, to[p][i])
  /\ pc[p] \in {"after", "names", "disable"} => NotAfter(run[p].end, happened)

\* What holds of a process that runs -1 and that nobody has disturbed.
Monitor(p) ==
  /\ pc[p] \notin {"argument", "access"}
  /\ pc[p] \notin {"select", "before", "after", "names"} => todo[p] = Ctr
  /\ Selected(p)
  /\ pc[p] \in Measuring => enabled = [ctrs |-> Ctr, master |-> TRUE]
  /\ InOrder(p)
  /\ \A i \in Ctr : HasName(p, i) => names[p][i] = Preset(i)

MonitorInv == \A p \in Procs : job[p] = "-1" /\ ~disturbed[p] => Monitor(p)

\* Every step keeps the types of the readings.
LEMMA ReadingsStep ==
  ASSUME TypeOK, ReadingsType, [Next]_vars
  PROVE  ReadingsType'
<1>1. CASE UNCHANGED <<names, from, to, run>>
  BY <1>1 DEF ReadingsType
<1>2. happened \in Tally
  BY DEF TypeOK, Tally
<1>3. ASSUME NEW p \in Procs, MeasureStep(p)
      PROVE  ReadingsType'
  <2>1. ASSUME NEW i \in Ctr, ReadBefore(p, i)
        PROVE  ReadingsType'
    BY <1>2, <2>1 DEF ReadBefore, ReadingsType
  <2>2. ASSUME NEW i \in Ctr, ReadAfter(p, i)
        PROVE  ReadingsType'
    BY <1>2, <2>2 DEF ReadAfter, ReadingsType
  <2>3. ASSUME NEW i \in Ctr, ReadName(p, i)
        PROVE  ReadingsType'
    <3>1. PICK e \in Event : names' = [names EXCEPT ![p][i] = e]
      BY <2>3 DEF ReadName, Reading, TypeOK, Selects
    <3>2. QED
      BY <2>3, <3>1 DEF ReadName, ReadingsType
  <2>4. CASE StartProgram(p)
    BY <1>2, <2>4 DEF StartProgram, ReadingsType
  <2>5. CASE EndProgram(p)
    BY <1>2, <2>5 DEF EndProgram, ReadingsType
  <2>6. CASE MboxDisable(p)
    <3>1. Nothing \in Tally /\ NoCount \in [Ctr -> Event \union {0}]
      BY DEF Nothing, NoCount, Tally
    <3>2. QED
      BY <2>6, <3>1 DEF MboxDisable, ReadingsType
  <2>7. QED
    BY <1>1, <1>3, <2>1, <2>2, <2>3, <2>4, <2>5, <2>6 DEF MeasureStep, MboxEnable,
       CheckSelect, SelectCounter, CheckEnable, EnableCounters, readings
<1>4. ASSUME NEW p \in Procs, RegisterStep(p) \/ FirmwareSwitch(p) \/ EndOfFirmware(p)
      PROVE  UNCHANGED <<names, from, to, run>>
  BY <1>4 DEF RegisterStep, FirmwareSwitch, EndOfFirmware, StartRegister, Argument,
     EndOfArguments, Refuse, ReadRegister, WritePlain, WriteOne, WriteAll, WriteEnable,
     WriteClear, readings
<1>5. QED
  BY <1>1, <1>3, <1>4 DEF Next, Step, Happen, Terminated, vars, readings

\* The step of another process leaves an undisturbed measurement as it is.
LEMMA OthersMonitor ==
  ASSUME TypeOK, ReadingsType, NEW p \in Procs, Step(p), NEW q \in Procs \ {p}, Monitor(q),
         Depends(q) => select' = select /\ enabled' = enabled
  PROVE  Monitor(q)'
<1>1. pc'[q] = pc[q] /\ todo'[q] = todo[q]
  BY OthersStay
<1>2. /\ names'[q] = names[q] /\ from'[q] = from[q]
      /\ to'[q] = to[q] /\ run'[q] = run[q]
  <2>1. CASE UNCHANGED <<names, from, to, run>>
    BY <2>1
  <2>2. CASE MeasureStep(p)
    BY <2>1, <2>2 DEF MeasureStep, MboxEnable, CheckSelect, SelectCounter, CheckEnable,
       EnableCounters, ReadBefore, StartProgram, EndProgram, ReadAfter, ReadName,
       MboxDisable, readings, ReadingsType
  <2>3. QED
    BY <2>1, <2>2 DEF Step, RegisterStep, FirmwareSwitch, EndOfFirmware, StartRegister,
       Argument, EndOfArguments, Refuse, ReadRegister, WritePlain, WriteOne, WriteAll,
       WriteEnable, WriteClear, readings
<1>3. happened' = happened
  BY DEF Step, RegisterStep, FirmwareSwitch, EndOfFirmware, StartRegister, Argument,
     EndOfArguments, Refuse, ReadRegister, WritePlain, WriteOne, WriteAll, WriteEnable,
     WriteClear, MeasureStep, MboxEnable, CheckSelect, SelectCounter, CheckEnable,
     EnableCounters, ReadBefore, StartProgram, EndProgram, ReadAfter, ReadName, MboxDisable
<1>4. CASE Depends(q)
  BY <1>1, <1>2, <1>3, <1>4 DEF Monitor, Selected, InOrder, HasBefore, HasAfter, HasName,
     NotAfter
<1>5. CASE ~Depends(q)
  <2>1. pc[q] \notin Measuring \union {"select", "check_enable", "enable"}
    BY <1>5 DEF Depends, Measuring
  <2>2. QED
    BY <1>1, <2>1 DEF Monitor, Selected, InOrder, HasBefore, HasAfter, HasName, Measuring
<1>6. QED
  BY <1>4, <1>5

\* An event makes the time of past readings no later.
LEMMA HappenMonitor ==
  ASSUME TypeOK, ReadingsType, NEW e \in Event, Happen(e), NEW p \in Procs, Monitor(p)
  PROVE  Monitor(p)'
<1>1. NotAfter(happened, happened') /\ happened' \in Tally
  BY DEF Happen, TypeOK, NotAfter, Tally
<1>2. ASSUME NEW h \in Tally, NotAfter(h, happened)
      PROVE  NotAfter(h, happened')
  BY <1>1, <1>2 DEF NotAfter, TypeOK, Tally
<1>3. run[p].end \in Tally /\ \A i \in Ctr : from[p][i] \in Tally
  BY DEF ReadingsType
<1>4. /\ pc' = pc /\ todo' = todo /\ names' = names /\ from' = from /\ to' = to
      /\ run' = run /\ select' = select /\ enabled' = enabled
  BY DEF Happen, readings
<1>5. InOrder(p)'
  BY <1>2, <1>3, <1>4 DEF Monitor, InOrder, HasBefore, HasAfter, NotAfter
<1>6. QED
  BY <1>4, <1>5 DEF Monitor, Selected, HasName

\* Handling one counter of a loop, seen from the measurement that runs it.
LEMMA OwnLoop ==
  ASSUME TypeOK, NEW p \in Procs, NEW i \in Ctr, NEW l \in Label, Handled(p, i, l)
  PROVE  \/ pc'[p] = l /\ todo'[p] = Ctr /\ \A j \in Ctr : j = i \/ j \notin todo[p]
         \/ pc'[p] = pc[p] /\ \A j \in Ctr : j \notin todo'[p] => j = i \/ j \notin todo[p]
<1>1. \/ todo[p] = {i} /\ pc'[p] = l /\ todo'[p] = Ctr
      \/ todo[p] # {i} /\ pc'[p] = pc[p] /\ todo'[p] = todo[p] \ {i}
  BY LoopStep DEF TypeOK
<1>2. QED
  BY <1>1

\* A step of an undisturbed measurement of -1 itself.
LEMMA OwnMonitor ==
  ASSUME TypeOK, ReadingsType, NEW p \in Procs, Monitor(p), MeasureStep(p), job[p] = "-1",
         Depends(p) => on
  PROVE  Monitor(p)'
<1>g. ASSUME NEW l \in Label, GoTo(p, l)
      PROVE  pc'[p] = l
  BY <1>g, GoToLabel DEF TypeOK
<1>h. happened \in Tally /\ NotAfter(happened, happened)
  BY DEF TypeOK, Tally, NotAfter
<1>1. CASE MboxEnable(p)
  <2>1. pc'[p] = "check_select" /\ todo' = todo /\ pc[p] = "start"
    BY <1>g, <1>1 DEF MboxEnable, Label
  <2>2. QED
    BY <2>1 DEF Monitor, Selected, InOrder, HasBefore, HasAfter, HasName, Measuring
<1>2. CASE CheckSelect(p)
  <2>1. pc'[p] = "select" /\ todo'[p] = Ctr
    BY <1>g, <1>2 DEF CheckSelect, Depends, Monitor, Label
  <2>2. QED
    BY <2>1 DEF Monitor, Selected, InOrder, HasBefore, HasAfter, HasName, Measuring
<1>3. ASSUME NEW i \in Ctr, SelectCounter(p, i)
      PROVE  Monitor(p)'
  <2>1. /\ pc[p] = "select" /\ on
        /\ select' = [select EXCEPT ![i] = Preset(i)]
    BY <1>3 DEF SelectCounter, WriteSelect, WriteCounters, Depends
  <2>2. \/ /\ pc'[p] = "check_enable" /\ todo'[p] = Ctr
           /\ \A j \in Ctr : j = i \/ j \notin todo[p]
        \/ pc'[p] = "select" /\ \A j \in Ctr : j \notin todo'[p] => j = i \/ j \notin todo[p]
    BY <1>3, <2>1, OwnLoop DEF SelectCounter, Label
  <2>3. \A j \in Ctr : j = i \/ j \notin todo[p] => select'[j] = Preset(j)
    BY <2>1 DEF Monitor, Selected, TypeOK, Selects
  <2>4. Selected(p)'
    BY <2>2, <2>3 DEF Selected, Measuring
  <2>5. QED
    BY <2>2, <2>4 DEF Monitor, InOrder, HasBefore, HasAfter, HasName, Measuring
<1>4. CASE CheckEnable(p)
  <2>1. pc'[p] = "enable" /\ todo' = todo /\ select' = select /\ pc[p] = "check_enable"
    BY <1>g, <1>4 DEF CheckEnable, Depends, Label, counters
  <2>2. QED
    BY <2>1 DEF Monitor, Selected, InOrder, HasBefore, HasAfter, HasName, Measuring
<1>5. CASE EnableCounters(p)
  <2>1. /\ pc'[p] = "before" /\ todo' = todo /\ select' = select /\ pc[p] = "enable"
        /\ enabled' = [ctrs |-> Ctr, master |-> TRUE]
    BY <1>g, <1>5 DEF EnableCounters, WriteCounters, Depends, Label
  <2>2. QED
    BY <2>1 DEF Monitor, Selected, InOrder, HasBefore, HasAfter, HasName, Measuring
<1>6. ASSUME NEW i \in Ctr, ReadBefore(p, i)
      PROVE  Monitor(p)'
  <2>1. /\ pc[p] = "before" /\ select' = select /\ enabled' = enabled /\ happened' = happened
        /\ from' = [from EXCEPT ![p][i] = happened]
    BY <1>6 DEF ReadBefore, counters
  <2>2. \/ /\ pc'[p] = "start_program" /\ todo'[p] = Ctr
           /\ \A j \in Ctr : j = i \/ j \notin todo[p]
        \/ pc'[p] = "before" /\ \A j \in Ctr : j \notin todo'[p] => j = i \/ j \notin todo[p]
    BY <1>6, <2>1, OwnLoop DEF ReadBefore, Label
  <2>3. \A j \in Ctr : j = i \/ j \notin todo[p] => NotAfter(from'[p][j], happened)
    BY <1>h, <2>1 DEF Monitor, InOrder, HasBefore, ReadingsType
  <2>4. InOrder(p)'
    BY <2>1, <2>2, <2>3 DEF InOrder, HasBefore, HasAfter, Measuring, NotAfter
  <2>5. QED
    BY <2>1, <2>2, <2>4 DEF Monitor, Selected, HasName, Measuring
<1>7. CASE StartProgram(p)
  <2>1. /\ pc[p] = "start_program" /\ select' = select /\ enabled' = enabled
        /\ happened' = happened /\ from' = from /\ todo' = todo
        /\ run' = [run EXCEPT ![p].start = happened]
    BY <1>7 DEF StartProgram, counters
  <2>2. pc'[p] = "end_program" /\ run'[p].start = happened
    BY <1>g, <1>7, <2>1 DEF StartProgram, Label, ReadingsType
  <2>3. InOrder(p)'
    BY <2>1, <2>2 DEF Monitor, InOrder, HasBefore, HasAfter, Measuring, NotAfter
  <2>4. QED
    BY <2>1, <2>2, <2>3 DEF Monitor, Selected, HasName, Measuring
<1>8. CASE EndProgram(p)
  <2>1. /\ pc[p] = "end_program" /\ select' = select /\ enabled' = enabled
        /\ happened' = happened /\ from' = from /\ todo' = todo
        /\ run' = [run EXCEPT ![p].end = happened]
    BY <1>8 DEF EndProgram, counters
  <2>2. pc'[p] = "after" /\ run'[p].end = happened /\ run'[p].start = run[p].start
    BY <1>g, <1>8, <2>1 DEF EndProgram, Label, ReadingsType
  <2>3. InOrder(p)'
    BY <1>h, <2>1, <2>2 DEF Monitor, InOrder, HasBefore, HasAfter, Measuring, NotAfter
  <2>4. QED
    BY <2>1, <2>2, <2>3 DEF Monitor, Selected, HasName, Measuring
<1>9. ASSUME NEW i \in Ctr, ReadAfter(p, i)
      PROVE  Monitor(p)'
  <2>1. /\ pc[p] = "after" /\ select' = select /\ enabled' = enabled /\ happened' = happened
        /\ from' = from /\ run' = run /\ to' = [to EXCEPT ![p][i] = happened]
    BY <1>9 DEF ReadAfter, counters
  <2>2. \/ /\ pc'[p] = "names" /\ todo'[p] = Ctr
           /\ \A j \in Ctr : j = i \/ j \notin todo[p]
        \/ pc'[p] = "after" /\ \A j \in Ctr : j \notin todo'[p] => j = i \/ j \notin todo[p]
    BY <1>9, <2>1, OwnLoop DEF ReadAfter, Label
  <2>3. \A j \in Ctr : j = i \/ j \notin todo[p] => NotAfter(run[p].end, to'[p][j])
    BY <2>1 DEF Monitor, InOrder, HasAfter, ReadingsType
  <2>4. InOrder(p)'
    BY <2>1, <2>2, <2>3 DEF Monitor, InOrder, HasBefore, HasAfter, Measuring, NotAfter
  <2>5. QED
    BY <2>1, <2>2, <2>4 DEF Monitor, Selected, HasName, Measuring
<1>10. ASSUME NEW i \in Ctr, ReadName(p, i)
       PROVE  Monitor(p)'
  <2>1. /\ pc[p] = "names" /\ select' = select /\ enabled' = enabled /\ happened' = happened
        /\ from' = from /\ run' = run /\ to' = to
        /\ names' = [names EXCEPT ![p][i] = select[i]]
    BY <1>10 DEF ReadName, Reading, Depends, counters
  <2>2. \/ /\ pc'[p] = "disable" /\ todo'[p] = Ctr
           /\ \A j \in Ctr : j = i \/ j \notin todo[p]
        \/ pc'[p] = "names" /\ \A j \in Ctr : j \notin todo'[p] => j = i \/ j \notin todo[p]
    BY <1>10, <2>1, OwnLoop DEF ReadName, Label
  <2>3. select[i] = Preset(i)
    BY <2>1 DEF Monitor, Selected, Measuring
  <2>4. \A j \in Ctr : j = i \/ j \notin todo[p] => names'[p][j] = Preset(j)
    BY <2>1, <2>3 DEF Monitor, HasName, ReadingsType
  <2>5. InOrder(p)'
    BY <2>1, <2>2 DEF Monitor, InOrder, HasBefore, HasAfter, Measuring, NotAfter
  <2>6. QED
    BY <2>1, <2>2, <2>4, <2>5 DEF Monitor, Selected, HasName, Measuring
<1>11. CASE MboxDisable(p)
  <2>1. pc'[p] = "done" /\ todo' = todo /\ pc[p] = "disable"
    BY <1>g, <1>11 DEF MboxDisable, Label
  <2>2. QED
    BY <2>1 DEF Monitor, Selected, InOrder, HasBefore, HasAfter, HasName, Measuring
<1>12. QED
  BY <1>1, <1>2, <1>3, <1>4, <1>5, <1>6, <1>7, <1>8, <1>9, <1>10, <1>11 DEF MeasureStep

\* Every step keeps what the measurements of -1 rely on.
LEMMA MonitorStep ==
  ASSUME TypeOK, ReadingsType, PoweredAccess, MonitorInv, [Next]_vars
  PROVE  MonitorInv'
<1>1. ASSUME NEW p \in Procs, Step(p), Disturb(p), job' = job
      PROVE  MonitorInv'
  <2>1. SUFFICES ASSUME NEW q \in Procs, job[q] = "-1", ~disturbed'[q]
                 PROVE  Monitor(q)'
    BY <1>1 DEF MonitorInv
  <2>2. CASE q = p
    <3>1. ~disturbed[p]
      BY <1>1, <2>1, <2>2, DisturbStep DEF TypeOK
    <3>2. Monitor(p) /\ (Depends(p) => on)
      BY <2>1, <2>2, <3>1 DEF MonitorInv, PoweredAccess
    <3>3. MeasureStep(p)
      BY <1>1, <2>1, <2>2, <3>2 DEF Step, RegisterStep, StartRegister, Argument,
         EndOfArguments, Refuse, FirmwareSwitch, EndOfFirmware, Monitor
    <3>4. QED
      BY <2>1, <2>2, <3>2, <3>3, OwnMonitor
  <2>3. CASE q # p
    <3>1. ~disturbed[q] /\ (Depends(q) => select' = select /\ enabled' = enabled)
      BY <1>1, <2>1, <2>3, DisturbStep DEF TypeOK
    <3>2. Monitor(q)
      BY <2>1, <3>1 DEF MonitorInv
    <3>3. QED
      BY <1>1, <2>3, <3>1, <3>2, OthersMonitor
  <2>4. QED
    BY <2>2, <2>3
<1>2. ASSUME NEW e \in Event, Happen(e)
      PROVE  MonitorInv'
  <2>1. job' = job /\ disturbed' = disturbed
    BY <1>2 DEF Happen
  <2>2. QED
    BY <1>2, <2>1, HappenMonitor DEF MonitorInv
<1>3. CASE UNCHANGED vars
  BY <1>3 DEF vars, counters, readings, MonitorInv, Monitor, Selected, InOrder, HasBefore,
     HasAfter, HasName, NotAfter
<1>4. QED
  BY <1>1, <1>2, <1>3 DEF Next, Terminated

\* For every number of processes, counters and events: a report of -1 that nobody
\* disturbed names the preconfigured events, and each of its counts was begun
\* before the program started and ended after the program did.
THEOREM Monitored == Spec => []MonitorsProgram
<1>1. Init => ReadingsType
  BY DEF Init, ReadingsType, Nothing, NoCount, Tally
<1>2. Init => MonitorInv
  BY DEF Init, MonitorInv, Monitor, Selected, InOrder, HasBefore, HasAfter, HasName, Measuring
<1>3. MonitorInv => MonitorsProgram
  <2>1. SUFFICES ASSUME MonitorInv, NEW p \in Procs, pc[p] = "disable", job[p] = "-1",
                        ~disturbed[p], NEW i \in Ctr
                 PROVE  /\ names[p][i] = Preset(i) /\ enabled.master /\ i \in enabled.ctrs
                        /\ from[p][i][Preset(i)] <= run[p].start[Preset(i)]
                        /\ run[p].end[Preset(i)] <= to[p][i][Preset(i)]
    BY DEF MonitorsProgram
  <2>2. Monitor(p)
    BY <2>1 DEF MonitorInv
  <2>3. enabled = [ctrs |-> Ctr, master |-> TRUE]
    BY <2>1, <2>2 DEF Monitor, Measuring
  <2>4. names[p][i] = Preset(i)
    BY <2>1, <2>2 DEF Monitor, HasName
  <2>5. NotAfter(from[p][i], run[p].start) /\ NotAfter(run[p].end, to[p][i])
    BY <2>1, <2>2 DEF Monitor, InOrder, HasAfter
  <2>6. QED
    BY <2>3, <2>4, <2>5, PresetAssumption DEF NotAfter
<1>4. Init => PoweredAccess
  BY DEF Init, PoweredAccess, Depends
<1>5. QED
  BY <1>1, <1>2, <1>3, <1>4, TypeInit, TypeStep, ReadingsStep, PowerStep, MonitorStep, PTL
  DEF Spec

-----------------------------------------------------------------------------
(* What a measurement prints is true                                       *)

\* Quotient and remainder are unique.
LEMMA Remainder ==
  ASSUME NEW m \in Nat \ {0}, NEW x \in Int, NEW k \in Int
  PROVE  (x + k * m) % m = x % m
<1>1. x = m * (x \div m) + (x % m) /\ x \div m \in Int /\ x % m \in 0 .. m - 1
  OBVIOUS
<1>2. x + k * m = m * ((x \div m) + k) + (x % m)
  BY <1>1
<1>3. \A q \in Int, r \in 0 .. m - 1 : (m * q + r) % m = r
  OBVIOUS
<1>4. (x \div m) + k \in Int
  BY <1>1
<1>5. QED
  BY <1>1, <1>2, <1>3, <1>4

\* A counter that wraps goes on counting modulo its width.
LEMMA WrapStep ==
  ASSUME NEW x \in Int
  PROVE  ((x % U32) + 1) % U32 = (x + 1) % U32
<1>1. U32 \in Nat \ {0} /\ x \div U32 \in Int /\ x % U32 \in Int
  BY U32Assumption
<1>2. x + 1 = ((x % U32) + 1) + (x \div U32) * U32
  BY <1>1
<1>3. \A y \in Int, k \in Int : (y + k * U32) % U32 = y % U32
  BY <1>1, Remainder
<1>4. (x % U32) + 1 \in Int
  BY <1>1
<1>5. (((x % U32) + 1) + (x \div U32) * U32) % U32 = ((x % U32) + 1) % U32
  BY <1>1, <1>3, <1>4
<1>6. QED
  BY <1>2, <1>5

\* diff_PCTR gives the increase of a counter, modulo its width, when it wrapped
\* as when it did not.
LEMMA DiffTrue ==
  ASSUME NEW b \in Word, NEW d \in Int
  PROVE  Diff(b, (b + d) % U32) = d % U32
<1>1. U32 \in Nat \ {0} /\ b \in Int
  BY U32Assumption DEF Word
<1>2. (b + d) \div U32 \in Int /\ (b + d) % U32 \in Int
  BY <1>1
<1>3. ((b + d) % U32) - b = d + (0 - ((b + d) \div U32)) * U32
  BY <1>1, <1>2
<1>4. \A y \in Int, k \in Int : (y + k * U32) % U32 = y % U32
  BY <1>1, Remainder
<1>5. (d + (0 - ((b + d) \div U32)) * U32) % U32 = d % U32
  BY <1>2, <1>4
<1>6. QED
  BY <1>3, <1>5 DEF Diff

Counted(i) == enabled.master /\ i \in enabled.ctrs

\* How often counter i should have counted between its first reading and the
\* time of h.
Since(p, i, h) == IF Counted(i) THEN h[select[i]] - from[p][i][select[i]] ELSE 0

\* Counter i, or its second reading, is ahead of its first by what happened.
Ahead(p, i) ==
  /\ HasBefore(p, i) /\ ~HasAfter(p, i)
       => count[i] = (before[p][i] + Since(p, i, happened)) % U32
  /\ HasAfter(p, i) => after[p][i] = (before[p][i] + Since(p, i, to[p][i])) % U32

\* What holds of a measurement that nobody has disturbed.
Tracks(p) ==
  /\ pc[p] \notin {"argument", "access"}
  /\ pc[p] \notin {"select", "before", "after", "names"} => todo[p] = Ctr
  /\ \A i \in Ctr : HasName(p, i) => names[p][i] = select[i]
  /\ \A i \in Ctr : Ahead(p, i)

Measures(p) == job[p] \in {"-1", "-2"}

ReportInv ==
  \A p \in Procs :
    /\ Measures(p) /\ ~disturbed[p] => Tracks(p)
    /\ ~Measures(p) => pc[p] \in {"start", "argument", "access", "done"}

\* Since is a number.
LEMMA SinceInt ==
  ASSUME TypeOK, ReadingsType, NEW p \in Procs, NEW i \in Ctr, NEW h \in Tally
  PROVE  Since(p, i, h) \in Int
BY DEF Since, TypeOK, ReadingsType, Selects, Tally

\* The hardware counts the event that a counter selects.
LEMMA HappenReport ==
  ASSUME TypeOK, ReadingsType, NEW e \in Event, Happen(e), NEW p \in Procs, Tracks(p)
  PROVE  Tracks(p)'
<1>1. /\ pc' = pc /\ todo' = todo /\ names' = names /\ from' = from /\ to' = to
      /\ before' = before /\ after' = after /\ select' = select /\ enabled' = enabled
  BY DEF Happen, readings
<1>2. ASSUME NEW i \in Ctr
      PROVE  Ahead(p, i)'
  <2>1. happened \in Tally /\ happened' = [happened EXCEPT ![e] = happened[e] + 1]
    BY DEF Happen, TypeOK, Tally
  <2>2. CASE Counted(i) /\ select[i] = e
    <3>1. Since(p, i, happened)' = Since(p, i, happened) + 1
      BY <1>1, <2>1, <2>2 DEF Since, Counted, Tally, ReadingsType
    <3>2. count'[i] = (count[i] + 1) % U32
      BY <2>2 DEF Happen, Counted, TypeOK, Counts
    <3>3. Since(p, i, happened) \in Int /\ before[p][i] \in Int
      BY <2>1, SinceInt DEF TypeOK, Counts, Word
    <3>4. (((before[p][i] + Since(p, i, happened)) % U32) + 1) % U32
            = (before[p][i] + (Since(p, i, happened) + 1)) % U32
      BY <3>3, WrapStep
    <3>5. Since(p, i, to[p][i])' = Since(p, i, to[p][i])
      BY <1>1 DEF Since, Counted
    <3>6. QED
      BY <1>1, <3>1, <3>2, <3>4, <3>5 DEF Tracks, Ahead, HasBefore, HasAfter
  <2>3. CASE ~(Counted(i) /\ select[i] = e)
    <3>1. count'[i] = count[i]
      BY <2>3 DEF Happen, Counted
    <3>2. select[i] \in Event
      BY DEF TypeOK, Selects
    <3>3. Since(p, i, happened)' = Since(p, i, happened)
      BY <1>1, <2>1, <2>3, <3>2 DEF Since, Counted, Tally
    <3>4. Since(p, i, to[p][i])' = Since(p, i, to[p][i])
      BY <1>1 DEF Since, Counted
    <3>5. QED
      BY <1>1, <3>1, <3>3, <3>4 DEF Tracks, Ahead, HasBefore, HasAfter
  <2>4. QED
    BY <2>2, <2>3
<1>3. QED
  BY <1>1, <1>2 DEF Tracks, HasName

\* Readings belong to the process that takes them.
LEMMA OthersReport ==
  ASSUME TypeOK, ReadingsType, NEW p \in Procs, Step(p), NEW q \in Procs \ {p}, Tracks(q),
         Depends(q) => select' = select /\ enabled' = enabled /\ count' = count
  PROVE  Tracks(q)'
<1>1. pc'[q] = pc[q] /\ todo'[q] = todo[q]
  BY OthersStay
<1>2. /\ names'[q] = names[q] /\ from'[q] = from[q] /\ to'[q] = to[q]
      /\ before'[q] = before[q] /\ after'[q] = after[q]
  <2>1. CASE UNCHANGED <<names, from, to, before, after>>
    BY <2>1
  <2>2. CASE MeasureStep(p)
    BY <2>1, <2>2 DEF MeasureStep, MboxEnable, CheckSelect, SelectCounter, CheckEnable,
       EnableCounters, ReadBefore, StartProgram, EndProgram, ReadAfter, ReadName,
       MboxDisable, readings, ReadingsType, TypeOK
  <2>3. QED
    BY <2>1, <2>2 DEF Step, RegisterStep, FirmwareSwitch, EndOfFirmware, StartRegister,
       Argument, EndOfArguments, Refuse, ReadRegister, WritePlain, WriteOne, WriteAll,
       WriteEnable, WriteClear, readings
<1>3. happened' = happened
  BY DEF Step, RegisterStep, FirmwareSwitch, EndOfFirmware, StartRegister, Argument,
     EndOfArguments, Refuse, ReadRegister, WritePlain, WriteOne, WriteAll, WriteEnable,
     WriteClear, MeasureStep, MboxEnable, CheckSelect, SelectCounter, CheckEnable,
     EnableCounters, ReadBefore, StartProgram, EndProgram, ReadAfter, ReadName, MboxDisable
<1>4. CASE Depends(q)
  BY <1>1, <1>2, <1>3, <1>4 DEF Tracks, Ahead, Since, Counted, HasBefore, HasAfter, HasName
<1>5. CASE ~Depends(q)
  <2>1. pc[q] \notin Measuring
    BY <1>5 DEF Depends, Measuring
  <2>2. QED
    BY <1>1, <2>1 DEF Tracks, Ahead, HasBefore, HasAfter, HasName, Measuring
<1>6. QED
  BY <1>4, <1>5

\* A step of an undisturbed measurement itself.
LEMMA OwnReport ==
  ASSUME TypeOK, ReadingsType, NEW p \in Procs, Tracks(p), MeasureStep(p), Depends(p) => on
  PROVE  Tracks(p)'
<1>g. ASSUME NEW l \in Label, GoTo(p, l)
      PROVE  pc'[p] = l
  BY <1>g, GoToLabel DEF TypeOK
<1>c. \A i \in Ctr : count[i] \in Word /\ count[i] % U32 = count[i]
  <2>1. \A n \in Word : n % U32 = n
    BY U32Assumption DEF Word
  <2>2. \A i \in Ctr : count[i] \in Word
    BY DEF TypeOK, Counts
  <2>3. QED
    BY <2>1, <2>2
<1>1. CASE MboxEnable(p) \/ CheckSelect(p) \/ CheckEnable(p) \/ EnableCounters(p)
  <2>1. /\ pc'[p] \in {"check_select", "select", "check_enable", "enable", "before"}
        /\ todo'[p] = todo[p] /\ todo[p] = Ctr
    BY <1>g, <1>1 DEF MboxEnable, CheckSelect, CheckEnable, EnableCounters, Label, Tracks
  <2>2. QED
    BY <2>1 DEF Tracks, Ahead, HasBefore, HasAfter, HasName, Measuring
<1>2. ASSUME NEW i \in Ctr, SelectCounter(p, i)
      PROVE  Tracks(p)'
  <2>1. \/ pc'[p] = "check_enable" /\ todo'[p] = Ctr
        \/ pc'[p] = "select"
    BY <1>2, OwnLoop DEF SelectCounter, Label
  <2>2. QED
    BY <2>1 DEF Tracks, Ahead, HasBefore, HasAfter, HasName, Measuring
<1>3. ASSUME NEW i \in Ctr, ReadBefore(p, i)
      PROVE  Tracks(p)'
  <2>1. /\ pc[p] = "before" /\ select' = select /\ enabled' = enabled /\ count' = count
        /\ happened' = happened /\ from' = [from EXCEPT ![p][i] = happened]
        /\ before' = [before EXCEPT ![p][i] = count[i]]
    BY <1>3 DEF ReadBefore, Reading, Depends, counters
  <2>2. \/ /\ pc'[p] = "start_program" /\ todo'[p] = Ctr
           /\ \A j \in Ctr : j = i \/ j \notin todo[p]
        \/ pc'[p] = "before" /\ \A j \in Ctr : j \notin todo'[p] => j = i \/ j \notin todo[p]
    BY <1>3, <2>1, OwnLoop DEF ReadBefore, Label
  <2>3. \A j \in Ctr : j # i => before'[p][j] = before[p][j] /\ from'[p][j] = from[p][j]
    BY <2>1 DEF TypeOK, Counts, ReadingsType
  <2>4. before'[p][i] = count[i] /\ from'[p][i] = happened
    BY <2>1 DEF TypeOK, Counts, ReadingsType
  <2>5. Since(p, i, happened)' = 0
    <3>1. happened[select[i]] \in Int
      BY DEF TypeOK, Selects
    <3>2. QED
      BY <2>1, <2>4, <3>1 DEF Since
  <2>6. count[i] = (before'[p][i] + Since(p, i, happened)') % U32
    BY <1>c, <2>4, <2>5 DEF Word
  <2>7. ASSUME NEW j \in Ctr, j # i, j \notin todo[p]
        PROVE  count[j] = (before'[p][j] + Since(p, j, happened)') % U32
    BY <2>1, <2>3, <2>7 DEF Tracks, Ahead, HasBefore, HasAfter, Since, Counted
  <2>8. \A j \in Ctr : Ahead(p, j)'
    BY <2>1, <2>2, <2>6, <2>7 DEF Ahead, HasBefore, HasAfter, Measuring
  <2>9. QED
    BY <2>2, <2>8 DEF Tracks, HasName
<1>4. CASE StartProgram(p) \/ EndProgram(p)
  <2>1. /\ pc[p] \in {"start_program", "end_program"} /\ todo' = todo
        /\ select' = select /\ enabled' = enabled /\ count' = count
        /\ happened' = happened /\ from' = from /\ before' = before
    BY <1>4 DEF StartProgram, EndProgram, counters
  <2>2. pc'[p] \in {"end_program", "after"} /\ todo[p] = Ctr
    BY <1>g, <1>4, <2>1 DEF StartProgram, EndProgram, Label, Tracks
  <2>3. QED
    BY <2>1, <2>2 DEF Tracks, Ahead, Since, Counted, HasBefore, HasAfter, HasName, Measuring
<1>5. ASSUME NEW i \in Ctr, ReadAfter(p, i)
      PROVE  Tracks(p)'
  <2>1. /\ pc[p] = "after" /\ select' = select /\ enabled' = enabled /\ count' = count
        /\ happened' = happened /\ from' = from /\ before' = before
        /\ to' = [to EXCEPT ![p][i] = happened]
        /\ after' = [after EXCEPT ![p][i] = count[i]]
    BY <1>5 DEF ReadAfter, Reading, Depends, counters
  <2>2. \/ /\ pc'[p] = "names" /\ todo'[p] = Ctr
           /\ \A j \in Ctr : j = i \/ j \notin todo[p]
        \/ pc'[p] = "after" /\ (i \notin todo'[p])
           /\ \A j \in Ctr : j # i => (j \notin todo'[p] <=> j \notin todo[p])
    <3>1. \/ todo[p] = {i} /\ pc'[p] = "names" /\ todo'[p] = Ctr
          \/ todo[p] # {i} /\ pc'[p] = pc[p] /\ todo'[p] = todo[p] \ {i}
      BY <1>5, LoopStep DEF ReadAfter, TypeOK, Label
    <3>2. QED
      BY <2>1, <3>1
  <2>3. \A j \in Ctr : j # i => after'[p][j] = after[p][j] /\ to'[p][j] = to[p][j]
    BY <2>1 DEF TypeOK, Counts, ReadingsType
  <2>4. after'[p][i] = count[i] /\ to'[p][i] = happened
    BY <2>1 DEF TypeOK, Counts, ReadingsType
  <2>5. i \in todo[p]
    BY <1>5 DEF ReadAfter
  <2>6. after'[p][i] = (before'[p][i] + Since(p, i, to[p][i])') % U32
    BY <2>1, <2>4, <2>5 DEF Tracks, Ahead, HasBefore, HasAfter, Measuring, Since, Counted
  <2>7. ASSUME NEW j \in Ctr, j # i, j \notin todo[p]
        PROVE  after'[p][j] = (before'[p][j] + Since(p, j, to[p][j])') % U32
    BY <2>1, <2>3, <2>7 DEF Tracks, Ahead, HasAfter, Since, Counted
  <2>8. ASSUME NEW j \in Ctr, j # i, j \in todo[p]
        PROVE  count'[j] = (before'[p][j] + Since(p, j, happened)') % U32
    BY <2>1, <2>8 DEF Tracks, Ahead, HasBefore, HasAfter, Measuring, Since, Counted
  <2>9. \A j \in Ctr : Ahead(p, j)'
    BY <2>1, <2>2, <2>6, <2>7, <2>8 DEF Ahead, HasBefore, HasAfter, Measuring
  <2>10. QED
    BY <2>2, <2>9 DEF Tracks, HasName
<1>6. ASSUME NEW i \in Ctr, ReadName(p, i)
      PROVE  Tracks(p)'
  <2>1. /\ pc[p] = "names" /\ select' = select /\ enabled' = enabled
        /\ from' = from /\ before' = before /\ to' = to /\ after' = after
        /\ names' = [names EXCEPT ![p][i] = select[i]]
    BY <1>6 DEF ReadName, Reading, Depends, counters
  <2>2. \/ /\ pc'[p] = "disable" /\ todo'[p] = Ctr
           /\ \A j \in Ctr : j = i \/ j \notin todo[p]
        \/ pc'[p] = "names" /\ \A j \in Ctr : j \notin todo'[p] => j = i \/ j \notin todo[p]
    BY <1>6, <2>1, OwnLoop DEF ReadName, Label
  <2>3. \A j \in Ctr : j = i \/ j \notin todo[p] => names'[p][j] = select[j]
    BY <2>1 DEF Tracks, HasName, ReadingsType
  <2>4. \A j \in Ctr : Ahead(p, j)'
    BY <2>1, <2>2 DEF Tracks, Ahead, Since, Counted, HasBefore, HasAfter, Measuring
  <2>5. QED
    BY <2>1, <2>2, <2>3, <2>4 DEF Tracks, HasName
<1>7. CASE MboxDisable(p)
  <2>1. pc'[p] = "done" /\ todo' = todo /\ pc[p] = "disable"
    BY <1>g, <1>7 DEF MboxDisable, Label
  <2>2. QED
    BY <2>1 DEF Tracks, Ahead, HasBefore, HasAfter, HasName, Measuring
<1>8. QED
  BY <1>1, <1>2, <1>3, <1>4, <1>5, <1>6, <1>7 DEF MeasureStep

\* Every step keeps what the reports rely on.
LEMMA ReportStep ==
  ASSUME TypeOK, ReadingsType, PoweredAccess, ReportInv, [Next]_vars
  PROVE  ReportInv'
<1>1. ASSUME NEW p \in Procs, Step(p), Disturb(p), job' = job
      PROVE  ReportInv'
  <2>1. ASSUME NEW q \in Procs, Measures(q), ~disturbed'[q]
        PROVE  Tracks(q)'
    <3>1. CASE q = p
      <4>1. ~disturbed[p]
        BY <1>1, <2>1, <3>1, DisturbStep DEF TypeOK
      <4>2. Tracks(p) /\ (Depends(p) => on)
        BY <2>1, <3>1, <4>1 DEF ReportInv, PoweredAccess
      <4>3. MeasureStep(p)
        BY <1>1, <2>1, <3>1, <4>2 DEF Step, RegisterStep, StartRegister, Argument,
           EndOfArguments, Refuse, FirmwareSwitch, EndOfFirmware, Tracks, Measures
      <4>4. QED
        BY <3>1, <4>2, <4>3, OwnReport
    <3>2. CASE q # p
      <4>1. /\ ~disturbed[q]
            /\ Depends(q) => select' = select /\ enabled' = enabled /\ count' = count
        BY <1>1, <2>1, <3>2, DisturbStep DEF TypeOK
      <4>2. Tracks(q)
        BY <2>1, <4>1 DEF ReportInv
      <4>3. QED
        BY <1>1, <3>2, <4>1, <4>2, OthersReport
    <3>3. QED
      BY <3>1, <3>2
  <2>2. ASSUME NEW q \in Procs, ~Measures(q)
        PROVE  pc'[q] \in {"start", "argument", "access", "done"}
    <3>1. CASE q # p
      BY <1>1, <2>2, <3>1, OthersStay DEF ReportInv
    <3>2. CASE q = p
      <4>1. pc[p] \in {"start", "argument", "access", "done"}
        BY <2>2, <3>2 DEF ReportInv
      <4>2. ~MeasureStep(p)
        BY <2>2, <3>2, <4>1 DEF Measures, MeasureStep, MboxEnable, CheckSelect,
           SelectCounter, CheckEnable, EnableCounters, ReadBefore, StartProgram, EndProgram,
           ReadAfter, ReadName, MboxDisable
      <4>3. \/ pc'[p] = pc[p]
            \/ \E l \in {"argument", "access", "done"} : GoTo(p, l)
            \/ \E i \in Ctr : Handled(p, i, "argument")
        BY <1>1, <4>2 DEF Step, RegisterStep, StartRegister, Argument, EndOfArguments,
           Refuse, ReadRegister, WritePlain, WriteOne, WriteAll, WriteEnable, WriteClear,
           FirmwareSwitch, EndOfFirmware, TypeOK
      <4>4. ASSUME NEW l \in {"argument", "access", "done"}, GoTo(p, l)
            PROVE  pc'[p] = l
        BY <4>4, GoToLabel DEF TypeOK, Label
      <4>5. ASSUME NEW i \in Ctr, Handled(p, i, "argument")
            PROVE  pc'[p] \in {"argument", pc[p]}
        BY <4>5, OwnLoop DEF Label
      <4>6. QED
        BY <3>2, <4>1, <4>3, <4>4, <4>5
    <3>3. QED
      BY <3>1, <3>2
  <2>3. QED
    BY <1>1, <2>1, <2>2 DEF ReportInv, Measures
<1>2. ASSUME NEW e \in Event, Happen(e)
      PROVE  ReportInv'
  <2>1. job' = job /\ disturbed' = disturbed /\ pc' = pc
    BY <1>2 DEF Happen
  <2>2. QED
    BY <1>2, <2>1, HappenReport DEF ReportInv, Measures
<1>3. CASE UNCHANGED vars
  BY <1>3 DEF vars, counters, readings, ReportInv, Measures, Tracks, Ahead, Since, Counted,
     HasBefore, HasAfter, HasName
<1>4. QED
  BY <1>1, <1>2, <1>3 DEF Next, Terminated

\* For every width of the counters and however many events happen: what a
\* measurement prints that nobody disturbed is how often the event it names
\* happened between the two readings, also when the counter wrapped.
THEOREM Reported == Spec => []ReportTrue
<1>1. Init => ReadingsType
  BY DEF Init, ReadingsType, Nothing, NoCount, Tally
<1>2. Init => ReportInv
  BY DEF Init, ReportInv, Tracks, Ahead, HasBefore, HasAfter, HasName, Measuring
<1>3. TypeOK /\ ReadingsType /\ ReportInv => ReportTrue
  <2>1. SUFFICES ASSUME TypeOK, ReadingsType, ReportInv, NEW p \in Procs,
                        pc[p] = "disable", ~disturbed[p], NEW i \in Ctr
                 PROVE  Printed(p, i) =
                          IF Counted(i)
                          THEN (to[p][i][names[p][i]] - from[p][i][names[p][i]]) % U32 ELSE 0
    BY DEF ReportTrue, Counted
  <2>2. Tracks(p)
    BY <2>1 DEF ReportInv
  <2>3. names[p][i] = select[i]
    BY <2>1, <2>2 DEF Tracks, HasName
  <2>4. after[p][i] = (before[p][i] + Since(p, i, to[p][i])) % U32
    BY <2>1, <2>2 DEF Tracks, Ahead, HasAfter
  <2>5. before[p][i] \in Word /\ to[p][i] \in Tally
    BY <2>1 DEF TypeOK, Counts, ReadingsType
  <2>6. Since(p, i, to[p][i]) \in Int
    BY <2>1, <2>5, SinceInt
  <2>7. Printed(p, i) = Since(p, i, to[p][i]) % U32
    BY <2>4, <2>5, <2>6, DiffTrue DEF Printed
  <2>8. 0 % U32 = 0
    BY U32Assumption
  <2>9. QED
    BY <2>3, <2>7, <2>8 DEF Since
<1>4. Init => PoweredAccess
  BY DEF Init, PoweredAccess, Depends
<1>5. QED
  BY <1>1, <1>2, <1>3, <1>4, TypeInit, TypeStep, ReadingsStep, PowerStep, ReportStep, PTL
  DEF Spec
=============================================================================
