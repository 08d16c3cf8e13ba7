---------------------------- MODULE MC_Registers ----------------------------
(***************************************************************************)
(* Instances of Registers for TLC: two processes that measure or change    *)
(* the counters, or one that names any register beside a user of the       *)
(* switch.                                                                 *)
(***************************************************************************)
EXTENDS Registers, TLC

CONSTANTS p1, p2

MC_Two == {p1, p2}

MC_Ctr == 0 .. 1
MC_Event == {0, 13, 14}

\* Counters that wrap with the next event; one of them enabled by an earlier
\* `register pctre`.
MC_Left ==
  {[select |-> [i \in MC_Ctr |-> IF i = 0 THEN 13 ELSE 0],
    enabled |-> [ctrs |-> {0}, master |-> TRUE],
    count |-> [i \in MC_Ctr |-> U32 - 1]]}

\* A process that measures, beside one that measures or changes the registers;
\* or one that may name any register, beside one at the switch.
MC_Jobs ==
  {j \in [MC_Two -> {"register", "-1", "-2", "firmware"}] :
     IF j[p1] = "register" THEN j[p2] = "firmware"
                           ELSE j[p1] # "firmware" /\ j[p2] # j[p1]}

MC_CounterRegisters ==
  {<<"pctrs", All>>, <<"pctre", All>>, <<"pctrc", All>>, <<"pctr", All>>}
MC_Named == [p \in MC_Two |-> IF p = p1 THEN Register ELSE MC_CounterRegisters]
=============================================================================
