----------------------------- MODULE MC_Monitor -----------------------------
(***************************************************************************)
(* Instances of Monitor for TLC: two tasks, a register of flags and the    *)
(* one that counts programs, with counts of two bits that wrap.  The       *)
(* microsecond has two nanoseconds, the second two microseconds.           *)
(***************************************************************************)
EXTENDS Monitor

MC_DebugRegs == <<"fdbgb", "srqcs">>
MC_Fields == [fdbgb |-> {"rast_busy"}, srqcs |-> {"requests", "completed"}]
\* The outputs do not depend on each other: dumps, -d and -t one or two at a time.
MC_Options ==
  {o \in Option :
     /\ o.verbose => o.mdebug
     /\ o.mdebug => ~o.mtime
     /\ o.mdebug \/ o.mtime => o.isatty \/ (o.dump1 /\ ~o.dump0)
     /\ o.isatty => ~o.dump0 \/ ~o.dump1}
MC_Past == {0, 3}
MC_Width == [rast_busy |-> 2, requests |-> 4, completed |-> 4]
=============================================================================
