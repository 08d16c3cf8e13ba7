-------------------------------- MODULE Lease --------------------------------
(***************************************************************************)
(* What mem_alloc and mem_free of gpu.c promise about GPU memory, without  *)
(* saying by which calls: each process leases memory once, stage by stage, *)
(* and gives the stages back in the reverse order.  Once it has begun to   *)
(* give back it takes nothing any more.  It ends with nothing in its hands *)
(* unless a call that gives back failed, or it was killed.                 *)
(*                                                                         *)
(* Session implements this specification: see LeaseSpec there.             *)
(***************************************************************************)
EXTENDS Naturals

CONSTANT Procs    \* the processes

VARIABLES
  held,    \* per process: how many stages it holds
  phase    \* per process: how far its lease has come

vars == <<held, phase>>

\* The stages of struct gpu_mem's flags, in the order they are obtained:
\* allocated, locked, mapped.
Stages == 3

Phase == {"open",      \* memory may be taken
          "closing",   \* memory is given back
          "stuck",     \* a call that gives back failed
          "gone",      \* the process was killed
          "done"}      \* the process ended by itself

Init ==
  /\ held = [p \in Procs |-> 0]
  /\ phase = [p \in Procs |-> "open"]

Enter(p, ph) == phase' = [phase EXCEPT ![p] = ph] /\ UNCHANGED held

Take(p) ==
  /\ phase[p] = "open"
  /\ held[p] < Stages
  /\ held' = [held EXCEPT ![p] = @ + 1]
  /\ UNCHANGED phase

Close(p) == phase[p] = "open" /\ Enter(p, "closing")

GiveBack(p) ==
  /\ phase[p] = "closing"
  /\ held[p] > 0
  /\ held' = [held EXCEPT ![p] = @ - 1]
  /\ UNCHANGED phase

GiveBackFails(p) ==
  /\ phase[p] = "closing"
  /\ held[p] > 0
  /\ Enter(p, "stuck")

Finish(p) ==
  /\ phase[p] \in {"open", "closing"}
  /\ held[p] = 0
  /\ Enter(p, "done")

Kill(p) == phase[p] # "done" /\ Enter(p, "gone")

Next ==
  \E p \in Procs :
    \/ Take(p) \/ Close(p) \/ GiveBack(p) \/ GiveBackFails(p)
    \/ Finish(p) \/ Kill(p)

Spec == Init /\ [][Next]_vars

-----------------------------------------------------------------------------
(* Properties                                                              *)

\* Type invariant of the leases.
TypeOK == held \in [Procs -> 0 .. Stages] /\ phase \in [Procs -> Phase]

\* Whoever holds memory gives it back in the end, unless a call that gives
\* back failed or the process was killed.
Returned ==
  \A p \in Procs : held[p] > 0 ~> held[p] = 0 \/ phase[p] \in {"stuck", "gone"}
=============================================================================
