------------------------------ MODULE TaskList ------------------------------
(***************************************************************************)
(* What the arguments of `qpu execute` promise their user, as the usage    *)
(* text of main.c describes them, without saying how the table keeps it: a *)
(* list of tasks.  i adds a task, u, r and w give the last task, or before *)
(* any task all of them, something it does not have yet, and x repeats the *)
(* whole list.  The list is executed as it stands when the arguments end,  *)
(* or dropped at the first thing that fails.                               *)
(*                                                                         *)
(* TaskTable implements this specification: see ListSpec there.            *)
(***************************************************************************)
EXTENDS Slots, Sequences

CONSTANTS
  Offered,   \* what an argument may give a task, by kind
  Empty      \* what it has of a kind that no argument gave

VARIABLES
  status,    \* how far the command has come
  tasks,     \* the list
  global     \* what the tasks have in common

vars == <<status, tasks, global>>

Status == {"building", "accepted", "executed", "succeeded", "failed"}

\* A task, or what tasks have in common, before anything is given.
Blank == [k \in Kind |-> Empty]

Init ==
  /\ status = "building"
  /\ tasks = <<>>
  /\ global = Blank

\* i
Add(c) ==
  /\ status = "building"
  /\ Len(tasks) < MaxTasks
  /\ tasks' = Append(tasks, [Blank EXCEPT !["inst"] = c])
  /\ UNCHANGED <<status, global>>

\* u, r and w before the first i
GiveAll(k, c) ==
  /\ status = "building"
  /\ tasks = <<>>
  /\ global[k] = Empty
  /\ global' = [global EXCEPT ![k] = c]
  /\ UNCHANGED <<status, tasks>>

\* u, r and w after an i
GiveLast(k, c) ==
  /\ status = "building"
  /\ tasks # <<>>
  /\ tasks[Len(tasks)][k] = Empty
  /\ tasks' = [tasks EXCEPT ![Len(tasks)][k] = c]
  /\ UNCHANGED <<status, global>>

\* x
Repeat(n) ==
  /\ status = "building"
  /\ n * Len(tasks) \in 1 .. MaxTasks
  /\ tasks' = [i \in 1 .. n * Len(tasks) |-> tasks[((i - 1) % Len(tasks)) + 1]]
  /\ UNCHANGED <<status, global>>

Accept ==
  /\ status = "building"
  /\ status' = "accepted"
  /\ UNCHANGED <<tasks, global>>

Execute ==
  /\ status = "accepted"
  /\ status' = "executed"
  /\ UNCHANGED <<tasks, global>>

\* The command ends and drops its list.
End(how) == status' = how /\ tasks' = <<>> /\ global' = Blank

Succeed == status = "executed" /\ End("succeeded")

Fail == status \in {"building", "accepted", "executed"} /\ End("failed")

Next ==
  \/ \E c \in Offered["inst"] : Add(c)
  \/ \E k \in Kind \ {"inst"} : \E c \in Offered[k] : GiveAll(k, c) \/ GiveLast(k, c)
  \/ \E n \in 2 .. MaxTasks : Repeat(n)
  \/ Accept \/ Execute \/ Succeed \/ Fail

Spec == Init /\ [][Next]_vars
=============================================================================
