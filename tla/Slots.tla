-------------------------------- MODULE Slots --------------------------------
(***************************************************************************)
(* The slots of gpu.c's global table (struct G, gpu.c:85-101).             *)
(*                                                                         *)
(* A slot is named by its owner, one of the MaxTasks task entries or the   *)
(* global entry, and by its kind: instructions, uniforms, read buffer or   *)
(* write buffer.  The first three kinds hold an open file (gpu_file), the  *)
(* last only a size (gpu_buf).  The global entry has no instructions.      *)
(***************************************************************************)
EXTENDS Integers

CONSTANTS
  MaxTasks,   \* MAX_TASKS of gpu.c (12)
  U32         \* the number of values of a u32 (2^32, scaled down for TLC)

ASSUME MaxTasksAssumption == MaxTasks \in Nat \ {0}
ASSUME U32Assumption == U32 \in Nat /\ U32 > MaxTasks

Word == 0 .. U32 - 1

Glob  == -1
Task  == 0 .. MaxTasks - 1
Owner == {Glob} \union Task

FileKind == {"inst", "unif", "rbuf"}
Kind     == FileKind \union {"wbuf"}

Slot     == (Owner \X Kind) \ {<<Glob, "inst">>}
FileSlot == (Owner \X FileKind) \ {<<Glob, "inst">>}
BufSlot  == Owner \X {"wbuf"}

\* The divisor of open_file's length check, by kind of slot.
Factor == [inst |-> 8, unif |-> 4, rbuf |-> 4]
=============================================================================
