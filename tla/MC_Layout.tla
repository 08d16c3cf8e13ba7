------------------------------ MODULE MC_Layout ------------------------------
(***************************************************************************)
(* Instances of Layout for TLC: two tasks, a control block of 16 bytes,    *)
(* pages of 16.  One program uses both buffers of its task, the other the  *)
(* global write buffer; write buffers of 3 bytes would disturb any         *)
(* alignment that did not place them last.                                 *)
(***************************************************************************)
EXTENDS Layout, TLC

CONSTANTS own, shared, words

MC_Files == {own, shared, words}
MC_FileSize == (own :> 16) @@ (shared :> 8) @@ (words :> 4)
MC_Code ==
  (own :> <<"task_rbuf", "task_wbuf">>) @@ (shared :> <<"glob_wbuf">>)
    @@ (words :> <<>>)
MC_Named ==
  [k \in FileKind |-> IF k = "inst" THEN {own, shared} ELSE {words}]

MC_Stale == {"task_rbuf"}

\* An argument of 2^32 narrows to a buffer without bytes.  With one of U32 - 8
\* the sum wraps to a little more than the control block, with two to less.
MC_BufSizes == {0, 3, U32 - 8}
MC_HugeBufSizes == {U32 - 8}
=============================================================================
