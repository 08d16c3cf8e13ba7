----------------------------- MODULE MC_Execution -----------------------------
(***************************************************************************)
(* An instance of Execution for TLC: up to four tasks, so that x may       *)
(* follow x, programs that use the buffers of their task or global ones.   *)
(***************************************************************************)
EXTENDS Execution, TLC

CONSTANTS own, words

MC_Files == {own, words}
MC_FileSize == (own :> 16) @@ (words :> 4)
MC_Code == (own :> <<"glob_wbuf", "task_wbuf">>) @@ (words :> <<>>)
MC_Stale == {"other"}
MC_Numbers == {2}
MC_Fds == 0 .. 4
=============================================================================
