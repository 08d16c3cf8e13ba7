--------------------------- MODULE MC_TaskTable ---------------------------
(***************************************************************************)
(* Instances of TaskTable for TLC.  Three files tell the loader's checks   *)
(* apart: one that loads everywhere, one whose length is a multiple of 4   *)
(* only, and one that is not regular.                                      *)
(***************************************************************************)
EXTENDS TaskTable, TLC

CONSTANTS code, data, dir

MC_Files == {code, data, dir}
MC_FileSize == (code :> 8) @@ (data :> 4) @@ (dir :> 8)
MC_Regular == {code, data}

\* Scaled to a u32 of 64 values these neither narrow nor wrap; of 16 values, 18
\* narrows to 2 and 3 * 6 wraps to 2.
MC_Numbers == {0, 2}
MC_WrapNumbers == {0, 2, 6, 18}
MC_Fds == 0 .. 5
MC_WrapFds == 0 .. 4
=============================================================================
