---------------------------- MODULE MC_Firmware ----------------------------
(***************************************************************************)
(* Firmware for TLC: every command line of up to MaxArgs arguments.        *)
(***************************************************************************)
EXTENDS Firmware
=============================================================================
