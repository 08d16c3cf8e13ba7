------------------------------ MODULE MC_Session ------------------------------
(***************************************************************************)
(* Instances of Session for TLC: one process alone, and two that share the *)
(* firmware.  They are interchangeable.                                    *)
(***************************************************************************)
EXTENDS Session, TLC

CONSTANTS p1, p2

MC_One == {p1}
MC_Two == {p1, p2}
MC_Symmetry == Permutations(MC_Two)

MC_NoTimeout == {0}
MC_Timeouts == {0, 1000}
=============================================================================
