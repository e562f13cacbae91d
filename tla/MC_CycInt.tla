----------------------------- MODULE MC_CycInt -----------------------------
(***************************************************************************)
(* Small instances of CycInt: the VBL, the blitter and an MFP timer.       *)
(***************************************************************************)
EXTENDS CycInt

MC_Delays == {1, 3}
MC_Changes == {-1, 1}
MC_BusCycles == {1}
=============================================================================
