------------------------------- MODULE MC_MFP -------------------------------
(***************************************************************************)
(* Small instances of MFP: one MFP, or the two of a TT.                    *)
(***************************************************************************)
EXTENDS MFP

MC_One == {Main}
MC_Two == {Main, TT}
MC_Delays == {0, 1}
MC_NoDelay == {0}
=============================================================================
