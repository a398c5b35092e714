---------------------------- MODULE MCSpendWindow ----------------------------
(***************************************************************************)
(* Instance of SpendWindow for TLC.                                        *)
(***************************************************************************)
EXTENDS SpendWindow, TLC

Symmetry == Permutations(Ids) \cup Permutations(Mandates)
=============================================================================
