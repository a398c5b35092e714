---------------------------- MODULE MCReplayGuard ----------------------------
(***************************************************************************)
(* Instance of ReplayGuard for TLC: four presentations of one payment, two *)
(* of them by workers that may die, and a payload without a key.           *)
(***************************************************************************)
EXTENDS ReplayGuard

CONSTANTS k1, r1, r2, r3, r4, broken

MCKeyOf == [r \in Requests |-> IF r = broken THEN None ELSE k1]
=============================================================================
