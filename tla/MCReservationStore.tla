-------------------------- MODULE MCReservationStore --------------------------
(***************************************************************************)
(* Instance of ReservationStore for TLC: ids, mandates and references are  *)
(* interchangeable.                                                        *)
(***************************************************************************)
EXTENDS StoreLedger, TLC

Symmetry == Permutations(Ids) \cup Permutations(Mandates) \cup Permutations(Payees)
=============================================================================
