---------------------------- MODULE MCSqliteStore ----------------------------
(***************************************************************************)
(* Instance of SqliteStore for TLC: ids and connections are                *)
(* interchangeable.                                                        *)
(***************************************************************************)
EXTENDS SqliteStore, TLC

Symmetry == Permutations(Ids) \cup Permutations(Conns) \cup Permutations(Refs)
=============================================================================
