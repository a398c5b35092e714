------------------------- MODULE MCSqliteTransaction -------------------------
(***************************************************************************)
(* Instance of SqliteTransaction for TLC.  No symmetry: the runs check     *)
(* liveness.                                                               *)
(***************************************************************************)
EXTENDS SqliteTransaction
=============================================================================
