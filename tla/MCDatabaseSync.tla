--------------------------- MODULE MCDatabaseSync ---------------------------
(***************************************************************************)
(* DatabaseSync for TLC.                                                   *)
(***************************************************************************)
EXTENDS DatabaseSync
=============================================================================
