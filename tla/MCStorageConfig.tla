-------------------------- MODULE MCStorageConfig ---------------------------
(***************************************************************************)
(* StorageConfig for TLC.                                                  *)
(***************************************************************************)
EXTENDS StorageConfig
=============================================================================
