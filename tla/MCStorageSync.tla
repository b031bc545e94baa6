--------------------------- MODULE MCStorageSync ---------------------------
(***************************************************************************)
(* StorageSync for TLC.                                                    *)
(***************************************************************************)
EXTENDS StorageSync
=============================================================================
