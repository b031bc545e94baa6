-------------------------- MODULE MCRemoteNodeSet --------------------------
(***************************************************************************)
(* RemoteNodeSet for TLC.                                                  *)
(***************************************************************************)
EXTENDS RemoteNodeSet
=============================================================================
