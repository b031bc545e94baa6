---------------------------- MODULE MCMonitoring ----------------------------
(***************************************************************************)
(* Monitoring for TLC.                                                     *)
(***************************************************************************)
EXTENDS Monitoring
=============================================================================
