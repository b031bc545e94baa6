--------------------------- MODULE MCNodeSetOwner ---------------------------
(***************************************************************************)
(* NodeSetOwner for TLC.                                                   *)
(***************************************************************************)
EXTENDS NodeSetOwner
=============================================================================
