--------------------------- MODULE MCNodeSetSync ---------------------------
(***************************************************************************)
(* NodeSetSync for TLC.                                                    *)
(***************************************************************************)
EXTENDS NodeSetSync
=============================================================================
