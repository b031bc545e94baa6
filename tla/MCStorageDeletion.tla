------------------------- MODULE MCStorageDeletion --------------------------
(***************************************************************************)
(* StorageDeletion for TLC.                                                *)
(***************************************************************************)
EXTENDS StorageDeletion

\* One of the Storages that the repository's samples describe.
Plain ==
  [operatorSync |-> TRUE, nodes |-> 8, erasure |-> "block-4-2",
   hasNodeSets |-> FALSE, nodesInSets |-> 0, connection |-> "none",
   reservedSecret |-> FALSE, onlyHostPath |-> TRUE,
   tls |-> FALSE, port |-> 0, insecurePort |-> 0,
   configuration |-> [wellFormed |-> TRUE, decodes |-> TRUE, hosts |-> Absent,
                      auth |-> FALSE, port |-> 0, sslPort |-> 0]]

\* It and what users make of it; the last five are refused in one way or
\* another, the ones before are not always.
MCRequests ==
  {Plain,
   [Plain EXCEPT !.operatorSync = FALSE],
   [Plain EXCEPT !.configuration.port = 2136],
   [Plain EXCEPT !.tls = TRUE, !.port = 2136, !.insecurePort = 2135,
                 !.configuration.sslPort = 2136],
   [Plain EXCEPT !.nodes = 9, !.hasNodeSets = TRUE, !.nodesInSets = 9,
                 !.configuration.hosts = 8],
   [Plain EXCEPT !.reservedSecret = TRUE],
   [Plain EXCEPT !.configuration.decodes = FALSE, !.configuration.auth = TRUE],
   [Plain EXCEPT !.configuration.auth = TRUE],
   [Plain EXCEPT !.nodes = 3],
   [Plain EXCEPT !.tls = TRUE],
   [Plain EXCEPT !.hasNodeSets = TRUE, !.nodesInSets = 9],
   [Plain EXCEPT !.configuration.wellFormed = FALSE]}
=============================================================================
