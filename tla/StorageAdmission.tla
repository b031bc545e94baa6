-------------------------- MODULE StorageAdmission --------------------------
(***************************************************************************)
(* The admission webhooks of Storages: what they fill in and what they     *)
(* refuse.  The API server calls them for creations and updates, those of  *)
(* the controller included, and never for deletions or for writes of the   *)
(* status.                                                                 *)
(*                                                                         *)
(* Of a spec only the fields that they look at are kept.  A list of hosts  *)
(* is its length, the node sets are the sum of their nodes, and the        *)
(* monitoring CRD is left out: Default sets spec.monitoring, and with it   *)
(* set checkMonitoringCRD refuses nothing.                                 *)
(***************************************************************************)
EXTENDS Integers

GRPCPort == 2135

\* There is no list of hosts in the configuration.
Absent == -1

\* spec.configuration.  YAML that BuildConfiguration cannot read is not well
\* formed; YAML that does not fit the schema is well formed but not decoded.
ConfigurationText ==
  [wellFormed : BOOLEAN, decodes : BOOLEAN, hosts : Nat \cup {Absent},
   auth : BOOLEAN, port : Nat, sslPort : Nat]

StorageSpec ==
  [operatorSync : BOOLEAN,
   nodes : Nat,
   erasure : {"mirror-3-dc", "block-4-2", "none"},
   hasNodeSets : BOOLEAN, nodesInSets : Nat,
   connection : {"none", "token", "oauth2", "badOauth2"},
   reservedSecret : BOOLEAN, onlyHostPath : BOOLEAN,
   tls : BOOLEAN, port : Nat, insecurePort : Nat,
   configuration : ConfigurationText]

-----------------------------------------------------------------------------
\* Default.  It fails on a text it cannot read, and generateHosts runs past
\* the end of the hosts when the node sets have more nodes than the Storage.
CanDefault(s) ==
  /\ s.configuration.wellFormed
  /\ s.configuration.hosts = Absent /\ s.hasNodeSets => s.nodesInSets <= s.nodes

\* Hosts are generated once: later changes of spec.nodes leave them alone.
Default(s) ==
  [s EXCEPT !.configuration.hosts = IF @ = Absent THEN s.nodes ELSE @]

-----------------------------------------------------------------------------
\* An error in decoding gives an empty configuration.
ParseConfiguration(s) ==
  IF s.configuration.decodes
  THEN s.configuration
  ELSE [s.configuration EXCEPT !.hosts = Absent, !.auth = FALSE, !.port = 0, !.sslPort = 0]

MinNodesPerErasure ==
  [erasure \in {"mirror-3-dc", "block-4-2", "none"} |->
     CASE erasure = "mirror-3-dc" -> 3 [] erasure = "block-4-2" -> 8 [] OTHER -> 1]

NodesNumber(s) ==
  IF ParseConfiguration(s).hosts \in {Absent, 0} THEN s.nodes ELSE ParseConfiguration(s).hosts

\* What creations and updates are both checked for.
CheckedAlways(s) ==
  /\ NodesNumber(s) >= MinNodesPerErasure[s.erasure]
  /\ ParseConfiguration(s).auth => s.connection # "none"
  /\ s.connection # "badOauth2"
  /\ s.hasNodeSets => s.nodesInSets = s.nodes

ValidateCreate(s) ==
  /\ CheckedAlways(s)
  /\ ~s.reservedSecret
  /\ s.onlyHostPath

OrDefault(port) == IF port = 0 THEN GRPCPort ELSE port

\* validateGrpcPorts: the Service offers the ports that the configuration has
\* the nodes listen on.
GrpcPortsAgree(s) ==
  LET config == ParseConfiguration(s)
  IN IF s.tls
     THEN /\ config.sslPort # 0
          /\ config.sslPort = OrDefault(s.port)
          /\ s.insecurePort # 0 => s.insecurePort = OrDefault(config.port)
     ELSE /\ OrDefault(config.port) = OrDefault(s.port)
          /\ s.insecurePort = 0

HasUpdatesBesidesFrozen(old, new) ==
  [old EXCEPT !.operatorSync = FALSE] # [new EXCEPT !.operatorSync = FALSE]

\* Mutation: the ports are left to the creation.
ValidateUpdateButPorts(old, new) ==
  /\ CheckedAlways(new)
  /\ ~new.operatorSync => ~HasUpdatesBesidesFrozen(old, new)

\* Mutation: with operatorSync off before and after, every update is refused.
ValidateUpdateUnlessFrozen(old, new) ==
  /\ CheckedAlways(new)
  /\ ~new.operatorSync => old.operatorSync /\ ~HasUpdatesBesidesFrozen(old, new)
  /\ GrpcPortsAgree(new)

ValidateUpdate(old, new) ==
  /\ CheckedAlways(new)
  /\ ~new.operatorSync => ~HasUpdatesBesidesFrozen(old, new)
  /\ GrpcPortsAgree(new)
=============================================================================
