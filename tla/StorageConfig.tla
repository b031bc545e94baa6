--------------------------- MODULE StorageConfig ---------------------------
(***************************************************************************)
(* Synchronization of a dynamic configuration: the part of the Storage     *)
(* controller that installs spec.configuration of an initialized Storage   *)
(* in the CMS of its YDB cluster (internal/controllers/storage/config.go   *)
(* and internal/cms).                                                      *)
(*                                                                         *)
(* The configuration carries the version it replaces in metadata.version.  *)
(* The controller asks the CMS for its version; unless that is already     *)
(* larger it calls ReplaceConfig, which the CMS may finish at once or turn *)
(* into a long-running operation.  The id of the operation is kept in the  *)
(* message of the ReplaceConfigOperation condition and polled by later     *)
(* reconciles.  The reconcile loop, the cache and the API server are as in *)
(* StorageSync; what the other steps of Sync write is left out.            *)
(***************************************************************************)
EXTENDS Integers

CONSTANTS
  MaxGen,     \* bound on metadata.generation: the user edits the spec MaxGen - 1 times
  MaxVer,     \* bound on the versions a configuration is written with
  MaxOps,     \* bound on the long-running operations of the CMS
  MaxFaults,  \* bound on lost calls and replies, and crashes of the operator
  MaxFailed,  \* bound on operations that the CMS fails by itself
  CacheLag    \* whether the controller may read a version its cache has superseded

ASSUME ConfigAssumption ==
  /\ MaxGen \in Nat \ {0}
  /\ MaxVer \in Nat
  /\ MaxOps \in Nat \ {0}
  /\ MaxFaults \in Nat
  /\ MaxFailed \in Nat
  /\ CacheLag \in BOOLEAN

VARIABLES
  obj,        \* the Storage object on the API server
  cache,      \* the informer's copy of it
  fresh,      \* the informer's copy is the latest version
  stale,      \* history: the last reconcile read a version that was not the latest
  queued,     \* the workqueue holds a request for the Storage
  rec,        \* the reconcile in flight: its next step and its copy of the object
  cms,        \* the version of the configuration in the CMS, and its body
  ops,        \* the long-running operations of the CMS
  installed,  \* history: the configurations that were ever installed in the CMS
  faults,     \* lost calls, lost replies and crashes so far
  failed      \* operations that the CMS failed by itself so far

vars == <<obj, cache, fresh, stale, queued, rec, cms, ops, installed, faults, failed>>
kube == <<obj, cache, fresh, stale>>
ydb  == <<cms, ops, installed, failed>>

\* A configuration: its version and its body.  Body 0 is that of others; the body
\* of a new configuration is the generation that introduced it.
Config == [ver : 0..MaxVer, body : 0..MaxGen]

OpId == 1..MaxOps

\* The ids a not yet finished call returns; 0 is an empty id.
MaybeId == 0..MaxOps

\* ConfigurationSynced with its ObservedGeneration, and ReplaceConfigOperation
\* with its ObservedGeneration and the operation id in its message.
Condition == {"Absent", "Unknown", "True", "False"}

Status == [synced : [status : Condition, gen : 0..MaxGen],
           op : [status : Condition, gen : 0..MaxGen, id : MaybeId]]

Storage == [gen : 1..MaxGen, cfg : Config, st : Status]

Step == {"idle", "setConfigPipelineStatus", "handleConfigurationSync", "updateStatus"}

TypeOK ==
  /\ obj \in Storage
  /\ cache \in Storage
  /\ fresh \in BOOLEAN
  /\ stale \in BOOLEAN
  /\ queued \in BOOLEAN
  /\ rec \in [pc : Step, cr : Storage]
  /\ cms \in [ver : 0..MaxVer + 1, body : 0..MaxGen]
  /\ ops \in [OpId -> [status : {"none", "running", "ok", "error"}, cfg : Config]]
  /\ installed \subseteq Config
  /\ faults \in 0..MaxFaults
  /\ failed \in 0..MaxFailed

NewStorage ==
  [gen |-> 1, cfg |-> [ver |-> 0, body |-> 1],
   st |-> [synced |-> [status |-> "Absent", gen |-> 0],
           op |-> [status |-> "Absent", gen |-> 0, id |-> 0]]]

Idle == [pc |-> "idle", cr |-> NewStorage]

\* Somebody may have replaced the configuration of the cluster before.
Init ==
  /\ obj = NewStorage
  /\ cache = obj
  /\ fresh = TRUE
  /\ stale = FALSE
  /\ queued = TRUE
  /\ rec = Idle
  /\ cms \in [ver : {0, 1}, body : {0}]
  /\ ops = [id \in OpId |-> [status |-> "none", cfg |-> obj.cfg]]
  /\ installed = {c \in Config : c.ver < cms.ver /\ c.body = 0}
  /\ faults = 0
  /\ failed = 0

-----------------------------------------------------------------------------
\* A read of the cache; with CacheLag FALSE the cache has caught up by then.
CacheRead == CacheLag \/ fresh

Return(requeue) == rec' = Idle /\ queued' = (queued \/ requeue)

WriteStatus(st) == rec' = [rec EXCEPT !.pc = "updateStatus", !.cr.st = st]

CacheSync ==
  /\ ~fresh
  /\ cache' = obj
  /\ fresh' = TRUE
  /\ queued' = (queued \/ cache.gen # obj.gen)
  /\ UNCHANGED <<obj, stale, rec, ydb, faults>>

\* The user edits something else, the version, the body, or both.  The webhook
\* lets every version pass: the old one with a new body, and a lower one.
UserUpdate ==
  /\ obj.gen < MaxGen
  /\ \E cfg \in [ver : 0..MaxVer, body : {obj.cfg.body, obj.gen + 1}] :
        obj' = [obj EXCEPT !.gen = @ + 1, !.cfg = cfg]
  /\ fresh' = FALSE
  /\ UNCHANGED <<cache, stale, queued, rec, ydb, faults>>

-----------------------------------------------------------------------------
(***************************************************************************)
(* The CMS.                                                                *)
(***************************************************************************)

\* Replacing is accepted for the current version, which it increments; sending
\* the installed configuration once more changes nothing and succeeds.
Accepts(cfg) == cfg.ver = cms.ver
Repeats(cfg) == cfg.ver + 1 = cms.ver /\ cfg.body = cms.body
Succeeds(cfg) == Accepts(cfg) \/ Repeats(cfg)

Replace(cfg) ==
  IF Accepts(cfg)
  THEN /\ cms' = [ver |-> cfg.ver + 1, body |-> cfg.body]
       /\ installed' = installed \cup {cfg}
  ELSE UNCHANGED <<cms, installed>>

\* The CMS gives out one id after the other.
Unused(id) ==
  ops[id].status = "none" /\ \A i \in OpId : i < id => ops[i].status # "none"

\* A long-running operation ends.
OperationEnds ==
  \E id \in OpId :
    /\ ops[id].status = "running"
    /\ Replace(ops[id].cfg)
    /\ ops' = [ops EXCEPT ![id].status =
                 IF Succeeds(ops[id].cfg) THEN "ok" ELSE "error"]
    /\ UNCHANGED <<kube, queued, rec, failed, faults>>

\* The CMS gives an operation up.
OperationFails ==
  /\ failed < MaxFailed
  /\ failed' = failed + 1
  /\ \E id \in OpId :
       /\ ops[id].status = "running"
       /\ ops' = [ops EXCEPT ![id].status = "error"]
  /\ UNCHANGED <<kube, queued, rec, cms, installed, faults>>

-----------------------------------------------------------------------------
(***************************************************************************)
(* The reconcile loop.                                                     *)
(***************************************************************************)

\* Sync asks for the CMS version once per generation, then works until
\* ConfigurationSynced is True; the steps after it do not look at either.
Reconcile ==
  /\ rec.pc = "idle"
  /\ queued
  /\ CacheRead
  /\ stale' = ~fresh
  /\ queued' = FALSE
  /\ rec' = IF cache.st.synced.gen < cache.gen
            THEN [pc |-> "setConfigPipelineStatus", cr |-> cache]
            ELSE IF cache.st.synced.status # "True"
            THEN [pc |-> "handleConfigurationSync", cr |-> cache]
            ELSE Idle
  /\ UNCHANGED <<obj, cache, fresh, ydb, faults>>

\* Mutation: off by one.
WithSyncedAhead(st, status) ==
  [st EXCEPT !.synced = [status |-> status, gen |-> rec.cr.gen + 1]]

WithSynced(st, status) ==
  [st EXCEPT !.synced = [status |-> status, gen |-> rec.cr.gen]]

WithOp(st, status, gen, id) ==
  [st EXCEPT !.op = [status |-> status, gen |-> gen, id |-> id]]

\* Mutation: the version the configuration is to replace counts as newer.
NotOlder(cfg) == cms.ver >= cfg.ver

\* GetConfig reports a version larger than the one of the configuration.
AlreadyReplaced(cfg) == cms.ver > cfg.ver

SetConfigPipelineStatus ==
  /\ rec.pc = "setConfigPipelineStatus"
  /\ WriteStatus(WithSynced(rec.cr.st,
                   IF AlreadyReplaced(rec.cr.cfg) THEN "True" ELSE "Unknown"))
  /\ UNCHANGED <<kube, queued, ydb, faults>>

\* Mutation: an operation of this generation is polled whatever its status.
PollsFinished(cr) == cr.st.op.gen = cr.gen

\* The three cases of handleConfigurationSync.
Polls(cr)    == cr.st.op.gen = cr.gen /\ cr.st.op.status = "Unknown"
Replaces(cr) == ~Polls(cr) /\ (cr.st.op.gen < cr.gen \/ cr.st.op.status = "False")

\* ReplaceConfig ends at once.
ReplaceConfigNow ==
  /\ rec.pc = "handleConfigurationSync"
  /\ Replaces(rec.cr)
  /\ Replace(rec.cr.cfg)
  /\ WriteStatus(WithOp(rec.cr.st,
        IF Succeeds(rec.cr.cfg) THEN "True" ELSE "False",
        rec.cr.gen, 0))
  /\ UNCHANGED <<kube, queued, ops, failed, faults>>

\* ReplaceConfig starts a long-running operation and returns its id.  A reply
\* with an empty id is a fault of the CMS.
ReplaceConfigLater ==
  /\ rec.pc = "handleConfigurationSync"
  /\ Replaces(rec.cr)
  /\ \E id \in OpId :
       /\ Unused(id)
       /\ ops' = [ops EXCEPT ![id] = [status |-> "running", cfg |-> rec.cr.cfg]]
       /\ \/ /\ WriteStatus(WithOp(rec.cr.st, "Unknown", rec.cr.gen, id))
             /\ UNCHANGED faults
          \/ /\ faults < MaxFaults
             /\ faults' = faults + 1
             /\ WriteStatus(WithOp(rec.cr.st, "Unknown", rec.cr.gen, 0))
  /\ UNCHANGED <<kube, queued, cms, installed, failed>>

\* The reply of ReplaceConfig is lost: the CMS may have replaced the
\* configuration, or started to.  The condition set in memory is not written.
ReplaceConfigLost ==
  /\ rec.pc = "handleConfigurationSync"
  /\ Replaces(rec.cr)
  /\ faults < MaxFaults
  /\ faults' = faults + 1
  /\ \/ Replace(rec.cr.cfg) /\ UNCHANGED ops
     \/ /\ \E id \in OpId :
             /\ Unused(id)
             /\ ops' = [ops EXCEPT ![id] = [status |-> "running", cfg |-> rec.cr.cfg]]
        /\ UNCHANGED <<cms, installed>>
  /\ Return(TRUE)
  /\ UNCHANGED <<kube, failed>>

\* checkReplaceConfigOperation.  A failed operation sets the condition to
\* False in memory only: the error is returned without a call of updateStatus.
CheckReplaceConfigOperation ==
  /\ rec.pc = "handleConfigurationSync"
  /\ Polls(rec.cr)
  /\ LET id == rec.cr.st.op.id
     IN  \/ /\ id = 0
            /\ WriteStatus(WithOp(rec.cr.st, "False", 0, 0))
            /\ UNCHANGED queued
         \/ /\ id # 0
            /\ ops[id].status = "error"
            /\ Return(TRUE)
         \/ /\ id # 0
            /\ ops[id].status = "running"
            /\ WriteStatus(WithOp(rec.cr.st, "Unknown", rec.cr.gen, id))
            /\ UNCHANGED queued
         \/ /\ id # 0
            /\ ops[id].status = "ok"
            /\ WriteStatus(WithOp(rec.cr.st, "True", rec.cr.gen, 0))
            /\ UNCHANGED queued
  /\ UNCHANGED <<kube, ydb, faults>>

ConfigurationIsSynced ==
  /\ rec.pc = "handleConfigurationSync"
  /\ ~Polls(rec.cr) /\ ~Replaces(rec.cr)
  /\ WriteStatus(WithSynced(rec.cr.st, "True"))
  /\ UNCHANGED <<kube, queued, ydb, faults>>

UpdateStatus ==
  /\ rec.pc = "updateStatus"
  /\ CacheRead
  /\ IF fresh /\ rec.cr.st # obj.st
     THEN obj' = [obj EXCEPT !.st = rec.cr.st] /\ fresh' = FALSE
     ELSE UNCHANGED <<obj, fresh>>
  /\ Return(TRUE)
  /\ UNCHANGED <<cache, stale, ydb, faults>>

\* A read or a call without effect fails: credentials, GetConfig, GetOperation,
\* ReplaceConfig before it reached the CMS, or the API server.
ApiError ==
  /\ faults < MaxFaults
  /\ rec.pc # "idle"
  /\ faults' = faults + 1
  /\ Return(TRUE)
  /\ UNCHANGED <<kube, ydb>>

Crash ==
  /\ faults < MaxFaults
  /\ faults' = faults + 1
  /\ rec' = Idle
  /\ queued' = TRUE
  /\ cache' = obj
  /\ fresh' = TRUE
  /\ UNCHANGED <<obj, stale, ydb>>

Controller ==
  \/ Reconcile \/ SetConfigPipelineStatus \/ ReplaceConfigNow \/ ReplaceConfigLater
  \/ CheckReplaceConfigOperation \/ ConfigurationIsSynced \/ UpdateStatus

Next ==
  \/ Controller \/ OperationEnds \/ CacheSync
  \/ UserUpdate \/ OperationFails \/ ReplaceConfigLost \/ ApiError \/ Crash

Fairness ==
  /\ WF_vars(Controller)
  /\ WF_vars(CacheSync)
  /\ WF_vars(OperationEnds)

Spec == Init /\ [][Next]_vars /\ Fairness

-----------------------------------------------------------------------------
ReportedReplaced == obj.st.op.status = "True" /\ obj.st.op.gen = obj.gen
ReportedSynced == obj.st.synced.status = "True" /\ obj.st.synced.gen = obj.gen

\* Another configuration was installed under the version of the latest one.
VersionTaken == \E c \in installed : c.ver = obj.cfg.ver /\ c # obj.cfg

\* When ReplaceConfigOperation is reported for the latest spec, its configuration
\* was installed in the CMS; when ConfigurationSynced is, it was, or another one
\* had taken its version: the controller compares versions only, and reports a
\* body that was edited under an old version as synced though it never installs
\* it.  This holds whatever was lost, retried or read stale on the way.
SyncedIsInstalled ==
  /\ ReportedReplaced => obj.cfg \in installed
  /\ ReportedSynced => obj.cfg \in installed \/ VersionTaken

\* The condition at hand waits for an operation that has failed.
WaitsForFailed ==
  LET op == obj.st.op
  IN  op.status = "Unknown" /\ op.gen = obj.gen /\ op.id # 0 /\ ops[op.id].status = "error"

\* The CMS has left the version behind after the controller asked for it, which
\* it does once per generation: ReplaceConfig is refused and tried again for ever.
Overtaken ==
  /\ obj.st.synced = [status |-> "Unknown", gen |-> obj.gen]
  /\ AlreadyReplaced(obj.cfg) /\ ~Repeats(obj.cfg)

\* The last reconcile went to sleep on a version that was not the latest.
WakeUpLost == stale /\ rec.pc = "idle" /\ ~queued

\* A configuration whose version the CMS has reached is eventually reported synced:
\* no lost reply, crash or edit at a bad moment blocks it, or makes the controller
\* retry for ever.  It is not when its operation failed, when an operation of an
\* earlier spec took its version in the meantime, or when the last reconcile read
\* a stale version and slept on it.
SyncedUnlessOperationFailed ==
  <>[](obj.cfg.ver <= cms.ver) =>
    \/ <>[]ReportedSynced \/ <>[]WaitsForFailed \/ <>[]Overtaken \/ <>[]WakeUpLost
=============================================================================
