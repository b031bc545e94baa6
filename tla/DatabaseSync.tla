---------------------------- MODULE DatabaseSync ----------------------------
(***************************************************************************)
(* The Database controller: one Database object without node sets, its     *)
(* StatefulSet, the tenant of the YDB cluster that stands for it, and the  *)
(* reconcile loop of internal/controllers/database.                        *)
(*                                                                         *)
(* The pipeline differs from that of a Storage (StorageSync) in two ways.  *)
(* It starts by waiting for the Storage that the Database references to be *)
(* initialized, and its initialization is a call of the CMS, which may     *)
(* turn into a long-running operation.  The id of the operation is kept in *)
(* the message of the CreateDatabaseOperation condition.                   *)
(*                                                                         *)
(* Of the Storage only what the controller reads is kept: whether it can   *)
(* be found and whether it is reported initialized.  It does not go back,  *)
(* as the lifecycle that StorageSync implements promises.  The shared      *)
(* Database that a serverless one runs on does go back: it loses a Pod and *)
(* is not provisioned any more, or it is deleted.                          *)
(***************************************************************************)
EXTENDS Integers, Pipeline

CONSTANTS
  Nodes,       \* spec.nodes
  MaxGen,      \* bound on metadata.generation: the user edits the spec MaxGen - 1 times
  MaxOps,      \* bound on the long-running operations of the CMS
  MaxFaults,   \* bound on API errors, lost replies, failed operations and crashes
  CacheLag     \* whether the controller may read a version its cache has superseded

ASSUME DatabaseAssumption ==
  /\ Nodes \in Nat \ {0}
  /\ MaxGen \in Nat \ {0}
  /\ MaxOps \in Nat
  /\ MaxFaults \in Nat
  /\ CacheLag \in BOOLEAN

VARIABLES
  obj,      \* the Database object on the API server
  cache,    \* the informer's copy of it
  fresh,    \* the informer's copy is the latest version
  queued,   \* the workqueue holds a request for the Database
  rec,      \* the reconcile in flight: its next step, its copy of the object and,
            \* for the properties, whether the copy lacks the last status write
  sts,      \* the StatefulSet: desired and ready replicas
  storage,  \* the referenced Storage
  shared,   \* the shared Database of a serverless one: found, and provisioned
  offered,  \* history: the shared Database was provisioned at some time
  tenant,   \* the tenant exists in the YDB cluster
  ops,      \* the long-running operations of the CMS
  faults    \* API errors, lost replies, failed operations and crashes so far

vars == <<obj, cache, fresh, queued, rec, sts, storage, shared, offered,
          tenant, ops, faults>>
kube == <<obj, cache, fresh>>
refs == <<storage, shared, offered>>
ydb  == <<tenant, ops>>

Stage == {"Prepared", "Initialized", "Provisioned"}

CondType == Stage \cup {"Paused", "Ready", "CreateDatabaseOperation"}

OpId == 1..MaxOps

\* status.state, the conditions, and the operation id in the message of the
\* CreateDatabaseOperation condition (0: an empty message).
Status == [state : ClusterState, conds : [CondType -> CondStatus], opId : 0..MaxOps]

\* serverless: the Database runs on the nodes of a shared Database.
Database == [gen : 1..MaxGen, pause : BOOLEAN, sync : BOOLEAN, skipInit : BOOLEAN,
             serverless : BOOLEAN, st : Status]

Step == {"idle", "setInitialStatus", "waitForClusterResources", "handleResourcesSync",
         "setInitPipelineStatus", "initializeTenant", "createTenant",
         "waitForStatefulSetToScale", "handlePauseResume", "updateStatus"}

TypeOK ==
  /\ obj \in Database
  /\ cache \in Database
  /\ fresh \in BOOLEAN
  /\ queued \in BOOLEAN
  /\ rec \in [pc : Step, cr : Database, behind : BOOLEAN]
  /\ sts \in [exists : BOOLEAN, replicas : {0, Nodes}, ready : 0..Nodes]
  /\ storage \in {"NotFound", "Found", "Initialized"}
  /\ shared \in {"NotFound", "Found", "Provisioned"}
  /\ offered \in BOOLEAN
  /\ tenant \in BOOLEAN
  /\ ops \in [OpId -> {"none", "running", "ok", "error"}]
  /\ faults \in 0..MaxFaults

\* A Database object as the user creates it.
NewDatabase(pause, skip, serverless) ==
  [gen |-> 1, pause |-> pause, sync |-> TRUE, skipInit |-> skip, serverless |-> serverless,
   st |-> [state |-> "Pending", conds |-> [c \in CondType |-> "Absent"], opId |-> 0]]

Idle == [pc |-> "idle", cr |-> NewDatabase(FALSE, FALSE, FALSE), behind |-> FALSE]

Init ==
  /\ obj \in {NewDatabase(pause, skip, serverless) :
                pause \in BOOLEAN, skip \in BOOLEAN, serverless \in BOOLEAN}
  /\ cache = obj
  /\ fresh = TRUE
  /\ queued = TRUE
  /\ rec = Idle
  /\ sts = [exists |-> FALSE, replicas |-> 0, ready |-> 0]
  /\ storage = "NotFound"
  /\ shared = "NotFound"
  /\ offered = FALSE
  /\ tenant = FALSE
  /\ ops = [id \in OpId |-> "none"]
  /\ faults = 0

-----------------------------------------------------------------------------
(***************************************************************************)
(* The workqueue, the cache, the API server and the rest of the cluster.   *)
(***************************************************************************)
CacheRead == CacheLag \/ fresh
Goto(step) == rec' = [rec EXCEPT !.pc = step]
WriteStatus(st) == rec' = [rec EXCEPT !.pc = "updateStatus", !.cr.st = st]

\* The reconcile returns; requeue is whether the result asks for another one.
Return(requeue) ==
  /\ queued' = (queued \/ requeue)
  /\ rec' = [Idle EXCEPT !.behind = rec.behind /\ ~queued']

Fault == faults < MaxFaults /\ faults' = faults + 1

\* Mutation: the predicate looks at one field only.
SyncChanged == cache.sync # obj.sync

\* The GenerationChangedPredicate of the controller.
SpecChanged == cache.gen # obj.gen

CacheSync ==
  /\ ~fresh
  /\ cache' = obj
  /\ fresh' = TRUE
  /\ queued' = (queued \/ SpecChanged)
  /\ UNCHANGED <<obj, rec, sts, refs, ydb, faults>>

UserUpdate ==
  /\ obj.gen < MaxGen
  /\ \E pause, sync \in BOOLEAN :
        obj' = [obj EXCEPT !.gen = @ + 1, !.pause = pause, !.sync = sync]
  /\ fresh' = FALSE
  /\ UNCHANGED <<cache, queued, rec, sts, refs, ydb, faults>>

\* An owned object or a mounted Secret changes: its event queues the Database.
\* (In the middle of a reconcile it is as good as after it.)
OwnedEvent ==
  /\ rec.pc = "idle"
  /\ ~queued
  /\ queued' = TRUE
  /\ UNCHANGED <<kube, rec, sts, refs, ydb, faults>>

\* The Storage, and the shared Database, appear and make progress.
StorageProgress ==
  /\ \/ storage = "NotFound" /\ storage' = "Found"
     \/ storage = "Found" /\ storage' = "Initialized"
  /\ UNCHANGED <<kube, queued, rec, sts, shared, offered, ydb, faults>>

SharedProgress ==
  /\ obj.serverless
  /\ \/ shared = "NotFound" /\ shared' = "Found"
     \/ shared = "Found" /\ shared' = "Provisioned"
  /\ offered' = (offered \/ shared' = "Provisioned")
  /\ UNCHANGED <<kube, queued, rec, sts, storage, ydb, faults>>

\* The shared Database loses a Pod, which takes its DatabaseProvisioned condition
\* back, or is deleted.
SharedSetback ==
  /\ Fault
  /\ \/ shared = "Provisioned" /\ shared' = "Found"
     \/ shared # "NotFound" /\ shared' = "NotFound"
  /\ UNCHANGED <<kube, queued, rec, sts, storage, offered, ydb>>

ScaleStep ==
  /\ sts.exists
  /\ sts.ready # sts.replicas
  /\ sts' = [sts EXCEPT !.ready = IF @ < sts.replicas THEN @ + 1 ELSE @ - 1]
  /\ UNCHANGED <<kube, queued, rec, refs, ydb, faults>>

LosePod ==
  /\ Fault
  /\ sts.ready > 0
  /\ sts' = [sts EXCEPT !.ready = @ - 1]
  /\ UNCHANGED <<kube, queued, rec, refs, ydb>>

\* A long-running operation creates the tenant, or fails.
OperationEnds ==
  \E id \in OpId :
    /\ ops[id] = "running"
    /\ ops' = [ops EXCEPT ![id] = "ok"]
    /\ tenant' = TRUE
    /\ UNCHANGED <<kube, queued, rec, sts, refs, faults>>

OperationFails ==
  /\ Fault
  /\ \E id \in OpId : ops[id] = "running" /\ ops' = [ops EXCEPT ![id] = "error"]
  /\ UNCHANGED <<kube, queued, rec, sts, refs, tenant>>

-----------------------------------------------------------------------------
(***************************************************************************)
(* The reconcile loop.                                                     *)
(***************************************************************************)
Reconcile ==
  /\ rec.pc = "idle"
  /\ queued
  /\ CacheRead
  /\ rec' = [pc |-> "setInitialStatus", cr |-> cache, behind |-> cache.st # obj.st]
  /\ queued' = FALSE
  /\ UNCHANGED <<kube, sts, refs, ydb, faults>>

SetInitialStatus ==
  /\ rec.pc = "setInitialStatus"
  /\ IF NoConditions(rec.cr.st.conds)
     THEN WriteStatus(InitialStatus(rec.cr.st, rec.cr.pause))
     ELSE Goto("waitForClusterResources")
  /\ UNCHANGED <<kube, queued, sts, refs, ydb, faults>>

\* Mutation: a Storage that can be found is enough.
StorageFound == storage # "NotFound"

StorageInitialized == storage = "Initialized"

WaitForClusterResources ==
  /\ rec.pc = "waitForClusterResources"
  /\ \/ /\ rec.cr.st.state = "Pending"
        /\ WriteStatus(WithStateAndCond(rec.cr.st, "Preparing", "Prepared", "Unknown"))
        /\ UNCHANGED queued
     \/ /\ rec.cr.st.state # "Pending"
        /\ storage = "NotFound"
        /\ Return(TRUE)
     \/ /\ rec.cr.st.state # "Pending"
        /\ storage # "NotFound" /\ ~StorageInitialized
        /\ WriteStatus(WithCond(rec.cr.st, "Prepared", "False"))
        /\ UNCHANGED queued
     \/ /\ rec.cr.st.state # "Pending"
        /\ StorageInitialized
        /\ Goto("handleResourcesSync")
        /\ UNCHANGED queued
  /\ UNCHANGED <<kube, sts, refs, ydb, faults>>

\* Mutation: off by one.
ReplicasPlusOne(cr) == IF cr.pause THEN 0 ELSE Nodes + 1

Replicas(cr) == IF cr.pause THEN 0 ELSE Nodes

\* A serverless Database has no resources of its own.
SyncStatefulSet(cr) ==
  IF cr.serverless
  THEN UNCHANGED <<sts, queued>>
  ELSE /\ sts' = [sts EXCEPT !.exists = TRUE, !.replicas = Replicas(cr)]
       /\ queued' = (queued \/ (sts.exists /\ sts.replicas # Replicas(cr)))

\* Mutation: a paused Database skips initialization.
AfterResourcesUnlessPaused(cr) ==
  IF ~IsStatusConditionTrue(cr.st.conds, "Initialized") /\ ~cr.pause
  THEN "setInitPipelineStatus"
  ELSE "waitForStatefulSetToScale"

\* The step of Sync after handleResourcesSync.
AfterResources(cr) ==
  IF ~IsStatusConditionTrue(cr.st.conds, "Initialized")
  THEN "setInitPipelineStatus"
  ELSE "waitForStatefulSetToScale"

HandleResourcesSync ==
  /\ rec.pc = "handleResourcesSync"
  /\ \/ /\ ~rec.cr.sync
        /\ Return(FALSE)
        /\ UNCHANGED <<sts, faults>>
     \/ /\ rec.cr.sync
        /\ SyncStatefulSet(rec.cr)
        /\ IF ~IsStatusConditionTrue(rec.cr.st.conds, "Prepared")
           THEN WriteStatus(WithCond(rec.cr.st, "Prepared", "True"))
           ELSE Goto(AfterResources(rec.cr))
        /\ UNCHANGED faults
     \* A builder fails, before or after the StatefulSet's.
     \/ /\ rec.cr.sync
        /\ Fault
        /\ SyncStatefulSet(rec.cr) \/ UNCHANGED <<sts, queued>>
        /\ WriteStatus(WithCond(rec.cr.st, "Prepared", "False"))
  /\ UNCHANGED <<kube, refs, ydb>>

\* setInitDatabaseCompleted.
Initialized(st) ==
  [WithCond(WithCond(st, "Initialized", "True"), "CreateDatabaseOperation", "True")
     EXCEPT !.opId = 0]

WithOp(st, status, id) ==
  [WithCond(st, "CreateDatabaseOperation", status) EXCEPT !.opId = id]

\* (The TenantInitialized condition of older operators is never set by this one.)
SetInitPipelineStatus ==
  /\ rec.pc = "setInitPipelineStatus"
  /\ IF rec.cr.st.state = "Preparing"
     THEN WriteStatus(WithStateAndCond(rec.cr.st, "Initializing", "Initialized", "False"))
     ELSE IF rec.cr.skipInit
     THEN WriteStatus(Initialized(rec.cr.st))
     ELSE Goto("initializeTenant")
  /\ UNCHANGED <<kube, queued, sts, refs, ydb, faults>>

\* initializeTenant looks at the shared Database, and goes on to talk to the CMS
\* after it has read the credentials ...
TenantCanBeCreated(cr) == ~cr.serverless \/ shared = "Provisioned"

\* Mutation: a failed operation is polled again.
PollsFailed(cr) == cr.st.conds["CreateDatabaseOperation"] \in {"Unknown", "False"}

\* ... and polls the operation that the condition names, or creates the tenant.
Polls(cr) == cr.st.conds["CreateDatabaseOperation"] = "Unknown"

InitializeTenant ==
  /\ rec.pc = "initializeTenant"
  /\ \/ ~TenantCanBeCreated(rec.cr) /\ Return(TRUE)
     \/ TenantCanBeCreated(rec.cr) /\ Goto("createTenant") /\ UNCHANGED queued
  /\ UNCHANGED <<kube, sts, refs, ydb, faults>>

\* CreateDatabase ends at once: the tenant is created, or exists already.
CreateDatabaseNow ==
  /\ rec.pc = "createTenant"
  /\ ~Polls(rec.cr)
  /\ tenant' = TRUE
  /\ WriteStatus(Initialized(rec.cr.st))
  /\ UNCHANGED <<kube, queued, sts, refs, ops, faults>>

\* The CMS numbers its operations.
NewId(id) == \A i \in OpId : ops[i] = "none" <=> i >= id

\* CreateDatabase starts an operation and returns its id, if any.
CreateDatabaseLater ==
  /\ rec.pc = "createTenant"
  /\ ~Polls(rec.cr)
  /\ ~tenant
  /\ \E id \in OpId :
       /\ NewId(id)
       /\ ops' = [ops EXCEPT ![id] = "running"]
       /\ \/ WriteStatus(WithOp(rec.cr.st, "Unknown", id)) /\ UNCHANGED faults
          \/ WriteStatus(WithOp(rec.cr.st, "Unknown", 0)) /\ Fault
  /\ UNCHANGED <<kube, queued, sts, refs, tenant>>

\* The reply of CreateDatabase is an error, or is lost when the tenant was
\* created or an operation started.
CreateDatabaseLost ==
  /\ rec.pc = "createTenant"
  /\ ~Polls(rec.cr)
  /\ Fault
  /\ \/ UNCHANGED ydb
     \/ tenant' = TRUE /\ UNCHANGED ops
     \/ /\ \E id \in OpId : NewId(id) /\ ops' = [ops EXCEPT ![id] = "running"]
        /\ UNCHANGED tenant
  /\ Return(TRUE)
  /\ UNCHANGED <<kube, sts, refs>>

\* Mutation: the operation is ready, its status is not looked at.
OperationIsReady(id) == ops[id] # "running"

\* CheckOperationStatus of a finished operation.
OperationSucceeded(id) == ops[id] = "ok"

CheckCreateDatabaseOperation ==
  /\ rec.pc = "createTenant"
  /\ Polls(rec.cr)
  /\ LET id == rec.cr.st.opId
     IN  \/ /\ id # 0 => ops[id] = "error"
            /\ WriteStatus(WithOp(rec.cr.st, "False", 0))
         \/ /\ id # 0 /\ ops[id] = "running"
            /\ WriteStatus(WithOp(rec.cr.st, "Unknown", id))
         \/ /\ id # 0 /\ OperationSucceeded(id)
            /\ WriteStatus(Initialized(rec.cr.st))
  /\ UNCHANGED <<kube, queued, sts, refs, ydb, faults>>

WaitForStatefulSetToScale ==
  /\ rec.pc = "waitForStatefulSetToScale"
  /\ IF rec.cr.st.state = "Initializing"
     THEN WriteStatus(WithStateAndCond(rec.cr.st, "Provisioning", "Provisioned", "Unknown"))
     ELSE IF rec.cr.serverless
     THEN Goto("handlePauseResume")
     ELSE IF sts.ready # Nodes
     THEN WriteStatus(WithCond(rec.cr.st, "Provisioned", "False"))
     ELSE IF ~IsStatusConditionTrue(rec.cr.st.conds, "Provisioned")
     THEN WriteStatus(WithCond(rec.cr.st, "Provisioned", "True"))
     ELSE Goto("handlePauseResume")
  /\ UNCHANGED <<kube, queued, sts, refs, ydb, faults>>

HandlePauseResume ==
  /\ rec.pc = "handlePauseResume"
  /\ LET st == PauseResume(rec.cr.st, rec.cr.pause)
     IN  IF st # rec.cr.st
         THEN WriteStatus(st) /\ UNCHANGED queued
         ELSE Return(FALSE)
  /\ UNCHANGED <<kube, sts, refs, ydb, faults>>

UpdateStatus ==
  /\ rec.pc = "updateStatus"
  /\ CacheRead
  /\ LET st == Degrade(rec.cr.st, Stage, rec.cr.pause)
     IN  IF fresh /\ st # obj.st
         THEN obj' = [obj EXCEPT !.st = st] /\ fresh' = FALSE
         ELSE UNCHANGED <<obj, fresh>>
  /\ Return(TRUE)
  /\ UNCHANGED <<cache, sts, refs, ydb, faults>>

\* A read of a step fails, or a write before it reached the API server.
ApiError ==
  /\ Fault
  /\ rec.pc \in {"waitForClusterResources", "initializeTenant", "createTenant",
                 "waitForStatefulSetToScale", "updateStatus"}
  /\ Return(TRUE)
  /\ UNCHANGED <<kube, sts, refs, ydb>>

Crash ==
  /\ Fault
  /\ rec' = Idle
  /\ queued' = TRUE
  /\ cache' = obj
  /\ fresh' = TRUE
  /\ UNCHANGED <<obj, sts, refs, ydb>>

Controller ==
  \/ Reconcile \/ SetInitialStatus \/ WaitForClusterResources \/ HandleResourcesSync
  \/ SetInitPipelineStatus \/ InitializeTenant \/ CreateDatabaseNow
  \/ CreateDatabaseLater \/ CheckCreateDatabaseOperation \/ WaitForStatefulSetToScale
  \/ HandlePauseResume \/ UpdateStatus

Next ==
  \/ Controller \/ CacheSync \/ StorageProgress \/ SharedProgress \/ SharedSetback \/ ScaleStep
  \/ OperationEnds \/ OperationFails \/ UserUpdate \/ OwnedEvent \/ LosePod \/ CreateDatabaseLost
  \/ ApiError \/ Crash

Fairness ==
  /\ WF_vars(Controller)
  /\ WF_vars(CacheSync)
  /\ WF_vars(StorageProgress)
  /\ WF_vars(SharedProgress)
  /\ WF_vars(ScaleStep)
  /\ WF_vars(OperationEnds)

Spec == Init /\ [][Next]_vars /\ Fairness

-----------------------------------------------------------------------------
(***************************************************************************)
(* Properties.                                                             *)
(***************************************************************************)
CondTrue(type) == IsStatusConditionTrue(obj.st.conds, type)

\* DatabaseInitialized is reported only when the tenant exists, or when the
\* user asked to skip initialization: no lost reply, failed operation or stale
\* read of the operation id makes the controller report too early.
InitializedIsReal == CondTrue("Initialized") => tenant \/ obj.skipInit

\* The CMS is asked for a tenant only in a cluster whose blobstorage is
\* reported initialized, and for a serverless one only on a Database that was
\* provisioned: no reconcile that started earlier, on an older copy of the object,
\* goes around the checks.  That the shared Database still is provisioned is not
\* promised: it may lose a Pod, or go, between the check and the call.
TenantAfterStorage ==
  tenant \/ (\E id \in OpId : ops[id] # "none") =>
    storage = "Initialized" /\ (obj.serverless => offered)

\* The status follows the lifecycle.  A serverless Database has nothing to
\* provision: that stage is done once it is reached.
L == INSTANCE Lifecycle WITH
       state  <- obj.st.state,
       done   <- {c \in Stage :
                   \/ CondTrue(c)
                   \/ /\ c = "Provisioned" /\ obj.serverless
                      /\ obj.st.state \in {"Provisioning", "Ready", "Paused"}},
       behind <- rec.behind

ImplementsLifecycle == L!Spec

\* The status and the StatefulSet are what the spec asks for.
Settled ==
  /\ obj.st.state = Goal(obj.pause)
  /\ CondTrue(Goal(obj.pause))
  /\ obj.serverless \/ sts.replicas = Replicas(obj)

\* No lost wake-up: when nothing is queued and nothing in flight the status
\* and the StatefulSet reflect the latest spec, or operatorSync is off.  Only a
\* reconcile whose copy lacked the controller's own last status write may end
\* otherwise: the event of that write is filtered out.
QuiescentIsSettled ==
  rec.pc = "idle" /\ ~queued /\ fresh => ~obj.sync \/ Settled \/ rec.behind

\* Once the user stops editing and wants the Database running, it becomes
\* Ready and stays so, although an operation of the CMS may fail or be lost,
\* unless the controller works for ever on copies that lack its last write.
EventuallyReady ==
  <>[](obj.sync /\ ~obj.pause) =>
    <>[](obj.st.state = "Ready" /\ CondTrue("Ready")) \/ []<>rec.behind
=============================================================================
