---------------------------- MODULE StorageSync ----------------------------
(***************************************************************************)
(* The Storage controller: one Storage object with a static configuration  *)
(* and no node sets, its StatefulSet, its blobstorage-init Job, and the    *)
(* reconcile loop of internal/controllers/storage.                         *)
(*                                                                         *)
(* A reconcile is a sequence of steps of the controller process.  It reads *)
(* the Storage object once, from the informer cache (Reconcile), works on  *)
(* that copy through the steps of Sync, and ends by writing the status     *)
(* back (UpdateStatus) or by giving up.  Between two steps the user may    *)
(* edit the spec, the cache may catch up, Pods and the Job may progress,   *)
(* and the process may crash.                                              *)
(*                                                                         *)
(* The API server detects a write from an old version by resourceVersion.  *)
(* Only equality of versions matters, so the cache is a copy of the object *)
(* with a flag that says whether it is the latest version.                 *)
(***************************************************************************)
EXTENDS Integers, Pipeline

CONSTANTS
  Nodes,      \* spec.nodes
  MaxGen,     \* bound on metadata.generation: the user edits the spec MaxGen - 1 times
  MaxFaults,  \* bound on API errors, lost Pods and crashes of the operator
  CacheLag    \* whether the controller may read a version its cache has superseded

ASSUME StorageAssumption ==
  /\ Nodes \in Nat \ {0}
  /\ MaxGen \in Nat \ {0}
  /\ MaxFaults \in Nat
  /\ CacheLag \in BOOLEAN

VARIABLES
  obj,     \* the Storage object on the API server
  cache,   \* the informer's copy of it
  fresh,   \* the informer's copy is the latest version
  queued,  \* the workqueue holds a request for the Storage
  rec,     \* the reconcile in flight: its next step and its copy of the object
  sts,     \* the StatefulSet: desired and ready replicas
  job,     \* the blobstorage-init Job
  blob,    \* the blobstorage of the YDB cluster has been initialized
  missed,  \* history: status writes not in the cache, and not in rec.cr
  faults   \* API errors, lost Pods and crashes so far

vars == <<obj, cache, fresh, queued, rec, sts, job, blob, missed, faults>>
kube == <<obj, cache, fresh, missed>>
env  == <<sts, job, blob>>

Stage == {"Prepared", "Initialized", "Provisioned"}

CondType == Stage \cup {"Paused", "Ready"}

\* status.state, the conditions, and the ObservedGeneration of the
\* ConfigurationSynced condition (0: absent), which is always True once set.
Status == [state : ClusterState, conds : [CondType -> CondStatus], cfgGen : 0..MaxGen]

Storage == [gen : 1..MaxGen, pause : BOOLEAN, sync : BOOLEAN, skipInit : BOOLEAN,
            finalizer : BOOLEAN, st : Status]

Job == [exists : BOOLEAN, ok : BOOLEAN, mismatch : BOOLEAN, failed : BOOLEAN,
        deleting : BOOLEAN]

NoJob == [exists |-> FALSE, ok |-> FALSE, mismatch |-> FALSE, failed |-> FALSE,
          deleting |-> FALSE]

Step == {"idle", "setInitialStatus", "handleResourcesSync", "setInitPipelineStatus",
         "initializeBlobstorage", "setConfigPipelineStatus",
         "waitForStatefulSetToScale", "handlePauseResume", "runSelfCheck",
         "updateStatus"}

TypeOK ==
  /\ obj \in Storage
  /\ cache \in Storage
  /\ fresh \in BOOLEAN
  /\ queued \in BOOLEAN
  /\ rec \in [pc : Step, cr : Storage]
  /\ sts \in [exists : BOOLEAN, replicas : {0, Nodes}, ready : 0..Nodes]
  /\ job \in Job
  /\ blob \in BOOLEAN
  /\ missed \in [cache : Nat, cr : Nat]
  /\ faults \in 0..MaxFaults

\* A Storage object as the user creates it.  The CRD defaults status.state.
NewStorage(pause, sync, skip) ==
  [gen |-> 1, pause |-> pause, sync |-> sync, skipInit |-> skip, finalizer |-> FALSE,
   st |-> [state |-> "Pending", conds |-> [c \in CondType |-> "Absent"], cfgGen |-> 0]]

\* No reconcile in flight: the copy of the last one is dropped.
Idle == [pc |-> "idle", cr |-> NewStorage(FALSE, TRUE, FALSE)]

Init ==
  /\ obj \in {NewStorage(pause, sync, skip) :
              pause \in BOOLEAN, sync \in BOOLEAN, skip \in BOOLEAN}
  /\ cache = obj
  /\ fresh = TRUE
  /\ queued = TRUE
  /\ rec = Idle
  /\ sts = [exists |-> FALSE, replicas |-> 0, ready |-> 0]
  /\ job = NoJob
  /\ blob \in BOOLEAN
  /\ missed = [cache |-> 0, cr |-> 0]
  /\ faults = 0

-----------------------------------------------------------------------------
(***************************************************************************)
(* The workqueue, the cache and the API server.                            *)
(***************************************************************************)

\* A read of the cache; with CacheLag FALSE the cache has caught up by then.
CacheRead == CacheLag \/ fresh

\* The reconcile goes on with another step, on its copy as it is.
Goto(step) == rec' = [rec EXCEPT !.pc = step]

\* The step changed the status in memory and calls updateStatus.
WriteStatus(st) == rec' = [rec EXCEPT !.pc = "updateStatus", !.cr.st = st]

\* The reconcile returns; requeue is whether the result asks for another one.
Return(requeue) ==
  /\ rec' = Idle
  /\ queued' = (queued \/ requeue)

\* Mutation: the predicate looks at one field only.
PauseChanged == cache.pause # obj.pause

\* The GenerationChangedPredicate of the controller.
SpecChanged == cache.gen # obj.gen

\* The informer receives the latest version; its Update event queues the
\* Storage when it passes the predicate.
CacheSync ==
  /\ ~fresh
  /\ cache' = obj
  /\ fresh' = TRUE
  /\ queued' = (queued \/ SpecChanged)
  /\ missed' = [missed EXCEPT !.cache = 0]
  /\ UNCHANGED <<obj, rec, env, faults>>

\* The user edits the spec.  Once operatorSync is off the webhook refuses any
\* other edit than switching it on again; an edit that leaves pause and
\* operatorSync alone is one of the other fields.
UserUpdate ==
  /\ obj.gen < MaxGen
  /\ \E pause, sync \in BOOLEAN :
        /\ ~sync => (pause = obj.pause /\ obj.sync)
        /\ obj' = [obj EXCEPT !.gen = @ + 1, !.pause = pause, !.sync = sync]
  /\ fresh' = FALSE
  /\ UNCHANGED <<cache, queued, rec, env, missed, faults>>

\* An owned ConfigMap, Service or StatefulSet, or a Secret the Storage mounts,
\* changes: its event queues the Storage.  (The queue is looked at only when no
\* reconcile is in flight: an event in the middle of one is as good as after it.)
OwnedEvent ==
  /\ rec.pc = "idle"
  /\ ~queued
  /\ queued' = TRUE
  /\ UNCHANGED <<kube, rec, env, faults>>

-----------------------------------------------------------------------------
(***************************************************************************)
(* The environment: Pods of the StatefulSet, and the init Job.             *)
(***************************************************************************)

\* The StatefulSet controller starts or kills one Pod.
ScaleStep ==
  /\ sts.exists
  /\ sts.ready # sts.replicas
  /\ sts' = [sts EXCEPT !.ready = IF @ < sts.replicas THEN @ + 1 ELSE @ - 1]
  /\ UNCHANGED <<kube, queued, rec, job, blob, faults>>

\* A Pod stops being ready by itself.
LosePod ==
  /\ faults < MaxFaults
  /\ sts.ready > 0
  /\ sts' = [sts EXCEPT !.ready = @ - 1]
  /\ faults' = faults + 1
  /\ UNCHANGED <<kube, queued, rec, job, blob>>

JobActive == job.exists /\ ~job.ok /\ ~job.failed /\ ~job.deleting

\* A Pod of the Job initializes the blobstorage and succeeds.
JobSucceed ==
  /\ JobActive
  /\ ~blob
  /\ blob' = TRUE
  /\ job' = [job EXCEPT !.ok = TRUE]
  /\ UNCHANGED <<kube, queued, rec, sts, faults>>

\* A Pod of the Job finds the blobstorage initialized: it fails, and its log
\* names the config generation mismatch.  limit: it used up the backoff limit.
JobMismatch ==
  /\ JobActive
  /\ blob
  /\ \E limit \in BOOLEAN :
        job' = [job EXCEPT !.mismatch = TRUE, !.failed = limit]
  /\ UNCHANGED <<kube, queued, rec, sts, blob, faults>>

\* The Job fails for another reason, before or after initializing.
JobFail ==
  /\ faults < MaxFaults
  /\ JobActive
  /\ blob' \in {blob, TRUE}
  /\ job' = [job EXCEPT !.failed = TRUE]
  /\ faults' = faults + 1
  /\ UNCHANGED <<kube, queued, rec, sts>>

\* Foreground deletion removes the Pods of the Job first, then the Job.
JobDelete ==
  /\ job.deleting
  /\ \/ job.mismatch /\ job' = [job EXCEPT !.mismatch = FALSE]
     \/ job' = NoJob
  /\ UNCHANGED <<kube, queued, rec, sts, blob, faults>>

-----------------------------------------------------------------------------
(***************************************************************************)
(* The reconcile loop.                                                     *)
(***************************************************************************)

\* A worker takes the request and reads the object from the cache.  The first
\* reconcile of a Storage writes the finalizer and goes on with what it wrote;
\* from a stale copy the API server refuses that write and the request is
\* retried.  (A Storage that is being deleted is the subject of StorageDeletion.)
Reconcile ==
  /\ rec.pc = "idle"
  /\ queued
  /\ CacheRead
  /\ \/ /\ cache.finalizer
        /\ rec' = [pc |-> "setInitialStatus", cr |-> cache]
        /\ missed' = [missed EXCEPT !.cr = missed.cache]
        /\ queued' = FALSE
        /\ UNCHANGED <<obj, fresh>>
     \/ /\ ~cache.finalizer
        /\ fresh
        /\ obj' = [obj EXCEPT !.finalizer = TRUE]
        /\ fresh' = FALSE
        /\ rec' = [pc |-> "setInitialStatus", cr |-> obj']
        /\ missed' = [missed EXCEPT !.cr = 0]
        /\ queued' = FALSE
     \/ /\ ~cache.finalizer
        /\ ~fresh
        /\ UNCHANGED <<obj, fresh, rec, queued, missed>>
  /\ UNCHANGED <<cache, env, faults>>

SetInitialStatus ==
  /\ rec.pc = "setInitialStatus"
  /\ IF NoConditions(rec.cr.st.conds)
     THEN WriteStatus(InitialStatus(rec.cr.st, rec.cr.pause))
     ELSE Goto("handleResourcesSync")
  /\ UNCHANGED <<kube, queued, env, faults>>

\* The replicas the StatefulSet builder asks for.
Replicas(cr) == IF cr.pause THEN 0 ELSE Nodes

\* The builders run: the StatefulSet is created or brought to the spec, unless
\* shouldIgnoreStorageChange leaves one that is scaled to zero alone.  An
\* update that changes the StatefulSet spec comes back as an event.
SyncStatefulSet(cr) ==
  /\ sts' = [sts EXCEPT !.exists = TRUE, !.replicas = Replicas(cr)]
  /\ queued' = (queued \/ (sts.exists /\ sts.replicas # Replicas(cr)))

\* Mutation: a paused Storage skips initialization.
AfterResourcesUnlessPaused(cr) ==
  IF ~IsStatusConditionTrue(cr.st.conds, "Initialized") /\ ~cr.pause
  THEN "setInitPipelineStatus"
  ELSE IF cr.st.cfgGen < cr.gen THEN "setConfigPipelineStatus"
  ELSE "waitForStatefulSetToScale"

\* The step of Sync after handleResourcesSync.
AfterResources(cr) ==
  IF ~IsStatusConditionTrue(cr.st.conds, "Initialized") THEN "setInitPipelineStatus"
  ELSE IF cr.st.cfgGen < cr.gen THEN "setConfigPipelineStatus"
  ELSE "waitForStatefulSetToScale"

HandleResourcesSync ==
  /\ rec.pc = "handleResourcesSync"
  /\ \/ /\ rec.cr.st.state = "Pending"
        /\ WriteStatus(WithStateAndCond(rec.cr.st, "Preparing", "Prepared", "Unknown"))
        /\ UNCHANGED <<sts, queued, faults>>
     \/ /\ rec.cr.st.state # "Pending"
        /\ ~rec.cr.sync
        /\ Return(FALSE)
        /\ UNCHANGED <<sts, faults>>
     \/ /\ rec.cr.st.state # "Pending"
        /\ rec.cr.sync
        /\ SyncStatefulSet(rec.cr)
        /\ IF ~IsStatusConditionTrue(rec.cr.st.conds, "Prepared")
           THEN WriteStatus(WithCond(rec.cr.st, "Prepared", "True"))
           ELSE Goto(AfterResources(rec.cr))
        /\ UNCHANGED faults
     \* A builder fails, before or after the StatefulSet's.
     \/ /\ rec.cr.st.state # "Pending"
        /\ rec.cr.sync
        /\ faults < MaxFaults
        /\ faults' = faults + 1
        /\ SyncStatefulSet(rec.cr) \/ UNCHANGED <<sts, queued>>
        /\ WriteStatus(WithCond(rec.cr.st, "Prepared", "False"))
  /\ UNCHANGED <<kube, job, blob>>

\* The init pipeline.  OldStorageInitializedCondition is the "StorageReady" type.
SetInitPipelineStatus ==
  /\ rec.pc = "setInitPipelineStatus"
  /\ IF rec.cr.st.state = "Preparing"
     THEN WriteStatus(WithStateAndCond(rec.cr.st, "Initializing", "Initialized", "Unknown"))
     ELSE IF rec.cr.skipInit \/ IsStatusConditionTrue(rec.cr.st.conds, "Ready")
     THEN WriteStatus(WithCond(rec.cr.st, "Initialized", "True"))
     ELSE Goto("initializeBlobstorage")
  /\ UNCHANGED <<kube, queued, env, faults>>

\* Mutation: any failed Pod counts as one that found the mismatch.
AnyPodFailed == job.mismatch \/ job.failed

\* checkFailedJob: the log of a failed Pod of the Job names the mismatch.
AlreadyInitialized == job.mismatch

\* The operator token Secret and the Job are created.
CreateInitJob == job' = [NoJob EXCEPT !.exists = TRUE]

\* Mutation: the failed Job is left in place.
KeepInitJob == UNCHANGED job

DeleteInitJob == job' = [job EXCEPT !.deleting = TRUE]

InitializeBlobstorage ==
  /\ rec.pc = "initializeBlobstorage"
  /\ \/ /\ ~job.exists
        /\ CreateInitJob
        /\ Return(TRUE)
     \/ /\ job.exists /\ job.ok
        /\ WriteStatus(WithCond(rec.cr.st, "Initialized", "True"))
        /\ UNCHANGED <<job, queued>>
     \/ /\ job.exists /\ ~job.ok /\ AlreadyInitialized
        /\ DeleteInitJob
        /\ WriteStatus(WithCond(rec.cr.st, "Initialized", "True"))
        /\ UNCHANGED queued
     \/ /\ job.exists /\ ~job.ok /\ ~AlreadyInitialized /\ job.failed
        /\ DeleteInitJob
        /\ WriteStatus(WithCond(rec.cr.st, "Initialized", "False"))
        /\ UNCHANGED queued
     \/ /\ job.exists /\ ~job.ok /\ ~AlreadyInitialized /\ ~job.failed
        /\ Return(TRUE)
        /\ UNCHANGED job
  /\ UNCHANGED <<kube, sts, blob, faults>>

\* Mutation: off by one.
SetConfigPipelineStatusAhead ==
  /\ rec.pc = "setConfigPipelineStatus"
  /\ WriteStatus([rec.cr.st EXCEPT !.cfgGen = rec.cr.gen + 1])
  /\ UNCHANGED <<kube, queued, env, faults>>

\* Static configuration needs no sync: the condition is True at this generation.
SetConfigPipelineStatus ==
  /\ rec.pc = "setConfigPipelineStatus"
  /\ WriteStatus([rec.cr.st EXCEPT !.cfgGen = rec.cr.gen])
  /\ UNCHANGED <<kube, queued, env, faults>>

WaitForStatefulSetToScale ==
  /\ rec.pc = "waitForStatefulSetToScale"
  /\ IF rec.cr.st.state = "Initializing"
     THEN WriteStatus(WithStateAndCond(rec.cr.st, "Provisioning", "Provisioned", "Unknown"))
     ELSE IF sts.ready # Nodes
     THEN WriteStatus(WithCond(rec.cr.st, "Provisioned", "False"))
     ELSE IF ~IsStatusConditionTrue(rec.cr.st.conds, "Provisioned")
     THEN WriteStatus(WithCond(rec.cr.st, "Provisioned", "True"))
     ELSE Goto("handlePauseResume")
  /\ UNCHANGED <<kube, queued, env, faults>>

HandlePauseResume ==
  /\ rec.pc = "handlePauseResume"
  /\ LET st == PauseResume(rec.cr.st, rec.cr.pause)
     IN  IF st # rec.cr.st THEN WriteStatus(st) ELSE Goto("runSelfCheck")
  /\ UNCHANGED <<kube, queued, env, faults>>

\* The self check only reports; Sync ends with an empty result.
RunSelfCheck ==
  /\ rec.pc = "runSelfCheck"
  /\ Return(FALSE)
  /\ UNCHANGED <<kube, env, faults>>

\* Mutation: the status is patched whatever the version.
AnyVersion == TRUE

\* The version that updateStatus read from the cache is the one it replaces.
LatestVersion == fresh

\* The object is read again from the cache and its status replaced; the API
\* server refuses the write unless that was the latest version.
UpdateStatus ==
  /\ rec.pc = "updateStatus"
  /\ CacheRead
  /\ LET st == Degrade(rec.cr.st, Stage, rec.cr.pause)
     IN  IF LatestVersion /\ st # obj.st
         THEN /\ obj' = [obj EXCEPT !.st = st]
              /\ fresh' = FALSE
              /\ missed' = [missed EXCEPT !.cache = @ + 1]
         ELSE UNCHANGED <<obj, fresh, missed>>
  /\ Return(TRUE)
  /\ UNCHANGED <<cache, env, faults>>

\* A read, a create, a delete or a gRPC call of a step fails: the reconcile returns the error and is retried.
ApiError ==
  /\ faults < MaxFaults
  /\ rec.pc \in {"initializeBlobstorage", "waitForStatefulSetToScale", "runSelfCheck",
                 "updateStatus"}
  /\ faults' = faults + 1
  /\ Return(TRUE)
  /\ UNCHANGED <<kube, env>>

\* The operator restarts: its informer lists the latest objects and every
\* Storage is reconciled again.
Crash ==
  /\ faults < MaxFaults
  /\ faults' = faults + 1
  /\ rec' = Idle
  /\ queued' = TRUE
  /\ cache' = obj
  /\ fresh' = TRUE
  /\ missed' = [missed EXCEPT !.cache = 0]
  /\ UNCHANGED <<obj, env>>

Controller ==
  \/ Reconcile \/ SetInitialStatus \/ HandleResourcesSync \/ SetInitPipelineStatus
  \/ InitializeBlobstorage \/ SetConfigPipelineStatus \/ WaitForStatefulSetToScale
  \/ HandlePauseResume \/ RunSelfCheck \/ UpdateStatus

Environment == ScaleStep \/ JobSucceed \/ JobMismatch \/ JobDelete

Next ==
  \/ Controller \/ Environment \/ CacheSync
  \/ UserUpdate \/ OwnedEvent \/ LosePod \/ JobFail \/ ApiError \/ Crash

\* The worker runs while its queue is not empty, watches deliver, and
\* Kubernetes drives Pods and Jobs; users, faults and crashes are not fair.
Fairness ==
  /\ WF_vars(Controller)
  /\ WF_vars(CacheSync)
  /\ WF_vars(ScaleStep)
  /\ WF_vars(JobSucceed \/ JobMismatch \/ JobDelete)

Spec == Init /\ [][Next]_vars /\ Fairness

-----------------------------------------------------------------------------
(***************************************************************************)
(* Properties.                                                             *)
(***************************************************************************)

CondTrue(type) == IsStatusConditionTrue(obj.st.conds, type)

\* A reconcile never works on a copy that misses more than one of the
\* controller's own status writes: updateStatus reads the object again and the
\* API server refuses the write when that read was stale.
MissesAtMostOneWrite == missed.cr <= 1

\* StorageInitialized, which a Database waits for, is True only when the
\* blobstorage really is initialized (or the user asked to skip it).
InitializedIsReal == CondTrue("Initialized") => blob \/ obj.skipInit

\* Ready and Paused are never reported together.
NotReadyAndPaused == ~(CondTrue("Ready") /\ CondTrue("Paused"))

\* The reconcile in flight, or the last one, works on a copy that lacks the
\* controller's last status write.
Behind == missed.cr > 0

\* The controller implements the lifecycle that the status promises.
L == INSTANCE Lifecycle WITH
       state  <- obj.st.state,
       done   <- {c \in Stage : CondTrue(c)},
       behind <- Behind

ImplementsLifecycle == L!Spec

\* The status and the StatefulSet are what the spec asks for.
Settled ==
  /\ obj.st.state = IF obj.pause THEN "Paused" ELSE "Ready"
  /\ CondTrue(obj.st.state)
  /\ obj.st.cfgGen = obj.gen
  /\ sts.replicas = Replicas(obj)

\* No lost wake-up: when the controller has nothing queued and nothing in
\* flight, the status and the StatefulSet reflect the latest spec, or the user
\* switched operatorSync off.  A cache that lacks the latest spec is no excuse,
\* because the event of the edit is still to come; one that lacks the
\* controller's own status write is, because that event is filtered out.
QuiescentIsSettled ==
  rec.pc = "idle" /\ ~queued /\ fresh => ~obj.sync \/ Settled \/ Behind

\* Once the user stops editing and wants the Storage running, it becomes Ready
\* and stays so, unless the controller works for ever on copies that lack its
\* last write.
EventuallyReady ==
  <>[](obj.sync /\ ~obj.pause) =>
    <>[](obj.st.state = "Ready" /\ CondTrue("Ready")) \/ []<>Behind

\* Once the user stops editing and wants the Storage paused, it becomes Paused.
EventuallyPaused ==
  <>[](obj.sync /\ obj.pause) => <>(obj.st.state = "Paused")
=============================================================================
