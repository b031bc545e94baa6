------------------------- MODULE StorageSyncProofs -------------------------
(***************************************************************************)
(* Proofs about StorageSync, for every number of nodes, edits and faults,  *)
(* and whether or not the cache lags.                                      *)
(*                                                                         *)
(* Neither MissesAtMostOneWrite nor InitializedIsReal is inductive.  The   *)
(* first needs what the fresh flag means.  The second needs that every     *)
(* copy of the object (on the API server, in the cache, in the reconcile)  *)
(* reports initialization only if it is real, that the Ready condition     *)
(* does too, because setInitPipelineStatus takes it for a proof of         *)
(* initialization, and that the steps which set Ready are reached only     *)
(* with a copy that is initialized.                                        *)
(*                                                                         *)
(* The second part (StatusInv) is about what the reconcile leaves behind:  *)
(* what every status a copy may carry looks like, what a step of Sync has  *)
(* established about its copy by the time it is reached, and that work     *)
(* which is left comes with a request, an event to come, or a reconcile    *)
(* in flight.  From it follow NotReadyAndPaused, QuiescentIsSettled and    *)
(* that the status goes through the states of Lifecycle.                   *)
(***************************************************************************)
EXTENDS StorageSync, TLAPS

\* fresh means that the cache holds the latest version; the cache misses at
\* most one status write, and so does a copy that was read from it.
VersionInv ==
  /\ fresh => cache = obj /\ missed.cache = 0
  /\ missed.cache <= 1
  /\ missed.cr <= 1

\* No copy disagrees on skipInit, which nobody edits.
SkipInv ==
  /\ cache.skipInit = obj.skipInit
  /\ rec.pc # "idle" => rec.cr.skipInit = obj.skipInit

\* A Job that succeeded or found the mismatch proves initialization.
JobInv == job.ok \/ job.mismatch => blob

\* A status claims that the blobstorage is initialized ...
Claims(st) ==
  \/ IsStatusConditionTrue(st.conds, "Initialized")
  \/ IsStatusConditionTrue(st.conds, "Ready")

\* ... and that is true.
Real(o) == Claims(o.st) => blob \/ o.skipInit

RealInv ==
  /\ Real(obj)
  /\ Real(cache)
  /\ rec.pc # "idle" => Real(rec.cr)

\* The steps after the init pipeline work on a copy that is initialized.
StepInv ==
  rec.pc \in {"setConfigPipelineStatus", "waitForStatefulSetToScale",
              "handlePauseResume", "runSelfCheck"}
    => IsStatusConditionTrue(rec.cr.st.conds, "Initialized")

IInv == TypeOK /\ VersionInv /\ SkipInv /\ JobInv /\ RealInv /\ StepInv

-----------------------------------------------------------------------------
(***************************************************************************)
(* The operators that change a status.                                     *)
(***************************************************************************)

\* SetStatusCondition keeps the type of a status and changes one condition.
LEMMA WithCondFacts ==
  ASSUME NEW st \in Status, NEW type \in CondType, NEW status \in CondStatus
  PROVE  /\ WithCond(st, type, status) \in Status
         /\ \A c \in CondType : WithCond(st, type, status).conds[c] =
                                  IF c = type THEN status ELSE st.conds[c]
BY DEF WithCond, SetStatusCondition, Status

\* The same for a status whose state changes too.
LEMMA WithStateAndCondFacts ==
  ASSUME NEW st \in Status, NEW state \in ClusterState,
         NEW type \in CondType, NEW status \in CondStatus
  PROVE  /\ WithStateAndCond(st, state, type, status) \in Status
         /\ \A c \in CondType : WithStateAndCond(st, state, type, status).conds[c] =
                                  IF c = type THEN status ELSE st.conds[c]
BY DEF WithStateAndCond, WithCond, SetStatusCondition, Status

\* The condition a Storage is heading for is a condition, and a state.
LEMMA GoalFacts ==
  ASSUME NEW pause \in BOOLEAN
  PROVE  /\ Goal(pause) \in CondType
         /\ Goal(pause) \in ClusterState
         /\ Goal(pause) \in {"Ready", "Paused"}
BY DEF Goal, CondType, ClusterState

\* setInitialStatus claims nothing.
LEMMA InitialStatusFacts ==
  ASSUME NEW st \in Status, NEW pause \in BOOLEAN
  PROVE  /\ InitialStatus(st, pause) \in Status
         /\ \A c \in CondType : InitialStatus(st, pause).conds[c] = "True"
                                  => st.conds[c] = "True"
<1>1. Goal(pause) \in CondType /\ "Unknown" \in CondStatus
  BY GoalFacts DEF CondStatus
<1> QED
  BY <1>1, WithCondFacts DEF InitialStatus

\* handlePauseResume changes only the Ready and Paused conditions.
LEMMA PauseResumeFacts ==
  ASSUME NEW st \in Status, NEW pause \in BOOLEAN
  PROVE  /\ PauseResume(st, pause) \in Status
         /\ \A c \in Stage : PauseResume(st, pause).conds[c] = st.conds[c]
<1>1. /\ Goal(pause) \in CondType
      /\ Goal(pause) \in ClusterState
      /\ Goal(pause) \notin Stage
  BY GoalFacts DEF Stage
<1>2. /\ {"True", "False"} \subseteq CondStatus
      /\ {"Ready", "Paused"} \subseteq CondType \cap ClusterState
      /\ "Ready" \notin Stage /\ "Paused" \notin Stage
      /\ Stage \subseteq CondType
  BY DEF CondStatus, CondType, ClusterState, Stage
<1>3. CASE st.state = "Provisioning"
  <2>1. PauseResume(st, pause) = WithStateAndCond(st, Goal(pause), Goal(pause), "True")
    BY <1>3 DEF PauseResume
  <2>2. /\ WithStateAndCond(st, Goal(pause), Goal(pause), "True") \in Status
        /\ \A c \in CondType :
             WithStateAndCond(st, Goal(pause), Goal(pause), "True").conds[c] =
               IF c = Goal(pause) THEN "True" ELSE st.conds[c]
    BY <1>1, <1>2, WithStateAndCondFacts
  <2> QED BY <2>1, <2>2, <1>1, <1>2
<1>4. CASE st.state = "Ready" /\ pause
  <2>1. PauseResume(st, pause) = WithStateAndCond(st, "Paused", "Ready", "False")
    BY <1>4 DEF PauseResume
  <2> QED BY <2>1, <1>2, WithStateAndCondFacts
<1>5. CASE st.state = "Paused" /\ ~pause
  <2>1. PauseResume(st, pause) = WithStateAndCond(st, "Ready", "Paused", "False")
    BY <1>5 DEF PauseResume
  <2> QED BY <2>1, <1>2, WithStateAndCondFacts
<1>6. CASE /\ st.state # "Provisioning"
           /\ ~(st.state = "Ready" /\ pause)
           /\ ~(st.state = "Paused" /\ ~pause)
  <2>1. PauseResume(st, pause) = WithCond(st, Goal(pause), "True")
    BY <1>6 DEF PauseResume
  <2> QED BY <2>1, <1>1, <1>2, WithCondFacts
<1> QED BY <1>3, <1>4, <1>5, <1>6

\* The head of updateStatus takes claims back but makes none.
LEMMA DegradeFacts ==
  ASSUME NEW st \in Status, NEW pause \in BOOLEAN
  PROVE  /\ Degrade(st, Stage, pause) \in Status
         /\ \A c \in CondType : Degrade(st, Stage, pause).conds[c] = "True"
                                  => st.conds[c] = "True"
<1>1. Goal(pause) \in CondType /\ "False" \in CondStatus
  BY GoalFacts DEF CondStatus
<1>2. Degrade(st, Stage, pause) \in {st, WithCond(st, Goal(pause), "False")}
  BY DEF Degrade
<1> QED
  BY <1>1, <1>2, WithCondFacts

-----------------------------------------------------------------------------
(***************************************************************************)
(* How a step leaves the reconcile.                                        *)
(***************************************************************************)
Rec == [pc : Step, cr : Storage]

\* A new Storage is a Storage that claims nothing, so Idle is a reconcile.
LEMMA NewStorageFacts ==
  ASSUME NEW pause \in BOOLEAN, NEW sync \in BOOLEAN, NEW skip \in BOOLEAN
  PROVE  /\ NewStorage(pause, sync, skip) \in Storage
         /\ \A c \in CondType : NewStorage(pause, sync, skip).st.conds[c] = "Absent"
<1>1. 1 \in 1..MaxGen /\ 0 \in 0..MaxGen
  BY StorageAssumption
<1>2. "Absent" \in CondStatus /\ "Pending" \in ClusterState
  BY DEF CondStatus, ClusterState
<1> QED
  BY <1>1, <1>2 DEF NewStorage, Storage, Status

\* No reconcile in flight.
LEMMA IdleFacts == Idle \in Rec /\ Idle.pc = "idle"
BY NewStorageFacts DEF Idle, Rec, Step

\* Replacing the status of a Storage.
LEMMA SetStatusFacts ==
  ASSUME NEW cr \in Storage, NEW st \in Status
  PROVE  /\ [cr EXCEPT !.st = st] \in Storage
         /\ [cr EXCEPT !.st = st].st = st
         /\ [cr EXCEPT !.st = st].skipInit = cr.skipInit
BY DEF Storage

\* A step that calls updateStatus.
LEMMA WriteStatusFacts ==
  ASSUME rec \in Rec, NEW st \in Status, WriteStatus(st)
  PROVE  /\ rec' \in Rec
         /\ rec'.pc = "updateStatus"
         /\ rec'.cr.st = st
         /\ rec'.cr.skipInit = rec.cr.skipInit
BY DEF WriteStatus, Rec, Storage, Step

\* A step that goes on with another one.
LEMMA GotoFacts ==
  ASSUME rec \in Rec, NEW step \in Step, Goto(step)
  PROVE  /\ rec' \in Rec
         /\ rec'.pc = step
         /\ rec'.cr = rec.cr
BY DEF Goto, Rec

\* A step that ends the reconcile.
LEMMA ReturnFacts ==
  ASSUME queued \in BOOLEAN, NEW requeue \in BOOLEAN, Return(requeue)
  PROVE  /\ rec' \in Rec
         /\ rec'.pc = "idle"
         /\ queued' \in BOOLEAN
BY IdleFacts DEF Return

-----------------------------------------------------------------------------
(***************************************************************************)
(* Type correctness.                                                       *)
(***************************************************************************)

\* The Storage as it is created has the types.
LEMMA InitType == Init => TypeOK
<1> SUFFICES ASSUME Init PROVE TypeOK
  OBVIOUS
<1>1. obj \in Storage
  BY NewStorageFacts DEF Init
<1>2. rec \in Rec
  BY IdleFacts DEF Init
<1>3. job \in Job
  BY DEF Init, Job, NoJob
<1>4. sts \in [exists : BOOLEAN, replicas : {0, Nodes}, ready : 0..Nodes]
  BY StorageAssumption DEF Init
<1>5. faults \in 0..MaxFaults
  BY StorageAssumption DEF Init
<1>6. missed \in [cache : Nat, cr : Nat]
  BY DEF Init
<1> QED
  BY <1>1, <1>2, <1>3, <1>4, <1>5, <1>6 DEF Init, TypeOK, Rec

\* The StatefulSet after the builders ran.
LEMMA SyncStatefulSetType ==
  ASSUME TypeOK, NEW cr \in Storage, SyncStatefulSet(cr)
  PROVE  /\ sts' \in [exists : BOOLEAN, replicas : {0, Nodes}, ready : 0..Nodes]
         /\ queued' \in BOOLEAN
<1>1. Replicas(cr) \in {0, Nodes}
  BY DEF Replicas
<1> QED
  BY <1>1 DEF SyncStatefulSet, TypeOK

\* Every step of the controller, the cluster and the user keeps the types.
LEMMA NextType == TypeOK /\ [Next]_vars => TypeOK'
<1> SUFFICES ASSUME TypeOK, [Next]_vars PROVE TypeOK'
  OBVIOUS
<1> USE DEF kube, env
<1>t. /\ obj \in Storage /\ cache \in Storage /\ rec \in Rec /\ rec.cr \in Storage
      /\ obj.st \in Status /\ rec.cr.st \in Status
      /\ fresh \in BOOLEAN /\ queued \in BOOLEAN /\ blob \in BOOLEAN
  BY DEF TypeOK, Rec, Storage
<1>s. "Unknown" \in CondStatus /\ "True" \in CondStatus /\ "False" \in CondStatus
  BY DEF CondStatus
<1>c. "Prepared" \in CondType /\ "Initialized" \in CondType /\ "Provisioned" \in CondType
  BY DEF CondType, Stage
<1>st. /\ "Preparing" \in ClusterState /\ "Initializing" \in ClusterState
       /\ "Provisioning" \in ClusterState
  BY DEF ClusterState
<1>f. faults < MaxFaults => faults + 1 \in 0..MaxFaults
  BY StorageAssumption DEF TypeOK
<1>1. CASE Reconcile
  <2>1. missed \in [cache : Nat, cr : Nat]
    BY DEF TypeOK
  <2>2. "setInitialStatus" \in Step
    BY DEF Step
  <2>3. CASE /\ rec' = [pc |-> "setInitialStatus", cr |-> cache]
             /\ missed' = [missed EXCEPT !.cr = missed.cache]
             /\ queued' = FALSE
             /\ UNCHANGED <<obj, fresh>>
    BY <1>1, <1>t, <2>1, <2>2, <2>3 DEF Reconcile, TypeOK, Rec
  <2>4. CASE /\ obj' = [obj EXCEPT !.finalizer = TRUE]
             /\ fresh' = FALSE
             /\ rec' = [pc |-> "setInitialStatus", cr |-> obj']
             /\ missed' = [missed EXCEPT !.cr = 0]
             /\ queued' = FALSE
    <3>1. obj' \in Storage
      BY <1>t, <2>4 DEF Storage
    <3>2. rec' \in Rec
      BY <2>2, <2>4, <3>1 DEF Rec
    <3>3. missed' \in [cache : Nat, cr : Nat]
      BY <2>1, <2>4
    <3> QED BY <1>1, <2>4, <3>1, <3>2, <3>3 DEF Reconcile, TypeOK, Rec
  <2>5. CASE UNCHANGED <<obj, fresh, rec, queued, missed>>
    BY <1>1, <2>5 DEF Reconcile, TypeOK
  <2> QED BY <1>1, <2>3, <2>4, <2>5 DEF Reconcile
<1>2. CASE SetInitialStatus
  <2>1. rec' \in Rec
    <3>1. CASE WriteStatus(InitialStatus(rec.cr.st, rec.cr.pause))
      BY <1>t, <3>1, InitialStatusFacts, WriteStatusFacts DEF Storage
    <3>2. CASE Goto("handleResourcesSync")
      BY <1>t, <3>2, GotoFacts DEF Step
    <3> QED BY <1>2, <3>1, <3>2 DEF SetInitialStatus
  <2> QED BY <1>2, <2>1 DEF SetInitialStatus, TypeOK, Rec
<1>3. CASE HandleResourcesSync
  <2>1. rec' \in Rec /\ queued' \in BOOLEAN /\ faults' \in 0..MaxFaults
        /\ sts' \in [exists : BOOLEAN, replicas : {0, Nodes}, ready : 0..Nodes]
    <3>1. CASE /\ WriteStatus(WithStateAndCond(rec.cr.st, "Preparing", "Prepared", "Unknown"))
               /\ UNCHANGED <<sts, queued, faults>>
      BY <1>t, <1>s, <1>c, <1>st, <3>1, WithStateAndCondFacts, WriteStatusFacts DEF TypeOK
    <3>2. CASE Return(FALSE) /\ UNCHANGED <<sts, faults>>
      BY <1>t, <3>2, ReturnFacts DEF TypeOK
    <3>3. CASE /\ SyncStatefulSet(rec.cr)
               /\ IF ~IsStatusConditionTrue(rec.cr.st.conds, "Prepared")
                  THEN WriteStatus(WithCond(rec.cr.st, "Prepared", "True"))
                  ELSE Goto(AfterResources(rec.cr))
               /\ UNCHANGED faults
      <4>1. AfterResources(rec.cr) \in Step
        BY DEF AfterResources, Step
      <4>2. WithCond(rec.cr.st, "Prepared", "True") \in Status
        BY <1>t, <1>s, <1>c, WithCondFacts
      <4>3. rec' \in Rec
        BY <1>t, <3>3, <4>1, <4>2, WriteStatusFacts, GotoFacts
      <4> QED BY <1>t, <3>3, <4>3, SyncStatefulSetType DEF TypeOK
    <3>4. CASE /\ faults < MaxFaults
               /\ faults' = faults + 1
               /\ SyncStatefulSet(rec.cr) \/ UNCHANGED <<sts, queued>>
               /\ WriteStatus(WithCond(rec.cr.st, "Prepared", "False"))
      <4>1. WithCond(rec.cr.st, "Prepared", "False") \in Status
        BY <1>t, <1>s, <1>c, WithCondFacts
      <4>2. rec' \in Rec
        BY <1>t, <3>4, <4>1, WriteStatusFacts
      <4>3. /\ sts' \in [exists : BOOLEAN, replicas : {0, Nodes}, ready : 0..Nodes]
            /\ queued' \in BOOLEAN
        BY <1>t, <3>4, SyncStatefulSetType DEF TypeOK
      <4> QED BY <1>f, <3>4, <4>2, <4>3
    <3> QED BY <1>3, <3>1, <3>2, <3>3, <3>4 DEF HandleResourcesSync
  <2> QED BY <1>3, <2>1 DEF HandleResourcesSync, TypeOK, Rec
<1>4. CASE SetInitPipelineStatus
  <2>1. WithStateAndCond(rec.cr.st, "Initializing", "Initialized", "Unknown") \in Status
    BY <1>t, <1>s, <1>c, <1>st, WithStateAndCondFacts
  <2>2. WithCond(rec.cr.st, "Initialized", "True") \in Status
    BY <1>t, <1>s, <1>c, WithCondFacts
  <2>3. "initializeBlobstorage" \in Step
    BY DEF Step
  <2>4. rec' \in Rec
    BY <1>4, <1>t, <2>1, <2>2, <2>3, WriteStatusFacts, GotoFacts DEF SetInitPipelineStatus
  <2> QED BY <1>4, <2>4 DEF SetInitPipelineStatus, TypeOK, Rec
<1>5. CASE InitializeBlobstorage
  <2>1. /\ WithCond(rec.cr.st, "Initialized", "True") \in Status
        /\ WithCond(rec.cr.st, "Initialized", "False") \in Status
    BY <1>t, <1>s, <1>c, WithCondFacts
  <2>2. \/ WriteStatus(WithCond(rec.cr.st, "Initialized", "True")) /\ UNCHANGED queued
        \/ WriteStatus(WithCond(rec.cr.st, "Initialized", "False")) /\ UNCHANGED queued
        \/ Return(TRUE)
    BY <1>5 DEF InitializeBlobstorage
  <2>3. rec' \in Rec /\ queued' \in BOOLEAN
    BY <1>t, <2>1, <2>2, WriteStatusFacts, ReturnFacts
  <2>4. job' \in Job
    BY <1>5 DEF InitializeBlobstorage, CreateInitJob, DeleteInitJob, NoJob, Job, TypeOK
  <2> QED BY <1>5, <2>3, <2>4 DEF InitializeBlobstorage, TypeOK, Rec
<1>6. CASE SetConfigPipelineStatus
  <2>1. [rec.cr.st EXCEPT !.cfgGen = rec.cr.gen] \in Status
    BY <1>t DEF Status, Storage
  <2>2. rec' \in Rec
    BY <1>6, <1>t, <2>1, WriteStatusFacts DEF SetConfigPipelineStatus
  <2> QED BY <1>6, <2>2 DEF SetConfigPipelineStatus, TypeOK, Rec
<1>7. CASE WaitForStatefulSetToScale
  <2>1. WithStateAndCond(rec.cr.st, "Provisioning", "Provisioned", "Unknown") \in Status
    BY <1>t, <1>s, <1>c, <1>st, WithStateAndCondFacts
  <2>2. /\ WithCond(rec.cr.st, "Provisioned", "True") \in Status
        /\ WithCond(rec.cr.st, "Provisioned", "False") \in Status
    BY <1>t, <1>s, <1>c, WithCondFacts
  <2>3. "handlePauseResume" \in Step
    BY DEF Step
  <2>4. rec' \in Rec
    BY <1>7, <1>t, <2>1, <2>2, <2>3, WriteStatusFacts, GotoFacts
       DEF WaitForStatefulSetToScale
  <2> QED BY <1>7, <2>4 DEF WaitForStatefulSetToScale, TypeOK, Rec
<1>8. CASE HandlePauseResume
  <2>1. PauseResume(rec.cr.st, rec.cr.pause) \in Status
    BY <1>t, PauseResumeFacts DEF Storage
  <2>2. "runSelfCheck" \in Step
    BY DEF Step
  <2>3. rec' \in Rec
    BY <1>8, <1>t, <2>1, <2>2, WriteStatusFacts, GotoFacts DEF HandlePauseResume
  <2> QED BY <1>8, <2>3 DEF HandlePauseResume, TypeOK, Rec
<1>9. CASE RunSelfCheck
  BY <1>9, <1>t, ReturnFacts DEF RunSelfCheck, TypeOK, Rec
<1>10. CASE UpdateStatus
  <2>1. Degrade(rec.cr.st, Stage, rec.cr.pause) \in Status
    BY <1>t, DegradeFacts DEF Storage
  <2>2. obj' \in Storage /\ fresh' \in BOOLEAN
    BY <1>10, <1>t, <2>1, SetStatusFacts DEF UpdateStatus
  <2>3. missed' \in [cache : Nat, cr : Nat]
    BY <1>10 DEF UpdateStatus, TypeOK
  <2>4. rec' \in Rec /\ queued' \in BOOLEAN
    BY <1>10, <1>t, ReturnFacts DEF UpdateStatus
  <2> QED BY <1>10, <2>2, <2>3, <2>4 DEF UpdateStatus, TypeOK, Rec
<1>11. CASE CacheSync
  BY <1>11, <1>t DEF CacheSync, SpecChanged, TypeOK
<1>12. CASE UserUpdate
  <2>1. obj' \in Storage
    <3>1. PICK pause, sync \in BOOLEAN :
            obj' = [obj EXCEPT !.gen = @ + 1, !.pause = pause, !.sync = sync]
      BY <1>12 DEF UserUpdate
    <3>2. obj.gen + 1 \in 1..MaxGen
      BY <1>12, <1>t, StorageAssumption DEF UserUpdate, Storage
    <3> QED BY <1>t, <3>1, <3>2 DEF Storage
  <2> QED BY <1>12, <2>1 DEF UserUpdate, TypeOK
<1>13. CASE OwnedEvent
  BY <1>13 DEF OwnedEvent, TypeOK
<1>14. CASE ScaleStep
  BY <1>14, StorageAssumption DEF ScaleStep, TypeOK
<1>15. CASE LosePod
  BY <1>15, <1>f, StorageAssumption DEF LosePod, TypeOK
<1>16. CASE JobSucceed \/ JobMismatch \/ JobFail \/ JobDelete
  <2>1. job' \in Job
    <3>1. job \in Job
      BY DEF TypeOK
    <3>2. CASE JobSucceed
      BY <3>1, <3>2 DEF JobSucceed, Job
    <3>3. CASE JobMismatch
      <4>1. PICK limit \in BOOLEAN : job' = [job EXCEPT !.mismatch = TRUE, !.failed = limit]
        BY <3>3 DEF JobMismatch
      <4> QED BY <3>1, <4>1 DEF Job
    <3>4. CASE JobFail
      BY <3>1, <3>4 DEF JobFail, Job
    <3>5. CASE JobDelete
      <4>1. job' = [job EXCEPT !.mismatch = FALSE] \/ job' = NoJob
        BY <3>5 DEF JobDelete
      <4>2. NoJob \in Job
        BY DEF NoJob, Job
      <4>3. [job EXCEPT !.mismatch = FALSE] \in Job
        BY <3>1 DEF Job
      <4> QED BY <4>1, <4>2, <4>3
    <3> QED BY <1>16, <3>2, <3>3, <3>4, <3>5
  <2>2. blob' \in BOOLEAN /\ faults' \in 0..MaxFaults
    BY <1>16, <1>f DEF JobSucceed, JobMismatch, JobFail, JobDelete, TypeOK
  <2> QED BY <1>16, <2>1, <2>2 DEF JobSucceed, JobMismatch, JobFail, JobDelete, TypeOK
<1>17. CASE ApiError
  BY <1>17, <1>t, <1>f, ReturnFacts DEF ApiError, TypeOK, Rec
<1>18. CASE Crash
  BY <1>18, <1>t, <1>f, IdleFacts DEF Crash, TypeOK, Rec
<1>19. CASE UNCHANGED vars
  BY <1>19 DEF vars, TypeOK
<1> QED
  BY <1>1, <1>2, <1>3, <1>4, <1>5, <1>6, <1>7, <1>8, <1>9, <1>10, <1>11, <1>12,
     <1>13, <1>14, <1>15, <1>16, <1>17, <1>18, <1>19 DEF Next, Controller, Environment

\* Every variable keeps its type: in particular the replicas of the StatefulSet
\* are 0 or spec.nodes, and no condition is observed at a generation that the
\* object has not reached.
THEOREM TypeCorrect == Spec => []TypeOK
BY InitType, NextType, PTL DEF Spec

-----------------------------------------------------------------------------
(***************************************************************************)
(* The inductive invariant.                                                *)
(***************************************************************************)

\* A Storage as it is created claims nothing.
LEMMA InitIInv == Init => IInv
<1> SUFFICES ASSUME Init PROVE IInv
  OBVIOUS
<1>1. TypeOK
  BY InitType
<1>2. VersionInv /\ JobInv
  BY DEF Init, VersionInv, JobInv, NoJob
<1>3. SkipInv /\ StepInv
  BY DEF Init, SkipInv, StepInv, Idle
<1>4. RealInv
  <2>1. Real(obj)
    BY NewStorageFacts DEF Init, Real, Claims, IsStatusConditionTrue, CondType, Stage
  <2> QED BY <2>1 DEF Init, RealInv, Idle
<1> QED BY <1>1, <1>2, <1>3, <1>4 DEF IInv

\* A step of the reconcile that leaves the API server and the cache alone keeps
\* the claims real if what it writes into its copy is.
LEMMA ReconcileStep ==
  ASSUME IInv, UNCHANGED kube, blob => blob',
         \/ rec'.pc = "idle"
         \/ /\ rec.pc # "idle"
            /\ rec'.cr.skipInit = rec.cr.skipInit
            /\ Real(rec.cr)'
  PROVE  VersionInv' /\ SkipInv' /\ RealInv'
<1>1. VersionInv'
  BY DEF IInv, VersionInv, kube
<1>2. SkipInv'
  BY DEF IInv, SkipInv, kube
<1>3. Real(obj)' /\ Real(cache)'
  BY DEF IInv, RealInv, Real, kube
<1> QED BY <1>1, <1>2, <1>3 DEF RealInv

\* A step that ends the reconcile.
LEMMA ReconcileReturn ==
  ASSUME IInv, UNCHANGED kube, blob => blob', NEW requeue \in BOOLEAN, Return(requeue)
  PROVE  VersionInv' /\ SkipInv' /\ RealInv' /\ StepInv'
<1>1. rec'.pc = "idle"
  BY ReturnFacts DEF IInv, TypeOK
<1> QED BY <1>1, ReconcileStep DEF StepInv

\* A step that goes on with its copy as it is.
LEMMA ReconcileGoto ==
  ASSUME IInv, UNCHANGED kube, UNCHANGED blob, rec.pc # "idle",
         NEW step \in Step, Goto(step),
         step \in {"setConfigPipelineStatus", "waitForStatefulSetToScale",
                   "handlePauseResume", "runSelfCheck"}
           => IsStatusConditionTrue(rec.cr.st.conds, "Initialized")
  PROVE  VersionInv' /\ SkipInv' /\ RealInv' /\ StepInv'
<1>1. rec'.pc = step /\ rec'.cr = rec.cr
  BY GotoFacts DEF IInv, TypeOK, Rec
<1>2. Real(rec.cr)'
  BY <1>1 DEF IInv, RealInv, Real
<1>3. StepInv'
  BY <1>1 DEF StepInv
<1> QED BY <1>1, <1>2, <1>3, ReconcileStep

\* A step that calls updateStatus.
LEMMA ReconcileWrite ==
  ASSUME IInv, UNCHANGED kube, UNCHANGED blob, rec.pc # "idle",
         NEW st \in Status, WriteStatus(st),
         Claims(st) => Claims(rec.cr.st) \/ blob \/ rec.cr.skipInit
  PROVE  VersionInv' /\ SkipInv' /\ RealInv' /\ StepInv'
<1>1. /\ rec'.pc = "updateStatus"
      /\ rec'.cr.st = st
      /\ rec'.cr.skipInit = rec.cr.skipInit
  BY WriteStatusFacts DEF IInv, TypeOK, Rec
<1>2. Real(rec.cr)'
  BY <1>1 DEF IInv, RealInv, Real
<1>3. StepInv'
  BY <1>1 DEF StepInv
<1> QED BY <1>1, <1>2, <1>3, ReconcileStep

\* Nothing new is claimed by a status with no more True conditions, ...
LEMMA NoNewClaim ==
  ASSUME NEW st \in Status, NEW new \in Status,
         \A c \in CondType : new.conds[c] = "True" => st.conds[c] = "True"
  PROVE  Claims(new) => Claims(st)
BY DEF Claims, IsStatusConditionTrue, CondType, Stage

\* ... and none by setting a condition to something else than True, or another
\* condition than Initialized and Ready.
LEMMA CondClaims ==
  ASSUME NEW st \in Status, NEW type \in CondType, NEW status \in CondStatus,
         status # "True" \/ type \notin {"Initialized", "Ready"}
  PROVE  Claims(WithCond(st, type, status)) => Claims(st)
<1>1. "Initialized" \in CondType /\ "Ready" \in CondType
  BY DEF CondType, Stage
<1> QED BY <1>1, WithCondFacts DEF Claims, IsStatusConditionTrue

\* The same when the state is set too.
LEMMA StateAndCondClaims ==
  ASSUME NEW st \in Status, NEW state \in ClusterState,
         NEW type \in CondType, NEW status \in CondStatus,
         status # "True" \/ type \notin {"Initialized", "Ready"}
  PROVE  Claims(WithStateAndCond(st, state, type, status)) => Claims(st)
<1>1. "Initialized" \in CondType /\ "Ready" \in CondType
  BY DEF CondType, Stage
<1> QED BY <1>1, WithStateAndCondFacts DEF Claims, IsStatusConditionTrue

\* Every step keeps the inductive invariant.
LEMMA NextIInv == IInv /\ [Next]_vars => IInv'
<1> SUFFICES ASSUME IInv, [Next]_vars PROVE IInv'
  OBVIOUS
<1>T. TypeOK'
  BY NextType DEF IInv
<1>t. /\ obj \in Storage /\ cache \in Storage /\ rec.cr \in Storage
      /\ obj.st \in Status /\ rec.cr.st \in Status
      /\ rec.cr.pause \in BOOLEAN /\ missed \in [cache : Nat, cr : Nat]
  BY DEF IInv, TypeOK, Storage
<1>s. "Unknown" \in CondStatus /\ "True" \in CondStatus /\ "False" \in CondStatus
  BY DEF CondStatus
<1>c. "Prepared" \in CondType /\ "Initialized" \in CondType /\ "Provisioned" \in CondType
  BY DEF CondType, Stage
<1>st. /\ "Preparing" \in ClusterState /\ "Initializing" \in ClusterState
       /\ "Provisioning" \in ClusterState
  BY DEF ClusterState
<1>1. CASE Reconcile
  <2>j. JobInv'
    BY <1>1 DEF Reconcile, env, IInv, JobInv
  <2>1. CASE /\ rec' = [pc |-> "setInitialStatus", cr |-> cache]
             /\ missed' = [missed EXCEPT !.cr = missed.cache]
             /\ UNCHANGED <<obj, fresh>>
    <3>1. VersionInv'
      BY <1>1, <1>t, <2>1 DEF Reconcile, IInv, VersionInv
    <3>2. SkipInv' /\ StepInv'
      BY <1>1, <2>1 DEF Reconcile, IInv, SkipInv, StepInv
    <3>3. RealInv'
      BY <1>1, <2>1 DEF Reconcile, env, IInv, RealInv, Real
    <3> QED BY <1>T, <2>j, <3>1, <3>2, <3>3 DEF IInv
  <2>2. CASE /\ fresh
             /\ obj' = [obj EXCEPT !.finalizer = TRUE]
             /\ fresh' = FALSE
             /\ rec' = [pc |-> "setInitialStatus", cr |-> obj']
             /\ missed' = [missed EXCEPT !.cr = 0]
    <3>1. obj'.st = obj.st /\ obj'.skipInit = obj.skipInit
      BY <1>t, <2>2 DEF Storage
    <3>2. VersionInv'
      BY <1>1, <1>t, <2>2 DEF Reconcile, IInv, VersionInv
    <3>3. SkipInv' /\ StepInv'
      BY <1>1, <2>2, <3>1 DEF Reconcile, IInv, SkipInv, StepInv
    <3>4. RealInv'
      BY <1>1, <2>2, <3>1 DEF Reconcile, env, IInv, RealInv, Real
    <3> QED BY <1>T, <2>j, <3>2, <3>3, <3>4 DEF IInv
  <2>3. CASE UNCHANGED <<obj, fresh, rec, missed>>
    <3>1. VersionInv' /\ SkipInv' /\ StepInv'
      BY <1>1, <2>3 DEF Reconcile, IInv, VersionInv, SkipInv, StepInv
    <3>2. RealInv'
      BY <1>1, <2>3 DEF Reconcile, env, IInv, RealInv, Real
    <3> QED BY <1>T, <2>j, <3>1, <3>2 DEF IInv
  <2> QED BY <1>1, <2>1, <2>2, <2>3 DEF Reconcile
<1>2. CASE SetInitialStatus
  <2>1. JobInv'
    BY <1>2 DEF SetInitialStatus, env, IInv, JobInv
  <2>2. InitialStatus(rec.cr.st, rec.cr.pause) \in Status
        /\ (Claims(InitialStatus(rec.cr.st, rec.cr.pause)) => Claims(rec.cr.st))
    BY <1>t, InitialStatusFacts, NoNewClaim
  <2>3. "handleResourcesSync" \in Step
    BY DEF Step
  <2>4. UNCHANGED kube /\ UNCHANGED blob /\ rec.pc # "idle"
    BY <1>2 DEF SetInitialStatus, env
  <2>5. VersionInv' /\ SkipInv' /\ RealInv' /\ StepInv'
    BY <1>2, <2>2, <2>3, <2>4, ReconcileWrite, ReconcileGoto DEF SetInitialStatus
  <2> QED BY <1>T, <2>1, <2>5 DEF IInv
<1>3. CASE HandleResourcesSync
  <2>1. UNCHANGED kube /\ UNCHANGED blob /\ UNCHANGED job /\ rec.pc # "idle"
    BY <1>3 DEF HandleResourcesSync
  <2>2. JobInv'
    BY <2>1 DEF IInv, JobInv
  <2>3. CASE WriteStatus(WithStateAndCond(rec.cr.st, "Preparing", "Prepared", "Unknown"))
    <3>1. LET st == WithStateAndCond(rec.cr.st, "Preparing", "Prepared", "Unknown")
          IN  st \in Status /\ (Claims(st) => Claims(rec.cr.st))
      BY <1>t, <1>s, <1>c, <1>st, WithStateAndCondFacts, StateAndCondClaims
    <3> QED BY <1>T, <2>1, <2>2, <2>3, <3>1, ReconcileWrite DEF IInv
  <2>4. CASE Return(FALSE)
    BY <1>T, <2>1, <2>2, <2>4, ReconcileReturn DEF IInv
  <2>5. CASE Goto(AfterResources(rec.cr))
    <3>1. AfterResources(rec.cr) \in Step
      BY DEF AfterResources, Step
    <3>2. AfterResources(rec.cr) # "setInitPipelineStatus"
            => IsStatusConditionTrue(rec.cr.st.conds, "Initialized")
      BY DEF AfterResources
    <3> QED BY <1>T, <2>1, <2>2, <2>5, <3>1, <3>2, ReconcileGoto DEF IInv
  <2>6. ASSUME NEW status \in CondStatus,
               WriteStatus(WithCond(rec.cr.st, "Prepared", status))
        PROVE  IInv'
    <3>1. LET st == WithCond(rec.cr.st, "Prepared", status)
          IN  st \in Status /\ (Claims(st) => Claims(rec.cr.st))
      BY <1>t, <1>c, WithCondFacts, CondClaims
    <3> QED BY <1>T, <2>1, <2>2, <2>6, <3>1, ReconcileWrite DEF IInv
  <2> QED BY <1>3, <1>s, <2>3, <2>4, <2>5, <2>6 DEF HandleResourcesSync
<1>4. CASE SetInitPipelineStatus
  <2>1. UNCHANGED kube /\ UNCHANGED blob /\ UNCHANGED job /\ rec.pc # "idle"
    BY <1>4 DEF SetInitPipelineStatus, env
  <2>2. JobInv'
    BY <2>1 DEF IInv, JobInv
  <2>3. CASE WriteStatus(WithStateAndCond(rec.cr.st, "Initializing", "Initialized", "Unknown"))
    <3>1. LET st == WithStateAndCond(rec.cr.st, "Initializing", "Initialized", "Unknown")
          IN  st \in Status /\ (Claims(st) => Claims(rec.cr.st))
      BY <1>t, <1>s, <1>c, <1>st, WithStateAndCondFacts, StateAndCondClaims
    <3> QED BY <1>T, <2>1, <2>2, <2>3, <3>1, ReconcileWrite DEF IInv
  <2>4. CASE /\ rec.cr.skipInit \/ IsStatusConditionTrue(rec.cr.st.conds, "Ready")
             /\ WriteStatus(WithCond(rec.cr.st, "Initialized", "True"))
    <3>1. WithCond(rec.cr.st, "Initialized", "True") \in Status
      BY <1>t, <1>s, <1>c, WithCondFacts
    <3>2. Claims(rec.cr.st) \/ rec.cr.skipInit
      BY <2>4 DEF Claims
    <3> QED BY <1>T, <2>1, <2>2, <2>4, <3>1, <3>2, ReconcileWrite DEF IInv
  <2>5. CASE Goto("initializeBlobstorage")
    <3>1. "initializeBlobstorage" \in Step
      BY DEF Step
    <3> QED BY <1>T, <2>1, <2>2, <2>5, <3>1, ReconcileGoto DEF IInv
  <2> QED BY <1>4, <2>3, <2>4, <2>5 DEF SetInitPipelineStatus
<1>5. CASE InitializeBlobstorage
  <2>1. UNCHANGED kube /\ UNCHANGED blob /\ rec.pc # "idle"
    BY <1>5 DEF InitializeBlobstorage
  <2>2. JobInv'
    <3>1. job'.ok \/ job'.mismatch => job.ok \/ job.mismatch
      BY <1>5 DEF InitializeBlobstorage, CreateInitJob, DeleteInitJob, NoJob, IInv, TypeOK, Job
    <3> QED BY <2>1, <3>1 DEF IInv, JobInv
  <2>3. CASE Return(TRUE)
    BY <1>T, <2>1, <2>2, <2>3, ReconcileReturn DEF IInv
  <2>4. CASE /\ job.ok \/ AlreadyInitialized
             /\ WriteStatus(WithCond(rec.cr.st, "Initialized", "True"))
    <3>1. WithCond(rec.cr.st, "Initialized", "True") \in Status
      BY <1>t, <1>s, <1>c, WithCondFacts
    <3>2. blob
      BY <2>4 DEF AlreadyInitialized, IInv, JobInv
    <3> QED BY <1>T, <2>1, <2>2, <2>4, <3>1, <3>2, ReconcileWrite DEF IInv
  <2>5. CASE WriteStatus(WithCond(rec.cr.st, "Initialized", "False"))
    <3>1. LET st == WithCond(rec.cr.st, "Initialized", "False")
          IN  st \in Status /\ (Claims(st) => Claims(rec.cr.st))
      BY <1>t, <1>s, <1>c, WithCondFacts, CondClaims
    <3> QED BY <1>T, <2>1, <2>2, <2>5, <3>1, ReconcileWrite DEF IInv
  <2> QED BY <1>5, <2>3, <2>4, <2>5 DEF InitializeBlobstorage
<1>6. CASE SetConfigPipelineStatus
  <2>1. UNCHANGED kube /\ UNCHANGED blob /\ UNCHANGED job /\ rec.pc # "idle"
    BY <1>6 DEF SetConfigPipelineStatus, env
  <2>2. JobInv'
    BY <2>1 DEF IInv, JobInv
  <2>3. LET st == [rec.cr.st EXCEPT !.cfgGen = rec.cr.gen]
        IN  st \in Status /\ (Claims(st) => Claims(rec.cr.st))
    BY <1>t DEF Status, Storage, Claims
  <2> QED BY <1>6, <1>T, <2>1, <2>2, <2>3, ReconcileWrite DEF SetConfigPipelineStatus, IInv
<1>7. CASE WaitForStatefulSetToScale
  <2>1. UNCHANGED kube /\ UNCHANGED blob /\ UNCHANGED job /\ rec.pc # "idle"
    BY <1>7 DEF WaitForStatefulSetToScale, env
  <2>2. JobInv'
    BY <2>1 DEF IInv, JobInv
  <2>3. CASE WriteStatus(WithStateAndCond(rec.cr.st, "Provisioning", "Provisioned", "Unknown"))
    <3>1. LET st == WithStateAndCond(rec.cr.st, "Provisioning", "Provisioned", "Unknown")
          IN  st \in Status /\ (Claims(st) => Claims(rec.cr.st))
      BY <1>t, <1>s, <1>c, <1>st, WithStateAndCondFacts, StateAndCondClaims
    <3> QED BY <1>T, <2>1, <2>2, <2>3, <3>1, ReconcileWrite DEF IInv
  <2>4. ASSUME NEW status \in CondStatus,
               WriteStatus(WithCond(rec.cr.st, "Provisioned", status))
        PROVE  IInv'
    <3>1. LET st == WithCond(rec.cr.st, "Provisioned", status)
          IN  st \in Status /\ (Claims(st) => Claims(rec.cr.st))
      BY <1>t, <1>c, WithCondFacts, CondClaims
    <3> QED BY <1>T, <2>1, <2>2, <2>4, <3>1, ReconcileWrite DEF IInv
  <2>5. CASE Goto("handlePauseResume")
    <3>1. "handlePauseResume" \in Step
      BY DEF Step
    <3>2. IsStatusConditionTrue(rec.cr.st.conds, "Initialized")
      BY <1>7 DEF WaitForStatefulSetToScale, IInv, StepInv
    <3> QED BY <1>T, <2>1, <2>2, <2>5, <3>1, <3>2, ReconcileGoto DEF IInv
  <2> QED BY <1>7, <1>s, <2>3, <2>4, <2>5 DEF WaitForStatefulSetToScale
<1>8. CASE HandlePauseResume
  <2>1. UNCHANGED kube /\ UNCHANGED blob /\ UNCHANGED job /\ rec.pc # "idle"
    BY <1>8 DEF HandlePauseResume, env
  <2>2. JobInv'
    BY <2>1 DEF IInv, JobInv
  <2>3. IsStatusConditionTrue(rec.cr.st.conds, "Initialized")
    BY <1>8 DEF HandlePauseResume, IInv, StepInv
  <2>4. CASE WriteStatus(PauseResume(rec.cr.st, rec.cr.pause))
    <3>1. PauseResume(rec.cr.st, rec.cr.pause) \in Status
      BY <1>t, PauseResumeFacts
    <3>2. Claims(rec.cr.st)
      BY <2>3 DEF Claims
    <3> QED BY <1>T, <2>1, <2>2, <2>4, <3>1, <3>2, ReconcileWrite DEF IInv
  <2>5. CASE Goto("runSelfCheck")
    <3>1. "runSelfCheck" \in Step
      BY DEF Step
    <3> QED BY <1>T, <2>1, <2>2, <2>3, <2>5, <3>1, ReconcileGoto DEF IInv
  <2> QED BY <1>8, <2>4, <2>5 DEF HandlePauseResume
<1>9. CASE RunSelfCheck
  <2>1. UNCHANGED kube /\ UNCHANGED blob /\ UNCHANGED job /\ Return(FALSE)
    BY <1>9 DEF RunSelfCheck, env
  <2>2. JobInv'
    BY <2>1 DEF IInv, JobInv
  <2> QED BY <1>T, <2>1, <2>2, ReconcileReturn DEF IInv
<1>10. CASE UpdateStatus
  <2>1. rec'.pc = "idle" /\ UNCHANGED cache /\ UNCHANGED blob /\ UNCHANGED job
    BY <1>10, ReturnFacts DEF UpdateStatus, env, IInv, TypeOK
  <2>2. JobInv' /\ StepInv'
    BY <2>1 DEF IInv, JobInv, StepInv
  <2>3. CASE UNCHANGED <<obj, fresh, missed>>
    <3>1. VersionInv' /\ SkipInv'
      BY <2>1, <2>3 DEF IInv, VersionInv, SkipInv
    <3>2. RealInv'
      BY <2>1, <2>3 DEF IInv, RealInv, Real
    <3> QED BY <1>T, <2>2, <3>1, <3>2 DEF IInv
  <2>4. CASE /\ fresh
             /\ obj' = [obj EXCEPT !.st = Degrade(rec.cr.st, Stage, rec.cr.pause)]
             /\ fresh' = FALSE
             /\ missed' = [missed EXCEPT !.cache = @ + 1]
    <3>1. /\ Degrade(rec.cr.st, Stage, rec.cr.pause) \in Status
          /\ Claims(Degrade(rec.cr.st, Stage, rec.cr.pause)) => Claims(rec.cr.st)
      BY <1>t, DegradeFacts, NoNewClaim
    <3>2. /\ obj'.st = Degrade(rec.cr.st, Stage, rec.cr.pause)
          /\ obj'.skipInit = obj.skipInit
      BY <1>t, <2>4, <3>1, SetStatusFacts
    <3>3. VersionInv'
      BY <1>t, <2>1, <2>4 DEF IInv, VersionInv
    <3>4. SkipInv'
      BY <2>1, <3>2 DEF IInv, SkipInv
    <3>5. rec.pc # "idle"
      BY <1>10 DEF UpdateStatus
    <3>6. RealInv'
      BY <2>1, <3>1, <3>2, <3>5 DEF IInv, RealInv, Real, SkipInv
    <3> QED BY <1>T, <2>2, <3>3, <3>4, <3>6 DEF IInv
  <2> QED BY <1>10, <2>3, <2>4 DEF UpdateStatus, LatestVersion
<1>11. CASE CacheSync \/ Crash
  <2>1. /\ cache' = obj /\ fresh' = TRUE /\ UNCHANGED <<obj, job, blob>>
        /\ missed' = [missed EXCEPT !.cache = 0]
        /\ UNCHANGED rec \/ rec' = Idle
    BY <1>11 DEF CacheSync, Crash, env
  <2>2. VersionInv'
    BY <1>t, <2>1 DEF IInv, VersionInv
  <2>3. SkipInv' /\ JobInv'
    BY <2>1, IdleFacts DEF IInv, SkipInv, JobInv
  <2>4. StepInv'
    BY <2>1, IdleFacts DEF IInv, StepInv
  <2>5. RealInv'
    BY <2>1, IdleFacts DEF IInv, RealInv, Real
  <2> QED BY <1>T, <2>2, <2>3, <2>4, <2>5 DEF IInv
<1>12. CASE UserUpdate
  <2>1. /\ obj'.st = obj.st /\ obj'.skipInit = obj.skipInit
        /\ fresh' = FALSE /\ UNCHANGED <<cache, rec, job, blob, missed>>
    BY <1>12, <1>t DEF UserUpdate, env, Storage
  <2>2. VersionInv' /\ JobInv' /\ StepInv'
    BY <2>1 DEF IInv, VersionInv, JobInv, StepInv
  <2>3. SkipInv'
    BY <2>1 DEF IInv, SkipInv
  <2>4. RealInv'
    BY <2>1 DEF IInv, RealInv, Real
  <2> QED BY <1>T, <2>2, <2>3, <2>4 DEF IInv
<1>13. CASE ApiError
  <2>1. UNCHANGED kube /\ UNCHANGED blob /\ UNCHANGED job /\ Return(TRUE)
    BY <1>13 DEF ApiError, env
  <2>2. JobInv'
    BY <2>1 DEF IInv, JobInv
  <2> QED BY <1>T, <2>1, <2>2, ReconcileReturn DEF IInv
<1>14. CASE \/ OwnedEvent \/ ScaleStep \/ LosePod \/ JobSucceed \/ JobMismatch
            \/ JobFail \/ JobDelete \/ UNCHANGED vars
  <2>1. UNCHANGED kube /\ UNCHANGED rec /\ (blob => blob')
    <3>1. UNCHANGED kube /\ UNCHANGED rec
      BY <1>14 DEF OwnedEvent, ScaleStep, LosePod, JobSucceed, JobMismatch, JobFail,
                   JobDelete, vars, kube
    <3>2. blob' = blob \/ blob' = TRUE
      BY <1>14 DEF OwnedEvent, ScaleStep, LosePod, JobSucceed, JobMismatch, JobFail,
                   JobDelete, vars, env
    <3> QED BY <3>1, <3>2
  <2>2. JobInv'
    <3>1. job \in Job
      BY DEF IInv, TypeOK
    <3>2. CASE OwnedEvent \/ ScaleStep \/ LosePod \/ UNCHANGED vars
      BY <3>2 DEF OwnedEvent, ScaleStep, LosePod, vars, env, IInv, JobInv
    <3>3. CASE JobSucceed
      BY <3>3 DEF JobSucceed, JobInv
    <3>4. CASE JobMismatch
      BY <3>4 DEF JobMismatch, JobInv
    <3>5. CASE JobFail
      BY <3>1, <3>5, <2>1 DEF JobFail, Job, IInv, JobInv
    <3>6. CASE JobDelete
      BY <3>1, <3>6 DEF JobDelete, NoJob, Job, IInv, JobInv
    <3> QED BY <1>14, <3>2, <3>3, <3>4, <3>5, <3>6
  <2>3. VersionInv' /\ SkipInv' /\ StepInv'
    BY <2>1 DEF kube, IInv, VersionInv, SkipInv, StepInv
  <2>4. RealInv'
    BY <2>1 DEF kube, IInv, RealInv, Real
  <2> QED BY <1>T, <2>2, <2>3, <2>4 DEF IInv
<1> QED
  BY <1>1, <1>2, <1>3, <1>4, <1>5, <1>6, <1>7, <1>8, <1>9, <1>10, <1>11, <1>12,
     <1>13, <1>14 DEF Next, Controller, Environment

\* IInv is an invariant.
THEOREM Invariance == Spec => []IInv
BY InitIInv, NextIInv, PTL DEF Spec

\* However far the cache lags and wherever the operator crashes, a reconcile
\* works on a copy that misses at most one of the controller's status writes.
THEOREM MissesAtMostOne == Spec => []MissesAtMostOneWrite
<1>1. IInv => MissesAtMostOneWrite
  BY DEF IInv, VersionInv, MissesAtMostOneWrite
<1> QED BY Invariance, <1>1, PTL

\* StorageInitialized is reported True only when the blobstorage is initialized
\* or the user asked to skip it, whatever Jobs fail, are deleted and run again,
\* and however stale the copies are that the controller works on.
THEOREM InitializedReal == Spec => []InitializedIsReal
<1>1. IInv => InitializedIsReal
  BY DEF IInv, RealInv, Real, Claims, InitializedIsReal, CondTrue
<1> QED BY Invariance, <1>1, PTL

-----------------------------------------------------------------------------
(***************************************************************************)
(* The lifecycle, and what a controller that has nothing to do has done.   *)
(*                                                                         *)
(* Both rest on what the status on the API server, the copies and the step *)
(* of the reconcile have to do with each other.                            *)
(***************************************************************************)

\* The copies of the object: on the API server, in the cache, in the reconcile.
Copies == {obj, cache} \cup {o \in {rec.cr} : rec.pc # "idle"}

\* The conditions that a status reports agree with its state.
Sound(st) ==
  /\ IsStatusConditionTrue(st.conds, "Ready") => st.state = "Ready"
  /\ IsStatusConditionTrue(st.conds, "Paused") => st.state = "Paused"
  /\ IsStatusConditionTrue(st.conds, "Initialized") => st.state \notin {"Pending", "Preparing"}
  /\ IsStatusConditionTrue(st.conds, "Provisioned")
       => st.state \in {"Provisioning", "Ready", "Paused"}

SoundInv == \A o \in Copies : Sound(o.st) /\ o.st.cfgGen <= o.gen

\* A copy with the latest generation has the latest spec.
SpecInv ==
  \A o \in Copies : /\ o.gen <= obj.gen
                    /\ o.gen = obj.gen => o.pause = obj.pause /\ o.sync = obj.sync

\* What the steps of a reconcile have checked and done.
InitSteps == {"setInitPipelineStatus", "initializeBlobstorage"}
PauseSteps == {"handlePauseResume", "runSelfCheck"}
ScaleSteps == {"waitForStatefulSetToScale"} \cup PauseSteps

PathInv ==
  LET st == rec.cr.st
  IN  /\ rec.pc \in InitSteps \cup {"setConfigPipelineStatus"} \cup ScaleSteps
           => st.state # "Pending" /\ sts.replicas = Replicas(rec.cr)
      /\ rec.pc \in InitSteps => /\ IsStatusConditionTrue(st.conds, "Prepared")
                                 /\ ~IsStatusConditionTrue(st.conds, "Initialized")
      /\ rec.pc = "initializeBlobstorage" => st.state # "Preparing"
      /\ rec.pc \in ScaleSteps => st.cfgGen = rec.cr.gen
      /\ rec.pc \in PauseSteps => IsStatusConditionTrue(st.conds, "Provisioned")
      /\ rec.pc = "runSelfCheck" => /\ st.state = Goal(rec.cr.pause)
                                    /\ IsStatusConditionTrue(st.conds, Goal(rec.cr.pause))

\* A status new follows a status old in the lifecycle.
Follows(old, new) ==
  /\ IsStatusConditionTrue(old.conds, "Initialized")
       => IsStatusConditionTrue(new.conds, "Initialized")
  /\ \/ new.state = old.state
     \/ old.state = "Pending" /\ new.state = "Preparing"
     \/ /\ old.state = "Preparing" /\ IsStatusConditionTrue(old.conds, "Prepared")
        /\ new.state = "Initializing"
     \/ /\ old.state = "Initializing" /\ IsStatusConditionTrue(old.conds, "Initialized")
        /\ new.state = "Provisioning"
     \/ /\ old.state = "Provisioning" /\ IsStatusConditionTrue(old.conds, "Provisioned")
        /\ new.state \in {"Ready", "Paused"}
     \/ /\ old.state \in {"Ready", "Paused"} /\ IsStatusConditionTrue(old.conds, "Provisioned")
        /\ new.state \in {"Ready", "Paused"} \ {old.state}

\* A copy that misses no write has the status of the API server, until the
\* reconcile has one to write; this one follows.
LastInv ==
  /\ missed.cache = 0 => cache.st = obj.st
  /\ missed.cr = 0 /\ rec.pc \notin {"idle", "updateStatus"} => rec.cr.st = obj.st
  /\ missed.cr = 0 /\ rec.pc = "updateStatus" => Follows(obj.st, rec.cr.st)

\* Unless another request waits, a reconcile works on the generation that the
\* cache holds; and when that is the latest there is nothing left to do after it.
WakeInv ==
  ~queued => /\ rec.pc # "idle" => rec.cr.gen = cache.gen
             /\ rec.pc = "idle" /\ cache.gen = obj.gen => ~obj.sync \/ Settled \/ Behind

StatusInv == IInv /\ SoundInv /\ SpecInv /\ PathInv /\ LastInv /\ WakeInv

\* b is the status a with another state and one condition set.
Changed(a, b, state, type, status) ==
  /\ b \in Status
  /\ b.state = state
  /\ b.cfgGen = a.cfgGen
  /\ b.conds[type] = status
  /\ \A c \in CondType \ {type} : b.conds[c] = a.conds[c]

LEMMA CondChanges ==
  ASSUME NEW a \in Status, NEW type \in CondType, NEW status \in CondStatus
  PROVE  Changed(a, WithCond(a, type, status), a.state, type, status)
BY DEF Changed, WithCond, SetStatusCondition, Status

LEMMA StateChanges ==
  ASSUME NEW a \in Status, NEW state \in ClusterState,
         NEW type \in CondType, NEW status \in CondStatus
  PROVE  Changed(a, WithStateAndCond(a, state, type, status), state, type, status)
BY DEF Changed, WithStateAndCond, WithCond, SetStatusCondition, Status

\* A status that a step writes agrees with itself and follows the one before.
Good(a, b) == b \in Status /\ Sound(b) /\ Follows(a, b)

\* A condition is not True any more, or not a claim.
LEMMA HarmlessCond ==
  ASSUME NEW a \in Status, Sound(a), NEW b, NEW type \in CondType, NEW status \in CondStatus,
         Changed(a, b, a.state, type, status),
         \/ type = "Prepared"
         \/ status # "True" /\ type # "Initialized"
         \/ status # "True" /\ ~IsStatusConditionTrue(a.conds, "Initialized")
  PROVE  Good(a, b)
BY DEF Changed, Good, Sound, Follows, IsStatusConditionTrue, CondType, Stage

\* Initialization is reported when the state allows it.
LEMMA InitializedCond ==
  ASSUME NEW a \in Status, Sound(a), NEW b, Changed(a, b, a.state, "Initialized", "True"),
         a.state \notin {"Pending", "Preparing"}
  PROVE  Good(a, b)
BY DEF Changed, Good, Sound, Follows, IsStatusConditionTrue, CondType, Stage

\* And so is the scale.
LEMMA ProvisionedCond ==
  ASSUME NEW a \in Status, Sound(a), NEW b, Changed(a, b, a.state, "Provisioned", "True"),
         a.state \in {"Provisioning", "Ready", "Paused"}
  PROVE  Good(a, b)
BY DEF Changed, Good, Sound, Follows, IsStatusConditionTrue, CondType, Stage

\* The three steps from one stage to the next.
LEMMA PreparingState ==
  ASSUME NEW a \in Status, Sound(a), NEW b, Changed(a, b, "Preparing", "Prepared", "Unknown"),
         a.state = "Pending"
  PROVE  Good(a, b)
BY DEF Changed, Good, Sound, Follows, IsStatusConditionTrue, CondType, Stage

LEMMA InitializingState ==
  ASSUME NEW a \in Status, Sound(a), NEW b,
         Changed(a, b, "Initializing", "Initialized", "Unknown"),
         a.state = "Preparing", IsStatusConditionTrue(a.conds, "Prepared"),
         ~IsStatusConditionTrue(a.conds, "Initialized")
  PROVE  Good(a, b)
BY DEF Changed, Good, Sound, Follows, IsStatusConditionTrue, CondType, Stage

LEMMA ProvisioningState ==
  ASSUME NEW a \in Status, Sound(a), NEW b,
         Changed(a, b, "Provisioning", "Provisioned", "Unknown"),
         a.state = "Initializing", IsStatusConditionTrue(a.conds, "Initialized")
  PROVE  Good(a, b)
BY DEF Changed, Good, Sound, Follows, IsStatusConditionTrue, CondType, Stage

\* handlePauseResume, on a status whose stages are done.
LEMMA PauseResumeGood ==
  ASSUME NEW a \in Status, Sound(a), NEW pause \in BOOLEAN,
         IsStatusConditionTrue(a.conds, "Provisioned"),
         IsStatusConditionTrue(a.conds, "Initialized")
  PROVE  /\ Good(a, PauseResume(a, pause))
         /\ PauseResume(a, pause).cfgGen = a.cfgGen
         /\ PauseResume(a, pause) = a => /\ a.state = Goal(pause)
                                         /\ IsStatusConditionTrue(a.conds, Goal(pause))
<1> DEFINE goal == Goal(pause)
           b == PauseResume(a, pause)
<1>1. /\ goal \in CondType /\ goal \in ClusterState /\ goal \in {"Ready", "Paused"}
      /\ "True" \in CondStatus /\ "False" \in CondStatus
      /\ "Ready" \in CondType /\ "Ready" \in ClusterState
      /\ "Paused" \in CondType /\ "Paused" \in ClusterState
  BY GoalFacts DEF CondStatus, CondType, ClusterState
<1>2. a.state \in {"Provisioning", "Ready", "Paused"}
  BY DEF Sound
<1>3. CASE a.state = "Provisioning"
  <2>1. b = WithStateAndCond(a, goal, goal, "True")
    BY <1>3 DEF PauseResume
  <2>2. Changed(a, b, goal, goal, "True")
    BY <1>1, <2>1, StateChanges
  <2> HIDE DEF b, goal
  <2>3. Good(a, b) /\ b.cfgGen = a.cfgGen /\ b # a
    BY <1>1, <1>3, <2>2 DEF Changed, Good, Sound, Follows, IsStatusConditionTrue, CondType, Stage
  <2> QED BY <2>3 DEF b
<1>4. CASE a.state = "Ready" /\ pause
  <2>1. b = WithStateAndCond(a, "Paused", "Ready", "False")
    BY <1>4 DEF PauseResume
  <2>2. Changed(a, b, "Paused", "Ready", "False")
    BY <1>1, <2>1, StateChanges
  <2> HIDE DEF b
  <2>3. Good(a, b) /\ b.cfgGen = a.cfgGen /\ b # a
    BY <1>4, <2>2 DEF Changed, Good, Sound, Follows, IsStatusConditionTrue, CondType, Stage
  <2> QED BY <2>3 DEF b
<1>5. CASE a.state = "Paused" /\ ~pause
  <2>1. b = WithStateAndCond(a, "Ready", "Paused", "False")
    BY <1>5 DEF PauseResume
  <2>2. Changed(a, b, "Ready", "Paused", "False")
    BY <1>1, <2>1, StateChanges
  <2> HIDE DEF b
  <2>3. Good(a, b) /\ b.cfgGen = a.cfgGen /\ b # a
    BY <1>5, <2>2 DEF Changed, Good, Sound, Follows, IsStatusConditionTrue, CondType, Stage
  <2> QED BY <2>3 DEF b
<1>6. CASE /\ a.state # "Provisioning"
           /\ ~(a.state = "Ready" /\ pause)
           /\ ~(a.state = "Paused" /\ ~pause)
  <2>1. b = WithCond(a, goal, "True")
    BY <1>6 DEF PauseResume
  <2>2. Changed(a, b, a.state, goal, "True")
    BY <1>1, <2>1, CondChanges
  <2>3. a.state = goal
    BY <1>2, <1>6 DEF Goal
  <2> HIDE DEF b, goal
  <2>4. Good(a, b) /\ b.cfgGen = a.cfgGen /\ b.conds[goal] = "True"
    BY <1>1, <2>2, <2>3
    DEF Changed, Good, Sound, Follows, IsStatusConditionTrue, CondType, Stage
  <2> QED BY <2>3, <2>4 DEF b, goal, IsStatusConditionTrue
<1> QED BY <1>2, <1>3, <1>4, <1>5, <1>6

\* The head of updateStatus: what is written instead is as good.
LEMMA DegradeGood ==
  ASSUME NEW a \in Status, Sound(a), NEW pause \in BOOLEAN
  PROVE  LET b == Degrade(a, Stage, pause)
         IN  /\ Good(a, b)
             /\ b.cfgGen = a.cfgGen /\ b.state = a.state
             /\ b.conds["Initialized"] = a.conds["Initialized"]
<1>1. Good(a, a)
  BY DEF Good, Follows
<1> DEFINE b == WithCond(a, Goal(pause), "False")
<1>2. /\ Goal(pause) \in CondType /\ Goal(pause) # "Initialized" /\ "False" \in CondStatus
      /\ "Initialized" \in CondType
  BY GoalFacts DEF CondStatus, CondType, Stage
<1>3. Changed(a, b, a.state, Goal(pause), "False")
  BY <1>2, CondChanges
<1> HIDE DEF b
<1>4. Good(a, b)
  BY <1>2, <1>3, HarmlessCond
<1>5. /\ b.cfgGen = a.cfgGen /\ b.state = a.state
      /\ b.conds["Initialized"] = a.conds["Initialized"]
  BY <1>2, <1>3 DEF Changed
<1>6. Degrade(a, Stage, pause) \in {a, b}
  BY DEF Degrade, b
<1> QED BY <1>1, <1>4, <1>5, <1>6

LEMMA FollowsDegraded ==
  ASSUME NEW a \in Status, NEW b \in Status, NEW c, Follows(a, b),
         c.state = b.state, c.conds["Initialized"] = b.conds["Initialized"]
  PROVE  Follows(a, c)
BY DEF Follows, IsStatusConditionTrue

\* The parts of StatusInv that are not IInv.
RestInv == SoundInv /\ SpecInv /\ PathInv /\ LastInv /\ WakeInv

\* The types that the steps need.
LEMMA TypeFacts ==
  ASSUME IInv
  PROVE  /\ obj \in Storage /\ cache \in Storage /\ rec \in Rec /\ rec.cr \in Storage
         /\ obj.st \in Status /\ cache.st \in Status /\ rec.cr.st \in Status
         /\ obj.gen \in Nat /\ cache.gen \in Nat /\ rec.cr.gen \in Nat
         /\ rec.cr.st.cfgGen \in Nat /\ rec.cr.gen \in 1..MaxGen
         /\ rec.cr.pause \in BOOLEAN /\ queued \in BOOLEAN
         /\ missed \in [cache : Nat, cr : Nat] /\ missed.cr \in Nat
BY StorageAssumption DEF IInv, TypeOK, Rec, Storage, Status

\* A step that decides for a status.
LEMMA StatusWrite ==
  ASSUME StatusInv, UNCHANGED kube, rec.pc \notin {"idle", "updateStatus"},
         NEW st, Good(rec.cr.st, st), st.cfgGen <= rec.cr.gen, WriteStatus(st),
         queued => queued'
  PROVE  RestInv'
<1>i. IInv /\ SoundInv /\ SpecInv /\ LastInv /\ WakeInv
  BY DEF StatusInv
<1>u. UNCHANGED <<obj, cache, missed>>
  BY DEF kube
<1>1. /\ rec'.pc = "updateStatus" /\ rec'.cr.st = st /\ rec'.cr.gen = rec.cr.gen
      /\ rec'.cr.pause = rec.cr.pause /\ rec'.cr.sync = rec.cr.sync
  BY <1>i, TypeFacts DEF WriteStatus, Rec, Storage, Good
<1>2. Copies = {obj, cache, rec.cr} /\ Copies' = {obj, cache, rec'.cr}
  BY <1>u, <1>1 DEF Copies
<1>3. SoundInv'
  BY <1>i, <1>1, <1>2 DEF SoundInv, Good
<1>4. SpecInv'
  BY <1>i, <1>u, <1>1, <1>2 DEF SpecInv
<1>5. PathInv'
  BY <1>1 DEF PathInv, InitSteps, ScaleSteps, PauseSteps
<1>6. LastInv'
  BY <1>i, <1>u, <1>1 DEF LastInv, Good
<1>7. WakeInv'
  BY <1>i, <1>u, <1>1 DEF WakeInv
<1> QED BY <1>3, <1>4, <1>5, <1>6, <1>7 DEF RestInv

\* A step that goes on with another one.
LEMMA StatusGoto ==
  ASSUME StatusInv, UNCHANGED kube, rec.pc \notin {"idle", "updateStatus"},
         NEW step \in Step \ {"idle", "updateStatus"}, Goto(step), PathInv',
         queued => queued'
  PROVE  RestInv'
<1>i. IInv /\ SoundInv /\ SpecInv /\ LastInv /\ WakeInv
  BY DEF StatusInv
<1>u. UNCHANGED <<obj, cache, missed>>
  BY DEF kube
<1>1. rec'.pc = step /\ rec'.cr = rec.cr
  BY <1>i, TypeFacts, GotoFacts
<1>2. Copies' = Copies
  BY <1>u, <1>1 DEF Copies
<1>3. SoundInv' /\ SpecInv'
  BY <1>i, <1>u, <1>2 DEF SoundInv, SpecInv
<1>4. LastInv' /\ WakeInv'
  BY <1>i, <1>u, <1>1 DEF LastInv, WakeInv
<1> QED BY <1>3, <1>4 DEF RestInv

\* A step that ends the reconcile and asks for another one, or has nothing left
\* to do if its copy has the latest generation and misses no write.
LEMMA StatusReturn ==
  ASSUME StatusInv, UNCHANGED kube, NEW requeue \in BOOLEAN, Return(requeue),
         \/ requeue
         \/ /\ rec.pc # "idle"
            /\ rec.cr.gen = obj.gen /\ ~Behind => ~obj.sync \/ Settled'
  PROVE  RestInv'
<1>i. IInv /\ SoundInv /\ SpecInv /\ LastInv /\ WakeInv
  BY DEF StatusInv
<1>u. UNCHANGED <<obj, cache, missed>>
  BY DEF kube
<1>t. queued \in BOOLEAN /\ missed.cr \in Nat
  BY <1>i, TypeFacts
<1>1. rec'.pc = "idle" /\ queued' = (queued \/ requeue)
  BY <1>t, ReturnFacts DEF Return
<1>2. Copies' \subseteq Copies
  BY <1>u, <1>1 DEF Copies
<1>3. SoundInv' /\ SpecInv'
  BY <1>i, <1>u, <1>2 DEF SoundInv, SpecInv
<1>4. LastInv' /\ PathInv'
  BY <1>i, <1>u, <1>1 DEF LastInv, PathInv, InitSteps, ScaleSteps, PauseSteps
<1>5. WakeInv'
  <2>1. CASE requeue
    BY <1>1, <2>1 DEF WakeInv
  <2>2. CASE /\ ~requeue /\ rec.pc # "idle"
             /\ rec.cr.gen = obj.gen /\ ~Behind => ~obj.sync \/ Settled'
    BY <1>i, <1>u, <1>1, <2>2 DEF WakeInv, Behind
  <2> QED BY <2>1, <2>2
<1> QED BY <1>3, <1>4, <1>5 DEF RestInv

\* A step of the cluster that leaves the objects, the reconcile and the spec of
\* the StatefulSet alone.
LEMMA StatusElsewhere ==
  ASSUME StatusInv, UNCHANGED kube, UNCHANGED rec, queued => queued',
         sts'.replicas = sts.replicas
  PROVE  RestInv'
<1>i. IInv /\ SoundInv /\ SpecInv /\ PathInv /\ LastInv /\ WakeInv
  BY DEF StatusInv
<1>u. UNCHANGED <<obj, cache, missed>>
  BY DEF kube
<1>2. Copies' = Copies
  BY <1>u DEF Copies
<1>3. SoundInv' /\ SpecInv'
  BY <1>i, <1>u, <1>2 DEF SoundInv, SpecInv
<1>4. LastInv'
  BY <1>i, <1>u DEF LastInv
<1>5. PathInv'
  BY <1>i DEF PathInv, Replicas
<1>6. WakeInv'
  BY <1>i, <1>u DEF WakeInv, Settled, Behind, CondTrue, Replicas
<1> QED BY <1>3, <1>4, <1>5, <1>6 DEF RestInv

\* A worker takes the request.
LEMMA StatusReconcile ==
  ASSUME StatusInv, Reconcile
  PROVE  RestInv'
<1>i. IInv /\ SoundInv /\ SpecInv /\ PathInv /\ LastInv /\ WakeInv /\ VersionInv
  BY DEF StatusInv, IInv
<1>t. /\ obj \in Storage /\ obj.st \in Status /\ missed \in [cache : Nat, cr : Nat]
  BY <1>i, TypeFacts
<1>u. UNCHANGED <<cache, sts>>
  BY DEF Reconcile, env
<1>1. CASE /\ rec' = [pc |-> "setInitialStatus", cr |-> cache]
           /\ missed' = [missed EXCEPT !.cr = missed.cache]
           /\ UNCHANGED <<obj, fresh>>
  <2>1. Copies' \subseteq Copies
    BY <1>u, <1>1 DEF Copies
  <2>2. SoundInv' /\ SpecInv'
    BY <1>i, <1>1, <2>1 DEF SoundInv, SpecInv
  <2>3. PathInv'
    BY <1>1 DEF PathInv, InitSteps, ScaleSteps, PauseSteps
  <2>4. LastInv' /\ WakeInv'
    BY <1>i, <1>t, <1>u, <1>1 DEF LastInv, WakeInv
  <2> QED BY <2>2, <2>3, <2>4 DEF RestInv
<1>2. CASE /\ fresh
           /\ obj' = [obj EXCEPT !.finalizer = TRUE]
           /\ rec' = [pc |-> "setInitialStatus", cr |-> obj']
           /\ missed' = [missed EXCEPT !.cr = 0]
  <2>1. /\ obj'.st = obj.st /\ obj'.gen = obj.gen
        /\ obj'.pause = obj.pause /\ obj'.sync = obj.sync
    BY <1>t, <1>2 DEF Storage
  <2>2. Copies' = {obj', cache} /\ obj \in Copies /\ cache \in Copies
    BY <1>u, <1>2 DEF Copies
  <2>3. SoundInv'
    BY <1>i, <2>1, <2>2 DEF SoundInv
  <2>4. SpecInv'
    BY <1>i, <2>1, <2>2 DEF SpecInv
  <2>5. PathInv'
    BY <1>2 DEF PathInv, InitSteps, ScaleSteps, PauseSteps
  <2>6. LastInv' /\ WakeInv'
    BY <1>i, <1>t, <1>u, <1>2, <2>1 DEF LastInv, WakeInv, VersionInv
  <2> QED BY <2>3, <2>4, <2>5, <2>6 DEF RestInv
<1>3. CASE UNCHANGED <<obj, fresh, rec, queued, missed>>
  BY <1>3, <1>u, StatusElsewhere DEF kube
<1> QED BY <1>1, <1>2, <1>3 DEF Reconcile

\* The status is written, or the write refused.
LEMMA StatusUpdate ==
  ASSUME StatusInv, UpdateStatus
  PROVE  RestInv'
<1>i. IInv /\ SoundInv /\ SpecInv /\ LastInv /\ VersionInv
  BY DEF StatusInv, IInv
<1>t. /\ obj \in Storage /\ rec.cr.st \in Status /\ rec.cr.pause \in BOOLEAN
      /\ rec.cr.gen \in Nat /\ obj.gen \in Nat /\ queued \in BOOLEAN
      /\ rec.cr.st.cfgGen \in Nat
      /\ missed \in [cache : Nat, cr : Nat]
  BY <1>i, TypeFacts
<1>u. UNCHANGED cache /\ Return(TRUE) /\ rec.pc = "updateStatus"
  BY DEF UpdateStatus
<1>1. CASE UNCHANGED <<obj, fresh, missed>>
  BY <1>1, <1>u, StatusReturn DEF kube
<1>2. CASE /\ obj' = [obj EXCEPT !.st = Degrade(rec.cr.st, Stage, rec.cr.pause)]
           /\ missed' = [missed EXCEPT !.cache = @ + 1]
  <2> DEFINE st == Degrade(rec.cr.st, Stage, rec.cr.pause)
  <2>1. obj \in Copies /\ cache \in Copies /\ rec.cr \in Copies
    BY <1>u DEF Copies
  <2>2. Good(rec.cr.st, st) /\ st.cfgGen = rec.cr.st.cfgGen
    BY <1>i, <1>t, <2>1, DegradeGood DEF SoundInv
  <2>3. obj' = [obj EXCEPT !.st = st]
    BY <1>2
  <2> HIDE DEF st
  <2>4. /\ obj'.st = st /\ obj'.gen = obj.gen
        /\ obj'.pause = obj.pause /\ obj'.sync = obj.sync
    BY <1>t, <2>2, <2>3 DEF Storage, Good
  <2>5. rec'.pc = "idle" /\ queued'
    BY <1>t, <1>u, ReturnFacts DEF Return
  <2>6. Copies' = {obj', cache}
    BY <1>u, <2>5 DEF Copies
  <2>7. SoundInv'
    <3>1. st.cfgGen <= obj.gen
      BY <1>i, <1>t, <2>1, <2>2 DEF SoundInv, SpecInv
    <3> QED BY <1>i, <2>1, <2>2, <2>4, <2>6, <3>1 DEF SoundInv, Good
  <2>8. SpecInv'
    BY <1>i, <1>t, <2>1, <2>4, <2>6 DEF SpecInv
  <2>9. PathInv' /\ WakeInv'
    BY <2>5 DEF PathInv, WakeInv, InitSteps, ScaleSteps, PauseSteps
  <2>10. LastInv'
    BY <1>t, <1>2, <2>5 DEF LastInv
  <2> QED BY <2>7, <2>8, <2>9, <2>10 DEF RestInv
<1> QED BY <1>1, <1>2 DEF UpdateStatus

\* The cache catches up, or is filled by the restarted operator.
LEMMA StatusCache ==
  ASSUME StatusInv, CacheSync \/ Crash
  PROVE  RestInv'
<1>i. IInv /\ SoundInv /\ SpecInv /\ PathInv /\ LastInv /\ WakeInv
  BY DEF StatusInv
<1>t. missed \in [cache : Nat, cr : Nat] /\ queued \in BOOLEAN
  BY <1>i, TypeFacts
<1>1. /\ cache' = obj /\ UNCHANGED <<obj, sts>>
      /\ missed' = [missed EXCEPT !.cache = 0]
      /\ \/ UNCHANGED rec /\ queued' = (queued \/ SpecChanged)
         \/ rec' = Idle /\ queued'
  BY DEF CacheSync, Crash, env
<1>2. Copies' \subseteq Copies
  BY <1>1, IdleFacts DEF Copies
<1>3. SoundInv' /\ SpecInv'
  BY <1>i, <1>1, <1>2 DEF SoundInv, SpecInv
<1>4. PathInv'
  BY <1>i, <1>1, IdleFacts DEF PathInv, InitSteps, ScaleSteps, PauseSteps, Replicas
<1>5. LastInv'
  BY <1>i, <1>t, <1>1, IdleFacts DEF LastInv
<1>6. WakeInv'
  BY <1>i, <1>t, <1>1 DEF WakeInv, SpecChanged, Settled, Behind, CondTrue, Replicas
<1> QED BY <1>3, <1>4, <1>5, <1>6 DEF RestInv

\* The user edits the spec: its event is still to come.
LEMMA StatusEdit ==
  ASSUME StatusInv, UserUpdate
  PROVE  RestInv'
<1>i. IInv /\ SoundInv /\ SpecInv /\ PathInv /\ LastInv /\ WakeInv
  BY DEF StatusInv
<1>t. obj \in Storage /\ obj.gen \in Nat /\ cache.gen \in Nat
  BY <1>i, TypeFacts
<1>c. \A o \in Copies : o.gen \in Nat
  BY <1>i, TypeFacts DEF Copies
<1>1. /\ obj'.st = obj.st /\ obj'.gen = obj.gen + 1
      /\ UNCHANGED <<cache, queued, rec, sts, missed>>
  BY <1>t DEF UserUpdate, env, Storage
<1>2. Copies' \subseteq Copies \cup {obj'} /\ obj \in Copies /\ cache \in Copies
  BY <1>1 DEF Copies
<1>3. SoundInv'
  <2>1. obj.st.cfgGen <= obj.gen /\ obj.st.cfgGen \in Nat
    BY <1>i, <1>2, TypeFacts, StorageAssumption DEF SoundInv, Status
  <2>2. Sound(obj'.st) /\ obj'.st.cfgGen <= obj'.gen
    BY <1>i, <1>t, <1>1, <1>2, <2>1 DEF SoundInv
  <2> QED BY <1>i, <1>2, <2>2 DEF SoundInv
<1>4. SpecInv'
  <2>1. obj'.gen <= obj'.gen
    BY <1>t, <1>1
  <2>2. \A o \in Copies : o.gen <= obj'.gen /\ o.gen # obj'.gen
    BY <1>i, <1>t, <1>c, <1>1 DEF SpecInv
  <2> QED BY <1>2, <2>1, <2>2 DEF SpecInv
<1>5. PathInv' /\ LastInv'
  BY <1>i, <1>1 DEF PathInv, LastInv, Replicas
<1>6. WakeInv'
  <2>1. cache.gen # obj'.gen
    BY <1>i, <1>t, <1>1, <1>2 DEF SpecInv
  <2> QED BY <1>i, <1>1, <2>1 DEF WakeInv
<1> QED BY <1>3, <1>4, <1>5, <1>6 DEF RestInv

\* The invariant holds in every initial state.
LEMMA InitStatusInv == Init => StatusInv
<1> SUFFICES ASSUME Init PROVE StatusInv
  OBVIOUS
<1>1. IInv
  BY InitIInv
<1>2. rec.pc = "idle" /\ cache = obj /\ queued /\ Copies = {obj}
  BY IdleFacts DEF Init, Copies
<1>3. \A c \in CondType : obj.st.conds[c] = "Absent"
  BY NewStorageFacts DEF Init
<1>4. obj.st.cfgGen = 0 /\ obj.gen = 1
  BY DEF Init, NewStorage
<1>5. SoundInv
  BY <1>2, <1>3, <1>4 DEF SoundInv, Sound, IsStatusConditionTrue, CondType, Stage
<1>6. SpecInv /\ LastInv /\ WakeInv
  BY <1>2, <1>4 DEF SpecInv, LastInv, WakeInv
<1>7. PathInv
  BY <1>2 DEF PathInv, InitSteps, ScaleSteps, PauseSteps
<1> QED BY <1>1, <1>5, <1>6, <1>7 DEF StatusInv

\* Every step keeps the invariant.
LEMMA NextStatusInv == StatusInv /\ [Next]_vars => StatusInv'
<1> SUFFICES ASSUME StatusInv, [Next]_vars PROVE StatusInv'
  OBVIOUS
<1>i. IInv /\ SoundInv /\ SpecInv /\ PathInv /\ LastInv /\ StepInv
  BY DEF StatusInv, IInv
<1>T. IInv'
  BY <1>i, NextIInv
<1> SUFFICES RestInv'
  BY <1>T DEF RestInv, StatusInv
<1>t. /\ rec \in Rec /\ rec.cr \in Storage /\ rec.cr.st \in Status
      /\ rec.cr.pause \in BOOLEAN /\ queued \in BOOLEAN
      /\ rec.cr.gen \in Nat /\ rec.cr.st.cfgGen \in Nat /\ rec.cr.gen \in 1..MaxGen
  BY <1>i, TypeFacts
<1>s. "Unknown" \in CondStatus /\ "True" \in CondStatus /\ "False" \in CondStatus
  BY DEF CondStatus
<1>c. "Prepared" \in CondType /\ "Initialized" \in CondType /\ "Provisioned" \in CondType
  BY DEF CondType, Stage
<1>st. /\ "Preparing" \in ClusterState /\ "Initializing" \in ClusterState
       /\ "Provisioning" \in ClusterState
  BY DEF ClusterState
<1>r. rec.pc # "idle" => Sound(rec.cr.st) /\ rec.cr.st.cfgGen <= rec.cr.gen
  BY <1>i DEF SoundInv, Copies
<1>w. ASSUME NEW st, NEW state, NEW type, NEW status, Changed(rec.cr.st, st, state, type, status),
             Good(rec.cr.st, st), WriteStatus(st), UNCHANGED kube, queued => queued',
             rec.pc \notin {"idle", "updateStatus"}
      PROVE  RestInv'
  <2>1. st.cfgGen <= rec.cr.gen
    BY <1>w, <1>r DEF Changed
  <2> QED BY <1>w, <2>1, StatusWrite
<1>1. CASE Reconcile
  BY <1>1, StatusReconcile
<1>2. CASE SetInitialStatus
  <2>u. UNCHANGED kube /\ UNCHANGED queued /\ rec.pc = "setInitialStatus"
    BY <1>2 DEF SetInitialStatus
  <2>1. CASE WriteStatus(InitialStatus(rec.cr.st, rec.cr.pause))
    <3> DEFINE st == WithCond(rec.cr.st, Goal(rec.cr.pause), "Unknown")
    <3>1. Goal(rec.cr.pause) \in CondType /\ Goal(rec.cr.pause) # "Initialized"
      BY <1>t, GoalFacts
    <3>2. Changed(rec.cr.st, st, rec.cr.st.state, Goal(rec.cr.pause), "Unknown")
      BY <1>t, <1>s, <3>1, CondChanges
    <3>3. WriteStatus(st)
      BY <2>1 DEF InitialStatus
    <3> HIDE DEF st
    <3>4. Good(rec.cr.st, st)
      BY <1>t, <1>s, <1>r, <2>u, <3>1, <3>2, HarmlessCond
    <3> QED BY <1>w, <2>u, <3>2, <3>3, <3>4
  <2>2. CASE Goto("handleResourcesSync")
    <3>1. rec'.pc = "handleResourcesSync"
      BY <1>t, <2>2, GotoFacts DEF Step
    <3>2. PathInv'
      BY <3>1 DEF PathInv, InitSteps, ScaleSteps, PauseSteps
    <3> QED BY <2>2, <2>u, <3>2, StatusGoto DEF Step
  <2> QED BY <1>2, <2>1, <2>2 DEF SetInitialStatus
<1>3. CASE HandleResourcesSync
  <2>u. UNCHANGED kube /\ rec.pc = "handleResourcesSync"
    BY <1>3 DEF HandleResourcesSync
  <2>q. SyncStatefulSet(rec.cr) \/ UNCHANGED queued => (queued => queued')
    BY <1>t DEF SyncStatefulSet
  <2>1. CASE /\ rec.cr.st.state = "Pending"
             /\ WriteStatus(WithStateAndCond(rec.cr.st, "Preparing", "Prepared", "Unknown"))
             /\ UNCHANGED queued
    <3> DEFINE st == WithStateAndCond(rec.cr.st, "Preparing", "Prepared", "Unknown")
    <3>1. Changed(rec.cr.st, st, "Preparing", "Prepared", "Unknown")
      BY <1>t, <1>s, <1>c, <1>st, StateChanges
    <3>2. WriteStatus(st)
      BY <2>1
    <3> HIDE DEF st
    <3>3. Good(rec.cr.st, st)
      BY <1>t, <1>r, <2>u, <2>1, <3>1, PreparingState
    <3> QED BY <1>w, <2>u, <2>1, <3>1, <3>2, <3>3
  <2>2. CASE ~rec.cr.sync /\ Return(FALSE)
    <3>1. rec.cr.gen = obj.gen => ~obj.sync
      BY <1>i, <2>u, <2>2 DEF SpecInv, Copies
    <3> QED BY <2>u, <2>2, <3>1, StatusReturn
  <2>3. ASSUME NEW status \in CondStatus, queued => queued',
               WriteStatus(WithCond(rec.cr.st, "Prepared", status))
        PROVE  RestInv'
    <3> DEFINE st == WithCond(rec.cr.st, "Prepared", status)
    <3>1. Changed(rec.cr.st, st, rec.cr.st.state, "Prepared", status)
      BY <1>t, <1>c, CondChanges
    <3>2. WriteStatus(st)
      BY <2>3
    <3> HIDE DEF st
    <3>3. Good(rec.cr.st, st)
      BY <1>t, <1>c, <1>r, <2>u, <3>1, HarmlessCond
    <3> QED BY <1>w, <2>u, <2>3, <3>1, <3>2, <3>3
  <2>4. CASE /\ rec.cr.st.state # "Pending"
             /\ SyncStatefulSet(rec.cr)
             /\ IsStatusConditionTrue(rec.cr.st.conds, "Prepared")
             /\ Goto(AfterResources(rec.cr))
    <3>1. AfterResources(rec.cr) \in Step \ {"idle", "updateStatus"}
      BY DEF AfterResources, Step
    <3>2. rec'.pc = AfterResources(rec.cr) /\ rec'.cr = rec.cr
      BY <1>t, <2>4, <3>1, GotoFacts
    <3>3. sts'.replicas = Replicas(rec.cr)
      BY <1>i, <2>4 DEF SyncStatefulSet, IInv, TypeOK
    <3>4. rec'.pc = "waitForStatefulSetToScale" => rec.cr.st.cfgGen = rec.cr.gen
      BY <1>t, <1>r, <2>u, <3>2 DEF AfterResources
    <3>5. PathInv'
      BY <2>4, <3>2, <3>3, <3>4
      DEF PathInv, InitSteps, ScaleSteps, PauseSteps, AfterResources, Replicas
    <3> QED BY <2>u, <2>q, <2>4, <3>1, <3>5, StatusGoto
  <2>5. \/ /\ rec.cr.st.state = "Pending"
           /\ WriteStatus(WithStateAndCond(rec.cr.st, "Preparing", "Prepared", "Unknown"))
           /\ UNCHANGED queued
        \/ ~rec.cr.sync /\ Return(FALSE)
        \/ /\ SyncStatefulSet(rec.cr)
           /\ WriteStatus(WithCond(rec.cr.st, "Prepared", "True"))
        \/ /\ rec.cr.st.state # "Pending"
           /\ SyncStatefulSet(rec.cr)
           /\ IsStatusConditionTrue(rec.cr.st.conds, "Prepared")
           /\ Goto(AfterResources(rec.cr))
        \/ /\ SyncStatefulSet(rec.cr) \/ UNCHANGED queued
           /\ WriteStatus(WithCond(rec.cr.st, "Prepared", "False"))
    BY <1>3 DEF HandleResourcesSync
  <2> QED BY <1>s, <2>q, <2>1, <2>2, <2>3, <2>4, <2>5
<1>4. CASE SetInitPipelineStatus
  <2>u. UNCHANGED kube /\ UNCHANGED queued /\ rec.pc = "setInitPipelineStatus" /\ UNCHANGED sts
    BY <1>4 DEF SetInitPipelineStatus, env
  <2>p. /\ rec.cr.st.state # "Pending" /\ sts.replicas = Replicas(rec.cr)
        /\ IsStatusConditionTrue(rec.cr.st.conds, "Prepared")
        /\ ~IsStatusConditionTrue(rec.cr.st.conds, "Initialized")
    BY <1>i, <2>u DEF PathInv, InitSteps
  <2>1. CASE /\ rec.cr.st.state = "Preparing"
             /\ WriteStatus(WithStateAndCond(rec.cr.st, "Initializing", "Initialized", "Unknown"))
    <3> DEFINE st == WithStateAndCond(rec.cr.st, "Initializing", "Initialized", "Unknown")
    <3>1. Changed(rec.cr.st, st, "Initializing", "Initialized", "Unknown")
      BY <1>t, <1>s, <1>c, <1>st, StateChanges
    <3>2. WriteStatus(st)
      BY <2>1
    <3> HIDE DEF st
    <3>3. Good(rec.cr.st, st)
      BY <1>t, <1>r, <2>u, <2>p, <2>1, <3>1, InitializingState
    <3> QED BY <1>w, <2>u, <3>1, <3>2, <3>3
  <2>2. CASE /\ rec.cr.st.state # "Preparing"
             /\ WriteStatus(WithCond(rec.cr.st, "Initialized", "True"))
    <3> DEFINE st == WithCond(rec.cr.st, "Initialized", "True")
    <3>1. Changed(rec.cr.st, st, rec.cr.st.state, "Initialized", "True")
      BY <1>t, <1>s, <1>c, CondChanges
    <3>2. WriteStatus(st)
      BY <2>2
    <3> HIDE DEF st
    <3>3. Good(rec.cr.st, st)
      BY <1>t, <1>r, <2>u, <2>p, <2>2, <3>1, InitializedCond
    <3> QED BY <1>w, <2>u, <3>1, <3>2, <3>3
  <2>3. CASE rec.cr.st.state # "Preparing" /\ Goto("initializeBlobstorage")
    <3>1. rec'.pc = "initializeBlobstorage" /\ rec'.cr = rec.cr
      BY <1>t, <2>3, GotoFacts DEF Step
    <3>2. PathInv'
      BY <2>u, <2>p, <2>3, <3>1 DEF PathInv, InitSteps, ScaleSteps, PauseSteps, Replicas
    <3> QED BY <2>3, <2>u, <3>2, StatusGoto DEF Step
  <2> QED BY <1>4, <2>1, <2>2, <2>3 DEF SetInitPipelineStatus
<1>5. CASE InitializeBlobstorage
  <2>u. UNCHANGED kube /\ rec.pc = "initializeBlobstorage"
    BY <1>5 DEF InitializeBlobstorage
  <2>p. /\ rec.cr.st.state \notin {"Pending", "Preparing"}
        /\ ~IsStatusConditionTrue(rec.cr.st.conds, "Initialized")
    BY <1>i, <2>u DEF PathInv, InitSteps
  <2>1. CASE Return(TRUE)
    BY <2>1, <2>u, StatusReturn
  <2>2. CASE WriteStatus(WithCond(rec.cr.st, "Initialized", "True")) /\ UNCHANGED queued
    <3> DEFINE st == WithCond(rec.cr.st, "Initialized", "True")
    <3>1. Changed(rec.cr.st, st, rec.cr.st.state, "Initialized", "True")
      BY <1>t, <1>s, <1>c, CondChanges
    <3>2. WriteStatus(st)
      BY <2>2
    <3> HIDE DEF st
    <3>3. Good(rec.cr.st, st)
      BY <1>t, <1>r, <2>u, <2>p, <3>1, InitializedCond
    <3> QED BY <1>w, <2>u, <2>2, <3>1, <3>2, <3>3
  <2>3. CASE WriteStatus(WithCond(rec.cr.st, "Initialized", "False")) /\ UNCHANGED queued
    <3> DEFINE st == WithCond(rec.cr.st, "Initialized", "False")
    <3>1. Changed(rec.cr.st, st, rec.cr.st.state, "Initialized", "False")
      BY <1>t, <1>s, <1>c, CondChanges
    <3>2. WriteStatus(st)
      BY <2>3
    <3> HIDE DEF st
    <3>3. Good(rec.cr.st, st)
      BY <1>t, <1>s, <1>c, <1>r, <2>u, <2>p, <3>1, HarmlessCond
    <3> QED BY <1>w, <2>u, <2>3, <3>1, <3>2, <3>3
  <2> QED BY <1>5, <2>1, <2>2, <2>3 DEF InitializeBlobstorage
<1>6. CASE SetConfigPipelineStatus
  <2> DEFINE st == [rec.cr.st EXCEPT !.cfgGen = rec.cr.gen]
  <2>u. UNCHANGED kube /\ UNCHANGED queued /\ rec.pc = "setConfigPipelineStatus"
        /\ WriteStatus(st)
    BY <1>6 DEF SetConfigPipelineStatus
  <2>1. /\ st \in Status /\ st.cfgGen = rec.cr.gen
        /\ st.state = rec.cr.st.state /\ st.conds = rec.cr.st.conds
    BY <1>t DEF Status
  <2> HIDE DEF st
  <2>2. Good(rec.cr.st, st)
    BY <1>r, <2>u, <2>1 DEF Good, Sound, Follows
  <2>3. st.cfgGen <= rec.cr.gen
    BY <1>t, <2>1
  <2> QED BY <2>u, <2>2, <2>3, StatusWrite
<1>7. CASE WaitForStatefulSetToScale
  <2>u. UNCHANGED kube /\ UNCHANGED queued /\ rec.pc = "waitForStatefulSetToScale"
        /\ UNCHANGED sts
    BY <1>7 DEF WaitForStatefulSetToScale, env
  <2>p. /\ rec.cr.st.state \notin {"Pending", "Preparing"} /\ sts.replicas = Replicas(rec.cr)
        /\ rec.cr.st.cfgGen = rec.cr.gen
        /\ IsStatusConditionTrue(rec.cr.st.conds, "Initialized")
    BY <1>i, <1>r, <2>u DEF PathInv, StepInv, ScaleSteps, Sound
  <2>1. CASE /\ rec.cr.st.state = "Initializing"
             /\ WriteStatus(WithStateAndCond(rec.cr.st, "Provisioning", "Provisioned", "Unknown"))
    <3> DEFINE st == WithStateAndCond(rec.cr.st, "Provisioning", "Provisioned", "Unknown")
    <3>1. Changed(rec.cr.st, st, "Provisioning", "Provisioned", "Unknown")
      BY <1>t, <1>s, <1>c, <1>st, StateChanges
    <3>2. WriteStatus(st)
      BY <2>1
    <3> HIDE DEF st
    <3>3. Good(rec.cr.st, st)
      BY <1>t, <1>r, <2>u, <2>p, <2>1, <3>1, ProvisioningState
    <3> QED BY <1>w, <2>u, <3>1, <3>2, <3>3
  <2>2. CASE WriteStatus(WithCond(rec.cr.st, "Provisioned", "False"))
    <3> DEFINE st == WithCond(rec.cr.st, "Provisioned", "False")
    <3>1. Changed(rec.cr.st, st, rec.cr.st.state, "Provisioned", "False")
      BY <1>t, <1>s, <1>c, CondChanges
    <3>2. WriteStatus(st)
      BY <2>2
    <3> HIDE DEF st
    <3>3. Good(rec.cr.st, st)
      BY <1>t, <1>s, <1>c, <1>r, <2>u, <3>1, HarmlessCond
    <3> QED BY <1>w, <2>u, <3>1, <3>2, <3>3
  <2>3. CASE /\ rec.cr.st.state # "Initializing"
             /\ WriteStatus(WithCond(rec.cr.st, "Provisioned", "True"))
    <3> DEFINE st == WithCond(rec.cr.st, "Provisioned", "True")
    <3>1. Changed(rec.cr.st, st, rec.cr.st.state, "Provisioned", "True")
      BY <1>t, <1>s, <1>c, CondChanges
    <3>2. WriteStatus(st)
      BY <2>3
    <3> HIDE DEF st
    <3>3. rec.cr.st.state \in {"Provisioning", "Ready", "Paused"}
      BY <1>t, <2>p, <2>3 DEF Status, ClusterState
    <3>4. Good(rec.cr.st, st)
      BY <1>t, <1>r, <2>u, <3>1, <3>3, ProvisionedCond
    <3> QED BY <1>w, <2>u, <3>1, <3>2, <3>4
  <2>4. CASE /\ IsStatusConditionTrue(rec.cr.st.conds, "Provisioned")
             /\ Goto("handlePauseResume")
    <3>1. rec'.pc = "handlePauseResume" /\ rec'.cr = rec.cr
      BY <1>t, <2>4, GotoFacts DEF Step
    <3>2. PathInv'
      BY <2>u, <2>p, <2>4, <3>1 DEF PathInv, InitSteps, ScaleSteps, PauseSteps, Replicas
    <3> QED BY <2>4, <2>u, <3>2, StatusGoto DEF Step
  <2> QED BY <1>7, <2>1, <2>2, <2>3, <2>4 DEF WaitForStatefulSetToScale
<1>8. CASE HandlePauseResume
  <2> DEFINE st == PauseResume(rec.cr.st, rec.cr.pause)
  <2>u. UNCHANGED kube /\ UNCHANGED queued /\ rec.pc = "handlePauseResume" /\ UNCHANGED sts
    BY <1>8 DEF HandlePauseResume, env
  <2>p. /\ rec.cr.st.state # "Pending" /\ sts.replicas = Replicas(rec.cr)
        /\ rec.cr.st.cfgGen = rec.cr.gen
        /\ IsStatusConditionTrue(rec.cr.st.conds, "Provisioned")
        /\ IsStatusConditionTrue(rec.cr.st.conds, "Initialized")
    BY <1>i, <2>u DEF PathInv, StepInv, ScaleSteps, PauseSteps
  <2>1. /\ Good(rec.cr.st, st) /\ st.cfgGen = rec.cr.st.cfgGen
        /\ st = rec.cr.st => /\ rec.cr.st.state = Goal(rec.cr.pause)
                             /\ IsStatusConditionTrue(rec.cr.st.conds, Goal(rec.cr.pause))
    BY <1>t, <1>r, <2>u, <2>p, PauseResumeGood
  <2>2. \/ WriteStatus(st)
        \/ st = rec.cr.st /\ Goto("runSelfCheck")
    BY <1>8 DEF HandlePauseResume
  <2> HIDE DEF st
  <2>3. CASE WriteStatus(st)
    <3>1. st.cfgGen <= rec.cr.gen
      BY <1>r, <2>u, <2>1
    <3> QED BY <2>u, <2>1, <2>3, <3>1, StatusWrite
  <2>4. CASE st = rec.cr.st /\ Goto("runSelfCheck")
    <3>1. rec'.pc = "runSelfCheck" /\ rec'.cr = rec.cr
      BY <1>t, <2>4, GotoFacts DEF Step
    <3>2. PathInv'
      BY <2>u, <2>p, <2>1, <2>4, <3>1 DEF PathInv, InitSteps, ScaleSteps, PauseSteps, Replicas
    <3> QED BY <2>4, <2>u, <3>2, StatusGoto DEF Step
  <2> QED BY <2>2, <2>3, <2>4
<1>9. CASE RunSelfCheck
  <2>u. UNCHANGED kube /\ UNCHANGED sts /\ rec.pc = "runSelfCheck" /\ Return(FALSE)
    BY <1>9 DEF RunSelfCheck, env
  <2>p. /\ sts.replicas = Replicas(rec.cr) /\ rec.cr.st.cfgGen = rec.cr.gen
        /\ rec.cr.st.state = Goal(rec.cr.pause)
        /\ IsStatusConditionTrue(rec.cr.st.conds, Goal(rec.cr.pause))
    BY <1>i, <2>u DEF PathInv, ScaleSteps, PauseSteps
  <2>1. ASSUME rec.cr.gen = obj.gen, ~Behind PROVE Settled'
    <3>1. rec.cr.pause = obj.pause
      BY <1>i, <2>u, <2>1 DEF SpecInv, Copies
    <3>2. rec.cr.st = obj.st
      BY <1>i, <2>u, <2>1, TypeFacts DEF LastInv, Behind
    <3>3. UNCHANGED <<obj, sts>>
      BY <2>u DEF kube
    <3> QED BY <2>p, <2>1, <3>1, <3>2, <3>3 DEF Settled, Goal, Replicas, CondTrue
  <2> QED BY <2>u, <2>1, StatusReturn
<1>10. CASE UpdateStatus
  BY <1>10, StatusUpdate
<1>11. CASE CacheSync \/ Crash
  BY <1>11, StatusCache
<1>12. CASE UserUpdate
  BY <1>12, StatusEdit
<1>13. CASE ApiError
  BY <1>13, StatusReturn DEF ApiError
<1>14. CASE \/ OwnedEvent \/ ScaleStep \/ LosePod \/ JobSucceed \/ JobMismatch
            \/ JobFail \/ JobDelete \/ UNCHANGED vars
  <2>0. UNCHANGED kube /\ UNCHANGED rec
    BY <1>14 DEF OwnedEvent, ScaleStep, LosePod, JobSucceed, JobMismatch, JobFail,
                 JobDelete, vars, kube
  <2>1. queued => queued'
    <3>1. CASE OwnedEvent
      BY <3>1 DEF OwnedEvent
    <3>2. CASE UNCHANGED queued
      BY <3>2
    <3>3. OwnedEvent \/ UNCHANGED queued
      BY <1>14 DEF ScaleStep, LosePod, JobSucceed, JobMismatch, JobFail, JobDelete, vars
    <3> QED BY <3>1, <3>2, <3>3
  <2>2. sts'.replicas = sts.replicas
    BY <1>i, <1>14 DEF OwnedEvent, ScaleStep, LosePod, JobSucceed, JobMismatch, JobFail,
                       JobDelete, vars, env, IInv, TypeOK
  <2> QED BY <2>0, <2>1, <2>2, StatusElsewhere
<1> QED
  BY <1>1, <1>2, <1>3, <1>4, <1>5, <1>6, <1>7, <1>8, <1>9, <1>10, <1>11, <1>12,
     <1>13, <1>14 DEF Next, Controller, Environment

\* StatusInv is an invariant.
THEOREM StatusInvariance == Spec => []StatusInv
BY InitStatusInv, NextStatusInv, PTL DEF Spec

\* Ready and Paused are never reported together, although two reconciles may
\* report them from copies of different age.
THEOREM NeverReadyAndPaused == Spec => []NotReadyAndPaused
<1>1. StatusInv => NotReadyAndPaused
  <2> SUFFICES ASSUME StatusInv PROVE NotReadyAndPaused
    OBVIOUS
  <2>1. Sound(obj.st)
    BY DEF StatusInv, SoundInv, Copies
  <2> QED BY <2>1 DEF Sound, NotReadyAndPaused, CondTrue
<1> QED BY <1>1, StatusInvariance, PTL

\* No wake-up is lost: when the controller has nothing queued, nothing in flight
\* and a cache that caught up, the Storage is settled, or its operatorSync is
\* off, or the last reconcile missed the controller's own last status write.
THEOREM NoLostWakeUp == Spec => []QuiescentIsSettled
<1>1. StatusInv => QuiescentIsSettled
  BY DEF StatusInv, IInv, VersionInv, WakeInv, QuiescentIsSettled
<1> QED BY <1>1, StatusInvariance, PTL

-----------------------------------------------------------------------------
(***************************************************************************)
(* The lifecycle is implemented.                                           *)
(***************************************************************************)

\* A new Storage has not started its lifecycle.
LEMMA InitLifecycle == Init => L!Init
<1> SUFFICES ASSUME Init PROVE L!Init
  OBVIOUS
<1>1. obj.st.state = "Pending" /\ \A c \in CondType : obj.st.conds[c] = "Absent"
  BY NewStorageFacts DEF Init, NewStorage
<1>2. \A c \in Stage : ~CondTrue(c)
  BY <1>1 DEF CondTrue, IsStatusConditionTrue, CondType
<1>3. ~Behind
  BY DEF Init, Behind
<1> QED BY <1>1, <1>2, <1>3 DEF L!Init, Behind

\* A status that follows the one before is a step of the lifecycle.
LEMMA FollowsIsStep ==
  ASSUME Follows(obj.st, obj'.st)
  PROVE  L!Next
<1>1. L!DoneChanges
  BY DEF Follows, L!DoneChanges, L!Stage, Stage, CondTrue
<1>2. CASE obj'.st.state = obj.st.state
  BY <1>1, <1>2 DEF L!Next, L!Report
<1>3. CASE obj.st.state = "Pending" /\ obj'.st.state = "Preparing"
  BY <1>1, <1>3 DEF L!Next, L!Start
<1>4. CASE /\ obj.st.state = "Preparing" /\ CondTrue("Prepared")
           /\ obj'.st.state = "Initializing"
  BY <1>1, <1>4 DEF L!Next, L!Advance, Stage
<1>5. CASE /\ obj.st.state = "Initializing" /\ CondTrue("Initialized")
           /\ obj'.st.state = "Provisioning"
  BY <1>1, <1>5 DEF L!Next, L!Advance, Stage
<1>6. CASE /\ obj.st.state = "Provisioning" /\ CondTrue("Provisioned")
           /\ obj'.st.state \in {"Ready", "Paused"}
  BY <1>1, <1>6 DEF L!Next, L!Advance, Stage
<1>7. CASE /\ obj.st.state \in {"Ready", "Paused"} /\ CondTrue("Provisioned")
           /\ obj'.st.state \in {"Ready", "Paused"} \ {obj.st.state}
  BY <1>1, <1>7 DEF L!Next, L!Toggle, Stage
<1> QED BY <1>2, <1>3, <1>4, <1>5, <1>6, <1>7 DEF Follows, CondTrue

\* Only UpdateStatus changes the status on the API server.
LEMMA OnlyUpdateStatusWrites ==
  ASSUME IInv, [Next]_vars, ~UpdateStatus
  PROVE  obj'.st = obj.st
<1>1. obj \in Storage
  BY TypeFacts
<1>2. CASE UserUpdate \/ Reconcile
  BY <1>1, <1>2 DEF UserUpdate, Reconcile, Storage
<1>3. CASE ~UserUpdate /\ ~Reconcile
  <2>1. UNCHANGED obj
    BY <1>3 DEF Next, Controller, Environment, vars, kube, SetInitialStatus,
         HandleResourcesSync, SetInitPipelineStatus, InitializeBlobstorage,
         SetConfigPipelineStatus, WaitForStatefulSetToScale, HandlePauseResume,
         RunSelfCheck, ScaleStep, JobSucceed, JobMismatch, JobDelete, CacheSync,
         OwnedEvent, LosePod, JobFail, ApiError, Crash
  <2> QED BY <2>1
<1> QED BY <1>2, <1>3

\* Every step is a step of the lifecycle or none.
LEMMA NextLifecycle == StatusInv /\ [Next]_vars => [L!Next]_(L!vars)
<1> SUFFICES ASSUME StatusInv, [Next]_vars PROVE L!Next \/ UNCHANGED L!vars
  OBVIOUS
<1>i. IInv /\ SoundInv /\ LastInv
  BY DEF StatusInv
<1>1. CASE obj'.st = obj.st
  BY <1>1 DEF L!vars, CondTrue
<1>2. CASE UpdateStatus
  <2> DEFINE st == Degrade(rec.cr.st, Stage, rec.cr.pause)
  <2>u. rec.pc = "updateStatus" /\ (UNCHANGED obj \/ obj' = [obj EXCEPT !.st = st])
    BY <1>2 DEF UpdateStatus
  <2>t. /\ obj \in Storage /\ obj.st \in Status /\ missed.cr \in Nat
        /\ rec.cr.st \in Status /\ rec.cr.pause \in BOOLEAN
    BY <1>i, TypeFacts
  <2>1. CASE UNCHANGED obj
    BY <1>1, <2>1
  <2>2. CASE obj' = [obj EXCEPT !.st = st]
    <3>1. rec.cr \in Copies
      BY <2>u DEF Copies
    <3>2. /\ st \in Status /\ st.state = rec.cr.st.state
          /\ st.conds["Initialized"] = rec.cr.st.conds["Initialized"]
      BY <1>i, <2>t, <3>1, DegradeGood DEF SoundInv, Good
    <3> HIDE DEF st
    <3>3. obj'.st = st
      BY <2>2, <2>t DEF Storage
    <3>4. CASE Behind
      BY <3>4 DEF L!Next, L!Slip, L!Stage, Stage
    <3>5. CASE ~Behind
      <4>1. Follows(obj.st, rec.cr.st)
        BY <1>i, <2>u, <2>t, <3>5 DEF LastInv, Behind
      <4>2. Follows(obj.st, st)
        BY <2>t, <3>2, <4>1, FollowsDegraded
      <4> QED BY <3>3, <4>2, FollowsIsStep
    <3> QED BY <3>4, <3>5
  <2> QED BY <2>u, <2>1, <2>2
<1> QED BY <1>i, <1>1, <1>2, OnlyUpdateStatusWrites

\* The status of a Storage follows the lifecycle, for every schedule of stale
\* reads, edits, failures and crashes.
THEOREM LifecycleImplemented == Spec => ImplementsLifecycle
BY StatusInvariance, InitLifecycle, NextLifecycle, PTL DEF Spec, ImplementsLifecycle, L!Spec

=============================================================================
