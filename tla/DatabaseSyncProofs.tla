------------------------- MODULE DatabaseSyncProofs -------------------------
(***************************************************************************)
(* Proofs about DatabaseSync, for every number of nodes, edits, operations *)
(* and faults, and whether or not the cache lags.                          *)
(*                                                                         *)
(* That initialization is real needs the same of every copy of the object, *)
(* and that an operation which succeeded left a tenant.  That the tenant   *)
(* is asked for after the storage rests on the steps between the check and *)
(* the call.  What the check of the Storage found is still so at the call; *)
(* of the shared Database only that it was so once.                        *)
(*                                                                         *)
(* The refinement follows one status through a reconcile: as long as the   *)
(* copy does not lack the last write it is the status on the API server,   *)
(* and the one that is about to be written is one step of the lifecycle    *)
(* away from it.  Which step it can be depends on the conditions that the  *)
(* steps of Sync before have checked.                                      *)
(*                                                                         *)
(* That no wake-up is lost (FullInv) needs in addition that a copy with    *)
(* the latest generation has the latest spec, and what a step knows of its *)
(* copy by the time it is reached: a reconcile that ends with no other one *)
(* to follow has found everything done for the generation in the cache,    *)
(* and a later generation comes with an event.                             *)
(***************************************************************************)
EXTENDS DatabaseSync, TLAPS

\* The copies of the object: on the API server, in the cache, in the reconcile.
Copies == {obj, cache} \cup {o \in {rec.cr} : rec.pc # "idle"}

\* fresh means that the cache holds the latest version; no copy disagrees on
\* what nobody edits.
CopyInv ==
  /\ fresh => cache = obj
  /\ \A o \in Copies : o.skipInit = obj.skipInit /\ o.serverless = obj.serverless

\* No copy reports initialization that did not happen.
RealInv ==
  \A o \in Copies : IsStatusConditionTrue(o.st.conds, "Initialized") => tenant \/ o.skipInit

\* An operation that succeeded created the tenant.
OperationInv == \A id \in OpId : OperationSucceeded(id) => tenant

\* The history of the shared Database.
OfferInv == shared = "Provisioned" => offered

\* What the steps of a reconcile have checked.
StepInv ==
  LET conds == rec.cr.st.conds
  IN  /\ rec.pc \in {"handleResourcesSync", "setInitPipelineStatus", "initializeTenant",
                      "createTenant"} => StorageInitialized
      /\ rec.pc = "createTenant" => (rec.cr.serverless => offered)
      /\ rec.pc \in {"setInitPipelineStatus", "initializeTenant", "createTenant"}
           => /\ IsStatusConditionTrue(conds, "Prepared")
              /\ ~IsStatusConditionTrue(conds, "Initialized")
      /\ rec.pc = "waitForStatefulSetToScale" => IsStatusConditionTrue(conds, "Initialized")
      /\ rec.pc = "handlePauseResume"
           => IsStatusConditionTrue(conds, "Provisioned") \/ rec.cr.serverless

\* The stages that a status reports done.
Done(st, serverless) ==
  {c \in Stage : \/ IsStatusConditionTrue(st.conds, c)
                 \/ /\ c = "Provisioned" /\ serverless
                    /\ st.state \in {"Provisioning", "Ready", "Paused"}}

\* A status new follows a status old in the lifecycle.
Follows(old, new, serverless) ==
  LET done == Done(old, serverless)
  IN  /\ IsStatusConditionTrue(old.conds, "Initialized")
           => IsStatusConditionTrue(new.conds, "Initialized")
      /\ \/ new.state = old.state
         \/ old.state = "Pending" /\ new.state = "Preparing"
         \/ old.state = "Preparing" /\ "Prepared" \in done /\ new.state = "Initializing"
         \/ old.state = "Initializing" /\ "Initialized" \in done /\ new.state = "Provisioning"
         \/ /\ old.state = "Provisioning" /\ "Provisioned" \in done
            /\ new.state \in {"Ready", "Paused"}
         \/ /\ old.state \in {"Ready", "Paused"} /\ "Provisioned" \in done
            /\ new.state \in {"Ready", "Paused"} \ {old.state}

\* A reconcile whose copy lacks no write has the status of the API server until
\* it has one to write, and this one follows.
LifeInv ==
  ~rec.behind =>
    /\ rec.pc \notin {"idle", "updateStatus"} => rec.cr.st = obj.st
    /\ rec.pc = "updateStatus" => Follows(obj.st, rec.cr.st, obj.serverless)

IInv ==
  /\ TypeOK /\ CopyInv /\ RealInv /\ OperationInv /\ StepInv /\ LifeInv
  /\ TenantAfterStorage /\ OfferInv

-----------------------------------------------------------------------------
(***************************************************************************)
(* The operators that change a status or an object.                        *)
(***************************************************************************)

\* The names of conditions and states.
LEMMA Names ==
  /\ Stage \subseteq CondType
  /\ {"Prepared", "Initialized", "Provisioned", "Paused", "Ready",
      "CreateDatabaseOperation"} \subseteq CondType
  /\ {"Unknown", "True", "False"} \subseteq CondStatus
  /\ {"Pending", "Preparing", "Initializing", "Provisioning", "Ready", "Paused"}
       \subseteq ClusterState
  /\ \A pause \in BOOLEAN : Goal(pause) \in {"Ready", "Paused"}
BY DEF CondType, Stage, CondStatus, ClusterState, Goal

\* SetStatusCondition keeps the type of a status and changes one condition.
LEMMA WithCondFacts ==
  ASSUME NEW st \in Status, NEW type \in CondType, NEW status \in CondStatus
  PROVE  /\ WithCond(st, type, status) \in Status
         /\ \A c \in CondType : WithCond(st, type, status).conds[c] =
                                  IF c = type THEN status ELSE st.conds[c]
         /\ WithCond(st, type, status).state = st.state
BY DEF WithCond, SetStatusCondition, Status

\* The same for a status whose state changes too.
LEMMA WithStateAndCondFacts ==
  ASSUME NEW st \in Status, NEW state \in ClusterState,
         NEW type \in CondType, NEW status \in CondStatus
  PROVE  /\ WithStateAndCond(st, state, type, status) \in Status
         /\ \A c \in CondType : WithStateAndCond(st, state, type, status).conds[c] =
                                  IF c = type THEN status ELSE st.conds[c]
         /\ WithStateAndCond(st, state, type, status).state = state
BY DEF WithStateAndCond, WithCond, SetStatusCondition, Status

\* A status st2 reports the state and the stages that st1 does.
SameStages(st1, st2) ==
  /\ st2 \in Status
  /\ st2.state = st1.state
  /\ \A c \in Stage : st2.conds[c] = st1.conds[c]

\* Ready, Paused and CreateDatabaseOperation are no stages.
LEMMA OtherCondFacts ==
  ASSUME NEW st \in Status, NEW type \in CondType \ Stage, NEW status \in CondStatus
  PROVE  SameStages(st, WithCond(st, type, status))
<1>1. Stage \subseteq CondType
  BY Names
<1> QED BY <1>1, WithCondFacts DEF SameStages

LEMMA InitialStatusFacts ==
  ASSUME NEW st \in Status, NEW pause \in BOOLEAN
  PROVE  SameStages(st, InitialStatus(st, pause))
<1>1. Goal(pause) \in CondType \ Stage /\ "Unknown" \in CondStatus
  BY Names DEF Stage
<1> QED BY <1>1, OtherCondFacts DEF InitialStatus

LEMMA DegradeFacts ==
  ASSUME NEW st \in Status, NEW pause \in BOOLEAN
  PROVE  SameStages(st, Degrade(st, Stage, pause))
<1>1. Goal(pause) \in CondType \ Stage /\ "False" \in CondStatus
  BY Names DEF Stage
<1>2. SameStages(st, WithCond(st, Goal(pause), "False"))
  BY <1>1, OtherCondFacts
<1>3. Degrade(st, Stage, pause) \in {st, WithCond(st, Goal(pause), "False")}
  BY DEF Degrade
<1> QED BY <1>2, <1>3 DEF SameStages

LEMMA WithOpFacts ==
  ASSUME NEW st \in Status, NEW status \in CondStatus, NEW id \in 0..MaxOps
  PROVE  SameStages(st, WithOp(st, status, id))
<1>1. "CreateDatabaseOperation" \in CondType \ Stage
  BY Names DEF Stage
<1>2. SameStages(st, WithCond(st, "CreateDatabaseOperation", status))
  BY <1>1, OtherCondFacts
<1> QED BY <1>2 DEF WithOp, SameStages, Status

\* setInitDatabaseCompleted reports initialization and leaves the rest.
LEMMA InitializedFacts ==
  ASSUME NEW st \in Status
  PROVE  /\ Initialized(st) \in Status
         /\ Initialized(st).state = st.state
         /\ Initialized(st).conds["Initialized"] = "True"
<1>1. /\ "Initialized" \in CondType /\ "CreateDatabaseOperation" \in CondType
      /\ "True" \in CondStatus /\ 0 \in 0..MaxOps
  BY Names, DatabaseAssumption
<1> DEFINE a == WithCond(st, "Initialized", "True")
           b == WithCond(a, "CreateDatabaseOperation", "True")
<1>2. a \in Status /\ a.state = st.state /\ a.conds["Initialized"] = "True"
  BY <1>1, WithCondFacts
<1>3. b \in Status /\ b.state = st.state /\ b.conds["Initialized"] = "True"
  <2> HIDE DEF a
  <2> QED BY <1>1, <1>2, WithCondFacts
<1>4. Initialized(st) = [b EXCEPT !.opId = 0]
  BY DEF Initialized
<1> HIDE DEF b
<1> QED BY <1>1, <1>3, <1>4 DEF Status

\* handlePauseResume changes the state of a status whose stages are done.
LEMMA PauseResumeFacts ==
  ASSUME NEW st \in Status, NEW pause \in BOOLEAN
  PROVE  /\ PauseResume(st, pause) \in Status
         /\ \A c \in Stage : PauseResume(st, pause).conds[c] = st.conds[c]
         /\ \/ PauseResume(st, pause).state = st.state
            \/ /\ st.state = "Provisioning"
               /\ PauseResume(st, pause).state \in {"Ready", "Paused"}
            \/ /\ st.state \in {"Ready", "Paused"}
               /\ PauseResume(st, pause).state \in {"Ready", "Paused"} \ {st.state}
<1>1. /\ Goal(pause) \in CondType /\ Goal(pause) \in ClusterState
      /\ Goal(pause) \in {"Ready", "Paused"} /\ Goal(pause) \notin Stage
  BY Names DEF Stage
<1>2. /\ "True" \in CondStatus /\ "False" \in CondStatus
      /\ "Ready" \in CondType /\ "Ready" \in ClusterState /\ "Ready" \notin Stage
      /\ "Paused" \in CondType /\ "Paused" \in ClusterState /\ "Paused" \notin Stage
      /\ Stage \subseteq CondType
  BY Names DEF Stage
<1>3. CASE st.state = "Provisioning"
  <2>1. PauseResume(st, pause) = WithStateAndCond(st, Goal(pause), Goal(pause), "True")
    BY <1>3 DEF PauseResume
  <2>2. /\ WithStateAndCond(st, Goal(pause), Goal(pause), "True") \in Status
        /\ \A c \in CondType :
             WithStateAndCond(st, Goal(pause), Goal(pause), "True").conds[c] =
               IF c = Goal(pause) THEN "True" ELSE st.conds[c]
        /\ WithStateAndCond(st, Goal(pause), Goal(pause), "True").state = Goal(pause)
    BY <1>1, <1>2, WithStateAndCondFacts
  <2> QED BY <1>1, <1>2, <1>3, <2>1, <2>2
<1>4. CASE st.state = "Ready" /\ pause
  <2>1. PauseResume(st, pause) = WithStateAndCond(st, "Paused", "Ready", "False")
    BY <1>4 DEF PauseResume
  <2>2. /\ WithStateAndCond(st, "Paused", "Ready", "False") \in Status
        /\ \A c \in CondType : WithStateAndCond(st, "Paused", "Ready", "False").conds[c] =
                                 IF c = "Ready" THEN "False" ELSE st.conds[c]
        /\ WithStateAndCond(st, "Paused", "Ready", "False").state = "Paused"
    BY <1>2, WithStateAndCondFacts
  <2> QED BY <1>2, <1>4, <2>1, <2>2
<1>5. CASE st.state = "Paused" /\ ~pause
  <2>1. PauseResume(st, pause) = WithStateAndCond(st, "Ready", "Paused", "False")
    BY <1>5 DEF PauseResume
  <2>2. /\ WithStateAndCond(st, "Ready", "Paused", "False") \in Status
        /\ \A c \in CondType : WithStateAndCond(st, "Ready", "Paused", "False").conds[c] =
                                 IF c = "Paused" THEN "False" ELSE st.conds[c]
        /\ WithStateAndCond(st, "Ready", "Paused", "False").state = "Ready"
    BY <1>2, WithStateAndCondFacts
  <2> QED BY <1>2, <1>5, <2>1, <2>2
<1>6. CASE /\ st.state # "Provisioning"
           /\ ~(st.state = "Ready" /\ pause)
           /\ ~(st.state = "Paused" /\ ~pause)
  <2>1. PauseResume(st, pause) = WithCond(st, Goal(pause), "True")
    BY <1>6 DEF PauseResume
  <2>2. SameStages(st, WithCond(st, Goal(pause), "True"))
    BY <1>1, <1>2, OtherCondFacts
  <2> QED BY <2>1, <2>2 DEF SameStages
<1> QED BY <1>3, <1>4, <1>5, <1>6

\* The object as the user creates it, which an idle worker holds too.
LEMMA NewDatabaseFacts ==
  ASSUME NEW pause \in BOOLEAN, NEW skip \in BOOLEAN, NEW serverless \in BOOLEAN
  PROVE  LET new == NewDatabase(pause, skip, serverless)
         IN  /\ new \in Database
             /\ new.st.state = "Pending"
             /\ \A c \in CondType : new.st.conds[c] = "Absent"
<1>1. [state |-> "Pending", conds |-> [c \in CondType |-> "Absent"], opId |-> 0] \in Status
  BY DatabaseAssumption DEF Status, ClusterState, CondStatus
<1> QED BY <1>1, DatabaseAssumption DEF NewDatabase, Database

Rec == [pc : Step, cr : Database, behind : BOOLEAN]

LEMMA IdleFacts ==
  /\ Idle \in Rec
  /\ Idle.pc = "idle"
  /\ \A b \in BOOLEAN : /\ [Idle EXCEPT !.behind = b] \in Rec
                        /\ [Idle EXCEPT !.behind = b].pc = "idle"
<1>1. NewDatabase(FALSE, FALSE, FALSE) \in Database
  BY NewDatabaseFacts
<1> QED BY <1>1 DEF Idle, Rec, Step

\* The fields of an object.
LEMMA DatabaseFacts ==
  ASSUME NEW o \in Database
  PROVE  /\ o.gen \in 1..MaxGen
         /\ o.pause \in BOOLEAN /\ o.skipInit \in BOOLEAN /\ o.serverless \in BOOLEAN
         /\ o.st \in Status
BY DEF Database

\* A step of the reconcile: its copy keeps its spec.
LEMMA WriteStatusFacts ==
  ASSUME rec \in Rec, NEW st \in Status, WriteStatus(st)
  PROVE  /\ rec' \in Rec
         /\ rec'.pc = "updateStatus"
         /\ rec'.behind = rec.behind
         /\ rec'.cr.skipInit = rec.cr.skipInit /\ rec'.cr.serverless = rec.cr.serverless
         /\ rec'.cr.st = st
BY DEF WriteStatus, Rec, Database, Step

LEMMA GotoFacts ==
  ASSUME rec \in Rec, NEW step \in Step, Goto(step)
  PROVE  rec' \in Rec /\ rec'.pc = step /\ rec'.behind = rec.behind /\ rec'.cr = rec.cr
BY DEF Goto, Rec

LEMMA ReturnFacts ==
  ASSUME rec \in Rec, queued \in BOOLEAN, NEW requeue \in BOOLEAN, Return(requeue)
  PROVE  rec' \in Rec /\ rec'.pc = "idle" /\ queued' \in BOOLEAN
<1>1. queued' \in BOOLEAN
  BY DEF Return
<1>2. rec' = [Idle EXCEPT !.behind = rec.behind /\ ~queued']
      /\ (rec.behind /\ ~queued') \in BOOLEAN
  BY DEF Return
<1> QED BY <1>1, <1>2, IdleFacts

\* A status written on the API server leaves the spec alone, an edit leaves the
\* status and what is fixed at creation.
LEMMA ObjectStatusFacts ==
  ASSUME NEW o \in Database, NEW st \in Status
  PROVE  /\ [o EXCEPT !.st = st] \in Database
         /\ [o EXCEPT !.st = st].skipInit = o.skipInit
         /\ [o EXCEPT !.st = st].serverless = o.serverless
         /\ [o EXCEPT !.st = st].st = st
BY DEF Database

LEMMA UserUpdateFacts ==
  ASSUME TypeOK, UserUpdate
  PROVE  /\ obj' \in Database /\ obj'.st = obj.st
         /\ obj'.skipInit = obj.skipInit /\ obj'.serverless = obj.serverless
<1>1. PICK pause, sync \in BOOLEAN :
           obj' = [obj EXCEPT !.gen = @ + 1, !.pause = pause, !.sync = sync]
  BY DEF UserUpdate
<1>2. obj \in Database /\ obj.gen + 1 \in 1..MaxGen
  BY DatabaseAssumption DEF TypeOK, UserUpdate, Database
<1> QED BY <1>1, <1>2 DEF Database

Sts == [exists : BOOLEAN, replicas : {0, Nodes}, ready : 0..Nodes]

\* The StatefulSet keeps its type.
LEMMA PodFacts ==
  ASSUME sts \in Sts, ScaleStep \/ LosePod
  PROVE  sts' \in Sts
<1>1. /\ sts.ready \in 0..Nodes /\ sts.replicas \in 0..Nodes
      /\ sts.ready # 0 => sts.ready - 1 \in 0..Nodes
      /\ sts.ready < sts.replicas => sts.ready + 1 \in 0..Nodes
  BY DatabaseAssumption DEF Sts
<1>2. CASE ScaleStep
  <2>1. /\ sts' = [sts EXCEPT !.ready = IF @ < sts.replicas THEN @ + 1 ELSE @ - 1]
        /\ sts.ready # sts.replicas
    BY <1>2 DEF ScaleStep
  <2>2. sts.ready < sts.replicas \/ sts.ready # 0
    BY <1>1, <2>1, DatabaseAssumption
  <2> QED BY <1>1, <2>1, <2>2 DEF Sts
<1>3. CASE LosePod
  BY <1>1, <1>3 DEF LosePod, Sts
<1> QED BY <1>2, <1>3

LEMMA SyncStatefulSetFacts ==
  ASSUME sts \in Sts, queued \in BOOLEAN, NEW cr \in Database, SyncStatefulSet(cr)
  PROVE  sts' \in Sts /\ queued' \in BOOLEAN
<1>1. CASE cr.serverless
  BY <1>1 DEF SyncStatefulSet
<1>2. CASE ~cr.serverless
  <2>1. /\ sts' = [sts EXCEPT !.exists = TRUE, !.replicas = Replicas(cr)]
        /\ queued' = (queued \/ (sts.exists /\ sts.replicas # Replicas(cr)))
    BY <1>2 DEF SyncStatefulSet
  <2>2. Replicas(cr) \in {0, Nodes} /\ sts.exists \in BOOLEAN
    BY DEF Replicas, Sts
  <2>3. queued' \in BOOLEAN
    BY <2>1, <2>2
  <2> QED BY <2>1, <2>2, <2>3 DEF Sts
<1> QED BY <1>1, <1>2

-----------------------------------------------------------------------------
(***************************************************************************)
(* Types.                                                                  *)
(***************************************************************************)

\* Every initial state has the types.
LEMMA InitType == Init => TypeOK
<1> SUFFICES ASSUME Init PROVE TypeOK
  OBVIOUS
<1>1. obj \in Database /\ cache \in Database
  BY NewDatabaseFacts DEF Init
<1>2. rec \in Rec
  BY IdleFacts DEF Init
<1>3. sts \in Sts /\ faults \in 0..MaxFaults
  BY DatabaseAssumption DEF Init, Sts
<1>4. ops \in [OpId -> {"none", "running", "ok", "error"}]
  BY DEF Init
<1> QED BY <1>1, <1>2, <1>3, <1>4 DEF Init, TypeOK, Sts, Rec

\* The status that each step may write.
LEMMA StatusTypes ==
  ASSUME NEW st \in Status
  PROVE  /\ WithStateAndCond(st, "Preparing", "Prepared", "Unknown") \in Status
         /\ WithStateAndCond(st, "Initializing", "Initialized", "False") \in Status
         /\ WithStateAndCond(st, "Provisioning", "Provisioned", "Unknown") \in Status
         /\ \A c \in {"True", "False"} : /\ WithCond(st, "Prepared", c) \in Status
                                        /\ WithCond(st, "Provisioned", c) \in Status
         /\ Initialized(st) \in Status
         /\ \A c \in {"Unknown", "False"}, id \in 0..MaxOps : WithOp(st, c, id) \in Status
<1>1. /\ "Prepared" \in CondType /\ "Initialized" \in CondType /\ "Provisioned" \in CondType
      /\ "True" \in CondStatus /\ "False" \in CondStatus /\ "Unknown" \in CondStatus
      /\ "Preparing" \in ClusterState /\ "Initializing" \in ClusterState
      /\ "Provisioning" \in ClusterState
  BY Names
<1>2. /\ WithStateAndCond(st, "Preparing", "Prepared", "Unknown") \in Status
      /\ WithStateAndCond(st, "Initializing", "Initialized", "False") \in Status
      /\ WithStateAndCond(st, "Provisioning", "Provisioned", "Unknown") \in Status
  BY <1>1, WithStateAndCondFacts
<1>3. \A c \in {"True", "False"} : /\ WithCond(st, "Prepared", c) \in Status
                                 /\ WithCond(st, "Provisioned", c) \in Status
  BY <1>1, WithCondFacts
<1>4. \A c \in {"Unknown", "False"}, id \in 0..MaxOps : WithOp(st, c, id) \in Status
  BY <1>1, WithOpFacts DEF SameStages
<1> QED BY <1>2, <1>3, <1>4, InitializedFacts

\* Every step keeps the types.
LEMMA NextType == TypeOK /\ [Next]_vars => TypeOK'
<1> SUFFICES ASSUME TypeOK, [Next]_vars PROVE TypeOK'
  OBVIOUS
<1> DEFINE Ops == [OpId -> {"none", "running", "ok", "error"}]
<1>t. /\ obj \in Database /\ cache \in Database
      /\ rec \in Rec /\ rec.cr \in Database
      /\ fresh \in BOOLEAN /\ queued \in BOOLEAN /\ tenant \in BOOLEAN
      /\ sts \in Sts /\ ops \in Ops
      /\ storage \in {"NotFound", "Found", "Initialized"}
      /\ shared \in {"NotFound", "Found", "Provisioned"}
      /\ offered \in BOOLEAN
      /\ faults \in 0..MaxFaults
  BY DEF TypeOK, Sts, Rec
<1>r. /\ rec.cr.pause \in BOOLEAN
      /\ rec.cr.st \in Status
      /\ rec.cr.st.opId \in 0..MaxOps
  BY <1>t, DatabaseFacts DEF Status
<1>o. OpId \subseteq 0..MaxOps /\ 0 \in 0..MaxOps
  BY DatabaseAssumption DEF OpId
<1>w. ASSUME NEW st \in Status, WriteStatus(st) PROVE rec' \in Rec
  BY <1>w, <1>t, WriteStatusFacts
<1>g. ASSUME NEW step \in Step, Goto(step) PROVE rec' \in Rec
  BY <1>g, <1>t, GotoFacts
<1>e. ASSUME NEW requeue \in BOOLEAN, Return(requeue) PROVE rec' \in Rec /\ queued' \in BOOLEAN
  BY <1>e, <1>t, ReturnFacts
<1>f. Fault => faults' \in 0..MaxFaults
  BY <1>t, DatabaseAssumption DEF Fault
<1>1. CASE Reconcile
  <2>1. rec' \in Rec
    BY <1>1, <1>t DEF Reconcile, Step, Rec
  <2> QED BY <1>1, <1>t, <2>1 DEF Reconcile, kube, refs, ydb, TypeOK, Sts, Rec
<1>2. CASE SetInitialStatus
  <2>1. InitialStatus(rec.cr.st, rec.cr.pause) \in Status
    BY <1>r, InitialStatusFacts DEF SameStages
  <2>2. rec' \in Rec
    BY <1>2, <2>1, <1>w, <1>g DEF SetInitialStatus, Step
  <2> QED BY <1>2, <1>t, <2>2 DEF SetInitialStatus, kube, refs, ydb, TypeOK, Sts, Rec
<1>3. CASE WaitForClusterResources
  <2>1. rec' \in Rec /\ queued' \in BOOLEAN
    BY <1>3, <1>t, <1>r, <1>w, <1>g, <1>e, StatusTypes DEF WaitForClusterResources, Step
  <2> QED BY <1>3, <1>t, <2>1 DEF WaitForClusterResources, kube, refs, ydb, TypeOK, Sts, Rec
<1>4. CASE HandleResourcesSync
  <2>1. AfterResources(rec.cr) \in Step
    BY DEF AfterResources, Step
  <2>2. rec' \in Rec
    BY <1>4, <2>1, <1>r, <1>w, <1>g, <1>e, StatusTypes DEF HandleResourcesSync
  <2>3. sts' \in Sts /\ queued' \in BOOLEAN
    BY <1>4, <1>t, <1>e, SyncStatefulSetFacts DEF HandleResourcesSync
  <2>4. faults' \in 0..MaxFaults
    BY <1>4, <1>t, <1>f DEF HandleResourcesSync
  <2> QED BY <1>4, <1>t, <2>2, <2>3, <2>4 DEF HandleResourcesSync, kube, refs, ydb, TypeOK, Sts, Rec
<1>5. CASE SetInitPipelineStatus
  <2>1. rec' \in Rec
    BY <1>5, <1>r, <1>w, <1>g, StatusTypes DEF SetInitPipelineStatus, Step
  <2> QED BY <1>5, <1>t, <2>1 DEF SetInitPipelineStatus, kube, refs, ydb, TypeOK, Sts, Rec
<1>6. CASE InitializeTenant
  <2>1. CASE Return(TRUE)
    BY <1>6, <2>1, <1>t, <1>e DEF InitializeTenant, kube, refs, ydb, TypeOK, Sts, Rec
  <2>2. CASE Goto("createTenant") /\ UNCHANGED queued
    <3>1. rec' \in Rec
      BY <2>2, <1>t, GotoFacts DEF Step, Rec
    <3> QED BY <1>6, <2>2, <3>1, <1>t DEF InitializeTenant, kube, refs, ydb, TypeOK, Sts, Rec
  <2> QED BY <1>6, <2>1, <2>2 DEF InitializeTenant
<1>7. CASE CreateDatabaseNow
  <2>1. rec' \in Rec
    BY <1>7, <1>r, <1>w, StatusTypes DEF CreateDatabaseNow
  <2> QED BY <1>7, <1>t, <2>1 DEF CreateDatabaseNow, kube, refs, TypeOK, Sts, Rec
<1>8. CASE CreateDatabaseLater
  <2>1. PICK id \in OpId :
           /\ ops' = [ops EXCEPT ![id] = "running"]
           /\ \/ WriteStatus(WithOp(rec.cr.st, "Unknown", id)) /\ UNCHANGED faults
              \/ WriteStatus(WithOp(rec.cr.st, "Unknown", 0)) /\ Fault
    BY <1>8 DEF CreateDatabaseLater
  <2>2. rec' \in Rec
    BY <2>1, <1>r, <1>o, <1>w, StatusTypes
  <2>3. ops' \in Ops
    BY <2>1, <1>t
  <2>4. faults' \in 0..MaxFaults
    BY <2>1, <1>t, <1>f
  <2> QED BY <1>8, <1>t, <2>2, <2>3, <2>4 DEF CreateDatabaseLater, kube, refs, TypeOK, Sts, Rec
<1>9. CASE CheckCreateDatabaseOperation
  <2>1. rec' \in Rec
    BY <1>9, <1>r, <1>o, <1>w, StatusTypes DEF CheckCreateDatabaseOperation
  <2> QED
    BY <1>9, <1>t, <2>1 DEF CheckCreateDatabaseOperation, kube, refs, ydb, TypeOK, Sts, Rec
<1>10. CASE WaitForStatefulSetToScale
  <2>1. rec' \in Rec
    BY <1>10, <1>r, <1>w, <1>g, StatusTypes DEF WaitForStatefulSetToScale, Step
  <2> QED BY <1>10, <1>t, <2>1 DEF WaitForStatefulSetToScale, kube, refs, ydb, TypeOK, Sts, Rec
<1>11. CASE HandlePauseResume
  <2>1. PauseResume(rec.cr.st, rec.cr.pause) \in Status
    BY <1>r, PauseResumeFacts
  <2>2. rec' \in Rec /\ queued' \in BOOLEAN
    BY <1>11, <2>1, <1>t, <1>w, <1>e DEF HandlePauseResume
  <2> QED BY <1>11, <1>t, <2>2 DEF HandlePauseResume, kube, refs, ydb, TypeOK, Sts, Rec
<1>12. CASE UpdateStatus
  <2>1. Degrade(rec.cr.st, Stage, rec.cr.pause) \in Status
    BY <1>r, DegradeFacts DEF SameStages
  <2>2. [obj EXCEPT !.st = Degrade(rec.cr.st, Stage, rec.cr.pause)] \in Database
    BY <1>t, <2>1, ObjectStatusFacts
  <2>3. obj' \in Database /\ fresh' \in BOOLEAN
    BY <1>12, <1>t, <2>2 DEF UpdateStatus
  <2> QED BY <1>12, <1>t, <1>e, <2>3 DEF UpdateStatus, refs, ydb, TypeOK, Sts, Rec
<1>13. CASE CacheSync
  BY <1>13, <1>t DEF CacheSync, refs, ydb, TypeOK, Sts, Rec
<1>14. CASE StorageProgress
  BY <1>14, <1>t DEF StorageProgress, kube, ydb, TypeOK, Sts, Rec
<1>15. CASE SharedProgress
  BY <1>15, <1>t DEF SharedProgress, kube, ydb, TypeOK, Sts, Rec
<1>26. CASE SharedSetback
  BY <1>26, <1>t, <1>f DEF SharedSetback, kube, ydb, TypeOK, Sts, Rec
<1>16. CASE ScaleStep
  BY <1>16, <1>t, PodFacts DEF ScaleStep, kube, refs, ydb, TypeOK, Sts, Rec
<1>17. CASE OperationEnds
  <2>1. ops' \in Ops /\ tenant' \in BOOLEAN
    BY <1>17, <1>t DEF OperationEnds
  <2> QED BY <1>17, <1>t, <2>1 DEF OperationEnds, kube, refs, TypeOK, Sts, Rec
<1>18. CASE OperationFails
  <2>1. ops' \in Ops /\ faults' \in 0..MaxFaults
    BY <1>18, <1>t, <1>f DEF OperationFails
  <2> QED BY <1>18, <1>t, <2>1 DEF OperationFails, kube, refs, TypeOK, Sts, Rec
<1>19. CASE UserUpdate
  BY <1>19, <1>t, UserUpdateFacts DEF UserUpdate, refs, ydb, TypeOK, Sts, Rec
<1>20. CASE OwnedEvent
  BY <1>20, <1>t DEF OwnedEvent, kube, refs, ydb, TypeOK, Sts, Rec
<1>21. CASE LosePod
  BY <1>21, <1>t, <1>f, PodFacts DEF LosePod, kube, refs, ydb, TypeOK, Sts, Rec
<1>22. CASE CreateDatabaseLost
  <2>1. ops' \in Ops /\ tenant' \in BOOLEAN
    BY <1>22, <1>t DEF CreateDatabaseLost, ydb
  <2> QED BY <1>22, <1>t, <1>e, <1>f, <2>1 DEF CreateDatabaseLost, kube, refs, TypeOK, Sts, Rec
<1>23. CASE ApiError
  BY <1>23, <1>t, <1>e, <1>f DEF ApiError, kube, refs, ydb, TypeOK, Sts, Rec
<1>24. CASE Crash
  BY <1>24, <1>t, <1>f, IdleFacts DEF Crash, refs, ydb, TypeOK, Sts, Rec
<1>25. CASE UNCHANGED vars
  BY <1>25, <1>t DEF vars, TypeOK, Sts, Rec
<1> QED
  BY <1>1, <1>2, <1>3, <1>4, <1>5, <1>6, <1>7, <1>8, <1>9, <1>10, <1>11, <1>12, <1>13,
     <1>14, <1>15, <1>16, <1>17, <1>18, <1>19, <1>20, <1>21, <1>22, <1>23, <1>24, <1>25,
     <1>26
  DEF Next, Controller

\* TypeOK holds in every reachable state.
THEOREM TypeCorrect == Spec => []TypeOK
BY InitType, NextType, PTL DEF Spec

-----------------------------------------------------------------------------
(***************************************************************************)
(* The lifecycle of a status.                                              *)
(***************************************************************************)

\* A status that reports the same stages follows, and may be written instead of
\* one that follows.
LEMMA SameFollows ==
  ASSUME NEW a \in Status, NEW b, SameStages(a, b), NEW serverless \in BOOLEAN
  PROVE  Follows(a, b, serverless)
BY DEF SameStages, Follows, IsStatusConditionTrue, Stage

LEMMA FollowsSame ==
  ASSUME NEW a \in Status, NEW b \in Status, NEW c, NEW serverless \in BOOLEAN,
         Follows(a, b, serverless), SameStages(b, c)
  PROVE  Follows(a, c, serverless)
<1>1. c.state = b.state /\ c.conds["Initialized"] = b.conds["Initialized"]
  BY DEF SameStages, Stage
<1> QED BY <1>1 DEF Follows, IsStatusConditionTrue

\* A condition other than Initialized.
LEMMA CondFollows ==
  ASSUME NEW a \in Status, NEW type \in {"Prepared", "Provisioned"},
         NEW status \in CondStatus, NEW serverless \in BOOLEAN
  PROVE  /\ Follows(a, WithCond(a, type, status), serverless)
         /\ WithCond(a, type, status).conds["Initialized"] = a.conds["Initialized"]
<1>1. type \in CondType /\ "Initialized" \in CondType /\ type # "Initialized"
  BY Names
<1>2. /\ WithCond(a, type, status).state = a.state
      /\ WithCond(a, type, status).conds["Initialized"] = a.conds["Initialized"]
  BY <1>1, WithCondFacts
<1> QED BY <1>2 DEF Follows, IsStatusConditionTrue

\* The three steps from one stage to the next.
LEMMA StageFollows ==
  ASSUME NEW a \in Status, NEW serverless \in BOOLEAN
  PROVE  /\ a.state = "Pending"
              => LET b == WithStateAndCond(a, "Preparing", "Prepared", "Unknown")
                 IN  /\ Follows(a, b, serverless)
                     /\ b.conds["Initialized"] = a.conds["Initialized"]
         /\ (/\ a.state = "Preparing"
             /\ IsStatusConditionTrue(a.conds, "Prepared")
             /\ ~IsStatusConditionTrue(a.conds, "Initialized"))
              => LET b == WithStateAndCond(a, "Initializing", "Initialized", "False")
                 IN  /\ Follows(a, b, serverless)
                     /\ b.conds["Initialized"] = "False"
         /\ (/\ a.state = "Initializing"
             /\ IsStatusConditionTrue(a.conds, "Initialized"))
              => LET b == WithStateAndCond(a, "Provisioning", "Provisioned", "Unknown")
                 IN  /\ Follows(a, b, serverless)
                     /\ b.conds["Initialized"] = a.conds["Initialized"]
<1>1. /\ "Prepared" \in CondType /\ "Initialized" \in CondType /\ "Provisioned" \in CondType
      /\ "False" \in CondStatus /\ "Unknown" \in CondStatus
      /\ "Preparing" \in ClusterState /\ "Initializing" \in ClusterState
      /\ "Provisioning" \in ClusterState
  BY Names
<1>2. \A state \in ClusterState, type \in {"Prepared", "Provisioned"} :
        LET b == WithStateAndCond(a, state, type, "Unknown")
        IN  b.state = state /\ b.conds["Initialized"] = a.conds["Initialized"]
  <2> TAKE state \in ClusterState, type \in {"Prepared", "Provisioned"}
  <2>1. type \in CondType /\ type # "Initialized"
    BY <1>1
  <2> DEFINE b == WithStateAndCond(a, state, type, "Unknown")
  <2>2. /\ b.state = state
        /\ \A c \in CondType : b.conds[c] = IF c = type THEN "Unknown" ELSE a.conds[c]
    BY <1>1, <2>1, WithStateAndCondFacts
  <2> QED BY <1>1, <2>1, <2>2
<1>3. LET b == WithStateAndCond(a, "Initializing", "Initialized", "False")
      IN  b.state = "Initializing" /\ b.conds["Initialized"] = "False"
  BY <1>1, WithStateAndCondFacts
<1>4. ASSUME a.state = "Pending"
      PROVE  LET b == WithStateAndCond(a, "Preparing", "Prepared", "Unknown")
             IN  Follows(a, b, serverless) /\ b.conds["Initialized"] = a.conds["Initialized"]
  BY <1>1, <1>2, <1>4 DEF Follows, IsStatusConditionTrue
<1>5. ASSUME a.state = "Preparing", IsStatusConditionTrue(a.conds, "Prepared"),
             ~IsStatusConditionTrue(a.conds, "Initialized")
      PROVE  LET b == WithStateAndCond(a, "Initializing", "Initialized", "False")
             IN  Follows(a, b, serverless) /\ b.conds["Initialized"] = "False"
  <2>1. "Prepared" \in Done(a, serverless)
    BY <1>5 DEF Done, Stage
  <2> QED BY <1>3, <1>5, <2>1 DEF Follows
<1>6. ASSUME a.state = "Initializing", IsStatusConditionTrue(a.conds, "Initialized")
      PROVE  LET b == WithStateAndCond(a, "Provisioning", "Provisioned", "Unknown")
             IN  Follows(a, b, serverless) /\ b.conds["Initialized"] = a.conds["Initialized"]
  <2>1. "Initialized" \in Done(a, serverless)
    BY <1>6 DEF Done, Stage
  <2> DEFINE b == WithStateAndCond(a, "Provisioning", "Provisioned", "Unknown")
  <2>2. b.state = "Provisioning" /\ b.conds["Initialized"] = a.conds["Initialized"]
    BY <1>1, <1>2
  <2> HIDE DEF b
  <2>3. Follows(a, b, serverless)
    BY <1>6, <2>1, <2>2 DEF Follows, IsStatusConditionTrue
  <2> QED BY <2>2, <2>3 DEF b
<1> QED BY <1>4, <1>5, <1>6

\* Initialization is reported, and never taken back.
LEMMA InitializedFollows ==
  ASSUME NEW a \in Status, NEW serverless \in BOOLEAN
  PROVE  Follows(a, Initialized(a), serverless)
BY InitializedFacts DEF Follows, IsStatusConditionTrue

\* The resource reaches its goal, or changes it, when everything is provisioned.
LEMMA PauseResumeFollows ==
  ASSUME NEW a \in Status, NEW serverless \in BOOLEAN, NEW pause \in BOOLEAN,
         IsStatusConditionTrue(a.conds, "Provisioned") \/ serverless
  PROVE  /\ Follows(a, PauseResume(a, pause), serverless)
         /\ PauseResume(a, pause).conds["Initialized"] = a.conds["Initialized"]
<1> DEFINE b == PauseResume(a, pause)
<1>1. /\ b.conds["Initialized"] = a.conds["Initialized"]
      /\ \/ b.state = a.state
         \/ a.state = "Provisioning" /\ b.state \in {"Ready", "Paused"}
         \/ a.state \in {"Ready", "Paused"} /\ b.state \in {"Ready", "Paused"} \ {a.state}
  BY PauseResumeFacts DEF Stage
<1>2. a.state \in {"Provisioning", "Ready", "Paused"} => "Provisioned" \in Done(a, serverless)
  BY DEF Done, Stage
<1> HIDE DEF b
<1>3. Follows(a, b, serverless)
  BY <1>1, <1>2 DEF Follows, IsStatusConditionTrue
<1> QED BY <1>1, <1>3 DEF b

-----------------------------------------------------------------------------
(***************************************************************************)
(* The inductive invariant.                                                *)
(***************************************************************************)

\* What the CMS and the referenced resources keep: a tenant stays, and so does
\* what the steps of a reconcile have found.
WorldKept ==
  /\ tenant => tenant'
  /\ StorageInitialized => StorageInitialized'
  /\ offered => offered'
  /\ OperationInv' /\ TenantAfterStorage' /\ OfferInv'

\* A step that changes nothing of the world.
LEMMA WorldUnchanged ==
  ASSUME IInv, UNCHANGED <<tenant, ops, storage, shared, offered>>, obj'.serverless = obj.serverless
  PROVE  WorldKept
BY DEF IInv, WorldKept, OperationInv, OperationSucceeded, TenantAfterStorage,
       StorageInitialized, OfferInv

\* A step that leaves the objects and the reconcile alone.
LEMMA CopiesUnchanged ==
  ASSUME IInv, TypeOK', UNCHANGED <<obj, cache, fresh, rec>>, WorldKept
  PROVE  IInv'
<1>1. Copies' = Copies
  BY DEF Copies
<1>2. CopyInv' /\ RealInv' /\ LifeInv'
  BY <1>1 DEF IInv, CopyInv, RealInv, LifeInv, WorldKept
<1>3. StepInv'
  BY DEF IInv, StepInv, WorldKept
<1> QED BY <1>2, <1>3 DEF IInv, WorldKept

\* A step that goes on with the same copy.
LEMMA GoesOn ==
  ASSUME IInv, TypeOK', UNCHANGED <<obj, cache, fresh, tenant, ops, storage, shared, offered>>,
         rec.pc \notin {"idle", "updateStatus"},
         NEW step \in Step \ {"idle", "updateStatus"}, Goto(step), StepInv'
  PROVE  IInv'
<1>i. TypeOK /\ CopyInv /\ RealInv /\ OperationInv /\ StepInv /\ LifeInv
  BY DEF IInv
<1>1. rec'.pc = step /\ rec'.behind = rec.behind /\ rec'.cr = rec.cr
  BY <1>i, GotoFacts DEF TypeOK, Rec
<1>2. Copies' = Copies
  BY <1>1 DEF Copies
<1>3. CopyInv' /\ RealInv' /\ LifeInv'
  BY <1>i, <1>1, <1>2 DEF CopyInv, RealInv, LifeInv
<1>4. WorldKept
  BY WorldUnchanged
<1> QED BY <1>3, <1>4 DEF IInv, WorldKept

\* A step that decides for a status, which follows and claims nothing untrue.
LEMMA Writes ==
  ASSUME IInv, TypeOK', UNCHANGED <<obj, cache, fresh>>, WorldKept,
         rec.pc \notin {"idle", "updateStatus"},
         NEW st \in Status, WriteStatus(st), Follows(rec.cr.st, st, rec.cr.serverless),
         IsStatusConditionTrue(st.conds, "Initialized") => tenant' \/ rec.cr.skipInit
  PROVE  IInv'
<1>i. TypeOK /\ CopyInv /\ RealInv /\ OperationInv /\ StepInv /\ LifeInv
  BY DEF IInv
<1>1. /\ rec'.pc = "updateStatus" /\ rec'.behind = rec.behind /\ rec'.cr.st = st
      /\ rec'.cr.skipInit = rec.cr.skipInit /\ rec'.cr.serverless = rec.cr.serverless
  BY <1>i, WriteStatusFacts DEF TypeOK, Rec
<1>2. Copies = {obj, cache, rec.cr} /\ Copies' = {obj, cache, rec'.cr}
  BY <1>1 DEF Copies
<1>3. CopyInv'
  BY <1>i, <1>1, <1>2 DEF CopyInv
<1>4. RealInv'
  BY <1>i, <1>1, <1>2 DEF RealInv, WorldKept
<1>5. LifeInv'
  BY <1>i, <1>1, <1>2 DEF LifeInv, CopyInv
<1>6. StepInv'
  BY <1>1 DEF StepInv
<1> QED BY <1>3, <1>4, <1>5, <1>6 DEF IInv, WorldKept

\* A step that ends the reconcile, and may write its status.
LEMMA Ends ==
  ASSUME IInv, TypeOK', rec'.pc = "idle", WorldKept,
         cache' \in {cache, obj}, fresh' => cache' = obj',
         obj'.skipInit = obj.skipInit, obj'.serverless = obj.serverless,
         \/ obj' = obj
         \/ rec.pc # "idle" /\ SameStages(rec.cr.st, obj'.st)
  PROVE  IInv'
<1>i. TypeOK /\ CopyInv /\ RealInv /\ OperationInv /\ StepInv /\ LifeInv
  BY DEF IInv
<1>1. Copies' = {obj', cache'}
  BY DEF Copies
<1>2. obj \in Copies /\ cache \in Copies /\ (rec.pc # "idle" => rec.cr \in Copies)
  BY DEF Copies
<1>3. CopyInv'
  BY <1>i, <1>1, <1>2 DEF CopyInv
<1>4. RealInv'
  <2>1. IsStatusConditionTrue(obj'.st.conds, "Initialized") => tenant' \/ obj'.skipInit
    <3>1. CASE obj' = obj
      BY <3>1, <1>i, <1>2 DEF RealInv, WorldKept
    <3>2. CASE rec.pc # "idle" /\ SameStages(rec.cr.st, obj'.st)
      BY <3>2, <1>i, <1>2 DEF RealInv, WorldKept, CopyInv, SameStages, Stage,
                              IsStatusConditionTrue
    <3> QED BY <3>1, <3>2
  <2>2. IsStatusConditionTrue(cache'.st.conds, "Initialized") => tenant' \/ cache'.skipInit
    BY <1>i, <1>2 DEF RealInv, WorldKept
  <2> QED BY <1>1, <2>1, <2>2 DEF RealInv
<1>5. StepInv' /\ LifeInv'
  BY DEF StepInv, LifeInv
<1> QED BY <1>3, <1>4, <1>5 DEF IInv, WorldKept

\* A reconcile starts on the cache's copy.
LEMMA ReconcileKept ==
  ASSUME IInv, TypeOK', Reconcile
  PROVE  IInv'
<1>i. TypeOK /\ CopyInv /\ RealInv
  BY DEF IInv
<1>1. /\ rec'.pc = "setInitialStatus" /\ rec'.cr = cache
      /\ rec'.behind = (cache.st # obj.st)
      /\ UNCHANGED <<obj, cache, fresh, tenant, ops, storage, shared, offered>>
  BY DEF Reconcile, kube, refs, ydb
<1>2. Copies' \subseteq Copies
  BY <1>1 DEF Copies
<1>3. CopyInv' /\ RealInv'
  BY <1>i, <1>1, <1>2 DEF CopyInv, RealInv
<1>4. StepInv' /\ LifeInv'
  BY <1>1 DEF StepInv, LifeInv
<1>5. WorldKept
  BY <1>1, WorldUnchanged
<1> QED BY <1>3, <1>4, <1>5 DEF IInv, WorldKept

\* The cache catches up, or the spec changes, in the middle of a reconcile.
LEMMA OtherCopiesKept ==
  ASSUME IInv, TypeOK', UNCHANGED <<rec, tenant, ops, storage, shared, offered>>,
         obj'.st = obj.st, obj'.skipInit = obj.skipInit, obj'.serverless = obj.serverless,
         cache' \in {cache, obj}, fresh' => cache' = obj'
  PROVE  IInv'
<1>i. TypeOK /\ CopyInv /\ RealInv /\ StepInv /\ LifeInv
  BY DEF IInv
<1>1. Copies' \subseteq Copies \cup {obj'} /\ obj \in Copies
  BY DEF Copies
<1>2. CopyInv' /\ RealInv'
  BY <1>i, <1>1 DEF CopyInv, RealInv
<1>3. StepInv' /\ LifeInv'
  BY <1>i DEF StepInv, LifeInv, StorageInitialized
<1>4. WorldKept
  BY WorldUnchanged
<1> QED BY <1>2, <1>3, <1>4 DEF IInv, WorldKept

\* The CMS makes a tenant, or starts an operation that will, when it is asked
\* to: the checks of the reconcile that asked have been made.
LEMMA TenantMade ==
  ASSUME IInv, TypeOK', rec.pc = "createTenant",
         UNCHANGED <<obj, storage, shared, offered>>, tenant => tenant',
         \/ UNCHANGED ops
         \/ \E id \in OpId : ops' = [ops EXCEPT ![id] = "running"]
  PROVE  WorldKept
<1>i. TypeOK /\ CopyInv /\ OperationInv /\ StepInv /\ OfferInv
  BY DEF IInv
<1>1. storage = "Initialized"
  BY <1>i DEF StepInv, StorageInitialized
<1>2. rec.cr.serverless = obj.serverless
  BY <1>i DEF CopyInv, Copies
<1>3. obj.serverless => offered
  BY <1>i, <1>2 DEF StepInv
<1>4. \A id \in OpId : ops'[id] = "ok" => ops[id] = "ok"
  BY <1>i DEF TypeOK
<1> QED BY <1>i, <1>1, <1>3, <1>4
        DEF WorldKept, OperationInv, OperationSucceeded, TenantAfterStorage, StorageInitialized,
            OfferInv

\* The invariant holds in every initial state.
LEMMA InitInv == Init => IInv
<1> SUFFICES ASSUME Init PROVE IInv
  OBVIOUS
<1>1. TypeOK
  BY InitType
<1>2. rec.pc = "idle" /\ Copies = {obj} /\ cache = obj
  BY IdleFacts DEF Init, Copies
<1>3. ~IsStatusConditionTrue(obj.st.conds, "Initialized")
  <2>1. "Initialized" \in CondType
    BY Names
  <2> QED BY <2>1, NewDatabaseFacts DEF Init, IsStatusConditionTrue
<1>4. CopyInv /\ RealInv /\ StepInv /\ LifeInv
  BY <1>2, <1>3 DEF CopyInv, RealInv, StepInv, LifeInv
<1>5. OperationInv /\ TenantAfterStorage /\ OfferInv
  BY DEF Init, OperationInv, OperationSucceeded, TenantAfterStorage, OfferInv
<1> QED BY <1>1, <1>4, <1>5 DEF IInv

\* Every step keeps the invariant.
LEMMA NextInv == IInv /\ [Next]_vars => IInv'
<1> SUFFICES ASSUME IInv, [Next]_vars PROVE IInv'
  OBVIOUS
<1>i. /\ TypeOK /\ CopyInv /\ RealInv /\ OperationInv /\ StepInv /\ LifeInv
      /\ TenantAfterStorage /\ OfferInv
  BY DEF IInv
<1>t. TypeOK'
  BY <1>i, NextType
<1>r. /\ rec \in Rec /\ rec.cr \in Database /\ queued \in BOOLEAN
      /\ rec.cr.pause \in BOOLEAN /\ rec.cr.serverless \in BOOLEAN
      /\ rec.cr.st \in Status
      /\ obj \in Database
  BY <1>i, DatabaseFacts DEF TypeOK, Rec
<1>n. {"True", "False", "Unknown"} \subseteq CondStatus
  BY Names
\* What the copy of the reconcile reports is true.
<1>c. rec.pc # "idle" /\ IsStatusConditionTrue(rec.cr.st.conds, "Initialized")
        => tenant \/ rec.cr.skipInit
  BY <1>i DEF RealInv, Copies
<1>e. ASSUME NEW requeue \in BOOLEAN, Return(requeue), WorldKept, UNCHANGED <<obj, cache, fresh>>
      PROVE  IInv'
  <2>1. rec'.pc = "idle"
    BY <1>e, <1>r, ReturnFacts
  <2> QED BY <1>e, <1>i, <1>t, <2>1, Ends DEF CopyInv
\* A status that reports as much as the copy, or less.
<1>w. ASSUME NEW st \in Status, WriteStatus(st), Follows(rec.cr.st, st, rec.cr.serverless),
             rec.pc \notin {"idle", "updateStatus"},
             UNCHANGED <<obj, cache, fresh>>, WorldKept,
             \/ st.conds["Initialized"] = rec.cr.st.conds["Initialized"]
             \/ st.conds["Initialized"] = "False"
      PROVE  IInv'
  <2>1. IsStatusConditionTrue(st.conds, "Initialized") => tenant' \/ rec.cr.skipInit
    BY <1>w, <1>c DEF IsStatusConditionTrue, WorldKept
  <2> QED BY <1>w, <1>t, <2>1, Writes
<1>s. ASSUME NEW st, SameStages(rec.cr.st, st), WriteStatus(st),
             rec.pc \notin {"idle", "updateStatus"},
             UNCHANGED <<obj, cache, fresh>>, WorldKept
      PROVE  IInv'
  BY <1>s, <1>r, <1>w, SameFollows DEF SameStages, Stage
<1>1. CASE Reconcile
  BY <1>1, <1>t, ReconcileKept
<1>2. CASE SetInitialStatus
  <2>u. /\ UNCHANGED <<obj, cache, fresh, tenant, ops, storage, shared, offered>>
        /\ rec.pc = "setInitialStatus"
    BY <1>2 DEF SetInitialStatus, kube, refs, ydb
  <2>1. CASE WriteStatus(InitialStatus(rec.cr.st, rec.cr.pause))
    BY <2>1, <2>u, <1>r, <1>s, InitialStatusFacts, WorldUnchanged
  <2>2. CASE Goto("waitForClusterResources")
    <3>1. StepInv'
      BY <2>2, <1>r, GotoFacts DEF StepInv, Step
    <3> QED BY <2>2, <2>u, <3>1, <1>t, GoesOn DEF Step
  <2> QED BY <1>2, <2>1, <2>2 DEF SetInitialStatus
<1>3. CASE WaitForClusterResources
  <2>u. /\ UNCHANGED <<obj, cache, fresh, tenant, ops, storage, shared, offered>>
        /\ rec.pc = "waitForClusterResources"
    BY <1>3 DEF WaitForClusterResources, kube, refs, ydb
  <2>k. WorldKept
    BY <2>u, WorldUnchanged
  <2>1. CASE /\ rec.cr.st.state = "Pending"
             /\ WriteStatus(WithStateAndCond(rec.cr.st, "Preparing", "Prepared", "Unknown"))
    BY <2>1, <2>u, <2>k, <1>r, <1>w, StageFollows, StatusTypes
  <2>2. CASE Return(TRUE)
    BY <2>2, <2>u, <2>k, <1>e
  <2>3. CASE WriteStatus(WithCond(rec.cr.st, "Prepared", "False"))
    BY <2>3, <2>u, <2>k, <1>r, <1>n, <1>w, CondFollows, StatusTypes
  <2>4. CASE StorageInitialized /\ Goto("handleResourcesSync")
    <3>1. StepInv'
      BY <2>4, <2>u, <1>r, GotoFacts DEF StepInv, Step, StorageInitialized
    <3> QED BY <2>4, <2>u, <3>1, <1>t, GoesOn DEF Step
  <2> QED BY <1>3, <2>1, <2>2, <2>3, <2>4 DEF WaitForClusterResources
<1>4. CASE HandleResourcesSync
  <2>u. /\ UNCHANGED <<obj, cache, fresh, tenant, ops, storage, shared, offered>>
        /\ rec.pc = "handleResourcesSync"
    BY <1>4 DEF HandleResourcesSync, kube, refs, ydb
  <2>k. WorldKept
    BY <2>u, WorldUnchanged
  <2>1. CASE Return(FALSE)
    BY <2>1, <2>u, <2>k, <1>e
  <2>2. CASE \/ WriteStatus(WithCond(rec.cr.st, "Prepared", "True"))
             \/ WriteStatus(WithCond(rec.cr.st, "Prepared", "False"))
    <3>1. PICK c \in {"True", "False"} : WriteStatus(WithCond(rec.cr.st, "Prepared", c))
      BY <2>2
    <3> DEFINE st == WithCond(rec.cr.st, "Prepared", c)
    <3>2. /\ st \in Status
          /\ Follows(rec.cr.st, st, rec.cr.serverless)
          /\ st.conds["Initialized"] = rec.cr.st.conds["Initialized"]
      BY <1>r, <1>n, CondFollows, StatusTypes
    <3>3. WriteStatus(st)
      BY <3>1
    <3> HIDE DEF st
    <3> QED BY <2>u, <2>k, <3>2, <3>3, <1>w
  <2>3. CASE /\ IsStatusConditionTrue(rec.cr.st.conds, "Prepared")
             /\ Goto(AfterResources(rec.cr))
    <3>1. AfterResources(rec.cr) \in Step \ {"idle", "updateStatus"}
      BY DEF AfterResources, Step
    <3>2. rec'.pc = AfterResources(rec.cr) /\ rec'.cr = rec.cr
      BY <2>3, <3>1, <1>r, GotoFacts
    <3>3. StepInv'
      BY <2>3, <2>u, <3>2, <1>i DEF StepInv, AfterResources, StorageInitialized
    <3> QED BY <2>3, <2>u, <3>1, <3>3, <1>t, GoesOn
  <2> QED BY <1>4, <2>1, <2>2, <2>3 DEF HandleResourcesSync
<1>5. CASE SetInitPipelineStatus
  <2>u. /\ UNCHANGED <<obj, cache, fresh, tenant, ops, storage, shared, offered>>
        /\ rec.pc = "setInitPipelineStatus"
    BY <1>5 DEF SetInitPipelineStatus, kube, refs, ydb
  <2>k. WorldKept
    BY <2>u, WorldUnchanged
  <2>p. /\ IsStatusConditionTrue(rec.cr.st.conds, "Prepared")
        /\ ~IsStatusConditionTrue(rec.cr.st.conds, "Initialized")
    BY <2>u, <1>i DEF StepInv
  <2>1. CASE /\ rec.cr.st.state = "Preparing"
             /\ WriteStatus(WithStateAndCond(rec.cr.st, "Initializing", "Initialized", "False"))
    BY <2>1, <2>u, <2>k, <2>p, <1>r, <1>w, StageFollows, StatusTypes
  <2>2. CASE rec.cr.skipInit /\ WriteStatus(Initialized(rec.cr.st))
    BY <2>2, <2>u, <2>k, <1>r, <1>t, InitializedFacts, InitializedFollows, Writes
  <2>3. CASE Goto("initializeTenant")
    <3>1. StepInv'
      BY <2>3, <2>u, <2>p, <1>i, <1>r, GotoFacts DEF StepInv, Step, StorageInitialized
    <3> QED BY <2>3, <2>u, <3>1, <1>t, GoesOn DEF Step
  <2> QED BY <1>5, <2>1, <2>2, <2>3 DEF SetInitPipelineStatus
<1>6. CASE InitializeTenant
  <2>u. /\ UNCHANGED <<obj, cache, fresh, tenant, ops, storage, shared, offered>>
        /\ rec.pc = "initializeTenant"
    BY <1>6 DEF InitializeTenant, kube, refs, ydb
  <2>1. CASE Return(TRUE)
    BY <2>1, <2>u, <1>e, WorldUnchanged
  <2>2. CASE TenantCanBeCreated(rec.cr) /\ Goto("createTenant")
    <3>1. rec.cr.serverless => offered
      BY <2>2, <1>i DEF TenantCanBeCreated, OfferInv
    <3>2. StepInv'
      BY <2>2, <2>u, <3>1, <1>i, <1>r, GotoFacts DEF StepInv, Step, StorageInitialized
    <3> QED BY <2>2, <2>u, <3>2, <1>t, GoesOn DEF Step
  <2> QED BY <1>6, <2>1, <2>2 DEF InitializeTenant
<1>7. CASE CreateDatabaseNow
  <2>u. /\ UNCHANGED <<obj, cache, fresh, ops, storage, shared, offered>>
        /\ rec.pc = "createTenant"
        /\ tenant' = TRUE
        /\ WriteStatus(Initialized(rec.cr.st))
    BY <1>7 DEF CreateDatabaseNow, kube, refs
  <2>1. WorldKept
    BY <2>u, <1>t, TenantMade
  <2> QED BY <2>u, <2>1, <1>r, <1>t, InitializedFacts, InitializedFollows, Writes
<1>8. CASE CreateDatabaseLater
  <2>u. /\ UNCHANGED <<obj, cache, fresh, tenant, storage, shared, offered>>
        /\ rec.pc = "createTenant"
    BY <1>8 DEF CreateDatabaseLater, kube, refs
  <2>1. PICK id \in OpId :
           /\ ops' = [ops EXCEPT ![id] = "running"]
           /\ \/ WriteStatus(WithOp(rec.cr.st, "Unknown", id))
              \/ WriteStatus(WithOp(rec.cr.st, "Unknown", 0))
    BY <1>8 DEF CreateDatabaseLater
  <2>2. WorldKept
    BY <2>u, <2>1, <1>t, TenantMade
  <2>3. id \in 0..MaxOps /\ 0 \in 0..MaxOps
    BY DatabaseAssumption DEF OpId
  <2> QED BY <2>u, <2>1, <2>2, <2>3, <1>r, <1>n, <1>s, WithOpFacts
<1>9. CASE CheckCreateDatabaseOperation
  <2>u. /\ UNCHANGED <<obj, cache, fresh, tenant, ops, storage, shared, offered>>
        /\ rec.pc = "createTenant"
    BY <1>9 DEF CheckCreateDatabaseOperation, kube, refs, ydb
  <2>k. WorldKept
    BY <2>u, WorldUnchanged
  <2>o. /\ rec.cr.st.opId \in 0..MaxOps /\ 0 \in 0..MaxOps
        /\ rec.cr.st.opId # 0 => rec.cr.st.opId \in OpId
    BY <1>r, DatabaseAssumption DEF Status, OpId
  <2>1. CASE \/ WriteStatus(WithOp(rec.cr.st, "False", 0))
             \/ WriteStatus(WithOp(rec.cr.st, "Unknown", rec.cr.st.opId))
    BY <2>1, <2>u, <2>k, <2>o, <1>r, <1>n, <1>s, WithOpFacts
  <2>2. CASE /\ rec.cr.st.opId # 0 /\ OperationSucceeded(rec.cr.st.opId)
             /\ WriteStatus(Initialized(rec.cr.st))
    <3>1. tenant
      BY <2>2, <2>o, <1>i DEF OperationInv
    <3> QED BY <2>2, <2>u, <2>k, <3>1, <1>r, <1>t, InitializedFacts, InitializedFollows, Writes
  <2> QED BY <1>9, <2>1, <2>2 DEF CheckCreateDatabaseOperation
<1>10. CASE WaitForStatefulSetToScale
  <2>u. /\ UNCHANGED <<obj, cache, fresh, tenant, ops, storage, shared, offered>>
        /\ rec.pc = "waitForStatefulSetToScale"
    BY <1>10 DEF WaitForStatefulSetToScale, kube, refs, ydb
  <2>k. WorldKept
    BY <2>u, WorldUnchanged
  <2>p. IsStatusConditionTrue(rec.cr.st.conds, "Initialized")
    BY <2>u, <1>i DEF StepInv
  <2>1. CASE /\ rec.cr.st.state = "Initializing"
             /\ WriteStatus(WithStateAndCond(rec.cr.st, "Provisioning", "Provisioned", "Unknown"))
    BY <2>1, <2>u, <2>k, <2>p, <1>r, <1>w, StageFollows, StatusTypes
  <2>2. CASE \/ WriteStatus(WithCond(rec.cr.st, "Provisioned", "True"))
             \/ WriteStatus(WithCond(rec.cr.st, "Provisioned", "False"))
    <3>1. PICK c \in {"True", "False"} : WriteStatus(WithCond(rec.cr.st, "Provisioned", c))
      BY <2>2
    <3> DEFINE st == WithCond(rec.cr.st, "Provisioned", c)
    <3>2. /\ st \in Status
          /\ Follows(rec.cr.st, st, rec.cr.serverless)
          /\ st.conds["Initialized"] = rec.cr.st.conds["Initialized"]
      BY <1>r, <1>n, CondFollows, StatusTypes
    <3>3. WriteStatus(st)
      BY <3>1
    <3> HIDE DEF st
    <3> QED BY <2>u, <2>k, <3>2, <3>3, <1>w
  <2>3. CASE /\ Goto("handlePauseResume")
             /\ rec.cr.serverless \/ IsStatusConditionTrue(rec.cr.st.conds, "Provisioned")
    <3>1. StepInv'
      BY <2>3, <1>r, GotoFacts DEF StepInv, Step
    <3> QED BY <2>3, <2>u, <3>1, <1>t, GoesOn DEF Step
  <2> QED BY <1>10, <2>1, <2>2, <2>3 DEF WaitForStatefulSetToScale
<1>11. CASE HandlePauseResume
  <2>u. /\ UNCHANGED <<obj, cache, fresh, tenant, ops, storage, shared, offered>>
        /\ rec.pc = "handlePauseResume"
    BY <1>11 DEF HandlePauseResume, kube, refs, ydb
  <2>k. WorldKept
    BY <2>u, WorldUnchanged
  <2>1. CASE WriteStatus(PauseResume(rec.cr.st, rec.cr.pause))
    <3>1. IsStatusConditionTrue(rec.cr.st.conds, "Provisioned") \/ rec.cr.serverless
      BY <2>u, <1>i DEF StepInv
    <3> DEFINE st == PauseResume(rec.cr.st, rec.cr.pause)
    <3>2. /\ st \in Status
          /\ Follows(rec.cr.st, st, rec.cr.serverless)
          /\ st.conds["Initialized"] = rec.cr.st.conds["Initialized"]
      <4>1. st \in Status
        BY <1>r, PauseResumeFacts
      <4> QED BY <3>1, <4>1, <1>r, PauseResumeFollows
    <3>3. WriteStatus(st)
      BY <2>1
    <3> HIDE DEF st
    <3> QED BY <2>u, <2>k, <3>2, <3>3, <1>w
  <2>2. CASE Return(FALSE)
    BY <2>2, <2>u, <2>k, <1>e
  <2> QED BY <1>11, <2>1, <2>2 DEF HandlePauseResume
<1>12. CASE UpdateStatus
  <2> DEFINE st == Degrade(rec.cr.st, Stage, rec.cr.pause)
  <2>u. /\ UNCHANGED <<cache, tenant, ops, storage, shared, offered>>
        /\ rec.pc = "updateStatus" /\ Return(TRUE)
    BY <1>12 DEF UpdateStatus, refs, ydb
  <2>1. SameStages(rec.cr.st, st)
    BY <1>r, DegradeFacts
  <2>2. CASE obj' = [obj EXCEPT !.st = st] /\ fresh' = FALSE
    <3>1. /\ obj'.skipInit = obj.skipInit /\ obj'.serverless = obj.serverless
          /\ obj'.st = st
      BY <2>1, <2>2, <1>r, ObjectStatusFacts DEF SameStages
    <3>2. rec'.pc = "idle"
      BY <2>u, <1>r, ReturnFacts
    <3>3. WorldKept
      BY <2>u, <3>1, WorldUnchanged
    <3> QED BY <2>u, <2>1, <2>2, <3>1, <3>2, <3>3, <1>t, Ends
  <2>3. CASE UNCHANGED <<obj, fresh>>
    <3>1. WorldKept
      BY <2>u, <2>3, WorldUnchanged
    <3> QED BY <2>u, <2>3, <3>1, <1>e
  <2> QED BY <1>12, <2>2, <2>3 DEF UpdateStatus
<1>13. CASE CacheSync
  BY <1>13, <1>t, OtherCopiesKept DEF CacheSync, refs, ydb
<1>14. CASE StorageProgress
  <2>1. WorldKept
    BY <1>14, <1>i DEF StorageProgress, kube, ydb, WorldKept, OperationInv, OperationSucceeded,
                       TenantAfterStorage, StorageInitialized, OfferInv
  <2> QED BY <1>14, <1>t, <2>1, CopiesUnchanged DEF StorageProgress, kube
<1>15. CASE SharedProgress
  <2>1. WorldKept
    BY <1>15, <1>i DEF SharedProgress, kube, ydb, WorldKept, OperationInv, OperationSucceeded,
                       TenantAfterStorage, StorageInitialized, OfferInv
  <2> QED BY <1>15, <1>t, <2>1, CopiesUnchanged DEF SharedProgress, kube
<1>26. CASE SharedSetback
  <2>1. WorldKept
    BY <1>26, <1>i DEF SharedSetback, kube, ydb, WorldKept, OperationInv, OperationSucceeded,
                       TenantAfterStorage, StorageInitialized, OfferInv
  <2> QED BY <1>26, <1>t, <2>1, CopiesUnchanged DEF SharedSetback, kube
<1>16. CASE ScaleStep
  BY <1>16, <1>t, WorldUnchanged, CopiesUnchanged DEF ScaleStep, kube, refs, ydb
<1>17. CASE OperationEnds
  <2>1. PICK id \in OpId : ops[id] = "running" /\ tenant' = TRUE
                          /\ UNCHANGED <<obj, cache, fresh, rec, storage, shared, offered>>
    BY <1>17 DEF OperationEnds, kube, refs
  <2>2. WorldKept
    BY <2>1, <1>i DEF WorldKept, OperationInv, TenantAfterStorage, StorageInitialized, OfferInv
  <2> QED BY <2>1, <2>2, <1>t, CopiesUnchanged
<1>18. CASE OperationFails
  <2>1. PICK id \in OpId : ops[id] = "running" /\ ops' = [ops EXCEPT ![id] = "error"]
    BY <1>18 DEF OperationFails
  <2>u. UNCHANGED <<obj, cache, fresh, rec, storage, shared, offered, tenant>>
    BY <1>18 DEF OperationFails, kube, refs
  <2>2. \A i \in OpId : ops'[i] = "ok" => ops[i] = "ok"
    BY <2>1, <1>i DEF TypeOK
  <2>3. WorldKept
    BY <2>u, <2>1, <2>2, <1>i DEF WorldKept, OperationInv, OperationSucceeded,
                                  TenantAfterStorage, StorageInitialized, OfferInv
  <2> QED BY <2>u, <2>3, <1>t, CopiesUnchanged
<1>19. CASE UserUpdate
  BY <1>19, <1>i, <1>t, UserUpdateFacts, OtherCopiesKept DEF UserUpdate, refs, ydb
<1>20. CASE OwnedEvent
  BY <1>20, <1>t, WorldUnchanged, CopiesUnchanged DEF OwnedEvent, kube, refs, ydb
<1>21. CASE LosePod
  BY <1>21, <1>t, WorldUnchanged, CopiesUnchanged DEF LosePod, kube, refs, ydb
<1>22. CASE CreateDatabaseLost
  <2>u. /\ UNCHANGED <<obj, cache, fresh, storage, shared, offered>> /\ Return(TRUE)
        /\ rec.pc = "createTenant"
    BY <1>22 DEF CreateDatabaseLost, kube, refs
  <2>1. /\ tenant => tenant'
        /\ \/ UNCHANGED ops
           \/ \E id \in OpId : ops' = [ops EXCEPT ![id] = "running"]
    BY <1>22 DEF CreateDatabaseLost, ydb
  <2>2. WorldKept
    BY <2>u, <2>1, <1>t, TenantMade
  <2> QED BY <2>u, <2>2, <1>e
<1>23. CASE ApiError
  BY <1>23, <1>e, WorldUnchanged DEF ApiError, kube, refs, ydb
<1>24. CASE Crash
  <2>1. rec'.pc = "idle" /\ UNCHANGED <<obj, tenant, ops, storage, shared, offered>> /\ cache' = obj
    BY <1>24, IdleFacts DEF Crash, refs, ydb
  <2> QED BY <2>1, <1>t, WorldUnchanged, Ends
<1>25. CASE UNCHANGED vars
  BY <1>25, <1>t, WorldUnchanged, CopiesUnchanged DEF vars
<1> QED
  BY <1>1, <1>2, <1>3, <1>4, <1>5, <1>6, <1>7, <1>8, <1>9, <1>10, <1>11, <1>12, <1>13,
     <1>14, <1>15, <1>16, <1>17, <1>18, <1>19, <1>20, <1>21, <1>22, <1>23, <1>24, <1>25,
     <1>26
  DEF Next, Controller

\* IInv holds in every reachable state.
THEOREM Invariance == Spec => []IInv
BY InitInv, NextInv, PTL DEF Spec

\* DatabaseInitialized is reported only when the tenant exists or the user asked
\* to skip its creation, whatever is lost, fails or is read stale.
THEOREM InitializedReal == Spec => []InitializedIsReal
<1>1. IInv => InitializedIsReal
  BY DEF IInv, RealInv, Copies, InitializedIsReal, CondTrue
<1> QED BY <1>1, Invariance, PTL

\* No tenant is made, and no operation that makes one is started, before the
\* Storage is initialized and the shared Database was provisioned once, though the
\* checks are several steps before the call, and the shared Database may go back.
THEOREM TenantComesAfterStorage == Spec => []TenantAfterStorage
<1>1. IInv => TenantAfterStorage
  BY DEF IInv
<1> QED BY <1>1, Invariance, PTL

-----------------------------------------------------------------------------
(***************************************************************************)
(* The lifecycle is implemented.                                           *)
(***************************************************************************)

\* A new Database has not started its lifecycle.
LEMMA InitLifecycle == Init => L!Init
<1> SUFFICES ASSUME Init PROVE L!Init
  OBVIOUS
<1>1. /\ obj.st.state = "Pending"
      /\ \A c \in CondType : obj.st.conds[c] = "Absent"
  BY NewDatabaseFacts DEF Init
<1>2. \A c \in Stage : ~CondTrue(c)
  BY <1>1, Names DEF CondTrue, IsStatusConditionTrue
<1>3. rec.behind = FALSE
  BY DEF Init, Idle
<1> QED BY <1>1, <1>2, <1>3 DEF L!Init

\* A status that follows the one before is a step of the lifecycle.
LEMMA FollowsIsStep ==
  ASSUME obj'.serverless = obj.serverless, Follows(obj.st, obj'.st, obj.serverless)
  PROVE  L!Next
<1> DEFINE done == Done(obj.st, obj.serverless)
           next == Done(obj'.st, obj'.serverless)
<1>1. next \in SUBSET Stage /\ ("Initialized" \in done => "Initialized" \in next)
  BY DEF Done, Follows, Stage
<1>2. L!DoneChanges
  BY <1>1 DEF L!DoneChanges, L!Stage, Stage, Done, CondTrue
<1>3. CASE obj'.st.state = obj.st.state
  BY <1>2, <1>3 DEF L!Next, L!Report
<1>4. CASE obj.st.state = "Pending" /\ obj'.st.state = "Preparing"
  BY <1>2, <1>4 DEF L!Next, L!Start
<1>5. CASE /\ obj.st.state = "Preparing" /\ "Prepared" \in done
           /\ obj'.st.state = "Initializing"
  BY <1>2, <1>5 DEF L!Next, L!Advance, Done, CondTrue
<1>6. CASE /\ obj.st.state = "Initializing" /\ "Initialized" \in done
           /\ obj'.st.state = "Provisioning"
  BY <1>2, <1>6 DEF L!Next, L!Advance, Done, CondTrue
<1>7. CASE /\ obj.st.state = "Provisioning" /\ "Provisioned" \in done
           /\ obj'.st.state \in {"Ready", "Paused"}
  BY <1>2, <1>7 DEF L!Next, L!Advance, Done, CondTrue
<1>8. CASE /\ obj.st.state \in {"Ready", "Paused"} /\ "Provisioned" \in done
           /\ obj'.st.state \in {"Ready", "Paused"} \ {obj.st.state}
  BY <1>2, <1>8 DEF L!Next, L!Toggle, Done, CondTrue
<1> QED BY <1>3, <1>4, <1>5, <1>6, <1>7, <1>8 DEF Follows

\* Only UpdateStatus changes what the lifecycle is about.
LEMMA OnlyUpdateStatusWrites ==
  ASSUME TypeOK, [Next]_vars, ~UpdateStatus
  PROVE  obj'.st = obj.st /\ obj'.serverless = obj.serverless
<1>1. CASE UserUpdate
  BY <1>1, UserUpdateFacts
<1>2. CASE ~UserUpdate
  <2>1. UNCHANGED obj
    BY <1>2 DEF Next, Controller, vars, kube, Reconcile, SetInitialStatus,
         WaitForClusterResources, HandleResourcesSync, SetInitPipelineStatus,
         InitializeTenant, CreateDatabaseNow, CreateDatabaseLater,
         CheckCreateDatabaseOperation, WaitForStatefulSetToScale, HandlePauseResume,
         CacheSync, StorageProgress, SharedProgress, SharedSetback, ScaleStep, OperationEnds,
         OperationFails, OwnedEvent, LosePod, CreateDatabaseLost, ApiError, Crash
  <2> QED BY <2>1
<1> QED BY <1>1, <1>2

\* Every step is a step of the lifecycle or none.
LEMMA NextLifecycle == IInv /\ [Next]_vars => [L!Next]_(L!vars)
<1> SUFFICES ASSUME IInv, [Next]_vars PROVE L!Next \/ UNCHANGED L!vars
  OBVIOUS
<1>i. TypeOK /\ LifeInv
  BY DEF IInv
<1>1. CASE obj'.st = obj.st /\ obj'.serverless = obj.serverless
  BY <1>1 DEF L!vars, CondTrue
<1>2. CASE UpdateStatus
  <2> DEFINE st == Degrade(rec.cr.st, Stage, rec.cr.pause)
  <2>1. CASE UNCHANGED obj
    BY <1>1, <2>1
  <2>2. CASE obj' = [obj EXCEPT !.st = st]
    <3>t. /\ obj \in Database /\ obj.st \in Status /\ obj.serverless \in BOOLEAN
          /\ rec.cr.st \in Status /\ rec.cr.pause \in BOOLEAN
      BY <1>i, DatabaseFacts DEF TypeOK
    <3>1. SameStages(rec.cr.st, st) /\ st \in Status
      BY <3>t, DegradeFacts DEF SameStages
    <3>2. obj'.st = st /\ obj'.serverless = obj.serverless
      BY <2>2, <3>t, <3>1, ObjectStatusFacts
    <3>3. CASE rec.behind
      BY <3>3 DEF L!Next, L!Slip, L!Stage, Stage
    <3>4. CASE ~rec.behind
      <4>1. Follows(obj.st, rec.cr.st, obj.serverless)
        BY <1>2, <1>i, <3>4 DEF LifeInv, UpdateStatus
      <4> HIDE DEF st
      <4>2. Follows(obj.st, st, obj.serverless)
        BY <3>t, <3>1, <4>1, FollowsSame
      <4> QED BY <3>2, <4>2, FollowsIsStep
    <3> QED BY <3>3, <3>4
  <2> QED BY <1>2, <2>1, <2>2 DEF UpdateStatus
<1> QED BY <1>i, <1>1, <1>2, OnlyUpdateStatusWrites

\* The status of a Database follows the lifecycle: for every schedule of stale
\* reads, edits, failures and crashes, what the controller does is allowed by
\* Lifecycle.
THEOREM LifecycleImplemented == Spec => ImplementsLifecycle
BY Invariance, InitLifecycle, NextLifecycle, PTL DEF Spec, ImplementsLifecycle, L!Spec

-----------------------------------------------------------------------------
(***************************************************************************)
(* No wake-up is lost.                                                     *)
(***************************************************************************)

\* A status that reports initialization is past the first two states.
Sound(st) ==
  IsStatusConditionTrue(st.conds, "Initialized") => st.state \notin {"Pending", "Preparing"}

SoundInv == \A o \in Copies : Sound(o.st)

\* A copy with the latest generation has the latest spec.
SpecInv ==
  \A o \in Copies : /\ o.gen <= obj.gen
                    /\ o.gen = obj.gen => o.pause = obj.pause /\ o.sync = obj.sync

\* What the steps of a reconcile know of its status, and of the StatefulSet.
LaterSteps == {"setInitPipelineStatus", "initializeTenant", "createTenant",
               "waitForStatefulSetToScale", "handlePauseResume"}

PathInv ==
  LET state == rec.cr.st.state
  IN  /\ rec.pc \in LaterSteps \cup {"handleResourcesSync"} => state # "Pending"
      /\ rec.pc \in LaterSteps => rec.cr.serverless \/ sts.replicas = Replicas(rec.cr)
      /\ rec.pc \in {"initializeTenant", "createTenant"} => state # "Preparing"
      /\ rec.pc = "handlePauseResume" => state \in {"Provisioning", "Ready", "Paused"}

\* Unless another request waits, a reconcile works on the generation that the
\* cache holds; and when that is the latest there is nothing left to do after it.
WakeInv ==
  ~queued => /\ rec.pc # "idle" => rec.cr.gen = cache.gen
             /\ rec.pc = "idle" /\ cache.gen = obj.gen => ~obj.sync \/ Settled \/ rec.behind

\* The parts that IInv lacks.
RestInv == SoundInv /\ SpecInv /\ PathInv /\ WakeInv

FullInv == IInv /\ RestInv

\* The types that the steps need.
LEMMA TypeFacts ==
  ASSUME IInv
  PROVE  /\ obj \in Database /\ cache \in Database /\ rec \in Rec /\ rec.cr \in Database
         /\ obj.gen \in Nat /\ cache.gen \in Nat /\ rec.cr.gen \in Nat
         /\ rec.cr.st \in Status /\ rec.cr.pause \in BOOLEAN
         /\ rec.behind \in BOOLEAN /\ queued \in BOOLEAN
BY DatabaseAssumption DEF IInv, TypeOK, Rec, Database

\* A step that decides for a status.
LEMMA WakeWrite ==
  ASSUME FullInv, UNCHANGED kube, rec.pc \notin {"idle", "updateStatus"},
         NEW st \in Status, Sound(st), WriteStatus(st), queued => queued'
  PROVE  RestInv'
<1>i. IInv /\ SoundInv /\ SpecInv /\ WakeInv
  BY DEF FullInv, RestInv
<1>u. UNCHANGED <<obj, cache>>
  BY DEF kube
<1>1. /\ rec'.pc = "updateStatus" /\ rec'.cr.st = st /\ rec'.cr.gen = rec.cr.gen
      /\ rec'.cr.pause = rec.cr.pause /\ rec'.cr.sync = rec.cr.sync
  BY <1>i, TypeFacts DEF WriteStatus, Rec, Database
<1>2. Copies = {obj, cache, rec.cr} /\ Copies' = {obj, cache, rec'.cr}
  BY <1>u, <1>1 DEF Copies
<1>3. SoundInv'
  BY <1>i, <1>1, <1>2 DEF SoundInv
<1>4. SpecInv'
  BY <1>i, <1>u, <1>1, <1>2 DEF SpecInv
<1>5. PathInv'
  BY <1>1 DEF PathInv, LaterSteps
<1>6. WakeInv'
  BY <1>i, <1>u, <1>1 DEF WakeInv
<1> QED BY <1>3, <1>4, <1>5, <1>6 DEF RestInv

\* A step that goes on with another one.
LEMMA WakeGoto ==
  ASSUME FullInv, UNCHANGED kube, rec.pc \notin {"idle", "updateStatus"},
         NEW step \in Step \ {"idle", "updateStatus"}, Goto(step), PathInv',
         queued => queued'
  PROVE  RestInv'
<1>i. IInv /\ SoundInv /\ SpecInv /\ WakeInv
  BY DEF FullInv, RestInv
<1>u. UNCHANGED <<obj, cache>>
  BY DEF kube
<1>1. rec'.pc = step /\ rec'.cr = rec.cr
  BY <1>i, TypeFacts, GotoFacts
<1>2. Copies' = Copies
  BY <1>u, <1>1 DEF Copies
<1>3. SoundInv' /\ SpecInv'
  BY <1>i, <1>u, <1>2 DEF SoundInv, SpecInv
<1>4. WakeInv'
  BY <1>i, <1>u, <1>1 DEF WakeInv
<1> QED BY <1>3, <1>4 DEF RestInv

\* A step that ends the reconcile and asks for another one, or has nothing left
\* to do if its copy has the latest generation and lacks no write.
LEMMA WakeReturn ==
  ASSUME FullInv, UNCHANGED kube, NEW requeue \in BOOLEAN, Return(requeue),
         \/ requeue
         \/ /\ rec.pc # "idle"
            /\ rec.cr.gen = obj.gen /\ ~rec.behind => ~obj.sync \/ Settled'
  PROVE  RestInv'
<1>i. IInv /\ SoundInv /\ SpecInv /\ WakeInv
  BY DEF FullInv, RestInv
<1>u. UNCHANGED <<obj, cache>>
  BY DEF kube
<1>t. queued \in BOOLEAN /\ rec \in Rec /\ rec.behind \in BOOLEAN
  BY <1>i, TypeFacts
<1>1. rec'.pc = "idle" /\ queued' = (queued \/ requeue)
  BY <1>t, ReturnFacts DEF Return
<1>b. ~queued' => rec'.behind = rec.behind
  <2>1. rec' = [Idle EXCEPT !.behind = rec.behind /\ ~queued']
    BY DEF Return
  <2>2. rec'.behind = (rec.behind /\ ~queued')
    BY <2>1 DEF Idle
  <2> QED BY <1>t, <2>2
<1>2. Copies' \subseteq Copies
  BY <1>u, <1>1 DEF Copies
<1>3. SoundInv' /\ SpecInv'
  BY <1>i, <1>u, <1>2 DEF SoundInv, SpecInv
<1>4. PathInv'
  BY <1>1 DEF PathInv, LaterSteps
<1>5. WakeInv'
  <2>1. CASE requeue
    BY <1>1, <2>1 DEF WakeInv
  <2>2. CASE /\ ~requeue /\ rec.pc # "idle"
             /\ rec.cr.gen = obj.gen /\ ~rec.behind => ~obj.sync \/ Settled'
    BY <1>i, <1>u, <1>1, <1>b, <2>2 DEF WakeInv
  <2> QED BY <2>1, <2>2
<1> QED BY <1>3, <1>4, <1>5 DEF RestInv

\* A step of the cluster that leaves the objects, the reconcile and the spec of
\* the StatefulSet alone.
LEMMA WakeElsewhere ==
  ASSUME FullInv, UNCHANGED kube, UNCHANGED rec, queued => queued',
         sts'.replicas = sts.replicas
  PROVE  RestInv'
<1>i. IInv /\ SoundInv /\ SpecInv /\ PathInv /\ WakeInv
  BY DEF FullInv, RestInv
<1>u. UNCHANGED <<obj, cache>>
  BY DEF kube
<1>2. Copies' = Copies
  BY <1>u DEF Copies
<1>3. SoundInv' /\ SpecInv'
  BY <1>i, <1>u, <1>2 DEF SoundInv, SpecInv
<1>4. PathInv'
  BY <1>i DEF PathInv, Replicas
<1>5. WakeInv'
  BY <1>i, <1>u DEF WakeInv, Settled, CondTrue, Replicas
<1> QED BY <1>3, <1>4, <1>5 DEF RestInv

\* A worker takes the request.
LEMMA WakeReconcile ==
  ASSUME FullInv, Reconcile
  PROVE  RestInv'
<1>i. SoundInv /\ SpecInv
  BY DEF FullInv, RestInv
<1>1. rec'.pc = "setInitialStatus" /\ rec'.cr = cache /\ UNCHANGED <<obj, cache>>
  BY DEF Reconcile, kube
<1>2. Copies' \subseteq Copies
  BY <1>1 DEF Copies
<1>3. SoundInv' /\ SpecInv'
  BY <1>i, <1>1, <1>2 DEF SoundInv, SpecInv
<1>4. PathInv' /\ WakeInv'
  BY <1>1 DEF PathInv, LaterSteps, WakeInv
<1> QED BY <1>3, <1>4 DEF RestInv

\* The status is written, or the write refused.
LEMMA WakeUpdate ==
  ASSUME FullInv, UpdateStatus
  PROVE  RestInv'
<1>i. IInv /\ SoundInv /\ SpecInv
  BY DEF FullInv, RestInv
<1>t. /\ obj \in Database /\ rec.cr.st \in Status /\ rec.cr.pause \in BOOLEAN
      /\ rec \in Rec /\ queued \in BOOLEAN
  BY <1>i, TypeFacts
<1>u. UNCHANGED cache /\ Return(TRUE) /\ rec.pc = "updateStatus"
  BY DEF UpdateStatus
<1>1. CASE UNCHANGED <<obj, fresh>>
  BY <1>1, <1>u, WakeReturn DEF kube
<1>2. CASE obj' = [obj EXCEPT !.st = Degrade(rec.cr.st, Stage, rec.cr.pause)]
  <2> DEFINE st == Degrade(rec.cr.st, Stage, rec.cr.pause)
  <2>1. obj \in Copies /\ cache \in Copies /\ rec.cr \in Copies
    BY <1>u DEF Copies
  <2>2. SameStages(rec.cr.st, st)
    BY <1>t, DegradeFacts
  <2>3. obj' = [obj EXCEPT !.st = st]
    BY <1>2
  <2> HIDE DEF st
  <2>4. Sound(st)
    BY <1>i, <2>1, <2>2 DEF SoundInv, Sound, SameStages, Stage, IsStatusConditionTrue
  <2>5. /\ obj'.st = st /\ obj'.gen = obj.gen
        /\ obj'.pause = obj.pause /\ obj'.sync = obj.sync
    BY <1>t, <2>2, <2>3 DEF Database, SameStages
  <2>6. rec'.pc = "idle" /\ queued'
    BY <1>t, <1>u, ReturnFacts DEF Return
  <2>7. Copies' = {obj', cache}
    BY <1>u, <2>6 DEF Copies
  <2>8. SoundInv'
    BY <1>i, <2>1, <2>4, <2>5, <2>7 DEF SoundInv
  <2>9. SpecInv'
    BY <1>i, <1>t, <2>1, <2>5, <2>7 DEF SpecInv
  <2>10. PathInv' /\ WakeInv'
    BY <2>6 DEF PathInv, WakeInv, LaterSteps
  <2> QED BY <2>8, <2>9, <2>10 DEF RestInv
<1> QED BY <1>1, <1>2 DEF UpdateStatus

\* The cache catches up, or is filled by the restarted operator.
LEMMA WakeCache ==
  ASSUME FullInv, CacheSync \/ Crash
  PROVE  RestInv'
<1>i. IInv /\ SoundInv /\ SpecInv /\ PathInv /\ WakeInv
  BY DEF FullInv, RestInv
<1>t. queued \in BOOLEAN
  BY <1>i, TypeFacts
<1>1. /\ cache' = obj /\ UNCHANGED <<obj, sts>>
      /\ \/ UNCHANGED rec /\ queued' = (queued \/ SpecChanged)
         \/ rec' = Idle /\ queued'
  BY DEF CacheSync, Crash
<1>2. Copies' \subseteq Copies
  BY <1>1, IdleFacts DEF Copies
<1>3. SoundInv' /\ SpecInv'
  BY <1>i, <1>1, <1>2 DEF SoundInv, SpecInv
<1>4. PathInv'
  BY <1>i, <1>1, IdleFacts DEF PathInv, LaterSteps, Replicas
<1>5. WakeInv'
  BY <1>i, <1>t, <1>1 DEF WakeInv, SpecChanged, Settled, CondTrue, Replicas
<1> QED BY <1>3, <1>4, <1>5 DEF RestInv

\* The user edits the spec: its event is still to come.
LEMMA WakeEdit ==
  ASSUME FullInv, UserUpdate
  PROVE  RestInv'
<1>i. IInv /\ SoundInv /\ SpecInv /\ PathInv /\ WakeInv
  BY DEF FullInv, RestInv
<1>t. obj \in Database /\ obj.gen \in Nat /\ cache.gen \in Nat
  BY <1>i, TypeFacts
<1>c. \A o \in Copies : o.gen \in Nat
  BY <1>i, TypeFacts DEF Copies
<1>1. /\ obj'.st = obj.st /\ obj'.gen = obj.gen + 1
      /\ UNCHANGED <<cache, queued, rec, sts>>
  BY <1>t DEF UserUpdate, Database
<1>2. Copies' \subseteq Copies \cup {obj'} /\ obj \in Copies /\ cache \in Copies
  BY <1>1 DEF Copies
<1>3. SoundInv'
  BY <1>i, <1>1, <1>2 DEF SoundInv
<1>4. SpecInv'
  <2>1. obj'.gen <= obj'.gen
    BY <1>t, <1>1
  <2>2. \A o \in Copies : o.gen <= obj'.gen /\ o.gen # obj'.gen
    BY <1>i, <1>t, <1>c, <1>1 DEF SpecInv
  <2> QED BY <1>2, <2>1, <2>2 DEF SpecInv
<1>5. PathInv'
  BY <1>i, <1>1 DEF PathInv, Replicas
<1>6. WakeInv'
  <2>1. cache.gen # obj'.gen
    BY <1>i, <1>t, <1>1, <1>2 DEF SpecInv
  <2> QED BY <1>i, <1>1, <2>1 DEF WakeInv
<1> QED BY <1>3, <1>4, <1>5, <1>6 DEF RestInv

\* handlePauseResume has nothing to do for a resource that is where it should be.
LEMMA PauseResumeDone ==
  ASSUME NEW a \in Status, NEW pause \in BOOLEAN,
         a.state \in {"Provisioning", "Ready", "Paused"}, PauseResume(a, pause) = a
  PROVE  a.state = Goal(pause) /\ IsStatusConditionTrue(a.conds, Goal(pause))
<1>1. /\ Goal(pause) \in CondType /\ Goal(pause) \in ClusterState
      /\ Goal(pause) \in {"Ready", "Paused"}
      /\ "True" \in CondStatus /\ "False" \in CondStatus
      /\ "Ready" \in CondType /\ "Ready" \in ClusterState
      /\ "Paused" \in CondType /\ "Paused" \in ClusterState
  BY Names
<1>2. a.state # "Provisioning"
  <2>1. WithStateAndCond(a, Goal(pause), Goal(pause), "True").state = Goal(pause)
    BY <1>1, WithStateAndCondFacts
  <2> QED BY <1>1, <2>1 DEF PauseResume
<1>3. ~(a.state = "Ready" /\ pause)
  <2>1. WithStateAndCond(a, "Paused", "Ready", "False").state = "Paused"
    BY <1>1, WithStateAndCondFacts
  <2> QED BY <2>1 DEF PauseResume
<1>4. ~(a.state = "Paused" /\ ~pause)
  <2>1. WithStateAndCond(a, "Ready", "Paused", "False").state = "Ready"
    BY <1>1, WithStateAndCondFacts
  <2> QED BY <2>1 DEF PauseResume
<1>5. WithCond(a, Goal(pause), "True") = a
  BY <1>2, <1>3, <1>4 DEF PauseResume
<1>6. WithCond(a, Goal(pause), "True").conds[Goal(pause)] = "True"
  <2>1. \A c \in CondType : WithCond(a, Goal(pause), "True").conds[c] =
                            IF c = Goal(pause) THEN "True" ELSE a.conds[c]
    BY <1>1, WithCondFacts
  <2> QED BY <1>1, <2>1
<1>7. a.state = Goal(pause)
  BY <1>2, <1>3, <1>4 DEF Goal
<1> QED BY <1>5, <1>6, <1>7 DEF IsStatusConditionTrue

\* The invariant holds in every initial state.
LEMMA InitFullInv == Init => FullInv
<1> SUFFICES ASSUME Init PROVE FullInv
  OBVIOUS
<1>1. IInv
  BY InitInv
<1>2. rec.pc = "idle" /\ cache = obj /\ queued /\ Copies = {obj} /\ obj.gen = 1
  BY IdleFacts DEF Init, Copies, NewDatabase
<1>3. "Initialized" \in CondType
  BY Names
<1>4. ~IsStatusConditionTrue(obj.st.conds, "Initialized")
  BY <1>3, NewDatabaseFacts DEF Init, IsStatusConditionTrue
<1>5. SoundInv /\ SpecInv /\ WakeInv
  BY <1>2, <1>4 DEF SoundInv, Sound, SpecInv, WakeInv
<1>6. PathInv
  BY <1>2 DEF PathInv, LaterSteps
<1> QED BY <1>1, <1>5, <1>6 DEF FullInv, RestInv

\* Every step keeps the invariant.
LEMMA NextFullInv == FullInv /\ [Next]_vars => FullInv'
<1> SUFFICES ASSUME FullInv, [Next]_vars PROVE FullInv'
  OBVIOUS
<1>i. IInv /\ SoundInv /\ SpecInv /\ PathInv /\ WakeInv /\ StepInv /\ LifeInv
  BY DEF FullInv, RestInv, IInv
<1>T. IInv'
  BY <1>i, NextInv
<1> SUFFICES RestInv'
  BY <1>T DEF FullInv
<1>t. /\ rec \in Rec /\ rec.cr \in Database /\ rec.cr.st \in Status
      /\ rec.cr.pause \in BOOLEAN /\ queued \in BOOLEAN
  BY <1>i, TypeFacts
<1>n. {"True", "False", "Unknown"} \subseteq CondStatus
  BY Names
<1>r. rec.pc # "idle" => Sound(rec.cr.st)
  BY <1>i DEF SoundInv, Copies
\* A status with the state and the initialization that the copy reports.
<1>s. ASSUME NEW st \in Status, WriteStatus(st), UNCHANGED kube, queued => queued',
             rec.pc \notin {"idle", "updateStatus"}, st.state = rec.cr.st.state,
             st.conds["Initialized"] = rec.cr.st.conds["Initialized"]
      PROVE  RestInv'
  <2>1. Sound(st)
    BY <1>s, <1>r DEF Sound, IsStatusConditionTrue
  <2> QED BY <1>s, <2>1, WakeWrite
<1>1. CASE Reconcile
  BY <1>1, WakeReconcile
<1>2. CASE SetInitialStatus
  <2>u. UNCHANGED kube /\ UNCHANGED queued /\ rec.pc = "setInitialStatus"
    BY <1>2 DEF SetInitialStatus
  <2>1. CASE WriteStatus(InitialStatus(rec.cr.st, rec.cr.pause))
    <3>1. SameStages(rec.cr.st, InitialStatus(rec.cr.st, rec.cr.pause))
      BY <1>t, InitialStatusFacts
    <3> QED BY <1>s, <2>u, <2>1, <3>1 DEF SameStages, Stage
  <2>2. CASE Goto("waitForClusterResources")
    <3>1. rec'.pc = "waitForClusterResources"
      BY <1>t, <2>2, GotoFacts DEF Step
    <3>2. PathInv'
      BY <3>1 DEF PathInv, LaterSteps
    <3> QED BY <2>2, <2>u, <3>2, WakeGoto DEF Step
  <2> QED BY <1>2, <2>1, <2>2 DEF SetInitialStatus
<1>3. CASE WaitForClusterResources
  <2>u. UNCHANGED kube /\ rec.pc = "waitForClusterResources"
    BY <1>3 DEF WaitForClusterResources
  <2>1. CASE /\ rec.cr.st.state = "Pending" /\ UNCHANGED queued
             /\ WriteStatus(WithStateAndCond(rec.cr.st, "Preparing", "Prepared", "Unknown"))
    <3> DEFINE st == WithStateAndCond(rec.cr.st, "Preparing", "Prepared", "Unknown")
    <3>1. st \in Status /\ st.conds["Initialized"] = rec.cr.st.conds["Initialized"]
      BY <1>t, <2>1, StageFollows, StatusTypes
    <3>2. WriteStatus(st)
      BY <2>1
    <3> HIDE DEF st
    <3>3. Sound(st)
      BY <1>r, <2>u, <2>1, <3>1 DEF Sound, IsStatusConditionTrue
    <3> QED BY <2>u, <2>1, <3>1, <3>2, <3>3, WakeWrite
  <2>2. CASE Return(TRUE)
    BY <2>2, <2>u, WakeReturn
  <2>3. CASE UNCHANGED queued /\ WriteStatus(WithCond(rec.cr.st, "Prepared", "False"))
    <3> DEFINE st == WithCond(rec.cr.st, "Prepared", "False")
    <3>0. "False" \in CondStatus /\ "Prepared" \in CondType
      BY Names
    <3>1. /\ st \in Status /\ st.state = rec.cr.st.state
          /\ st.conds["Initialized"] = rec.cr.st.conds["Initialized"]
      BY <1>t, <3>0, WithCondFacts, CondFollows
    <3>2. WriteStatus(st)
      BY <2>3
    <3> HIDE DEF st
    <3> QED BY <1>s, <2>u, <2>3, <3>1, <3>2
  <2>4. CASE /\ UNCHANGED queued /\ rec.cr.st.state # "Pending"
             /\ Goto("handleResourcesSync")
    <3>1. rec'.pc = "handleResourcesSync" /\ rec'.cr = rec.cr
      BY <1>t, <2>4, GotoFacts DEF Step
    <3>2. PathInv'
      BY <2>4, <3>1 DEF PathInv, LaterSteps
    <3> QED BY <2>4, <2>u, <3>2, WakeGoto DEF Step
  <2> QED BY <1>3, <2>1, <2>2, <2>3, <2>4 DEF WaitForClusterResources
<1>4. CASE HandleResourcesSync
  <2>u. UNCHANGED kube /\ rec.pc = "handleResourcesSync"
    BY <1>4 DEF HandleResourcesSync
  <2>p. rec.cr.st.state # "Pending"
    BY <1>i, <2>u DEF PathInv
  <2>1. CASE ~rec.cr.sync /\ Return(FALSE)
    <3>1. rec.cr.gen = obj.gen => ~obj.sync
      BY <1>i, <2>u, <2>1 DEF SpecInv, Copies
    <3> QED BY <2>1, <2>u, <3>1, WakeReturn
  <2>q. ASSUME SyncStatefulSet(rec.cr) \/ UNCHANGED <<sts, queued>>
        PROVE  queued => queued'
    BY <1>t, <2>q DEF SyncStatefulSet
  <2>2. CASE /\ SyncStatefulSet(rec.cr) \/ UNCHANGED <<sts, queued>>
             /\ \/ WriteStatus(WithCond(rec.cr.st, "Prepared", "True"))
                \/ WriteStatus(WithCond(rec.cr.st, "Prepared", "False"))
    <3>1. PICK c \in {"True", "False"} : WriteStatus(WithCond(rec.cr.st, "Prepared", c))
      BY <2>2
    <3> DEFINE st == WithCond(rec.cr.st, "Prepared", c)
    <3>2. c \in CondStatus /\ "Prepared" \in CondType
      BY <1>n, Names
    <3>3. /\ st \in Status /\ st.state = rec.cr.st.state
          /\ st.conds["Initialized"] = rec.cr.st.conds["Initialized"]
      BY <1>t, <3>2, WithCondFacts, CondFollows
    <3>4. WriteStatus(st)
      BY <3>1
    <3> HIDE DEF st
    <3> QED BY <1>s, <2>q, <2>u, <2>2, <3>3, <3>4
  <2>3. CASE SyncStatefulSet(rec.cr) /\ Goto(AfterResources(rec.cr))
    <3>1. AfterResources(rec.cr) \in {"setInitPipelineStatus", "waitForStatefulSetToScale"}
      BY DEF AfterResources
    <3>2. AfterResources(rec.cr) \in Step \ {"idle", "updateStatus"}
      BY <3>1 DEF Step
    <3>3. rec'.pc = AfterResources(rec.cr) /\ rec'.cr = rec.cr
      BY <1>t, <2>3, <3>2, GotoFacts
    <3>4. rec.cr.serverless \/ sts'.replicas = Replicas(rec.cr)
      <4>1. sts \in Sts
        BY <1>i DEF IInv, TypeOK, Sts
      <4> QED BY <2>3, <4>1 DEF SyncStatefulSet, Sts
    <3>5. PathInv'
      BY <2>p, <3>1, <3>3, <3>4 DEF PathInv, LaterSteps, Replicas
    <3> QED BY <2>3, <2>q, <2>u, <3>2, <3>5, WakeGoto
  <2> QED BY <1>4, <2>1, <2>2, <2>3 DEF HandleResourcesSync
<1>5. CASE SetInitPipelineStatus
  <2>u. UNCHANGED kube /\ UNCHANGED queued /\ UNCHANGED sts /\ rec.pc = "setInitPipelineStatus"
    BY <1>5 DEF SetInitPipelineStatus
  <2>p. /\ rec.cr.st.state # "Pending"
        /\ rec.cr.serverless \/ sts.replicas = Replicas(rec.cr)
    BY <1>i, <2>u DEF PathInv, LaterSteps
  <2>1. CASE WriteStatus(WithStateAndCond(rec.cr.st, "Initializing", "Initialized", "False"))
    <3> DEFINE st == WithStateAndCond(rec.cr.st, "Initializing", "Initialized", "False")
    <3>1. "Initializing" \in ClusterState /\ "Initialized" \in CondType /\ "False" \in CondStatus
      BY Names
    <3>2. st \in Status /\ st.state = "Initializing"
      BY <1>t, <3>1, WithStateAndCondFacts
    <3>3. WriteStatus(st)
      BY <2>1
    <3> HIDE DEF st
    <3>4. Sound(st)
      BY <3>2 DEF Sound
    <3> QED BY <2>u, <3>2, <3>3, <3>4, WakeWrite
  <2>2. CASE rec.cr.st.state # "Preparing" /\ WriteStatus(Initialized(rec.cr.st))
    <3>1. Initialized(rec.cr.st) \in Status /\ Sound(Initialized(rec.cr.st))
      BY <1>t, <2>p, <2>2, InitializedFacts DEF Sound
    <3> QED BY <2>u, <2>2, <3>1, WakeWrite
  <2>3. CASE rec.cr.st.state # "Preparing" /\ Goto("initializeTenant")
    <3>1. rec'.pc = "initializeTenant" /\ rec'.cr = rec.cr
      BY <1>t, <2>3, GotoFacts DEF Step
    <3>2. PathInv'
      BY <2>u, <2>p, <2>3, <3>1 DEF PathInv, LaterSteps, Replicas
    <3> QED BY <2>3, <2>u, <3>2, WakeGoto DEF Step
  <2> QED BY <1>5, <2>1, <2>2, <2>3 DEF SetInitPipelineStatus
<1>6. CASE InitializeTenant
  <2>u. /\ UNCHANGED kube /\ UNCHANGED sts
        /\ rec.pc = "initializeTenant"
    BY <1>6 DEF InitializeTenant
  <2>1. CASE Return(TRUE)
    BY <1>6, <2>1, WakeReturn DEF InitializeTenant
  <2>2. CASE Goto("createTenant") /\ UNCHANGED queued
    <3>1. rec'.pc = "createTenant" /\ rec'.cr = rec.cr
      BY <1>t, <2>2, GotoFacts DEF Step
    <3>2. PathInv'
      BY <1>i, <2>u, <3>1 DEF PathInv, LaterSteps, Replicas
    <3> QED BY <2>2, <2>u, <3>2, WakeGoto DEF Step
  <2> QED BY <1>6, <2>1, <2>2 DEF InitializeTenant
\* A call of the CMS ends with a status to write.
<1>7. CASE CreateDatabaseNow \/ CreateDatabaseLater \/ CheckCreateDatabaseOperation
  <2>u. UNCHANGED kube /\ UNCHANGED queued /\ rec.pc = "createTenant"
    BY <1>7 DEF CreateDatabaseNow, CreateDatabaseLater, CheckCreateDatabaseOperation
  <2>p. rec.cr.st.state \notin {"Pending", "Preparing"}
    BY <1>i, <2>u DEF PathInv, LaterSteps
  <2>1. CASE WriteStatus(Initialized(rec.cr.st))
    <3>1. Initialized(rec.cr.st) \in Status /\ Sound(Initialized(rec.cr.st))
      BY <1>t, <2>p, InitializedFacts DEF Sound
    <3> QED BY <2>u, <2>1, <3>1, WakeWrite
  <2>2. ASSUME NEW c \in CondStatus, NEW id \in 0..MaxOps, WriteStatus(WithOp(rec.cr.st, c, id))
        PROVE  RestInv'
    <3>1. SameStages(rec.cr.st, WithOp(rec.cr.st, c, id))
      BY <1>t, WithOpFacts
    <3> QED BY <1>s, <2>u, <2>2, <3>1 DEF SameStages, Stage
  <2>3. rec.cr.st.opId \in 0..MaxOps /\ 0 \in 0..MaxOps /\ \A id \in OpId : id \in 0..MaxOps
    BY <1>t, DatabaseAssumption DEF Status, OpId
  <2>4. \/ WriteStatus(Initialized(rec.cr.st))
        \/ \E c \in CondStatus, id \in 0..MaxOps : WriteStatus(WithOp(rec.cr.st, c, id))
    <3>0. "Unknown" \in CondStatus /\ "False" \in CondStatus
      BY <1>n
    <3>1. CASE CreateDatabaseNow
      BY <3>1 DEF CreateDatabaseNow
    <3>2. CASE CreateDatabaseLater
      <4>1. PICK id \in OpId : \/ WriteStatus(WithOp(rec.cr.st, "Unknown", id))
                              \/ WriteStatus(WithOp(rec.cr.st, "Unknown", 0))
        BY <3>2 DEF CreateDatabaseLater
      <4> QED BY <2>3, <3>0, <4>1
    <3>3. CASE CheckCreateDatabaseOperation
      <4>1. \/ WriteStatus(WithOp(rec.cr.st, "False", 0))
            \/ WriteStatus(WithOp(rec.cr.st, "Unknown", rec.cr.st.opId))
            \/ WriteStatus(Initialized(rec.cr.st))
        BY <3>3 DEF CheckCreateDatabaseOperation
      <4> QED BY <2>3, <3>0, <4>1
    <3> QED BY <1>7, <3>1, <3>2, <3>3
  <2> QED BY <2>1, <2>2, <2>4
<1>8. CASE WaitForStatefulSetToScale
  <2>u. /\ UNCHANGED kube /\ UNCHANGED queued /\ UNCHANGED sts
        /\ rec.pc = "waitForStatefulSetToScale"
    BY <1>8 DEF WaitForStatefulSetToScale
  <2>p. /\ rec.cr.st.state \notin {"Pending", "Preparing"}
        /\ rec.cr.serverless \/ sts.replicas = Replicas(rec.cr)
    BY <1>i, <1>r, <2>u DEF PathInv, StepInv, LaterSteps, Sound
  <2>1. CASE WriteStatus(WithStateAndCond(rec.cr.st, "Provisioning", "Provisioned", "Unknown"))
    <3> DEFINE st == WithStateAndCond(rec.cr.st, "Provisioning", "Provisioned", "Unknown")
    <3>1. "Provisioning" \in ClusterState /\ "Provisioned" \in CondType /\ "Unknown" \in CondStatus
      BY Names
    <3>2. st \in Status /\ st.state = "Provisioning"
      BY <1>t, <3>1, WithStateAndCondFacts
    <3>3. WriteStatus(st)
      BY <2>1
    <3> HIDE DEF st
    <3>4. Sound(st)
      BY <3>2 DEF Sound
    <3> QED BY <2>u, <3>2, <3>3, <3>4, WakeWrite
  <2>2. CASE \/ WriteStatus(WithCond(rec.cr.st, "Provisioned", "True"))
             \/ WriteStatus(WithCond(rec.cr.st, "Provisioned", "False"))
    <3>1. PICK c \in {"True", "False"} : WriteStatus(WithCond(rec.cr.st, "Provisioned", c))
      BY <2>2
    <3> DEFINE st == WithCond(rec.cr.st, "Provisioned", c)
    <3>2. c \in CondStatus /\ "Provisioned" \in CondType
      BY <1>n, Names
    <3>3. /\ st \in Status /\ st.state = rec.cr.st.state
          /\ st.conds["Initialized"] = rec.cr.st.conds["Initialized"]
      BY <1>t, <3>2, WithCondFacts, CondFollows
    <3>4. WriteStatus(st)
      BY <3>1
    <3> HIDE DEF st
    <3> QED BY <1>s, <2>u, <3>3, <3>4
  <2>3. CASE rec.cr.st.state # "Initializing" /\ Goto("handlePauseResume")
    <3>1. rec'.pc = "handlePauseResume" /\ rec'.cr = rec.cr
      BY <1>t, <2>3, GotoFacts DEF Step
    <3>2. rec.cr.st.state \in {"Provisioning", "Ready", "Paused"}
      BY <1>t, <2>p, <2>3 DEF Status, ClusterState
    <3>3. PathInv'
      BY <2>u, <2>p, <3>1, <3>2 DEF PathInv, LaterSteps, Replicas
    <3> QED BY <2>3, <2>u, <3>3, WakeGoto DEF Step
  <2> QED BY <1>8, <2>1, <2>2, <2>3 DEF WaitForStatefulSetToScale
<1>9. CASE HandlePauseResume
  <2> DEFINE st == PauseResume(rec.cr.st, rec.cr.pause)
  <2>u. UNCHANGED kube /\ UNCHANGED sts /\ rec.pc = "handlePauseResume"
    BY <1>9 DEF HandlePauseResume
  <2>p. /\ rec.cr.st.state \in {"Provisioning", "Ready", "Paused"}
        /\ rec.cr.serverless \/ sts.replicas = Replicas(rec.cr)
    BY <1>i, <2>u DEF PathInv, LaterSteps
  <2>1. CASE WriteStatus(st) /\ UNCHANGED queued
    <3>1. st \in Status /\ st.state \in {"Provisioning", "Ready", "Paused"}
      BY <1>t, <2>p, PauseResumeFacts
    <3>2. WriteStatus(st)
      BY <2>1
    <3> HIDE DEF st
    <3>3. Sound(st)
      BY <3>1 DEF Sound
    <3> QED BY <2>u, <2>1, <3>1, <3>2, <3>3, WakeWrite
  <2>2. CASE st = rec.cr.st /\ Return(FALSE)
    <3>1. ASSUME rec.cr.gen = obj.gen, ~rec.behind PROVE Settled'
      <4>1. rec.cr.pause = obj.pause /\ rec.cr.serverless = obj.serverless
        BY <1>i, <2>u, <3>1 DEF SpecInv, Copies, IInv, CopyInv
      <4>2. rec.cr.st = obj.st
        BY <1>i, <2>u, <3>1 DEF LifeInv
      <4>3. /\ rec.cr.st.state = Goal(rec.cr.pause)
            /\ IsStatusConditionTrue(rec.cr.st.conds, Goal(rec.cr.pause))
        BY <1>t, <2>p, <2>2, PauseResumeDone
      <4>4. UNCHANGED <<obj, sts>>
        BY <2>u DEF kube
      <4> HIDE DEF st
      <4> QED BY <2>p, <4>1, <4>2, <4>3, <4>4 DEF Settled, Goal, Replicas, CondTrue
    <3> QED BY <2>u, <2>2, <3>1, WakeReturn
  <2> QED BY <1>9, <2>1, <2>2 DEF HandlePauseResume
<1>10. CASE UpdateStatus
  BY <1>10, WakeUpdate
<1>11. CASE CacheSync \/ Crash
  BY <1>11, WakeCache
<1>12. CASE UserUpdate
  BY <1>12, WakeEdit
<1>13. CASE ApiError \/ CreateDatabaseLost
  BY <1>13, WakeReturn DEF ApiError, CreateDatabaseLost
<1>14. CASE \/ OwnedEvent \/ StorageProgress \/ SharedProgress \/ SharedSetback \/ ScaleStep \/ LosePod
            \/ OperationEnds \/ OperationFails \/ UNCHANGED vars
  <2>1. UNCHANGED kube /\ UNCHANGED rec
    BY <1>14 DEF OwnedEvent, StorageProgress, SharedProgress, SharedSetback, ScaleStep, LosePod,
                 OperationEnds, OperationFails, vars, kube
  <2>2. queued => queued'
    <3>1. OwnedEvent \/ UNCHANGED queued
      BY <1>14 DEF StorageProgress, SharedProgress, SharedSetback, ScaleStep, LosePod,
                   OperationEnds, OperationFails, vars
    <3>2. CASE OwnedEvent
      BY <3>2 DEF OwnedEvent
    <3>3. CASE UNCHANGED queued
      BY <3>3
    <3> QED BY <3>1, <3>2, <3>3
  <2>3. sts'.replicas = sts.replicas
    <3>1. sts \in Sts
      BY <1>i DEF IInv, TypeOK, Sts
    <3> QED BY <1>14, <3>1 DEF OwnedEvent, StorageProgress, SharedProgress, SharedSetback, ScaleStep, LosePod,
                               OperationEnds, OperationFails, vars, Sts
  <2> QED BY <2>1, <2>2, <2>3, WakeElsewhere
<1> QED
  BY <1>1, <1>2, <1>3, <1>4, <1>5, <1>6, <1>7, <1>8, <1>9, <1>10, <1>11, <1>12,
     <1>13, <1>14 DEF Next, Controller

\* FullInv holds in every reachable state.
THEOREM FullInvariance == Spec => []FullInv
BY InitFullInv, NextFullInv, PTL DEF Spec

\* No wake-up is lost: when the controller has nothing queued, nothing in flight
\* and a cache that caught up, the Database is settled, or its operatorSync is
\* off, or the last reconcile lacked the controller's own last status write.
THEOREM NoLostWakeUp == Spec => []QuiescentIsSettled
<1>1. FullInv => QuiescentIsSettled
  BY DEF FullInv, RestInv, IInv, CopyInv, WakeInv, QuiescentIsSettled
<1> QED BY <1>1, FullInvariance, PTL
=============================================================================
