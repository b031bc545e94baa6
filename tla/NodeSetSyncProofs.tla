------------------------- MODULE NodeSetSyncProofs --------------------------
(***************************************************************************)
(* Proofs about NodeSetSync, for both kinds of NodeSets, every number of   *)
(* nodes, edits and faults, and whether or not the cache lags.             *)
(*                                                                         *)
(* ProvisionedIsCurrent is not inductive.  A reconcile may work on an old  *)
(* copy and put the StatefulSet back to an old generation, and it may      *)
(* write a status over a newer spec.  That no claim becomes false by this  *)
(* rests on the order of the copies: what a status says was found out on a *)
(* copy that is not newer than the one the reconcile in flight works on,   *)
(* because there is one worker and the cache never goes back.              *)
(***************************************************************************)
EXTENDS NodeSetSync, TLAPS

\* The copies of the object: on the API server, in the cache, in the reconcile.
Copies == {obj, cache} \cup {o \in {rec.cr} : rec.pc # "idle"}

\* The copies are ordered by their age, and the generation identifies the spec.
OrderInv ==
  /\ fresh => cache = obj
  /\ cache.gen <= obj.gen
  /\ cache.gen = obj.gen => cache.pause = obj.pause
  /\ rec.pc # "idle" => /\ rec.cr.gen <= cache.gen
                        /\ rec.cr.gen = cache.gen => rec.cr.pause = cache.pause

\* No status speaks of a generation that the cache, or the reconcile in flight,
\* does not have.
DateInv ==
  \A o \in Copies : /\ o.st.provGen <= cache.gen
                    /\ rec.pc # "idle" => o.st.provGen <= rec.cr.gen

\* The StatefulSet is the one that the spec of o asks for.
Current(o) == sts.gen = o.gen \/ (o.pause /\ sts.replicas = 0)

\* The status st reports the NodeSet provisioned at generation gen.
Claims(st, gen) == IsStatusConditionTrue(st.conds, "Provisioned") /\ st.provGen = gen

\* What a copy reports about the spec of a copy is true.
ClaimInv == \A o, p \in Copies : Claims(o.st, p.gen) => Current(p)

\* waitForStatefulSetToScale looks at the StatefulSet of its own spec.
StepInv == rec.pc = "waitForStatefulSetToScale" => Current(rec.cr)

IInv == TypeOK /\ OrderInv /\ DateInv /\ ClaimInv /\ StepInv

-----------------------------------------------------------------------------
(***************************************************************************)
(* The operators that change a status or an object.                        *)
(***************************************************************************)

State == ClusterState \ {"Initializing"}

\* SetStatusCondition keeps the type of a status and changes one condition.
LEMMA WithCondFacts ==
  ASSUME NEW st \in Status, NEW type \in CondType, NEW status \in CondStatus
  PROVE  /\ WithCond(st, type, status) \in Status
         /\ \A c \in CondType : WithCond(st, type, status).conds[c] =
                                  IF c = type THEN status ELSE st.conds[c]
         /\ WithCond(st, type, status).provGen = st.provGen
BY DEF WithCond, SetStatusCondition, Status

\* The same for a status whose state changes too.
LEMMA WithStateAndCondFacts ==
  ASSUME NEW st \in Status, NEW state \in State,
         NEW type \in CondType, NEW status \in CondStatus
  PROVE  /\ WithStateAndCond(st, state, type, status) \in Status
         /\ \A c \in CondType : WithStateAndCond(st, state, type, status).conds[c] =
                                  IF c = type THEN status ELSE st.conds[c]
         /\ WithStateAndCond(st, state, type, status).provGen = st.provGen
BY DEF WithStateAndCond, WithCond, SetStatusCondition, Status, State

\* The NodeSetProvisioned condition comes with the generation at hand.
LEMMA WithProvisionedFacts ==
  ASSUME NEW st \in Status, NEW status \in CondStatus, rec.cr.gen \in 1..MaxGen
  PROVE  /\ WithProvisioned(st, status) \in Status
         /\ WithProvisioned(st, status).conds["Provisioned"] = status
         /\ WithProvisioned(st, status).provGen = rec.cr.gen
         /\ [WithProvisioned(st, status) EXCEPT !.state = "Provisioning"] \in Status
         /\ [WithProvisioned(st, status) EXCEPT !.state = "Provisioning"].conds["Provisioned"]
               = status
         /\ [WithProvisioned(st, status) EXCEPT !.state = "Provisioning"].provGen = rec.cr.gen
<1>1. /\ "Provisioned" \in CondType
      /\ "Provisioning" \in ClusterState \ {"Initializing"}
      /\ rec.cr.gen \in 0..MaxGen
  BY NodeSetAssumption DEF CondType, Stage, ClusterState
<1>2. /\ WithCond(st, "Provisioned", status) \in Status
      /\ WithCond(st, "Provisioned", status).conds["Provisioned"] = status
  BY <1>1, WithCondFacts
<1>3. /\ WithProvisioned(st, status) \in Status
      /\ WithProvisioned(st, status).conds["Provisioned"] = status
      /\ WithProvisioned(st, status).provGen = rec.cr.gen
  BY <1>1, <1>2 DEF WithProvisioned, Status
<1> QED BY <1>1, <1>3 DEF Status

\* The names of conditions and states.
LEMMA Names ==
  /\ {"Prepared", "Provisioned", "Paused", "Ready"} \subseteq CondType
  /\ {"Unknown", "True", "False"} \subseteq CondStatus
  /\ {"Pending", "Preparing", "Provisioning", "Ready", "Paused"} \subseteq State
  /\ \A pause \in BOOLEAN : Goal(pause) \in {"Ready", "Paused"}
BY DEF CondType, Stage, CondStatus, ClusterState, State, Goal

\* A status st2 says of Provisioned what st1 says.
SameClaim(st1, st2) ==
  /\ st2 \in Status
  /\ st2.provGen = st1.provGen
  /\ st2.conds["Provisioned"] = st1.conds["Provisioned"]

\* Setting another condition changes no claim; the shared parts of the pipeline
\* only touch Ready and Paused.
LEMMA OtherCondFacts ==
  ASSUME NEW st \in Status, NEW type \in {"Ready", "Paused", "Prepared"}, NEW status \in CondStatus,
         NEW state \in State
  PROVE  /\ SameClaim(st, WithCond(st, type, status))
         /\ SameClaim(st, WithStateAndCond(st, state, type, status))
<1>1. type \in CondType /\ "Provisioned" \in CondType /\ type # "Provisioned"
  BY Names
<1>2. SameClaim(st, WithCond(st, type, status))
  BY <1>1, WithCondFacts DEF SameClaim
<1>3. SameClaim(st, WithStateAndCond(st, state, type, status))
  BY <1>1, WithStateAndCondFacts DEF SameClaim
<1> QED BY <1>2, <1>3

LEMMA InitialStatusFacts ==
  ASSUME NEW st \in Status, NEW pause \in BOOLEAN
  PROVE  SameClaim(st, InitialStatus(st, pause))
<1>1. Goal(pause) \in {"Ready", "Paused"} /\ "Unknown" \in CondStatus /\ "Ready" \in State
  BY Names
<1> QED BY <1>1, OtherCondFacts DEF InitialStatus

LEMMA PauseResumeFacts ==
  ASSUME NEW st \in Status, NEW pause \in BOOLEAN
  PROVE  SameClaim(st, PauseResume(st, pause))
<1>1. /\ Goal(pause) \in {"Ready", "Paused"} /\ Goal(pause) \in State
      /\ "True" \in CondStatus /\ "False" \in CondStatus
      /\ "Ready" \in State /\ "Paused" \in State
  BY Names
<1>2. /\ SameClaim(st, WithStateAndCond(st, Goal(pause), Goal(pause), "True"))
      /\ SameClaim(st, WithStateAndCond(st, "Paused", "Ready", "False"))
      /\ SameClaim(st, WithStateAndCond(st, "Ready", "Paused", "False"))
      /\ SameClaim(st, WithCond(st, Goal(pause), "True"))
  BY <1>1, OtherCondFacts
<1> QED BY <1>2 DEF PauseResume

LEMMA DegradeFacts ==
  ASSUME NEW st \in Status, NEW pause \in BOOLEAN
  PROVE  SameClaim(st, Degrade(st, Stage, pause))
<1>1. Goal(pause) \in {"Ready", "Paused"} /\ "False" \in CondStatus /\ "Ready" \in State
  BY Names
<1>2. SameClaim(st, WithCond(st, Goal(pause), "False"))
  BY <1>1, OtherCondFacts
<1>3. Degrade(st, Stage, pause) \in {st, WithCond(st, Goal(pause), "False")}
  BY DEF Degrade
<1> QED BY <1>2, <1>3 DEF SameClaim

\* The object as its owner creates it, which an idle worker holds too.
LEMMA NewNodeSetFacts ==
  /\ \A pause \in BOOLEAN : /\ NewNodeSet(pause) \in NodeSet
                            /\ NewNodeSet(pause).gen = 1
                            /\ NewNodeSet(pause).st.provGen = 0
                            /\ NewNodeSet(pause).st.conds["Provisioned"] = "Absent"
  /\ Idle \in [pc : Step, cr : NodeSet]
  /\ Idle.pc = "idle"
<1>1. ASSUME NEW pause \in BOOLEAN
      PROVE  /\ NewNodeSet(pause) \in NodeSet
             /\ NewNodeSet(pause).gen = 1
             /\ NewNodeSet(pause).st.provGen = 0
             /\ NewNodeSet(pause).st.conds["Provisioned"] = "Absent"
  <2>1. [state |-> "Pending", conds |-> [c \in CondType |-> "Absent"], provGen |-> 0] \in Status
    BY NodeSetAssumption DEF Status, ClusterState, CondStatus
  <2>2. "Provisioned" \in CondType
    BY Names
  <2> QED BY <2>1, <2>2, NodeSetAssumption DEF NewNodeSet, NodeSet
<1> QED BY <1>1 DEF Idle, Step

\* The fields of an object.
LEMMA NodeSetFacts ==
  ASSUME NEW o \in NodeSet
  PROVE  /\ o.gen \in 1..MaxGen /\ o.gen \in Nat
         /\ o.pause \in BOOLEAN
         /\ o.st \in Status
         /\ o.st.provGen \in Nat
BY NodeSetAssumption DEF NodeSet, Status

\* A step of the reconcile: its copy keeps its spec.
LEMMA WriteStatusFacts ==
  ASSUME rec \in [pc : Step, cr : NodeSet], NEW st \in Status, WriteStatus(st)
  PROVE  /\ rec' \in [pc : Step, cr : NodeSet]
         /\ rec'.pc = "updateStatus"
         /\ rec'.cr.gen = rec.cr.gen /\ rec'.cr.pause = rec.cr.pause
         /\ rec'.cr.st = st
BY DEF WriteStatus, NodeSet, Step

LEMMA GotoFacts ==
  ASSUME rec \in [pc : Step, cr : NodeSet], NEW step \in Step, Goto(step)
  PROVE  /\ rec' \in [pc : Step, cr : NodeSet]
         /\ rec'.pc = step
         /\ rec'.cr = rec.cr
BY DEF Goto

\* A status written on the API server leaves the spec alone.
LEMMA ObjectStatusFacts ==
  ASSUME NEW o \in NodeSet, NEW st \in Status
  PROVE  /\ [o EXCEPT !.st = st] \in NodeSet
         /\ [o EXCEPT !.st = st].gen = o.gen
         /\ [o EXCEPT !.st = st].pause = o.pause
         /\ [o EXCEPT !.st = st].st = st
BY DEF NodeSet

\* An edit of the owner makes a new generation and leaves the status alone.
LEMMA OwnerUpdateFacts ==
  ASSUME TypeOK, OwnerUpdate
  PROVE  obj' \in NodeSet /\ obj'.gen = obj.gen + 1 /\ obj'.st = obj.st
<1>1. PICK pause, sync \in BOOLEAN :
           obj' = [obj EXCEPT !.gen = @ + 1, !.pause = pause, !.sync = sync]
  BY DEF OwnerUpdate
<1>2. obj \in NodeSet /\ obj.gen + 1 \in 1..MaxGen
  BY NodeSetAssumption DEF TypeOK, OwnerUpdate, NodeSet
<1> QED BY <1>1, <1>2 DEF NodeSet

Sts == [gen : 0..MaxGen, replicas : {0, Nodes}, ready : 0..Nodes, rolled : BOOLEAN]

\* The StatefulSet controller changes the Pods, and nothing that is desired.
LEMMA PodFacts ==
  ASSUME sts \in Sts, ScaleStep \/ RollPod \/ LosePod
  PROVE  sts' \in Sts /\ sts'.gen = sts.gen /\ sts'.replicas = sts.replicas
<1>1. /\ sts.ready \in 0..Nodes /\ sts.replicas \in 0..Nodes
      /\ sts.ready # 0 => sts.ready - 1 \in 0..Nodes
      /\ sts.ready < sts.replicas => sts.ready + 1 \in 0..Nodes
      /\ 0 \in 0..Nodes
  BY NodeSetAssumption DEF Sts
<1>2. CASE ScaleStep
  <2>1. /\ sts' = [sts EXCEPT !.ready = IF @ < sts.replicas THEN @ + 1 ELSE @ - 1]
        /\ sts.ready # sts.replicas
    BY <1>2 DEF ScaleStep
  <2>2. sts.ready < sts.replicas \/ sts.ready # 0
    BY <1>1, <2>1, NodeSetAssumption
  <2> QED BY <1>1, <2>1, <2>2 DEF Sts
<1>3. CASE RollPod
  BY <1>1, <1>3 DEF RollPod, Sts
<1>4. CASE LosePod
  BY <1>1, <1>4 DEF LosePod, Sts
<1> QED BY <1>2, <1>3, <1>4

\* handleResourcesSync leaves the StatefulSet as the spec at hand asks for it.
LEMMA SyncStatefulSetFacts ==
  ASSUME sts \in Sts, queued \in BOOLEAN, NEW cr \in NodeSet, SyncStatefulSet(cr)
  PROVE  /\ sts' \in Sts /\ queued' \in BOOLEAN
         /\ sts'.gen = cr.gen \/ (cr.pause /\ sts'.replicas = 0)
         /\ sts' = sts \/ sts'.gen = cr.gen
<1>1. CASE ShouldIgnoreChange(cr) \/ sts.gen = cr.gen
  BY <1>1 DEF SyncStatefulSet, ShouldIgnoreChange
<1>2. CASE ~(ShouldIgnoreChange(cr) \/ sts.gen = cr.gen)
  <2>1. /\ sts' = [sts EXCEPT !.gen = cr.gen, !.replicas = Replicas(cr),
                             !.rolled = (sts.gen = 0)]
        /\ queued' = (queued \/ sts.gen # 0)
    BY <1>2 DEF SyncStatefulSet
  <2>2. cr.gen \in 0..MaxGen /\ Replicas(cr) \in {0, Nodes} /\ (sts.gen = 0) \in BOOLEAN
    BY NodeSetFacts, NodeSetAssumption DEF Replicas
  <2>3. queued' \in BOOLEAN
    BY <2>1
  <2> QED BY <2>1, <2>2, <2>3 DEF Sts
<1> QED BY <1>1, <1>2

-----------------------------------------------------------------------------
(***************************************************************************)
(* Types.                                                                  *)
(***************************************************************************)

\* Every initial state has the types.
LEMMA InitType == Init => TypeOK
<1> SUFFICES ASSUME Init PROVE TypeOK
  OBVIOUS
<1>1. obj \in NodeSet /\ cache \in NodeSet /\ rec \in [pc : Step, cr : NodeSet]
  BY NewNodeSetFacts DEF Init
<1>2. /\ sts \in Sts
      /\ faults \in 0..MaxFaults
  BY NodeSetAssumption DEF Init, Sts
<1> QED BY <1>1, <1>2 DEF Init, TypeOK, Sts

\* Every step keeps the types.
LEMMA NextType == TypeOK /\ [Next]_vars => TypeOK'
<1> SUFFICES ASSUME TypeOK, [Next]_vars PROVE TypeOK'
  OBVIOUS
<1> DEFINE Rec == [pc : Step, cr : NodeSet]
<1>t. /\ obj \in NodeSet /\ cache \in NodeSet
      /\ rec \in Rec /\ rec.cr \in NodeSet
      /\ fresh \in BOOLEAN /\ stale \in BOOLEAN /\ queued \in BOOLEAN
      /\ sts \in Sts
      /\ faults \in 0..MaxFaults
  BY DEF TypeOK, Sts
<1>i. Idle \in Rec
  BY NewNodeSetFacts
<1>r. /\ rec.cr.gen \in 1..MaxGen
      /\ rec.cr.pause \in BOOLEAN
      /\ rec.cr.st \in Status
  BY <1>t, NodeSetFacts
<1>w. ASSUME NEW st \in Status, WriteStatus(st) PROVE rec' \in Rec
  BY <1>w, <1>t, WriteStatusFacts
<1>g. ASSUME NEW step \in Step, Goto(step) PROVE rec' \in Rec
  BY <1>g, <1>t, GotoFacts
<1>f. faults < MaxFaults => faults + 1 \in 0..MaxFaults
  BY <1>t, NodeSetAssumption
<1>1. CASE Reconcile
  <2>1. rec' \in Rec
    BY <1>1, <1>t DEF Reconcile, Step
  <2> QED BY <1>1, <1>t, <2>1 DEF Reconcile, CacheRead, TypeOK, Sts
<1>2. CASE SetInitialStatus
  <2>1. InitialStatus(rec.cr.st, rec.cr.pause) \in Status
    BY <1>r, InitialStatusFacts DEF SameClaim
  <2>2. rec' \in Rec
    BY <1>2, <2>1, <1>w, <1>g DEF SetInitialStatus, Step
  <2> QED BY <1>2, <1>t, <2>2 DEF SetInitialStatus, kube, TypeOK, Sts
<1>3. CASE HandleResourcesSync
  <2>1. /\ WithStateAndCond(rec.cr.st, "Preparing", "Prepared", "Unknown") \in Status
        /\ WithCond(rec.cr.st, "Prepared", "True") \in Status
        /\ WithCond(rec.cr.st, "Prepared", "False") \in Status
    BY <1>r, Names, WithCondFacts, WithStateAndCondFacts
  <2>2. rec' \in Rec
    BY <1>3, <2>1, <1>i, <1>w, <1>g DEF HandleResourcesSync, Return, Step
  <2>3. sts' \in Sts /\ queued' \in BOOLEAN
    BY <1>3, <1>t, SyncStatefulSetFacts DEF HandleResourcesSync, Return
  <2>4. faults' \in 0..MaxFaults
    BY <1>3, <1>t, <1>f DEF HandleResourcesSync
  <2> QED BY <1>3, <1>t, <2>2, <2>3, <2>4 DEF HandleResourcesSync, kube, TypeOK, Sts
<1>4. CASE RecoverPanic
  BY <1>4, <1>t, <1>i DEF RecoverPanic, Return, kube, TypeOK, Sts
<1>5. CASE WaitForStatefulSetToScale
  <2>1. /\ WithProvisioned(rec.cr.st, "True") \in Status
        /\ WithProvisioned(rec.cr.st, "False") \in Status
        /\ [WithProvisioned(rec.cr.st, "Unknown") EXCEPT !.state = "Provisioning"] \in Status
    BY <1>r, Names, WithProvisionedFacts
  <2>2. rec' \in Rec
    BY <1>5, <2>1, <1>w, <1>g DEF WaitForStatefulSetToScale, Step
  <2> QED BY <1>5, <1>t, <2>2 DEF WaitForStatefulSetToScale, kube, TypeOK, Sts
<1>6. CASE HandlePauseResume
  <2>1. PauseResume(rec.cr.st, rec.cr.pause) \in Status
    BY <1>r, PauseResumeFacts DEF SameClaim
  <2>2. rec' \in Rec /\ queued' \in BOOLEAN
    BY <1>6, <2>1, <1>t, <1>i, <1>w DEF HandlePauseResume, Return
  <2> QED BY <1>6, <1>t, <2>2 DEF HandlePauseResume, kube, TypeOK, Sts
<1>7. CASE UpdateStatus
  <2>1. Degrade(rec.cr.st, Stage, rec.cr.pause) \in Status
    BY <1>r, DegradeFacts DEF SameClaim
  <2>2. [obj EXCEPT !.st = Degrade(rec.cr.st, Stage, rec.cr.pause)] \in NodeSet
    BY <1>t, <2>1, ObjectStatusFacts
  <2>3. obj' \in NodeSet /\ fresh' \in BOOLEAN
    BY <1>7, <1>t, <2>2 DEF UpdateStatus
  <2> QED BY <1>7, <1>t, <1>i, <2>3 DEF UpdateStatus, CacheRead, Return, TypeOK, Sts
<1>8. CASE ScaleStep
  BY <1>8, <1>t, PodFacts DEF ScaleStep, kube, TypeOK, Sts
<1>9. CASE RollPod
  BY <1>9, <1>t, PodFacts DEF RollPod, kube, TypeOK, Sts
<1>10. CASE LosePod
  BY <1>10, <1>t, <1>f, PodFacts DEF LosePod, kube, TypeOK, Sts
<1>11. CASE CacheSync
  BY <1>11, <1>t DEF CacheSync, TypeOK, Sts
<1>12. CASE OwnerUpdate
  BY <1>12, <1>t, OwnerUpdateFacts DEF OwnerUpdate, TypeOK, Sts
<1>13. CASE OwnedEvent
  BY <1>13, <1>t DEF OwnedEvent, kube, TypeOK, Sts
<1>14. CASE ApiError
  BY <1>14, <1>t, <1>i, <1>f DEF ApiError, Return, kube, TypeOK, Sts
<1>15. CASE Crash
  BY <1>15, <1>t, <1>i, <1>f DEF Crash, TypeOK, Sts
<1>16. CASE UNCHANGED vars
  BY <1>16, <1>t DEF vars, TypeOK, Sts
<1> QED
  BY <1>1, <1>2, <1>3, <1>4, <1>5, <1>6, <1>7, <1>8, <1>9, <1>10, <1>11, <1>12,
     <1>13, <1>14, <1>15, <1>16 DEF Next, Controller

\* TypeOK holds in every reachable state.
THEOREM TypeCorrect == Spec => []TypeOK
BY InitType, NextType, PTL DEF Spec

-----------------------------------------------------------------------------
(***************************************************************************)
(* The inductive invariant.                                                *)
(***************************************************************************)

\* The order of the copies, in numbers.
LEMMA OrderFacts ==
  ASSUME TypeOK, OrderInv
  PROVE  /\ obj.gen \in Nat /\ cache.gen \in Nat /\ rec.cr.gen \in Nat
         /\ \A o \in Copies : o \in NodeSet /\ o.gen \in Nat /\ o.st.provGen \in Nat
         /\ \A o \in Copies : o.gen <= obj.gen
         /\ rec.pc # "idle" => \A o \in Copies : /\ rec.cr.gen <= o.gen
                                                 /\ o.gen = rec.cr.gen => o.pause = rec.cr.pause
<1>1. /\ obj \in NodeSet /\ cache \in NodeSet /\ rec.cr \in NodeSet
      /\ \A o \in Copies : o \in NodeSet
  BY DEF TypeOK, Copies
<1>2. obj.gen \in Nat /\ cache.gen \in Nat /\ rec.cr.gen \in Nat
  BY <1>1, NodeSetFacts
<1>3. \A o \in Copies : o.gen \in Nat /\ o.st.provGen \in Nat
  BY <1>1, NodeSetFacts
<1>4. \A o \in Copies : o.gen <= obj.gen
  BY <1>2 DEF OrderInv, Copies
<1>5. ASSUME rec.pc # "idle", NEW o \in Copies
      PROVE  rec.cr.gen <= o.gen /\ (o.gen = rec.cr.gen => o.pause = rec.cr.pause)
  BY <1>2, <1>5 DEF OrderInv, Copies
<1> QED BY <1>1, <1>2, <1>3, <1>4, <1>5

\* A step that changes no copy, and nothing that the StatefulSet is asked for.
LEMMA CopiesUnchanged ==
  ASSUME IInv, TypeOK', UNCHANGED <<obj, cache, fresh, rec>>,
         sts'.gen = sts.gen, sts'.replicas = sts.replicas
  PROVE  IInv'
<1>1. Copies' = Copies
  BY DEF Copies
<1> QED
  BY <1>1 DEF IInv, OrderInv, DateInv, ClaimInv, StepInv, Current, Claims

\* A step within a reconcile gives its copy a status: a new claim must be true.
\* The StatefulSet may become the one of the copy at hand.
LEMMA WithinReconcile ==
  ASSUME IInv, TypeOK', UNCHANGED <<obj, cache, fresh>>,
         rec.pc # "idle", rec'.pc # "idle",
         rec'.cr.gen = rec.cr.gen, rec'.cr.pause = rec.cr.pause,
         \/ sts' = sts
         \/ sts'.gen = rec.cr.gen,
         rec'.pc = "waitForStatefulSetToScale" => Current(rec.cr)',
         \/ /\ rec'.cr.st.provGen = rec.cr.st.provGen
            /\ rec'.cr.st.conds["Provisioned"] = rec.cr.st.conds["Provisioned"]
         \/ /\ rec'.cr.st.provGen = rec.cr.gen
            /\ rec'.cr.st.conds["Provisioned"] = "True" => Current(rec.cr)'
  PROVE  IInv'
<1>i. TypeOK /\ OrderInv /\ DateInv /\ ClaimInv /\ StepInv
  BY DEF IInv
<1>1. /\ Copies = {obj, cache, rec.cr}
      /\ Copies' = {obj, cache, rec'.cr}
  BY DEF Copies
<1>2. OrderInv'
  BY <1>i DEF OrderInv
<1>3. DateInv'
  <2>1. rec'.cr.st.provGen <= rec.cr.gen /\ rec'.cr.st.provGen <= cache.gen
    BY <1>i, <1>1, OrderFacts DEF DateInv, OrderInv
  <2> QED BY <1>i, <1>1, <2>1 DEF DateInv
<1>4. \A o, p \in Copies :
         Claims(o.st, p.gen) => sts'.gen = p.gen \/ (p.pause /\ sts'.replicas = 0)
  <2> SUFFICES ASSUME NEW o \in Copies, NEW p \in Copies, Claims(o.st, p.gen)
               PROVE  sts'.gen = p.gen \/ (p.pause /\ sts'.replicas = 0)
    OBVIOUS
  <2>1. CASE sts' = sts
    BY <1>i, <2>1 DEF ClaimInv, Current
  <2>2. CASE sts'.gen = rec.cr.gen
    <3>1. p.gen <= rec.cr.gen
      BY <1>i DEF DateInv, Claims
    <3> QED BY <1>i, <2>2, <3>1, OrderFacts
  <2> QED BY <2>1, <2>2
<1>5. ClaimInv'
  <2> SUFFICES ASSUME NEW o \in Copies', NEW p \in Copies', Claims(o.st, p.gen)'
               PROVE  Current(p)'
    BY DEF ClaimInv
  <2>1. PICK q \in Copies : p.gen = q.gen /\ p.pause = q.pause
    BY <1>1
  <2>2. CASE o \in Copies
    BY <1>4, <2>1, <2>2 DEF Claims, Current
  <2>3. CASE o = rec'.cr
    <3>1. CASE /\ rec'.cr.st.provGen = rec.cr.st.provGen
               /\ rec'.cr.st.conds["Provisioned"] = rec.cr.st.conds["Provisioned"]
      <4>1. Claims(rec.cr.st, q.gen)
        BY <2>1, <2>3, <3>1 DEF Claims, IsStatusConditionTrue
      <4> QED BY <1>1, <1>4, <2>1, <4>1 DEF Current
    <3>2. CASE /\ rec'.cr.st.provGen = rec.cr.gen
               /\ rec'.cr.st.conds["Provisioned"] = "True" => Current(rec.cr)'
      <4>1. Current(rec.cr)' /\ q.gen = rec.cr.gen
        BY <2>1, <2>3, <3>2 DEF Claims, IsStatusConditionTrue
      <4>2. q.pause = rec.cr.pause
        BY <1>i, <4>1, OrderFacts
      <4> QED BY <2>1, <4>1, <4>2 DEF Current
    <3> QED BY <3>1, <3>2
  <2> QED BY <1>1, <2>2, <2>3
<1>6. StepInv'
  BY DEF StepInv
<1> QED BY <1>2, <1>3, <1>5, <1>6 DEF IInv

\* A step that ends the reconcile, and may write its status.
LEMMA EndOfReconcile ==
  ASSUME IInv, TypeOK', rec'.pc = "idle", sts' = sts,
         obj'.gen = obj.gen, obj'.pause = obj.pause,
         \/ obj' = obj
         \/ /\ rec.pc # "idle" /\ cache' = cache
            /\ obj'.st.provGen = rec.cr.st.provGen
            /\ obj'.st.conds["Provisioned"] = rec.cr.st.conds["Provisioned"],
         cache' \in {cache, obj}, fresh' => cache' = obj'
  PROVE  IInv'
<1>i. TypeOK /\ OrderInv /\ DateInv /\ ClaimInv /\ StepInv
  BY DEF IInv
<1>1. Copies' = {obj', cache'}
  BY DEF Copies
<1>2. OrderInv'
  BY <1>i, OrderFacts DEF OrderInv
<1>3. /\ obj \in Copies /\ cache \in Copies
      /\ rec.pc # "idle" => rec.cr \in Copies
  BY DEF Copies
<1>4. DateInv'
  <2>1. obj'.st.provGen <= cache.gen /\ cache'.st.provGen <= cache.gen
    BY <1>i, <1>3 DEF DateInv
  <2>2. obj'.st.provGen \in Nat /\ cache'.st.provGen \in Nat /\ cache'.gen \in Nat
    BY NodeSetFacts DEF TypeOK
  <2>3. cache.gen <= cache'.gen /\ cache.gen \in Nat
    BY <1>i, OrderFacts DEF OrderInv
  <2> QED BY <1>1, <2>1, <2>2, <2>3 DEF DateInv
<1>5. \A o \in Copies' : \E q \in Copies :
         /\ o.st.provGen = q.st.provGen
         /\ o.st.conds["Provisioned"] = q.st.conds["Provisioned"]
  BY <1>1, <1>3
<1>6. \A p \in Copies' : \E q \in Copies : p.gen = q.gen /\ p.pause = q.pause
  BY <1>1, <1>3
<1>7. ClaimInv'
  <2> SUFFICES ASSUME NEW o \in Copies', NEW p \in Copies', Claims(o.st, p.gen)'
               PROVE  Current(p)'
    BY DEF ClaimInv
  <2>1. PICK oo \in Copies : /\ o.st.provGen = oo.st.provGen
                            /\ o.st.conds["Provisioned"] = oo.st.conds["Provisioned"]
    BY <1>5
  <2>2. PICK pp \in Copies : p.gen = pp.gen /\ p.pause = pp.pause
    BY <1>6
  <2>3. Claims(oo.st, pp.gen)
    BY <2>1, <2>2 DEF Claims, IsStatusConditionTrue
  <2> QED BY <1>i, <2>2, <2>3 DEF ClaimInv, Current
<1> QED BY <1>2, <1>4, <1>7 DEF IInv, StepInv

\* The informer delivers: the copy of the reconcile in flight is left behind.
LEMMA CacheSyncKept ==
  ASSUME IInv, TypeOK', CacheSync
  PROVE  IInv'
<1>i. TypeOK /\ OrderInv /\ DateInv /\ ClaimInv /\ StepInv
  BY DEF IInv
<1>u. cache' = obj /\ UNCHANGED <<obj, rec, sts>>
  BY DEF CacheSync
<1>1. Copies' \subseteq Copies /\ obj \in Copies /\ cache \in Copies
  BY <1>u DEF Copies
<1>2. OrderInv'
  BY <1>i, <1>u, OrderFacts DEF OrderInv
<1>3. DateInv'
  <2>1. \A o \in Copies : o.st.provGen <= cache.gen /\ o.st.provGen \in Nat
    BY <1>i, OrderFacts DEF DateInv
  <2>2. cache.gen <= obj.gen /\ cache.gen \in Nat /\ obj.gen \in Nat
    BY <1>i, OrderFacts DEF OrderInv
  <2> QED BY <1>i, <1>u, <1>1, <2>1, <2>2 DEF DateInv
<1>4. ClaimInv' /\ StepInv'
  BY <1>i, <1>u, <1>1 DEF ClaimInv, StepInv, Claims, Current
<1> QED BY <1>2, <1>3, <1>4 DEF IInv

\* A reconcile starts on the cache's copy, which is not older than any claim.
LEMMA ReconcileKept ==
  ASSUME IInv, TypeOK', Reconcile
  PROVE  IInv'
<1>i. TypeOK /\ OrderInv /\ DateInv /\ ClaimInv /\ StepInv
  BY DEF IInv
<1>u. /\ rec'.cr = cache /\ rec'.pc = "setInitialStatus"
      /\ UNCHANGED <<obj, cache, fresh, sts>>
  BY DEF Reconcile
<1>1. Copies' \subseteq Copies
  BY <1>u DEF Copies
<1>2. OrderInv'
  BY <1>i, <1>u, OrderFacts DEF OrderInv
<1>3. DateInv'
  BY <1>i, <1>u, <1>1 DEF DateInv
<1>4. ClaimInv' /\ StepInv'
  BY <1>i, <1>u, <1>1 DEF ClaimInv, StepInv, Claims, Current
<1> QED BY <1>2, <1>3, <1>4 DEF IInv

\* No status speaks of the generation that an edit makes.
LEMMA OwnerUpdateKept ==
  ASSUME IInv, TypeOK', OwnerUpdate
  PROVE  IInv'
<1>i. TypeOK /\ OrderInv /\ DateInv /\ ClaimInv /\ StepInv
  BY DEF IInv
<1>u. UNCHANGED <<cache, rec, sts>> /\ ~fresh'
  BY DEF OwnerUpdate
<1>1. obj'.gen = obj.gen + 1 /\ obj'.st = obj.st
  BY <1>i, OwnerUpdateFacts
<1>2. /\ Copies' \subseteq Copies \cup {obj'} /\ obj \in Copies
  BY <1>u DEF Copies
<1>3. OrderInv'
  BY <1>i, <1>u, <1>1, OrderFacts DEF OrderInv
<1>4. DateInv'
  BY <1>i, <1>u, <1>1, <1>2 DEF DateInv
<1>5. ClaimInv'
  <2> SUFFICES ASSUME NEW o \in Copies', NEW p \in Copies', Claims(o.st, p.gen)'
               PROVE  Current(p)'
    BY DEF ClaimInv
  <2>1. PICK q \in Copies : o.st = q.st
    BY <1>1, <1>2
  <2>2. CASE p \in Copies
    BY <1>i, <1>u, <2>1, <2>2 DEF ClaimInv, Claims, Current
  <2>3. CASE p = obj'
    <3>1. q.st.provGen = obj.gen + 1
      BY <1>1, <2>1, <2>3 DEF Claims
    <3>2. q.st.provGen <= cache.gen /\ cache.gen <= obj.gen
      BY <1>i DEF DateInv, OrderInv
    <3> QED BY <1>i, <3>1, <3>2, OrderFacts
  <2> QED BY <1>2, <2>2, <2>3
<1>6. StepInv'
  BY <1>i, <1>u DEF StepInv, Current
<1> QED BY <1>3, <1>4, <1>5, <1>6 DEF IInv

\* The invariant holds in every initial state.
LEMMA InitInv == Init => IInv
<1> SUFFICES ASSUME Init PROVE IInv
  OBVIOUS
<1>1. TypeOK
  BY InitType
<1>2. rec.pc = "idle" /\ cache = obj /\ Copies = {obj}
  BY NewNodeSetFacts DEF Init, Copies
<1>3. obj.gen = 1 /\ obj.st.provGen = 0
  BY NewNodeSetFacts DEF Init
<1>4. OrderInv
  BY <1>2, <1>3 DEF OrderInv
<1>5. DateInv /\ ClaimInv /\ StepInv
  BY <1>2, <1>3 DEF DateInv, ClaimInv, StepInv, Claims
<1> QED BY <1>1, <1>4, <1>5 DEF IInv

\* Every step keeps the invariant.
LEMMA NextInv == IInv /\ [Next]_vars => IInv'
<1> SUFFICES ASSUME IInv, [Next]_vars PROVE IInv'
  OBVIOUS
<1>i. TypeOK /\ OrderInv /\ DateInv /\ ClaimInv /\ StepInv
  BY DEF IInv
<1>t. TypeOK'
  BY <1>i, NextType
<1>r. /\ rec \in [pc : Step, cr : NodeSet] /\ rec.cr \in NodeSet
      /\ rec.cr.gen \in 1..MaxGen
      /\ rec.cr.pause \in BOOLEAN
      /\ rec.cr.st \in Status
      /\ obj \in NodeSet
  BY <1>i, NodeSetFacts DEF TypeOK
<1>d. Idle.pc = "idle"
  BY NewNodeSetFacts
\* Writing a status that says of Provisioned what the copy says.
<1>w. ASSUME NEW st, SameClaim(rec.cr.st, st), WriteStatus(st), rec.pc # "idle",
             UNCHANGED <<obj, cache, fresh>>, sts' = sts \/ sts'.gen = rec.cr.gen
      PROVE  IInv'
  BY <1>w, <1>t, <1>r, WriteStatusFacts, WithinReconcile DEF SameClaim
<1>1. CASE Reconcile
  BY <1>1, <1>t, ReconcileKept
<1>2. CASE SetInitialStatus
  <2>u. UNCHANGED <<obj, cache, fresh, sts>> /\ rec.pc # "idle"
    BY <1>2 DEF SetInitialStatus, kube
  <2>1. CASE WriteStatus(InitialStatus(rec.cr.st, rec.cr.pause))
    BY <2>1, <2>u, <1>r, <1>w, InitialStatusFacts
  <2>2. CASE Goto("handleResourcesSync")
    BY <2>2, <2>u, <1>t, <1>r, GotoFacts, WithinReconcile DEF Step
  <2> QED BY <1>2, <2>1, <2>2 DEF SetInitialStatus
<1>3. CASE HandleResourcesSync
  <2>u. UNCHANGED <<obj, cache, fresh>> /\ rec.pc # "idle"
    BY <1>3 DEF HandleResourcesSync, kube
  <2>c. /\ SameClaim(rec.cr.st, WithStateAndCond(rec.cr.st, "Preparing", "Prepared", "Unknown"))
        /\ SameClaim(rec.cr.st, WithCond(rec.cr.st, "Prepared", "True"))
        /\ SameClaim(rec.cr.st, WithCond(rec.cr.st, "Prepared", "False"))
    <3>1. /\ "Preparing" \in State
          /\ "True" \in CondStatus /\ "False" \in CondStatus /\ "Unknown" \in CondStatus
      BY Names
    <3> QED BY <1>r, <3>1, OtherCondFacts
  <2>1. CASE rec' = Idle /\ sts' = sts
    BY <2>1, <2>u, <1>i, <1>t, <1>d, EndOfReconcile DEF OrderInv
  <2>2. CASE /\ \/ WriteStatus(WithStateAndCond(rec.cr.st, "Preparing", "Prepared", "Unknown"))
                \/ WriteStatus(WithCond(rec.cr.st, "Prepared", "False"))
             /\ UNCHANGED sts
    BY <2>2, <2>u, <2>c, <1>w
  <2>3. CASE SyncStatefulSet(rec.cr) /\ WriteStatus(WithCond(rec.cr.st, "Prepared", "True"))
    <3>1. sts' = sts \/ sts'.gen = rec.cr.gen
      BY <2>3, <1>i, <1>r, SyncStatefulSetFacts DEF TypeOK, Sts
    <3> QED BY <2>3, <3>1, <2>u, <2>c, <1>w
  <2>4. CASE SyncStatefulSet(rec.cr) /\ Goto("waitForStatefulSetToScale")
    <3>1. /\ sts' = sts \/ sts'.gen = rec.cr.gen
          /\ sts'.gen = rec.cr.gen \/ (rec.cr.pause /\ sts'.replicas = 0)
      BY <2>4, <1>i, <1>r, SyncStatefulSetFacts DEF TypeOK, Sts
    <3>2. rec'.pc = "waitForStatefulSetToScale" /\ rec'.cr = rec.cr
      BY <2>4, <1>r, GotoFacts DEF Step
    <3>3. Current(rec.cr)'
      BY <3>1, <3>2 DEF Current
    <3> QED BY <3>1, <3>2, <3>3, <2>u, <1>t, WithinReconcile
  <2>5. CASE Goto("panic") /\ UNCHANGED sts
    BY <2>5, <2>u, <1>t, <1>r, GotoFacts, WithinReconcile DEF Step
  <2> QED BY <1>3, <2>1, <2>2, <2>3, <2>4, <2>5 DEF HandleResourcesSync, Return
<1>4. CASE RecoverPanic
  BY <1>4, <1>i, <1>t, <1>d, EndOfReconcile DEF RecoverPanic, Return, kube, OrderInv
<1>5. CASE WaitForStatefulSetToScale
  <2>u. UNCHANGED <<obj, cache, fresh, sts>> /\ rec.pc # "idle" /\ Current(rec.cr)
    BY <1>5, <1>i DEF WaitForStatefulSetToScale, kube, StepInv
  <2>1. ASSUME NEW st \in Status, WriteStatus(st), st.provGen = rec.cr.gen PROVE IInv'
    <3>1. /\ rec'.pc = "updateStatus" /\ rec'.cr.st = st
          /\ rec'.cr.gen = rec.cr.gen /\ rec'.cr.pause = rec.cr.pause
      BY <2>1, <1>r, WriteStatusFacts
    <3>2. Current(rec.cr)'
      BY <2>u, <3>1 DEF Current
    <3> QED BY <2>1, <2>u, <3>1, <3>2, <1>t, WithinReconcile
  <2>2. CASE WriteStatus([WithProvisioned(rec.cr.st, "Unknown") EXCEPT !.state = "Provisioning"])
    BY <2>1, <2>2, <1>r, Names, WithProvisionedFacts
  <2>3. CASE \/ WriteStatus(WithProvisioned(rec.cr.st, "False"))
             \/ WriteStatus(WithProvisioned(rec.cr.st, "True"))
    BY <2>1, <2>3, <1>r, Names, WithProvisionedFacts
  <2>4. CASE Goto("handlePauseResume")
    BY <2>4, <2>u, <1>t, <1>r, GotoFacts, WithinReconcile DEF Step
  <2> QED BY <1>5, <2>2, <2>3, <2>4 DEF WaitForStatefulSetToScale
<1>6. CASE HandlePauseResume
  <2>u. UNCHANGED <<obj, cache, fresh, sts>> /\ rec.pc # "idle"
    BY <1>6 DEF HandlePauseResume, kube
  <2>1. CASE WriteStatus(PauseResume(rec.cr.st, rec.cr.pause))
    BY <2>1, <2>u, <1>r, <1>w, PauseResumeFacts
  <2>2. CASE rec' = Idle
    BY <2>2, <2>u, <1>i, <1>t, <1>d, EndOfReconcile DEF OrderInv
  <2> QED BY <1>6, <2>1, <2>2 DEF HandlePauseResume, Return
<1>7. CASE UpdateStatus
  <2> DEFINE st == Degrade(rec.cr.st, Stage, rec.cr.pause)
  <2>u. UNCHANGED <<cache, sts>> /\ rec.pc # "idle" /\ rec' = Idle
    BY <1>7 DEF UpdateStatus, Return
  <2>1. SameClaim(rec.cr.st, st)
    BY <1>r, DegradeFacts
  <2>2. CASE obj' = [obj EXCEPT !.st = st] /\ fresh' = FALSE
    <3>1. obj'.gen = obj.gen /\ obj'.pause = obj.pause /\ obj'.st = st
      BY <2>1, <2>2, <1>r, ObjectStatusFacts DEF SameClaim
    <3> QED BY <2>u, <2>1, <2>2, <3>1, <1>t, <1>d, EndOfReconcile DEF SameClaim
  <2>3. CASE UNCHANGED <<obj, fresh>>
    BY <2>u, <2>3, <1>i, <1>t, <1>d, EndOfReconcile DEF OrderInv
  <2> QED BY <1>7, <2>2, <2>3 DEF UpdateStatus
<1>8. CASE ScaleStep
  BY <1>8, <1>i, <1>t, PodFacts, CopiesUnchanged DEF ScaleStep, kube, TypeOK, Sts
<1>9. CASE RollPod
  BY <1>9, <1>i, <1>t, PodFacts, CopiesUnchanged DEF RollPod, kube, TypeOK, Sts
<1>10. CASE LosePod
  BY <1>10, <1>i, <1>t, PodFacts, CopiesUnchanged DEF LosePod, kube, TypeOK, Sts
<1>11. CASE CacheSync
  BY <1>11, <1>t, CacheSyncKept
<1>12. CASE OwnerUpdate
  BY <1>12, <1>t, OwnerUpdateKept
<1>13. CASE OwnedEvent
  BY <1>13, <1>t, CopiesUnchanged DEF OwnedEvent, kube
<1>14. CASE ApiError
  BY <1>14, <1>i, <1>t, <1>d, EndOfReconcile DEF ApiError, Return, kube, OrderInv
<1>15. CASE Crash
  BY <1>15, <1>t, <1>d, EndOfReconcile DEF Crash
<1>16. CASE UNCHANGED vars
  BY <1>16, <1>t, CopiesUnchanged DEF vars
<1> QED
  BY <1>1, <1>2, <1>3, <1>4, <1>5, <1>6, <1>7, <1>8, <1>9, <1>10, <1>11, <1>12,
     <1>13, <1>14, <1>15, <1>16 DEF Next, Controller

\* IInv holds in every reachable state.
THEOREM Invariance == Spec => []IInv
BY InitInv, NextInv, PTL DEF Spec

\* What the owner takes for provisioned at the latest generation was built from
\* it, although every reconcile may work on an old copy.
THEOREM ProvisionedCurrent == Spec => []ProvisionedIsCurrent
<1>1. IInv => ProvisionedIsCurrent
  BY DEF IInv, ClaimInv, Claims, Current, Copies, ProvisionedIsCurrent,
         OwnerSeesProvisioned, CondTrue
<1> QED BY <1>1, Invariance, PTL
=============================================================================
