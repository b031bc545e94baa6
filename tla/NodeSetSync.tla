---------------------------- MODULE NodeSetSync ----------------------------
(***************************************************************************)
(* The StorageNodeSet and DatabaseNodeSet controllers: one NodeSet object, *)
(* which a Storage, a Database or a remote NodeSet owns and edits, its     *)
(* StatefulSet and the reconcile loop.  The two controllers are the same   *)
(* but for how they decide to leave a StatefulSet alone (Kind).            *)
(*                                                                         *)
(* The reconcile loop, the cache and the API server are as in StorageSync. *)
(* The owner reads the NodeSetProvisioned condition together with the      *)
(* generation it was observed at, so the status keeps that generation.     *)
(***************************************************************************)
EXTENDS Integers, Pipeline

CONSTANTS
  Kind,       \* "StorageNodeSet" or "DatabaseNodeSet"
  Nodes,      \* spec.nodes
  MaxGen,     \* bound on metadata.generation: the owner edits the spec MaxGen - 1 times
  MaxFaults,  \* bound on API errors, lost Pods and crashes of the operator
  CacheLag    \* whether the controller may read a version its cache has superseded

ASSUME NodeSetAssumption ==
  /\ Kind \in {"StorageNodeSet", "DatabaseNodeSet"}
  /\ Nodes \in Nat \ {0}
  /\ MaxGen \in Nat \ {0}
  /\ MaxFaults \in Nat
  /\ CacheLag \in BOOLEAN

VARIABLES
  obj,     \* the NodeSet object on the API server
  cache,   \* the informer's copy of it
  fresh,   \* the informer's copy is the latest version
  stale,   \* history: the last reconcile read a version that was not the latest
  queued,  \* the workqueue holds a request for the NodeSet
  rec,     \* the reconcile in flight: its next step and its copy of the object
  sts,     \* the StatefulSet: the NodeSet generation it was built from, its
           \* desired and ready replicas, and whether its Pods run its template
  faults   \* API errors, lost Pods and crashes so far

vars == <<obj, cache, fresh, stale, queued, rec, sts, faults>>
kube == <<obj, cache, fresh, stale>>

Stage == {"Prepared", "Provisioned"}
CondType == Stage \cup {"Paused", "Ready"}

Status == [state : ClusterState \ {"Initializing"}, conds : [CondType -> CondStatus],
           provGen : 0..MaxGen]

NodeSet == [gen : 1..MaxGen, pause : BOOLEAN, sync : BOOLEAN, st : Status]

Step == {"idle", "setInitialStatus", "handleResourcesSync",
         "waitForStatefulSetToScale", "handlePauseResume", "updateStatus", "panic"}

TypeOK ==
  /\ obj \in NodeSet
  /\ cache \in NodeSet
  /\ fresh \in BOOLEAN
  /\ stale \in BOOLEAN
  /\ queued \in BOOLEAN
  /\ rec \in [pc : Step, cr : NodeSet]
  /\ sts \in [gen : 0..MaxGen, replicas : {0, Nodes}, ready : 0..Nodes, rolled : BOOLEAN]
  /\ faults \in 0..MaxFaults

NewNodeSet(pause) ==
  [gen |-> 1, pause |-> pause, sync |-> TRUE,
   st |-> [state |-> "Pending", conds |-> [c \in CondType |-> "Absent"], provGen |-> 0]]

\* No reconcile in flight: the copy of the last one is dropped.
Idle == [pc |-> "idle", cr |-> NewNodeSet(FALSE)]

Init ==
  /\ obj \in {NewNodeSet(pause) : pause \in BOOLEAN}
  /\ cache = obj
  /\ fresh = TRUE
  /\ stale = FALSE
  /\ queued = TRUE
  /\ rec = Idle
  /\ sts = [gen |-> 0, replicas |-> 0, ready |-> 0, rolled |-> TRUE]
  /\ faults = 0

-----------------------------------------------------------------------------
\* A read of the cache; with CacheLag FALSE the cache has caught up by then.
CacheRead == CacheLag \/ fresh

Goto(step) == rec' = [rec EXCEPT !.pc = step]
WriteStatus(st) == rec' = [rec EXCEPT !.pc = "updateStatus", !.cr.st = st]
Return(requeue) == rec' = Idle /\ queued' = (queued \/ requeue)

\* Mutations: a generation read again after the check, and one too large.
WithProvisionedNow(st, status) ==
  [WithCond(st, "Provisioned", status) EXCEPT !.provGen = cache.gen]

WithProvisionedAhead(st, status) ==
  [WithCond(st, "Provisioned", status) EXCEPT !.provGen = rec.cr.gen + 1]

\* The NodeSetProvisioned condition, with the generation of the copy at hand.
WithProvisioned(st, status) ==
  [WithCond(st, "Provisioned", status) EXCEPT !.provGen = rec.cr.gen]

CacheSync ==
  /\ ~fresh
  /\ cache' = obj
  /\ fresh' = TRUE
  /\ queued' = (queued \/ cache.gen # obj.gen)
  /\ UNCHANGED <<obj, stale, rec, sts, faults>>

\* The owner writes a new spec.
OwnerUpdate ==
  /\ obj.gen < MaxGen
  /\ \E pause, sync \in BOOLEAN :
        obj' = [obj EXCEPT !.gen = @ + 1, !.pause = pause, !.sync = sync]
  /\ fresh' = FALSE
  /\ UNCHANGED <<cache, stale, queued, rec, sts, faults>>

\* The StatefulSet changes: its event queues the NodeSet.
OwnedEvent ==
  /\ ~queued
  /\ queued' = TRUE
  /\ UNCHANGED <<kube, rec, sts, faults>>

\* The StatefulSet controller starts or kills a Pod, or replaces one that runs
\* an old template (the replacement starts in a later ScaleStep).
ScaleStep ==
  /\ sts.ready # sts.replicas
  /\ sts' = [sts EXCEPT !.ready = IF @ < sts.replicas THEN @ + 1 ELSE @ - 1]
  /\ UNCHANGED <<kube, queued, rec, faults>>

RollPod ==
  /\ ~sts.rolled
  /\ sts' = [sts EXCEPT !.rolled = TRUE, !.ready = IF @ = 0 THEN 0 ELSE @ - 1]
  /\ UNCHANGED <<kube, queued, rec, faults>>

LosePod ==
  /\ faults < MaxFaults
  /\ sts.ready > 0
  /\ sts' = [sts EXCEPT !.ready = @ - 1]
  /\ faults' = faults + 1
  /\ UNCHANGED <<kube, queued, rec>>

-----------------------------------------------------------------------------
Reconcile ==
  /\ rec.pc = "idle"
  /\ queued
  /\ CacheRead
  /\ stale' = ~fresh
  /\ rec' = [pc |-> "setInitialStatus", cr |-> cache]
  /\ queued' = FALSE
  /\ UNCHANGED <<obj, cache, fresh, sts, faults>>

SetInitialStatus ==
  /\ rec.pc = "setInitialStatus"
  /\ IF NoConditions(rec.cr.st.conds)
     THEN WriteStatus(InitialStatus(rec.cr.st, rec.cr.pause))
     ELSE Goto("handleResourcesSync")
  /\ UNCHANGED <<kube, queued, sts, faults>>

Replicas(cr) == IF cr.pause THEN 0 ELSE Nodes

\* Mutations: any StatefulSet scaled to zero is left alone; the old object is
\* dereferenced for every kind.
IgnoresScaledToZero(cr) == sts.gen # 0 /\ sts.replicas = 0

PanicsForEveryKind(cr) == cr.pause /\ sts.gen = 0

\* The StatefulSet is left alone when it is already scaled to zero for a paused
\* NodeSet.  The DatabaseNodeSet controller dereferences the old object to find
\* out, which panics when there is none yet.
ShouldIgnoreChange(cr) == cr.pause /\ sts.gen # 0 /\ sts.replicas = 0

IgnorePanics(cr) == Kind = "DatabaseNodeSet" /\ cr.pause /\ sts.gen = 0

\* The StatefulSet is created, or updated when the spec it is built from
\* changed; the update comes back as an event.
SyncStatefulSet(cr) ==
  IF ShouldIgnoreChange(cr) \/ sts.gen = cr.gen
  THEN UNCHANGED <<sts, queued>>
  ELSE /\ sts' = [sts EXCEPT !.gen = cr.gen, !.replicas = Replicas(cr),
                             !.rolled = (sts.gen = 0)]
       /\ queued' = (queued \/ sts.gen # 0)

HandleResourcesSync ==
  /\ rec.pc = "handleResourcesSync"
  /\ \/ /\ ~rec.cr.sync
        /\ Return(FALSE)
        /\ UNCHANGED <<sts, faults>>
     \/ /\ rec.cr.sync
        /\ rec.cr.st.state = "Pending"
        /\ WriteStatus(WithStateAndCond(rec.cr.st, "Preparing", "Prepared", "Unknown"))
        /\ UNCHANGED <<sts, queued, faults>>
     \/ /\ rec.cr.sync
        /\ rec.cr.st.state # "Pending"
        /\ ~IgnorePanics(rec.cr)
        /\ SyncStatefulSet(rec.cr)
        /\ IF ~IsStatusConditionTrue(rec.cr.st.conds, "Prepared")
           THEN WriteStatus(WithCond(rec.cr.st, "Prepared", "True"))
           ELSE Goto("waitForStatefulSetToScale")
        /\ UNCHANGED faults
     \/ /\ rec.cr.sync
        /\ rec.cr.st.state # "Pending"
        /\ IgnorePanics(rec.cr)
        /\ Goto("panic")
        /\ UNCHANGED <<sts, queued, faults>>
     \/ /\ rec.cr.sync
        /\ rec.cr.st.state # "Pending"
        /\ faults < MaxFaults
        /\ faults' = faults + 1
        /\ WriteStatus(WithCond(rec.cr.st, "Prepared", "False"))
        /\ UNCHANGED <<sts, queued>>
  /\ UNCHANGED kube

\* The runtime recovers the panic of a reconcile and retries it.
RecoverPanic ==
  /\ rec.pc = "panic"
  /\ Return(TRUE)
  /\ UNCHANGED <<kube, sts, faults>>

WaitForStatefulSetToScale ==
  /\ rec.pc = "waitForStatefulSetToScale"
  /\ IF rec.cr.st.state = "Preparing"
     THEN WriteStatus([WithProvisioned(rec.cr.st, "Unknown") EXCEPT !.state = "Provisioning"])
     ELSE IF sts.ready # Nodes
     THEN WriteStatus(WithProvisioned(rec.cr.st, "False"))
     ELSE IF ~IsStatusConditionTrue(rec.cr.st.conds, "Provisioned")
     THEN WriteStatus(WithProvisioned(rec.cr.st, "True"))
     ELSE Goto("handlePauseResume")
  /\ UNCHANGED <<kube, queued, sts, faults>>

HandlePauseResume ==
  /\ rec.pc = "handlePauseResume"
  /\ LET st == PauseResume(rec.cr.st, rec.cr.pause)
     IN  IF st # rec.cr.st
         THEN WriteStatus(st) /\ UNCHANGED queued
         ELSE Return(FALSE)
  /\ UNCHANGED <<kube, sts, faults>>

UpdateStatus ==
  /\ rec.pc = "updateStatus"
  /\ CacheRead
  /\ LET st == Degrade(rec.cr.st, Stage, rec.cr.pause)
     IN  IF fresh /\ st # obj.st
         THEN obj' = [obj EXCEPT !.st = st] /\ fresh' = FALSE
         ELSE UNCHANGED <<obj, fresh>>
  /\ Return(TRUE)
  /\ UNCHANGED <<cache, stale, sts, faults>>

ApiError ==
  /\ faults < MaxFaults
  /\ rec.pc \in {"waitForStatefulSetToScale", "updateStatus"}
  /\ faults' = faults + 1
  /\ Return(TRUE)
  /\ UNCHANGED <<kube, sts>>

Crash ==
  /\ faults < MaxFaults
  /\ faults' = faults + 1
  /\ rec' = Idle
  /\ queued' = TRUE
  /\ cache' = obj
  /\ fresh' = TRUE
  /\ UNCHANGED <<obj, stale, sts>>

Controller ==
  \/ Reconcile \/ SetInitialStatus \/ HandleResourcesSync \/ RecoverPanic
  \/ WaitForStatefulSetToScale \/ HandlePauseResume \/ UpdateStatus

Next ==
  \/ Controller \/ ScaleStep \/ RollPod \/ CacheSync
  \/ OwnerUpdate \/ OwnedEvent \/ LosePod \/ ApiError \/ Crash

Fairness ==
  /\ WF_vars(Controller)
  /\ WF_vars(CacheSync)
  /\ WF_vars(ScaleStep)
  /\ WF_vars(RollPod)

Spec == Init /\ [][Next]_vars /\ Fairness

-----------------------------------------------------------------------------
CondTrue(type) == IsStatusConditionTrue(obj.st.conds, type)

\* What waitForNodeSetsToProvisioned of the owner asks of a NodeSet.
OwnerSeesProvisioned == CondTrue("Provisioned") /\ obj.st.provGen = obj.gen

\* When the owner sees the NodeSet provisioned at its latest generation, the
\* StatefulSet was built from that generation (or was left at zero replicas).
ProvisionedIsCurrent ==
  OwnerSeesProvisioned => sts.gen = obj.gen \/ (obj.pause /\ sts.replicas = 0)

\* The controller never panics.
NoPanic == rec.pc # "panic"

\* The last reconcile went to sleep on a version that was not the latest.
WakeUpLost == stale /\ rec.pc = "idle" /\ ~queued

\* A NodeSet that its owner wants running becomes Ready and stays so, although
\* the owner edited, paused and froze it before, unless the last reconcile read a
\* stale version and slept on it.
EventuallyReady ==
  <>[](obj.sync /\ ~obj.pause) =>
    <>[](obj.st.state = "Ready" /\ CondTrue("Ready")) \/ <>[]WakeUpLost
=============================================================================
