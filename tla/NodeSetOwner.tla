---------------------------- MODULE NodeSetOwner ----------------------------
(***************************************************************************)
(* A Storage or a Database that is split into NodeSets: what its           *)
(* controller does with the NodeSets that spec.nodeSets lists.  A listed   *)
(* NodeSet is an object of the same cluster (a StorageNodeSet or a         *)
(* DatabaseNodeSet) or, when it names another cluster, a remote NodeSet    *)
(* that the operator of that cluster copies.  Storage and Database run the *)
(* same code here.                                                         *)
(*                                                                         *)
(* This module composes three controllers.  The owner's is modelled step   *)
(* by step from the end of the init pipeline on (StorageSync and           *)
(* DatabaseSync have the steps before it); it reads its own object as it   *)
(* is, and the NodeSets from a cache that lags.  Of the NodeSet controller *)
(* (NodeSetSync) and of the remote one (RemoteNodeSet) only what the owner *)
(* sees is kept: the NodeSetProvisioned condition, with the generation it  *)
(* was observed at.                                                        *)
(***************************************************************************)
EXTENDS Integers, FiniteSets, Pipeline

CONSTANTS
  Local,       \* the NodeSets of the owner's cluster
  Remote,      \* the remote NodeSets
  MaxVersion,  \* bound on the contents that spec.nodeSets may give a NodeSet
  MaxChanges   \* bound on what comes from outside: edits of the spec, API
               \* errors, lost Pods and crashes of the operator, all together

ASSUME OwnerAssumption ==
  /\ IsFiniteSet(Local) /\ IsFiniteSet(Remote)
  /\ Local \cap Remote = {}
  /\ MaxVersion \in Nat \ {0}
  /\ MaxChanges \in Nat

NodeSet == Local \cup Remote

VARIABLES
  spec,    \* spec.nodeSets: the content of each listed NodeSet (0: not listed)
  st,      \* the status of the owner
  sets,    \* the NodeSets and remote NodeSets of the owner's cluster
  cached,  \* the copies of them in the owner's cache
  data,    \* the NodeSets of the other clusters
  whole,   \* the StatefulSet of an owner without NodeSets
  queued,  \* the workqueue holds a request for the owner
  rec,     \* the reconcile in flight: its next step, and the NodeSets that its
           \* loop has before it
  unseen,  \* NodeSets to drop that the last reconcile could not see: they were
           \* created, and are not in the cache yet (a history variable)
  changes  \* edits and faults so far

vars == <<spec, st, sets, cached, data, whole, queued, rec, unseen, changes>>

CondType == {"Prepared", "Provisioned", "Ready", "Paused"}

\* An edit of the content is a new generation, and so is a deletion that waits
\* for a finalizer.
Generation == 0..(MaxChanges + 2)

\* A NodeSet: its content (0: there is none), generation, and NodeSetProvisioned
\* with its ObservedGeneration; the finalizer of a remote one, and its deletion.
Object == [spec : 0..MaxVersion, gen : Generation,
           prov : {"Absent", "True", "False"}, provGen : Generation,
           finalizer : BOOLEAN, deleting : BOOLEAN]

None == [spec |-> 0, gen |-> 0, prov |-> "Absent", provGen |-> 0,
         finalizer |-> FALSE, deleting |-> FALSE]

New(v) == [None EXCEPT !.spec = v, !.gen = 1]

\* A new content is a new generation.
Updated(o, v) == [o EXCEPT !.spec = v, !.gen = @ + 1]

Exists(o) == o.spec # 0

Step == {"idle", "handleResourcesSync", "deleteLocal", "deleteRemote",
         "waitForNodeSetsToProvisioned"}

Idle == [pc |-> "idle", todo |-> {}]

TypeOK ==
  /\ spec \in [NodeSet -> 0..MaxVersion]
  /\ st \in [state : ClusterState, conds : [CondType -> CondStatus]]
  /\ sets \in [NodeSet -> Object]
  /\ cached \in [NodeSet -> Object]
  /\ data \in [Remote -> Object]
  /\ whole \in {"none", "starting", "ready"}
  /\ queued \in BOOLEAN
  /\ rec \in [pc : Step, todo : SUBSET NodeSet]
  /\ unseen \subseteq NodeSet
  /\ changes \in 0..MaxChanges

Listed == {n \in NodeSet : spec[n] # 0}

\* The owner has just been initialized: it has built what its spec lists, which
\* is every NodeSet, or none of them (and it runs in a StatefulSet of its own).
Init ==
  /\ \E v \in {0, 1} : spec = [n \in NodeSet |-> v]
  /\ st = [state |-> "Initializing",
           conds |-> [c \in CondType |->
                       IF c = "Prepared" THEN "True" ELSE "Absent"]]
  /\ sets = [n \in NodeSet |-> IF n \in Listed THEN New(1) ELSE None]
  /\ cached = sets
  /\ data = [n \in Remote |-> None]
  /\ whole = IF Listed = {} THEN "starting" ELSE "none"
  /\ queued = TRUE
  /\ rec = Idle
  /\ unseen = {}
  /\ changes = 0

-----------------------------------------------------------------------------
(***************************************************************************)
(* The user, the cache, and the workqueue.                                 *)
(***************************************************************************)
Change == changes < MaxChanges /\ changes' = changes + 1

\* The user lists, changes and drops NodeSets (an edit of two of them is two
\* edits with nothing in between).  A reconcile reads the spec once, at its
\* start, so an edit in the middle of one is an edit just after it.
UserEdit(n) ==
  /\ rec.pc = "idle"
  /\ Change
  /\ \E v \in (0..MaxVersion) \ {spec[n]} : spec' = [spec EXCEPT ![n] = v]
  /\ queued' = TRUE
  /\ UNCHANGED <<st, sets, cached, data, whole, rec, unseen>>

\* Whom the predicates let through: a deletion, or an update that changes the
\* last-applied annotation, which holds the content; not a creation, and not a
\* change of the status.
Wakes(old, new) == Exists(old) /\ old.spec # new.spec

CacheSync(n) ==
  /\ cached[n] # sets[n]
  /\ cached' = [cached EXCEPT ![n] = sets[n]]
  /\ queued' = (queued \/ Wakes(cached[n], sets[n]))
  /\ UNCHANGED <<spec, st, sets, data, whole, rec, unseen, changes>>

-----------------------------------------------------------------------------
(***************************************************************************)
(* The other controllers.                                                  *)
(***************************************************************************)
Provisioned(o) == [o EXCEPT !.prov = "True", !.provGen = o.gen]

\* Mutation: missing Pods leave the condition Unknown.
UnknownUnready(o) == [o EXCEPT !.prov = "Unknown", !.provGen = o.gen]

Unready(o) == [o EXCEPT !.prov = "False", !.provGen = o.gen]

\* The NodeSet controller finds all Pods ready and reports it.  A condition that
\* is True already is left alone, with the generation it has.
Report(o) == Exists(o) /\ o.prov # "True"

ReportProvisioned(n) ==
  /\ \/ /\ n \in Local /\ Report(sets[n])
        /\ sets' = [sets EXCEPT ![n] = Provisioned(@)]
        /\ UNCHANGED data
     \/ /\ n \in Remote /\ Report(data[n])
        /\ data' = [data EXCEPT ![n] = Provisioned(@)]
        /\ UNCHANGED sets
  /\ UNCHANGED <<spec, st, cached, whole, queued, rec, unseen, changes>>

\* After a change of the NodeSet it may find Pods missing, or find them all
\* ready again.
ReportUnready(n) ==
  /\ \/ /\ n \in Local /\ sets[n].provGen # sets[n].gen
        /\ sets' = [sets EXCEPT ![n] = Unready(@)]
        /\ UNCHANGED data
     \/ /\ n \in Remote /\ data[n].provGen # data[n].gen
        /\ data' = [data EXCEPT ![n] = Unready(@)]
        /\ UNCHANGED sets
  /\ UNCHANGED <<spec, st, cached, whole, queued, rec, unseen, changes>>

LosePod(n) ==
  /\ Change
  /\ \/ /\ n \in Local /\ sets[n].prov = "True"
        /\ sets' = [sets EXCEPT ![n] = Unready(@)]
        /\ UNCHANGED data
     \/ /\ n \in Remote /\ data[n].prov = "True"
        /\ data' = [data EXCEPT ![n] = Unready(@)]
        /\ UNCHANGED sets
  /\ UNCHANGED <<spec, st, cached, whole, queued, rec, unseen>>

\* The remote controller gives its NodeSet the content, and then copies the
\* conditions of that one, whose generations are those of that one.
RemoteSync(n) ==
  /\ n \in Remote
  /\ Exists(sets[n]) /\ ~sets[n].deleting
  /\ data[n].spec # sets[n].spec
  /\ sets' = [sets EXCEPT ![n].finalizer = TRUE]
  /\ data' = [data EXCEPT ![n] = IF Exists(@) THEN Updated(@, sets[n].spec)
                                            ELSE New(sets[n].spec)]
  /\ UNCHANGED <<spec, st, cached, whole, queued, rec, unseen, changes>>

RemoteStatus(n) ==
  /\ n \in Remote
  /\ Exists(sets[n]) /\ ~sets[n].deleting
  /\ data[n].spec = sets[n].spec
  /\ <<sets[n].prov, sets[n].provGen>> # <<data[n].prov, data[n].provGen>>
  /\ sets' = [sets EXCEPT ![n].prov = data[n].prov,
                          ![n].provGen = data[n].provGen]
  /\ UNCHANGED <<spec, st, cached, data, whole, queued, rec, unseen, changes>>

RemoteDelete(n) ==
  /\ n \in Remote
  /\ sets[n].deleting
  /\ sets' = [sets EXCEPT ![n] = None]
  /\ data' = [data EXCEPT ![n] = None]
  /\ UNCHANGED <<spec, st, cached, whole, queued, rec, unseen, changes>>

WholeReady ==
  /\ whole = "starting"
  /\ whole' = "ready"
  /\ UNCHANGED <<spec, st, sets, cached, data, queued, rec, unseen, changes>>

-----------------------------------------------------------------------------
(***************************************************************************)
(* The reconcile loop of the owner.                                        *)
(***************************************************************************)
Return(requeue) == rec' = Idle /\ queued' = (queued \/ requeue)

\* Mutation: no other reconcile is asked for.
UpdateStatusAndStop(new) ==
  /\ st' = Degrade(new, {"Prepared", "Provisioned"}, FALSE)
  /\ Return(FALSE)

\* updateStatus; the result asks for another reconcile.
UpdateStatus(new) ==
  /\ st' = Degrade(new, {"Prepared", "Provisioned"}, FALSE)
  /\ Return(TRUE)

Goto(step, todo) == rec' = [rec EXCEPT !.pc = step, !.todo = todo]

Done(n) == rec' = [rec EXCEPT !.todo = @ \ {n}]

Reconcile ==
  /\ rec.pc = "idle"
  /\ queued
  /\ Goto("handleResourcesSync", Listed)
  /\ queued' = FALSE
  /\ UNCHANGED <<spec, st, sets, cached, data, whole, unseen, changes>>

\* A builder, or the deletion of a NodeSet, fails: the loop stops.
FailSync == UpdateStatus(WithCond(st, "Prepared", "False"))

\* CreateOrUpdateOrMaybeIgnore of NodeSet n.  It reads the cache: a copy with
\* the content is left alone, whatever became of the NodeSet; the API server
\* refuses to create what exists and to update what is not the latest version.
\* (Copies that agree are taken for the same version.)
SyncNodeSet(n) ==
  /\ rec.pc = "handleResourcesSync"
  /\ n \in rec.todo
  /\ LET v == spec[n]
     IN  \/ /\ cached[n].spec = v
            /\ Done(n)
            /\ UNCHANGED <<st, sets, queued, changes>>
         \/ /\ ~Exists(cached[n]) /\ ~Exists(sets[n])
            /\ sets' = [sets EXCEPT ![n] = New(v)]
            /\ Done(n)
            /\ UNCHANGED <<st, queued, changes>>
         \/ /\ Exists(cached[n]) /\ cached[n].spec # v
            /\ cached[n] = sets[n]
            /\ sets' = [sets EXCEPT ![n] = Updated(@, v)]
            /\ Done(n)
            /\ UNCHANGED <<st, queued, changes>>
         \/ /\ cached[n].spec # v
            /\ \/ cached[n] # sets[n] /\ UNCHANGED changes
               \/ Change
            /\ FailSync
            /\ UNCHANGED sets
  /\ UNCHANGED <<spec, cached, data, whole, unseen>>

\* The builder of the StatefulSet, when no NodeSet is listed.  The one of an
\* owner that lists NodeSets later stays.
Whole == IF Listed = {} /\ whole = "none" THEN "starting" ELSE whole

\* Mutation: the remote NodeSets are forgotten.
UnlistedLocal(kind) == {n \in kind \ Remote : Exists(cached[n]) /\ spec[n] = 0}

\* syncNodeSetSpecInline lists the NodeSets of a kind that are not listed.
Unlisted(kind) == {n \in kind : Exists(cached[n]) /\ spec[n] = 0}

\* The API server removes an object, or marks one that has a finalizer.
Deleted(o) ==
  IF ~o.finalizer THEN None
  ELSE IF o.deleting THEN o
  ELSE [o EXCEPT !.deleting = TRUE, !.gen = @ + 1]

DeleteNodeSet(n) ==
  /\ rec.pc \in {"deleteLocal", "deleteRemote"}
  /\ n \in rec.todo
  /\ \/ /\ Exists(sets[n])
        /\ sets' = [sets EXCEPT ![n] = Deleted(@)]
        /\ Done(n)
        /\ UNCHANGED <<st, queued, changes>>
     \/ /\ \/ ~Exists(sets[n]) /\ UNCHANGED changes
           \/ Change
        /\ FailSync
        /\ UNCHANGED sets
  /\ UNCHANGED <<spec, cached, data, whole, unseen>>

\* The end of handleResourcesSync, and the head of the next step.
EndSync ==
  \/ /\ ~IsStatusConditionTrue(st.conds, "Prepared")
     /\ UpdateStatus(WithCond(st, "Prepared", "True"))
  \/ /\ IsStatusConditionTrue(st.conds, "Prepared")
     /\ st.state = "Initializing"
     /\ UpdateStatus(WithStateAndCond(st, "Provisioning", "Provisioned", "Unknown"))
  \/ /\ IsStatusConditionTrue(st.conds, "Prepared")
     /\ st.state # "Initializing"
     /\ Goto("waitForNodeSetsToProvisioned", Listed)
     /\ UNCHANGED <<st, queued>>

DeleteRemote ==
  IF Unlisted(Remote) = {} THEN EndSync
  ELSE Goto("deleteRemote", Unlisted(Remote)) /\ UNCHANGED <<st, queued>>

NodeSetsSynced ==
  /\ rec.pc = "handleResourcesSync"
  /\ rec.todo = {}
  /\ whole' = Whole
  /\ IF Unlisted(Local) = {} THEN DeleteRemote
     ELSE Goto("deleteLocal", Unlisted(Local)) /\ UNCHANGED <<st, queued>>
  /\ unseen' = {n \in NodeSet \ Listed : Exists(sets[n]) /\ ~Exists(cached[n])}
  /\ UNCHANGED <<spec, sets, cached, data, changes>>

LocalDeleted ==
  /\ rec.pc = "deleteLocal"
  /\ rec.todo = {}
  /\ DeleteRemote
  /\ UNCHANGED <<spec, sets, cached, data, whole, unseen, changes>>

RemoteDeleted ==
  /\ rec.pc = "deleteRemote"
  /\ rec.todo = {}
  /\ EndSync
  /\ UNCHANGED <<spec, sets, cached, data, whole, unseen, changes>>

\* Mutation: the generation is not compared.
IsTrue(o) == o.prov = "True"

\* What the owner asks of a NodeSet.
IsProvisioned(o) == o.prov = "True" /\ o.provGen = o.gen

\* waitForNodeSetsToProvisioned looks at one NodeSet, in the cache.
CheckNodeSet(n) ==
  /\ rec.pc = "waitForNodeSetsToProvisioned"
  /\ n \in rec.todo
  /\ \/ /\ ~Exists(cached[n])
        /\ Return(TRUE)
        /\ UNCHANGED st
     \/ /\ Exists(cached[n]) /\ ~IsProvisioned(cached[n])
        /\ UpdateStatus(WithCond(st, "Provisioned", "False"))
     \/ /\ Exists(cached[n]) /\ IsProvisioned(cached[n])
        /\ Done(n)
        /\ UNCHANGED <<st, queued>>
  /\ UNCHANGED <<spec, sets, cached, data, whole, unseen, changes>>

\* All of them are; without any, waitForStatefulSetToScale looks at the Pods.
\* Then handlePauseResume.  (The self-check of a Storage, which comes last, may
\* ask for another reconcile and is in StorageSync.)
NodeSetsProvisioned ==
  /\ rec.pc = "waitForNodeSetsToProvisioned"
  /\ rec.todo = {}
  /\ LET missing == Listed = {} /\ whole # "ready"
         new == IF IsStatusConditionTrue(st.conds, "Provisioned")
                THEN PauseResume(st, FALSE)
                ELSE WithCond(st, "Provisioned", "True")
     IN  \/ missing /\ UpdateStatus(WithCond(st, "Provisioned", "False"))
         \/ ~missing /\ new # st /\ UpdateStatus(new)
         \/ ~missing /\ new = st /\ Return(FALSE) /\ UNCHANGED st
  /\ UNCHANGED <<spec, sets, cached, data, whole, unseen, changes>>

\* A read fails, or the write of a status.
ApiError ==
  /\ Change
  /\ rec.pc # "idle"
  /\ Return(TRUE)
  /\ UNCHANGED <<spec, st, sets, cached, data, whole, unseen>>

Crash ==
  /\ Change
  /\ rec' = Idle
  /\ queued' = TRUE
  /\ cached' = sets
  /\ UNCHANGED <<spec, st, sets, data, whole, unseen>>

Controller ==
  \/ Reconcile \/ NodeSetsSynced \/ LocalDeleted \/ RemoteDeleted
  \/ NodeSetsProvisioned
  \/ \E n \in NodeSet : SyncNodeSet(n) \/ DeleteNodeSet(n) \/ CheckNodeSet(n)

RemoteController(n) == RemoteSync(n) \/ RemoteStatus(n) \/ RemoteDelete(n)

Next ==
  \/ Controller \/ WholeReady \/ ApiError \/ Crash
  \/ \E n \in NodeSet : UserEdit(n) \/ CacheSync(n) \/ ReportProvisioned(n)
                        \/ ReportUnready(n) \/ LosePod(n) \/ RemoteController(n)

\* The workqueue serves every request, informers deliver, the other controllers
\* run, and Pods come up in the end.  Nobody has to see Pods missing.
Fairness ==
  /\ WF_vars(Controller)
  /\ WF_vars(WholeReady)
  /\ \A n \in NodeSet : WF_vars(CacheSync(n)) /\ WF_vars(ReportProvisioned(n))
                        /\ WF_vars(RemoteController(n))

Spec == Init /\ [][Next]_vars /\ Fairness

-----------------------------------------------------------------------------
\* When the owner has nothing left to do (no request, no reconcile in flight, a
\* cache that is up to date) it reports Ready; each NodeSet has the content that
\* the spec lists (or none, when it is not listed), and the Provisioned condition
\* of a listed one was last written at its last generation; but for those being
\* deleted, whose end wakes the owner again.  That the condition is True is not
\* said: it was when the owner looked, and Pods that are lost later make it False
\* without waking an owner that is Ready.
\* A reconcile that updates a NodeSet goes on with the copy from before the
\* update, which may well be provisioned; what saves the report is that the
\* update comes back as an event.  A creation comes back as none: a NodeSet that
\* is dropped before the cache has it stays.
QuiescentIsBuilt ==
  (rec.pc = "idle" /\ ~queued /\ cached = sets) =>
    /\ IsStatusConditionTrue(st.conds, "Ready")
    /\ \A n \in NodeSet \ unseen :
         \/ sets[n].deleting
         \/ sets[n].spec = spec[n] /\ sets[n].provGen = sets[n].gen

\* What the spec lists is built, in the other clusters too, and what it does not
\* list is dropped, although a deletion or an update that fails ends the loop
\* over the NodeSets, and a NodeSet may be listed again while it is deleted.
\* Those dropped before the cache has them are left out.
EventuallyAsListed ==
  <>[](/\ \A n \in NodeSet \ unseen : sets[n].spec = spec[n]
       /\ \A n \in Remote \ unseen : data[n].spec = spec[n])

\* A NodeSet whose Pods are all ready and whose condition is of another
\* generation: nothing brings it up to date, and the owner waits for it.  The
\* controller of a NodeSet does not write a condition that is True again, and
\* that of a remote one copies generations that are not its own.
StuckOnGeneration(n) == sets[n].prov = "True" /\ sets[n].provGen # sets[n].gen

\* The owner becomes Ready and stays so, unless a NodeSet is stuck.
EventuallyReady ==
  \/ <>[](\E n \in Listed : StuckOnGeneration(n))
  \/ <>[]IsStatusConditionTrue(st.conds, "Ready")
=============================================================================
