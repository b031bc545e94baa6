--------------------------- MODULE RemoteNodeSet ---------------------------
(***************************************************************************)
(* The RemoteStorageNodeSet and RemoteDatabaseNodeSet controllers, which   *)
(* run in a data cluster.  Each remote NodeSet of the management cluster   *)
(* declares objects (Secrets, a ConfigMap, Services) that its controller   *)
(* copies to the data cluster, records in status.remoteResources and       *)
(* removes when they are no longer declared.  The NodeSets share the       *)
(* copies: an annotation for each kind says which kind uses a copy.        *)
(*                                                                         *)
(* Each of the two controllers has one worker, so reconciles of NodeSets   *)
(* of one kind do not overlap, and those of different kinds do.  Reads are *)
(* current here; what a lagging cache does is the subject of StorageSync.  *)
(***************************************************************************)
EXTENDS Integers, FiniteSets, FiniteSetsExt, Sequences

CONSTANTS
  StorageSets,   \* the RemoteStorageNodeSets, all of one Storage
  DatabaseSets,  \* the RemoteDatabaseNodeSets, all of one Database
  NumObjects,    \* how many objects there are to declare
  Always,        \* those that are built before a NodeSet and that each declares
  MaxVersion,    \* bound on the versions of an object of the management cluster
  MaxEdits,      \* bound on edits of the declared objects
  MaxFaults      \* bound on API errors and crashes of the operator

ASSUME RemoteAssumption ==
  /\ IsFiniteSet(StorageSets) /\ IsFiniteSet(DatabaseSets)
  /\ StorageSets \cap DatabaseSets = {}
  /\ {NumObjects, MaxVersion} \subseteq Nat \ {0}
  /\ Always \subseteq 1..NumObjects
  /\ {MaxEdits, MaxFaults} \subseteq Nat

NodeSet == StorageSets \cup DatabaseSets

\* The objects, in the order of GetRemoteObjects.
Object == 1..NumObjects

\* What a NodeSet may declare.
Declarable == {s \in SUBSET Object : Always \subseteq s}

Kind == {"storage", "database"}
KindOf(n) == IF n \in StorageSets THEN "storage" ELSE "database"
OtherKind(k) == IF k = "storage" THEN "database" ELSE "storage"

VARIABLES
  remote,    \* the version of each object in the management cluster (0: none)
  spec,      \* the objects that each remote NodeSet declares
  life,      \* each remote NodeSet: new, with the finalizer, being deleted, gone
  status,    \* its status.remoteResources: a list of entries
  local,     \* the copy of each object in the data cluster
  nodeSets,  \* the NodeSets of the data cluster, with the spec they were given
  observed,  \* the spec that the status of each NodeSet is about
  reported,  \* the spec that the status of each remote NodeSet is about
  queued,    \* the remote NodeSets in the workqueues
  rec,       \* the reconcile in flight of each controller
  lost,      \* history: the copies that a NodeSet may have left behind (Loses)
  edits,     \* edits of the declared objects so far
  faults     \* API errors and crashes so far

vars == <<remote, spec, life, status, local, nodeSets, observed,
          reported, queued, rec, lost, edits, faults>>
mgmt == <<remote, spec, life, edits>>
data == <<local, nodeSets, observed>>

\* An entry: the object, and its RemoteResourceSynced condition.
Entry == [obj : Object, cond : {"Unknown", "True", "False"}]

\* A copy: the version it was taken from, and the kinds annotated on it.
Copy == [ver : 0..MaxVersion, anns : SUBSET Kind]
NoCopy == [ver |-> 0, anns |-> {}]

\* No NodeSet in the data cluster, or none reported yet.
None == {0}

\* A reconcile: its NodeSet, next step, and copies of the spec and the status;
\* in removeUnusedRemoteObjects the candidates left, with their places in the
\* list, whether another NodeSet of the kind exists, and the annotations of the
\* first candidate as last seen.
Candidate == [at : Nat, obj : Object]
Rec == [pc : {"initRemoteObjectsStatus", "syncRemoteObjects", "handleResourcesSync",
              "removeUnusedRemoteObjects", "unsetAnnotation", "deleteUnused",
              "updateRemoteStatus"},
        n : NodeSet, spec : SUBSET Object, st : Seq(Entry), deleting : BOOLEAN,
        todo : SUBSET Candidate, others : BOOLEAN, anns : SUBSET Kind]
Idle == [pc |-> "idle"]

TypeOK ==
  /\ remote \in [Object -> 0..MaxVersion]
  /\ spec \in [NodeSet -> SUBSET Object]
  /\ life \in [NodeSet -> {"new", "guarded", "deleting", "gone"}]
  /\ status \in [NodeSet -> Seq(Entry)]
  /\ local \in [Object -> Copy]
  /\ nodeSets \in [NodeSet -> (SUBSET Object) \cup {None}]
  /\ observed \in [NodeSet -> (SUBSET Object) \cup {None}]
  /\ reported \in [NodeSet -> (SUBSET Object) \cup {None}]
  /\ queued \subseteq NodeSet
  /\ rec \in [Kind -> Rec \cup {Idle}]
  /\ lost \in [NodeSet -> SUBSET Object]
  /\ edits \in 0..MaxEdits
  /\ faults \in 0..MaxFaults

Init ==
  /\ remote \in {r \in [Object -> {0, 1}] : \A o \in Always : r[o] = 1}
  /\ spec \in [NodeSet -> Declarable]
  /\ life = [n \in NodeSet |-> "new"]
  /\ status = [n \in NodeSet |-> <<>>]
  /\ local = [o \in Object |-> NoCopy]
  /\ nodeSets = [n \in NodeSet |-> None]
  /\ observed = [n \in NodeSet |-> None]
  /\ reported = [n \in NodeSet |-> None]
  /\ queued = NodeSet
  /\ rec = [k \in Kind |-> Idle]
  /\ lost = [n \in NodeSet |-> {}]
  /\ edits = 0
  /\ faults = 0

-----------------------------------------------------------------------------
(***************************************************************************)
(* The management cluster.  Its objects are not watched.                   *)
(***************************************************************************)
WriteRemote(o) ==
  /\ remote[o] < MaxVersion
  /\ remote' = [remote EXCEPT ![o] = @ + 1]
  /\ UNCHANGED <<spec, life, status, data, reported, queued, rec, lost, edits, faults>>

Edit(n) ==
  /\ edits < MaxEdits
  /\ edits' = edits + 1
  /\ life[n] \in {"new", "guarded"}
  /\ \E s \in Declarable \ {spec[n]} : spec' = [spec EXCEPT ![n] = s]
  /\ queued' = queued \cup {n}
  /\ UNCHANGED <<remote, life, status, data, reported, rec, lost, faults>>

\* A remote NodeSet without the finalizer is gone at once.
DeleteNodeSet(n) ==
  /\ life[n] \in {"new", "guarded"}
  /\ life' = [life EXCEPT ![n] = IF @ = "new" THEN "gone" ELSE "deleting"]
  /\ queued' = queued \cup {n}
  /\ UNCHANGED <<remote, spec, status, data, reported, rec, lost, edits, faults>>

\* Mutation: NodeSets are not watched.
StatusWakesNobody(n) == {}

\* The remote NodeSets that a status update of NodeSet n queues.
StatusWakes(n) == {n}

\* The NodeSet controller of the data cluster (NodeSetSync) writes the status of
\* a NodeSet for the spec it was given; the update event queues the remote one.
NodeSetStatus(n) ==
  /\ observed[n] # nodeSets[n]
  /\ observed' = [observed EXCEPT ![n] = nodeSets[n]]
  /\ queued' = queued \cup StatusWakes(n)
  /\ UNCHANGED <<mgmt, status, local, nodeSets, reported, rec, lost, faults>>

-----------------------------------------------------------------------------
(***************************************************************************)
(* The reconcile loop of the controller of kind k.                         *)
(***************************************************************************)
Busy(k, step) == rec[k].pc = step

Goto(k, step) == rec' = [rec EXCEPT ![k].pc = step]

\* Mutation: the annotation on a copy wakes nobody.
NoWatchers(copy) == {}

\* Mutation: the request names the primary resource, not its NodeSets.
PrimaryResources(copy) == copy.anns

\* annotationFilter: whom an event of a copy queues, by its annotations.
Watchers(copy) ==
  {n \in NodeSet : KindOf(n) \in copy.anns /\ nodeSets[n] # None}

\* The reconcile of k ends; woken are the NodeSets that its result and the
\* events of its writes queue.
Return(k, woken) ==
  /\ rec' = [rec EXCEPT ![k] = Idle]
  /\ queued' = queued \cup woken

\* updateStatusRemoteObjects: the entries are written and the reconcile ends
\* with a request for another one.
UpdateStatusRemoteObjects(k, st, woken) ==
  /\ status' = [status EXCEPT ![rec[k].n] = st]
  /\ Return(k, {rec[k].n} \cup woken)

\* The objects of the entries.
Entries(st) == {st[i].obj : i \in DOMAIN st}

\* CreateRemoteResourceStatus: a new entry comes last.
CreateEntry(st, o) == Append(st, [obj |-> o, cond |-> "Unknown"])

\* UpdateRemoteResourceStatus: the condition of the entry of o.
UpdateEntry(st, o, cond) ==
  [i \in DOMAIN st |-> IF st[i].obj = o THEN [obj |-> o, cond |-> cond] ELSE st[i]]

Synced(st, o) == \E i \in DOMAIN st : st[i].obj = o /\ st[i].cond = "True"

\* Mutation: the finalizer is forgotten.
ForgetFinalizer(l) == l

AddFinalizer(l) == IF l = "new" THEN "guarded" ELSE l

\* The controller takes a remote NodeSet: it adds the finalizer and goes on
\* with Sync, or starts deleteExternalResources, which deletes the NodeSet (an
\* event that queues it again).
Reconcile(n) ==
  /\ n \in queued
  /\ rec[KindOf(n)] = Idle
  /\ \/ /\ life[n] = "gone"
        /\ queued' = queued \ {n}
        /\ UNCHANGED <<life, nodeSets, observed, rec>>
     \/ /\ life[n] # "gone"
        /\ life' = [life EXCEPT ![n] = AddFinalizer(@)]
        /\ LET deleting == life[n] = "deleting"
           IN  /\ queued' = IF deleting /\ nodeSets[n] # None THEN queued ELSE queued \ {n}
               /\ nodeSets' = [nodeSets EXCEPT ![n] = IF deleting THEN None ELSE @]
               /\ observed' = [observed EXCEPT ![n] = IF deleting THEN None ELSE @]
               /\ rec' = [rec EXCEPT ![KindOf(n)] =
                    [pc |-> IF deleting THEN "removeUnusedRemoteObjects"
                                        ELSE "initRemoteObjectsStatus",
                     n |-> n, spec |-> IF deleting THEN {} ELSE spec[n],
                     st |-> status[n], deleting |-> deleting,
                     todo |-> {}, others |-> FALSE, anns |-> {}]]
  /\ UNCHANGED <<remote, spec, status, local, reported, lost, edits, faults>>

InitRemoteObjectsStatus(k) ==
  /\ Busy(k, "initRemoteObjectsStatus")
  /\ LET new == rec[k].spec \ Entries(rec[k].st)
     IN  IF new # {}
         THEN /\ UpdateStatusRemoteObjects(k, CreateEntry(rec[k].st, Min(new)), {})
              /\ lost' = [lost EXCEPT ![rec[k].n] = @ \ {Min(new)}]
         ELSE Goto(k, "syncRemoteObjects") /\ UNCHANGED <<status, queued, lost>>
  /\ UNCHANGED <<mgmt, data, reported, faults>>

\* Copy o is the latest version and carries the annotation of kind k.
UpToDate(k, o) ==
  local[o].ver = remote[o] /\ remote[o] # 0 /\ k \in local[o].anns

\* The copy of o that is created, or the one that is there after the patch.
SyncedCopy(k, o) ==
  [ver |-> remote[o], anns |-> IF local[o] = NoCopy THEN {} ELSE local[o].anns \cup {k}]

\* The first declared object that is not in sync: it is missing in the
\* management cluster, or its copy is created or patched.  A copy is created
\* without the annotation, which the next reconcile adds.
SyncRemoteObjects(k) ==
  /\ Busy(k, "syncRemoteObjects")
  /\ LET stale == {o \in rec[k].spec : ~UpToDate(k, o) \/ ~Synced(rec[k].st, o)}
         o == Min(stale)
     IN  \/ /\ stale = {}
            /\ Goto(k, "handleResourcesSync")
            /\ UNCHANGED <<status, queued, local, faults>>
         \/ /\ stale # {} /\ remote[o] = 0
            /\ Return(k, {rec[k].n})
            /\ UNCHANGED <<status, local, faults>>
         \/ /\ stale # {} /\ remote[o] # 0
            /\ local' = [local EXCEPT ![o] = SyncedCopy(k, o)]
            /\ UpdateStatusRemoteObjects(k, UpdateEntry(rec[k].st, o, "True"),
                 IF local[o] \in {NoCopy, local'[o]} THEN {} ELSE Watchers(local'[o]))
            /\ UNCHANGED faults
         \/ /\ stale # {} /\ remote[o] # 0
            /\ faults < MaxFaults
            /\ faults' = faults + 1
            /\ UpdateStatusRemoteObjects(k, UpdateEntry(rec[k].st, o, "False"), {})
            /\ UNCHANGED local
  /\ UNCHANGED <<mgmt, nodeSets, observed, reported, lost>>

\* The NodeSet is created or brought to the spec; an update queues it.
HandleResourcesSync(k) ==
  /\ Busy(k, "handleResourcesSync")
  /\ nodeSets' = [nodeSets EXCEPT ![rec[k].n] = rec[k].spec]
  /\ queued' = IF nodeSets[rec[k].n] \in {None, rec[k].spec} THEN queued
                                                            ELSE queued \cup {rec[k].n}
  /\ Goto(k, "removeUnusedRemoteObjects")
  /\ UNCHANGED <<mgmt, status, local, observed, reported, lost, faults>>

\* The candidates for removal: the entries that are not declared.
Unused(k) ==
  {[at |-> i, obj |-> rec[k].st[i].obj] :
     i \in {j \in DOMAIN rec[k].st : rec[k].st[j].obj \notin rec[k].spec}}

\* They are looked at in the order of the list.
FirstOf(todo) == CHOOSE c \in todo : \A d \in todo : c.at <= d.at

\* Another NodeSet of the kind, whatever it declares.
AnotherNodeSet(k) ==
  \E m \in NodeSet \ {rec[k].n} : KindOf(m) = k /\ nodeSets[m] # None

RemoveUnusedRemoteObjects(k) ==
  /\ Busy(k, "removeUnusedRemoteObjects")
  /\ rec' = [rec EXCEPT ![k].pc = IF Unused(k) = {} THEN "updateRemoteStatus"
                                                    ELSE "unsetAnnotation",
                        ![k].todo = Unused(k),
                        ![k].others = AnotherNodeSet(k)]
  /\ UNCHANGED <<mgmt, data, status, reported, queued, lost, faults>>

\* Mutation: the annotation stays.
KeepAnnotation(anns) == anns

\* The patch that unsets an annotation; both controllers name the storage's.
UnsetPrimaryResource(anns) == anns \ {"storage"}

\* Mutation: the annotation that the check looks for is its own kind's.
DeletesWithoutOwn(k, anns) == k \notin anns

\* The copy is not used by the other kind.
Deletes(k, anns) == OtherKind(k) \notin anns

\* NodeSet n may leave the copies of objs behind: the annotation of the database
\* kind stays on a copy that the storage kind uses (the other way round the
\* database kind unsets it), a deletion failed, or the entry was removed in the
\* place of another one and the object is declared.
Loses(n, objs) == lost' = [lost EXCEPT ![n] = @ \cup objs]

\* The loop over the candidates, up to the check of the annotation.  An entry
\* without a copy is skipped and stays in the status.  The copy at hand is the
\* one that the patch returned, or the one that was read when the patch failed.
UnsetAnnotation(k) ==
  /\ Busy(k, "unsetAnnotation")
  /\ rec[k].todo # {}
  /\ LET c == FirstOf(rec[k].todo)
         o == c.obj
         unset == UnsetPrimaryResource(local[o].anns)
     IN  \/ /\ local[o] = NoCopy
            /\ rec' = [rec EXCEPT ![k].todo = @ \ {c}]
            /\ UNCHANGED <<local, queued, lost, faults>>
         \/ /\ local[o] # NoCopy
            /\ ~rec[k].others
            /\ local' = [local EXCEPT ![o].anns = unset]
            /\ queued' = queued \cup Watchers(local[o])
            /\ rec' = [rec EXCEPT ![k].pc = "deleteUnused", ![k].anns = unset]
            /\ UNCHANGED <<lost, faults>>
         \/ /\ local[o] # NoCopy
            /\ \/ rec[k].others /\ UNCHANGED faults
               \/ ~rec[k].others /\ faults < MaxFaults /\ faults' = faults + 1
            /\ rec' = [rec EXCEPT ![k].pc = "deleteUnused", ![k].anns = local[o].anns]
            /\ Loses(rec[k].n, IF k = "database" /\ "storage" \in local[o].anns
                               THEN {o} ELSE {})
            /\ UNCHANGED <<local, queued>>
  /\ UNCHANGED <<mgmt, nodeSets, observed, status, reported>>

\* RemoveRemoteResourceStatus.  The object it is given was converted from the
\* entry and has no GroupVersionKind any more, so it is equal to no entry, the
\* index stays at zero and the first entry is removed, whichever it is about.
RemoveEntry(st) == SubSeq(st, 2, Len(st))

\* The rest of the loop body; a failed deletion is only reported.
DeleteUnused(k) ==
  /\ Busy(k, "deleteUnused")
  /\ rec[k].todo # {}
  /\ LET c == FirstOf(rec[k].todo)
         o == c.obj
     IN  /\ \/ /\ Deletes(k, rec[k].anns)
               /\ local' = [local EXCEPT ![o] = NoCopy]
               /\ queued' = queued \cup Watchers(local[o])
               /\ UNCHANGED <<lost, faults>>
            \/ /\ ~Deletes(k, rec[k].anns)
               /\ UNCHANGED <<local, queued, lost, faults>>
            \/ /\ Deletes(k, rec[k].anns)
               /\ faults < MaxFaults
               /\ faults' = faults + 1
               /\ Loses(rec[k].n, {o})
               /\ UNCHANGED <<local, queued>>
         /\ rec' = [rec EXCEPT ![k].pc = "unsetAnnotation",
                               ![k].st = RemoveEntry(@),
                               ![k].todo = @ \ {c}]
  /\ UNCHANGED <<mgmt, nodeSets, observed, status, reported>>

\* Mutation: the finalizer waits for an empty status.
ReleasedWhenEmpty(k) ==
  rec[k].deleting /\ status[rec[k].n] = rec[k].st /\ Entries(rec[k].st) = {}

\* The copy whose finalizer is removed is the latest version.
Released(k) == rec[k].deleting /\ status[rec[k].n] = rec[k].st

\* The loop is over.  Under deletion the finalizer goes next: the status write
\* made the copy at hand stale unless it changed nothing.
RemovalWritten(k) ==
  /\ Busy(k, "unsetAnnotation")
  /\ rec[k].todo = {}
  /\ LET n == rec[k].n
     IN  /\ life' = [life EXCEPT ![n] = IF Released(k) THEN "gone" ELSE @]
         /\ status' = [status EXCEPT ![n] = rec[k].st]
         /\ Loses(n, (Entries(status[n]) \ Entries(rec[k].st)) \cap rec[k].spec)
         /\ Return(k, IF Released(k) THEN {} ELSE {n})
  /\ UNCHANGED <<remote, spec, edits, data, reported, faults>>

\* The end of Sync copies the status of the NodeSet to the remote NodeSet; under
\* deletion nothing was left to remove and the finalizer goes.
UpdateRemoteStatus(k) ==
  /\ Busy(k, "updateRemoteStatus")
  /\ LET n == rec[k].n
     IN  /\ reported' = [reported EXCEPT ![n] = IF rec[k].deleting THEN @ ELSE observed[n]]
         /\ life' = [life EXCEPT ![n] = IF rec[k].deleting THEN "gone" ELSE @]
  /\ Return(k, {})
  /\ UNCHANGED <<remote, spec, edits, status, data, lost, faults>>

\* A read or a write fails before it has an effect, and the step returns the error.
ApiError(k) ==
  /\ rec[k] # Idle
  /\ faults < MaxFaults
  /\ faults' = faults + 1
  /\ Return(k, {rec[k].n})
  /\ UNCHANGED <<mgmt, status, data, reported, lost>>

Crash ==
  /\ faults < MaxFaults
  /\ faults' = faults + 1
  /\ rec' = [k \in Kind |-> Idle]
  /\ queued' = {n \in NodeSet : life[n] # "gone"}
  /\ UNCHANGED <<mgmt, status, data, reported, lost>>

Controller(k) ==
  \/ InitRemoteObjectsStatus(k) \/ SyncRemoteObjects(k)
  \/ HandleResourcesSync(k) \/ RemoveUnusedRemoteObjects(k) \/ UnsetAnnotation(k)
  \/ DeleteUnused(k) \/ RemovalWritten(k) \/ UpdateRemoteStatus(k)

Next ==
  \/ \E k \in Kind : Controller(k) \/ ApiError(k)
  \/ \E o \in Object : WriteRemote(o)
  \/ \E n \in NodeSet : Reconcile(n) \/ Edit(n) \/ DeleteNodeSet(n) \/ NodeSetStatus(n)
  \/ Crash

\* A worker finishes what it began and serves its queue in order, so that no
\* NodeSet is passed over for ever; the NodeSet controller writes the status.
Fairness ==
  /\ \A k \in Kind : WF_vars(Controller(k))
  /\ \A n \in NodeSet : SF_vars(Reconcile(n)) /\ WF_vars(NodeSetStatus(n))

Spec == Init /\ [][Next]_vars /\ Fairness

-----------------------------------------------------------------------------
\* Every object is there to be copied; a missing one holds up those after it.
NoneMissing == \A p \in Object : remote[p] # 0

Declares(n, o) == life[n] # "gone" /\ life[n] # "deleting" /\ o \in spec[n]

\* The NodeSets of kind k in the data cluster that use the copy of o.
Users(k, o) == {n \in NodeSet : KindOf(n) = k /\ o \in nodeSets[n]}

\* The controller of kind k deletes the copy of o.
DeletesCopy(k, o) ==
  Busy(k, "deleteUnused") /\ local[o] # NoCopy /\ local'[o] = NoCopy

\* A copy is never deleted under a NodeSet of the other kind that uses it.
OtherKindKeeps ==
  [][\A k \in Kind, o \in Object : DeletesCopy(k, o) => Users(OtherKind(k), o) = {}]_vars

\* A declared object that exists is eventually copied for good, although the
\* other NodeSets that share the copy remove it when they stop to use it.
EventuallyCopied ==
  \A n \in NodeSet : \A o \in Object :
    <>[](Declares(n, o) /\ NoneMissing) => <>[](local[o] # NoCopy)

\* A copy that nobody declares any more is eventually removed, unless a NodeSet
\* has left it behind: it had lost the entry to the removal of another one and was
\* deleted or edited before initRemoteObjectsStatus made it again, a deletion
\* failed, or the annotation of the database kind keeps the other from deleting it.
EventuallyRemoved ==
  \A o \in Object :
    <>[](NoneMissing /\ \A n \in NodeSet : ~Declares(n, o))
      => <>[](local[o] = NoCopy) \/ <>[](\E n \in NodeSet : o \in lost[n])

\* A remote NodeSet that is deleted is eventually gone.
EventuallyGone ==
  \A n \in NodeSet : life[n] = "deleting" ~> life[n] = "gone"

\* A remote NodeSet that is gone leaves no NodeSet running in the data cluster:
\* the finalizer holds it back until the last reconcile has deleted the NodeSet.
NoOrphanNodeSet ==
  \A n \in NodeSet : life[n] = "gone" => nodeSets[n] = None

\* The status keeps an entry that is not declared any more and has no copy.  It is
\* what remains when an object is dropped whose entry is not the first of the list,
\* because the first one was removed in its place.
EntryLeft(n) == \E o \in Entries(status[n]) \ spec[n] : local[o] = NoCopy

\* The status of a NodeSet is eventually reported for its latest spec, unless
\* such an entry keeps updateRemoteStatus from being reached: removeUnused-
\* RemoteObjects skips it, writes the same status and asks for another reconcile.
ReportedUnlessEntryLeft ==
  \A n \in NodeSet :
    <>[](life[n] = "guarded" /\ NoneMissing)
      => <>[](reported[n] = spec[n]) \/ <>[]EntryLeft(n)
=============================================================================
