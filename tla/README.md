# YDB Kubernetes operator: TLA+ specifications

TLA+ models of the controllers of the YDB Kubernetes operator, the TLC
configurations that check them on small instances, and proofs that TLAPS checks
for every value of the constants. Paths are relative to the repository root.
`PROJECT.json` maps every definition to the lines it models and lists the runs,
the mutations that show each property can fail, the hazards and the theorems.

## 1. The system and its parts

The operator is a set of controllers. Each has a workqueue, one worker, an
informer cache, and a `Reconcile` that reads one custom resource, calls the steps
of `Sync` in order, and ends in a status write with a requeue, in an error, or in
an empty result (sleep until the next event). A `Storage` becomes the static
nodes of a YDB cluster, a `Database` a tenant with its dynamic nodes; both run
directly on a StatefulSet or on `*NodeSet` resources; `Remote*NodeSet` resources
let the nodes run in another Kubernetes cluster.

| Part | State | Operations | Talks to | Correct when |
|---|---|---|---|---|
| Storage controller (`internal/controllers/storage/{controller,sync,init}.go`) | `status.state`, conditions, finalizer | the steps of `Sync`, `updateStatus` | API server, StatefulSet, init Job | initialization is reported only when it happened; the state follows the pipeline; a wanted Storage becomes Ready |
| Configuration sync (`storage/config.go`, `internal/cms/dynconfig.go`, `operation.go`) | `ConfigurationSynced`, `ReplaceConfigOperation` (with the operation id) | `setConfigPipelineStatus`, `handleConfigurationSync`, `replaceConfig`, `checkReplaceConfigOperation` | CMS of the YDB cluster | reported synced only if installed; eventually synced |
| Storage deletion (`storage/controller.go`) | finalizer | `Reconcile`, `checkExistingDatabases` | webhooks, Databases | Databases keep their Storage; deletion ends |
| NodeSets of an owner (`storage/sync.go`, `database/sync.go`: `handleResourcesSync`, `syncNodeSetSpecInline`, `waitForNodeSetsToProvisioned`) | the NodeSets listed in the spec | create, update, delete, wait for a condition | NodeSet and remote NodeSet controllers | what is listed is built in every cluster, what is not goes; the owner becomes Ready |
| Database controller (`internal/controllers/database`, `internal/cms/tenant.go`) | `status.state`, conditions, operation id | the steps of `Sync`, `initializeTenant`, `checkCreateDatabaseOperation` | Storage, shared Database, CMS, StatefulSet | initialized only with a tenant, which comes after the Storage and the shared Database; becomes Ready |
| NodeSet controllers (`storagenodeset`, `databasenodeset`) | `status.state`, conditions with their generation | the steps of `Sync` | owner, StatefulSet | provisioned at a generation only if built from it; becomes Ready |
| Remote NodeSet controllers (`remotestoragenodeset`, `remotedatabasenodeset`) | `status.remoteResources`, finalizer, copies and annotations in the data cluster | copy, annotate, remove declared objects; mirror the NodeSet and its status | two API servers, each other's copies | copies exist while declared, go when not; no NodeSet outlives its remote one |
| Create-or-update helpers, predicates (`internal/resources/{resource,predicate}.go`) | none | `CreateOrUpdateOrMaybeIgnore`, patches | API server | part of the actions that call them |
| Webhooks (`api/v1alpha1/*_webhook.go`, `configuration.go`) | none | defaulting, validation | users, the controllers' own `Update`s | what the operator works on has been validated; no valid write is refused for ever |
| Monitoring controllers (`internal/controllers/monitoring`) | a ServiceMonitor | wait for the cluster, find its Service, create or update | Storage, Database, Service, each other's ServiceMonitor | a ServiceMonitor stays with one kind and goes only to a successor; a monitored cluster gets one |
| Resource builders, connection, health check, exec, keys, labels, metrics, `main` | none of their own | pure functions, I/O | | not modelled (section 8) |

What is hard to test here: the cache a controller reads may lag behind its own
last write; status writes wake nobody (`GenerationChangedPredicate`); every step
may be the last before a restart; users edit, pause and freeze at any moment;
replies of the CMS get lost after they took effect; two controllers share the
copies in a data cluster; a NodeSet's status travels through two controllers and
two clusters before its owner reads it; the webhooks judge the operator's own
writes too. `hazards` in `PROJECT.json` lists each of these at its
line with the properties aimed at it.

## 2. Modules

    Conditions            status conditions, values of status.state
      Pipeline            how the goal (Ready or Paused) is reported; shared by
                          the Storage, Database and NodeSet controllers
        StorageSync       Storage controller        --implements--> Lifecycle
        DatabaseSync      Database controller       --implements--> Lifecycle
        NodeSetSync       StorageNodeSet and DatabaseNodeSet controllers
        NodeSetOwner      the owner of NodeSets, composed with what it sees of
                          the NodeSet and remote NodeSet controllers
    StorageConfig         dynamic configuration
    StorageAdmission      webhooks of a Storage
      StorageDeletion     creation, edits, finalizer, checkExistingDatabases
    RemoteNodeSet         both remote NodeSet controllers
    Monitoring            both monitoring controllers
    Lifecycle             abstract: what a status promises to its readers
    <module>Proofs        theorems about StorageSync, DatabaseSync, NodeSetSync,
                          NodeSetOwner, StorageConfig, StorageDeletion,
                          RemoteNodeSet and Monitoring
    MC<module>            the module TLC is started on

`Conditions` and `Pipeline` hold code that exists once per controller with other
names; `PROJECT.json` maps them to one of the copies, and each controller's own
actions to its own copy. Likewise the helpers of `RemoteNodeSet` are mapped to the
database variant and its actions to the storage variant of the same code. The
definitions named "Mutation" in comments are plausible bugs used only to show
that a property can fail; no specification uses them.

### The reconcile loop (`StorageSync`, `DatabaseSync`, `NodeSetSync`, `StorageConfig`)

`obj` is the object on the API server, `cache` the informer's copy, `fresh` says
whether they are the same version. `rec.pc` is the step of `Sync` that is next
and `rec.cr` the copy the reconcile works on: it is read once, in `Reconcile`,
and every step changes only it. `UpdateStatus` models `updateStatus`: it reads
the object again from the cache, replaces its status and writes; the API server
refuses the write if that read was not the latest version (optimistic locking by
`resourceVersion`), and a write that changes nothing is no new version. The
history variables `missed` and `stale` record what the reads missed; `stale` is
about the last reconcile only.

Every step of `Sync` is one action, named after its Go function; `Goto` is
"Continue", `WriteStatus` the call of `updateStatus`, `Return` any other end.
`CacheSync` is the watch: it queues a request when the generation changed, as
`GenerationChangedPredicate` does. `UserUpdate`/`OwnerUpdate` edit the spec (any
edit that is neither pause nor `operatorSync` stands for all other fields).
`OwnedEvent` is the event of any owned or mounted object; it happens between
reconciles, since one that comes during a reconcile is the same as one after it. `Crash` restarts the
operator: the reconcile in flight is lost, the cache is listed again, everything
is queued. `ApiError` is a failed read, or a write that had no effect.

* **StorageSync**: `sts` (desired and ready replicas), `job` (the init Job: its
  Pods may succeed, find the blobstorage initialized, or fail before or after
  doing the work; foreground deletion removes Pods before the Job) and `blob`
  (the blobstorage of the cluster is initialized). The configuration is static.
* **NodeSetSync**: as above; `sts.gen` is the generation the StatefulSet was
  built from, and `provGen` the `ObservedGeneration` of the condition that the
  owner compares with the latest one. `Kind` selects the controller.
* **DatabaseSync**: `storage` and `shared` are what the controller reads of the
  Storage and of the shared Database of a serverless one. The Storage, once
  initialized, stays so, as `Lifecycle` promises; the shared Database may lose a
  Pod or be deleted (`SharedSetback`), also between the check
  (`InitializeTenant`, `init.go:215`) and the call (`createTenant`,
  `init.go:275`), and `offered` remembers that it was provisioned. `tenant` and
  `ops` are the YDB cluster. `CreateDatabase` may end at once, start an operation, or lose
  its reply after either.
* **StorageConfig**: `cms` is the version and body in the CMS; a configuration
  is accepted for the current version and increments it. Others may have replaced
  the configuration before. Users write any version with any body: the webhook
  compares neither with the old one. `installed` is a history.

### StorageAdmission and StorageDeletion

`StorageAdmission` has `Default`, `ValidateCreate` and `ValidateUpdate` as
operators on a spec reduced to the fields they read: a configuration is how far
it can be read (`wellFormed`, `decodes`: `ParseConfiguration` swallows a decoding
error and goes on with an empty configuration), the number of its hosts, its
ports and whether it enforces tokens. `StorageDeletion` calls them where the API
server does: for the creation (`Init`), the users' edits, and the two writes of
the finalizer. `ValidateDelete` is registered for no operation (the markers at
`storage_webhook.go:105` and `:180` and the Helm chart say create and update), so
a deletion asks nobody.

Databases are created and deleted at any time (the defaulting webhook's look-up
of the Storage is skipped with `operatorSync` off). The list comes from the
Databases' own cache, of the namespace of the Storage (`Foreign`: the others).
`protected` is a history: the Databases of the namespace that the operator knew
of when the deletion was requested.

### NodeSetOwner

`spec` gives each listed NodeSet its content; `sets` are the NodeSet and remote
NodeSet objects with their generation and `NodeSetProvisioned` condition,
`cached` the owner's copies, `data` the NodeSets of the other clusters, `whole`
the StatefulSet of an owner whose spec lists nothing. The owner's reconcile goes
step by step (`SyncNodeSet` for each listed one, then `DeleteNodeSet` for each
unlisted one, local ones first, then `CheckNodeSet`), and each API call may fail
and end the loop. `Report`, `RemoteSync`, `RemoteStatus` and `RemoteDelete` are
what the owner sees of the other two controllers. A user edits between
reconciles: one reads the spec once, at its start. `unseen` is a history.

### Monitoring

One StorageMonitoring and one DatabaseMonitoring of the same name, whose clusters
share a namespace, so that both want one ServiceMonitor. Clusters, Services and
monitoring objects carry UIDs, because the garbage collector goes by them: it
removes what a vanished object controlled. `SetControllerReference`
(`monitoring/common.go:78`) does not: it compares kinds and names, so an object
that was deleted and created again takes over the ServiceMonitor of the former
one if it comes before the collector (`MayControl`).

### RemoteNodeSet

`remote` holds the objects of the management cluster, `local` the copies of the
data cluster with the annotations that say which kind uses them, `nodeSets` the
NodeSets of the data cluster with the spec they were given, `observed` and
`reported` the spec that the status of the NodeSet and of the remote NodeSet is
about. The two controllers (`rec["storage"]`, `rec["database"]`) interleave; each
call to an API server in `removeUnusedRemoteObjects` is a step of its own. The
database variant unsets the annotation of the storage kind
(`remotedatabasenodeset/remote_objects.go:280`), and so does the model.

The status is a list of entries, as in the code, because
`RemoveRemoteResourceStatus` (`resources/remotestoragenodeset.go:220`) goes by
the place: the object it is given comes from `ConvertRemoteResourceToObject`,
which leaves it without a GroupVersionKind (`resource.go:313`), so no entry is equal
to it, the index stays zero and the first entry is removed, whichever it is about
(`RemoveEntry`). `initRemoteObjectsStatus` makes a declared entry that was lost again,
at the end of the list. `lost` is a history of the copies that a NodeSet may have
left behind in this and in the other ways that `EventuallyRemoved` names. `Always`
are the objects that every NodeSet declares and that exist before it (the
ConfigMap).

### Lifecycle

The abstract specification: the state goes Pending, Preparing, Initializing,
Provisioning, then Ready or Paused; a state is left only when its condition is
reported True; "Initialized" is never taken back. `behind` marks a controller that
works on a copy without its own last status write: for its writes nothing is
promised (`Slip`). `ImplementsLifecycle` in
`StorageSync` and `DatabaseSync` is `L!Spec` under the mapping of `status.state`,
of the set of conditions that are True, and of `behind`.

## 3. Runs

`tlc -config <run>.cfg MC<module>`, in this directory.

| Run | Checks | Shows |
|---|---|---|
| `StorageSync` | `TypeOK MissesAtMostOneWrite InitializedIsReal NotReadyAndPaused QuiescentIsSettled ImplementsLifecycle EventuallyReady` | however stale the cache, a reconcile misses at most one own write and initialization is real; unless it misses one, the lifecycle is implemented, the controller does not sleep before the goal is reached, and Ready is reached and kept |
| `NodeSetSync` | `TypeOK ProvisionedIsCurrent EventuallyReady` | what the owner sees as provisioned is current; Ready is reached, through panics too, unless the last reconcile slept on a stale read |
| `StorageConfig` | `TypeOK SyncedIsInstalled SyncedUnlessOperationFailed` | lost replies, overlapping operations and edits never report a replacement that did not happen; a configuration is reported synced only if it was installed or another one took its version |
| `DatabaseSync` | `TypeOK InitializedIsReal TenantAfterStorage QuiescentIsSettled ImplementsLifecycle EventuallyReady` | the same for tenants, dedicated and serverless, which come after their Storage and shared Database |
| `StorageDeletion` | `TypeOK DatabasesKeepStorage ManagedPortsAgree EventuallyManaged EventuallyGone` | check-then-act on a lagging cache is safe for the Databases known at the request; the finalizer comes only with gRPC ports that agree, so the webhook never stands in the way of its removal |
| `NodeSetOwner` | `TypeOK QuiescentIsBuilt EventuallyAsListed EventuallyReady` | listed NodeSets are built and unlisted ones dropped in every cluster, whatever fails in the loop; the owner does not sleep on a NodeSet of an old generation, and becomes Ready unless one is stuck |
| `Monitoring` | `TypeOK NeverTakenOver EventuallyMonitored` | a ServiceMonitor goes only to a later object of the same kind and name; a monitoring object gets one, apart from the named exceptions |
| `RemoteNodeSet_live` | `EventuallyCopied EventuallyRemoved EventuallyGone ReportedUnlessEntryLeft` | two NodeSets of one kind, lists of two entries of which the wrong one may be removed, edits and deletions |
| `RemoteNodeSet_faults` | `TypeOK NoOrphanNodeSet EventuallyCopied EventuallyRemoved EventuallyGone` | one NodeSet of each kind, sharing a copy, with API errors and restarts |

Three runs end in a violation, each a disagreement of the code with what the
repository says:

| Run | Property | What happens |
|---|---|---|
| `StorageSync_pause` | `EventuallyPaused` | `storage/sync.go:163` compares the ready replicas with `spec.nodes` for a paused Storage too, whose StatefulSet has none; "Transitioning to state Paused" (`sync.go:102`) never completes |
| `NodeSetSync_panic` | `NoPanic` | `databasenodeset/sync.go:336` dereferences the old StatefulSet, which is nil for a DatabaseNodeSet created paused; `CHANGELOG.md:63` lists this panic as fixed |
| `RemoteNodeSet_annotation` | `OtherKindKeeps` | the database controller unsets the storage annotation, then finds it missing, and deletes a copy that a StorageNodeSet uses |

### Exceptions that properties name

Some properties hold only with an exception; the exception is what the code does.

* `WakeUpLost` (`NodeSetSync`, `StorageConfig`), `Behind` and `rec.behind`
  (`StorageSync`, `DatabaseSync`): all are about the last reconcile only, and an
  earlier stale read excuses nothing. The write before it was not visible to it,
  the reconcile found nothing to do and returned an empty result, and the event
  of the write is filtered by `GenerationChangedPredicate`. It takes
  a watch that lags by more than the requeue delay (1 s for most writes). After a
  stale read `status.state` may also go back by one write.
* `WaitsForFailed` (`StorageConfig`): `config.go:113-128` sets the condition of a
  failed operation in memory and returns without writing it, so that the same
  operation is polled for ever; only a new generation of the spec helps.
* `VersionTaken` (`StorageConfig`): `config.go:239` compares versions only, so a
  body edited under an unchanged or lower version is reported synced
  ("already synced") and never installed.
* `Overtaken` (`StorageConfig`): the version is compared once per generation; if an
  operation of an earlier spec takes the version after that, `ReplaceConfig` is
  refused and repeated for ever.
* `offered` (`DatabaseSync`): `TenantAfterStorage` asks that the shared Database
  was provisioned, not that it still is when the tenant is created.
* `HandedOn` (`Monitoring`): a ServiceMonitor is taken over by the successor of its
  controller, of the same kind and name, and never goes back.
* `EntryLeft` (`RemoteNodeSet`): an entry of the status that is not declared any
  more and has no copy is skipped (`remote_objects.go:265`) and stays; each
  reconcile then ends there and `updateRemoteStatus` is not reached. It is what
  remains when an object is dropped whose entry is not the first of the list: the
  copy is deleted and the first entry removed.
* `lost` (`RemoteNodeSet`): a copy that nobody declares may stay for good. A NodeSet
  lost its entry to the removal of another one and was deleted or edited before
  the entry was made again; or a deletion failed, after which the entry is removed
  all the same; or the annotation of the database kind stayed on a copy that the
  storage kind uses, because of another NodeSet of the kind
  (`remotedatabasenodeset/remote_objects.go:278`) or of a patch that failed.
* `Foreign` (`StorageDeletion`): Databases of other namespaces are not listed
  (`controller.go:276`), so their Storage can be deleted under them.
* With two remote NodeSets of one kind a copy that one of them still uses is
  deleted by the other (`remotestoragenodeset/remote_objects.go:300` looks only
  at the other kind) and made again: `EventuallyCopied` holds, "never deleted
  under a user" does not.
* `protected` (`StorageDeletion`): Databases that the operator did not know of when
  the deletion was requested are not protected; the list and the removal of the
  finalizer are two steps.
* `StuckOnGeneration` (`NodeSetOwner`): an edit of a provisioned NodeSet that costs
  no Pod leaves the generation of its condition old, and a remote NodeSet shows
  the generation of the NodeSet it copies, which need not be its own; the owner,
  which wants the latest one (`storage/sync.go:257`), goes on waiting.
* `unseen` (`NodeSetOwner`): events of created objects are filtered out but for the
  owner itself (`IsStorageCreatePredicate`), so a NodeSet that is dropped before the cache shows
  its creation is neither found by the reconcile that is to delete it nor
  announced later; it stays until something else wakes the controller.
* `EventuallyManaged`: a Storage created with gRPC ports that disagree is accepted
  (`ValidateCreate` does not look) and then refused the finalizer for ever, by the
  check that only `ValidateUpdate` makes (`storage_webhook.go:441`).
* `stopped`, `robbed` (`Monitoring`): a reconcile that finds no Service ends for
  good (`monitoring/common.go:45`), and the StorageMonitoring controller does not
  watch its ServiceMonitor. A monitoring object in another namespace than its
  cluster cannot control the ServiceMonitor at all.

## 4. Bounds

Counters that the code does not bound are bounded by constants in the guards:
`MaxGen` (edits of the spec), `MaxFaults` (API errors, lost Pods and replies,
crashes), `MaxOps` (operations of the CMS), `MaxFailed` (operations the CMS fails
by itself), `MaxVer` (versions of a configuration), `MaxVersion`, `MaxEdits`,
`MaxUid`, `MaxChanges` (edits and faults together).

* `MaxGen = 2` is one edit after the creation, at any moment of any reconcile;
  `MaxGen = 3` adds pause-and-resume and freeze-and-thaw. The object may be
  created paused, or with initialization skipped.
* `MaxFaults = 1` puts one fault at any moment; in `StorageConfig` next to an
  operation that the CMS fails (`MaxFailed = 1`).
* `Nodes = 1`: only "all ready" and "not all ready" are told apart; 2 in
  `NodeSetSync`, where a rolling update may leave one of two Pods ready.
* `MaxOps = 2` lets two operations overlap, which is what a lost id leads to.
* `StorageDeletion`: a Database of the namespace and one of another, each created
  and deleted at any moment; twelve specs, among them one for every reason to
  accept or refuse that the webhooks have; two edits, so that a Storage can be
  mended, frozen and thawed. The instance with a third Database passes as well.
* `NodeSetOwner`: one local and one remote NodeSet and two contents; the two
  outside changes are any two of edits, API errors, lost Pods and crashes. The
  NodeSets meet only in the loops, whose order the model leaves open.
* `Monitoring`: two generations of every object, three actions of users; four pass
  as well.
* `StorageConfig`: `MaxVer = 1`, and the CMS at version 0 or 1 at first: the two
  configurations may have the same version, and the second a lower one.
* `RemoteNodeSet_live`: two NodeSets of one kind and two objects, the first one in
  every list, so that the entry removed is the right or the wrong one; one edit.
  `RemoteNodeSet_faults`: one NodeSet of each kind, one object, one fault, and
  deletions in the place of edits. Three NodeSets, two of one kind and one of the
  other, are beyond TLC (more than 8 million states): that another NodeSet keeps an
  annotation under the other kind is named by `lost` and not reached by a run.

No run checks for deadlock: a controller with nothing queued, a settled object
and no edits left is meant to stop. `QuiescentIsSettled` checks that it stops only
then.

## 5. Fairness

Weak fairness of the controller's steps: the worker runs while its queue is not
empty, and every requeue delay passes. Weak fairness of the watch (`CacheSync`),
of the StatefulSet and Job controllers, and of the operations of the CMS: they
are Kubernetes' and YDB's own progress. In `NodeSetOwner` the same of the NodeSet
and remote NodeSet controllers, and in `Monitoring` of the clusters' controllers
and the garbage collector. In `RemoteNodeSet` strong fairness of
`Reconcile(n)`: one worker serves several NodeSets, and the workqueue is a FIFO,
so a queued NodeSet is not passed over for ever. Users, faults, crashes and
`OwnedEvent` are not fair: nothing depends on them. The 10-hour resync of
the informers is not assumed; its events do not pass `GenerationChangedPredicate`.

## 6. Proofs

Checked by `tlapm`, for all values of the constants under the named assumptions of
the modules (`StorageAssumption`, `OwnerAssumption` and so on: bounds that are
natural or positive, finite sets of Databases and NodeSets, the local and the
remote NodeSets distinct, `Foreign` a subset; nothing is assumed about how the
cache lags or which specs users ask for). Every invariant and every action
property of the passing runs is proved, and so are both refinements. Each
inductive invariant was an invariant of a TLC run before it was proved. In each
module the proof has lemmas for the operators on a status or an object, then one
lemma or step per action, and a last temporal step.

The properties are seldom inductive as they stand, for one reason: a status is
computed from a copy and written, some steps later, over another version of the
object. What the invariants add is what makes this safe.

* **StorageSyncProofs**. `TypeCorrect`, and `Invariance` of
  `IInv = TypeOK /\ VersionInv /\ SkipInv /\ JobInv /\ RealInv /\ StepInv`.
  `MissesAtMostOne` needs `VersionInv`: what `fresh` means, and that the cache
  itself misses at most one write, because a second write is refused until the
  first is in the cache. `InitializedReal` needs that all three copies of the
  object tell the truth (`RealInv`), about Ready as well, since
  `setInitPipelineStatus` takes an old Ready condition as evidence of
  initialization; that a Job's outcome tells the truth (`JobInv`); and that the
  steps that set Ready run only on a copy that is initialized (`StepInv`).
  The second invariant, `StatusInv`, adds what every status looks like
  (`SoundInv`), that a copy of the latest generation has the latest spec
  (`SpecInv`), what a step of `Sync` knows of its copy by the time it is reached
  (`PathInv`), that the status about to be written follows the one on the API
  server unless a write is missing (`LastInv`), and that without a request the
  reconcile works on the generation in the cache, and leaves nothing to do
  (`WakeInv`). `NeverReadyAndPaused`, `NoLostWakeUp` and `LifecycleImplemented`
  (the refinement of `Lifecycle`, initial states and each step) follow from it.
* **DatabaseSyncProofs**. The same argument (`IInv`, then `FullInv`), with what is
  its own: an operation of the CMS that succeeded left a tenant (`OperationInv`),
  also when its id was lost; what the check of the Storage found still holds
  when the tenant is created several steps later, and that the shared Database was
  provisioned is remembered though it may have gone back (`StepInv`, `OfferInv`). `InitializedReal`,
  `TenantComesAfterStorage`, `LifecycleImplemented` (with the stage that a
  serverless Database skips) and `NoLostWakeUp`.
* **NodeSetSyncProofs**. A reconcile on an old copy may put the StatefulSet back to
  an old generation. `ProvisionedCurrent` holds because the copies are ordered by
  age (`OrderInv`: one worker, a cache that never goes back) and no status speaks
  of a generation newer than the copy at hand (`DateInv`), so that a claim about
  the latest generation (`ClaimInv`, for every pair of copies) cannot be overtaken
  by an older reconcile.
* **NodeSetOwnerProofs**. The owner sums up what it read one NodeSet after the
  other, from a cache that lags, while the other controllers go on. `IInv` has
  four parts. `ObjectsInv` relates the versions of one NodeSet: a cached copy with
  its content has its generation and reports no newer one (`CopyOf`, because the
  owner updates from the latest version only); the NodeSet of the other cluster
  is behind in its generation and ahead in the one it reports (`MirrorOf`); and
  generations count edits (`GenerationOK`). `TodoInv` says what the loops have
  before them. `WorkInv` says what a reconcile that no request follows has done:
  each NodeSet it is done with is built, dropped or provisioned, or the event of
  its last change will wake the owner (`WillWake`). The steps of others are shown
  to keep this once and for all (`SteadyKeeps`), the owner's by the kind of step
  (`LoopStep`, `EndsQueued`). From it follow `QuiescentBuilt` (the content, and the
  generation of the Provisioned condition; its value may change under an owner that
  is Ready, which nothing wakes) and, with `CacheInv`,
  `TypeCorrect`, whose bound on generations is the only one that is not a guard.
* **StorageConfigProofs**. `SyncedInstalled`: a claim belongs to the generation it
  names, not to the object it is found in, so `ClaimInv` compares the status of
  every copy with the spec of every other. That the CMS's "already replaced"
  says something about the installation rests on `ConfigInv`: each version the
  CMS has left behind was left by installing a configuration of that version,
  which is this one or the one that took its version.
* **StorageDeletionProofs**. `TypeCorrect`, and `DatabasesKeepTheirStorage` by
  `KeepInv`: the protected Databases are fixed by the request; the cache knows
  them as long as they are there (`LeftAreListed`), so a list without them means
  that they are gone, and they do not come back before the finalizer is removed.
  `PortsOfManagedAgree` by `AdmittedInv`: a finalizer and a spec come together in
  an object only by way of `ValidateUpdate`; it needs that `Default` leaves alone
  what it made (`DefaultIdempotent`), since the controller's write passes it again.
* **RemoteNodeSetProofs**. `NoOrphan`: a reconcile has put the finalizer on its
  NodeSet, there is one worker for each kind, and a reconcile under deletion
  never reaches the step that creates the NodeSet (`WorkerInv`); without the
  finalizer there is none in the data cluster (`FinalizerInv`). `TypeCorrect` rests
  on what the operators on the list of entries return (`EntryFacts`, `RemoveFacts`,
  `UnusedFacts`).
* **MonitoringProofs**. `NothingTakenOver`, an action property: the check of the
  controller reference reads an old copy, and the write passes only where that copy
  is the latest version (`WriteFacts`); and a reconcile may be for an object that has
  been replaced since, so that the ServiceMonitor goes only forward needs
  `SuccessorInv`: the ServiceMonitor is of no later object than the reconcile, and
  the reconcile of no later one than there is. `TypeCorrect` needs that a reconcile past its head is for
  an object that was there.

## 7. What is only model-checked

The liveness properties (`EventuallyReady`, `EventuallyGone`, `EventuallyCopied`,
`SyncedUnlessOperationFailed` and the like): fairness and ENABLED are out of reach
of the prover. The three violations are TLC's counterexamples. `StorageAdmission`
is proved about only as far as `StorageDeletion` uses it.

## 8. What is not modelled

* The webhooks of a Database beyond the look-up of the Storage and the fixed
  domain and path; the text of the configuration; resource builders beyond
  replicas, listed NodeSets, remote objects and controller references: pure
  functions of text and specs.
* A Storage that changes between a StatefulSet of its own and NodeSets keeps the
  old StatefulSet; the models do not count Pods across the two. Names of NodeSets
  are taken to be distinct, which the webhooks do not check.
* Connections, credentials, health check, exec and keys: their calls are steps
  that may fail.
* A lagging cache in `RemoteNodeSet`; timing (requeue delays are only "later");
  messages, reasons and transition times of conditions, except an operation id
  kept in a message; events and logs.

## 9. Plan

Done: the Storage and Database pipelines, with and without NodeSets, the
configuration, admission and deletion of a Storage, NodeSets, remote NodeSets and
monitoring; all safety properties of the runs, and the refinements, proved. Next:

1. The safety part of what liveness rests on, as invariants with proofs: a remote
   NodeSet under deletion always has a reconcile to come, a Storage with a
   request is not forgotten by a crash.
2. Action properties of the remote copies (which steps may delete one), where two
   NodeSets of different kinds share it.
3. The webhooks of a Database, and the switch between a StatefulSet and NodeSets.
