-------------------------- MODULE StorageDeletion --------------------------
(***************************************************************************)
(* The life of a Storage object from its creation to its removal: the      *)
(* webhooks that admit it, the finalizer that the Storage controller puts  *)
(* on it, and the check for Databases that reference it.                   *)
(*                                                                         *)
(* The controller removes the finalizer only after it listed no Database.  *)
(* The list comes from the informer of the Databases, and it and the       *)
(* removal are two steps: users create and delete Databases meanwhile.     *)
(* The writes of the finalizer pass the webhooks as the users' writes do.  *)
(* Sync, which runs while the Storage is not being deleted, is the subject *)
(* of StorageSync; of it this module needs only that it ends.              *)
(***************************************************************************)
EXTENDS Integers, FiniteSets, StorageAdmission

CONSTANTS
  Database,   \* the Databases that users may create on the Storage
  Foreign,    \* those that live in another namespace than the Storage
  Requests,   \* the specs that users ask for
  MaxEdits,   \* bound on changes of the spec
  MaxFaults,  \* bound on API errors and crashes of the operator
  CacheLag    \* whether the operator may read versions its caches have superseded

ASSUME DeletionAssumption ==
  /\ IsFiniteSet(Database)
  /\ Foreign \subseteq Database
  /\ Requests \subseteq StorageSpec
  /\ MaxEdits \in Nat
  /\ MaxFaults \in Nat
  /\ CacheLag \in BOOLEAN

VARIABLES
  storage,   \* the Storage object on the API server
  cache,     \* the informer's copy of it
  dbs,       \* the Databases on the API server
  dbCache,   \* the Databases the informer knows
  created,   \* the Databases that were ever created (each only once)
  protected, \* history: the Databases that the deletion request is to spare
  queued,    \* the workqueue holds a request for the Storage
  rec,       \* the reconcile in flight: its next step and its copy of the object
  faults     \* API errors and crashes so far

vars == <<storage, cache, dbs, dbCache, created, protected, queued, rec, faults>>

\* The specs that are stored.
Stored == {Default(s) : s \in Requests}

\* Every write to the Storage in this module changes it to a value it never had
\* before (edits counts the changes of the spec), so two copies are of the same
\* version exactly when they are equal.  An object under deletion is there only
\* as long as it has its finalizer.
Object == {o \in [exists : BOOLEAN, deleting : BOOLEAN, finalizer : BOOLEAN,
                  spec : Stored, edits : 0..MaxEdits] :
             /\ o.finalizer => o.exists
             /\ o.deleting => o.finalizer}

Gone(o) == [o EXCEPT !.exists = FALSE, !.deleting = FALSE, !.finalizer = FALSE]

Idle(cr) == [pc |-> "idle", cr |-> cr]

TypeOK ==
  /\ storage \in Object
  /\ cache \in Object
  /\ dbs \subseteq Database
  /\ dbCache \subseteq Database
  /\ created \subseteq Database
  /\ protected \subseteq Database
  /\ queued \in BOOLEAN
  /\ rec \in [pc : {"idle", "checkExistingDatabases", "removeFinalizer"}, cr : Object]
  /\ faults \in 0..MaxFaults

\* A Storage that a user has just created.
Init ==
  /\ \E s \in Requests :
       /\ CanDefault(s)
       /\ ValidateCreate(Default(s))
       /\ storage = [exists |-> TRUE, deleting |-> FALSE, finalizer |-> FALSE,
                     spec |-> Default(s), edits |-> 0]
  /\ cache = storage
  /\ dbs = {}
  /\ dbCache = {}
  /\ created = {}
  /\ protected = {}
  /\ queued = TRUE
  /\ rec = Idle(storage)
  /\ faults = 0

-----------------------------------------------------------------------------
CacheRead == CacheLag \/ (cache = storage /\ dbCache = dbs)

Return(requeue) == rec' = Idle(rec.cr) /\ queued' = (queued \/ requeue)

\* The informers catch up.  An edit and a request for deletion change the
\* generation of the Storage and its removal is an event of its own: all queue
\* a request, an added finalizer does not.
CacheSync ==
  /\ cache # storage
  /\ cache' = storage
  /\ queued' = (queued \/ cache.edits # storage.edits
                       \/ cache.deleting # storage.deleting
                       \/ cache.exists # storage.exists)
  /\ UNCHANGED <<storage, dbs, dbCache, created, protected, rec, faults>>

DatabaseCacheSync ==
  /\ dbCache # dbs
  /\ dbCache' = dbs
  /\ UNCHANGED <<storage, cache, dbs, created, protected, queued, rec, faults>>

\* The defaulting webhook wants the Storage of a Database to be found, but not
\* when operatorSync is off: a Database can be created at any time.
CreateDatabase(d) ==
  /\ d \notin created
  /\ dbs' = dbs \cup {d}
  /\ created' = created \cup {d}
  /\ UNCHANGED <<storage, cache, dbCache, protected, queued, rec, faults>>

DeleteDatabase(d) ==
  /\ d \in dbs
  /\ dbs' = dbs \ {d}
  /\ UNCHANGED <<storage, cache, dbCache, created, protected, queued, rec, faults>>

\* A user writes another spec, also under deletion.
EditStorage(s) ==
  /\ storage.exists
  /\ storage.edits < MaxEdits
  /\ CanDefault(s)
  /\ Default(s) # storage.spec
  /\ ValidateUpdate(storage.spec, Default(s))
  /\ storage' = [storage EXCEPT !.spec = Default(s), !.edits = @ + 1]
  /\ UNCHANGED <<cache, dbs, dbCache, created, protected, queued, rec, faults>>

\* ValidateDelete is registered for no deletion, so nothing is asked.  An object without finalizers is gone
\* at once.
DeleteStorage ==
  /\ storage.exists /\ ~storage.deleting
  /\ IF storage.finalizer
     THEN storage' = [storage EXCEPT !.deleting = TRUE] /\ protected' = (dbs \cap dbCache) \ Foreign
     ELSE storage' = Gone(storage) /\ UNCHANGED protected
  /\ UNCHANGED <<cache, dbs, dbCache, created, queued, rec, faults>>

-----------------------------------------------------------------------------
\* Mutation: a write whatever the version.
AnyVersion(copy) == TRUE

\* The API server takes a write of a copy only for the latest version.
LatestVersion(copy) == copy = storage

\* The API server takes a write of a copy that changes only its finalizers.
FinalizersWritable(copy) ==
  /\ LatestVersion(copy)
  /\ CanDefault(copy.spec)
  /\ ValidateUpdate(storage.spec, Default(copy.spec))

\* Reconcile up to the check of the Databases.
Reconcile ==
  /\ rec.pc = "idle"
  /\ queued
  /\ CacheRead
  /\ \/ /\ ~cache.exists
        /\ queued' = FALSE
        /\ UNCHANGED <<storage, rec>>
     \/ /\ cache.exists /\ ~cache.deleting /\ ~cache.finalizer
        /\ IF FinalizersWritable(cache)
           THEN storage' = [storage EXCEPT !.finalizer = TRUE] /\ queued' = FALSE
           ELSE UNCHANGED <<storage, queued>>
        /\ UNCHANGED rec
     \/ /\ cache.exists /\ ~cache.deleting /\ cache.finalizer
        /\ queued' = FALSE
        /\ UNCHANGED <<storage, rec>>
     \/ /\ cache.exists /\ cache.deleting
        /\ queued' = FALSE
        /\ rec' = IF cache.finalizer
                  THEN [pc |-> "checkExistingDatabases", cr |-> cache]
                  ELSE Idle(cache)
        /\ UNCHANGED storage
  /\ UNCHANGED <<cache, dbs, dbCache, created, protected, faults>>

\* Mutation: the field selector matches no Database.
ListedNone == {}

\* Only the namespace of the Storage is listed.
Listed == dbCache \ Foreign

\* Mutation: no other reconcile is asked for.
CheckExistingDatabasesOnce ==
  /\ rec.pc = "checkExistingDatabases"
  /\ CacheRead
  /\ IF Listed # {}
     THEN Return(FALSE)
     ELSE rec' = [rec EXCEPT !.pc = "removeFinalizer"] /\ UNCHANGED queued
  /\ UNCHANGED <<storage, cache, dbs, dbCache, created, protected, faults>>

CheckExistingDatabases ==
  /\ rec.pc = "checkExistingDatabases"
  /\ CacheRead
  /\ IF Listed # {}
     THEN Return(TRUE)
     ELSE rec' = [rec EXCEPT !.pc = "removeFinalizer"] /\ UNCHANGED queued
  /\ UNCHANGED <<storage, cache, dbs, dbCache, created, protected, faults>>

\* Without its finalizer an object under deletion is removed.
RemoveFinalizer ==
  /\ rec.pc = "removeFinalizer"
  /\ IF FinalizersWritable(rec.cr)
     THEN storage' = Gone(storage) /\ Return(FALSE)
     ELSE UNCHANGED storage /\ Return(TRUE)
  /\ UNCHANGED <<cache, dbs, dbCache, created, protected, faults>>

ApiError ==
  /\ faults < MaxFaults
  /\ rec.pc # "idle"
  /\ faults' = faults + 1
  /\ Return(TRUE)
  /\ UNCHANGED <<storage, cache, dbs, dbCache, created, protected>>

Crash ==
  /\ faults < MaxFaults
  /\ faults' = faults + 1
  /\ rec' = Idle(rec.cr)
  /\ queued' = TRUE
  /\ cache' = storage
  /\ dbCache' = dbs
  /\ UNCHANGED <<storage, dbs, created, protected>>

Controller == Reconcile \/ CheckExistingDatabases \/ RemoveFinalizer

Next ==
  \/ Controller \/ CacheSync \/ DatabaseCacheSync
  \/ DeleteStorage \/ ApiError \/ Crash
  \/ \E d \in Database : CreateDatabase(d) \/ DeleteDatabase(d)
  \/ \E s \in Requests : EditStorage(s)

Fairness ==
  /\ WF_vars(Controller)
  /\ WF_vars(CacheSync)
  /\ WF_vars(DatabaseCacheSync)

Spec == Init /\ [][Next]_vars /\ Fairness

-----------------------------------------------------------------------------
\* A Database of the namespace that the operator knew of when the deletion of
\* the Storage was requested, and that is still there, keeps the Storage: its
\* data is not taken away under it, however much the caches lag.
DatabasesKeepStorage == protected \cap dbs # {} => storage.exists

\* ValidateCreate does not look at the ports, but the write of the finalizer
\* does not pass with ports that disagree, and nothing is built for a Storage
\* without it: a Storage that the operator works on offers the gRPC ports its
\* configuration opens, whatever it was created with and edited to, and so the
\* webhook never keeps the finalizer from being removed.
ManagedPortsAgree ==
  \A o \in {storage, cache} : o.finalizer => GrpcPortsAgree(o.spec) /\ CheckedAlways(o.spec)

\* A Storage is taken care of, unless it was created with ports that disagree
\* and nobody mends them: then the reconcile fails at the finalizer for ever.
EventuallyManaged ==
  [](storage.exists /\ [](GrpcPortsAgree(storage.spec))
       => <>(storage.finalizer \/ ~storage.exists))

\* Deletion comes to an end once the Databases are gone.
EventuallyGone ==
  [](storage.deleting /\ [](dbs = {}) => <>(~storage.exists))
=============================================================================
