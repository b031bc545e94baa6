----------------------- MODULE StorageDeletionProofs -----------------------
(***************************************************************************)
(* Proofs about StorageDeletion, for every set of Databases and any number *)
(* of faults.                                                              *)
(*                                                                         *)
(* The check for Databases reads a cache that may lag, and the removal of  *)
(* the finalizer is another step.  What makes them safe together is that   *)
(* the Databases to be protected are fixed by the request for deletion:    *)
(* the informer knows them from then on as long as they are there, later   *)
(* ones are not among them, and none comes back after its removal.         *)
(*                                                                         *)
(* The ports of a managed Storage agree because every way by which the     *)
(* finalizer and a spec come together passes ValidateUpdate.               *)
(***************************************************************************)
EXTENDS StorageDeletion, TLAPS

\* The deletion of the Storage was requested (or it is gone already).
Requested == storage.deleting \/ ~storage.exists

\* No Database that is to be protected is left.
NoneLeft == protected \cap dbs = {}

\* The Databases that are to be protected and are left will be listed.
LeftAreListed == protected \cap dbs \subseteq Listed

KeepInv ==
  /\ TypeOK
  /\ dbs \subseteq created
  /\ protected \subseteq created \ Foreign
  /\ ~Requested => protected = {}
  /\ cache.deleting => Requested
  /\ rec.pc # "idle" => Requested
  /\ LeftAreListed
  /\ rec.pc = "removeFinalizer" => NoneLeft
  /\ ~storage.exists => NoneLeft

\* Default adds nothing to what it made already: the controller's own writes
\* change no spec.
LEMMA DefaultIdempotent ==
  ASSUME NEW s \in StorageSpec
  PROVE  Default(Default(s)) = Default(s)
<1>1. s.configuration \in ConfigurationText /\ s.nodes # Absent
  BY DEF StorageSpec, Absent
<1>2. Default(s) = [s EXCEPT !.configuration = [s.configuration EXCEPT !.hosts =
                      IF s.configuration.hosts = Absent THEN s.nodes ELSE s.configuration.hosts]]
  BY <1>1 DEF Default, StorageSpec, ConfigurationText
<1> QED BY <1>1, <1>2 DEF Default, StorageSpec, ConfigurationText

\* What is stored was made by Default.
LEMMA StoredFacts ==
  ASSUME NEW s \in Stored
  PROVE  Default(s) = s
<1>1. PICK q \in Requests : s = Default(q)
  BY DEF Stored
<1>2. q \in StorageSpec
  BY <1>1, DeletionAssumption
<1> QED BY <1>1, <1>2, DefaultIdempotent

\* The objects the module writes are objects.
LEMMA ObjectFacts ==
  /\ \A o \in Object : Gone(o) \in Object
  /\ \A o \in Object : o.exists => [o EXCEPT !.finalizer = TRUE] \in Object
  /\ \A o \in Object : o.finalizer => [o EXCEPT !.deleting = TRUE] \in Object
BY DEF Object, Gone

\* An edited object is an object.
LEMMA EditFacts ==
  ASSUME NEW o \in Object, NEW s \in Stored, o.edits < MaxEdits
  PROVE  [o EXCEPT !.spec = s, !.edits = @ + 1] \in Object
<1>1. o.edits + 1 \in 0..MaxEdits
  BY DeletionAssumption DEF Object
<1> QED BY <1>1 DEF Object

RecType == [pc : {"idle", "checkExistingDatabases", "removeFinalizer"}, cr : Object]

\* Init establishes the types.
LEMMA InitType == Init => TypeOK
<1> SUFFICES ASSUME Init PROVE TypeOK
  OBVIOUS
<1>1. storage \in Object
  <2>1. PICK s \in Requests :
          storage = [exists |-> TRUE, deleting |-> FALSE, finalizer |-> FALSE,
                     spec |-> Default(s), edits |-> 0]
    BY DEF Init
  <2>2. Default(s) \in Stored /\ 0 \in 0..MaxEdits
    BY DeletionAssumption DEF Stored
  <2> QED BY <2>1, <2>2 DEF Object
<1>2. rec \in RecType
  BY <1>1 DEF Init, Idle, RecType
<1>3. faults \in 0..MaxFaults
  BY DeletionAssumption DEF Init
<1> QED BY <1>1, <1>2, <1>3 DEF Init, TypeOK, RecType

\* Return gives a reconcile and a queue.
LEMMA ReturnFacts ==
  ASSUME queued \in BOOLEAN, rec \in RecType, NEW requeue \in BOOLEAN, Return(requeue)
  PROVE  /\ rec' \in RecType
         /\ rec'.pc = "idle"
         /\ queued' \in BOOLEAN
BY DEF Return, Idle, RecType

\* Every step keeps the types.
LEMMA NextType == TypeOK /\ [Next]_vars => TypeOK'
<1> SUFFICES ASSUME TypeOK, [Next]_vars PROVE TypeOK'
  OBVIOUS
<1>f. faults < MaxFaults => faults + 1 \in 0..MaxFaults
  BY DeletionAssumption DEF TypeOK
<1>i. rec \in RecType /\ Idle(cache) \in RecType /\ Idle(rec.cr) \in RecType
  BY DEF Idle, RecType, TypeOK
<1>1. CASE Reconcile
  <2>1. storage' \in Object /\ queued' \in BOOLEAN
    <3>1. queued' \in BOOLEAN
      BY <1>1 DEF Reconcile, TypeOK
    <3>2. \/ storage' = storage
          \/ storage.exists /\ storage' = [storage EXCEPT !.finalizer = TRUE]
      BY <1>1 DEF Reconcile, FinalizersWritable, LatestVersion
    <3> QED BY <3>1, <3>2, ObjectFacts DEF TypeOK
  <2>2. rec' \in RecType
    <3>1. rec' = rec \/ rec' = Idle(cache) \/ rec' = [pc |-> "checkExistingDatabases", cr |-> cache]
      BY <1>1 DEF Reconcile
    <3> QED BY <3>1, <1>i DEF TypeOK, RecType
  <2> QED BY <1>1, <2>1, <2>2 DEF Reconcile, TypeOK, RecType
<1>2. CASE CheckExistingDatabases
  <2>1. rec' \in RecType /\ queued' \in BOOLEAN
    BY <1>2, <1>i, ReturnFacts DEF CheckExistingDatabases, TypeOK, RecType
  <2> QED BY <1>2, <2>1 DEF CheckExistingDatabases, TypeOK, RecType
<1>3. CASE RemoveFinalizer
  <2>1. rec' \in RecType /\ queued' \in BOOLEAN /\ storage' \in Object
    BY <1>3, <1>i, ReturnFacts, ObjectFacts DEF RemoveFinalizer, TypeOK
  <2> QED BY <1>3, <2>1 DEF RemoveFinalizer, TypeOK, RecType
<1>4. CASE CacheSync
  BY <1>4 DEF CacheSync, TypeOK
<1>5. CASE DatabaseCacheSync
  BY <1>5 DEF DatabaseCacheSync, TypeOK
<1>6. CASE DeleteStorage
  <2>1. storage' \in Object /\ protected' \subseteq Database
    BY <1>6, ObjectFacts DEF DeleteStorage, TypeOK
  <2> QED BY <1>6, <2>1 DEF DeleteStorage, TypeOK
<1>7. CASE ApiError
  BY <1>7, <1>f, <1>i, ReturnFacts DEF ApiError, TypeOK, RecType
<1>8. CASE Crash
  BY <1>8, <1>f, <1>i DEF Crash, TypeOK, RecType
<1>9. ASSUME NEW d \in Database, CreateDatabase(d) \/ DeleteDatabase(d)
      PROVE  TypeOK'
  BY <1>9 DEF CreateDatabase, DeleteDatabase, TypeOK
<1>10. ASSUME NEW s \in Requests, EditStorage(s)
       PROVE  TypeOK'
  <2>1. Default(s) \in Stored
    BY DEF Stored
  <2>2. storage' \in Object
    BY <1>10, <2>1, EditFacts DEF EditStorage, TypeOK
  <2> QED BY <1>10, <2>2 DEF EditStorage, TypeOK
<1>11. CASE UNCHANGED vars
  BY <1>11 DEF vars, TypeOK
<1> QED
  BY <1>1, <1>2, <1>3, <1>4, <1>5, <1>6, <1>7, <1>8, <1>9, <1>10, <1>11 DEF Next, Controller

\* Every variable keeps its type; an object under deletion has a finalizer, and
\* none is written to an object that is gone.
THEOREM TypeCorrect == Spec => []TypeOK
BY InitType, NextType, PTL DEF Spec

-----------------------------------------------------------------------------
\* Every step keeps the invariant.
LEMMA NextKeepInv ==
  ASSUME KeepInv, [Next]_vars
  PROVE  KeepInv'
<1>T. TypeOK'
  BY NextType DEF KeepInv
<1>1. CASE Reconcile
  <2>1. CASE UNCHANGED rec
    <3>1. storage'.exists = storage.exists /\ storage'.deleting = storage.deleting
      BY <1>1, <2>1 DEF Reconcile, KeepInv, TypeOK, Object
    <3> QED BY <1>1, <1>T, <2>1, <3>1 DEF Reconcile, KeepInv, Requested, NoneLeft, LeftAreListed, Listed
  <2>2. CASE cache.exists /\ cache.deleting /\ UNCHANGED storage
    <3>1. rec'.pc # "removeFinalizer"
      BY <1>1, <2>2 DEF Reconcile, Idle
    <3> QED BY <1>1, <1>T, <2>2, <3>1 DEF Reconcile, KeepInv, Requested, NoneLeft, LeftAreListed, Listed
  <2> QED BY <1>1, <2>1, <2>2 DEF Reconcile
<1>2. CASE CheckExistingDatabases
  <2>1. UNCHANGED <<storage, cache, dbs, dbCache, created, protected>> /\ rec.pc # "idle"
    BY <1>2 DEF CheckExistingDatabases
  <2>2. rec'.pc = "removeFinalizer" => NoneLeft
    <3>1. CASE Return(TRUE)
      BY <3>1 DEF Return, Idle
    <3>2. CASE Listed = {}
      BY <3>2 DEF KeepInv, LeftAreListed, NoneLeft
    <3> QED BY <1>2, <3>1, <3>2 DEF CheckExistingDatabases
  <2> QED BY <1>T, <2>1, <2>2 DEF KeepInv, Requested, NoneLeft, LeftAreListed, Listed
<1>3. CASE RemoveFinalizer
  <2>1. UNCHANGED <<cache, dbs, dbCache, created, protected>> /\ rec'.pc = "idle"
    BY <1>3 DEF RemoveFinalizer, Return, Idle
  <2>2. NoneLeft
    BY <1>3 DEF RemoveFinalizer, KeepInv
  <2>3. storage' = storage \/ ~storage'.exists
    BY <1>3 DEF RemoveFinalizer, Gone, KeepInv, TypeOK, Object
  <2> QED BY <1>T, <2>1, <2>2, <2>3 DEF KeepInv, Requested, NoneLeft, LeftAreListed, Listed
<1>4. CASE CacheSync \/ DatabaseCacheSync
  BY <1>4, <1>T DEF CacheSync, DatabaseCacheSync, KeepInv, Requested, NoneLeft, LeftAreListed, Listed
<1>5. CASE DeleteStorage
  <2>1. CASE storage.finalizer
    <3>1. storage'.exists /\ storage'.deleting
      BY <1>5, <2>1 DEF DeleteStorage, KeepInv, TypeOK, Object
    <3> QED BY <1>5, <1>T, <2>1, <3>1 DEF DeleteStorage, KeepInv, Requested, NoneLeft, LeftAreListed, Listed
  <2>2. CASE ~storage.finalizer
    <3>1. ~storage'.exists
      BY <1>5, <2>2 DEF DeleteStorage, Gone, KeepInv, TypeOK, Object
    <3> QED BY <1>5, <1>T, <2>2, <3>1 DEF DeleteStorage, KeepInv, Requested, NoneLeft, LeftAreListed, Listed
  <2> QED BY <2>1, <2>2
<1>6. CASE ApiError \/ Crash
  <2>1. /\ UNCHANGED <<storage, dbs, created, protected>>
        /\ cache' = cache \/ cache' = storage
        /\ dbCache' = dbCache \/ dbCache' = dbs
        /\ protected \cap Foreign = {}
        /\ rec'.pc = "idle"
    BY <1>6 DEF ApiError, Crash, Return, Idle, KeepInv
  <2> QED BY <1>T, <2>1 DEF KeepInv, Requested, NoneLeft, LeftAreListed, Listed
<1>7. ASSUME NEW d \in Database, CreateDatabase(d) \/ DeleteDatabase(d)
      PROVE  KeepInv'
  BY <1>7, <1>T DEF CreateDatabase, DeleteDatabase, KeepInv, Requested, NoneLeft, LeftAreListed, Listed
<1>8. ASSUME NEW s \in Requests, EditStorage(s)
      PROVE  KeepInv'
  <2>1. storage'.exists = storage.exists /\ storage'.deleting = storage.deleting
    BY <1>8 DEF EditStorage, KeepInv, TypeOK, Object
  <2> QED BY <1>8, <1>T, <2>1 DEF EditStorage, KeepInv, Requested, NoneLeft, LeftAreListed, Listed
<1>9. CASE UNCHANGED vars
  BY <1>9, <1>T DEF vars, KeepInv, Requested, NoneLeft, LeftAreListed, Listed
<1> QED
  BY <1>1, <1>2, <1>3, <1>4, <1>5, <1>6, <1>7, <1>8, <1>9 DEF Next, Controller

\* A Database of the namespace that the operator knew of when the deletion of
\* its Storage was requested keeps the Storage, however much the caches lag and
\* whatever is created, deleted, retried or crashes between
\* checkExistingDatabases and the removal of the finalizer.
THEOREM DatabasesKeepTheirStorage == Spec => []DatabasesKeepStorage
<1>1. Init => KeepInv
  <2> SUFFICES ASSUME Init PROVE KeepInv
    OBVIOUS
  <2>1. storage.exists /\ ~storage.deleting
    BY DEF Init
  <2> QED BY <2>1, InitType DEF Init, Idle, KeepInv, Requested, NoneLeft, LeftAreListed, Listed
<1>2. KeepInv /\ [Next]_vars => KeepInv'
  BY NextKeepInv
<1>3. KeepInv => DatabasesKeepStorage
  BY DEF KeepInv, NoneLeft, DatabasesKeepStorage
<1> QED BY <1>1, <1>2, <1>3, PTL DEF Spec

-----------------------------------------------------------------------------
\* What a finalizer says of the spec of the object that carries it.
Admitted(o) == o.finalizer => GrpcPortsAgree(o.spec) /\ CheckedAlways(o.spec)

AdmittedInv == TypeOK /\ Admitted(storage) /\ Admitted(cache)

\* Every step keeps it: a finalizer and a spec get into the object only by way
\* of ValidateUpdate, except in the creation, which gives no finalizer.
LEMMA NextAdmitted ==
  ASSUME AdmittedInv, [Next]_vars
  PROVE  AdmittedInv'
<1>T. TypeOK'
  BY NextType DEF AdmittedInv
<1>1. CASE Reconcile
  <2>1. CASE UNCHANGED storage
    BY <1>1, <1>T, <2>1 DEF Reconcile, AdmittedInv, Admitted
  <2>2. CASE FinalizersWritable(cache) /\ storage' = [storage EXCEPT !.finalizer = TRUE]
    <3>1. cache.spec \in Stored /\ storage'.spec = storage.spec
      BY <2>2 DEF AdmittedInv, TypeOK, Object
    <3>2. GrpcPortsAgree(storage'.spec) /\ CheckedAlways(storage'.spec)
      BY <2>2, <3>1, StoredFacts DEF FinalizersWritable, LatestVersion, ValidateUpdate
    <3> QED BY <1>1, <1>T, <3>2 DEF Reconcile, AdmittedInv, Admitted
  <2> QED BY <1>1, <2>1, <2>2 DEF Reconcile
<1>2. CASE CheckExistingDatabases \/ DatabaseCacheSync \/ ApiError
  BY <1>2, <1>T DEF CheckExistingDatabases, DatabaseCacheSync, ApiError, AdmittedInv, Admitted
<1>3. CASE RemoveFinalizer
  <2>1. storage' = storage \/ ~storage'.finalizer
    BY <1>3 DEF RemoveFinalizer, Gone, AdmittedInv, TypeOK, Object
  <2> QED BY <1>3, <1>T, <2>1 DEF RemoveFinalizer, AdmittedInv, Admitted
<1>4. CASE CacheSync \/ Crash
  BY <1>4, <1>T DEF CacheSync, Crash, AdmittedInv, Admitted
<1>5. CASE DeleteStorage
  <2>1. ~storage'.finalizer \/ (storage.finalizer /\ storage'.spec = storage.spec)
    BY <1>5 DEF DeleteStorage, Gone, AdmittedInv, TypeOK, Object
  <2> QED BY <1>5, <1>T, <2>1 DEF DeleteStorage, AdmittedInv, Admitted
<1>6. ASSUME NEW d \in Database, CreateDatabase(d) \/ DeleteDatabase(d)
      PROVE  AdmittedInv'
  BY <1>6, <1>T DEF CreateDatabase, DeleteDatabase, AdmittedInv, Admitted
<1>7. ASSUME NEW s \in Requests, EditStorage(s)
      PROVE  AdmittedInv'
  <2>1. storage'.spec = Default(s)
    BY <1>7 DEF EditStorage, AdmittedInv, TypeOK, Object
  <2>2. GrpcPortsAgree(storage'.spec) /\ CheckedAlways(storage'.spec)
    BY <1>7, <2>1 DEF EditStorage, ValidateUpdate
  <2> QED BY <1>7, <1>T, <2>2 DEF EditStorage, AdmittedInv, Admitted
<1>8. CASE UNCHANGED vars
  BY <1>8, <1>T DEF vars, AdmittedInv, Admitted
<1> QED
  BY <1>1, <1>2, <1>3, <1>4, <1>5, <1>6, <1>7, <1>8 DEF Next, Controller

\* A Storage that carries the finalizer, and with it every one that Sync works
\* on, has gRPC ports that agree with its configuration although ValidateCreate
\* does not ask for it, for every set of specs that users may write and any
\* number of edits: the webhook has no reason to refuse the removal of the
\* finalizer.
THEOREM PortsOfManagedAgree == Spec => []ManagedPortsAgree
<1>1. Init => AdmittedInv
  <2> SUFFICES ASSUME Init PROVE AdmittedInv
    OBVIOUS
  <2>1. ~storage.finalizer /\ cache = storage
    BY DEF Init
  <2> QED BY <2>1, InitType DEF AdmittedInv, Admitted
<1>2. AdmittedInv /\ [Next]_vars => AdmittedInv'
  BY NextAdmitted
<1>3. AdmittedInv => ManagedPortsAgree
  BY DEF AdmittedInv, Admitted, ManagedPortsAgree
<1> QED BY <1>1, <1>2, <1>3, PTL DEF Spec
=============================================================================
