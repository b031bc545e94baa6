------------------------ MODULE StorageConfigProofs -------------------------
(***************************************************************************)
(* Proofs about StorageConfig, for every number of edits, operations and   *)
(* faults, and whether or not the cache lags.                              *)
(*                                                                         *)
(* A status travels: it is computed from one copy of the object, and it    *)
(* may be written over an object with a newer spec.  So what a status      *)
(* claims is tied to the generation it names and not to the object it is   *)
(* found in: the invariant compares the status of every copy with the spec *)
(* of every other.  What AlreadyReplaced proves is about versions: every   *)
(* version the CMS has left behind was left by installing a configuration  *)
(* that carries it, though not always the one at hand.  A call that the    *)
(* CMS accepts, or takes for a repetition of the last one, proves more.    *)
(***************************************************************************)
EXTENDS StorageConfig, TLAPS

\* The copies of the object: on the API server, in the cache, in the reconcile,
\* and the one it was created as (which stands for the copy of an idle worker).
Copies == {NewStorage, obj, cache, rec.cr}

\* The generation identifies the spec, and no copy is ahead of the API server
\* or speaks of a generation ahead of its own.
GenerationInv ==
  /\ fresh => cache = obj
  /\ \A o \in Copies : /\ o.gen <= obj.gen
                       /\ o.st.synced.gen <= o.gen
                       /\ o.st.op.gen <= o.gen
                       /\ o.st.op.status = "Absent" => o.st.op.gen = 0
  /\ \A o, p \in Copies : o.gen = p.gen => o.cfg = p.cfg

\* A configuration of the version of cfg was installed.
VersionInstalled(cfg) == \E c \in installed : c.ver = cfg.ver

\* A version the CMS has left behind was left by installing a configuration, the
\* last of them by the one that the CMS holds.
ConfigInv ==
  /\ \A c \in Config : AlreadyReplaced(c) => VersionInstalled(c)
  /\ \A c \in Config : Repeats(c) => c \in installed

\* An operation that is reported to have succeeded installed its configuration.
OperationInv == \A id \in OpId : ops[id].status = "ok" => ops[id].cfg \in installed

\* What the conditions of the status st claim about the object o is true.
HonestSynced(synced, o) ==
  synced.status = "True" /\ synced.gen = o.gen => VersionInstalled(o.cfg)

HonestOp(op, o) ==
  op.gen = o.gen =>
    /\ op.status = "True" => o.cfg \in installed
    /\ op.status = "Unknown" /\ op.id # 0
         => ops[op.id].status # "none" /\ ops[op.id].cfg = o.cfg

Honest(st, o) == HonestSynced(st.synced, o) /\ HonestOp(st.op, o)

ClaimInv == \A o, p \in Copies : Honest(o.st, p)

IInv == TypeOK /\ GenerationInv /\ ConfigInv /\ OperationInv /\ ClaimInv

-----------------------------------------------------------------------------
(***************************************************************************)
(* Types.                                                                  *)
(***************************************************************************)

\* The object as it is created, which an idle worker holds too.
LEMMA NewStorageFacts ==
  /\ NewStorage \in Storage
  /\ NewStorage.gen = 1
  /\ NewStorage.cfg = [ver |-> 0, body |-> 1]
  /\ NewStorage.st.synced = [status |-> "Absent", gen |-> 0]
  /\ NewStorage.st.op = [status |-> "Absent", gen |-> 0, id |-> 0]
  /\ Idle \in [pc : Step, cr : Storage]
  /\ Idle.cr = NewStorage
<1>1. /\ NewStorage.gen = 1
      /\ NewStorage.cfg = [ver |-> 0, body |-> 1]
      /\ NewStorage.st.synced = [status |-> "Absent", gen |-> 0]
      /\ NewStorage.st.op = [status |-> "Absent", gen |-> 0, id |-> 0]
  BY DEF NewStorage
<1>2. NewStorage \in Storage
  <2>1. [ver |-> 0, body |-> 1] \in Config
    BY ConfigAssumption DEF Config
  <2>2. [synced |-> [status |-> "Absent", gen |-> 0],
         op |-> [status |-> "Absent", gen |-> 0, id |-> 0]] \in Status
    BY ConfigAssumption DEF Status, Condition, MaybeId
  <2> QED BY <2>1, <2>2, ConfigAssumption DEF NewStorage, Storage
<1> QED BY <1>1, <1>2 DEF Idle, Step

\* What is known of a status and of an object that have their types.
LEMMA StorageFacts ==
  ASSUME NEW o \in Storage
  PROVE  /\ o.gen \in 1..MaxGen
         /\ o.gen \in Nat
         /\ o.cfg \in Config
         /\ o.st \in Status
         /\ o.st.synced.gen \in Nat
         /\ o.st.op.gen \in Nat
BY ConfigAssumption DEF Storage, Status

\* Setting a condition keeps the type of a status and the other condition.
LEMMA WithSyncedFacts ==
  ASSUME NEW st \in Status, NEW status \in Condition, rec.cr.gen \in 1..MaxGen
  PROVE  /\ WithSynced(st, status) \in Status
         /\ WithSynced(st, status).synced = [status |-> status, gen |-> rec.cr.gen]
         /\ WithSynced(st, status).op = st.op
BY ConfigAssumption DEF WithSynced, Status

LEMMA WithOpFacts ==
  ASSUME NEW st \in Status, NEW status \in Condition, NEW gen \in 0..MaxGen, NEW id \in MaybeId
  PROVE  /\ WithOp(st, status, gen, id) \in Status
         /\ WithOp(st, status, gen, id).op = [status |-> status, gen |-> gen, id |-> id]
         /\ WithOp(st, status, gen, id).synced = st.synced
BY DEF WithOp, Status

\* Writing a status, in memory and on the API server, leaves the spec alone.
LEMMA WriteStatusFacts ==
  ASSUME rec \in [pc : Step, cr : Storage], NEW st \in Status, WriteStatus(st)
  PROVE  /\ rec' \in [pc : Step, cr : Storage]
         /\ rec'.cr.gen = rec.cr.gen
         /\ rec'.cr.cfg = rec.cr.cfg
         /\ rec'.cr.st = st
BY DEF WriteStatus, Storage, Step

LEMMA ObjectStatusFacts ==
  ASSUME NEW o \in Storage, NEW st \in Status
  PROVE  /\ [o EXCEPT !.st = st] \in Storage
         /\ [o EXCEPT !.st = st].gen = o.gen
         /\ [o EXCEPT !.st = st].cfg = o.cfg
         /\ [o EXCEPT !.st = st].st = st
BY DEF Storage

\* An edit adds one to the generation, and writes any configuration.
LEMMA UserUpdateFacts ==
  ASSUME TypeOK, UserUpdate
  PROVE  /\ obj' \in Storage
         /\ obj'.gen = obj.gen + 1
         /\ obj'.st = obj.st
<1>1. PICK cfg \in [ver : 0..MaxVer, body : {obj.cfg.body, obj.gen + 1}] :
           obj' = [obj EXCEPT !.gen = @ + 1, !.cfg = cfg]
  BY DEF UserUpdate
<1>2. /\ obj \in Storage
      /\ obj.cfg.body \in 0..MaxGen
      /\ obj.gen \in 1..MaxGen
      /\ obj.gen + 1 \in 1..MaxGen
  BY ConfigAssumption DEF TypeOK, UserUpdate, Storage, Config
<1>3. cfg \in Config
  BY <1>1, <1>2 DEF Config
<1> QED BY <1>1, <1>2, <1>3 DEF Storage

\* The CMS holds what it was asked to install.
LEMMA ReplaceFacts ==
  ASSUME TypeOK, NEW c \in Config, Replace(c)
  PROVE  /\ cms' \in [ver : 0..MaxVer + 1, body : 0..MaxGen]
         /\ installed' \subseteq Config
         /\ installed \subseteq installed'
         /\ Accepts(c) => /\ cms' = [ver |-> c.ver + 1, body |-> c.body]
                          /\ c \in installed'
         /\ ~Accepts(c) => cms' = cms /\ installed' = installed
<1>1. CASE Accepts(c)
  <2>1. /\ cms' = [ver |-> c.ver + 1, body |-> c.body]
        /\ installed' = installed \cup {c}
    BY <1>1 DEF Replace
  <2>2. /\ c.ver \in 0..MaxVer
        /\ c.ver + 1 \in 0..MaxVer + 1
        /\ c.body \in 0..MaxGen
    BY ConfigAssumption DEF Config
  <2>3. installed \subseteq Config
    BY DEF TypeOK
  <2> QED BY <1>1, <2>1, <2>2, <2>3
<1>2. CASE ~Accepts(c)
  BY <1>2 DEF Replace, TypeOK
<1> QED BY <1>1, <1>2

\* Every initial state has the types.
LEMMA InitType == Init => TypeOK
<1> SUFFICES ASSUME Init PROVE TypeOK
  OBVIOUS
<1>1. obj \in Storage /\ cache \in Storage /\ rec \in [pc : Step, cr : Storage]
  BY NewStorageFacts DEF Init
<1>2. ops \in [OpId -> [status : {"none", "running", "ok", "error"}, cfg : Config]]
  BY <1>1 DEF Init, Storage
<1>3. /\ cms \in [ver : 0..MaxVer + 1, body : 0..MaxGen]
      /\ installed \subseteq Config
      /\ faults \in 0..MaxFaults /\ failed \in 0..MaxFailed
  BY ConfigAssumption DEF Init
<1> QED BY <1>1, <1>2, <1>3 DEF Init, TypeOK

\* Starting an operation, or ending it, keeps the others.
LEMMA StartFacts ==
  ASSUME TypeOK, NEW id \in OpId, NEW c \in Config,
         ops' = [ops EXCEPT ![id] = [status |-> "running", cfg |-> c]]
  PROVE  /\ ops' \in [OpId -> [status : {"none", "running", "ok", "error"}, cfg : Config]]
         /\ ops'[id].status = "running" /\ ops'[id].cfg = c
         /\ \A i \in OpId : i # id => ops'[i] = ops[i]
BY DEF TypeOK

LEMMA EndFacts ==
  ASSUME TypeOK, NEW id \in OpId, NEW status \in {"ok", "error"},
         ops' = [ops EXCEPT ![id].status = status]
  PROVE  /\ ops' \in [OpId -> [status : {"none", "running", "ok", "error"}, cfg : Config]]
         /\ ops'[id].status = status /\ ops'[id].cfg = ops[id].cfg
         /\ \A i \in OpId : i # id => ops'[i] = ops[i]
BY DEF TypeOK

\* Every step keeps the types.
LEMMA NextType == TypeOK /\ [Next]_vars => TypeOK'
<1> SUFFICES ASSUME TypeOK, [Next]_vars PROVE TypeOK'
  OBVIOUS
<1>t. /\ obj \in Storage /\ cache \in Storage
      /\ rec \in [pc : Step, cr : Storage]
      /\ rec.cr \in Storage
      /\ fresh \in BOOLEAN /\ stale \in BOOLEAN /\ queued \in BOOLEAN
      /\ cms \in [ver : 0..MaxVer + 1, body : 0..MaxGen]
      /\ ops \in [OpId -> [status : {"none", "running", "ok", "error"}, cfg : Config]]
      /\ installed \subseteq Config
      /\ faults \in 0..MaxFaults /\ failed \in 0..MaxFailed
  BY DEF TypeOK
<1>i. Idle \in [pc : Step, cr : Storage]
  BY NewStorageFacts
<1>r. /\ rec.cr.gen \in 1..MaxGen /\ rec.cr.gen \in 0..MaxGen
      /\ rec.cr.st \in Status /\ rec.cr.cfg \in Config
      /\ rec.cr.st.op.id \in MaybeId
  BY <1>t, ConfigAssumption DEF Storage, Status
<1>c. /\ {"True", "Unknown", "False"} \subseteq Condition
      /\ 0 \in MaybeId /\ 0 \in 0..MaxGen /\ OpId \subseteq MaybeId
  BY ConfigAssumption DEF Condition, MaybeId, OpId
<1>f. faults < MaxFaults => faults + 1 \in 0..MaxFaults
  BY <1>t, ConfigAssumption
<1>1. CASE Reconcile
  <2>1. rec' \in [pc : Step, cr : Storage]
    BY <1>1, <1>t, <1>i DEF Reconcile, Step
  <2> QED BY <1>1, <1>t, <2>1 DEF Reconcile, CacheRead, ydb, TypeOK
<1>2. CASE SetConfigPipelineStatus
  <2>1. rec' \in [pc : Step, cr : Storage]
    <3>1. PICK status \in Condition : WriteStatus(WithSynced(rec.cr.st, status))
      BY <1>2, <1>c DEF SetConfigPipelineStatus
    <3> QED BY <3>1, <1>t, <1>r, WithSyncedFacts, WriteStatusFacts
  <2> QED BY <1>2, <1>t, <2>1 DEF SetConfigPipelineStatus, kube, ydb, TypeOK
<1>3. CASE ReplaceConfigNow
  <2>1. rec' \in [pc : Step, cr : Storage]
    <3>1. PICK status \in Condition : WriteStatus(WithOp(rec.cr.st, status, rec.cr.gen, 0))
      BY <1>3, <1>c DEF ReplaceConfigNow
    <3> QED BY <3>1, <1>t, <1>r, <1>c, WithOpFacts, WriteStatusFacts
  <2>2. /\ cms' \in [ver : 0..MaxVer + 1, body : 0..MaxGen]
        /\ installed' \subseteq Config
    BY <1>3, <1>r, ReplaceFacts DEF ReplaceConfigNow
  <2> QED BY <1>3, <1>t, <2>1, <2>2 DEF ReplaceConfigNow, kube, TypeOK
<1>4. CASE ReplaceConfigLater
  <2>1. PICK id \in OpId :
           /\ ops' = [ops EXCEPT ![id] = [status |-> "running", cfg |-> rec.cr.cfg]]
           /\ \/ /\ WriteStatus(WithOp(rec.cr.st, "Unknown", rec.cr.gen, id))
                 /\ UNCHANGED faults
              \/ /\ faults < MaxFaults
                 /\ faults' = faults + 1
                 /\ WriteStatus(WithOp(rec.cr.st, "Unknown", rec.cr.gen, 0))
    BY <1>4 DEF ReplaceConfigLater
  <2>2. ops' \in [OpId -> [status : {"none", "running", "ok", "error"}, cfg : Config]]
    BY <2>1, <1>r, StartFacts
  <2>3. rec' \in [pc : Step, cr : Storage]
    BY <2>1, <1>t, <1>r, <1>c, WithOpFacts, WriteStatusFacts
  <2> QED BY <1>4, <1>t, <1>f, <2>1, <2>2, <2>3 DEF ReplaceConfigLater, kube, TypeOK
<1>5. CASE CheckReplaceConfigOperation
  <2>1. rec' \in [pc : Step, cr : Storage]
    <3>1. \/ rec' = Idle
          \/ \E status \in Condition, gen \in 0..MaxGen, id \in MaybeId :
               WriteStatus(WithOp(rec.cr.st, status, gen, id))
      BY <1>5, <1>c, <1>r DEF CheckReplaceConfigOperation, Return
    <3> QED BY <3>1, <1>t, <1>i, <1>r, WithOpFacts, WriteStatusFacts
  <2>2. queued' \in BOOLEAN
    BY <1>5, <1>t DEF CheckReplaceConfigOperation, Return
  <2> QED BY <1>5, <1>t, <2>1, <2>2 DEF CheckReplaceConfigOperation, kube, ydb, TypeOK
<1>6. CASE ConfigurationIsSynced
  <2>1. rec' \in [pc : Step, cr : Storage]
    BY <1>6, <1>t, <1>r, <1>c, WithSyncedFacts, WriteStatusFacts DEF ConfigurationIsSynced
  <2> QED BY <1>6, <1>t, <2>1 DEF ConfigurationIsSynced, kube, ydb, TypeOK
<1>7. CASE UpdateStatus
  <2>1. obj' \in Storage /\ fresh' \in BOOLEAN
    <3>1. [obj EXCEPT !.st = rec.cr.st] \in Storage
      BY <1>t, <1>r, ObjectStatusFacts
    <3> QED BY <1>7, <1>t, <3>1 DEF UpdateStatus
  <2> QED BY <1>7, <1>t, <1>i, <2>1 DEF UpdateStatus, CacheRead, Return, ydb, TypeOK
<1>8. CASE OperationEnds
  <2>1. PICK id \in OpId :
           /\ Replace(ops[id].cfg)
           /\ ops' = [ops EXCEPT ![id].status =
                        IF Succeeds(ops[id].cfg) THEN "ok" ELSE "error"]
           /\ UNCHANGED <<kube, queued, rec, failed, faults>>
    BY <1>8 DEF OperationEnds
  <2>2. ops[id].cfg \in Config
    BY <1>t
  <2>3. /\ cms' \in [ver : 0..MaxVer + 1, body : 0..MaxGen]
        /\ installed' \subseteq Config
    BY <2>1, <2>2, ReplaceFacts
  <2>4. ops' \in [OpId -> [status : {"none", "running", "ok", "error"}, cfg : Config]]
    BY <2>1, EndFacts
  <2> QED BY <1>t, <2>1, <2>3, <2>4 DEF kube, TypeOK
<1>9. CASE OperationFails
  <2>1. PICK id \in OpId : ops' = [ops EXCEPT ![id].status = "error"]
    BY <1>9 DEF OperationFails
  <2>2. ops' \in [OpId -> [status : {"none", "running", "ok", "error"}, cfg : Config]]
    BY <2>1, EndFacts
  <2>3. failed' \in 0..MaxFailed
    BY <1>9, <1>t, ConfigAssumption DEF OperationFails
  <2> QED BY <1>9, <1>t, <2>2, <2>3 DEF OperationFails, kube, TypeOK
<1>10. CASE ReplaceConfigLost
  <2>1. /\ cms' \in [ver : 0..MaxVer + 1, body : 0..MaxGen]
        /\ installed' \subseteq Config
    BY <1>10, <1>t, <1>r, ReplaceFacts DEF ReplaceConfigLost
  <2>2. ops' \in [OpId -> [status : {"none", "running", "ok", "error"}, cfg : Config]]
    BY <1>10, <1>t, <1>r, StartFacts DEF ReplaceConfigLost
  <2> QED BY <1>10, <1>t, <1>i, <1>f, <2>1, <2>2 DEF ReplaceConfigLost, Return, kube, TypeOK
<1>11. CASE CacheSync
  BY <1>11, <1>t DEF CacheSync, ydb, TypeOK
<1>12. CASE UserUpdate
  BY <1>12, <1>t, UserUpdateFacts DEF UserUpdate, ydb, TypeOK
<1>13. CASE ApiError
  BY <1>13, <1>t, <1>i, <1>f DEF ApiError, Return, kube, ydb, TypeOK
<1>14. CASE Crash
  BY <1>14, <1>t, <1>i, <1>f DEF Crash, ydb, TypeOK
<1>15. CASE UNCHANGED vars
  BY <1>15, <1>t DEF vars, TypeOK
<1> QED
  BY <1>1, <1>2, <1>3, <1>4, <1>5, <1>6, <1>7, <1>8, <1>9, <1>10, <1>11, <1>12,
     <1>13, <1>14, <1>15 DEF Next, Controller

\* TypeOK holds in every reachable state.
THEOREM TypeCorrect == Spec => []TypeOK
BY InitType, NextType, PTL DEF Spec

-----------------------------------------------------------------------------
(***************************************************************************)
(* The inductive invariant.  Most steps leave the specs as they are: they  *)
(* copy an object or give it a status.                                     *)
(***************************************************************************)

\* The spec of every copy is the spec a copy had before, and the API server's
\* is unchanged.
SpecsKept ==
  /\ obj'.gen = obj.gen
  /\ obj'.cfg = obj.cfg
  /\ \A o \in Copies' : \E p \in Copies : o.gen = p.gen /\ o.cfg = p.cfg

\* A status is well formed for an object of generation gen.
Dated(st, gen) ==
  /\ st.synced.gen <= gen
  /\ st.op.gen <= gen
  /\ st.op.status = "Absent" => st.op.gen = 0

\* An operation that was started remains started, for the same configuration.
OperationsKept ==
  \A id \in OpId : ops[id].status # "none" =>
                     ops'[id].status # "none" /\ ops'[id].cfg = ops[id].cfg

\* The copies and the configurations have their types.
LEMMA ConfigsTyped ==
  ASSUME TypeOK
  PROVE  /\ Copies \subseteq Storage
         /\ \A o \in Copies : o.cfg \in Config
         /\ \A c \in Config : c.ver \in Nat
         /\ cms.ver \in Nat
<1>1. Copies \subseteq Storage
  BY NewStorageFacts DEF TypeOK, Copies
<1>2. \A c \in Config : c.ver \in Nat
  BY ConfigAssumption DEF Config
<1> QED BY <1>1, <1>2, ConfigAssumption DEF TypeOK, Storage

\* The generations remain an order on the specs.
LEMMA GenerationKept ==
  ASSUME GenerationInv, SpecsKept, fresh' => cache' = obj',
         \A o \in Copies' : Dated(o.st, o.gen)
  PROVE  GenerationInv'
<1>1. \A o \in Copies' : o.gen <= obj'.gen
  BY DEF GenerationInv, SpecsKept
<1>2. \A o, p \in Copies' : o.gen = p.gen => o.cfg = p.cfg
  <2> SUFFICES ASSUME NEW o \in Copies', NEW p \in Copies', o.gen = p.gen
               PROVE  o.cfg = p.cfg
    OBVIOUS
  <2>1. PICK oo \in Copies : o.gen = oo.gen /\ o.cfg = oo.cfg
    BY DEF SpecsKept
  <2>2. PICK pp \in Copies : p.gen = pp.gen /\ p.cfg = pp.cfg
    BY DEF SpecsKept
  <2> QED BY <2>1, <2>2 DEF GenerationInv
<1> QED BY <1>1, <1>2 DEF GenerationInv, Dated

\* The CMS leaves a version behind only for a configuration that carries it.
LEMMA ConfigKept ==
  ASSUME TypeOK, ConfigInv,
         UNCHANGED <<cms, installed>> \/ \E c \in Config : Replace(c)
  PROVE  ConfigInv' /\ installed \subseteq installed'
<1>1. CASE UNCHANGED <<cms, installed>>
  BY <1>1 DEF ConfigInv, AlreadyReplaced, VersionInstalled, Repeats
<1>2. CASE \E c \in Config : Replace(c)
  <2>0. PICK d \in Config : Replace(d)
    BY <1>2
  <2>1. /\ installed \subseteq installed'
        /\ Accepts(d) => cms' = [ver |-> d.ver + 1, body |-> d.body] /\ d \in installed'
        /\ ~Accepts(d) => cms' = cms /\ installed' = installed
    BY <2>0, ReplaceFacts
  <2>2. CASE ~Accepts(d)
    BY <2>1, <2>2 DEF ConfigInv, AlreadyReplaced, VersionInstalled, Repeats
  <2>3. CASE Accepts(d)
    <3>1. ASSUME NEW c \in Config, cms'.ver > c.ver PROVE \E e \in installed' : e.ver = c.ver
      <4>1. d.ver \in Nat /\ c.ver \in Nat /\ cms.ver \in Nat /\ cms'.ver = d.ver + 1
        BY <2>1, <2>3, ConfigsTyped
      <4>2. CASE c.ver = d.ver
        BY <4>2, <2>1, <2>3
      <4>3. CASE c.ver # d.ver
        <5>1. cms.ver > c.ver
          BY <4>3, <4>1, <3>1, <2>3 DEF Accepts
        <5> QED BY <5>1, <2>1 DEF ConfigInv, AlreadyReplaced, VersionInstalled
      <4> QED BY <4>2, <4>3
    <3>2. ASSUME NEW c \in Config, c.ver + 1 = cms'.ver, c.body = cms'.body
          PROVE  c \in installed'
      <4>1. d.ver \in Nat /\ c.ver \in Nat
        BY ConfigsTyped
      <4>2. c.ver = d.ver /\ c.body = d.body
        BY <4>1, <3>2, <2>1, <2>3
      <4>3. c = d
        BY <4>2 DEF Config
      <4> QED BY <4>3, <2>1, <2>3
    <3> QED BY <2>1, <3>1, <3>2 DEF ConfigInv, AlreadyReplaced, VersionInstalled, Repeats
  <2> QED BY <2>2, <2>3
<1> QED BY <1>1, <1>2

\* A claim remains true, of every copy, while nothing is uninstalled.
LEMMA HonestKept ==
  ASSUME TypeOK, ClaimInv, SpecsKept, OperationsKept, installed \subseteq installed',
         NEW q \in Copies, NEW p \in Copies'
  PROVE  /\ q.st.synced.status = "True" /\ q.st.synced.gen = p.gen
              => \E c \in installed' : c.ver = p.cfg.ver
         /\ q.st.op.gen = p.gen =>
              /\ q.st.op.status = "True" => p.cfg \in installed'
              /\ q.st.op.status = "Unknown" /\ q.st.op.id # 0
                   => ops'[q.st.op.id].status # "none" /\ ops'[q.st.op.id].cfg = p.cfg
<1>1. PICK r \in Copies : p.gen = r.gen /\ p.cfg = r.cfg
  BY DEF SpecsKept
<1>2. Honest(q.st, r)
  BY DEF ClaimInv
<1>3. q.st.op.id # 0 => q.st.op.id \in OpId
  <2>1. q.st.op.id \in MaybeId
    BY ConfigsTyped DEF Storage, Status
  <2> QED BY <2>1, ConfigAssumption DEF MaybeId, OpId
<1> QED
  BY <1>1, <1>2, <1>3
  DEF Honest, HonestSynced, HonestOp, OperationsKept, VersionInstalled

\* The status of a copy is dated for it, and for the object on the API server.
LEMMA DatedFacts ==
  ASSUME TypeOK, GenerationInv, NEW o \in Copies
  PROVE  Dated(o.st, o.gen) /\ Dated(o.st, obj.gen) /\ Dated(NewStorage.st, NewStorage.gen)
<1>1. /\ o \in Storage /\ obj \in Storage
      /\ NewStorage \in Copies
  BY ConfigsTyped DEF TypeOK, Copies
<1>2. /\ o.gen \in Nat /\ obj.gen \in Nat
      /\ o.st.synced.gen \in Nat /\ o.st.op.gen \in Nat
  BY <1>1, StorageFacts
<1> QED BY <1>1, <1>2 DEF GenerationInv, Dated

\* A step that gives the reconcile a new status and changes nothing else of
\* the objects: what is new in the status must be true.
LEMMA ReconcileWrites ==
  ASSUME IInv, TypeOK', UNCHANGED <<obj, cache, fresh>>,
         NEW st \in Status, WriteStatus(st), Dated(st, rec.cr.gen),
         OperationsKept, OperationInv',
         UNCHANGED <<cms, installed>> \/ \E c \in Config : Replace(c),
         \/ st.synced = rec.cr.st.synced
         \/ /\ st.synced.gen = rec.cr.gen
            /\ st.synced.status = "True" => \E c \in installed' : c.ver = rec.cr.cfg.ver,
         \/ st.op = rec.cr.st.op
         \/ st.op.status = "False"
         \/ /\ st.op.gen = rec.cr.gen
            /\ st.op.status = "True" => rec.cr.cfg \in installed'
            /\ st.op.status = "Unknown" /\ st.op.id # 0
                 => ops'[st.op.id].status # "none" /\ ops'[st.op.id].cfg = rec.cr.cfg
  PROVE  IInv'
<1>i. TypeOK /\ GenerationInv /\ ConfigInv /\ OperationInv /\ ClaimInv
  BY DEF IInv
<1>1. rec'.cr.gen = rec.cr.gen /\ rec'.cr.cfg = rec.cr.cfg /\ rec'.cr.st = st
  BY <1>i, WriteStatusFacts DEF TypeOK
<1>2. Copies' = {NewStorage, obj, cache, rec'.cr}
  BY DEF Copies, NewStorage
<1>3. SpecsKept
  BY <1>1, <1>2 DEF SpecsKept, Copies
<1>4. \A o \in Copies' : Dated(o.st, o.gen)
  BY <1>i, <1>1, <1>2, DatedFacts DEF Copies
<1>5. GenerationInv'
  BY <1>i, <1>3, <1>4, GenerationKept DEF GenerationInv
<1>6. \A p \in Copies' : p.gen = rec.cr.gen => p.cfg = rec.cr.cfg
  BY <1>i, <1>3 DEF SpecsKept, GenerationInv, Copies
<1>7. ConfigInv' /\ installed \subseteq installed'
  BY <1>i, ConfigKept
<1>8. ClaimInv'
  <2> SUFFICES ASSUME NEW o \in Copies', NEW p \in Copies' PROVE Honest(o.st, p)'
    BY DEF ClaimInv
  <2>1. CASE \E q \in Copies : o.st = q.st
    BY <1>i, <1>3, <1>7, <2>1, HonestKept DEF Honest, HonestSynced, HonestOp, VersionInstalled
  <2>2. CASE o.st = st
    <3>1. rec.cr \in Copies
      BY DEF Copies
    <3>2. HonestSynced(st.synced, p)'
      BY <1>i, <1>3, <1>6, <1>7, <3>1, HonestKept DEF HonestSynced, VersionInstalled
    <3>3. HonestOp(st.op, p)'
      BY <1>i, <1>3, <1>6, <1>7, <3>1, HonestKept DEF HonestOp
    <3> QED BY <2>2, <3>2, <3>3 DEF Honest
  <2> QED BY <1>1, <1>2, <2>1, <2>2 DEF Copies
<1> QED BY <1>5, <1>7, <1>8 DEF IInv

\* A step after which the reconcile holds a copy it could have had before, and
\* which gives no object a status that no copy had.
LEMMA ReconcileEnds ==
  ASSUME IInv, TypeOK', OperationsKept, OperationInv',
         UNCHANGED <<cms, installed>> \/ \E c \in Config : Replace(c),
         rec'.cr \in Copies, cache' \in {cache, obj}, fresh' => cache' = obj',
         \/ obj' = obj
         \/ obj' = [obj EXCEPT !.st = rec.cr.st]
  PROVE  IInv'
<1>i. TypeOK /\ GenerationInv /\ ConfigInv /\ OperationInv /\ ClaimInv
  BY DEF IInv
<1>t. obj \in Storage /\ rec.cr \in Storage /\ rec.cr.st \in Status
  BY <1>i, StorageFacts DEF TypeOK
<1>1. /\ obj'.gen = obj.gen /\ obj'.cfg = obj.cfg
      /\ obj'.st \in {obj.st, rec.cr.st}
  <2>1. CASE obj' = obj
    BY <2>1
  <2>2. CASE obj' = [obj EXCEPT !.st = rec.cr.st]
    BY <2>2, <1>t, ObjectStatusFacts
  <2> QED BY <2>1, <2>2
<1>2. Copies' = {NewStorage, obj', cache', rec'.cr}
  BY DEF Copies, NewStorage
<1>3. SpecsKept
  BY <1>1, <1>2 DEF SpecsKept, Copies
<1>4. \A o \in Copies' : Dated(o.st, o.gen)
  <2>1. Dated(obj'.st, obj'.gen)
    BY <1>i, <1>1, DatedFacts DEF Copies
  <2> QED BY <1>i, <2>1, <1>2, DatedFacts DEF Copies
<1>5. GenerationInv'
  BY <1>i, <1>3, <1>4, GenerationKept
<1>6. ConfigInv' /\ installed \subseteq installed'
  BY <1>i, ConfigKept
<1>7. ClaimInv'
  <2> SUFFICES ASSUME NEW o \in Copies', NEW p \in Copies' PROVE Honest(o.st, p)'
    BY DEF ClaimInv
  <2>1. PICK q \in Copies : o.st = q.st
    BY <1>1, <1>2 DEF Copies
  <2> QED BY <1>i, <1>3, <1>6, <2>1, HonestKept DEF Honest, HonestSynced, HonestOp, VersionInstalled
<1> QED BY <1>5, <1>6, <1>7 DEF IInv

\* Where the CMS and its operations are as they were, so are their invariants.
LEMMA CmsUnchanged ==
  ASSUME UNCHANGED <<cms, ops, installed>>, OperationInv
  PROVE  OperationsKept /\ OperationInv'
BY DEF OperationsKept, OperationInv

\* A call or an operation that succeeds has its configuration installed, the
\* one that repeats an earlier call because this one had.
LEMMA SucceedsFacts ==
  ASSUME TypeOK, ConfigInv, NEW c \in Config, Replace(c), Succeeds(c)
  PROVE  c \in installed'
<1>1. CASE Accepts(c)
  BY <1>1, ReplaceFacts
<1>2. CASE ~Accepts(c)
  BY <1>2, ReplaceFacts DEF Succeeds, ConfigInv
<1> QED BY <1>1, <1>2

\* Starting an operation for the copy at hand, and ending one.
LEMMA StartKept ==
  ASSUME TypeOK, OperationInv, NEW id \in OpId, NEW c \in Config, UNCHANGED installed,
         ops[id].status = "none",
         ops' = [ops EXCEPT ![id] = [status |-> "running", cfg |-> c]]
  PROVE  /\ OperationsKept /\ OperationInv'
         /\ ops'[id].status = "running" /\ ops'[id].cfg = c
<1>1. /\ ops'[id].status = "running" /\ ops'[id].cfg = c
      /\ \A i \in OpId : i # id => ops'[i] = ops[i]
  BY ConfigsTyped, StartFacts
<1> QED BY <1>1 DEF OperationsKept, OperationInv

LEMMA EndKept ==
  ASSUME TypeOK, OperationInv, NEW id \in OpId, NEW status \in {"ok", "error"},
         ops[id].status = "running",
         ops' = [ops EXCEPT ![id].status = status],
         installed \subseteq installed',
         status = "ok" => ops[id].cfg \in installed'
  PROVE  OperationsKept /\ OperationInv'
<1>1. /\ ops'[id].status = status /\ ops'[id].cfg = ops[id].cfg
      /\ \A i \in OpId : i # id => ops'[i] = ops[i]
  BY EndFacts
<1> QED BY <1>1 DEF OperationsKept, OperationInv

\* An edit makes a generation that no copy and no status knows.
LEMMA UserUpdateKept ==
  ASSUME IInv, UserUpdate, TypeOK'
  PROVE  IInv'
<1>i. TypeOK /\ GenerationInv /\ ConfigInv /\ OperationInv /\ ClaimInv
  BY DEF IInv
<1>u. UNCHANGED <<cache, rec, cms, ops, installed>> /\ ~fresh'
  BY DEF UserUpdate, ydb
<1>1. /\ obj'.gen = obj.gen + 1
      /\ obj'.st = obj.st
  BY <1>i, UserUpdateFacts
<1>2. Copies' \subseteq Copies \cup {obj'}
  BY <1>u DEF Copies, NewStorage
<1>3. obj' \in Storage /\ obj.gen \in Nat /\ obj \in Copies
  <2>1. obj \in Storage /\ obj' \in Storage
    BY <1>i DEF TypeOK
  <2> QED BY <2>1, StorageFacts DEF Copies
<1>4. /\ \A o \in Copies : /\ o.gen \in Nat /\ o.gen < obj'.gen
                            /\ o.st.synced.gen \in Nat /\ o.st.synced.gen < obj'.gen
                            /\ o.st.op.gen \in Nat /\ o.st.op.gen < obj'.gen
                            /\ Dated(o.st, o.gen) /\ Dated(o.st, obj.gen)
  <2> SUFFICES ASSUME NEW o \in Copies
               PROVE  /\ o.gen \in Nat /\ o.gen < obj'.gen
                      /\ o.st.synced.gen \in Nat /\ o.st.synced.gen < obj'.gen
                      /\ o.st.op.gen \in Nat /\ o.st.op.gen < obj'.gen
                      /\ Dated(o.st, o.gen) /\ Dated(o.st, obj.gen)
    OBVIOUS
  <2>1. o \in Storage
    BY <1>i, ConfigsTyped
  <2>2. o.gen \in Nat /\ o.st.synced.gen \in Nat /\ o.st.op.gen \in Nat
    BY <2>1, StorageFacts
  <2>3. o.gen <= obj.gen /\ Dated(o.st, o.gen) /\ Dated(o.st, obj.gen)
    BY <1>i, DatedFacts DEF GenerationInv
  <2> QED BY <1>1, <1>3, <2>2, <2>3 DEF Dated
<1>5. GenerationInv'
  <2>1. \A o \in Copies' : o.gen <= obj'.gen /\ Dated(o.st, o.gen)
    <3>1. Dated(obj'.st, obj'.gen) /\ obj'.gen <= obj'.gen
      BY <1>1, <1>3, <1>4 DEF Dated
    <3> QED BY <1>1, <1>2, <1>3, <1>4, <3>1
  <2>2. \A o, p \in Copies' : o.gen = p.gen => o.cfg = p.cfg
    BY <1>i, <1>2, <1>4, <1>1, <1>3 DEF GenerationInv
  <2> QED BY <1>u, <2>1, <2>2 DEF GenerationInv, Dated
<1>6. ConfigInv'
  BY <1>i, <1>u, ConfigKept
<1>7. OperationInv'
  BY <1>i, <1>u DEF OperationInv
<1>8. ClaimInv'
  <2> SUFFICES ASSUME NEW o \in Copies', NEW p \in Copies' PROVE Honest(o.st, p)'
    BY DEF ClaimInv
  <2>1. PICK q \in Copies : o.st = q.st
    BY <1>1, <1>2, <1>3
  <2>2. CASE p \in Copies
    BY <1>i, <1>u, <2>1, <2>2 DEF ClaimInv, Honest, HonestSynced, HonestOp, VersionInstalled
  <2>3. CASE p = obj'
    BY <1>1, <1>3, <1>4, <2>1, <2>3 DEF Honest, HonestSynced, HonestOp
  <2> QED BY <1>2, <2>2, <2>3
<1> QED BY <1>5, <1>6, <1>7, <1>8 DEF IInv

\* The invariant holds in every initial state.
LEMMA InitInv == Init => IInv
<1> SUFFICES ASSUME Init PROVE IInv
  OBVIOUS
<1>1. TypeOK
  BY InitType
<1>2. \A o \in Copies : o = NewStorage
  BY NewStorageFacts DEF Init, Copies
<1>4. GenerationInv
  BY <1>2, NewStorageFacts DEF Init, GenerationInv
<1>5. ConfigInv
  <2>1. \A c \in Config : c.ver \in Nat /\ c.ver \in 0..MaxVer /\ 0 \in 0..MaxGen
    BY ConfigAssumption DEF Config
  <2>2. ASSUME NEW c \in Config, AlreadyReplaced(c) PROVE VersionInstalled(c)
    <3>1. [ver |-> c.ver, body |-> 0] \in Config
      BY <2>1 DEF Config
    <3>2. [ver |-> c.ver, body |-> 0] \in installed
      BY <3>1, <2>2 DEF Init, AlreadyReplaced
    <3> QED BY <3>2 DEF VersionInstalled
  <2>3. ASSUME NEW c \in Config, Repeats(c) PROVE c \in installed
    BY <2>1, <2>3 DEF Init, Repeats
  <2> QED BY <2>2, <2>3 DEF ConfigInv
<1>6. OperationInv
  BY DEF Init, OperationInv
<1>7. ClaimInv
  BY <1>2, NewStorageFacts DEF ClaimInv, Honest, HonestSynced, HonestOp
<1> QED BY <1>1, <1>4, <1>5, <1>6, <1>7 DEF IInv

\* Every step keeps the invariant.
LEMMA NextInv == IInv /\ [Next]_vars => IInv'
<1> SUFFICES ASSUME IInv, [Next]_vars PROVE IInv'
  OBVIOUS
<1>i. TypeOK /\ GenerationInv /\ ConfigInv /\ OperationInv /\ ClaimInv
  BY DEF IInv
<1>t. TypeOK'
  BY <1>i, NextType
<1>r. /\ rec.cr \in Copies /\ rec.cr \in Storage
      /\ rec.cr.gen \in 1..MaxGen /\ rec.cr.gen \in 0..MaxGen /\ rec.cr.gen \in Nat
      /\ rec.cr.st \in Status /\ rec.cr.cfg \in Config
      /\ Dated(rec.cr.st, rec.cr.gen)
  BY <1>i, DatedFacts, ConfigsTyped, StorageFacts, ConfigAssumption DEF Copies
<1>c. /\ {"True", "Unknown", "False"} \subseteq Condition
      /\ 0 \in MaybeId /\ 0 \in 0..MaxGen /\ OpId \subseteq MaybeId
      /\ 0 \notin OpId
  BY ConfigAssumption DEF Condition, MaybeId, OpId
<1>h. \A p \in Copies : Honest(rec.cr.st, p)
  BY <1>i, <1>r DEF ClaimInv
<1>1. CASE Reconcile
  <2>1. rec'.cr \in Copies
    BY <1>1 DEF Reconcile, Idle, Copies
  <2> QED
    BY <1>1, <1>i, <1>t, <2>1, CmsUnchanged, ReconcileEnds
    DEF Reconcile, GenerationInv, ydb
<1>2. CASE SetConfigPipelineStatus
  <2>1. PICK status \in Condition :
           /\ WriteStatus(WithSynced(rec.cr.st, status))
           /\ status = "True" => AlreadyReplaced(rec.cr.cfg)
    BY <1>2, <1>c DEF SetConfigPipelineStatus
  <2>2. status = "True" => \E c \in installed : c.ver = rec.cr.cfg.ver
    BY <1>i, <1>r, <2>1 DEF ConfigInv, VersionInstalled
  <2> DEFINE st == WithSynced(rec.cr.st, status)
  <2>3. /\ st \in Status /\ st.op = rec.cr.st.op
        /\ st.synced = [status |-> status, gen |-> rec.cr.gen]
    BY <1>r, WithSyncedFacts
  <2>4. Dated(st, rec.cr.gen)
    BY <1>r, <2>3 DEF Dated
  <2>5. UNCHANGED <<obj, cache, fresh, cms, ops, installed>>
    BY <1>2 DEF SetConfigPipelineStatus, kube, ydb
  <2> QED BY <1>i, <1>t, <2>1, <2>2, <2>3, <2>4, <2>5, CmsUnchanged, ReconcileWrites
<1>3. CASE ReplaceConfigNow
  <2>1. PICK status \in Condition :
           /\ WriteStatus(WithOp(rec.cr.st, status, rec.cr.gen, 0))
           /\ status \in {"True", "False"}
           /\ status = "True" => Succeeds(rec.cr.cfg)
    BY <1>3, <1>c DEF ReplaceConfigNow
  <2>2. Replace(rec.cr.cfg) /\ UNCHANGED <<obj, cache, fresh, ops>>
    BY <1>3 DEF ReplaceConfigNow, kube
  <2>3. status = "True" => rec.cr.cfg \in installed'
    BY <1>i, <1>r, <2>1, <2>2, SucceedsFacts
  <2> DEFINE st == WithOp(rec.cr.st, status, rec.cr.gen, 0)
  <2>4. /\ st \in Status /\ st.synced = rec.cr.st.synced
        /\ st.op = [status |-> status, gen |-> rec.cr.gen, id |-> 0]
    BY <1>r, <1>c, WithOpFacts
  <2>5. Dated(st, rec.cr.gen)
    BY <1>r, <2>1, <2>4 DEF Dated
  <2>6. OperationsKept /\ OperationInv'
    BY <1>i, <1>r, <2>2, ReplaceFacts DEF OperationsKept, OperationInv
  <2>7. \E c \in Config : Replace(c)
    BY <1>r, <2>2
  <2> QED
    BY <1>t, <2>1, <2>2, <2>3, <2>4, <2>5, <2>6, <2>7, ReconcileWrites
<1>4. CASE ReplaceConfigLater
  <2>1. PICK id \in OpId, mid \in MaybeId :
           /\ ops[id].status = "none"
           /\ ops' = [ops EXCEPT ![id] = [status |-> "running", cfg |-> rec.cr.cfg]]
           /\ mid \in {0, id}
           /\ WriteStatus(WithOp(rec.cr.st, "Unknown", rec.cr.gen, mid))
    BY <1>4, <1>c DEF ReplaceConfigLater, Unused
  <2>2. UNCHANGED <<obj, cache, fresh, cms, installed>>
    BY <1>4 DEF ReplaceConfigLater, kube
  <2>3. /\ OperationsKept /\ OperationInv'
        /\ ops'[id].status = "running" /\ ops'[id].cfg = rec.cr.cfg
    BY <1>i, <1>r, <2>1, <2>2, StartKept
  <2> DEFINE st == WithOp(rec.cr.st, "Unknown", rec.cr.gen, mid)
  <2>4. /\ st \in Status /\ st.synced = rec.cr.st.synced
        /\ st.op = [status |-> "Unknown", gen |-> rec.cr.gen, id |-> mid]
    BY <1>r, <1>c, WithOpFacts
  <2>5. Dated(st, rec.cr.gen)
    BY <1>r, <2>4 DEF Dated
  <2> QED
    BY <1>t, <2>1, <2>2, <2>3, <2>4, <2>5, ReconcileWrites
<1>5. CASE CheckReplaceConfigOperation
  <2>u. UNCHANGED <<obj, cache, fresh, cms, ops, installed>>
    BY <1>5 DEF CheckReplaceConfigOperation, kube, ydb
  <2>k. OperationsKept /\ OperationInv'
    BY <1>i, <2>u, CmsUnchanged
  <2>1. CASE rec' = Idle
    <3>1. rec'.cr \in Copies
      BY <2>1 DEF Idle, Copies
    <3> QED
      BY <1>i, <1>t, <2>u, <2>k, <3>1, ReconcileEnds DEF GenerationInv
  <2>2. CASE rec' # Idle
    <3>1. PICK status \in Condition, gen \in 0..MaxGen, id \in MaybeId :
             /\ WriteStatus(WithOp(rec.cr.st, status, gen, id))
             /\ \/ status = "False" /\ gen = 0
                \/ status = "Unknown" /\ gen = rec.cr.gen /\ id = rec.cr.st.op.id
                \/ /\ status = "True" /\ gen = rec.cr.gen
                   /\ rec.cr.st.op.id # 0 /\ ops[rec.cr.st.op.id].status = "ok"
      <4>1. rec.cr.st.op.id \in MaybeId
        BY <1>r DEF Status
      <4> QED BY <1>5, <2>2, <1>r, <1>c, <4>1 DEF CheckReplaceConfigOperation, Return
    <3> DEFINE st == WithOp(rec.cr.st, status, gen, id)
    <3>2. /\ st \in Status /\ st.synced = rec.cr.st.synced
          /\ st.op = [status |-> status, gen |-> gen, id |-> id]
      BY <1>r, <1>c, WithOpFacts
    <3>3. Dated(st, rec.cr.gen)
      BY <1>r, <3>1, <3>2 DEF Dated
    <3>4. rec.cr.st.op.id # 0 =>
             /\ ops[rec.cr.st.op.id].status # "none"
             /\ ops[rec.cr.st.op.id].cfg = rec.cr.cfg
      BY <1>5, <1>r, <1>h DEF CheckReplaceConfigOperation, Polls, Honest, HonestOp
    <3>5. rec.cr.st.op.id # 0 => rec.cr.st.op.id \in OpId
      BY <1>r, ConfigAssumption DEF Status, MaybeId, OpId
    <3>6. status = "True" => rec.cr.cfg \in installed
      BY <1>i, <3>1, <3>4, <3>5 DEF OperationInv
    <3> HIDE DEF st
    <3>7. WriteStatus(st)
      BY <3>1 DEF st
    <3>8. \/ st.op.status = "False"
          \/ /\ st.op.gen = rec.cr.gen
             /\ st.op.status = "True" => rec.cr.cfg \in installed'
             /\ st.op.status = "Unknown" /\ st.op.id # 0
                 => ops'[st.op.id].status # "none" /\ ops'[st.op.id].cfg = rec.cr.cfg
      BY <2>u, <3>1, <3>2, <3>4, <3>6
    <3> QED BY <1>t, <2>u, <2>k, <3>2, <3>3, <3>7, <3>8, ReconcileWrites
  <2> QED BY <2>1, <2>2
<1>6. CASE ConfigurationIsSynced
  <2>1. /\ WriteStatus(WithSynced(rec.cr.st, "True"))
        /\ UNCHANGED <<obj, cache, fresh, cms, ops, installed>>
    BY <1>6 DEF ConfigurationIsSynced, kube, ydb
  <2>2. rec.cr.cfg \in installed
    <3>1. rec.cr.st.op.gen \in Nat /\ rec.cr.st.op.status \in Condition
      BY <1>r, StorageFacts DEF Status
    <3>2. rec.cr.st.op.gen = rec.cr.gen /\ rec.cr.st.op.status \notin {"Unknown", "False"}
      BY <1>6, <1>r, <3>1 DEF ConfigurationIsSynced, Polls, Replaces, Dated
    <3>3. rec.cr.st.op.status = "True"
      BY <1>r, <3>1, <3>2 DEF Dated, Condition
    <3> QED BY <1>r, <1>h, <3>2, <3>3 DEF Honest, HonestOp
  <2> DEFINE st == WithSynced(rec.cr.st, "True")
  <2>3. /\ st \in Status /\ st.op = rec.cr.st.op
        /\ st.synced = [status |-> "True", gen |-> rec.cr.gen]
    BY <1>r, <1>c, WithSyncedFacts
  <2>4. Dated(st, rec.cr.gen)
    BY <1>r, <2>3 DEF Dated
  <2> QED BY <1>i, <1>t, <2>1, <2>2, <2>3, <2>4, CmsUnchanged, ReconcileWrites
<1>7. CASE UpdateStatus
  <2>1. rec'.cr \in Copies
    BY <1>7 DEF UpdateStatus, Return, Idle, Copies
  <2> QED
    BY <1>7, <1>i, <1>t, <2>1, CmsUnchanged, ReconcileEnds
    DEF UpdateStatus, GenerationInv, ydb
<1>8. CASE OperationEnds
  <2>1. PICK id \in OpId :
           /\ ops[id].status = "running"
           /\ Replace(ops[id].cfg)
           /\ ops' = [ops EXCEPT ![id].status =
                        IF Succeeds(ops[id].cfg) THEN "ok" ELSE "error"]
           /\ UNCHANGED <<kube, queued, rec, failed, faults>>
    BY <1>8 DEF OperationEnds
  <2>2. ops[id].cfg \in Config
    BY <1>i DEF TypeOK
  <2>3. Succeeds(ops[id].cfg) => ops[id].cfg \in installed'
    BY <1>i, <2>1, <2>2, SucceedsFacts
  <2>4. installed \subseteq installed'
    BY <1>i, <2>1, <2>2, ConfigsTyped, ReplaceFacts
  <2>5. OperationsKept /\ OperationInv'
    BY <1>i, <2>1, <2>3, <2>4, EndKept
  <2> QED
    BY <1>i, <1>r, <1>t, <2>1, <2>2, <2>5, ReconcileEnds DEF kube, GenerationInv
<1>9. CASE OperationFails
  <2>1. PICK id \in OpId :
           ops[id].status = "running" /\ ops' = [ops EXCEPT ![id].status = "error"]
    BY <1>9 DEF OperationFails
  <2>2. UNCHANGED <<obj, cache, fresh, rec, cms, installed>>
    BY <1>9 DEF OperationFails, kube
  <2>3. OperationsKept /\ OperationInv'
    BY <1>i, <2>1, <2>2, EndKept
  <2> QED
    BY <1>i, <1>r, <1>t, <2>2, <2>3, ReconcileEnds DEF GenerationInv
<1>10. CASE ReplaceConfigLost
  <2>1. /\ rec'.cr \in Copies
        /\ UNCHANGED <<obj, cache, fresh>>
    BY <1>10 DEF ReplaceConfigLost, Return, Idle, Copies, kube
  <2>2. CASE Replace(rec.cr.cfg) /\ UNCHANGED ops
    <3>1. OperationsKept /\ OperationInv'
      BY <1>i, <1>r, <2>2, ReplaceFacts DEF OperationsKept, OperationInv
    <3> QED
      BY <1>i, <1>r, <1>t, <2>1, <2>2, <3>1, ReconcileEnds DEF GenerationInv
  <2>3. CASE /\ \E id \in OpId :
                  /\ ops[id].status = "none"
                  /\ ops' = [ops EXCEPT ![id] = [status |-> "running", cfg |-> rec.cr.cfg]]
             /\ UNCHANGED <<cms, installed>>
    <3>1. OperationsKept /\ OperationInv'
      BY <1>i, <1>r, <2>3, StartKept
    <3> QED
      BY <1>i, <1>t, <2>1, <2>3, <3>1, ReconcileEnds DEF GenerationInv
  <2> QED BY <1>10, <2>2, <2>3 DEF ReplaceConfigLost, Unused
<1>11. CASE CacheSync
  BY <1>11, <1>i, <1>r, <1>t, CmsUnchanged, ReconcileEnds DEF CacheSync, ydb
<1>12. CASE UserUpdate
  BY <1>12, <1>t, UserUpdateKept
<1>13. CASE ApiError
  <2>1. rec'.cr \in Copies
    BY <1>13 DEF ApiError, Return, Idle, Copies
  <2> QED
    BY <1>13, <1>i, <1>t, <2>1, CmsUnchanged, ReconcileEnds
    DEF ApiError, GenerationInv, kube, ydb
<1>14. CASE Crash
  <2>1. rec'.cr \in Copies
    BY <1>14 DEF Crash, Idle, Copies
  <2> QED
    BY <1>14, <1>i, <1>t, <2>1, CmsUnchanged, ReconcileEnds DEF Crash, ydb
<1>15. CASE UNCHANGED vars
  BY <1>15, <1>i, <1>r, <1>t, CmsUnchanged, ReconcileEnds DEF vars, GenerationInv
<1> QED
  BY <1>1, <1>2, <1>3, <1>4, <1>5, <1>6, <1>7, <1>8, <1>9, <1>10, <1>11, <1>12,
     <1>13, <1>14, <1>15 DEF Next, Controller

\* IInv holds in every reachable state.
THEOREM Invariance == Spec => []IInv
BY InitInv, NextInv, PTL DEF Spec

\* Whatever is lost, retried or read stale, ReplaceConfigOperation is reported for
\* the latest spec only if its configuration was installed in the CMS, and
\* ConfigurationSynced only if one of its version was.
THEOREM SyncedInstalled == Spec => []SyncedIsInstalled
<1>1. ASSUME IInv PROVE SyncedIsInstalled
  <2>1. Honest(obj.st, obj)
    BY <1>1 DEF IInv, ClaimInv, Copies
  <2>2. ReportedReplaced => obj.cfg \in installed
    BY <2>1 DEF Honest, HonestOp, ReportedReplaced
  <2>3. ReportedSynced => VersionInstalled(obj.cfg)
    BY <2>1 DEF Honest, HonestSynced, ReportedSynced
  <2> QED BY <2>2, <2>3 DEF SyncedIsInstalled, VersionInstalled, VersionTaken
<1> QED BY <1>1, Invariance, PTL
=============================================================================
