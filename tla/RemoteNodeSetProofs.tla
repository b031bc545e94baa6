------------------------ MODULE RemoteNodeSetProofs ------------------------
(***************************************************************************)
(* Proofs about RemoteNodeSet, for any finite sets of remote NodeSets, any *)
(* number of objects, versions, edits and faults.                          *)
(*                                                                         *)
(* That a remote NodeSet leaves nothing behind is not inductive: what      *)
(* keeps a reconcile that still holds the NodeSet from creating it again   *)
(* is that the reconcile has put the finalizer on it, that there is one    *)
(* worker for each kind, and that a reconcile under deletion starts by     *)
(* deleting the NodeSet and never reaches the step that creates it.        *)
(***************************************************************************)
EXTENDS RemoteNodeSet, SequenceTheorems, WellFoundedInduction, TLAPS

\* The steps of a reconcile that do not come under deletion.
SyncSteps == {"initRemoteObjectsStatus", "syncRemoteObjects", "handleResourcesSync"}

\* A reconcile belongs to the worker of its kind.  It has put the finalizer on
\* its NodeSet; under deletion only it takes the finalizer away, and the NodeSet
\* of the data cluster stays deleted.
WorkerInv ==
  \A k \in Kind : rec[k] # Idle =>
    /\ KindOf(rec[k].n) = k
    /\ ~rec[k].deleting => life[rec[k].n] \in {"guarded", "deleting"}
    /\ rec[k].deleting => /\ life[rec[k].n] = "deleting"
                          /\ nodeSets[rec[k].n] = None
                          /\ rec[k].pc \notin SyncSteps

\* Without the finalizer there is no NodeSet in the data cluster.
FinalizerInv == \A n \in NodeSet : life[n] \in {"new", "gone"} => nodeSets[n] = None

IInv == TypeOK /\ WorkerInv /\ FinalizerInv

-----------------------------------------------------------------------------
(***************************************************************************)
(* Objects, kinds and copies.                                              *)
(***************************************************************************)

\* A set of numbers has a least element.
LEMMA LeastFacts ==
  ASSUME NEW S \in SUBSET Nat, S # {}
  PROVE  \E x \in S : \A y \in S : x <= y
<1> DEFINE R == OpToRel(<, Nat)
<1>1. IsWellFoundedOn(R, Nat)
  BY NatLessThanWellFounded
<1>2. \A x, y \in S : ~(<<y, x>> \in R) => x <= y
  BY DEF OpToRel
<1> HIDE DEF R
<1>3. \E x \in S : \A y \in S : ~(<<y, x>> \in R)
  BY <1>1, WFMin
<1> QED BY <1>2, <1>3

\* The first of some objects is one of them.
LEMMA MinFacts ==
  ASSUME NEW S \in SUBSET Object, S # {}
  PROVE  Min(S) \in S /\ Min(S) \in Object
<1>1. S \subseteq Nat
  BY RemoteAssumption DEF Object
<1>2. \E x \in S : \A y \in S : x <= y
  BY <1>1, LeastFacts
<1> QED BY <1>2 DEF Min

\* The first of some candidates is one of them.
LEMMA FirstFacts ==
  ASSUME NEW todo \in SUBSET Candidate, todo # {}
  PROVE  FirstOf(todo) \in todo /\ FirstOf(todo).obj \in Object
<1> DEFINE S == {c.at : c \in todo}
<1>1. S \in SUBSET Nat /\ S # {}
  BY DEF Candidate
<1>2. PICK x \in S : \A y \in S : x <= y
  BY <1>1, LeastFacts
<1>3. \E c \in todo : \A d \in todo : c.at <= d.at
  BY <1>2
<1>4. FirstOf(todo) \in todo
  BY <1>3 DEF FirstOf
<1> QED BY <1>4 DEF Candidate

\* Every NodeSet has a kind.
LEMMA KindFacts == \A n : KindOf(n) \in Kind
BY DEF KindOf, Kind

\* A worker that is at a step is not idle.
LEMMA BusyFacts ==
  ASSUME TypeOK, NEW k \in Kind, NEW step, Busy(k, step), step # "idle"
  PROVE  rec[k] \in Rec /\ rec[k] # Idle /\ rec[k].pc = step
BY DEF TypeOK, Busy, Idle

\* The fields of a reconcile.
LEMMA RecFacts ==
  ASSUME NEW r \in Rec
  PROVE  /\ r.n \in NodeSet /\ r.spec \in SUBSET Object /\ r.st \in Seq(Entry)
         /\ r.deleting \in BOOLEAN /\ r.todo \in SUBSET Candidate
         /\ r.others \in BOOLEAN /\ r.anns \in SUBSET Kind
         /\ r # Idle
BY DEF Rec, Idle

\* The worker k goes on with r, the other one does not move.
LEMMA OneWorkerMoves ==
  ASSUME rec \in [Kind -> Rec \cup {Idle}], NEW k \in Kind, NEW r \in Rec \cup {Idle},
         rec' = [rec EXCEPT ![k] = r]
  PROVE  /\ rec' \in [Kind -> Rec \cup {Idle}]
         /\ rec'[k] = r
         /\ \A j \in Kind \ {k} : rec'[j] = rec[j]
BY Zenon

\* The reconcile ends.
LEMMA ReturnFacts ==
  ASSUME TypeOK, NEW k \in Kind, NEW woken \in SUBSET NodeSet, Return(k, woken)
  PROVE  /\ rec' \in [Kind -> Rec \cup {Idle}]
         /\ rec'[k] = Idle
         /\ \A j \in Kind \ {k} : rec'[j] = rec[j]
         /\ queued' \in SUBSET NodeSet
<1>1. rec' = [rec EXCEPT ![k] = Idle] /\ queued' = queued \cup woken
  BY DEF Return
<1>2. rec \in [Kind -> Rec \cup {Idle}] /\ queued \in SUBSET NodeSet
  BY DEF TypeOK
<1> QED BY <1>1, <1>2, OneWorkerMoves

\* The entries are written.
LEMMA StatusFacts ==
  ASSUME TypeOK, NEW k \in Kind, rec[k] \in Rec, NEW st \in Seq(Entry)
  PROVE  [status EXCEPT ![rec[k].n] = st] \in [NodeSet -> Seq(Entry)]
BY RecFacts DEF TypeOK

LEMMA UpdateStatusFacts ==
  ASSUME TypeOK, NEW k \in Kind, rec[k] \in Rec, NEW st \in Seq(Entry),
         NEW woken \in SUBSET NodeSet, UpdateStatusRemoteObjects(k, st, woken)
  PROVE  /\ rec' \in [Kind -> Rec \cup {Idle}]
         /\ rec'[k] = Idle
         /\ \A j \in Kind \ {k} : rec'[j] = rec[j]
         /\ queued' \in SUBSET NodeSet
         /\ status' \in [NodeSet -> Seq(Entry)]
<1>1. {rec[k].n} \cup woken \in SUBSET NodeSet
  BY RecFacts
<1>2. Return(k, {rec[k].n} \cup woken) /\ status' = [status EXCEPT ![rec[k].n] = st]
  BY DEF UpdateStatusRemoteObjects
<1> QED BY <1>1, <1>2, ReturnFacts, StatusFacts

\* The list stays a list of entries when one is added, changed or removed.
LEMMA EntryFacts ==
  ASSUME NEW st \in Seq(Entry), NEW o \in Object
  PROVE  /\ CreateEntry(st, o) \in Seq(Entry)
         /\ UpdateEntry(st, o, "True") \in Seq(Entry)
         /\ UpdateEntry(st, o, "False") \in Seq(Entry)
<1>1. CreateEntry(st, o) \in Seq(Entry)
  <2>1. [obj |-> o, cond |-> "Unknown"] \in Entry
    BY DEF Entry
  <2> QED BY <2>1 DEF CreateEntry
<1>2. ASSUME NEW cond \in {"True", "False"} PROVE UpdateEntry(st, o, cond) \in Seq(Entry)
  <2>1. [obj |-> o, cond |-> cond] \in Entry
    BY DEF Entry
  <2>2. Len(st) \in Nat /\ DOMAIN st = 1..Len(st) /\ \A i \in 1..Len(st) : st[i] \in Entry
    BY LenProperties, ElementOfSeq
  <2>3. UpdateEntry(st, o, cond) \in [1..Len(st) -> Entry]
    BY <2>1, <2>2 DEF UpdateEntry
  <2> QED BY <2>2, <2>3, SeqDef
<1> QED BY <1>1, <1>2

LEMMA RemoveFacts ==
  ASSUME NEW st \in Seq(Entry)
  PROVE  RemoveEntry(st) \in Seq(Entry)
<1>1. Len(st) \in Nat /\ \A i \in 2..Len(st) : st[i] \in Entry
  BY LenProperties, ElementOfSeq
<1> QED BY <1>1, SubSeqProperties DEF RemoveEntry

\* What the candidates are made of.
LEMMA UnusedFacts ==
  ASSUME NEW k \in Kind, rec[k] \in Rec
  PROVE  Unused(k) \in SUBSET Candidate
<1> DEFINE st == rec[k].st
<1>1. st \in Seq(Entry)
  BY RecFacts
<1>2. \A i \in DOMAIN st : i \in Nat /\ st[i] \in Entry
  BY <1>1
<1> QED BY <1>2 DEF Unused, Candidate, Entry

\* A step within the reconcile.
LEMMA GotoFacts ==
  ASSUME TypeOK, NEW k \in Kind, rec[k] \in Rec, Goto(k, "syncRemoteObjects")
                                              \/ Goto(k, "handleResourcesSync")
                                              \/ Goto(k, "removeUnusedRemoteObjects")
  PROVE  /\ rec' \in [Kind -> Rec \cup {Idle}]
         /\ rec'[k] \in Rec
         /\ rec'[k].n = rec[k].n /\ rec'[k].deleting = rec[k].deleting
         /\ \A j \in Kind \ {k} : rec'[j] = rec[j]
<1>1. PICK step \in {"syncRemoteObjects", "handleResourcesSync", "removeUnusedRemoteObjects"} :
        Goto(k, step)
  OBVIOUS
<1> DEFINE r == [rec[k] EXCEPT !.pc = step]
<1>2. rec \in [Kind -> Rec \cup {Idle}]
  BY DEF TypeOK
<1>3. rec' = [rec EXCEPT ![k] = r]
  BY <1>1, <1>2 DEF Goto
<1>4. r \in Rec /\ r.n = rec[k].n /\ r.deleting = rec[k].deleting
  BY <1>1 DEF Rec
<1> HIDE DEF r
<1> QED BY <1>2, <1>3, <1>4, OneWorkerMoves

\* The steps of removeUnusedRemoteObjects.
LEMMA RemovalFacts ==
  ASSUME TypeOK, NEW k \in Kind,
         RemoveUnusedRemoteObjects(k) \/ UnsetAnnotation(k) \/ DeleteUnused(k)
  PROVE  /\ rec[k] \in Rec /\ rec'[k] \in Rec
         /\ rec' \in [Kind -> Rec \cup {Idle}]
         /\ rec'[k].n = rec[k].n /\ rec'[k].deleting = rec[k].deleting
         /\ rec'[k].pc \notin SyncSteps
         /\ \A j \in Kind \ {k} : rec'[j] = rec[j]
<1>1. rec \in [Kind -> Rec \cup {Idle}] /\ local \in [Object -> Copy]
  BY DEF TypeOK
<1>2. rec[k] \in Rec
  BY BusyFacts DEF RemoveUnusedRemoteObjects, UnsetAnnotation, DeleteUnused
<1>3. PICK r : /\ rec' = [rec EXCEPT ![k] = r]
               /\ r \in Rec /\ r.n = rec[k].n /\ r.deleting = rec[k].deleting
               /\ r.pc \notin SyncSteps
  <2>1. CASE RemoveUnusedRemoteObjects(k)
    <3> DEFINE r == [rec[k] EXCEPT !.pc = IF Unused(k) = {} THEN "updateRemoteStatus"
                                                            ELSE "unsetAnnotation",
                                   !.todo = Unused(k), !.others = AnotherNodeSet(k)]
    <3>1. rec' = [rec EXCEPT ![k] = r]
      BY <2>1, <1>1 DEF RemoveUnusedRemoteObjects
    <3>2. Unused(k) \in SUBSET Candidate /\ AnotherNodeSet(k) \in BOOLEAN
      BY <1>2, UnusedFacts DEF AnotherNodeSet
    <3>3. r \in Rec /\ r.n = rec[k].n /\ r.deleting = rec[k].deleting
          /\ r.pc \in {"updateRemoteStatus", "unsetAnnotation"}
      BY <1>2, <3>2 DEF Rec
    <3> QED BY <3>1, <3>3 DEF SyncSteps
  <2>2. CASE UnsetAnnotation(k)
    <3> DEFINE c == FirstOf(rec[k].todo)
               o == c.obj
    <3>1. rec[k].todo # {} /\ rec[k].pc = "unsetAnnotation"
      BY <2>2 DEF UnsetAnnotation, Busy
    <3>2. o \in Object
      BY <1>2, <3>1, RecFacts, FirstFacts
    <3>3. local[o].anns \in SUBSET Kind /\ UnsetPrimaryResource(local[o].anns) \in SUBSET Kind
      BY <1>1, <3>2 DEF Copy, UnsetPrimaryResource
    <3>4. CASE rec' = [rec EXCEPT ![k].todo = @ \ {c}]
      <4> DEFINE r == [rec[k] EXCEPT !.todo = @ \ {c}]
      <4>1. rec' = [rec EXCEPT ![k] = r]
        BY <3>4, <1>1
      <4>2. r \in Rec /\ r.n = rec[k].n /\ r.deleting = rec[k].deleting
            /\ r.pc = "unsetAnnotation"
        BY <1>2, <3>1 DEF Rec
      <4> QED BY <4>1, <4>2 DEF SyncSteps
    <3>5. ASSUME NEW a \in SUBSET Kind,
                 rec' = [rec EXCEPT ![k].pc = "deleteUnused", ![k].anns = a]
          PROVE  \E r : /\ rec' = [rec EXCEPT ![k] = r]
                        /\ r \in Rec /\ r.n = rec[k].n /\ r.deleting = rec[k].deleting
                        /\ r.pc \notin SyncSteps
      <4> DEFINE r == [rec[k] EXCEPT !.pc = "deleteUnused", !.anns = a]
      <4>1. rec' = [rec EXCEPT ![k] = r]
        BY <3>5, <1>1
      <4>2. r \in Rec /\ r.n = rec[k].n /\ r.deleting = rec[k].deleting
            /\ r.pc = "deleteUnused"
        BY <1>2 DEF Rec
      <4> QED BY <4>1, <4>2 DEF SyncSteps
    <3> QED BY <2>2, <3>3, <3>4, <3>5 DEF UnsetAnnotation
  <2>3. CASE DeleteUnused(k)
    <3> DEFINE c == FirstOf(rec[k].todo)
               r == [rec[k] EXCEPT !.pc = "unsetAnnotation",
                                   !.st = RemoveEntry(@), !.todo = @ \ {c}]
    <3>1. rec' = [rec EXCEPT ![k] = r]
      BY <2>3, <1>1 DEF DeleteUnused
    <3>2. RemoveEntry(rec[k].st) \in Seq(Entry)
      BY <1>2, RecFacts, RemoveFacts
    <3>3. r \in Rec /\ r.n = rec[k].n /\ r.deleting = rec[k].deleting
          /\ r.pc = "unsetAnnotation"
      BY <1>2, <3>2 DEF Rec
    <3> QED BY <3>1, <3>3 DEF SyncSteps
  <2> QED BY <2>1, <2>2, <2>3
<1> QED BY <1>1, <1>2, <1>3, OneWorkerMoves

\* The reconcile that a worker starts.
LEMMA ReconcileFacts ==
  ASSUME TypeOK, NEW n \in NodeSet, Reconcile(n), life[n] # "gone"
  PROVE  LET k == KindOf(n)
         IN  /\ rec' \in [Kind -> Rec \cup {Idle}]
             /\ rec'[k] \in Rec /\ rec'[k].n = n
             /\ rec'[k].deleting = (life[n] = "deleting")
             /\ rec'[k].deleting => rec'[k].pc = "removeUnusedRemoteObjects"
             /\ \A j \in Kind \ {k} : rec'[j] = rec[j]
<1> DEFINE k == KindOf(n)
           deleting == life[n] = "deleting"
           r == [pc |-> IF deleting THEN "removeUnusedRemoteObjects"
                                    ELSE "initRemoteObjectsStatus",
                 n |-> n, spec |-> IF deleting THEN {} ELSE spec[n],
                 st |-> status[n], deleting |-> deleting,
                 todo |-> {}, others |-> FALSE, anns |-> {}]
<1>1. rec \in [Kind -> Rec \cup {Idle}] /\ k \in Kind
  BY KindFacts DEF TypeOK
<1>2. rec' = [rec EXCEPT ![k] = r]
  BY DEF Reconcile
<1>3. status[n] \in Seq(Entry) /\ spec[n] \in SUBSET Object
  BY DEF TypeOK
<1>4. r \in Rec
  BY <1>3 DEF Rec
<1>5. r.n = n /\ r.deleting = deleting /\ (deleting => r.pc = "removeUnusedRemoteObjects")
  OBVIOUS
<1> HIDE DEF r
<1> QED BY <1>1, <1>2, <1>4, <1>5, OneWorkerMoves

-----------------------------------------------------------------------------
(***************************************************************************)
(* Types.                                                                  *)
(***************************************************************************)

\* Every initial state has the types.
LEMMA InitType == Init => TypeOK
<1> SUFFICES ASSUME Init PROVE TypeOK
  OBVIOUS
<1>1. remote \in [Object -> 0..MaxVersion] /\ edits \in 0..MaxEdits /\ faults \in 0..MaxFaults
  BY RemoteAssumption DEF Init
<1>2. local \in [Object -> Copy]
  <2>1. NoCopy \in Copy
    BY RemoteAssumption DEF NoCopy, Copy
  <2> QED BY <2>1 DEF Init
<1>3. status \in [NodeSet -> Seq(Entry)]
  BY DEF Init
<1>4. rec \in [Kind -> Rec \cup {Idle}]
  BY DEF Init
<1>5. spec \in [NodeSet -> SUBSET Object] /\ lost \in [NodeSet -> SUBSET Object]
  BY DEF Init, Declarable
<1> QED BY <1>1, <1>2, <1>3, <1>4, <1>5 DEF Init, TypeOK

\* The copies keep their types.
LEMMA CopyTypes ==
  ASSUME TypeOK, NEW k \in Kind
  PROVE  /\ SyncRemoteObjects(k) => local' \in [Object -> Copy]
         /\ UnsetAnnotation(k) => local' \in [Object -> Copy]
         /\ DeleteUnused(k) => local' \in [Object -> Copy]
<1>t. local \in [Object -> Copy] /\ remote \in [Object -> 0..MaxVersion]
  BY DEF TypeOK
<1>1. ASSUME SyncRemoteObjects(k) PROVE local' \in [Object -> Copy]
  <2>1. \/ UNCHANGED local
        \/ \E o : local' = [local EXCEPT ![o] = SyncedCopy(k, o)]
    BY <1>1 DEF SyncRemoteObjects
  <2>2. \A o \in Object : SyncedCopy(k, o) \in Copy
    BY <1>t DEF SyncedCopy, Copy
  <2> QED BY <1>t, <2>1, <2>2
<1>2. ASSUME UnsetAnnotation(k) PROVE local' \in [Object -> Copy]
  <2>1. \/ UNCHANGED local
        \/ \E o : local' = [local EXCEPT ![o].anns = UnsetPrimaryResource(local[o].anns)]
    BY <1>2 DEF UnsetAnnotation
  <2>2. \A o \in Object : [local[o] EXCEPT !.anns = UnsetPrimaryResource(local[o].anns)] \in Copy
    BY <1>t DEF Copy, UnsetPrimaryResource
  <2> QED BY <1>t, <2>1, <2>2
<1>3. ASSUME DeleteUnused(k) PROVE local' \in [Object -> Copy]
  <2>1. UNCHANGED local \/ \E o : local' = [local EXCEPT ![o] = NoCopy]
    BY <1>3 DEF DeleteUnused
  <2>2. NoCopy \in Copy
    BY RemoteAssumption DEF NoCopy, Copy
  <2> QED BY <1>t, <2>1, <2>2
<1> QED BY <1>1, <1>2, <1>3

\* The event of a copy queues NodeSets.
LEMMA WatchersFacts == \A copy : Watchers(copy) \in SUBSET NodeSet
BY DEF Watchers

\* Every step keeps the types.
LEMMA NextType == TypeOK /\ [Next]_vars => TypeOK'
<1> SUFFICES ASSUME TypeOK, [Next]_vars PROVE TypeOK'
  OBVIOUS
<1> DEFINE Spec0 == (SUBSET Object) \cup {None}
<1>t. /\ remote \in [Object -> 0..MaxVersion]
      /\ spec \in [NodeSet -> SUBSET Object]
      /\ life \in [NodeSet -> {"new", "guarded", "deleting", "gone"}]
      /\ status \in [NodeSet -> Seq(Entry)]
      /\ local \in [Object -> Copy]
      /\ nodeSets \in [NodeSet -> Spec0]
      /\ observed \in [NodeSet -> Spec0]
      /\ reported \in [NodeSet -> Spec0]
      /\ queued \in SUBSET NodeSet
      /\ rec \in [Kind -> Rec \cup {Idle}]
      /\ lost \in [NodeSet -> SUBSET Object]
      /\ edits \in 0..MaxEdits
      /\ faults \in 0..MaxFaults
  BY DEF TypeOK
<1>f. faults < MaxFaults /\ faults' = faults + 1 => faults' \in 0..MaxFaults
  BY <1>t, RemoteAssumption
<1>l. \A n, objs : objs \in SUBSET Object =>
        [lost EXCEPT ![n] = @ \cup objs] \in [NodeSet -> SUBSET Object]
  BY <1>t
<1>1. ASSUME NEW k \in Kind, InitRemoteObjectsStatus(k) PROVE TypeOK'
  <2>1. rec[k] \in Rec
    BY <1>1, BusyFacts DEF InitRemoteObjectsStatus
  <2> DEFINE new == rec[k].spec \ Entries(rec[k].st)
             o == Min(new)
  <2>2. new # {} => o \in Object /\ CreateEntry(rec[k].st, o) \in Seq(Entry)
    BY <2>1, RecFacts, MinFacts, EntryFacts
  <2>3. /\ rec' \in [Kind -> Rec \cup {Idle}] /\ queued' \in SUBSET NodeSet
        /\ status' \in [NodeSet -> Seq(Entry)]
        /\ lost' \in [NodeSet -> SUBSET Object]
    <3>1. CASE new # {}
      <4>1. /\ UpdateStatusRemoteObjects(k, CreateEntry(rec[k].st, o), {})
            /\ lost' = [lost EXCEPT ![rec[k].n] = @ \ {o}]
        BY <1>1, <3>1 DEF InitRemoteObjectsStatus
      <4> DEFINE st == CreateEntry(rec[k].st, o)
      <4>2. st \in Seq(Entry) /\ UpdateStatusRemoteObjects(k, st, {})
        BY <2>2, <3>1, <4>1
      <4>3. lost' \in [NodeSet -> SUBSET Object]
        BY <1>t, <4>1
      <4> HIDE DEF st
      <4> QED BY <2>1, <4>2, <4>3, UpdateStatusFacts
    <3>2. CASE new = {}
      <4>1. Goto(k, "syncRemoteObjects") /\ UNCHANGED <<status, queued, lost>>
        BY <1>1, <3>2 DEF InitRemoteObjectsStatus
      <4> QED BY <1>t, <2>1, <4>1, GotoFacts
    <3> QED BY <3>1, <3>2
  <2> QED BY <1>1, <1>t, <2>3 DEF InitRemoteObjectsStatus, mgmt, data, TypeOK
<1>2. ASSUME NEW k \in Kind, SyncRemoteObjects(k) PROVE TypeOK'
  <2>1. rec[k] \in Rec /\ rec[k].n \in NodeSet
    BY <1>2, BusyFacts, RecFacts DEF SyncRemoteObjects
  <2>3. /\ rec' \in [Kind -> Rec \cup {Idle}] /\ queued' \in SUBSET NodeSet
        /\ status' \in [NodeSet -> Seq(Entry)]
    <3>1. CASE Goto(k, "handleResourcesSync") /\ UNCHANGED <<status, queued>>
      BY <1>t, <2>1, <3>1, GotoFacts
    <3>2. CASE Return(k, {rec[k].n}) /\ UNCHANGED status
      BY <1>t, <2>1, <3>2, ReturnFacts
    <3>3. CASE \E o \in Object : \E a, b :
                 UpdateStatusRemoteObjects(k, UpdateEntry(rec[k].st, o, "True"),
                                           IF a THEN {} ELSE Watchers(b))
      <4>1. \A o \in Object : \A a, b : /\ UpdateEntry(rec[k].st, o, "True") \in Seq(Entry)
                                        /\ (IF a THEN {} ELSE Watchers(b)) \in SUBSET NodeSet
        BY <2>1, RecFacts, EntryFacts, WatchersFacts
      <4>2. PICK st \in Seq(Entry), woken \in SUBSET NodeSet :
                   UpdateStatusRemoteObjects(k, st, woken)
        BY <3>3, <4>1
      <4> QED BY <2>1, <4>2, UpdateStatusFacts
    <3>4. CASE \E o \in Object :
                 UpdateStatusRemoteObjects(k, UpdateEntry(rec[k].st, o, "False"), {})
      <4>1. \A o \in Object : UpdateEntry(rec[k].st, o, "False") \in Seq(Entry)
        BY <2>1, RecFacts, EntryFacts
      <4>2. PICK st \in Seq(Entry) : UpdateStatusRemoteObjects(k, st, {})
        BY <3>4, <4>1
      <4> QED BY <2>1, <4>2, UpdateStatusFacts
    <3>5. \/ Goto(k, "handleResourcesSync") /\ UNCHANGED <<status, queued>>
          \/ Return(k, {rec[k].n}) /\ UNCHANGED status
          \/ \E o \in Object : \E a, b :
               UpdateStatusRemoteObjects(k, UpdateEntry(rec[k].st, o, "True"),
                                         IF a THEN {} ELSE Watchers(b))
          \/ \E o \in Object :
               UpdateStatusRemoteObjects(k, UpdateEntry(rec[k].st, o, "False"), {})
      <4> DEFINE stale == {o \in rec[k].spec : ~UpToDate(k, o) \/ ~Synced(rec[k].st, o)}
      <4>1. stale # {} => Min(stale) \in Object
        BY <2>1, RecFacts, MinFacts
      <4>2. SyncRemoteObjects(k)
        BY <1>2
      <4> QED BY <4>1, <4>2, Zenon DEF SyncRemoteObjects
    <3> QED BY <3>1, <3>2, <3>3, <3>4, <3>5
  <2>4. local' \in [Object -> Copy]
    BY <1>2, CopyTypes
  <2>5. faults' \in 0..MaxFaults
    BY <1>2, <1>t, <1>f DEF SyncRemoteObjects
  <2> QED BY <1>2, <1>t, <2>3, <2>4, <2>5 DEF SyncRemoteObjects, mgmt, TypeOK
<1>3. ASSUME NEW k \in Kind, HandleResourcesSync(k) PROVE TypeOK'
  <2>1. rec[k] \in Rec /\ rec[k].n \in NodeSet /\ rec[k].spec \in SUBSET Object
    BY <1>3, BusyFacts, RecFacts DEF HandleResourcesSync
  <2>2. rec' \in [Kind -> Rec \cup {Idle}]
    BY <1>3, <2>1, GotoFacts DEF HandleResourcesSync
  <2>3. nodeSets' \in [NodeSet -> Spec0] /\ queued' \in SUBSET NodeSet
    BY <1>3, <1>t, <2>1 DEF HandleResourcesSync
  <2> QED BY <1>3, <1>t, <2>2, <2>3 DEF HandleResourcesSync, mgmt, TypeOK
<1>4. ASSUME NEW k \in Kind, RemoveUnusedRemoteObjects(k) PROVE TypeOK'
  BY <1>4, <1>t, RemovalFacts DEF RemoveUnusedRemoteObjects, mgmt, data, TypeOK
<1>5. ASSUME NEW k \in Kind, UnsetAnnotation(k) PROVE TypeOK'
  <2>1. rec' \in [Kind -> Rec \cup {Idle}] /\ local' \in [Object -> Copy]
    BY <1>5, RemovalFacts, CopyTypes
  <2>2. queued' \in SUBSET NodeSet /\ faults' \in 0..MaxFaults
    BY <1>5, <1>t, <1>f, WatchersFacts DEF UnsetAnnotation
  <2>3. FirstOf(rec[k].todo).obj \in Object
    BY <1>5, BusyFacts, RecFacts, FirstFacts DEF UnsetAnnotation
  <2>4. lost' \in [NodeSet -> SUBSET Object]
    <3>1. CASE UNCHANGED lost
      BY <1>t, <3>1
    <3>2. CASE \E objs \in SUBSET Object : Loses(rec[k].n, objs)
      BY <1>l, <3>2 DEF Loses
    <3>3. \/ UNCHANGED lost
          \/ Loses(rec[k].n, {FirstOf(rec[k].todo).obj}) \/ Loses(rec[k].n, {})
      BY <1>5 DEF UnsetAnnotation, Loses
    <3> QED BY <2>3, <3>1, <3>2, <3>3
  <2> QED BY <1>5, <1>t, <2>1, <2>2, <2>4 DEF UnsetAnnotation, mgmt, TypeOK
<1>6. ASSUME NEW k \in Kind, DeleteUnused(k) PROVE TypeOK'
  <2>1. rec' \in [Kind -> Rec \cup {Idle}] /\ local' \in [Object -> Copy]
    BY <1>6, RemovalFacts, CopyTypes
  <2>2. queued' \in SUBSET NodeSet /\ faults' \in 0..MaxFaults
    BY <1>6, <1>t, <1>f, WatchersFacts DEF DeleteUnused
  <2>3. FirstOf(rec[k].todo).obj \in Object
    BY <1>6, BusyFacts, RecFacts, FirstFacts DEF DeleteUnused
  <2>4. lost' \in [NodeSet -> SUBSET Object]
    <3>1. UNCHANGED lost \/ Loses(rec[k].n, {FirstOf(rec[k].todo).obj})
      BY <1>6 DEF DeleteUnused
    <3>2. CASE UNCHANGED lost
      BY <1>t, <3>2
    <3>3. CASE \E objs \in SUBSET Object : Loses(rec[k].n, objs)
      BY <1>l, <3>3 DEF Loses
    <3> QED BY <2>3, <3>1, <3>2, <3>3
  <2> QED BY <1>6, <1>t, <2>1, <2>2, <2>4 DEF DeleteUnused, mgmt, TypeOK
<1>7. ASSUME NEW k \in Kind, RemovalWritten(k) PROVE TypeOK'
  <2>1. rec[k] \in Rec /\ rec[k].n \in NodeSet /\ rec[k].st \in Seq(Entry)
    BY <1>7, BusyFacts, RecFacts DEF RemovalWritten
  <2>2. PICK woken \in SUBSET NodeSet : Return(k, woken)
    BY <1>7, <2>1 DEF RemovalWritten
  <2>3. /\ life' \in [NodeSet -> {"new", "guarded", "deleting", "gone"}]
        /\ status' \in [NodeSet -> Seq(Entry)]
    BY <1>7, <1>t, <2>1 DEF RemovalWritten
  <2>4. rec' \in [Kind -> Rec \cup {Idle}] /\ queued' \in SUBSET NodeSet
    BY <2>2, ReturnFacts
  <2>5. lost' \in [NodeSet -> SUBSET Object]
    <3>1. rec[k].spec \in SUBSET Object
      BY <2>1, RecFacts
    <3>2. PICK objs \in SUBSET Object : Loses(rec[k].n, objs)
      BY <1>7, <3>1 DEF RemovalWritten
    <3> QED BY <1>l, <3>2 DEF Loses
  <2> QED BY <1>7, <1>t, <2>3, <2>4, <2>5 DEF RemovalWritten, data, TypeOK
<1>8. ASSUME NEW k \in Kind, UpdateRemoteStatus(k) PROVE TypeOK'
  <2>1. rec[k] \in Rec /\ rec[k].n \in NodeSet
    BY <1>8, BusyFacts, RecFacts DEF UpdateRemoteStatus
  <2>2. /\ life' \in [NodeSet -> {"new", "guarded", "deleting", "gone"}]
        /\ reported' \in [NodeSet -> Spec0]
    BY <1>8, <1>t, <2>1 DEF UpdateRemoteStatus
  <2>3. rec' \in [Kind -> Rec \cup {Idle}] /\ queued' \in SUBSET NodeSet
    BY <1>8, ReturnFacts DEF UpdateRemoteStatus
  <2> QED BY <1>8, <1>t, <2>2, <2>3 DEF UpdateRemoteStatus, data, TypeOK
<1>9. ASSUME NEW k \in Kind, ApiError(k) PROVE TypeOK'
  <2>1. {rec[k].n} \in SUBSET NodeSet
    BY <1>9, <1>t, RecFacts DEF ApiError
  <2>2. rec' \in [Kind -> Rec \cup {Idle}] /\ queued' \in SUBSET NodeSet
    BY <1>9, <2>1, ReturnFacts DEF ApiError
  <2> QED BY <1>9, <1>t, <1>f, <2>2 DEF ApiError, mgmt, data, TypeOK
<1>10. ASSUME NEW o \in Object, WriteRemote(o) PROVE TypeOK'
  <2>1. remote' \in [Object -> 0..MaxVersion]
    <3>1. remote[o] + 1 \in 0..MaxVersion
      BY <1>10, <1>t, RemoteAssumption DEF WriteRemote
    <3> QED BY <1>10, <1>t, <3>1 DEF WriteRemote
  <2> QED BY <1>10, <1>t, <2>1 DEF WriteRemote, data, TypeOK
<1>11. ASSUME NEW n \in NodeSet, Reconcile(n) PROVE TypeOK'
  <2>1. rec' \in [Kind -> Rec \cup {Idle}]
    BY <1>11, <1>t, ReconcileFacts DEF Reconcile
  <2>2. life' \in [NodeSet -> {"new", "guarded", "deleting", "gone"}]
    BY <1>11, <1>t DEF Reconcile, AddFinalizer
  <2>3. /\ nodeSets' \in [NodeSet -> Spec0]
        /\ observed' \in [NodeSet -> Spec0]
    BY <1>11, <1>t DEF Reconcile
  <2>4. queued' \in SUBSET NodeSet
    BY <1>11, <1>t DEF Reconcile
  <2> QED BY <1>11, <1>t, <2>1, <2>2, <2>3, <2>4 DEF Reconcile, TypeOK
<1>12. ASSUME NEW n \in NodeSet, Edit(n) PROVE TypeOK'
  <2>1. edits' \in 0..MaxEdits
    BY <1>12, <1>t, RemoteAssumption DEF Edit
  <2>2. spec' \in [NodeSet -> SUBSET Object] /\ queued' \in SUBSET NodeSet
    BY <1>12, <1>t DEF Edit, Declarable
  <2> QED BY <1>12, <1>t, <2>1, <2>2 DEF Edit, data, TypeOK
<1>13. ASSUME NEW n \in NodeSet, DeleteNodeSet(n) PROVE TypeOK'
  <2>1. life' \in [NodeSet -> {"new", "guarded", "deleting", "gone"}]
    BY <1>13, <1>t DEF DeleteNodeSet
  <2> QED BY <1>13, <1>t, <2>1 DEF DeleteNodeSet, data, TypeOK
<1>14. ASSUME NEW n \in NodeSet, NodeSetStatus(n) PROVE TypeOK'
  <2>1. observed' \in [NodeSet -> Spec0] /\ queued' \in SUBSET NodeSet
    BY <1>14, <1>t DEF NodeSetStatus, StatusWakes
  <2> QED BY <1>14, <1>t, <2>1 DEF NodeSetStatus, mgmt, TypeOK
<1>15. CASE Crash
  <2>1. rec' \in [Kind -> Rec \cup {Idle}] /\ queued' \in SUBSET NodeSet
    BY <1>15 DEF Crash
  <2> QED BY <1>15, <1>t, <1>f, <2>1 DEF Crash, mgmt, data, TypeOK
<1>16. CASE UNCHANGED vars
  BY <1>16, <1>t DEF vars, TypeOK
<1> QED
  BY <1>1, <1>2, <1>3, <1>4, <1>5, <1>6, <1>7, <1>8, <1>9, <1>10, <1>11, <1>12, <1>13,
     <1>14, <1>15, <1>16
  DEF Next, Controller

\* TypeOK holds in every reachable state.
THEOREM TypeCorrect == Spec => []TypeOK
BY InitType, NextType, PTL DEF Spec

-----------------------------------------------------------------------------
(***************************************************************************)
(* The inductive invariant.                                                *)
(***************************************************************************)

\* A step within a reconcile that neither creates nor deletes a NodeSet.
LEMMA WorkerGoesOn ==
  ASSUME IInv, TypeOK', NEW k \in Kind, rec[k] # Idle,
         rec'[k].n = rec[k].n, rec'[k].deleting = rec[k].deleting,
         rec[k].deleting => rec'[k].pc \notin SyncSteps,
         \A j \in Kind \ {k} : rec'[j] = rec[j],
         UNCHANGED <<life, nodeSets>>
  PROVE  IInv'
BY DEF IInv, WorkerInv, FinalizerInv

\* A reconcile ends; under deletion it may take the finalizer away.
LEMMA WorkerEnds ==
  ASSUME IInv, TypeOK', NEW k \in Kind, rec[k] # Idle, rec'[k] = Idle,
         \A j \in Kind \ {k} : rec'[j] = rec[j],
         NEW n \in NodeSet, n = rec[k].n,
         \/ UNCHANGED life
         \/ rec[k].deleting /\ life' = [life EXCEPT ![n] = "gone"],
         UNCHANGED nodeSets
  PROVE  IInv'
<1>i. TypeOK /\ WorkerInv /\ FinalizerInv
  BY DEF IInv
<1>1. \A m \in NodeSet \ {n} : life'[m] = life[m]
  BY <1>i DEF TypeOK
<1>2. WorkerInv'
  <2> SUFFICES ASSUME NEW j \in Kind, rec'[j] # Idle
               PROVE  /\ KindOf(rec'[j].n) = j
                      /\ ~rec'[j].deleting => life'[rec'[j].n] \in {"guarded", "deleting"}
                      /\ rec'[j].deleting => /\ life'[rec'[j].n] = "deleting"
                                             /\ nodeSets'[rec'[j].n] = None
                                             /\ rec'[j].pc \notin SyncSteps
    BY DEF WorkerInv
  <2>1. j # k /\ rec'[j] = rec[j] /\ rec[j] # Idle
    OBVIOUS
  <2>2. rec[j].n \in NodeSet
    BY <1>i, <2>1, RecFacts DEF TypeOK
  <2>3. rec[j].n # n
    BY <1>i, <2>1 DEF WorkerInv
  <2> QED BY <1>i, <1>1, <2>1, <2>2, <2>3 DEF WorkerInv
<1>3. FinalizerInv'
  <2>1. CASE UNCHANGED life
    BY <1>i, <2>1 DEF FinalizerInv
  <2>2. CASE rec[k].deleting
    <3>1. nodeSets[n] = None
      BY <1>i, <2>2 DEF WorkerInv
    <3> QED BY <1>i, <1>1, <3>1 DEF FinalizerInv
  <2> QED BY <2>1, <2>2
<1> QED BY <1>2, <1>3 DEF IInv

\* A worker takes a NodeSet: the finalizer is put on it, or the NodeSet of the
\* data cluster deleted.
LEMMA ReconcileKept ==
  ASSUME IInv, TypeOK', NEW n \in NodeSet, Reconcile(n)
  PROVE  IInv'
<1>i. TypeOK /\ WorkerInv /\ FinalizerInv
  BY DEF IInv
<1>t. /\ life \in [NodeSet -> {"new", "guarded", "deleting", "gone"}]
      /\ DOMAIN nodeSets = NodeSet
  BY <1>i DEF TypeOK
<1>1. CASE life[n] = "gone"
  <2>1. UNCHANGED <<life, nodeSets, rec>>
    BY <1>1 DEF Reconcile
  <2> QED BY <1>i, <2>1 DEF IInv, WorkerInv, FinalizerInv
<1>2. CASE life[n] # "gone"
  <2> DEFINE k == KindOf(n)
  <2>1. /\ life' = [life EXCEPT ![n] = AddFinalizer(@)]
        /\ nodeSets' = [nodeSets EXCEPT ![n] = IF life[n] = "deleting" THEN None ELSE @]
        /\ rec[k] = Idle
    BY <1>2 DEF Reconcile
  <2>2. /\ rec'[k].n = n /\ rec'[k].deleting = (life[n] = "deleting")
        /\ rec'[k].deleting => rec'[k].pc = "removeUnusedRemoteObjects"
        /\ \A j \in Kind \ {k} : rec'[j] = rec[j]
    BY <1>i, <1>2, ReconcileFacts
  <2>3. /\ life'[n] = IF life[n] = "deleting" THEN "deleting" ELSE "guarded"
        /\ life[n] = "deleting" => nodeSets'[n] = None
        /\ \A m \in NodeSet \ {n} : life'[m] = life[m] /\ nodeSets'[m] = nodeSets[m]
    BY <1>t, <1>2, <2>1 DEF AddFinalizer
  <2>4. WorkerInv'
    <3> SUFFICES ASSUME NEW j \in Kind, rec'[j] # Idle
                 PROVE  /\ KindOf(rec'[j].n) = j
                        /\ ~rec'[j].deleting => life'[rec'[j].n] \in {"guarded", "deleting"}
                        /\ rec'[j].deleting => /\ life'[rec'[j].n] = "deleting"
                                               /\ nodeSets'[rec'[j].n] = None
                                               /\ rec'[j].pc \notin SyncSteps
      BY DEF WorkerInv
    <3>1. CASE j = k
      BY <2>2, <2>3, <3>1 DEF SyncSteps
    <3>2. CASE j # k
      <4>1. rec'[j] = rec[j]
        BY <2>2, <3>2
      <4>2. rec[j].n \in NodeSet
        BY <1>i, <4>1, RecFacts DEF TypeOK
      <4>3. rec[j].n # n
        BY <1>i, <3>2, <4>1 DEF WorkerInv
      <4> QED BY <1>i, <2>3, <4>1, <4>2, <4>3 DEF WorkerInv
    <3> QED BY <3>1, <3>2
  <2>5. FinalizerInv'
    BY <1>i, <2>3 DEF FinalizerInv
  <2> QED BY <2>4, <2>5 DEF IInv
<1> QED BY <1>1, <1>2

\* The NodeSet of the data cluster is created or updated, which no reconcile
\* under deletion does.
LEMMA HandleResourcesSyncKept ==
  ASSUME IInv, TypeOK', NEW k \in Kind, HandleResourcesSync(k)
  PROVE  IInv'
<1>i. TypeOK /\ WorkerInv /\ FinalizerInv
  BY DEF IInv
<1>1. rec[k] \in Rec /\ rec[k] # Idle /\ rec[k].pc = "handleResourcesSync"
  BY <1>i, BusyFacts DEF HandleResourcesSync
<1>2. ~rec[k].deleting /\ life[rec[k].n] \in {"guarded", "deleting"} /\ KindOf(rec[k].n) = k
  BY <1>i, <1>1 DEF WorkerInv, SyncSteps
<1>3. /\ rec'[k] \in Rec /\ rec'[k].n = rec[k].n /\ rec'[k].deleting = rec[k].deleting
      /\ \A j \in Kind \ {k} : rec'[j] = rec[j]
  BY <1>i, <1>1, GotoFacts DEF HandleResourcesSync
<1>4. UNCHANGED life /\ \A m \in NodeSet \ {rec[k].n} : nodeSets'[m] = nodeSets[m]
  BY <1>i DEF HandleResourcesSync, mgmt, TypeOK
<1>5. WorkerInv'
  <2> SUFFICES ASSUME NEW j \in Kind, rec'[j] # Idle
               PROVE  /\ KindOf(rec'[j].n) = j
                      /\ ~rec'[j].deleting => life'[rec'[j].n] \in {"guarded", "deleting"}
                      /\ rec'[j].deleting => /\ life'[rec'[j].n] = "deleting"
                                             /\ nodeSets'[rec'[j].n] = None
                                             /\ rec'[j].pc \notin SyncSteps
    BY DEF WorkerInv
  <2>1. CASE j = k
    BY <1>2, <1>3, <1>4, <2>1
  <2>2. CASE j # k
    <3>1. rec'[j] = rec[j]
      BY <1>3, <2>2
    <3>2. rec[j].n \in NodeSet
      BY <1>i, <3>1, RecFacts DEF TypeOK
    <3>3. rec[j].n # rec[k].n
      BY <1>i, <1>2, <2>2, <3>1 DEF WorkerInv
    <3> QED BY <1>i, <1>4, <3>1, <3>2, <3>3 DEF WorkerInv
  <2> QED BY <2>1, <2>2
<1>6. FinalizerInv'
  BY <1>i, <1>2, <1>4 DEF FinalizerInv
<1> QED BY <1>5, <1>6 DEF IInv

\* The user deletes a remote NodeSet: no reconcile holds one without finalizer.
LEMMA DeleteNodeSetKept ==
  ASSUME IInv, TypeOK', NEW n \in NodeSet, DeleteNodeSet(n)
  PROVE  IInv'
<1>i. TypeOK /\ WorkerInv /\ FinalizerInv
  BY DEF IInv
<1>1. /\ UNCHANGED <<rec, nodeSets>>
      /\ life[n] \in {"new", "guarded"}
      /\ life'[n] = IF life[n] = "new" THEN "gone" ELSE "deleting"
      /\ \A m \in NodeSet \ {n} : life'[m] = life[m]
  BY <1>i DEF DeleteNodeSet, data, TypeOK
<1>2. \A k \in Kind : rec[k] # Idle => rec[k].n \in NodeSet
  BY <1>i, RecFacts DEF TypeOK
<1>3. WorkerInv'
  BY <1>i, <1>1, <1>2 DEF WorkerInv
<1>4. FinalizerInv'
  BY <1>i, <1>1 DEF FinalizerInv
<1> QED BY <1>3, <1>4 DEF IInv

\* The invariant holds in every initial state.
LEMMA InitInv == Init => IInv
<1> SUFFICES ASSUME Init PROVE IInv
  OBVIOUS
<1>1. WorkerInv /\ FinalizerInv
  BY DEF Init, WorkerInv, FinalizerInv
<1> QED BY <1>1, InitType DEF IInv

\* Every step keeps the invariant.
LEMMA NextInv == IInv /\ [Next]_vars => IInv'
<1> SUFFICES ASSUME IInv, [Next]_vars PROVE IInv'
  OBVIOUS
<1>i. TypeOK /\ WorkerInv /\ FinalizerInv
  BY DEF IInv
<1>t. TypeOK'
  BY <1>i, NextType
<1>e. ASSUME NEW k \in Kind, rec[k] # Idle, NEW woken \in SUBSET NodeSet, Return(k, woken),
             UNCHANGED <<life, nodeSets>>
      PROVE  IInv'
  <2>1. rec'[k] = Idle /\ \A j \in Kind \ {k} : rec'[j] = rec[j]
    BY <1>e, <1>i, ReturnFacts
  <2>2. rec[k].n \in NodeSet
    BY <1>e, <1>i, RecFacts DEF TypeOK
  <2> QED BY <1>e, <1>t, <2>1, <2>2, WorkerEnds
<1>s. ASSUME NEW k \in Kind, rec[k] # Idle, rec[k].pc \in SyncSteps,
             UNCHANGED <<life, nodeSets>>,
             Goto(k, "syncRemoteObjects") \/ Goto(k, "handleResourcesSync")
      PROVE  IInv'
  <2>1. rec[k] \in Rec /\ ~rec[k].deleting
    BY <1>s, <1>i DEF TypeOK, WorkerInv
  <2>2. /\ rec'[k].n = rec[k].n /\ rec'[k].deleting = rec[k].deleting
        /\ \A j \in Kind \ {k} : rec'[j] = rec[j]
    BY <1>s, <1>i, <2>1, GotoFacts
  <2> QED BY <1>s, <1>t, <2>1, <2>2, WorkerGoesOn
\* A step that the workers do not see.
<1>o. ASSUME UNCHANGED <<rec, life, nodeSets>> PROVE IInv'
  BY <1>o, <1>i, <1>t DEF IInv, WorkerInv, FinalizerInv
<1>1. ASSUME NEW k \in Kind, InitRemoteObjectsStatus(k) PROVE IInv'
  <2>1. rec[k] # Idle /\ rec[k].pc \in SyncSteps /\ UNCHANGED <<life, nodeSets>>
        /\ rec[k].n \in NodeSet
    BY <1>1, <1>i, BusyFacts, RecFacts DEF InitRemoteObjectsStatus, SyncSteps, mgmt, data
  <2>2. CASE Goto(k, "syncRemoteObjects")
    BY <1>s, <2>1, <2>2
  <2>3. CASE \E st : UpdateStatusRemoteObjects(k, st, {})
    <3>1. Return(k, {rec[k].n} \cup {})
      BY <2>3 DEF UpdateStatusRemoteObjects
    <3> QED BY <1>e, <2>1, <3>1
  <2> QED BY <1>1, <2>2, <2>3 DEF InitRemoteObjectsStatus
<1>2. ASSUME NEW k \in Kind, SyncRemoteObjects(k) PROVE IInv'
  <2>1. rec[k] # Idle /\ rec[k].pc \in SyncSteps /\ UNCHANGED <<life, nodeSets>>
        /\ rec[k].n \in NodeSet
    BY <1>2, <1>i, BusyFacts, RecFacts DEF SyncRemoteObjects, SyncSteps, mgmt
  <2>2. CASE Goto(k, "handleResourcesSync")
    BY <1>s, <2>1, <2>2
  <2>3. CASE Return(k, {rec[k].n})
    BY <1>e, <2>1, <2>3
  <2>4. CASE \E st, a, b : UpdateStatusRemoteObjects(k, st, IF a THEN {} ELSE Watchers(b))
    <3>1. PICK woken \in SUBSET NodeSet : Return(k, {rec[k].n} \cup woken)
      BY <2>4, WatchersFacts DEF UpdateStatusRemoteObjects
    <3> QED BY <1>e, <2>1, <3>1
  <2>5. CASE \E st : UpdateStatusRemoteObjects(k, st, {})
    <3>1. Return(k, {rec[k].n} \cup {})
      BY <2>5 DEF UpdateStatusRemoteObjects
    <3> QED BY <1>e, <2>1, <3>1
  <2>6. \/ Goto(k, "handleResourcesSync")
        \/ Return(k, {rec[k].n})
        \/ \E st, a, b : UpdateStatusRemoteObjects(k, st, IF a THEN {} ELSE Watchers(b))
        \/ \E st : UpdateStatusRemoteObjects(k, st, {})
    BY <1>2, Zenon DEF SyncRemoteObjects
  <2> QED BY <2>2, <2>3, <2>4, <2>5, <2>6
<1>3. ASSUME NEW k \in Kind, HandleResourcesSync(k) PROVE IInv'
  BY <1>3, <1>t, HandleResourcesSyncKept
<1>4. ASSUME NEW k \in Kind,
             RemoveUnusedRemoteObjects(k) \/ UnsetAnnotation(k) \/ DeleteUnused(k)
      PROVE  IInv'
  <2>1. UNCHANGED <<life, nodeSets>>
    BY <1>4 DEF RemoveUnusedRemoteObjects, UnsetAnnotation, DeleteUnused, mgmt, data
  <2>2. /\ rec[k] # Idle
        /\ rec'[k].n = rec[k].n /\ rec'[k].deleting = rec[k].deleting
        /\ rec'[k].pc \notin SyncSteps
        /\ \A j \in Kind \ {k} : rec'[j] = rec[j]
    BY <1>4, <1>i, RemovalFacts, RecFacts
  <2> QED BY <1>t, <2>1, <2>2, WorkerGoesOn
<1>5. ASSUME NEW k \in Kind, RemovalWritten(k) \/ UpdateRemoteStatus(k) PROVE IInv'
  <2>1. rec[k] # Idle /\ rec[k].n \in NodeSet
    BY <1>5, <1>i, BusyFacts, RecFacts DEF RemovalWritten, UpdateRemoteStatus
  <2>2. /\ \E woken \in SUBSET NodeSet : Return(k, woken)
        /\ UNCHANGED nodeSets
    BY <1>5, <2>1 DEF RemovalWritten, UpdateRemoteStatus, data
  <2>3. rec'[k] = Idle /\ \A j \in Kind \ {k} : rec'[j] = rec[j]
    BY <1>i, <2>2, ReturnFacts
  <2>4. \/ UNCHANGED life
        \/ rec[k].deleting /\ life' = [life EXCEPT ![rec[k].n] = "gone"]
    <3>1. life \in [NodeSet -> {"new", "guarded", "deleting", "gone"}]
      BY <1>i DEF TypeOK
    <3> QED BY <1>5, <2>1, <3>1 DEF RemovalWritten, UpdateRemoteStatus, Released
  <2> QED BY <1>t, <2>1, <2>2, <2>3, <2>4, WorkerEnds
<1>6. ASSUME NEW k \in Kind, ApiError(k) PROVE IInv'
  <2>1. rec[k] # Idle /\ {rec[k].n} \in SUBSET NodeSet
    BY <1>6, <1>i, RecFacts DEF ApiError, TypeOK
  <2> QED BY <1>6, <2>1, <1>e DEF ApiError, mgmt, data
<1>7. ASSUME NEW o \in Object, WriteRemote(o) PROVE IInv'
  BY <1>7, <1>o DEF WriteRemote, data
<1>8. ASSUME NEW n \in NodeSet, Reconcile(n) PROVE IInv'
  BY <1>8, <1>t, ReconcileKept
<1>9. ASSUME NEW n \in NodeSet, Edit(n) \/ NodeSetStatus(n) PROVE IInv'
  BY <1>9, <1>o DEF Edit, NodeSetStatus, data, mgmt
<1>10. ASSUME NEW n \in NodeSet, DeleteNodeSet(n) PROVE IInv'
  BY <1>10, <1>t, DeleteNodeSetKept
<1>11. CASE Crash
  <2>1. UNCHANGED <<life, nodeSets>> /\ \A k \in Kind : rec'[k] = Idle
    BY <1>11 DEF Crash, mgmt, data
  <2> QED BY <1>i, <1>t, <2>1 DEF IInv, WorkerInv, FinalizerInv
<1>12. CASE UNCHANGED vars
  BY <1>12, <1>o DEF vars
<1> QED
  BY <1>1, <1>2, <1>3, <1>4, <1>5, <1>6, <1>7, <1>8, <1>9, <1>10, <1>11, <1>12
  DEF Next, Controller

\* IInv holds in every reachable state.
THEOREM Invariance == Spec => []IInv
BY InitInv, NextInv, PTL DEF Spec

\* A remote NodeSet that is gone has no NodeSet left in the data cluster: no
\* reconcile that was under way when it was deleted creates the NodeSet again.
THEOREM NoOrphan == Spec => []NoOrphanNodeSet
<1>1. IInv => NoOrphanNodeSet
  BY DEF IInv, FinalizerInv, NoOrphanNodeSet
<1> QED BY <1>1, Invariance, PTL

=============================================================================
