------------------------- MODULE NodeSetOwnerProofs -------------------------
(***************************************************************************)
(* Proofs about NodeSetOwner, for any NodeSets, contents and number of     *)
(* edits and faults.                                                       *)
(*                                                                         *)
(* The owner ends its work on what it read of its NodeSets, one after the  *)
(* other, from a cache that lags, while the other controllers go on.  That *)
(* what it found still holds when it is done rests on three facts.  What   *)
(* the others may do to a NodeSet takes back neither its content nor a     *)
(* generation that was reported provisioned: the generation a remote       *)
(* NodeSet reports, and its own, are bounds of those in the other cluster  *)
(* (MirrorOf).  A copy in the cache that has the content of the NodeSet    *)
(* has its generation too (CopyOf), because the owner updates only from    *)
(* the latest version.  And where the copy has another content, the event  *)
(* to come wakes the owner (WillWake).                                     *)
(*                                                                         *)
(* The types need an invariant as well: that a generation stays in its     *)
(* bound follows from counting the edits (GenerationOK), and for a copy in *)
(* the cache from its having been the NodeSet once (CacheInv).             *)
(***************************************************************************)
EXTENDS NodeSetOwner, TLAPS

\* A NodeSet, with any generation.
AnyObject == [spec : 0..MaxVersion, gen : Nat,
              prov : {"Absent", "True", "False"}, provGen : Nat,
              finalizer : BOOLEAN, deleting : BOOLEAN]

AnyStatus == [state : ClusterState, conds : [CondType -> CondStatus]]

TypeInv ==
  /\ spec \in [NodeSet -> 0..MaxVersion]
  /\ st \in AnyStatus
  /\ sets \in [NodeSet -> AnyObject]
  /\ cached \in [NodeSet -> AnyObject]
  /\ data \in [Remote -> AnyObject]
  /\ whole \in {"none", "starting", "ready"}
  /\ queued \in BOOLEAN
  /\ rec \in [pc : Step, todo : SUBSET NodeSet]
  /\ unseen \subseteq NodeSet
  /\ changes \in 0..MaxChanges

\* An object that is not there has no field set; one that is there reports no
\* generation that it has not had.
Sane(o) ==
  /\ ~Exists(o) => o = None
  /\ Exists(o) => o.gen >= 1
  /\ o.provGen <= o.gen

\* The owner changes a NodeSet once for each edit of its content, and deletes it
\* once; v is the content that the spec lists, k the number of edits.
GenerationOK(o, v, k) ==
  o.gen + (IF o.deleting THEN 0 ELSE 1) + (IF v # o.spec THEN 1 ELSE 0) <= k + 2

\* A copy c in the cache of a NodeSet o.
CopyOf(c, o) ==
  /\ Exists(c) /\ c.spec = o.spec /\ ~o.deleting
       => c.gen = o.gen /\ c.provGen <= o.provGen
  /\ o.deleting => Exists(o) /\ Exists(c)

\* The NodeSet d of another cluster, of a remote NodeSet o.
MirrorOf(d, o) ==
  /\ Sane(d)
  /\ o.provGen <= d.provGen
  /\ d.gen <= o.gen
  /\ Exists(d) => o.finalizer
  /\ Exists(d) /\ d.spec # o.spec => d.gen < o.gen

ObjectInv(n) ==
  /\ Sane(sets[n])
  /\ GenerationOK(sets[n], spec[n], changes)
  /\ CopyOf(cached[n], sets[n])
  /\ n \in Remote => MirrorOf(data[n], sets[n])

ObjectsInv == \A n \in NodeSet : ObjectInv(n)

\* The owner's cache has the NodeSet, if there is one.
Seen(n) == Exists(cached[n]) \/ ~Exists(sets[n])

\* What the loops of the owner have before them.
TodoInv ==
  /\ rec.pc \in {"handleResourcesSync", "waitForNodeSetsToProvisioned"}
       => rec.todo \subseteq Listed
  /\ rec.pc = "deleteLocal" => rec.todo \subseteq Local
  /\ rec.pc = "deleteRemote" => rec.todo \subseteq Remote
  /\ rec.pc \in {"deleteLocal", "deleteRemote"}
       => \A n \in rec.todo : spec[n] = 0 /\ Seen(n)

\* The event of the last change of the NodeSet wakes the owner.
WillWake(n) == Wakes(cached[n], sets[n])

\* A NodeSet has its content ...
Built(n) == sets[n].spec = spec[n] \/ WillWake(n)

\* ... or is dropped.
Gone(n) == sets[n].deleting \/ ~Exists(sets[n])

\* The owner has nothing to do for a NodeSet.
Settled(n) ==
  \/ WillWake(n)
  \/ sets[n].deleting
  \/ sets[n].spec = spec[n] /\ sets[n].provGen = sets[n].gen

\* The NodeSets that the owner is to drop.
Dropped == (NodeSet \ Listed) \ unseen

\* Unless another request waits, what a reconcile has done.
LoopInv ==
  /\ rec.pc = "handleResourcesSync" => \A n \in Listed \ rec.todo : Built(n)
  /\ rec.pc \in {"deleteLocal", "deleteRemote", "waitForNodeSetsToProvisioned"}
       => \A n \in Listed : Built(n)
  /\ rec.pc = "deleteLocal"
       => \A n \in Dropped : IF n \in Local THEN n \in rec.todo \/ Gone(n) ELSE Seen(n)
  /\ rec.pc = "deleteRemote"
       => \A n \in Dropped : n \in rec.todo \/ Gone(n)
  /\ rec.pc = "waitForNodeSetsToProvisioned"
       => /\ \A n \in Dropped : Gone(n)
          /\ \A n \in Listed \ rec.todo : Settled(n)
  /\ rec.pc = "idle"
       => /\ IsStatusConditionTrue(st.conds, "Ready")
          /\ \A n \in NodeSet \ unseen : Settled(n)

WorkInv == ~queued => LoopInv

IInv == TypeInv /\ ObjectsInv /\ TodoInv /\ WorkInv

-----------------------------------------------------------------------------
(***************************************************************************)
(* The operators that change a status or an object.                        *)
(***************************************************************************)

\* The names of conditions and states.
LEMMA Names ==
  /\ "Prepared" \in CondType /\ "Provisioned" \in CondType
  /\ "Ready" \in CondType /\ "Paused" \in CondType
  /\ "Unknown" \in CondStatus /\ "True" \in CondStatus /\ "False" \in CondStatus
  /\ "Ready" \in ClusterState /\ "Paused" \in ClusterState
  /\ "Provisioning" \in ClusterState
  /\ Goal(FALSE) = "Ready"
BY DEF CondType, CondStatus, ClusterState, Goal

\* SetStatusCondition keeps the type of a status and sets its condition.
LEMMA WithCondFacts ==
  ASSUME NEW a \in AnyStatus, NEW type \in CondType, NEW status \in CondStatus
  PROVE  /\ WithCond(a, type, status) \in AnyStatus
         /\ WithCond(a, type, status).conds[type] = status
BY DEF WithCond, SetStatusCondition, AnyStatus

LEMMA WithStateAndCondFacts ==
  ASSUME NEW a \in AnyStatus, NEW state \in ClusterState,
         NEW type \in CondType, NEW status \in CondStatus
  PROVE  /\ WithStateAndCond(a, state, type, status) \in AnyStatus
         /\ WithStateAndCond(a, state, type, status).state = state
BY DEF WithStateAndCond, WithCond, SetStatusCondition, AnyStatus

\* handlePauseResume has nothing to do only if Ready is reported.
LEMMA PauseResumeFacts ==
  ASSUME NEW a \in AnyStatus
  PROVE  /\ PauseResume(a, FALSE) \in AnyStatus
         /\ PauseResume(a, FALSE) = a => IsStatusConditionTrue(a.conds, "Ready")
<1> DEFINE b == PauseResume(a, FALSE)
<1>1. CASE a.state \in {"Provisioning", "Paused"}
  <2>1. \/ b = WithStateAndCond(a, "Ready", "Ready", "True")
        \/ b = WithStateAndCond(a, "Ready", "Paused", "False")
    BY <1>1, Names DEF PauseResume
  <2>2. b \in AnyStatus /\ b.state = "Ready"
    <3>1. /\ WithStateAndCond(a, "Ready", "Ready", "True") \in AnyStatus
          /\ WithStateAndCond(a, "Ready", "Ready", "True").state = "Ready"
      BY Names, WithStateAndCondFacts
    <3>2. /\ WithStateAndCond(a, "Ready", "Paused", "False") \in AnyStatus
          /\ WithStateAndCond(a, "Ready", "Paused", "False").state = "Ready"
      BY Names, WithStateAndCondFacts
    <3> QED BY <2>1, <3>1, <3>2
  <2> HIDE DEF b
  <2>3. b # a
    BY <1>1, <2>2
  <2> QED BY <2>2, <2>3 DEF b
<1>2. CASE a.state \notin {"Provisioning", "Paused"}
  <2>1. b = WithCond(a, "Ready", "True")
    BY <1>2, Names DEF PauseResume
  <2>2. /\ WithCond(a, "Ready", "True") \in AnyStatus
        /\ WithCond(a, "Ready", "True").conds["Ready"] = "True"
    BY Names, WithCondFacts
  <2> HIDE DEF b
  <2>3. b \in AnyStatus /\ b.conds["Ready"] = "True"
    BY <2>1, <2>2
  <2> QED BY <2>3 DEF b, IsStatusConditionTrue
<1> QED BY <1>1, <1>2

LEMMA DegradeFacts ==
  ASSUME NEW a \in AnyStatus
  PROVE  Degrade(a, {"Prepared", "Provisioned"}, FALSE) \in AnyStatus
<1>1. WithCond(a, "Ready", "False") \in AnyStatus
  BY Names, WithCondFacts
<1> QED BY <1>1, Names DEF Degrade

\* A new NodeSet, and what is left of one that is removed.
LEMMA NoneFacts ==
  /\ None \in AnyObject /\ Sane(None) /\ ~Exists(None)
  /\ ~None.deleting /\ None.spec = 0 /\ None.gen = 0 /\ None.provGen = 0
<1>1. 0 \in 0..MaxVersion
  BY OwnerAssumption
<1> QED BY <1>1 DEF None, AnyObject, Sane, Exists

LEMMA NewFacts ==
  ASSUME NEW v \in 0..MaxVersion, v # 0
  PROVE  /\ New(v) \in AnyObject /\ Sane(New(v)) /\ Exists(New(v))
         /\ New(v).spec = v /\ New(v).gen = 1 /\ New(v).provGen = 0
         /\ ~New(v).deleting
<1>1. /\ New(v) \in AnyObject
      /\ New(v).spec = v /\ New(v).gen = 1 /\ New(v).provGen = 0
  BY NoneFacts DEF New, AnyObject
<1>2. New(v).deleting = None.deleting
  BY NoneFacts DEF New, AnyObject
<1> QED BY <1>1, <1>2, NoneFacts DEF Sane, Exists

\* The reports of the NodeSet controller.
LEMMA ReportFacts ==
  ASSUME NEW o \in AnyObject, NEW r \in {Provisioned(o), Unready(o)}
  PROVE  /\ r \in AnyObject
         /\ r.spec = o.spec /\ r.gen = o.gen /\ r.provGen = o.gen
         /\ r.finalizer = o.finalizer /\ r.deleting = o.deleting
BY DEF Provisioned, Unready, AnyObject

\* A deletion.
LEMMA DeletedFacts ==
  ASSUME NEW o \in AnyObject
  PROVE  /\ Deleted(o) \in AnyObject
         /\ ~o.finalizer => Deleted(o) = None
         /\ o.finalizer /\ o.deleting => Deleted(o) = o
         /\ o.finalizer /\ ~o.deleting
              => /\ Deleted(o).spec = o.spec /\ Deleted(o).gen = o.gen + 1
                 /\ Deleted(o).provGen = o.provGen
                 /\ Deleted(o).finalizer = o.finalizer /\ Deleted(o).deleting
<1>1. CASE ~o.finalizer
  BY <1>1, NoneFacts DEF Deleted
<1>2. CASE o.finalizer /\ o.deleting
  BY <1>2 DEF Deleted
<1>3. CASE o.finalizer /\ ~o.deleting
  <2>1. Deleted(o) = [o EXCEPT !.deleting = TRUE, !.gen = @ + 1]
    BY <1>3 DEF Deleted
  <2>2. /\ Deleted(o) \in AnyObject
        /\ Deleted(o).spec = o.spec /\ Deleted(o).gen = o.gen + 1
        /\ Deleted(o).provGen = o.provGen /\ Deleted(o).finalizer = o.finalizer
        /\ Deleted(o).deleting = TRUE
    <3>1. o.gen + 1 \in Nat /\ TRUE \in BOOLEAN
      BY DEF AnyObject
    <3> DEFINE g == o.gen + 1
    <3>2. Deleted(o) = [o EXCEPT !.deleting = TRUE, !.gen = g]
      BY <2>1
    <3>3. g \in Nat
      BY <3>1
    <3> HIDE DEF g
    <3>4. /\ Deleted(o) \in AnyObject
          /\ Deleted(o).spec = o.spec /\ Deleted(o).gen = g
          /\ Deleted(o).provGen = o.provGen /\ Deleted(o).finalizer = o.finalizer
      BY <3>2, <3>3 DEF AnyObject
    <3>5. Deleted(o).deleting = TRUE
      BY <3>2 DEF AnyObject
    <3> QED BY <3>4, <3>5 DEF g
  <2> QED BY <1>3, <2>2
<1> QED BY <1>1, <1>2, <1>3

-----------------------------------------------------------------------------
(***************************************************************************)
(* What happens to one NodeSet.                                            *)
(***************************************************************************)

\* Nothing but what a NodeSet reports changes, and its finalizer: it reports no
\* older generation than before.
StatusOnly(o, r) ==
  /\ r.spec = o.spec /\ r.gen = o.gen /\ r.deleting = o.deleting
  /\ o.provGen <= r.provGen /\ r.provGen <= o.gen
  /\ Exists(o) \/ r = o

LEMMA StatusKept ==
  ASSUME NEW o \in AnyObject, NEW r \in AnyObject, NEW c \in AnyObject,
         NEW v, NEW k, StatusOnly(o, r), Sane(o), GenerationOK(o, v, k), CopyOf(c, o)
  PROVE  Sane(r) /\ GenerationOK(r, v, k) /\ CopyOf(c, r)
BY DEF StatusOnly, Sane, GenerationOK, CopyOf, Exists, AnyObject

\* More edits are allowed for.
LEMMA MoreChanges ==
  ASSUME NEW o \in AnyObject, NEW v, NEW w, NEW k \in Nat, GenerationOK(o, v, k)
  PROVE  /\ \A l \in Nat : k <= l => GenerationOK(o, v, l)
         /\ GenerationOK(o, w, k + 1)
BY DEF GenerationOK, AnyObject

\* The cache gets the NodeSet.
LEMMA CopyMade ==
  ASSUME NEW o \in AnyObject, NEW c, CopyOf(c, o)
  PROVE  CopyOf(o, o)
BY DEF CopyOf, AnyObject

\* The NodeSet is gone, for the API server.
LEMMA Removed ==
  ASSUME NEW v, NEW k \in Nat, NEW c \in AnyObject
  PROVE  Sane(None) /\ GenerationOK(None, v, k) /\ CopyOf(c, None)
BY NoneFacts DEF GenerationOK, CopyOf, Exists

\* The owner creates a NodeSet that neither it nor the API server has.
LEMMA Created ==
  ASSUME NEW v \in 0..MaxVersion, v # 0, NEW k \in Nat, NEW c \in AnyObject, ~Exists(c)
  PROVE  Sane(New(v)) /\ GenerationOK(New(v), v, k) /\ CopyOf(c, New(v))
BY NewFacts DEF GenerationOK, CopyOf

\* The owner updates a NodeSet from the latest version.
LEMMA UpdatedFacts ==
  ASSUME NEW o \in AnyObject, NEW v \in 0..MaxVersion
  PROVE  /\ Updated(o, v) \in AnyObject
         /\ Updated(o, v).spec = v /\ Updated(o, v).gen = o.gen + 1
         /\ Updated(o, v).provGen = o.provGen
         /\ Updated(o, v).finalizer = o.finalizer /\ Updated(o, v).deleting = o.deleting
<1> DEFINE g == o.gen + 1
<1>1. g \in Nat
  BY DEF AnyObject
<1>2. Updated(o, v) = [o EXCEPT !.spec = v, !.gen = g]
  BY DEF Updated
<1> HIDE DEF g
<1>3. /\ Updated(o, v) \in AnyObject
      /\ Updated(o, v).spec = v /\ Updated(o, v).gen = g
      /\ Updated(o, v).provGen = o.provGen
  BY <1>1, <1>2 DEF AnyObject
<1>4. Updated(o, v).finalizer = o.finalizer /\ Updated(o, v).deleting = o.deleting
  BY <1>1, <1>2 DEF AnyObject
<1> QED BY <1>3, <1>4 DEF g

LEMMA UpdateKept ==
  ASSUME NEW o \in AnyObject, NEW v \in 0..MaxVersion, v # 0, v # o.spec, NEW k \in Nat,
         Exists(o), Sane(o), GenerationOK(o, v, k)
  PROVE  /\ Sane(Updated(o, v)) /\ GenerationOK(Updated(o, v), v, k)
         /\ CopyOf(o, Updated(o, v))
<1> DEFINE u == Updated(o, v)
<1>1. /\ u \in AnyObject /\ u.spec = v /\ u.gen = o.gen + 1
      /\ u.provGen = o.provGen /\ u.deleting = o.deleting
  BY UpdatedFacts
<1> HIDE DEF u
<1>2. Sane(u)
  BY <1>1 DEF Sane, Exists, AnyObject
<1>3. GenerationOK(u, v, k)
  BY <1>1 DEF GenerationOK, AnyObject
<1>4. CopyOf(o, u)
  BY <1>1 DEF CopyOf, Exists
<1> QED BY <1>2, <1>3, <1>4 DEF u

\* The owner deletes a NodeSet that it sees.
LEMMA DeleteKept ==
  ASSUME NEW o \in AnyObject, NEW c \in AnyObject, NEW v, NEW k \in Nat,
         Exists(o), Exists(c), Sane(o), GenerationOK(o, v, k), CopyOf(c, o)
  PROVE  Sane(Deleted(o)) /\ GenerationOK(Deleted(o), v, k) /\ CopyOf(c, Deleted(o))
<1>1. CASE ~o.finalizer
  BY <1>1, DeletedFacts, Removed
<1>2. CASE o.finalizer /\ o.deleting
  BY <1>2, DeletedFacts
<1>3. CASE o.finalizer /\ ~o.deleting
  <2> DEFINE r == Deleted(o)
  <2>1. /\ r \in AnyObject /\ r.spec = o.spec /\ r.gen = o.gen + 1
        /\ r.provGen = o.provGen /\ r.deleting
    BY <1>3, DeletedFacts
  <2> HIDE DEF r
  <2>2. Sane(r) /\ GenerationOK(r, v, k) /\ CopyOf(c, r)
    BY <1>3, <2>1 DEF Sane, GenerationOK, CopyOf, Exists, AnyObject
  <2> QED BY <2>2 DEF r
<1> QED BY <1>1, <1>2, <1>3

-----------------------------------------------------------------------------
(***************************************************************************)
(* What happens to a remote NodeSet and the NodeSet of the other cluster.  *)
(***************************************************************************)

\* The NodeSet of the other cluster reports.
LEMMA MirrorReports ==
  ASSUME NEW o \in AnyObject, NEW d \in AnyObject, NEW r \in AnyObject,
         MirrorOf(d, o), StatusOnly(d, r)
  PROVE  MirrorOf(r, o)
BY DEF MirrorOf, StatusOnly, Sane, Exists, AnyObject

\* The remote controller copies what it reports.
LEMMA MirrorCopied ==
  ASSUME NEW o \in AnyObject, NEW d \in AnyObject, NEW r \in AnyObject,
         MirrorOf(d, o), Sane(o), Exists(o), r.spec = o.spec, r.gen = o.gen,
         r.deleting = o.deleting, r.finalizer = o.finalizer, r.provGen = d.provGen
  PROVE  MirrorOf(d, r) /\ StatusOnly(o, r)
BY DEF MirrorOf, StatusOnly, Sane, Exists, AnyObject

\* The remote controller brings its content to the other cluster.
LEMMA MirrorSynced ==
  ASSUME NEW o \in AnyObject, NEW d \in AnyObject, NEW r \in AnyObject, NEW e \in AnyObject,
         MirrorOf(d, o), Sane(o), Exists(o), d.spec # o.spec,
         r.spec = o.spec, r.gen = o.gen, r.provGen = o.provGen, r.deleting = o.deleting,
         r.finalizer, e.spec = o.spec,
         IF Exists(d) THEN e.gen = d.gen + 1 /\ e.provGen = d.provGen
                      ELSE e.gen = 1 /\ e.provGen = 0
  PROVE  MirrorOf(e, r) /\ StatusOnly(o, r)
<1>1. e.gen <= r.gen /\ r.provGen <= e.provGen /\ e.provGen <= e.gen /\ e.gen >= 1
  <2>1. CASE Exists(d)
    BY <2>1 DEF MirrorOf, Sane, Exists, AnyObject
  <2>2. CASE ~Exists(d)
    <3>1. d = None
      BY <2>2 DEF MirrorOf, Sane
    <3> QED BY <2>2, <3>1, NoneFacts DEF MirrorOf, Sane, Exists, AnyObject
  <2> QED BY <2>1, <2>2
<1>2. StatusOnly(o, r)
  BY DEF StatusOnly, Sane, AnyObject
<1> QED BY <1>1, <1>2 DEF MirrorOf, Sane, Exists

\* The owner creates, updates or deletes a remote NodeSet.
LEMMA MirrorOwner ==
  ASSUME NEW o \in AnyObject, NEW d \in AnyObject, MirrorOf(d, o), Sane(o)
  PROVE  /\ \A v \in (0..MaxVersion) \ {0} :
              /\ ~Exists(o) => MirrorOf(d, New(v))
              /\ MirrorOf(d, Updated(o, v))
         /\ MirrorOf(d, Deleted(o))
         /\ MirrorOf(None, None)
<1>0. d.gen \in Nat /\ d.provGen \in Nat /\ o.gen \in Nat /\ o.provGen \in Nat
  BY DEF AnyObject
<1>1. ASSUME d.gen = 0 PROVE d = None
  BY <1>1 DEF MirrorOf, Sane
<1>2. ASSUME NEW v \in (0..MaxVersion) \ {0}, ~Exists(o) PROVE MirrorOf(d, New(v))
  <2>1. o = None
    BY <1>2 DEF Sane
  <2>2. d = None
    BY <1>0, <1>1, <2>1, NoneFacts DEF MirrorOf
  <2>3. New(v).gen = 1 /\ New(v).provGen = 0
    BY NewFacts
  <2> QED BY <2>2, <2>3, NoneFacts DEF MirrorOf
<1>3. ASSUME NEW v \in (0..MaxVersion) \ {0} PROVE MirrorOf(d, Updated(o, v))
  <2>1. /\ Updated(o, v).gen = o.gen + 1 /\ Updated(o, v).provGen = o.provGen
        /\ Updated(o, v).finalizer = o.finalizer
    BY UpdatedFacts
  <2> QED BY <1>0, <2>1 DEF MirrorOf
<1>4. MirrorOf(None, None)
  BY NoneFacts DEF MirrorOf
<1>5. MirrorOf(d, Deleted(o))
  <2>1. CASE ~o.finalizer
    <3>1. d = None
      BY <2>1 DEF MirrorOf, Sane
    <3> QED BY <1>4, <2>1, <3>1, DeletedFacts
  <2>2. CASE o.finalizer /\ o.deleting
    BY <2>2, DeletedFacts
  <2>3. CASE o.finalizer /\ ~o.deleting
    <3>1. /\ Deleted(o).gen = o.gen + 1 /\ Deleted(o).provGen = o.provGen
          /\ Deleted(o).finalizer = o.finalizer
      BY <2>3, DeletedFacts
    <3> QED BY <1>0, <3>1 DEF MirrorOf
  <2> QED BY <2>1, <2>2, <2>3
<1> QED BY <1>2, <1>3, <1>4, <1>5

-----------------------------------------------------------------------------
(***************************************************************************)
(* The steps that are not the owner's.                                     *)
(***************************************************************************)

\* What the others do to NodeSet n, and the cache.
Steady(n) ==
  \/ StatusOnly(sets[n], sets'[n]) /\ cached'[n] = cached[n]
  \/ sets[n].deleting /\ sets'[n] = None /\ cached'[n] = cached[n]
  \/ /\ sets'[n] = sets[n] /\ cached'[n] = sets[n]
     /\ Wakes(cached[n], sets[n]) => queued'

Mirrored(n) == MirrorOf(data[n], sets[n])

\* The fields of the objects of NodeSet n.
LEMMA ObjectFacts ==
  ASSUME TypeInv, NEW n \in NodeSet
  PROVE  /\ sets[n] \in AnyObject /\ cached[n] \in AnyObject
         /\ spec[n] \in 0..MaxVersion
         /\ n \in Remote => data[n] \in AnyObject
         /\ changes \in Nat
BY OwnerAssumption DEF TypeInv

\* A NodeSet that nothing happens to.
LEMMA NothingIsSteady ==
  ASSUME IInv, NEW n \in NodeSet, sets'[n] = sets[n], cached'[n] = cached[n]
  PROVE  Steady(n)
<1>1. sets[n] \in AnyObject /\ Sane(sets[n])
  BY ObjectFacts DEF IInv, ObjectsInv, ObjectInv
<1>2. sets[n].provGen \in Nat /\ sets[n].gen \in Nat
  BY <1>1 DEF AnyObject
<1> QED BY <1>1, <1>2 DEF Steady, StatusOnly, Sane

\* The others keep the invariant of a NodeSet, and what the owner found.
LEMMA SteadyKeeps ==
  ASSUME IInv, TypeInv', NEW n \in NodeSet, Steady(n), spec'[n] = spec[n],
         changes <= changes', n \in Remote => Mirrored(n)'
  PROVE  /\ ObjectInv(n)'
         /\ Gone(n) => Gone(n)'
         /\ Seen(n) => Seen(n)'
         /\ Built(n) /\ ~queued' => Built(n)'
         /\ Settled(n) /\ ~queued' => Settled(n)'
<1> DEFINE o == sets[n]
           r == sets'[n]
           c == cached[n]
           v == spec[n]
<1>i. TypeInv /\ ObjectInv(n)
  BY DEF IInv, ObjectsInv
<1>t. /\ o \in AnyObject /\ c \in AnyObject /\ r \in AnyObject
      /\ changes \in Nat /\ changes' \in Nat
  BY <1>i, ObjectFacts, OwnerAssumption DEF TypeInv
<1>o. Sane(o) /\ GenerationOK(o, v, changes) /\ CopyOf(c, o)
  BY <1>i DEF ObjectInv
<1>g. GenerationOK(o, v, changes')
  BY <1>t, <1>o, MoreChanges
<1>1. CASE StatusOnly(o, r) /\ cached'[n] = c
  <2>1. Sane(r) /\ GenerationOK(r, v, changes') /\ CopyOf(c, r)
    BY <1>t, <1>o, <1>g, <1>1, StatusKept
  <2>2. ObjectInv(n)'
    BY <1>1, <2>1 DEF ObjectInv, Mirrored
  <2>3. r.spec = o.spec /\ r.gen = o.gen /\ r.deleting = o.deleting
    BY <1>1 DEF StatusOnly
  <2>4. o.provGen = o.gen => r.provGen = r.gen
    BY <1>t, <1>1 DEF StatusOnly, AnyObject
  <2> QED BY <1>1, <2>2, <2>3, <2>4
          DEF Gone, Seen, Built, Settled, WillWake, Wakes, Exists
<1>2. CASE o.deleting /\ r = None /\ cached'[n] = c
  <2>1. Sane(r) /\ GenerationOK(r, v, changes') /\ CopyOf(c, r)
    BY <1>t, <1>2, Removed
  <2>2. ObjectInv(n)'
    BY <1>2, <2>1 DEF ObjectInv, Mirrored
  <2>3. Exists(c) /\ ~Exists(r) /\ r.spec = 0
    BY <1>o, <1>2, NoneFacts DEF CopyOf
  <2> QED BY <1>2, <2>2, <2>3
          DEF Gone, Seen, Built, Settled, WillWake, Wakes, Exists
<1>3. CASE r = o /\ cached'[n] = o /\ (Wakes(c, o) => queued')
  <2>1. CopyOf(o, o)
    BY <1>t, <1>o, CopyMade
  <2>2. ObjectInv(n)'
    BY <1>o, <1>g, <1>3, <2>1 DEF ObjectInv, Mirrored
  <2> QED BY <1>3, <2>2
          DEF Gone, Seen, Built, Settled, WillWake, Exists
<1> QED BY <1>1, <1>2, <1>3 DEF Steady

\* And of the whole.
LEMMA OthersKeep ==
  ASSUME IInv, TypeInv', \A n \in NodeSet : Steady(n), \A n \in Remote : Mirrored(n)',
         UNCHANGED <<spec, st, rec, unseen>>, changes <= changes', queued => queued'
  PROVE  IInv'
<1>i. TypeInv /\ TodoInv /\ WorkInv
  BY DEF IInv
<1>1. \A n \in NodeSet :
        /\ ObjectInv(n)'
        /\ Gone(n) => Gone(n)'
        /\ Seen(n) => Seen(n)'
        /\ Built(n) /\ ~queued' => Built(n)'
        /\ Settled(n) /\ ~queued' => Settled(n)'
  <2> SUFFICES ASSUME NEW n \in NodeSet
               PROVE  /\ ObjectInv(n)'
                      /\ Gone(n) => Gone(n)'
                      /\ Seen(n) => Seen(n)'
                      /\ Built(n) /\ ~queued' => Built(n)'
                      /\ Settled(n) /\ ~queued' => Settled(n)'
    OBVIOUS
  <2>1. Steady(n) /\ (n \in Remote => Mirrored(n)') /\ spec'[n] = spec[n]
    OBVIOUS
  <2> QED BY <2>1, SteadyKeeps
<1>2. ObjectsInv'
  BY <1>1 DEF ObjectsInv
<1>3. Listed' = Listed /\ Dropped' = Dropped /\ Listed \subseteq NodeSet
      /\ Dropped \subseteq NodeSet /\ rec.todo \subseteq NodeSet
  BY <1>i DEF Listed, Dropped, TypeInv
<1>4. TodoInv'
  BY <1>i, <1>1, <1>3 DEF TodoInv
<1>5. WorkInv'
  <2> SUFFICES ASSUME ~queued' PROVE LoopInv'
    BY DEF WorkInv
  <2>1. LoopInv
    BY <1>i DEF WorkInv
  <2>2. \A n \in NodeSet : /\ Gone(n) => Gone(n)'
                           /\ Seen(n) => Seen(n)'
                           /\ Built(n) => Built(n)'
                           /\ Settled(n) => Settled(n)'
    BY <1>1
  <2> QED BY <1>3, <2>1, <2>2 DEF LoopInv
<1> QED BY <1>2, <1>4, <1>5 DEF IInv

\* A step that changes the objects of one NodeSet.
LEMMA OneNodeSet ==
  ASSUME IInv, TypeInv', NEW n \in NodeSet, Steady(n), n \in Remote => Mirrored(n)',
         \A m \in NodeSet \ {n} : /\ sets'[m] = sets[m] /\ cached'[m] = cached[m]
                                  /\ m \in Remote => data'[m] = data[m],
         UNCHANGED <<spec, st, rec, unseen>>, changes <= changes', queued => queued'
  PROVE  IInv'
<1>1. \A m \in NodeSet : Steady(m)
  <2> SUFFICES ASSUME NEW m \in NodeSet, m # n PROVE Steady(m)
    OBVIOUS
  <2> QED BY NothingIsSteady
<1>2. \A m \in Remote : Mirrored(m)'
  <2> SUFFICES ASSUME NEW m \in Remote, m # n PROVE Mirrored(m)'
    OBVIOUS
  <2>1. m \in NodeSet \ {n}
    BY DEF NodeSet
  <2>2. MirrorOf(data[m], sets[m])
    BY <2>1 DEF IInv, ObjectsInv, ObjectInv
  <2> QED BY <2>1, <2>2 DEF Mirrored
<1> QED BY <1>1, <1>2, OthersKeep

\* A step that changes no NodeSet, and nothing that the owner works on.
LEMMA NoNodeSet ==
  ASSUME IInv, TypeInv', UNCHANGED <<sets, cached, data, spec, st, rec, unseen>>,
         changes <= changes', queued => queued'
  PROVE  IInv'
<1>1. \A m \in NodeSet : Steady(m)
  BY NothingIsSteady
<1>2. \A m \in Remote : Mirrored(m)'
  BY DEF IInv, ObjectsInv, ObjectInv, NodeSet, Mirrored
<1> QED BY <1>1, <1>2, OthersKeep

\* The number of changes.
LEMMA ChangeFacts ==
  ASSUME TypeInv, Change \/ UNCHANGED changes
  PROVE  changes' \in 0..MaxChanges /\ changes \in Nat /\ changes <= changes'
<1>1. changes \in 0..MaxChanges
  BY DEF TypeInv
<1> QED BY <1>1, OwnerAssumption DEF Change

LEMMA CacheSyncKeeps ==
  ASSUME IInv, NEW n \in NodeSet, CacheSync(n)
  PROVE  IInv'
<1>t. TypeInv
  BY DEF IInv
<1>1. /\ cached' = [cached EXCEPT ![n] = sets[n]]
      /\ queued' = (queued \/ Wakes(cached[n], sets[n]))
      /\ UNCHANGED <<spec, st, sets, data, whole, rec, unseen, changes>>
  BY DEF CacheSync
<1>2. queued' \in BOOLEAN /\ (queued => queued') /\ (Wakes(cached[n], sets[n]) => queued')
  BY <1>t, <1>1 DEF TypeInv, Wakes, Exists
<1>3. /\ cached' \in [NodeSet -> AnyObject] /\ cached'[n] = sets[n]
      /\ \A m \in NodeSet \ {n} : cached'[m] = cached[m]
  BY <1>t, <1>1 DEF TypeInv
<1>4. TypeInv'
  BY <1>t, <1>1, <1>2, <1>3 DEF TypeInv
<1>5. Steady(n)
  BY <1>1, <1>2, <1>3 DEF Steady
<1>6. n \in Remote => Mirrored(n)'
  BY <1>1 DEF IInv, ObjectsInv, ObjectInv, Mirrored
<1> QED BY <1>1, <1>2, <1>3, <1>4, <1>5, <1>6, ChangeFacts, <1>t, OneNodeSet

\* The NodeSet controller of the owner's cluster, or of another one, reports.
LEMMA ReportKeeps ==
  ASSUME IInv, NEW n \in NodeSet, Change \/ UNCHANGED changes,
         UNCHANGED <<spec, st, cached, whole, queued, rec, unseen>>,
         \/ /\ n \in Local /\ Exists(sets[n]) /\ UNCHANGED data
            /\ \E r \in {Provisioned(sets[n]), Unready(sets[n])} : sets' = [sets EXCEPT ![n] = r]
         \/ /\ n \in Remote /\ Exists(data[n]) /\ UNCHANGED sets
            /\ \E r \in {Provisioned(data[n]), Unready(data[n])} : data' = [data EXCEPT ![n] = r]
  PROVE  IInv'
<1>t. TypeInv
  BY DEF IInv
<1>o. /\ sets[n] \in AnyObject /\ Sane(sets[n])
      /\ n \in Remote => data[n] \in AnyObject /\ MirrorOf(data[n], sets[n])
  BY <1>t, ObjectFacts DEF IInv, ObjectsInv, ObjectInv
<1>c. changes' \in 0..MaxChanges /\ changes <= changes'
  BY <1>t, ChangeFacts
<1>1. CASE /\ n \in Local /\ Exists(sets[n]) /\ UNCHANGED data
           /\ \E r \in {Provisioned(sets[n]), Unready(sets[n])} : sets' = [sets EXCEPT ![n] = r]
  <2>1. PICK r \in {Provisioned(sets[n]), Unready(sets[n])} : sets' = [sets EXCEPT ![n] = r]
    BY <1>1
  <2>2. /\ r \in AnyObject
        /\ r.spec = sets[n].spec /\ r.gen = sets[n].gen /\ r.provGen = sets[n].gen
        /\ r.deleting = sets[n].deleting
    BY <1>o, ReportFacts
  <2>3. /\ sets' \in [NodeSet -> AnyObject] /\ sets'[n] = r
        /\ \A m \in NodeSet \ {n} : sets'[m] = sets[m]
    BY <1>t, <2>1, <2>2 DEF TypeInv
  <2>4. TypeInv'
    BY <1>t, <1>c, <1>1, <2>3 DEF TypeInv
  <2>5. Steady(n)
    BY <1>o, <1>1, <2>2, <2>3 DEF Steady, StatusOnly, Sane, AnyObject
  <2>6. n \notin Remote
    BY <1>1, OwnerAssumption
  <2> QED BY <1>c, <1>1, <2>3, <2>4, <2>5, <2>6, OneNodeSet
<1>2. CASE /\ n \in Remote /\ Exists(data[n]) /\ UNCHANGED sets
           /\ \E r \in {Provisioned(data[n]), Unready(data[n])} : data' = [data EXCEPT ![n] = r]
  <2>1. PICK r \in {Provisioned(data[n]), Unready(data[n])} : data' = [data EXCEPT ![n] = r]
    BY <1>2
  <2>2. /\ r \in AnyObject
        /\ r.spec = data[n].spec /\ r.gen = data[n].gen /\ r.provGen = data[n].gen
        /\ r.deleting = data[n].deleting
    BY <1>o, <1>2, ReportFacts
  <2>3. /\ data' \in [Remote -> AnyObject] /\ data'[n] = r
        /\ \A m \in Remote \ {n} : data'[m] = data[m]
    BY <1>t, <1>2, <2>1, <2>2 DEF TypeInv
  <2>4. TypeInv'
    BY <1>t, <1>c, <1>2, <2>3 DEF TypeInv
  <2>5. Steady(n)
    BY <1>2, NothingIsSteady
  <2>6. StatusOnly(data[n], r)
    BY <1>o, <1>2, <2>2 DEF StatusOnly, MirrorOf, Sane, AnyObject
  <2>7. Mirrored(n)'
    BY <1>o, <1>2, <2>2, <2>3, <2>6, MirrorReports DEF Mirrored
  <2> QED BY <1>c, <1>2, <2>3, <2>4, <2>5, <2>7, OneNodeSet
<1> QED BY <1>1, <1>2

\* An object that reports anything is there.
LEMMA ReportsExist ==
  ASSUME NEW o \in AnyObject, Sane(o), o.prov = "True" \/ o.provGen # o.gen
  PROVE  Exists(o)
BY NoneFacts DEF Sane, None

LEMMA ReportActions ==
  ASSUME IInv, NEW n \in NodeSet, ReportProvisioned(n) \/ ReportUnready(n) \/ LosePod(n)
  PROVE  IInv'
<1>o. /\ sets[n] \in AnyObject /\ Sane(sets[n])
      /\ n \in Remote => data[n] \in AnyObject /\ Sane(data[n])
  BY ObjectFacts DEF IInv, ObjectsInv, ObjectInv, MirrorOf
<1>1. /\ Change \/ UNCHANGED changes
      /\ UNCHANGED <<spec, st, cached, whole, queued, rec, unseen>>
  BY DEF ReportProvisioned, ReportUnready, LosePod
<1>2. \/ /\ n \in Local /\ Exists(sets[n]) /\ UNCHANGED data
         /\ \E r \in {Provisioned(sets[n]), Unready(sets[n])} : sets' = [sets EXCEPT ![n] = r]
      \/ /\ n \in Remote /\ Exists(data[n]) /\ UNCHANGED sets
         /\ \E r \in {Provisioned(data[n]), Unready(data[n])} : data' = [data EXCEPT ![n] = r]
  <2>1. CASE ReportProvisioned(n)
    BY <2>1 DEF ReportProvisioned, Report
  <2>2. CASE ReportUnready(n)
    BY <1>o, <2>2, ReportsExist DEF ReportUnready
  <2>3. CASE LosePod(n)
    BY <1>o, <2>3, ReportsExist DEF LosePod
  <2> QED BY <2>1, <2>2, <2>3
<1> QED BY <1>1, <1>2, ReportKeeps

LEMMA RemoteSyncKeeps ==
  ASSUME IInv, NEW n \in NodeSet, RemoteSync(n)
  PROVE  IInv'
<1> DEFINE o == sets[n]
           d == data[n]
           r == [o EXCEPT !.finalizer = TRUE]
           e == IF Exists(d) THEN Updated(d, o.spec) ELSE New(o.spec)
<1>t. TypeInv
  BY DEF IInv
<1>1. /\ n \in Remote /\ Exists(o) /\ d.spec # o.spec
      /\ sets' = [sets EXCEPT ![n] = r]
      /\ data' = [data EXCEPT ![n] = e]
      /\ UNCHANGED <<spec, st, cached, whole, queued, rec, unseen, changes>>
  <2>1. sets' = [sets EXCEPT ![n].finalizer = TRUE]
    BY DEF RemoteSync
  <2>2. sets' = [sets EXCEPT ![n] = r]
    BY <1>t, <2>1 DEF TypeInv
  <2>3. data' = [data EXCEPT ![n] = e]
    BY DEF RemoteSync
  <2> QED BY <2>2, <2>3 DEF RemoteSync
<1>o. /\ o \in AnyObject /\ Sane(o)
      /\ d \in AnyObject /\ MirrorOf(d, o)
  BY <1>t, <1>1, ObjectFacts DEF IInv, ObjectsInv, ObjectInv
<1>2. /\ r \in AnyObject /\ r.spec = o.spec /\ r.gen = o.gen /\ r.provGen = o.provGen
      /\ r.deleting = o.deleting /\ r.finalizer = TRUE
  BY <1>o DEF AnyObject
<1>3. /\ e \in AnyObject /\ e.spec = o.spec
      /\ IF Exists(d) THEN e.gen = d.gen + 1 /\ e.provGen = d.provGen
                      ELSE e.gen = 1 /\ e.provGen = 0
  <2>1. o.spec \in 0..MaxVersion /\ o.spec # 0
    BY <1>o, <1>1 DEF AnyObject, Exists
  <2>2. CASE Exists(d)
    BY <1>o, <2>1, <2>2, UpdatedFacts
  <2>3. CASE ~Exists(d)
    BY <2>1, <2>3, NewFacts
  <2> QED BY <2>2, <2>3
<1> HIDE DEF r, e
<1>4. MirrorOf(e, r) /\ StatusOnly(o, r)
  BY <1>o, <1>1, <1>2, <1>3, MirrorSynced
<1>5. /\ sets' \in [NodeSet -> AnyObject] /\ sets'[n] = r
      /\ \A m \in NodeSet \ {n} : sets'[m] = sets[m]
  BY <1>t, <1>1, <1>2 DEF TypeInv
<1>6. /\ data' \in [Remote -> AnyObject] /\ data'[n] = e
      /\ \A m \in Remote \ {n} : data'[m] = data[m]
  BY <1>t, <1>1, <1>3 DEF TypeInv
<1>7. TypeInv'
  BY <1>t, <1>1, <1>5, <1>6 DEF TypeInv
<1>8. Steady(n) /\ Mirrored(n)'
  BY <1>1, <1>4, <1>5, <1>6 DEF Steady, Mirrored
<1>9. changes <= changes'
  BY <1>t, <1>1, ChangeFacts
<1> QED BY <1>1, <1>5, <1>6, <1>7, <1>8, <1>9, OneNodeSet

LEMMA RemoteStatusKeeps ==
  ASSUME IInv, NEW n \in NodeSet, RemoteStatus(n)
  PROVE  IInv'
<1> DEFINE o == sets[n]
           d == data[n]
           r == [o EXCEPT !.prov = d.prov, !.provGen = d.provGen]
<1>t. TypeInv
  BY DEF IInv
<1>1. /\ n \in Remote /\ Exists(o)
      /\ sets' = [sets EXCEPT ![n] = r]
      /\ UNCHANGED <<spec, st, cached, data, whole, queued, rec, unseen, changes>>
  <2>1. sets' = [sets EXCEPT ![n].prov = data[n].prov, ![n].provGen = data[n].provGen]
    BY DEF RemoteStatus
  <2>2. sets' = [sets EXCEPT ![n] = r]
    BY <1>t, <2>1 DEF TypeInv
  <2> QED BY <2>2 DEF RemoteStatus
<1>o. /\ o \in AnyObject /\ Sane(o)
      /\ d \in AnyObject /\ MirrorOf(d, o)
  BY <1>t, <1>1, ObjectFacts DEF IInv, ObjectsInv, ObjectInv
<1>2. /\ r \in AnyObject /\ r.spec = o.spec /\ r.gen = o.gen /\ r.provGen = d.provGen
      /\ r.deleting = o.deleting /\ r.finalizer = o.finalizer
  BY <1>o DEF AnyObject
<1> HIDE DEF r
<1>3. MirrorOf(d, r) /\ StatusOnly(o, r)
  BY <1>o, <1>1, <1>2, MirrorCopied
<1>4. /\ sets' \in [NodeSet -> AnyObject] /\ sets'[n] = r
      /\ \A m \in NodeSet \ {n} : sets'[m] = sets[m]
  BY <1>t, <1>1, <1>2 DEF TypeInv
<1>5. TypeInv'
  BY <1>t, <1>1, <1>4 DEF TypeInv
<1>6. Steady(n) /\ Mirrored(n)'
  BY <1>1, <1>3, <1>4 DEF Steady, Mirrored
<1>7. changes <= changes'
  BY <1>t, <1>1, ChangeFacts
<1> QED BY <1>1, <1>4, <1>5, <1>6, <1>7, OneNodeSet

LEMMA RemoteDeleteKeeps ==
  ASSUME IInv, NEW n \in NodeSet, RemoteDelete(n)
  PROVE  IInv'
<1>t. TypeInv
  BY DEF IInv
<1>1. /\ n \in Remote /\ sets[n].deleting
      /\ sets' = [sets EXCEPT ![n] = None]
      /\ data' = [data EXCEPT ![n] = None]
      /\ UNCHANGED <<spec, st, cached, whole, queued, rec, unseen, changes>>
  BY DEF RemoteDelete
<1>2. /\ sets' \in [NodeSet -> AnyObject] /\ sets'[n] = None
      /\ \A m \in NodeSet \ {n} : sets'[m] = sets[m]
  BY <1>t, <1>1, NoneFacts DEF TypeInv
<1>3. /\ data' \in [Remote -> AnyObject] /\ data'[n] = None
      /\ \A m \in Remote \ {n} : data'[m] = data[m]
  BY <1>t, <1>1, NoneFacts DEF TypeInv
<1>4. TypeInv'
  BY <1>t, <1>1, <1>2, <1>3 DEF TypeInv
<1>5. Steady(n)
  BY <1>1, <1>2 DEF Steady
<1>6. Mirrored(n)'
  BY <1>2, <1>3, NoneFacts DEF Mirrored, MirrorOf
<1>7. changes <= changes'
  BY <1>t, <1>1, ChangeFacts
<1> QED BY <1>1, <1>2, <1>3, <1>4, <1>5, <1>6, <1>7, OneNodeSet

-----------------------------------------------------------------------------
(***************************************************************************)
(* The steps of the owner.                                                 *)
(***************************************************************************)
Rec == [pc : Step, todo : SUBSET NodeSet]

LEMMA RecFacts ==
  ASSUME rec \in Rec
  PROVE  /\ Idle \in Rec /\ Idle.pc = "idle" /\ Idle.todo = {}
         /\ \A n : Done(n) => /\ rec' \in Rec /\ rec'.pc = rec.pc
                              /\ rec'.todo = rec.todo \ {n}
         /\ \A step \in Step, todo \in SUBSET NodeSet :
              Goto(step, todo) => rec' \in Rec /\ rec'.pc = step /\ rec'.todo = todo
BY DEF Rec, Idle, Step, Done, Goto

\* The end of a reconcile.
LEMMA ReturnFacts ==
  ASSUME rec \in Rec, queued \in BOOLEAN, NEW requeue \in BOOLEAN, Return(requeue)
  PROVE  /\ rec' \in Rec /\ rec'.pc = "idle"
         /\ queued' \in BOOLEAN /\ queued' = (queued \/ requeue)
<1>1. queued' = (queued \/ requeue) /\ rec' = Idle
  BY DEF Return
<1>2. queued' \in BOOLEAN
  BY <1>1
<1> QED BY <1>1, <1>2, RecFacts

LEMMA UpdateStatusFacts ==
  ASSUME rec \in Rec, queued \in BOOLEAN, NEW new \in AnyStatus, UpdateStatus(new)
  PROVE  /\ rec' \in Rec /\ rec'.pc = "idle" /\ queued' = TRUE /\ st' \in AnyStatus
<1>1. Return(TRUE) /\ st' = Degrade(new, {"Prepared", "Provisioned"}, FALSE)
  BY DEF UpdateStatus
<1>2. rec' \in Rec /\ rec'.pc = "idle" /\ queued' = (queued \/ TRUE)
  BY <1>1, ReturnFacts
<1> QED BY <1>1, <1>2, DegradeFacts

\* The objects of a NodeSet that a step leaves alone.
Untouched(n) ==
  /\ sets'[n] = sets[n] /\ cached'[n] = cached[n] /\ spec'[n] = spec[n]
  /\ n \in Remote => data'[n] = data[n]

LEMMA UntouchedKept ==
  ASSUME TypeInv, NEW n \in NodeSet, ObjectInv(n), Untouched(n), changes <= changes',
         changes' \in Nat
  PROVE  /\ ObjectInv(n)'
         /\ Gone(n)' = Gone(n) /\ Seen(n)' = Seen(n)
         /\ Built(n)' = Built(n) /\ Settled(n)' = Settled(n)
<1>t. sets[n] \in AnyObject /\ changes \in Nat
  BY ObjectFacts
<1>1. GenerationOK(sets[n], spec[n], changes')
  BY <1>t, MoreChanges DEF ObjectInv
<1>2. ObjectInv(n)'
  BY <1>1 DEF ObjectInv, Untouched
<1>3. /\ Gone(n)' = Gone(n) /\ Seen(n)' = Seen(n)
  BY DEF Untouched, Gone, Seen, Exists
<1>4. Built(n)' = Built(n) /\ Settled(n)' = Settled(n)
  BY DEF Untouched, Built, Settled, WillWake, Wakes
<1> QED BY <1>2, <1>3, <1>4

\* A reconcile ends, and another one follows.
LEMMA EndsQueued ==
  ASSUME IInv, TypeInv', \A n \in NodeSet : Untouched(n), changes <= changes',
         rec'.pc = "idle", queued' = TRUE
  PROVE  IInv'
<1>1. ObjectsInv'
  <2> SUFFICES ASSUME NEW n \in NodeSet PROVE ObjectInv(n)'
    BY DEF ObjectsInv
  <2>1. TypeInv /\ ObjectInv(n) /\ Untouched(n)
    BY DEF IInv, ObjectsInv
  <2>2. changes' \in Nat
    BY OwnerAssumption DEF TypeInv
  <2> QED BY <2>1, <2>2, UntouchedKept
<1>2. TodoInv' /\ WorkInv'
  BY DEF TodoInv, WorkInv
<1> QED BY <1>1, <1>2 DEF IInv

\* A step of a loop is done with NodeSet n.
LEMMA LoopStep ==
  ASSUME IInv, TypeInv', NEW n \in rec.todo, Done(n), ObjectInv(n)',
         \A m \in NodeSet \ {n} : Untouched(m),
         UNCHANGED <<spec, st, queued, unseen, changes>>,
         \/ rec.pc = "handleResourcesSync" /\ (~queued => Built(n)')
         \/ rec.pc \in {"deleteLocal", "deleteRemote"} /\ Gone(n)'
         \/ /\ rec.pc = "waitForNodeSetsToProvisioned"
            /\ Untouched(n) /\ (~queued => Settled(n))
  PROVE  IInv'
<1>i. TypeInv /\ ObjectsInv /\ TodoInv /\ WorkInv
  BY DEF IInv
<1>r. /\ rec'.pc = rec.pc /\ rec'.todo = rec.todo \ {n}
      /\ n \in NodeSet /\ rec.todo \subseteq NodeSet
  BY <1>i, RecFacts DEF TypeInv, Rec
<1>1. \A m \in NodeSet \ {n} : /\ ObjectInv(m)'
                               /\ Gone(m)' = Gone(m) /\ Seen(m)' = Seen(m)
                               /\ Built(m)' = Built(m) /\ Settled(m)' = Settled(m)
  <2> TAKE m \in NodeSet \ {n}
  <2>1. ObjectInv(m) /\ Untouched(m)
    BY <1>i DEF ObjectsInv
  <2>2. changes' \in Nat /\ changes <= changes'
    BY <1>i, ChangeFacts
  <2> QED BY <1>i, <2>1, <2>2, UntouchedKept
<1>2. ObjectsInv'
  BY <1>1 DEF ObjectsInv
<1>3. /\ Listed' = Listed /\ Dropped' = Dropped
      /\ Listed \subseteq NodeSet /\ Dropped \subseteq NodeSet
  BY DEF Listed, Dropped
<1>4. TodoInv'
  BY <1>i, <1>r, <1>1, <1>3 DEF TodoInv
<1>5. WorkInv'
  <2> SUFFICES ASSUME ~queued PROVE LoopInv'
    BY DEF WorkInv
  <2>1. LoopInv
    BY <1>i DEF WorkInv
  <2>2. CASE rec.pc = "handleResourcesSync" /\ Built(n)'
    BY <1>r, <1>1, <1>3, <2>1, <2>2 DEF LoopInv
  <2>3. CASE rec.pc \in {"deleteLocal", "deleteRemote"} /\ Gone(n)'
    <3>1. n \notin Listed
      BY <1>i, <2>3 DEF TodoInv, Listed
    <3>2. rec.pc = "deleteLocal" => n \in Local
      BY <1>i DEF TodoInv
    <3> QED BY <1>r, <1>1, <1>3, <2>1, <2>3, <3>1, <3>2 DEF LoopInv
  <2>4. CASE rec.pc = "waitForNodeSetsToProvisioned" /\ Untouched(n) /\ Settled(n)
    <3>1. changes' \in Nat /\ changes <= changes'
      BY <1>i, ChangeFacts
    <3>2. /\ Gone(n)' = Gone(n) /\ Built(n)' = Built(n) /\ Settled(n)' = Settled(n)
      BY <1>i, <1>r, <2>4, <3>1, UntouchedKept DEF ObjectsInv
    <3> QED BY <1>r, <1>1, <1>3, <2>1, <2>4, <3>2 DEF LoopInv
  <2> QED BY <2>2, <2>3, <2>4
<1> QED BY <1>2, <1>4, <1>5 DEF IInv

\* A step of a loop leaves all objects alone.
LEMMA LoopLooks ==
  ASSUME IInv, NEW n \in rec.todo, Done(n),
         UNCHANGED <<spec, st, sets, cached, data, whole, queued, unseen, changes>>,
         \/ rec.pc = "handleResourcesSync" /\ (~queued => Built(n))
         \/ rec.pc = "waitForNodeSetsToProvisioned" /\ (~queued => Settled(n))
  PROVE  IInv'
<1>t. TypeInv /\ ObjectsInv
  BY DEF IInv
<1>1. n \in NodeSet /\ rec' \in Rec
  BY <1>t, RecFacts DEF TypeInv, Rec
<1>2. TypeInv'
  BY <1>t, <1>1 DEF TypeInv, Rec
<1>3. \A m \in NodeSet : Untouched(m)
  BY DEF Untouched
<1>4. changes' \in Nat /\ changes <= changes'
  BY <1>t, ChangeFacts
<1>5. ObjectInv(n)' /\ Built(n)' = Built(n)
  BY <1>t, <1>1, <1>3, <1>4, UntouchedKept DEF ObjectsInv
<1> QED BY <1>1, <1>2, <1>3, <1>5, LoopStep

\* A step of a loop makes an object of NodeSet n.
LEMMA LoopWrites ==
  ASSUME IInv, NEW n \in rec.todo, NEW o \in AnyObject, Done(n),
         sets' = [sets EXCEPT ![n] = o],
         UNCHANGED <<spec, st, cached, data, whole, queued, unseen, changes>>,
         Sane(o), GenerationOK(o, spec[n], changes), CopyOf(cached[n], o),
         n \in Remote => MirrorOf(data[n], o),
         \/ rec.pc = "handleResourcesSync" /\ o.spec = spec[n]
         \/ rec.pc \in {"deleteLocal", "deleteRemote"} /\ (o.deleting \/ ~Exists(o))
  PROVE  IInv'
<1>t. TypeInv
  BY DEF IInv
<1>1. n \in NodeSet /\ rec' \in Rec
  BY <1>t, RecFacts DEF TypeInv, Rec
<1>2. /\ sets' \in [NodeSet -> AnyObject] /\ sets'[n] = o
      /\ \A m \in NodeSet \ {n} : sets'[m] = sets[m]
  BY <1>t, <1>1 DEF TypeInv
<1>3. TypeInv'
  BY <1>t, <1>1, <1>2 DEF TypeInv, Rec
<1>4. \A m \in NodeSet \ {n} : Untouched(m)
  BY <1>2 DEF Untouched
<1>5. ObjectInv(n)'
  BY <1>2 DEF ObjectInv
<1>6. /\ o.spec = spec[n] => Built(n)'
      /\ o.deleting \/ ~Exists(o) => Gone(n)'
  BY <1>2 DEF Built, Gone
<1> QED BY <1>1, <1>3, <1>4, <1>5, <1>6, LoopStep

\* A reconcile writes the status, and another one follows.
LEMMA UpdateStatusKeeps ==
  ASSUME IInv, NEW new \in AnyStatus, UpdateStatus(new), Change \/ UNCHANGED changes,
         UNCHANGED <<spec, sets, cached, data>>,
         whole' \in {"none", "starting", "ready"}, unseen' \subseteq NodeSet
  PROVE  IInv'
<1>t. TypeInv
  BY DEF IInv
<1>1. rec \in Rec /\ queued \in BOOLEAN
  BY <1>t DEF TypeInv, Rec
<1>2. rec' \in Rec /\ rec'.pc = "idle" /\ queued' = TRUE /\ st' \in AnyStatus
  BY <1>1, UpdateStatusFacts
<1>3. changes' \in 0..MaxChanges /\ changes <= changes'
  BY <1>t, ChangeFacts
<1>4. TypeInv'
  BY <1>t, <1>2, <1>3 DEF TypeInv, Rec
<1>5. \A n \in NodeSet : Untouched(n)
  BY DEF Untouched
<1> QED BY <1>2, <1>3, <1>4, <1>5, EndsQueued

\* The status of the owner, in the forms that its steps write.
LEMMA StatusForms ==
  ASSUME IInv
  PROVE  /\ st \in AnyStatus
         /\ WithCond(st, "Prepared", "False") \in AnyStatus
         /\ WithCond(st, "Prepared", "True") \in AnyStatus
         /\ WithCond(st, "Provisioned", "False") \in AnyStatus
         /\ WithCond(st, "Provisioned", "True") \in AnyStatus
         /\ WithStateAndCond(st, "Provisioning", "Provisioned", "Unknown") \in AnyStatus
         /\ PauseResume(st, FALSE) \in AnyStatus
<1>1. st \in AnyStatus
  BY DEF IInv, TypeInv
<1> QED BY <1>1, Names, WithCondFacts, WithStateAndCondFacts, PauseResumeFacts

LEMMA ReconcileKeeps ==
  ASSUME IInv, Reconcile
  PROVE  IInv'
<1>t. TypeInv /\ ObjectsInv
  BY DEF IInv
<1>1. /\ Goto("handleResourcesSync", Listed) /\ queued' = FALSE
      /\ UNCHANGED <<spec, st, sets, cached, data, whole, unseen, changes>>
  BY DEF Reconcile
<1>2. rec' \in Rec /\ rec'.pc = "handleResourcesSync" /\ rec'.todo = Listed
  BY <1>t, <1>1, RecFacts DEF TypeInv, Rec, Listed, Step
<1>3. TypeInv'
  BY <1>t, <1>1, <1>2 DEF TypeInv, Rec
<1>4. ObjectsInv'
  BY <1>t, <1>1 DEF ObjectsInv, ObjectInv
<1>5. Listed' = Listed
  BY <1>1 DEF Listed
<1>6. TodoInv'
  BY <1>2, <1>5 DEF TodoInv
<1>7. LoopInv'
  BY <1>2, <1>5 DEF LoopInv
<1> QED BY <1>3, <1>4, <1>6, <1>7 DEF IInv, WorkInv

LEMMA SyncNodeSetKeeps ==
  ASSUME IInv, NEW n \in NodeSet, SyncNodeSet(n)
  PROVE  IInv'
<1> DEFINE v == spec[n]
           o == sets[n]
           c == cached[n]
<1>i. TypeInv /\ ObjectInv(n) /\ TodoInv
  BY DEF IInv, ObjectsInv
<1>t. /\ o \in AnyObject /\ c \in AnyObject /\ v \in 0..MaxVersion /\ changes \in Nat
      /\ n \in Remote => data[n] \in AnyObject
  BY <1>i, ObjectFacts
<1>o. /\ Sane(o) /\ GenerationOK(o, v, changes) /\ CopyOf(c, o)
      /\ n \in Remote => MirrorOf(data[n], o)
  BY <1>i DEF ObjectInv
<1>1. /\ rec.pc = "handleResourcesSync" /\ n \in rec.todo
      /\ UNCHANGED <<spec, cached, data, whole, unseen>>
  BY DEF SyncNodeSet
<1>2. v # 0
  BY <1>i, <1>1 DEF TodoInv, Listed
<1>a. CASE c.spec = v /\ Done(n) /\ UNCHANGED <<st, sets, queued, changes>>
  <2>1. Built(n)
    BY <1>2, <1>a DEF Built, WillWake, Wakes, Exists
  <2> QED BY <1>1, <1>a, <2>1, LoopLooks
<1>b. CASE /\ ~Exists(c) /\ ~Exists(o) /\ sets' = [sets EXCEPT ![n] = New(v)] /\ Done(n)
           /\ UNCHANGED <<st, queued, changes>>
  <2>1. New(v) \in AnyObject /\ New(v).spec = v
    BY <1>t, <1>2, NewFacts
  <2>2. Sane(New(v)) /\ GenerationOK(New(v), v, changes) /\ CopyOf(c, New(v))
    BY <1>t, <1>2, <1>b, Created
  <2>3. n \in Remote => MirrorOf(data[n], New(v))
    BY <1>t, <1>o, <1>2, <1>b, MirrorOwner
  <2> DEFINE new == New(v)
  <2>4. sets' = [sets EXCEPT ![n] = new]
    BY <1>b
  <2> HIDE DEF new
  <2> QED BY <1>1, <1>b, <2>1, <2>2, <2>3, <2>4, LoopWrites DEF new
<1>c. CASE /\ Exists(c) /\ c.spec # v /\ c = o
           /\ sets' = [sets EXCEPT ![n] = Updated(@, v)] /\ Done(n)
           /\ UNCHANGED <<st, queued, changes>>
  <2> DEFINE new == Updated(o, v)
  <2>1. new \in AnyObject /\ new.spec = v
    BY <1>t, UpdatedFacts
  <2>2. Sane(new) /\ GenerationOK(new, v, changes) /\ CopyOf(c, new)
    BY <1>t, <1>o, <1>2, <1>c, UpdateKept
  <2>3. n \in Remote => MirrorOf(data[n], new)
    BY <1>t, <1>o, <1>2, MirrorOwner
  <2>4. sets' = [sets EXCEPT ![n] = new]
    BY <1>c
  <2> HIDE DEF new
  <2> QED BY <1>1, <1>c, <2>1, <2>2, <2>3, <2>4, LoopWrites
<1>d. CASE /\ Change \/ UNCHANGED changes
           /\ FailSync /\ UNCHANGED sets
  <2>1. UpdateStatus(WithCond(st, "Prepared", "False"))
    BY <1>d DEF FailSync
  <2>2. whole' \in {"none", "starting", "ready"} /\ unseen' \subseteq NodeSet
    BY <1>i, <1>1 DEF TypeInv
  <2> QED BY <1>1, <1>d, <2>1, <2>2, StatusForms, UpdateStatusKeeps
<1>e. \/ c.spec = v /\ Done(n) /\ UNCHANGED <<st, sets, queued, changes>>
      \/ /\ ~Exists(c) /\ ~Exists(o) /\ sets' = [sets EXCEPT ![n] = New(v)] /\ Done(n)
         /\ UNCHANGED <<st, queued, changes>>
      \/ /\ Exists(c) /\ c.spec # v /\ c = o
         /\ sets' = [sets EXCEPT ![n] = Updated(@, v)] /\ Done(n)
         /\ UNCHANGED <<st, queued, changes>>
      \/ /\ Change \/ UNCHANGED changes
         /\ FailSync /\ UNCHANGED sets
  BY DEF SyncNodeSet
<1> QED BY <1>a, <1>b, <1>c, <1>d, <1>e

LEMMA DeleteNodeSetKeeps ==
  ASSUME IInv, NEW n \in NodeSet, DeleteNodeSet(n)
  PROVE  IInv'
<1> DEFINE o == sets[n]
           c == cached[n]
           new == Deleted(o)
<1>i. TypeInv /\ ObjectInv(n) /\ TodoInv
  BY DEF IInv, ObjectsInv
<1>t. /\ o \in AnyObject /\ c \in AnyObject /\ changes \in Nat
      /\ n \in Remote => data[n] \in AnyObject
  BY <1>i, ObjectFacts
<1>o. /\ Sane(o) /\ GenerationOK(o, spec[n], changes) /\ CopyOf(c, o)
      /\ n \in Remote => MirrorOf(data[n], o)
  BY <1>i DEF ObjectInv
<1>1. /\ rec.pc \in {"deleteLocal", "deleteRemote"} /\ n \in rec.todo
      /\ UNCHANGED <<spec, cached, data, whole, unseen>>
  BY DEF DeleteNodeSet
<1>2. Seen(n)
  BY <1>i, <1>1 DEF TodoInv
<1>a. CASE /\ Exists(o) /\ sets' = [sets EXCEPT ![n] = Deleted(@)] /\ Done(n)
           /\ UNCHANGED <<st, queued, changes>>
  <2>1. new \in AnyObject /\ (new.deleting \/ ~Exists(new))
    BY <1>t, DeletedFacts, NoneFacts
  <2>2. Sane(new) /\ GenerationOK(new, spec[n], changes) /\ CopyOf(c, new)
    BY <1>t, <1>o, <1>2, <1>a, DeleteKept DEF Seen
  <2>3. n \in Remote => MirrorOf(data[n], new)
    BY <1>t, <1>o, MirrorOwner
  <2>4. sets' = [sets EXCEPT ![n] = new]
    BY <1>a
  <2> HIDE DEF new
  <2> QED BY <1>1, <1>a, <2>1, <2>2, <2>3, <2>4, LoopWrites
<1>b. CASE /\ Change \/ UNCHANGED changes
           /\ FailSync /\ UNCHANGED sets
  <2>1. UpdateStatus(WithCond(st, "Prepared", "False"))
    BY <1>b DEF FailSync
  <2>2. whole' \in {"none", "starting", "ready"} /\ unseen' \subseteq NodeSet
    BY <1>i, <1>1 DEF TypeInv
  <2> QED BY <1>1, <1>b, <2>1, <2>2, StatusForms, UpdateStatusKeeps
<1> QED BY <1>a, <1>b DEF DeleteNodeSet

\* A reconcile goes on to its next loop.
LEMMA GotoFacts ==
  ASSUME IInv, NEW step \in Step, NEW todo \in SUBSET NodeSet, Goto(step, todo),
         UNCHANGED <<spec, st, sets, cached, data, queued, changes>>,
         whole' \in {"none", "starting", "ready"}, unseen' \subseteq NodeSet
  PROVE  /\ TypeInv' /\ ObjectsInv' /\ rec'.pc = step /\ rec'.todo = todo
         /\ Listed' = Listed /\ Listed \subseteq NodeSet /\ Dropped' \subseteq NodeSet
         /\ \A n \in NodeSet : /\ Gone(n)' = Gone(n) /\ Seen(n)' = Seen(n)
                               /\ Built(n)' = Built(n) /\ Settled(n)' = Settled(n)
<1>t. TypeInv /\ ObjectsInv
  BY DEF IInv
<1>1. rec' \in Rec /\ rec'.pc = step /\ rec'.todo = todo
  BY <1>t, RecFacts DEF TypeInv, Rec
<1>2. TypeInv'
  BY <1>t, <1>1 DEF TypeInv, Rec
<1>3. Listed' = Listed /\ Listed \subseteq NodeSet /\ Dropped' \subseteq NodeSet
  BY DEF Listed, Dropped
<1>4. changes' \in Nat /\ changes <= changes'
  BY <1>t, ChangeFacts
<1>5. \A n \in NodeSet : /\ ObjectInv(n)'
                         /\ Gone(n)' = Gone(n) /\ Seen(n)' = Seen(n)
                         /\ Built(n)' = Built(n) /\ Settled(n)' = Settled(n)
  <2> TAKE n \in NodeSet
  <2>1. ObjectInv(n) /\ Untouched(n)
    BY <1>t DEF ObjectsInv, Untouched
  <2> QED BY <1>t, <1>4, <2>1, UntouchedKept
<1> QED BY <1>1, <1>2, <1>3, <1>5 DEF ObjectsInv

\* All NodeSets are built or dropped.
LEMMA EndSyncKeeps ==
  ASSUME IInv, EndSync, UNCHANGED <<spec, sets, cached, data, changes>>,
         whole' \in {"none", "starting", "ready"}, unseen' \subseteq NodeSet,
         ~queued => /\ \A n \in Listed : Built(n)
                    /\ \A n \in Dropped' : Gone(n)
  PROVE  IInv'
<1>1. ASSUME NEW new \in AnyStatus, UpdateStatus(new) PROVE IInv'
  BY <1>1, UpdateStatusKeeps
<1>2. CASE Goto("waitForNodeSetsToProvisioned", Listed) /\ UNCHANGED <<st, queued>>
  <2>1. "waitForNodeSetsToProvisioned" \in Step /\ Listed \in SUBSET NodeSet
    BY DEF Step, Listed
  <2>2. /\ TypeInv' /\ ObjectsInv' /\ rec'.pc = "waitForNodeSetsToProvisioned"
        /\ rec'.todo = Listed /\ Listed' = Listed
        /\ Listed \subseteq NodeSet /\ Dropped' \subseteq NodeSet
        /\ \A n \in NodeSet : Gone(n)' = Gone(n) /\ Built(n)' = Built(n)
    BY <1>2, <2>1, GotoFacts
  <2>3. TodoInv'
    BY <2>2 DEF TodoInv
  <2>4. ASSUME ~queued PROVE LoopInv'
    BY <2>2, <2>4 DEF LoopInv
  <2> QED BY <1>2, <2>2, <2>3, <2>4 DEF IInv, WorkInv
<1> QED BY <1>1, <1>2, StatusForms DEF EndSync

\* The NodeSets of the owner's cluster are built or dropped.
LEMMA DeleteRemoteKeeps ==
  ASSUME IInv, DeleteRemote, UNCHANGED <<spec, sets, cached, data, changes>>,
         whole' \in {"none", "starting", "ready"}, unseen' \subseteq NodeSet,
         ~queued => /\ \A n \in Listed : Built(n)
                    /\ \A n \in Dropped' : IF n \in Local THEN Gone(n) ELSE Seen(n)
  PROVE  IInv'
<1>1. ASSUME ~queued, NEW n \in Dropped' PROVE n \in Unlisted(Remote) \/ Gone(n)
  <2>1. n \in NodeSet /\ spec[n] = 0
    BY <1>1 DEF Dropped, Listed
  <2> QED BY <1>1, <2>1 DEF NodeSet, Unlisted, Seen, Gone
<1>2. CASE Unlisted(Remote) = {} /\ EndSync
  BY <1>1, <1>2, EndSyncKeeps
<1>3. CASE Goto("deleteRemote", Unlisted(Remote)) /\ UNCHANGED <<st, queued>>
  <2>1. "deleteRemote" \in Step /\ Unlisted(Remote) \in SUBSET NodeSet
    BY DEF Step, Unlisted, NodeSet
  <2>2. /\ TypeInv' /\ ObjectsInv' /\ rec'.pc = "deleteRemote"
        /\ rec'.todo = Unlisted(Remote) /\ Listed' = Listed
        /\ Listed \subseteq NodeSet /\ Dropped' \subseteq NodeSet
        /\ \A n \in NodeSet : /\ Gone(n)' = Gone(n) /\ Built(n)' = Built(n)
                              /\ Seen(n)' = Seen(n)
    BY <1>3, <2>1, GotoFacts
  <2>3. \A n \in Unlisted(Remote) : n \in Remote /\ spec'[n] = 0 /\ Seen(n)'
    BY <2>1, <2>2 DEF Unlisted, Seen
  <2>4. TodoInv'
    BY <2>2, <2>3 DEF TodoInv
  <2>5. ASSUME ~queued PROVE LoopInv'
    <3>1. \A n \in Dropped' : n \in Unlisted(Remote) \/ Gone(n)
      BY <1>1, <2>5
    <3> QED BY <2>2, <2>5, <3>1 DEF LoopInv
  <2> QED BY <1>3, <2>2, <2>4, <2>5 DEF IInv, WorkInv
<1> QED BY <1>2, <1>3 DEF DeleteRemote

LEMMA NodeSetsSyncedKeeps ==
  ASSUME IInv, NodeSetsSynced
  PROVE  IInv'
<1>i. TypeInv /\ WorkInv
  BY DEF IInv
<1>1. /\ rec.pc = "handleResourcesSync" /\ rec.todo = {}
      /\ UNCHANGED <<spec, sets, cached, data, changes>>
      /\ unseen' = {n \in NodeSet \ Listed : Exists(sets[n]) /\ ~Exists(cached[n])}
  BY DEF NodeSetsSynced
<1>2. whole' \in {"none", "starting", "ready"} /\ unseen' \subseteq NodeSet
  BY <1>i, <1>1 DEF NodeSetsSynced, Whole, TypeInv
<1>3. ~queued => \A n \in Listed : Built(n)
  BY <1>i, <1>1 DEF WorkInv, LoopInv
<1>4. \A n \in Dropped' : n \in NodeSet /\ spec[n] = 0 /\ Seen(n)
  BY <1>1 DEF Dropped, Listed, Seen
<1>5. CASE Unlisted(Local) = {} /\ DeleteRemote
  <2>1. \A n \in Dropped' : IF n \in Local THEN Gone(n) ELSE Seen(n)
    BY <1>4, <1>5 DEF Unlisted, Seen, Gone
  <2> QED BY <1>1, <1>2, <1>3, <1>5, <2>1, DeleteRemoteKeeps
<1>6. CASE Goto("deleteLocal", Unlisted(Local)) /\ UNCHANGED <<st, queued>>
  <2>1. "deleteLocal" \in Step /\ Unlisted(Local) \in SUBSET NodeSet
    BY DEF Step, Unlisted, NodeSet
  <2>2. /\ TypeInv' /\ ObjectsInv' /\ rec'.pc = "deleteLocal"
        /\ rec'.todo = Unlisted(Local) /\ Listed' = Listed
        /\ Listed \subseteq NodeSet /\ Dropped' \subseteq NodeSet
        /\ \A n \in NodeSet : /\ Gone(n)' = Gone(n) /\ Built(n)' = Built(n)
                              /\ Seen(n)' = Seen(n)
    BY <1>1, <1>2, <1>6, <2>1, GotoFacts
  <2>3. \A n \in Unlisted(Local) : n \in Local /\ spec'[n] = 0 /\ Seen(n)'
    BY <1>1, <2>1, <2>2 DEF Unlisted, Seen
  <2>4. TodoInv'
    BY <2>2, <2>3 DEF TodoInv
  <2>5. \A n \in Dropped' : IF n \in Local THEN n \in Unlisted(Local) \/ Gone(n)
                                           ELSE Seen(n)
    BY <1>4 DEF Unlisted, Seen, Gone
  <2>6. ASSUME ~queued PROVE LoopInv'
    BY <1>3, <2>2, <2>5, <2>6 DEF LoopInv
  <2> QED BY <1>6, <2>2, <2>4, <2>6 DEF IInv, WorkInv
<1> QED BY <1>5, <1>6 DEF NodeSetsSynced

LEMMA DeletionsKeep ==
  ASSUME IInv, LocalDeleted \/ RemoteDeleted
  PROVE  IInv'
<1>i. TypeInv /\ WorkInv
  BY DEF IInv
<1>1. /\ rec.pc \in {"deleteLocal", "deleteRemote"} /\ rec.todo = {}
      /\ UNCHANGED <<spec, sets, cached, data, whole, unseen, changes>>
  BY DEF LocalDeleted, RemoteDeleted
<1>2. /\ whole' \in {"none", "starting", "ready"} /\ unseen' \subseteq NodeSet
      /\ Dropped' = Dropped
  BY <1>i, <1>1 DEF TypeInv, Dropped, Listed
<1>3. ~queued => \A n \in Listed : Built(n)
  BY <1>i, <1>1 DEF WorkInv, LoopInv
<1>4. CASE LocalDeleted
  <2>1. ~queued => \A n \in Dropped : IF n \in Local THEN Gone(n) ELSE Seen(n)
    BY <1>i, <1>4 DEF LocalDeleted, WorkInv, LoopInv
  <2> QED BY <1>1, <1>2, <1>3, <1>4, <2>1, DeleteRemoteKeeps DEF LocalDeleted
<1>5. CASE RemoteDeleted
  <2>1. ~queued => \A n \in Dropped : Gone(n)
    BY <1>i, <1>5 DEF RemoteDeleted, WorkInv, LoopInv
  <2> QED BY <1>1, <1>2, <1>3, <1>5, <2>1, EndSyncKeeps DEF RemoteDeleted
<1> QED BY <1>4, <1>5

\* A reconcile that looks at a NodeSet finds its copy provisioned: the NodeSet
\* is, or the owner will hear of its change.
LEMMA CheckNodeSetKeeps ==
  ASSUME IInv, NEW n \in NodeSet, CheckNodeSet(n)
  PROVE  IInv'
<1> DEFINE o == sets[n]
           c == cached[n]
<1>i. TypeInv /\ ObjectInv(n) /\ TodoInv /\ WorkInv
  BY DEF IInv, ObjectsInv
<1>1. /\ rec.pc = "waitForNodeSetsToProvisioned" /\ n \in rec.todo
      /\ UNCHANGED <<spec, sets, cached, data, whole, unseen, changes>>
  BY DEF CheckNodeSet
<1>2. /\ whole' \in {"none", "starting", "ready"} /\ unseen' \subseteq NodeSet
      /\ rec \in Rec /\ queued \in BOOLEAN
  BY <1>i, <1>1 DEF TypeInv, Rec
<1>3. CASE Return(TRUE) /\ UNCHANGED st
  <2>1. rec' \in Rec /\ rec'.pc = "idle" /\ queued' = TRUE
    BY <1>2, <1>3, ReturnFacts
  <2>2. TypeInv'
    BY <1>i, <1>1, <1>3, <2>1 DEF TypeInv, Rec
  <2>3. (\A m \in NodeSet : Untouched(m)) /\ changes <= changes'
    BY <1>i, <1>1, ChangeFacts DEF Untouched
  <2> QED BY <2>1, <2>2, <2>3, EndsQueued
<1>4. CASE UpdateStatus(WithCond(st, "Provisioned", "False"))
  BY <1>1, <1>2, <1>4, StatusForms, UpdateStatusKeeps
<1>5. CASE /\ Exists(c) /\ IsProvisioned(c) /\ Done(n) /\ UNCHANGED <<st, queued>>
  <2>1. ~queued => Settled(n)
    <3> SUFFICES ASSUME ~queued PROVE Settled(n)
      OBVIOUS
    <3>1. Built(n)
      BY <1>i, <1>1 DEF WorkInv, LoopInv, TodoInv
    <3>2. /\ o \in AnyObject /\ c \in AnyObject /\ Sane(o) /\ CopyOf(c, o)
      BY <1>i, ObjectFacts DEF ObjectInv
    <3>3. CASE WillWake(n) \/ o.deleting
      BY <3>3 DEF Settled
    <3>4. CASE ~WillWake(n) /\ ~o.deleting
      <4>1. o.spec = spec[n] /\ c.spec = o.spec
        BY <1>5, <3>1, <3>4 DEF Built, WillWake, Wakes
      <4>2. c.gen = o.gen /\ c.provGen <= o.provGen /\ o.provGen <= o.gen
        BY <1>5, <3>2, <3>4, <4>1 DEF CopyOf, Sane
      <4>3. o.provGen = o.gen
        BY <1>5, <3>2, <4>2 DEF IsProvisioned, AnyObject
      <4> QED BY <4>1, <4>3 DEF Settled
    <3> QED BY <3>3, <3>4
  <2> QED BY <1>1, <1>5, <2>1, LoopLooks
<1> QED BY <1>3, <1>4, <1>5 DEF CheckNodeSet

\* A reconcile finds nothing to do for any NodeSet, and ends.
LEMMA NodeSetsProvisionedKeeps ==
  ASSUME IInv, NodeSetsProvisioned
  PROVE  IInv'
<1> DEFINE new == IF IsStatusConditionTrue(st.conds, "Provisioned")
                  THEN PauseResume(st, FALSE)
                  ELSE WithCond(st, "Provisioned", "True")
<1>i. TypeInv /\ ObjectsInv /\ WorkInv
  BY DEF IInv
<1>1. /\ rec.pc = "waitForNodeSetsToProvisioned" /\ rec.todo = {}
      /\ UNCHANGED <<spec, sets, cached, data, whole, unseen, changes>>
  BY DEF NodeSetsProvisioned
<1>2. /\ whole' \in {"none", "starting", "ready"} /\ unseen' \subseteq NodeSet
      /\ rec \in Rec /\ queued \in BOOLEAN
  BY <1>i, <1>1 DEF TypeInv, Rec
<1>3. CASE UpdateStatus(WithCond(st, "Provisioned", "False"))
  BY <1>1, <1>2, <1>3, StatusForms, UpdateStatusKeeps
<1>4. CASE UpdateStatus(new)
  <2>1. new \in AnyStatus
    BY StatusForms
  <2> HIDE DEF new
  <2> QED BY <1>1, <1>2, <1>4, <2>1, UpdateStatusKeeps
<1>5. CASE new = st /\ Return(FALSE) /\ UNCHANGED st
  <2>1. IsStatusConditionTrue(st.conds, "Ready")
    <3>1. st \in AnyStatus
      BY StatusForms
    <3>2. CASE IsStatusConditionTrue(st.conds, "Provisioned")
      BY <1>5, <3>1, <3>2, PauseResumeFacts
    <3>3. CASE ~IsStatusConditionTrue(st.conds, "Provisioned")
      <4>1. WithCond(st, "Provisioned", "True").conds["Provisioned"] = "True"
        BY <3>1, Names, WithCondFacts
      <4>2. WithCond(st, "Provisioned", "True") = st
        BY <1>5, <3>3
      <4> QED BY <3>3, <4>1, <4>2 DEF IsStatusConditionTrue
    <3> QED BY <3>2, <3>3
  <2>2. rec' \in Rec /\ rec'.pc = "idle" /\ queued' = queued
    BY <1>2, <1>5, ReturnFacts
  <2>3. TypeInv'
    BY <1>i, <1>1, <1>5, <2>2 DEF TypeInv, Rec
  <2>4. changes' \in Nat /\ changes <= changes'
    BY <1>i, <1>1, ChangeFacts
  <2>5. \A n \in NodeSet : ObjectInv(n)' /\ Settled(n)' = Settled(n)
    <3> TAKE n \in NodeSet
    <3>1. ObjectInv(n) /\ Untouched(n)
      BY <1>i, <1>1 DEF ObjectsInv, Untouched
    <3> QED BY <1>i, <2>4, <3>1, UntouchedKept
  <2>6. ASSUME ~queued PROVE LoopInv'
    <3>1. /\ \A n \in Dropped : Gone(n)
          /\ \A n \in Listed : Settled(n)
      BY <1>i, <1>1, <2>6 DEF WorkInv, LoopInv
    <3>2. ASSUME NEW n \in NodeSet \ unseen PROVE Settled(n)
      <4>1. CASE n \in Listed
        BY <3>1, <4>1
      <4>2. CASE n \notin Listed /\ sets[n].deleting
        BY <4>2 DEF Settled
      <4>3. CASE n \notin Listed /\ ~sets[n].deleting
        <5>1. spec[n] = 0 /\ Gone(n)
          BY <3>1, <4>3 DEF Dropped, Listed
        <5>2. sets[n] = None
          BY <1>i, <4>3, <5>1 DEF ObjectsInv, ObjectInv, Sane, Gone
        <5> QED BY <5>1, <5>2, NoneFacts DEF Settled
      <4> QED BY <4>1, <4>2, <4>3
    <3> QED BY <1>1, <1>5, <2>1, <2>2, <2>5, <3>2 DEF LoopInv
  <2>7. TodoInv'
    BY <2>2 DEF TodoInv
  <2> QED BY <2>2, <2>3, <2>5, <2>6, <2>7 DEF IInv, ObjectsInv, WorkInv
<1> QED BY <1>3, <1>4, <1>5 DEF NodeSetsProvisioned

-----------------------------------------------------------------------------
(***************************************************************************)
(* Faults and edits, and the whole.                                        *)
(***************************************************************************)

\* A reconcile that fails.
LEMMA ApiErrorKeeps ==
  ASSUME IInv, ApiError
  PROVE  IInv'
<1>t. TypeInv
  BY DEF IInv
<1>1. /\ Change /\ Return(TRUE)
      /\ UNCHANGED <<spec, st, sets, cached, data, whole, unseen>>
  BY DEF ApiError
<1>2. rec \in Rec /\ queued \in BOOLEAN
  BY <1>t DEF TypeInv, Rec
<1>3. rec' \in Rec /\ rec'.pc = "idle" /\ queued' = TRUE
  BY <1>1, <1>2, ReturnFacts
<1>4. changes' \in 0..MaxChanges /\ changes <= changes'
  BY <1>t, <1>1, ChangeFacts
<1>5. TypeInv'
  BY <1>t, <1>1, <1>3, <1>4 DEF TypeInv, Rec
<1>6. \A n \in NodeSet : Untouched(n)
  BY <1>1 DEF Untouched
<1> QED BY <1>3, <1>4, <1>5, <1>6, EndsQueued

\* The operator crashes, starts again, and reads everything.
LEMMA CrashKeeps ==
  ASSUME IInv, Crash
  PROVE  IInv'
<1>t. TypeInv /\ ObjectsInv
  BY DEF IInv
<1>1. /\ Change /\ rec' = Idle /\ queued' = TRUE /\ cached' = sets
      /\ UNCHANGED <<spec, st, sets, data, whole, unseen>>
  BY DEF Crash
<1>2. rec' \in Rec /\ rec'.pc = "idle"
  BY <1>t, <1>1, RecFacts DEF TypeInv, Rec
<1>3. changes' \in 0..MaxChanges /\ changes \in Nat /\ changes <= changes'
  BY <1>t, <1>1, ChangeFacts
<1>4. TypeInv'
  BY <1>t, <1>1, <1>2, <1>3 DEF TypeInv, Rec
<1>5. ASSUME NEW n \in NodeSet PROVE ObjectInv(n)'
  <2>1. sets[n] \in AnyObject /\ ObjectInv(n) /\ changes' \in Nat
    BY <1>t, <1>3, ObjectFacts, OwnerAssumption DEF ObjectsInv
  <2>2. CopyOf(sets[n], sets[n]) /\ GenerationOK(sets[n], spec[n], changes')
    BY <1>3, <2>1, CopyMade, MoreChanges DEF ObjectInv
  <2> QED BY <1>1, <2>1, <2>2 DEF ObjectInv
<1>6. TodoInv' /\ WorkInv'
  BY <1>1, <1>2 DEF TodoInv, WorkInv
<1> QED BY <1>4, <1>5, <1>6 DEF IInv, ObjectsInv

\* An edit of the spec is one more change that a NodeSet may be given.
LEMMA UserEditKeeps ==
  ASSUME IInv, NEW n \in NodeSet, UserEdit(n)
  PROVE  IInv'
<1>t. TypeInv /\ ObjectsInv
  BY DEF IInv
<1>1. /\ rec.pc = "idle" /\ Change /\ queued' = TRUE
      /\ UNCHANGED <<st, sets, cached, data, whole, rec, unseen>>
  BY DEF UserEdit
<1>2. spec' \in [NodeSet -> 0..MaxVersion]
  <2>1. PICK v \in (0..MaxVersion) \ {spec[n]} : spec' = [spec EXCEPT ![n] = v]
    BY DEF UserEdit
  <2> QED BY <1>t, <2>1 DEF TypeInv
<1>3. changes' \in 0..MaxChanges /\ changes' = changes + 1 /\ changes \in Nat
  BY <1>t, <1>1, ChangeFacts DEF Change
<1>4. TypeInv'
  BY <1>t, <1>1, <1>2, <1>3 DEF TypeInv
<1>5. ASSUME NEW m \in NodeSet PROVE ObjectInv(m)'
  <2>1. sets[m] \in AnyObject /\ ObjectInv(m)
    BY <1>t, ObjectFacts DEF ObjectsInv
  <2>2. GenerationOK(sets[m], spec'[m], changes + 1)
    BY <1>3, <2>1, MoreChanges DEF ObjectInv
  <2> QED BY <1>1, <1>3, <2>1, <2>2 DEF ObjectInv
<1>6. TodoInv' /\ WorkInv'
  BY <1>1 DEF TodoInv, WorkInv
<1> QED BY <1>4, <1>5, <1>6 DEF IInv, ObjectsInv

LEMMA OtherStepsKeep ==
  ASSUME IInv, WholeReady \/ UNCHANGED vars
  PROVE  IInv'
<1>t. TypeInv
  BY DEF IInv
<1>1. UNCHANGED <<sets, cached, data, spec, st, rec, unseen, queued, changes>>
  BY DEF WholeReady, vars
<1>2. whole' \in {"none", "starting", "ready"}
  BY <1>t DEF TypeInv, WholeReady, vars
<1>3. TypeInv'
  BY <1>t, <1>1, <1>2 DEF TypeInv
<1>4. changes <= changes'
  BY <1>t, <1>1, ChangeFacts
<1> QED BY <1>1, <1>3, <1>4, NoNodeSet

\* The owner has just built its NodeSets.
LEMMA InitInv == Init => IInv
<1> SUFFICES ASSUME Init PROVE IInv
  OBVIOUS
<1> DEFINE object(n) == IF n \in Listed THEN New(1) ELSE None
<1>1. PICK v \in {0, 1} : spec = [n \in NodeSet |-> v]
  BY DEF Init
<1>2. 0 \in 0..MaxVersion /\ 1 \in 0..MaxVersion /\ 0 \in 0..MaxChanges
  BY OwnerAssumption
<1>3. \A n \in NodeSet :
        /\ object(n) \in AnyObject /\ Sane(object(n))
        /\ object(n).spec = spec[n] /\ object(n).provGen = 0 /\ ~object(n).deleting
        /\ object(n).gen \in {0, 1}
  <2> TAKE n \in NodeSet
  <2>1. CASE n \in Listed
    BY <1>1, <1>2, <2>1, NewFacts DEF Listed
  <2>2. CASE n \notin Listed
    BY <1>1, <2>2, NoneFacts DEF Listed
  <2> QED BY <2>1, <2>2
<1>4. sets = [n \in NodeSet |-> object(n)] /\ cached = sets
      /\ data = [n \in Remote |-> None]
  BY DEF Init
<1> HIDE DEF object
<1>5. TypeInv
  <2>1. spec \in [NodeSet -> 0..MaxVersion]
    BY <1>1, <1>2
  <2>2. st \in AnyStatus
    BY DEF Init, AnyStatus, ClusterState, CondStatus, CondType
  <2>3. sets \in [NodeSet -> AnyObject] /\ data \in [Remote -> AnyObject]
    BY <1>3, <1>4, NoneFacts
  <2>4. rec \in [pc : Step, todo : SUBSET NodeSet]
    BY DEF Init, Idle, Step
  <2>5. whole \in {"none", "starting", "ready"} /\ queued \in BOOLEAN
        /\ unseen \subseteq NodeSet /\ changes \in 0..MaxChanges
    BY <1>2 DEF Init
  <2> QED BY <1>4, <2>1, <2>2, <2>3, <2>4, <2>5 DEF TypeInv
<1>6. ASSUME NEW n \in NodeSet PROVE ObjectInv(n)
  <2> DEFINE o == object(n)
  <2>1. sets[n] = o /\ cached[n] = o /\ changes = 0 /\ (n \in Remote => data[n] = None)
    BY <1>4 DEF Init
  <2>2. /\ o \in AnyObject /\ Sane(o) /\ o.spec = spec[n] /\ o.provGen = 0
        /\ ~o.deleting /\ o.gen \in {0, 1}
    BY <1>3
  <2> HIDE DEF o
  <2>3. GenerationOK(o, spec[n], 0) /\ CopyOf(o, o) /\ MirrorOf(None, o)
    BY <2>2, NoneFacts DEF GenerationOK, CopyOf, MirrorOf
  <2> QED BY <2>1, <2>2, <2>3 DEF ObjectInv
<1>7. TodoInv /\ WorkInv
  BY DEF Init, Idle, TodoInv, WorkInv
<1> QED BY <1>5, <1>6, <1>7 DEF IInv, ObjectsInv

LEMMA NextInv == IInv /\ [Next]_vars => IInv'
<1> SUFFICES ASSUME IInv, [Next]_vars PROVE IInv'
  OBVIOUS
<1>1. CASE Controller
  BY <1>1, ReconcileKeeps, NodeSetsSyncedKeeps, DeletionsKeep, NodeSetsProvisionedKeeps,
     SyncNodeSetKeeps, DeleteNodeSetKeeps, CheckNodeSetKeeps DEF Controller
<1>2. CASE WholeReady \/ UNCHANGED vars
  BY <1>2, OtherStepsKeep
<1>3. CASE ApiError \/ Crash
  BY <1>3, ApiErrorKeeps, CrashKeeps
<1>4. ASSUME NEW n \in NodeSet,
             \/ UserEdit(n) \/ CacheSync(n) \/ ReportProvisioned(n)
             \/ ReportUnready(n) \/ LosePod(n) \/ RemoteController(n)
      PROVE  IInv'
  BY <1>4, UserEditKeeps, CacheSyncKeeps, ReportActions, RemoteSyncKeeps,
     RemoteStatusKeeps, RemoteDeleteKeeps DEF RemoteController
<1> QED BY <1>1, <1>2, <1>3, <1>4 DEF Next

\* The inductive invariant: in every reachable state the copies in the cache and
\* the NodeSets of the other clusters are related to the NodeSets as CopyOf and
\* MirrorOf say, and a reconcile that no other one will follow has built, dropped
\* and checked the NodeSets it is done with (WorkInv).
THEOREM Invariance == Spec => []IInv
<1>1. Init => IInv
  BY InitInv
<1>2. IInv /\ [Next]_vars => IInv'
  BY NextInv
<1> QED BY <1>1, <1>2, PTL DEF Spec

\* When the owner has no request and no reconcile left, and its cache is up to
\* date, it reports Ready, and every NodeSet it can see has the content that the
\* spec lists and is provisioned at its last generation: what a reconcile ends
\* with, from copies that may be old, no event to come contradicts.
THEOREM QuiescentBuilt == Spec => []QuiescentIsBuilt
<1>1. IInv => QuiescentIsBuilt
  <2> SUFFICES ASSUME IInv, rec.pc = "idle", ~queued, cached = sets
               PROVE  /\ IsStatusConditionTrue(st.conds, "Ready")
                      /\ \A n \in NodeSet \ unseen :
                           \/ sets[n].deleting
                           \/ sets[n].spec = spec[n] /\ sets[n].provGen = sets[n].gen
    BY DEF QuiescentIsBuilt
  <2>1. LoopInv
    BY DEF IInv, WorkInv
  <2>2. \A n \in NodeSet : ~WillWake(n)
    BY DEF WillWake, Wakes
  <2> QED BY <2>1, <2>2 DEF LoopInv, Settled
<1> QED BY <1>1, Invariance, PTL

-----------------------------------------------------------------------------
(***************************************************************************)
(* The generations stay in their bound.                                    *)
(***************************************************************************)
Bounded(o) == o.gen <= MaxChanges + 2 /\ o.provGen <= MaxChanges + 2

\* A copy in the cache was once the NodeSet.
CacheInv == \A n \in NodeSet : Bounded(cached[n])

LEMMA SetsBounded ==
  ASSUME IInv, NEW n \in NodeSet
  PROVE  Bounded(sets[n]) /\ (n \in Remote => Bounded(data[n]))
<1>1. TypeInv /\ ObjectInv(n) /\ changes \in 0..MaxChanges
  BY DEF IInv, ObjectsInv, TypeInv
<1>2. /\ sets[n] \in AnyObject
      /\ n \in Remote => data[n] \in AnyObject
      /\ MaxChanges \in Nat
  BY <1>1, ObjectFacts, OwnerAssumption
<1>3. Bounded(sets[n])
  BY <1>1, <1>2 DEF ObjectInv, GenerationOK, Sane, AnyObject, Bounded
<1>4. ASSUME n \in Remote PROVE Bounded(data[n])
  BY <1>1, <1>2, <1>3, <1>4 DEF ObjectInv, MirrorOf, Sane, AnyObject, Bounded
<1> QED BY <1>3, <1>4

\* The cache only ever gets what the API server has.
LEMMA CacheCopies ==
  ASSUME IInv, [Next]_vars, NEW n \in NodeSet
  PROVE  cached'[n] \in {cached[n], sets[n]}
<1>1. CASE Controller
  BY <1>1 DEF Controller, Reconcile, NodeSetsSynced, LocalDeleted, RemoteDeleted,
              NodeSetsProvisioned, SyncNodeSet, DeleteNodeSet, CheckNodeSet
<1>2. CASE WholeReady \/ UNCHANGED vars \/ ApiError \/ Crash
  BY <1>2 DEF WholeReady, vars, ApiError, Crash
<1>3. ASSUME NEW m \in NodeSet, CacheSync(m) PROVE cached'[n] \in {cached[n], sets[n]}
  BY <1>3 DEF CacheSync, IInv, TypeInv
<1>4. ASSUME NEW m \in NodeSet,
             \/ UserEdit(m) \/ ReportProvisioned(m) \/ ReportUnready(m)
             \/ LosePod(m) \/ RemoteController(m)
      PROVE  cached' = cached
  BY <1>4 DEF UserEdit, ReportProvisioned, ReportUnready, LosePod, RemoteController,
              RemoteSync, RemoteStatus, RemoteDelete
<1> QED BY <1>1, <1>2, <1>3, <1>4 DEF Next

\* A bounded object has the type of the module.
LEMMA BoundedTyped ==
  ASSUME NEW o \in AnyObject, Bounded(o)
  PROVE  o \in Object
<1>1. o.gen \in Generation /\ o.provGen \in Generation
  BY OwnerAssumption DEF AnyObject, Bounded, Generation
<1> QED BY <1>1 DEF AnyObject, Object

\* The state has its type in every behaviour: in particular no generation of a
\* NodeSet exceeds the number of edits and faults by more than the first and the
\* one of its deletion, although the owner reads from a cache that lags.
THEOREM TypeCorrect == Spec => []TypeOK
<1>1. Init => CacheInv
  <2> SUFFICES ASSUME Init PROVE CacheInv
    OBVIOUS
  <2>1. IInv /\ cached = sets
    BY InitInv DEF Init
  <2> QED BY <2>1, SetsBounded DEF CacheInv
<1>2. IInv /\ CacheInv /\ [Next]_vars => CacheInv'
  <2> SUFFICES ASSUME IInv, CacheInv, [Next]_vars, NEW n \in NodeSet
               PROVE  Bounded(cached'[n])
    BY DEF CacheInv, Bounded
  <2> QED BY SetsBounded, CacheCopies DEF CacheInv
<1>3. IInv /\ CacheInv => TypeOK
  <2> SUFFICES ASSUME IInv, CacheInv PROVE TypeOK
    OBVIOUS
  <2>1. TypeInv
    BY DEF IInv
  <2>2. \A n \in NodeSet : sets[n] \in Object /\ cached[n] \in Object
    <3> TAKE n \in NodeSet
    <3>1. sets[n] \in AnyObject /\ cached[n] \in AnyObject
      BY <2>1, ObjectFacts
    <3>2. Bounded(sets[n]) /\ Bounded(cached[n])
      BY SetsBounded DEF CacheInv
    <3> QED BY <3>1, <3>2, BoundedTyped
  <2>3. \A n \in Remote : data[n] \in Object
    <3> TAKE n \in Remote
    <3>1. n \in NodeSet
      BY DEF NodeSet
    <3> QED BY <2>1, <3>1, ObjectFacts, SetsBounded, BoundedTyped
  <2>4. /\ sets \in [NodeSet -> Object] /\ cached \in [NodeSet -> Object]
        /\ data \in [Remote -> Object]
    BY <2>1, <2>2, <2>3 DEF TypeInv
  <2> QED BY <2>1, <2>4 DEF TypeInv, TypeOK, AnyStatus
<1> QED BY <1>1, <1>2, <1>3, Invariance, PTL DEF Spec

=============================================================================
