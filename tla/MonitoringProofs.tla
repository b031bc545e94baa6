-------------------------- MODULE MonitoringProofs --------------------------
(***************************************************************************)
(* Proofs about Monitoring, for every number of objects and of changes.    *)
(*                                                                         *)
(* TypeOK is not inductive: that the owner a reconcile writes is an object *)
(* rests on the check for a missing one at the head of Reconcile, which    *)
(* was made some steps before the write.                                   *)
(*                                                                         *)
(* NeverTakenOver rests on two things.  SetControllerReference judges the  *)
(* cached ServiceMonitor, which may be an old one; the write goes through  *)
(* only where it is the latest.  And the object a reconcile is for may     *)
(* have been replaced since, so that the ServiceMonitor goes to an object  *)
(* that is gone; that it never goes back to one is SuccessorInv: the       *)
(* object, the reconcile and the ServiceMonitor follow one another.        *)
(***************************************************************************)
EXTENDS Monitoring, TLAPS

\* A reconcile that has passed the head of Reconcile is for an object.
ObjectInv == \A k \in Kind : rec[k].pc = "sync" => rec[k].obj.uid # 0

\* The ServiceMonitor of a kind is never that of a later object than the one a
\* reconcile is for, nor the reconcile for a later one than there is.
SuccessorInv ==
  \A k \in Kind :
    /\ sm.by = k /\ mon[k].uid # 0 => mon[k].uid >= sm.uid
    /\ rec[k].pc = "sync" /\ sm.by = k => rec[k].obj.uid >= sm.uid
    /\ rec[k].pc = "sync" /\ mon[k].uid # 0 => mon[k].uid >= rec[k].obj.uid

IInv == TypeOK /\ ObjectInv

-----------------------------------------------------------------------------
\* A controller reference to an object is an owner; nobody is one too.
LEMMA OwnerFacts ==
  /\ None \in Owner /\ Users \in Owner /\ Alien \in Owner
  /\ \A k \in Kind, uid \in Uid \ {0} : Control(k, uid) \in Owner
<1>1. \A k \in Kind, uid \in Uid \ {0} : Control(k, uid) \in [by : Kind, uid : Uid \ {0}]
  BY DEF Control
<1> QED BY <1>1 DEF Owner

\* The values an object and a cluster start from.
LEMMA NoneFacts ==
  /\ NoObject \in Object
  /\ NoCluster \in Cluster
  /\ Idle \in [pc : {"idle", "sync"}, obj : Object]
  /\ Idle.pc = "idle"
  /\ 0 \in Uid
<1>1. 0 \in Uid
  BY MonitoringAssumption DEF Uid
<1> QED BY <1>1 DEF NoObject, Object, NoCluster, Cluster, Idle

\* The step and the object of one reconcile change, those of the other do not.
LEMMA ReturnFacts ==
  ASSUME rec \in [Kind -> [pc : {"idle", "sync"}, obj : Object]], ObjectInv,
         queued \subseteq Kind, NEW k \in Kind, NEW requeue \in BOOLEAN,
         Return(k, requeue)
  PROVE  /\ rec' \in [Kind -> [pc : {"idle", "sync"}, obj : Object]]
         /\ queued' \subseteq Kind
         /\ ObjectInv'
BY NoneFacts DEF Return, ObjectInv

\* Users are counted.
LEMMA ChangeFacts ==
  ASSUME changes \in 0..MaxChanges, Change
  PROVE  changes' \in 0..MaxChanges
BY MonitoringAssumption DEF Change

\* The invariant holds in every initial state.
LEMMA InitInv == Init => IInv
<1> SUFFICES ASSUME Init PROVE IInv
  OBVIOUS
<1>1. 1 \in Uid /\ 0 \in Uid
  BY MonitoringAssumption DEF Uid
<1>2. /\ mon \in [Kind -> Object]
      /\ cluster \in [Kind -> Cluster]
      /\ svc \in [Kind -> Uid]
      /\ rec \in [Kind -> [pc : {"idle", "sync"}, obj : Object]]
  BY <1>1, NoneFacts DEF Init, Cluster
<1>3. sm \in Owner
  BY OwnerFacts DEF Init
<1>4. cache \in [cluster : [Kind -> Cluster], svc : [Kind -> Uid], sm : Owner]
  BY <1>2, <1>3 DEF Init
<1>5. changes \in 0..MaxChanges
  BY MonitoringAssumption DEF Init
<1>6. ObjectInv
  BY NoneFacts DEF Init, ObjectInv
<1> QED BY <1>2, <1>3, <1>4, <1>5, <1>6 DEF Init, IInv, TypeOK

\* Every step keeps the invariant.
LEMMA NextInv == IInv /\ [Next]_vars => IInv'
<1> SUFFICES ASSUME IInv, [Next]_vars PROVE IInv'
  OBVIOUS
<1>t. /\ mon \in [Kind -> Object]
      /\ cluster \in [Kind -> Cluster]
      /\ svc \in [Kind -> Uid]
      /\ sm \in Owner
      /\ cache \in [cluster : [Kind -> Cluster], svc : [Kind -> Uid], sm : Owner]
      /\ queued \subseteq Kind
      /\ rec \in [Kind -> [pc : {"idle", "sync"}, obj : Object]]
      /\ stopped \subseteq Kind
      /\ robbed \subseteq Kind
      /\ changes \in 0..MaxChanges
      /\ ObjectInv
  BY DEF IInv, TypeOK
<1>1. CASE OtherMonitor
  <2>1. sm' \in Owner /\ robbed' \subseteq Kind
    BY <1>1, <1>t, OwnerFacts DEF OtherMonitor
  <2>2. changes' \in 0..MaxChanges
    BY <1>1, <1>t, ChangeFacts DEF OtherMonitor
  <2> QED BY <1>1, <1>t, <2>1, <2>2 DEF OtherMonitor, controllers, IInv, TypeOK, ObjectInv
<1>2. CASE CollectMonitor
  BY <1>2, <1>t, OwnerFacts DEF CollectMonitor, controllers, IInv, TypeOK, ObjectInv
<1>3. CASE SyncMonitors
  <2>1. cache' \in [cluster : [Kind -> Cluster], svc : [Kind -> Uid], sm : Owner]
    BY <1>3, <1>t DEF SyncMonitors
  <2>2. queued' \subseteq Kind
    BY <1>3, <1>t DEF SyncMonitors
  <2> QED BY <1>3, <1>t, <2>1, <2>2 DEF SyncMonitors, IInv, TypeOK, ObjectInv
<1>4. CASE Crash
  <2>1. cache' \in [cluster : [Kind -> Cluster], svc : [Kind -> Uid], sm : Owner]
    BY <1>4, <1>t DEF Crash
  <2>2. rec' \in [Kind -> [pc : {"idle", "sync"}, obj : Object]] /\ ObjectInv'
    BY <1>4, NoneFacts DEF Crash, ObjectInv
  <2>3. changes' \in 0..MaxChanges
    BY <1>4, <1>t, ChangeFacts DEF Crash
  <2>4. queued' \subseteq Kind
    BY <1>4 DEF Crash
  <2> QED BY <1>4, <1>t, <2>1, <2>2, <2>3, <2>4 DEF Crash, IInv, TypeOK
<1>5. ASSUME NEW k \in Kind, CreateMonitoring(k) PROVE IInv'
  <2>1. mon' \in [Kind -> Object]
    BY <1>5, <1>t DEF CreateMonitoring, Object
  <2>2. changes' \in 0..MaxChanges
    BY <1>5, <1>t, ChangeFacts DEF CreateMonitoring
  <2> QED BY <1>5, <1>t, <2>1, <2>2 DEF CreateMonitoring, IInv, TypeOK, ObjectInv
<1>6. ASSUME NEW k \in Kind, DeleteMonitoring(k) PROVE IInv'
  <2>1. mon' \in [Kind -> Object]
    BY <1>6, <1>t, NoneFacts DEF DeleteMonitoring
  <2>2. changes' \in 0..MaxChanges
    BY <1>6, <1>t, ChangeFacts DEF DeleteMonitoring
  <2> QED BY <1>6, <1>t, <2>1, <2>2 DEF DeleteMonitoring, IInv, TypeOK, ObjectInv
<1>7. ASSUME NEW k \in Kind, ChangeCluster(k) PROVE IInv'
  <2>1. svc' \in [Kind -> Uid]
    BY <1>7, <1>t, NoneFacts DEF ChangeCluster
  <2>2. cluster' \in [Kind -> Cluster]
    <3>1. CASE cluster' = [cluster EXCEPT ![k] = NoCluster]
      BY <3>1, <1>t, NoneFacts
    <3>2. CASE \E uid \in Uid : cluster' = [cluster EXCEPT ![k].uid = uid]
      BY <3>2, <1>t DEF Cluster
    <3>3. CASE cluster' = [cluster EXCEPT ![k].ready = FALSE]
      BY <3>3, <1>t DEF Cluster
    <3> QED BY <1>7, <1>t, <3>1, <3>2, <3>3 DEF ChangeCluster
  <2>3. changes' \in 0..MaxChanges
    BY <1>7, <1>t, ChangeFacts DEF ChangeCluster
  <2> QED
    BY <1>7, <1>t, <2>1, <2>2, <2>3 DEF ChangeCluster, controllers, IInv, TypeOK, ObjectInv
<1>8. ASSUME NEW k \in Kind, ClusterController(k) PROVE IInv'
  <2>1. cluster[k].uid \in Uid
    BY <1>t DEF Cluster
  <2>2. svc' \in [Kind -> Uid]
    BY <1>8, <1>t, <2>1 DEF ClusterController
  <2>3. cluster' \in [Kind -> Cluster]
    <3>1. CASE cluster' = [cluster EXCEPT ![k].ready = TRUE]
      BY <3>1, <1>t DEF Cluster
    <3> QED BY <1>8, <1>t, <3>1 DEF ClusterController
  <2> QED
    BY <1>8, <1>t, <2>2, <2>3 DEF ClusterController, controllers, IInv, TypeOK, ObjectInv
<1>9. ASSUME NEW k \in Kind, CollectService(k) PROVE IInv'
  <2>1. svc' \in [Kind -> Uid]
    BY <1>9, <1>t, NoneFacts DEF CollectService
  <2> QED BY <1>9, <1>t, <2>1 DEF CollectService, controllers, IInv, TypeOK, ObjectInv
<1>10. ASSUME NEW k \in Kind, SyncClusters(k) PROVE IInv'
  <2>1. cache' \in [cluster : [Kind -> Cluster], svc : [Kind -> Uid], sm : Owner]
    BY <1>10, <1>t DEF SyncClusters
  <2> QED BY <1>10, <1>t, <2>1 DEF SyncClusters, controllers, IInv, TypeOK, ObjectInv
<1>11. ASSUME NEW k \in Kind, SyncServices(k) PROVE IInv'
  <2>1. cache' \in [cluster : [Kind -> Cluster], svc : [Kind -> Uid], sm : Owner]
    BY <1>11, <1>t DEF SyncServices
  <2> QED BY <1>11, <1>t, <2>1 DEF SyncServices, controllers, IInv, TypeOK, ObjectInv
<1>12. ASSUME NEW k \in Kind, Reconcile(k) PROVE IInv'
  <2>1. \/ UNCHANGED rec
        \/ mon[k].uid # 0 /\ rec' = [rec EXCEPT ![k] = [pc |-> "sync", obj |-> mon[k]]]
    BY <1>12 DEF Reconcile
  <2>2. rec' \in [Kind -> [pc : {"idle", "sync"}, obj : Object]] /\ ObjectInv'
    <3>1. CASE UNCHANGED rec
      BY <3>1, <1>t DEF ObjectInv
    <3>2. CASE /\ mon[k].uid # 0
               /\ rec' = [rec EXCEPT ![k] = [pc |-> "sync", obj |-> mon[k]]]
      <4>1. mon[k] \in Object
        BY <1>t
      <4>2. rec' \in [Kind -> [pc : {"idle", "sync"}, obj : Object]]
        BY <3>2, <4>1, <1>t
      <4>3. ObjectInv'
        BY <3>2, <1>t DEF ObjectInv
      <4> QED BY <4>2, <4>3
    <3> QED BY <2>1, <3>1, <3>2
  <2>3. queued' \subseteq Kind /\ stopped' \subseteq Kind
    BY <1>12, <1>t DEF Reconcile
  <2> QED BY <1>12, <1>t, <2>2, <2>3 DEF Reconcile, IInv, TypeOK
<1>13. ASSUME NEW k \in Kind, SyncMonitor(k) PROVE IInv'
  <2>1. Control(k, rec[k].obj.uid) \in Owner
    BY <1>13, <1>t, OwnerFacts DEF SyncMonitor, ObjectInv, Object
  <2>2. sm' \in Owner
    BY <1>13, <1>t, <2>1 DEF SyncMonitor
  <2>3. /\ rec' \in [Kind -> [pc : {"idle", "sync"}, obj : Object]]
        /\ queued' \subseteq Kind
        /\ ObjectInv'
    BY <1>13, <1>t, ReturnFacts DEF SyncMonitor
  <2> QED BY <1>13, <1>t, <2>2, <2>3 DEF SyncMonitor, IInv, TypeOK
<1>14. ASSUME NEW k \in Kind, ApiError(k) PROVE IInv'
  <2>1. /\ rec' \in [Kind -> [pc : {"idle", "sync"}, obj : Object]]
        /\ queued' \subseteq Kind
        /\ ObjectInv'
    BY <1>14, <1>t, ReturnFacts DEF ApiError
  <2>2. changes' \in 0..MaxChanges
    BY <1>14, <1>t, ChangeFacts DEF ApiError
  <2> QED BY <1>14, <1>t, <2>1, <2>2 DEF ApiError, IInv, TypeOK
<1>15. CASE UNCHANGED vars
  BY <1>15, <1>t DEF vars, IInv, TypeOK, ObjectInv
<1> QED
  BY <1>1, <1>2, <1>3, <1>4, <1>5, <1>6, <1>7, <1>8, <1>9, <1>10, <1>11, <1>12,
     <1>13, <1>14, <1>15 DEF Next, Controller

\* TypeOK holds in every reachable state: in particular, the ServiceMonitor is
\* never controlled by an object without an UID.
THEOREM TypeCorrect == Spec => []TypeOK
<1>1. IInv => TypeOK
  BY DEF IInv
<1> QED BY <1>1, InitInv, NextInv, PTL DEF Spec

-----------------------------------------------------------------------------
\* SetControllerReference judges the ServiceMonitor that is replaced, or the write
\* is refused: a step that gives it another controller is of its own kind.
LEMMA WriteFacts ==
  ASSUME NEW k \in Kind, SyncMonitor(k), sm' # sm
  PROVE  /\ rec[k].pc = "sync"
         /\ sm' = Control(k, rec[k].obj.uid)
         /\ sm \in {None, Users} \/ sm.by = k
         /\ rec' = [rec EXCEPT ![k] = Idle]
         /\ UNCHANGED mon
<1>1. /\ MayControl(rec[k].obj, k, cache.sm)
      /\ cache.sm = sm
  BY DEF SyncMonitor
<1> QED BY <1>1 DEF SyncMonitor, MayControl, Return

\* The ServiceMonitor starts without a controller of these kinds.
LEMMA InitSuccessor == Init => SuccessorInv
BY DEF Init, SuccessorInv, None, Users, Alien, Control, Kind, Idle

\* The object, the reconcile and the ServiceMonitor follow one another.
LEMMA NextSuccessor == IInv /\ SuccessorInv /\ [Next]_vars => SuccessorInv'
<1> SUFFICES ASSUME IInv, SuccessorInv, [Next]_vars PROVE SuccessorInv'
  OBVIOUS
<1>t. /\ mon \in [Kind -> Object]
      /\ sm \in Owner
      /\ rec \in [Kind -> [pc : {"idle", "sync"}, obj : Object]]
      /\ \A k \in Kind : mon[k].uid \in Int /\ rec[k].obj.uid \in Int
  BY DEF IInv, TypeOK, Object, Uid
<1>0. None.by \notin Kind /\ Users.by \notin Kind /\ Alien.by \notin Kind
  BY DEF None, Users, Alien, Control, Kind
<1>1. CASE OtherMonitor \/ CollectMonitor
  <2>1. sm' \in {None, Users, Alien} /\ UNCHANGED <<mon, rec>>
    BY <1>1 DEF OtherMonitor, CollectMonitor, controllers
  <2> QED BY <2>1, <1>0 DEF SuccessorInv
<1>2. CASE Crash
  BY <1>2, <1>0 DEF Crash, SuccessorInv, Idle
<1>3. ASSUME NEW k \in Kind, CreateMonitoring(k) PROVE SuccessorInv'
  <2>1. PICK uid \in Uid, away \in BOOLEAN :
          Fresh(k, uid) /\ mon' = [mon EXCEPT ![k] = [uid |-> uid, away |-> away]]
    BY <1>3 DEF CreateMonitoring
  <2>2. mon'[k].uid = uid /\ \A j \in Kind \ {k} : mon'[j] = mon[j]
    BY <2>1, <1>t
  <2>3. UNCHANGED <<sm, rec>>
    BY <1>3 DEF CreateMonitoring
  <2>4. uid \in Int /\ sm.by = k => uid > sm.uid /\ sm.uid \in Int
    BY <2>1, <1>t, <1>0 DEF Fresh, Uid, Owner
  <2>5. uid > rec[k].obj.uid /\ uid \in Int
    BY <2>1 DEF Fresh, Uid
  <2> QED BY <2>2, <2>3, <2>4, <2>5, <1>t DEF SuccessorInv
<1>4. ASSUME NEW k \in Kind, DeleteMonitoring(k) PROVE SuccessorInv'
  <2>1. mon'[k].uid = 0 /\ \A j \in Kind \ {k} : mon'[j] = mon[j]
    BY <1>4, <1>t DEF DeleteMonitoring, NoObject
  <2> QED BY <1>4, <2>1 DEF DeleteMonitoring, SuccessorInv
<1>5. ASSUME NEW k \in Kind, Reconcile(k) PROVE SuccessorInv'
  <2>1. UNCHANGED <<mon, sm>>
    BY <1>5 DEF Reconcile
  <2>2. CASE UNCHANGED rec
    BY <2>1, <2>2 DEF SuccessorInv
  <2>3. CASE mon[k].uid # 0 /\ rec' = [rec EXCEPT ![k] = [pc |-> "sync", obj |-> mon[k]]]
    <3>1. rec'[k].obj = mon[k] /\ \A j \in Kind \ {k} : rec'[j] = rec[j]
      BY <2>3, <1>t
    <3> QED BY <2>1, <2>3, <3>1, <1>t DEF SuccessorInv
  <2> QED BY <1>5, <2>2, <2>3 DEF Reconcile
<1>6. ASSUME NEW k \in Kind, SyncMonitor(k) PROVE SuccessorInv'
  <2>1. rec'[k].pc = "idle" /\ (\A j \in Kind \ {k} : rec'[j] = rec[j]) /\ UNCHANGED mon
    BY <1>6, <1>t DEF SyncMonitor, Return, Idle
  <2>2. CASE sm' = sm
    BY <2>1, <2>2 DEF SuccessorInv
  <2>3. CASE sm' # sm
    <3>1. rec[k].pc = "sync" /\ sm'.by = k /\ sm'.uid = rec[k].obj.uid
      BY <1>6, <2>3, WriteFacts DEF Control
    <3> QED BY <2>1, <3>1 DEF SuccessorInv
  <2> QED BY <2>2, <2>3
<1>7. ASSUME NEW k \in Kind, ApiError(k) PROVE SuccessorInv'
  <2>1. rec'[k].pc = "idle" /\ \A j \in Kind \ {k} : rec'[j] = rec[j]
    BY <1>7, <1>t DEF ApiError, Return, Idle
  <2> QED BY <1>7, <2>1 DEF ApiError, SuccessorInv
<1>8. CASE UNCHANGED <<mon, sm, rec>>
  BY <1>8 DEF SuccessorInv
<1>9. \/ OtherMonitor \/ CollectMonitor \/ Crash
      \/ \E k \in Kind : \/ CreateMonitoring(k) \/ DeleteMonitoring(k)
                         \/ Reconcile(k) \/ SyncMonitor(k) \/ ApiError(k)
      \/ UNCHANGED <<mon, sm, rec>>
  BY DEF Next, vars, controllers, SyncMonitors, ChangeCluster, ClusterController,
         CollectService, SyncClusters, SyncServices, Controller
<1> QED BY <1>1, <1>2, <1>3, <1>4, <1>5, <1>6, <1>7, <1>8, <1>9

\* A step gives the ServiceMonitor to nobody, or to a later object of its kind.
LEMMA StepHandsOn ==
  ASSUME IInv, SuccessorInv, [Next]_vars
  PROVE  [(sm \in {None, Users}) \/ (sm' = None) \/ HandedOn(sm, sm')]_sm
<1>1. CASE OtherMonitor
  BY <1>1 DEF OtherMonitor
<1>2. CASE CollectMonitor
  BY <1>2 DEF CollectMonitor
<1>3. ASSUME NEW k \in Kind, SyncMonitor(k)
      PROVE  [(sm \in {None, Users}) \/ (sm' = None) \/ HandedOn(sm, sm')]_sm
  <2>1. CASE sm' = sm \/ sm \in {None, Users}
    BY <2>1
  <2>2. CASE sm' # sm /\ sm \notin {None, Users}
    <3>1. rec[k].pc = "sync" /\ sm' = Control(k, rec[k].obj.uid) /\ sm.by = k
      BY <1>3, <2>2, WriteFacts
    <3>2. rec[k].obj.uid >= sm.uid
      BY <3>1 DEF SuccessorInv
    <3>3. sm \in [by : Kind, uid : Uid \ {0}] /\ rec[k].obj.uid \in Uid
      BY <3>1 DEF IInv, TypeOK, Owner, Object, Alien, Control, None, Users, Kind
    <3>4. sm = Control(sm.by, sm.uid)
      BY <3>3 DEF Control
    <3>5. rec[k].obj.uid # sm.uid
      BY <2>2, <3>1, <3>4
    <3>6. sm'.by = k /\ sm'.uid = rec[k].obj.uid
      BY <3>1 DEF Control
    <3>7. sm'.uid > sm.uid
      BY <3>2, <3>3, <3>5, <3>6 DEF Uid
    <3> QED BY <3>1, <3>6, <3>7 DEF HandedOn
  <2> QED BY <2>1, <2>2
<1>4. CASE UNCHANGED sm
  BY <1>4
<1>5. \/ OtherMonitor \/ CollectMonitor
      \/ \E k \in Kind : SyncMonitor(k)
      \/ UNCHANGED sm
  BY DEF Next, vars, SyncMonitors, Crash, CreateMonitoring, DeleteMonitoring, ChangeCluster,
         ClusterController, CollectService, SyncClusters, SyncServices, Controller,
         Reconcile, ApiError
<1> QED BY <1>1, <1>2, <1>3, <1>4, <1>5

\* The ServiceMonitor stays with one kind until it is removed, and goes only from
\* an object to a later one, for every cache and every interleaving of the two
\* controllers with the users who delete and create their objects.
THEOREM NothingTakenOver == Spec => NeverTakenOver
<1>1. Init => IInv /\ SuccessorInv
  BY InitInv, InitSuccessor
<1>2. IInv /\ SuccessorInv /\ [Next]_vars => (IInv /\ SuccessorInv)'
  BY NextInv, NextSuccessor
<1>3. IInv /\ SuccessorInv /\ [Next]_vars
        => [(sm \in {None, Users}) \/ (sm' = None) \/ HandedOn(sm, sm')]_sm
  BY StepHandsOn
<1> QED BY <1>1, <1>2, <1>3, PTL DEF Spec, NeverTakenOver
=============================================================================
