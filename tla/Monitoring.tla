----------------------------- MODULE Monitoring -----------------------------
(***************************************************************************)
(* The StorageMonitoring and DatabaseMonitoring controllers: each waits    *)
(* until the cluster that its object refers to is Ready, looks for the     *)
(* status Service of that cluster, and creates the ServiceMonitor that     *)
(* makes Prometheus scrape it.  The ServiceMonitor has the name of the     *)
(* monitoring object and the namespace of the cluster.  A webhook refuses  *)
(* a monitoring object when a ServiceMonitor of its name exists.           *)
(*                                                                         *)
(* The module has one object of each kind, of the same name, for two       *)
(* clusters of one namespace: both want the same ServiceMonitor.  The      *)
(* clusters' own controllers, the users and the garbage collector are the  *)
(* environment.  Clusters and monitoring objects are told apart by their   *)
(* UIDs; a monitoring object is read as it is, the rest from caches that   *)
(* lag.                                                                    *)
(***************************************************************************)
EXTENDS Integers

CONSTANTS
  MaxUid,      \* bound on the objects of one kind that come after one another
  MaxChanges   \* bound on what users do

ASSUME MonitoringAssumption == MaxUid \in Nat \ {0} /\ MaxChanges \in Nat

Kind == {"storage", "database"}

VARIABLES
  mon,      \* the monitoring objects: their UID (0: there is none), and whether
            \* they are in another namespace than the cluster
  cluster,  \* the clusters: UID (0: there is none) and whether they are Ready
  svc,      \* the status Services: the UID of their owner (0: there is none)
  sm,       \* the ServiceMonitor: who controls it
  cache,    \* the operator's copies of the last three
  queued,   \* the kinds whose workqueue holds a request
  rec,      \* the reconciles in flight: their next step and the monitoring
            \* object they are for
  stopped,  \* the kinds whose last reconcile found no Service (history)
  robbed,   \* the kinds whose ServiceMonitor was deleted by a user (history)
  changes   \* actions of users so far

vars == <<mon, cluster, svc, sm, cache, queued, rec, stopped, robbed, changes>>
controllers == <<queued, rec, stopped>>

Uid == 0..MaxUid

\* Mutation: the reference names the object, and not its UID.
ControlByName(k, uid) == [by |-> k, uid |-> 0]

\* Nobody, a user (there is no controller), another controller, or a
\* monitoring object.
Control(k, uid) == [by |-> k, uid |-> uid]
None  == Control("none", 0)
Users == Control("user", 0)
Alien == Control("other", 0)

Owner == {None, Users, Alien} \cup [by : Kind, uid : Uid \ {0}]

NoCluster == [uid |-> 0, ready |-> FALSE]
Cluster == [uid : Uid, ready : BOOLEAN]

NoObject == [uid |-> 0, away |-> FALSE]
Object == [uid : Uid, away : BOOLEAN]

Idle == [pc |-> "idle", obj |-> NoObject]

TypeOK ==
  /\ mon \in [Kind -> Object]
  /\ cluster \in [Kind -> Cluster]
  /\ svc \in [Kind -> Uid]
  /\ sm \in Owner
  /\ cache \in [cluster : [Kind -> Cluster], svc : [Kind -> Uid], sm : Owner]
  /\ queued \subseteq Kind
  /\ rec \in [Kind -> [pc : {"idle", "sync"}, obj : Object]]
  /\ stopped \subseteq Kind
  /\ robbed \subseteq Kind
  /\ changes \in 0..MaxChanges

\* Two clusters that have just been created, and perhaps a ServiceMonitor.
Init ==
  /\ mon = [k \in Kind |-> NoObject]
  /\ cluster = [k \in Kind |-> [uid |-> 1, ready |-> FALSE]]
  /\ svc = [k \in Kind |-> 0]
  /\ sm \in {None, Users, Alien}
  /\ cache = [cluster |-> cluster, svc |-> svc, sm |-> sm]
  /\ queued = {}
  /\ rec = [k \in Kind |-> Idle]
  /\ stopped = {}
  /\ robbed = {}
  /\ changes = 0

-----------------------------------------------------------------------------
(***************************************************************************)
(* Users and the other controllers.                                        *)
(***************************************************************************)
Change == changes < MaxChanges /\ changes' = changes + 1

\* ensureNoServiceMonitor looks in the namespace of the monitoring object, and
\* only the ServiceMonitor in the namespace of the clusters is modelled.
Admitted(away) == away \/ cache.sm = None

\* A UID is not used again: the next one is above those that are still known.
Fresh(k, uid) ==
  /\ uid > mon[k].uid
  /\ sm.by = k => uid > sm.uid
  /\ cache.sm.by = k => uid > cache.sm.uid
  /\ uid > rec[k].obj.uid

CreateMonitoring(k) ==
  /\ Change
  /\ mon[k].uid = 0
  /\ \E uid \in Uid, away \in BOOLEAN :
       /\ Fresh(k, uid)
       /\ Admitted(away)
       /\ mon' = [mon EXCEPT ![k] = [uid |-> uid, away |-> away]]
  /\ queued' = queued \cup {k}
  /\ robbed' = robbed \ {k}
  /\ UNCHANGED <<cluster, svc, sm, cache, rec, stopped>>

DeleteMonitoring(k) ==
  /\ Change
  /\ mon[k].uid # 0
  /\ mon' = [mon EXCEPT ![k] = NoObject]
  /\ queued' = queued \cup {k}
  /\ UNCHANGED <<cluster, svc, sm, cache, rec, stopped, robbed>>

\* A user, or another controller, deletes the ServiceMonitor or makes one.  (One
\* that the operator has seen: a watch shows a creation before the deletion.)
OtherMonitor ==
  /\ Change
  /\ \/ sm = None /\ sm' \in {Users, Alien} /\ UNCHANGED robbed
     \/ sm # None /\ cache.sm = sm /\ sm' = None
        /\ robbed' = robbed \cup (Kind \cap {sm.by})
  /\ UNCHANGED <<mon, cluster, svc, cache, controllers>>

\* A cluster is deleted, another one of its name is created, one is paused; its
\* Service is deleted by mistake.
ChangeCluster(k) ==
  /\ Change
  /\ \/ cluster[k].uid # 0 /\ cluster' = [cluster EXCEPT ![k] = NoCluster]
        /\ UNCHANGED svc
     \/ /\ cluster[k].uid = 0
        /\ \E uid \in Uid : uid > svc[k] /\ uid > cache.svc[k]
                            /\ uid > cache.cluster[k].uid
                            /\ cluster' = [cluster EXCEPT ![k].uid = uid]
        /\ UNCHANGED svc
     \/ cluster[k].ready /\ cluster' = [cluster EXCEPT ![k].ready = FALSE]
        /\ UNCHANGED svc
     \/ svc[k] # 0 /\ svc' = [svc EXCEPT ![k] = 0] /\ UNCHANGED cluster
  /\ UNCHANGED <<mon, sm, cache, controllers, robbed>>

\* The controller of the cluster builds the Service again, and ends up Ready.
ClusterController(k) ==
  /\ cluster[k].uid # 0
  /\ \/ svc[k] = 0 /\ svc' = [svc EXCEPT ![k] = cluster[k].uid]
        /\ UNCHANGED cluster
     \/ svc[k] = cluster[k].uid /\ ~cluster[k].ready
        /\ cluster' = [cluster EXCEPT ![k].ready = TRUE] /\ UNCHANGED svc
  /\ UNCHANGED <<mon, sm, cache, controllers, robbed, changes>>

\* The garbage collector removes what belongs to an object that is gone.
CollectService(k) ==
  /\ svc[k] # 0 /\ svc[k] # cluster[k].uid
  /\ svc' = [svc EXCEPT ![k] = 0]
  /\ UNCHANGED <<mon, cluster, sm, cache, controllers, robbed, changes>>

CollectMonitor ==
  /\ sm.by \in Kind /\ mon[sm.by].uid # sm.uid
  /\ sm' = None
  /\ UNCHANGED <<mon, cluster, svc, cache, controllers, robbed, changes>>

\* Only the controller of DatabaseMonitoring watches the ServiceMonitors that
\* it owns.
Watches(k) == k = "database"

SyncClusters(k) ==
  /\ cache.cluster[k] # cluster[k]
  /\ cache' = [cache EXCEPT !.cluster[k] = cluster[k]]
  /\ UNCHANGED <<mon, cluster, svc, sm, controllers, robbed, changes>>

SyncServices(k) ==
  /\ cache.svc[k] # svc[k]
  /\ cache' = [cache EXCEPT !.svc[k] = svc[k]]
  /\ UNCHANGED <<mon, cluster, svc, sm, controllers, robbed, changes>>

SyncMonitors ==
  /\ cache.sm # sm
  /\ cache' = [cache EXCEPT !.sm = sm]
  /\ queued' = queued \cup {k \in Kind : Watches(k) /\ k \in {sm.by, cache.sm.by}}
  /\ UNCHANGED <<mon, cluster, svc, sm, rec, stopped, robbed, changes>>

-----------------------------------------------------------------------------
(***************************************************************************)
(* The two controllers.                                                    *)
(***************************************************************************)
Return(k, requeue) ==
  /\ rec' = [rec EXCEPT ![k] = Idle]
  /\ queued' = IF requeue THEN queued \cup {k} ELSE queued

\* Mutation: nothing is tried again while the cluster is not ready.
NoRetry(found) == FALSE

\* waitForStorage and waitForDatabase: another try after a delay, until the
\* cluster is Ready.
Retry(found) == ~found.ready

\* Reconcile up to the ServiceMonitor.  Without a Service of the cluster
\* (findService) it stops, and asks for no other try.
Reconcile(k) ==
  /\ rec[k].pc = "idle"
  /\ k \in queued
  /\ LET found == cache.cluster[k]
         has == cache.svc[k] = found.uid
     IN  \/ /\ mon[k].uid = 0
            /\ queued' = queued \ {k}
            /\ UNCHANGED <<rec, stopped>>
         \/ /\ mon[k].uid # 0 /\ ~found.ready
            /\ queued' = IF Retry(found) THEN queued ELSE queued \ {k}
            /\ UNCHANGED <<rec, stopped>>
         \/ /\ mon[k].uid # 0 /\ found.ready /\ ~has
            /\ queued' = queued \ {k}
            /\ stopped' = stopped \cup {k}
            /\ UNCHANGED rec
         \/ /\ mon[k].uid # 0 /\ found.ready /\ has
            /\ queued' = queued \ {k}
            /\ rec' = [rec EXCEPT ![k] = [pc |-> "sync", obj |-> mon[k]]]
            /\ stopped' = stopped \ {k}
  /\ UNCHANGED <<mon, cluster, svc, sm, cache, robbed, changes>>

\* Mutation: the ServiceMonitor is taken from its controller.
TakesOver(obj, k, owner) == ~obj.away

\* SetControllerReference refuses an owner in another namespace, and an object
\* that something else controls.  It tells controllers apart by their kind and
\* name and not by their UID: what a former object of this name controls is
\* handed on to the present one.
MayControl(obj, k, owner) ==
  ~obj.away /\ (owner \in {None, Users} \/ owner.by = k)

\* CreateOrUpdateOrMaybeIgnore of the ServiceMonitor: it reads the cache; the API
\* server refuses to create what exists and to update what is not the latest.
SyncMonitor(k) ==
  /\ rec[k].pc = "sync"
  /\ LET mine == Control(k, rec[k].obj.uid)
         may == MayControl(rec[k].obj, k, cache.sm)
     IN  \/ /\ may /\ cache.sm # mine /\ cache.sm = sm
            /\ sm' = mine
            /\ Return(k, FALSE)
         \/ /\ cache.sm = mine
            /\ Return(k, FALSE)
            /\ UNCHANGED sm
         \/ /\ cache.sm # mine
            /\ ~may \/ cache.sm # sm
            /\ Return(k, TRUE)
            /\ UNCHANGED sm
  /\ UNCHANGED <<mon, cluster, svc, cache, stopped, robbed, changes>>

\* A read or a write fails.
ApiError(k) ==
  /\ Change
  /\ rec[k].pc = "sync"
  /\ Return(k, TRUE)
  /\ UNCHANGED <<mon, cluster, svc, sm, cache, stopped, robbed>>

\* The operator restarts: every monitoring object comes as new.
Crash ==
  /\ Change
  /\ rec' = [k \in Kind |-> Idle]
  /\ queued' = {k \in Kind : mon[k].uid # 0}
  /\ cache' = [cluster |-> cluster, svc |-> svc, sm |-> sm]
  /\ UNCHANGED <<mon, cluster, svc, sm, stopped, robbed>>

Controller(k) == Reconcile(k) \/ SyncMonitor(k)

Next ==
  \/ OtherMonitor \/ CollectMonitor \/ SyncMonitors \/ Crash
  \/ \E k \in Kind :
       \/ CreateMonitoring(k) \/ DeleteMonitoring(k) \/ ChangeCluster(k)
       \/ ClusterController(k) \/ CollectService(k)
       \/ SyncClusters(k) \/ SyncServices(k)
       \/ Controller(k) \/ ApiError(k)

\* Each controller goes on, informers deliver, garbage is collected.
Fairness ==
  /\ WF_vars(CollectMonitor) /\ WF_vars(SyncMonitors)
  /\ \A k \in Kind :
       /\ WF_vars(ClusterController(k)) /\ WF_vars(CollectService(k))
       /\ WF_vars(SyncClusters(k)) /\ WF_vars(SyncServices(k))
       /\ WF_vars(Controller(k))

Spec == Init /\ [][Next]_vars /\ Fairness

-----------------------------------------------------------------------------
\* Two monitoring objects of one name never fight over the ServiceMonitor: until
\* it is removed it stays with one kind, whatever the caches show.  Within the
\* kind it goes from an object to a later one of the name and never back, though
\* a reconcile for the former object may still be in flight.
HandedOn(from, to) == to.by = from.by /\ to.uid > from.uid

NeverTakenOver ==
  [][(sm \in {None, Users}) \/ (sm' = None) \/ HandedOn(sm, sm')]_sm

\* A monitoring object in the namespace of its cluster gets its ServiceMonitor
\* once the cluster is there, though the cluster becomes Ready much later and a
\* former object of the name has left its ServiceMonitor behind, to be handed on
\* or to be collected and made again.  It may miss it
\* only because another controller has the name, because the Service was not
\* there when the cluster was Ready (nothing tries again), or because a user
\* deletes the ServiceMonitor of a StorageMonitoring (nothing watches it).
EventuallyMonitored ==
  \A k \in Kind :
    <>[](mon[k].uid # 0 /\ ~mon[k].away /\ cluster[k].uid # 0) =>
      \/ <>[](sm = Control(k, mon[k].uid))
      \/ <>[](sm.by \in (Kind \cup {"other"}) \ {k})
      \/ <>[](k \in stopped)
      \/ <>[](k \in robbed /\ ~Watches(k))
=============================================================================
