----------------------------- MODULE Conditions -----------------------------
(***************************************************************************)
(* Status conditions of the operator's custom resources.                   *)
(*                                                                         *)
(* A resource's status carries a list of conditions, each with a type, a   *)
(* status and the generation it was observed at.  The controllers read and *)
(* write the list only through k8s.io/apimachinery's meta.*StatusCondition *)
(* helpers, keyed by type, so the list is a function from condition types  *)
(* to a status; "Absent" stands for a type that is not in the list.  Where *)
(* a controller reads the observed generation too, its module pairs the    *)
(* status with it.                                                         *)
(***************************************************************************)

CondStatus == {"Absent", "Unknown", "True", "False"}

\* meta.IsStatusConditionTrue and meta.IsStatusConditionFalse.
IsStatusConditionTrue(conds, type)  == conds[type] = "True"
IsStatusConditionFalse(conds, type) == conds[type] = "False"

\* meta.SetStatusCondition.
SetStatusCondition(conds, type, status) == [conds EXCEPT ![type] = status]

\* status.Conditions == nil: no condition was ever written.
NoConditions(conds) == \A type \in DOMAIN conds : conds[type] = "Absent"

\* The values of the status.state field of a cluster, in the order the
\* pipeline of Sync steps goes through them (Ready and Paused are its ends).
ClusterState == {"Pending", "Preparing", "Initializing", "Provisioning",
                 "Ready", "Paused"}
=============================================================================
