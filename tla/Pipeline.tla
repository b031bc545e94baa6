------------------------------ MODULE Pipeline ------------------------------
(***************************************************************************)
(* The parts of the Sync pipeline that the Storage, Database and NodeSet   *)
(* controllers share: how the goal of a resource (running or paused) is    *)
(* reported in its status.  A status is a record with at least the fields  *)
(* state and conds; the operators leave its other fields alone.            *)
(***************************************************************************)
EXTENDS Conditions

\* The condition, and the state, that a resource is heading for.
Goal(pause) == IF pause THEN "Paused" ELSE "Ready"

WithCond(st, type, status) ==
  [st EXCEPT !.conds = SetStatusCondition(@, type, status)]

WithStateAndCond(st, state, type, status) ==
  [WithCond(st, type, status) EXCEPT !.state = state]

\* setInitialStatus: the first status of a resource that has no conditions.
InitialStatus(st, pause) == WithCond(st, Goal(pause), "Unknown")

\* Mutation: the condition of the goal that was left is not reset.
PauseResumeWithoutReset(st, pause) ==
  WithStateAndCond(st, Goal(pause), Goal(pause), "True")

\* handlePauseResume: the status it writes, or st when there is nothing to do.
PauseResume(st, pause) ==
  CASE st.state = "Provisioning" ->
         WithStateAndCond(st, Goal(pause), Goal(pause), "True")
    [] st.state = "Ready" /\ pause ->
         WithStateAndCond(st, "Paused", "Ready", "False")
    [] st.state = "Paused" /\ ~pause ->
         WithStateAndCond(st, "Ready", "Paused", "False")
    [] OTHER ->
         WithCond(st, Goal(pause), "True")

\* The head of updateStatus: a failed stage makes the goal condition False.
Degrade(st, stages, pause) ==
  IF \E c \in stages : IsStatusConditionFalse(st.conds, c)
  THEN WithCond(st, Goal(pause), "False")
  ELSE st
=============================================================================
