----------------------------- MODULE Lifecycle -----------------------------
(***************************************************************************)
(* What a cluster resource (a Storage or a Database) promises to those who *)
(* watch its status: the state goes through the stages of the pipeline in  *)
(* order, a stage is left only after its condition was reported True, and  *)
(* once the resource is reported initialized it stays so.  The promise is  *)
(* void for what the controller writes from a copy of the object that      *)
(* lacks its own last status write.                                        *)
(***************************************************************************)
VARIABLES
  state,  \* status.state
  done,   \* the set of stages whose condition is reported True
  behind  \* the controller works on a copy that lacks its last status write

vars == <<state, done>>

\* The stages whose condition gates a state.
Stage == {"Prepared", "Initialized", "Provisioned"}

Init == state = "Pending" /\ done = {} /\ behind = FALSE

\* Conditions may change in any step, but initialization is never taken back.
DoneChanges ==
  /\ done' \in SUBSET Stage
  /\ "Initialized" \in done => "Initialized" \in done'

Start == state = "Pending" /\ state' = "Preparing" /\ DoneChanges

\* The stage that must be done to leave a state, and the states after it.
Advance(from, stage, to) ==
  /\ state = from
  /\ stage \in done
  /\ state' \in to
  /\ DoneChanges

Report == UNCHANGED state /\ DoneChanges

Toggle ==
  /\ state \in {"Ready", "Paused"}
  /\ state' \in {"Ready", "Paused"} \ {state}
  /\ "Provisioned" \in done
  /\ DoneChanges

\* A write from such a copy.
Slip == behind /\ done' \in SUBSET Stage

Next ==
  \/ Start
  \/ Advance("Preparing", "Prepared", {"Initializing"})
  \/ Advance("Initializing", "Initialized", {"Provisioning"})
  \/ Advance("Provisioning", "Provisioned", {"Ready", "Paused"})
  \/ Toggle
  \/ Report
  \/ Slip

Spec == Init /\ [][Next]_vars
=============================================================================
