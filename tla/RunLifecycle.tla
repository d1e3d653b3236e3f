---------------------------- MODULE RunLifecycle -----------------------------
(***************************************************************************)
(* What the runner promises of one run to those who poll it and to those   *)
(* who read its event log: queued, then running, then terminal, once; one  *)
(* outcome, decided in the record first and announced in the log second;   *)
(* what can be seen never changes afterwards.  A run leaves the system     *)
(* either unannounced, while it is still queued, or after its end, the log *)
(* before the record.                                                      *)
(***************************************************************************)
CONSTANTS Runs, Outcomes, NoOutcome

VARIABLES
  phase,      \* phase[r]: "absent" | "queued" | "running" | "terminal"
  outcome,    \* outcome[r]: the outcome in the record of r
  announced,  \* announced[r]: the outcome in the terminal event of r
  open        \* open[r]: r has an event log

vars == <<phase, outcome, announced, open>>

Init ==
  /\ phase = [r \in Runs |-> "absent"]
  /\ outcome = [r \in Runs |-> NoOutcome]
  /\ announced = [r \in Runs |-> NoOutcome]
  /\ open = [r \in Runs |-> FALSE]

Enter(r) ==
  /\ phase[r] = "absent"
  /\ phase' = [phase EXCEPT ![r] = "queued"]
  /\ UNCHANGED <<outcome, announced, open>>

OpenLog(r) ==
  /\ phase[r] = "queued" /\ ~open[r]
  /\ open' = [open EXCEPT ![r] = TRUE]
  /\ UNCHANGED <<phase, outcome, announced>>

Start(r) ==
  /\ phase[r] = "queued" /\ open[r]
  /\ phase' = [phase EXCEPT ![r] = "running"]
  /\ UNCHANGED <<outcome, announced, open>>

Finish(r) ==
  /\ phase[r] = "running" /\ open[r]
  /\ phase' = [phase EXCEPT ![r] = "terminal"]
  /\ \E o \in Outcomes : outcome' = [outcome EXCEPT ![r] = o]
  /\ UNCHANGED <<announced, open>>

Announce(r) ==
  /\ phase[r] = "terminal" /\ open[r] /\ announced[r] = NoOutcome
  /\ announced' = [announced EXCEPT ![r] = outcome[r]]
  /\ UNCHANGED <<phase, outcome, open>>

CloseLog(r) ==
  /\ open[r]
  /\ phase[r] = "queued" \/ announced[r] # NoOutcome
  /\ open' = [open EXCEPT ![r] = FALSE]
  /\ announced' = [announced EXCEPT ![r] = NoOutcome]
  /\ UNCHANGED <<phase, outcome>>

Leave(r) ==
  /\ phase[r] \in {"queued", "terminal"} /\ ~open[r]
  /\ phase' = [phase EXCEPT ![r] = "absent"]
  /\ outcome' = [outcome EXCEPT ![r] = NoOutcome]
  /\ UNCHANGED <<announced, open>>

Next ==
  \E r \in Runs :
    \/ Enter(r) \/ OpenLog(r) \/ Start(r) \/ Finish(r)
    \/ Announce(r) \/ CloseLog(r) \/ Leave(r)

Spec == Init /\ [][Next]_vars
==============================================================================
