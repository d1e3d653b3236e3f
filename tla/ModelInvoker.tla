---------------------------- MODULE ModelInvoker ----------------------------
(***************************************************************************)
(* StructuredModelInvoker of agent/modeling.py over the budget of one run: *)
(* every call of the model is reserved before it is made, settled or       *)
(* charged in full when it ends, and traced.  A malformed answer may be    *)
(* asked for once more, out of the repair budget that the graph's nodes    *)
(* share.  The nodes run one at a time; between two invocations they use   *)
(* the ledger themselves.                                                  *)
(*                                                                         *)
(* The only await of an invocation is the model's answer; what lies        *)
(* between two awaits is cut into steps only where the clock is read, so   *)
(* that the deadline can fall in between.  The model answers, fails or is  *)
(* cancelled (the runner's timeout or shutdown); what it reports of its    *)
(* usage is arbitrary.                                                     *)
(***************************************************************************)
EXTENDS BudgetLedger, Sequences, SequencesExt

CONSTANTS
    Costs,     \* what a call may cost: projected, or computed from its usage
    Purposes,  \* what the nodes call the model for
    NoRes      \* the value of "held" when no call is under way

ModelPurposes == {"behavior", "plan", "action", "synthesis", "repair"}

\* _REPAIRABLE_PURPOSES
Repairable == ModelPurposes \ {"repair"}

ASSUME CostsAssumption ==
    /\ Costs \subseteq Nat
    /\ Purposes \subseteq ModelPurposes
    /\ NoRes \notin ModelReservation

VARIABLES
    phase,   \* where the invocation stands
    held,    \* its local "reservation" or "repair_reservation"
    purpose, \* purpose of the request
    traces,  \* the model calls of the trace recorder
    record,  \* outcome of the last invocation's RepairRecord, or "none"
    result   \* "output", or the stop reason of its StructuredInvocationError

invokerVars == <<phase, held, purpose, traces, record, result>>
vars == <<ledgerVars, invokerVars>>

Phases == {"idle",        \* no invocation
           "calling",     \* awaits the first answer
           "repairing",   \* the first answer is malformed: consume_repair
           "rereserving", \* reserve_model_call for the repair
           "recalling",   \* awaits the answer of the repair
           "cancelled"}   \* CancelledError went up: the run is over

ModelCallTrace ==
    [purpose : ModelPurposes, outcome : {"completed", "failed", "cancelled"}, cost : Nat]

Records == {"none", "blocked", "failed", "success"}

Results ==
    {"none", "output", "task_timeout", "llm_call_limit", "cost_hard_cap",
     "model_unavailable", "structured_output_invalid", "repair_failed", "internal_error"}

Init ==
    /\ LedgerInit
    /\ phase = "idle"
    /\ held = NoRes
    /\ purpose \in Purposes
    /\ traces = <<>>
    /\ record = "none"
    /\ result = "none"

Awaiting == phase \in {"calling", "recalling"}

-----------------------------------------------------------------------------
(***************************************************************************)
(* invoke, up to its await.  A refusal of the ledger, or an exception in   *)
(* the projection of the cost, changes neither the ledger nor the traces.  *)
(***************************************************************************)
Reserve(cost, next) ==
    /\ held' = [id |-> snapshot.llm_calls + 1, cost |-> cost]
    /\ reserve_model_call(held')
    /\ phase' = next
    /\ UNCHANGED <<expired, traces>>

Invoke(p, cost) ==
    /\ phase = "idle"
    /\ Reserve(cost, "calling")
    /\ purpose' = p
    /\ record' = "none"
    /\ result' = "none"

\* BUDGET_EXCEEDED, BUDGET_RESERVATION_FAILED
InvokeRefused(p, cost) ==
    /\ phase = "idle"
    /\ purpose' = p
    /\ record' = "none"
    /\ result' \in {ReserveLimit(cost), "internal_error"} \ {"none"}
    /\ UNCHANGED <<ledgerVars, phase, held, traces>>

-----------------------------------------------------------------------------
(***************************************************************************)
(* The end of a call.  _settle_or_fail and _settle_model_error settle what *)
(* was used if they can, and otherwise charge all that was reserved; the   *)
(* trace carries the one or the other.  priced = FALSE stands for usage that *)
(* is missing, lies outside the price bracket, or is of a model without a  *)
(* price.                                                                  *)
(***************************************************************************)
Account(actual, priced) ==
    \/ settle_model_call(held, actual, priced)
    \/ /\ ~Settles(held, actual, priced)
       /\ fail_model_call(held)

Traced(outcome, cost) ==
    traces' = Append(traces, [purpose |-> IF phase = "recalling" THEN "repair" ELSE purpose,
                              outcome |-> outcome,
                              cost |-> cost])

\* The cost of the trace of a call that ended by Account.
Accounted(actual, priced) ==
    IF Settles(held, actual, priced) THEN actual ELSE held.cost

\* The invocation is over, with RepairRecord outcome r; res is what it returns
\* or the stop reason it raises.
Return(r, res) ==
    /\ phase' = "idle"
    /\ held' = NoRes
    /\ record' = r
    /\ result' = res
    /\ UNCHANGED <<expired, purpose>>

\* The model returned a StructuredModelResult.
Answered(actual, priced) ==
    /\ Awaiting
    /\ Account(actual, priced)
    /\ IF Settles(held, actual, priced)
       THEN /\ Traced("completed", actual)
            /\ Return(IF phase = "recalling" THEN "success" ELSE "none", "output")
       ELSE /\ Traced("failed", held.cost)
            /\ IF phase = "recalling"
               THEN Return("failed", "repair_failed")
               ELSE Return("none", "internal_error")

\* _stop_reason of the failures the adapters report: the provider failed, or
\* answered what is not the asked JSON.  finish_reason "cut" is LENGTH or
\* CONTENT_FILTER.
StopReasonOf(category) ==
    IF category = "unavailable" THEN "model_unavailable" ELSE "structured_output_invalid"

AllowsRepair(category, cut) ==
    purpose \in Repairable /\ category = "malformed" /\ ~cut

FirstCallFailed(actual, priced, category, cut) ==
    /\ phase = "calling"
    /\ Account(actual, priced)
    /\ Traced("failed", Accounted(actual, priced))
    /\ IF AllowsRepair(category, cut)
       THEN /\ phase' = "repairing"
            /\ held' = NoRes
            /\ UNCHANGED <<expired, purpose, record, result>>
       ELSE Return("none", StopReasonOf(category))

ConsumeRepair ==
    /\ phase = "repairing"
    /\ \/ /\ consume_repair(TRUE)
          /\ phase' = "rereserving"
          /\ UNCHANGED <<expired, held, purpose, record, result>>
       \/ /\ RepairLimit # "none"
          /\ Return("blocked", RepairLimit)
          /\ UNCHANGED <<snapshot, reservations>>
    /\ UNCHANGED traces

\* Mutant: a repair that was never called is recorded as failed.
RepairCallMisreported(cost) ==
    /\ phase = "rereserving"
    /\ \/ /\ Reserve(cost, "recalling")
          /\ UNCHANGED <<purpose, record, result>>
       \/ /\ Return("failed", "repair_failed")
          /\ UNCHANGED <<snapshot, reservations, traces>>

\* The repair's reservation may also fail without a limit (its cost cannot be
\* projected): blocked as well, with the repair consumed.
RepairCall(cost) ==
    /\ phase = "rereserving"
    /\ \/ /\ Reserve(cost, "recalling")
          /\ UNCHANGED <<purpose, record, result>>
       \/ /\ \E reason \in {ReserveLimit(cost), "internal_error"} \ {"none"} :
                Return("blocked", reason)
          /\ UNCHANGED <<snapshot, reservations, traces>>

RepairCallFailed(actual, priced) ==
    /\ phase = "recalling"
    /\ Account(actual, priced)
    /\ Traced("failed", Accounted(actual, priced))
    /\ Return("failed", "repair_failed")

\* Mutant: a cancelled call is traced and not charged.
CancelUncharged ==
    /\ Awaiting
    /\ Traced("cancelled", held.cost)
    /\ phase' = "cancelled"
    /\ held' = NoRes
    /\ UNCHANGED <<ledgerVars, purpose, record, result>>

\* asyncio.CancelledError at the await: _cancel charges the reservation.
Cancel ==
    /\ Awaiting
    /\ fail_model_call(held)
    /\ Traced("cancelled", held.cost)
    /\ phase' = "cancelled"
    /\ held' = NoRes
    /\ UNCHANGED <<expired, purpose, record, result>>

-----------------------------------------------------------------------------
(***************************************************************************)
(* The nodes' own use of the ledger.                                       *)
(***************************************************************************)
NodeConsumes ==
    /\ phase = "idle"
    /\ \/ \E type \in ActionTypes : consume_tool(type)
       \/ consume_action_loop
       \/ consume_repair(FALSE)
    /\ UNCHANGED <<expired, invokerVars>>

Clock == Expire /\ UNCHANGED invokerVars

\* What wakes or continues an invocation.
Progress ==
    \/ \E actual \in Costs, priced \in BOOLEAN :
          \/ Answered(actual, priced)
          \/ \E category \in {"unavailable", "malformed"}, cut \in BOOLEAN :
                FirstCallFailed(actual, priced, category, cut)
          \/ RepairCallFailed(actual, priced)
    \/ ConsumeRepair
    \/ \E cost \in Costs : RepairCall(cost)
    \/ Cancel

Next ==
    \/ \E p \in Purposes, cost \in Costs : Invoke(p, cost) \/ InvokeRefused(p, cost)
    \/ Progress
    \/ NodeConsumes
    \/ Clock

Spec == Init /\ [][Next]_vars

-----------------------------------------------------------------------------
(***************************************************************************)
(* Properties.                                                             *)
(***************************************************************************)
TypeOK ==
    /\ snapshot \in GovernanceSnapshot
    /\ reservations \subseteq ModelReservation
    /\ expired \in BOOLEAN
    /\ phase \in Phases
    /\ held \in ModelReservation \union {NoRes}
    /\ purpose \in Purposes
    /\ traces \in Seq(ModelCallTrace)
    /\ record \in Records
    /\ result \in Results

\* What was spent, together with what the call under way may still cost, never
\* exceeds the hard cap: not even when the provider reports more usage than
\* was reserved, or none (reserve_model_call, settle_model_call).
WithinHardCap == snapshot.committed + snapshot.reserved <= HardCost

\* Money is reserved exactly while a call is awaited, exactly for that call,
\* and nothing stays reserved after an invocation, however it ended (every
\* path of invoke, _fail_closed, _cancel).
ReservedForCall ==
    /\ reservations = IF Awaiting THEN {held} ELSE {}
    /\ snapshot.reserved = IF Awaiting THEN held.cost ELSE 0

\* The traces explain the bill: one per call that ended, and their costs add
\* up to what the ledger committed.
TracesExplainCost ==
    /\ FoldSeq(LAMBDA t, sum : t.cost + sum, 0, traces) = snapshot.committed
    /\ snapshot.llm_calls = Len(traces) + (IF Awaiting THEN 1 ELSE 0)

\* GovernanceSnapshot's validator and the limits.  model_copy(update=...) does
\* not run the validator: nothing but the operations' order keeps it true.
SnapshotValid ==
    /\ snapshot.structured_output_repair_count <= snapshot.repair_count
    /\ snapshot.execute_calls + snapshot.profile_calls <= snapshot.tool_calls
    /\ snapshot.repair_count <= MaxRepairs
    /\ snapshot.llm_calls <= MaxLlmCalls
    /\ snapshot.tool_calls <= MaxToolCalls
    /\ snapshot.execute_calls <= MaxExecuteCalls
    /\ snapshot.profile_calls <= MaxProfileCalls
    /\ snapshot.action_loops <= MaxActionLoops

\* The soft cap is raised as soon as, and only if, what was spent reaches it:
\* a charge for a failed or cancelled call counts like a settlement.
SoftCapExact == snapshot.soft_cap_reached <=> snapshot.committed >= SoftCost

\* The ledger's promise to the run: caps, limits and the snapshot's validator.
LedgerSound == WithinHardCap /\ SoftCapExact /\ SnapshotValid

\* The record of a structural repair tells what happened: a repair that
\* succeeded or failed is the last call, with that outcome, and a blocked one
\* made no call.
RepairRecordTruthful ==
    phase = "idle" /\ record # "none" =>
        /\ traces # <<>>
        /\ Last(traces).purpose = "repair" <=> record # "blocked"
        /\ Last(traces).outcome = IF record = "success" THEN "completed" ELSE "failed"
        /\ result = "output" <=> record = "success"

\* What the invoker tells the run about its calls is what happened.
RecordsTruthful == TracesExplainCost /\ RepairRecordTruthful

\* After the deadline no call, tool or repair is begun, also when the deadline
\* falls between the repair's consumption and its reservation; a call that was
\* begun before is still charged.
NothingBegunLate ==
    [][expired => /\ snapshot'.llm_calls = snapshot.llm_calls
                  /\ snapshot'.tool_calls = snapshot.tool_calls
                  /\ snapshot'.repair_count = snapshot.repair_count]_vars

\* The commitment (committed and reserved together) grows only with a new
\* reservation: the end of a call never costs more than was set aside for it.
CommitmentKept ==
    [][snapshot'.committed + snapshot'.reserved > snapshot.committed + snapshot.reserved
         => snapshot'.llm_calls = snapshot.llm_calls + 1]_vars

=============================================================================
