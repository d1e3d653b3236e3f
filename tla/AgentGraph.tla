----------------------------- MODULE AgentGraph -----------------------------
(***************************************************************************)
(* The agent of one run: the graph of agent/graph.py with the nodes of     *)
(* agent/nodes/, over the model invoker and the budget ledger.             *)
(*                                                                         *)
(* Nodes run one at a time.  A node works on a delta of the state, which   *)
(* is merged when it returns, while the ledger and the trace recorder are  *)
(* shared objects that it changes at once: most properties are about the   *)
(* two keeping step.  A node is cut where it awaits the model or a tool    *)
(* and where it consumes from the ledger, so that the clock and a          *)
(* cancellation can come in between.  Every domain event it emits may be   *)
(* refused by the sink (emit_domain_event returns False).                  *)
(*                                                                         *)
(* The hypotheses of a plan are resolved in their order, so the evidence   *)
(* is the number of hypotheses that have some.  What the model and the     *)
(* tools return is reduced to what the nodes decide by.                    *)
(***************************************************************************)
EXTENDS ModelInvoker, FiniteSets

CONSTANTS
    Plans,       \* the analysis types under consideration
    ToolErrors   \* what tools fail with, as the stop reason it maps to

AnalysisTypes == {"simple", "attribution"}

\* The range of safe_error_stop_reason.
SafeErrorReasons ==
    {"database_error", "sql_timeout", "sensitive_result_blocked",
     "sql_policy_rejected", "plan_invalid", "internal_error"}

ASSUME GraphAssumption ==
    /\ Plans \subseteq AnalysisTypes
    /\ ToolErrors \subseteq SafeErrorReasons
    /\ Purposes = ModelPurposes
    \* AgentRuntimeSettings: "execute limit must cover action loops and repair"
    /\ MaxActionLoops + MaxRepairs <= MaxExecuteCalls

VARIABLES
    node,       \* the node that runs, "end", or "cancelled"
    at,         \* where it stands
    st,         \* the AgentState it was given
    toolTraces, \* the number of tool calls in the trace recorder
    asked       \* the recorder's model calls when the node's invocation began

graphVars == <<node, at, st, toolTraces, asked>>
allVars == <<vars, graphVars>>

Nodes == {"intake", "decide_behavior", "retrieve_context", "build_plan",
          "compile_contract", "route_action", "invoke_tool", "validate_profile",
          "validate_observation", "judge_evidence", "replan", "repair",
          "synthesize", "finalize"}

Places == {"start", "started", "asked", "tool", "schema"}

BudgetStopReasons ==
    {"cost_soft_cap", "cost_hard_cap", "llm_call_limit", "tool_call_limit",
     "execute_limit", "profile_limit", "analysis_loop_limit", "task_timeout"}

\* The reasons of a behavior decision that is not to execute.
BehaviorReasons ==
    {"missing_required_fields", "unsafe_request", "sensitive_data_request",
     "unsupported_data_domain", "unsupported_analysis"}

StopReasons ==
    BudgetStopReasons \union BehaviorReasons \union SafeErrorReasons \union
    {"answer_complete", "premise_not_met", "evidence_partial", "result_truncated",
     "model_unavailable", "structured_output_invalid", "answer_contract_unmet",
     "repair_failed"}

\* What an execution returns, if it does not fail: a result that meets its
\* contract and supports its hypothesis, refutes it or holds no number, one that
\* breaks the contract, one cut off at the row limit, or no result at all: a
\* payload that is none, or that its own observation contradicts.
QueryResults == {"supporting", "refuting", "void", "malformed", "truncated", "unusable"}

NoFinal == [status |-> "none", reason |-> "none", evidence |-> 0]

new_agent_state ==
    [stop |-> "none", plan |-> "none", contract |-> FALSE, evidence |-> 0,
     refuted |-> FALSE, next_action |-> "none", action_loop_pending |-> FALSE,
     observations |-> 0, observation |-> "none",
     validated |-> 0, verdict |-> "none",
     repair_history |-> <<>>, governance |-> snapshot, node_traces |-> 0,
     model_call_traces |-> <<>>, tool_call_traces |-> 0, final |-> NoFinal]

GraphInit ==
    /\ Init
    /\ node = "intake"
    /\ at = "start"
    /\ st = new_agent_state
    /\ toolTraces = 0
    /\ asked = 0

-----------------------------------------------------------------------------
(***************************************************************************)
(* Decisions: pure functions of the state.                                 *)
(***************************************************************************)
\* The hypothesis shapes of a plan: metric_value, or confirm_decline and the
\* contributions of region, sku and segment.
Hypotheses(plan) == CASE plan = "simple" -> 1 [] plan = "attribution" -> 4 [] OTHER -> 0

Pending(s) == s.evidence < Hypotheses(s.plan)

\* assess_evidence
Complete(s) == s.plan # "none" /\ ~s.refuted /\ s.evidence = Hypotheses(s.plan)
PremiseNotMet(s) == s.plan = "attribution" /\ s.refuted

\* repair_decision on the last validation; decides only about invalid ones.
RepairAllowed(s, governance) ==
    /\ s.verdict = "repairable"
    /\ governance.repair_count = 0
    /\ s.repair_history = <<>>

RepairDenied(s) ==
    CASE s.verdict = "repairable" -> "repair_failed"
      [] s.verdict = "truncated" -> "result_truncated"
      [] OTHER -> "answer_contract_unmet"

\* _pending_result_repair
PendingResultRepair(s) ==
    /\ ~s.action_loop_pending
    /\ s.observations >= 2
    /\ s.governance.repair_count = Len(s.repair_history) + 1
    /\ s.verdict \in {"repairable", "truncated", "unusable"}
    /\ s.validated = s.observations - 1
    /\ s.next_action = "execute"

StatusForReason(reason) ==
    CASE reason = "missing_required_fields" -> "clarification_required"
      [] reason \in {"unsafe_request", "sensitive_data_request"} -> "refused"
      [] reason \in {"unsupported_analysis", "unsupported_data_domain"} -> "unsupported"
      [] reason \in BudgetStopReasons \ {"task_timeout"} -> "budget_exhausted"
      [] reason \in {"sql_policy_rejected", "sensitive_result_blocked"} -> "policy_blocked"
      [] reason = "result_truncated" -> "partial"
      [] reason = "model_unavailable" -> "model_unavailable"
      [] reason = "internal_error" -> "internal_error"
      [] OTHER -> "execution_failed"

Answer(status, reason, evidence) ==
    [status |-> status, reason |-> reason, evidence |-> evidence]

\* Mutant: what was found before a timeout is dropped.
TimeoutAnswerEmpty(s) == Answer("execution_failed", s.stop, 0)

TimeoutAnswer(s) ==
    Answer(IF s.evidence > 0 THEN "partial" ELSE "execution_failed", s.stop, s.evidence)

\* _deterministic_answer, in the order of its tests.
DeterministicAnswer(s) ==
    IF s.stop = "internal_error"
    THEN Answer("internal_error", "internal_error", 0)
    ELSE IF s.stop = "result_truncated"
    THEN Answer("partial", "result_truncated", s.evidence)
    ELSE IF s.stop \in {"sql_timeout", "task_timeout"}
    THEN TimeoutAnswer(s)
    ELSE IF Complete(s)
    THEN Answer("completed", "answer_complete", s.evidence)
    ELSE IF PremiseNotMet(s)
    THEN Answer("completed", "premise_not_met", s.evidence)
    ELSE IF s.evidence > 0
    THEN Answer("partial", "evidence_partial", s.evidence)
    ELSE LET reason == IF s.stop = "none" THEN "answer_contract_unmet" ELSE s.stop
         IN  Answer(StatusForReason(reason), reason, 0)

\* Mutant: the soft cap is not looked at.
RouteUncapped(s) ==
    CASE s.stop \in {"answer_complete", "premise_not_met"} -> "synthesize"
      [] s.stop = "none" -> "replan"
      [] OTHER -> "finalize"

route_after_evidence(s) ==
    CASE s.governance.soft_cap_reached -> "finalize"
      [] /\ ~s.governance.soft_cap_reached
         /\ s.stop \in {"answer_complete", "premise_not_met"} -> "synthesize"
      [] ~s.governance.soft_cap_reached /\ s.stop = "none" -> "replan"
      [] OTHER -> "finalize"

\* The edges: where the graph goes from "node" with the merged state s.
Successor(s) ==
    LET UnlessStopped(next) == IF s.stop = "none" THEN next ELSE "finalize"
    IN CASE node = "intake" -> UnlessStopped("decide_behavior")
         [] node = "decide_behavior" -> UnlessStopped("retrieve_context")
         [] node = "retrieve_context" -> UnlessStopped("build_plan")
         [] node = "build_plan" -> UnlessStopped("compile_contract")
         [] node = "compile_contract" ->
                UnlessStopped(IF s.contract THEN "route_action" ELSE "finalize")
         [] node = "route_action" ->
                UnlessStopped(IF s.next_action = "none" THEN "finalize" ELSE "invoke_tool")
         [] node = "invoke_tool" ->
                UnlessStopped(CASE s.next_action = "profile" -> "validate_profile"
                                [] s.next_action = "execute" -> "validate_observation"
                                [] OTHER -> "finalize")
         [] node = "validate_profile" -> UnlessStopped("replan")
         [] node = "validate_observation" ->
                UnlessStopped(CASE s.verdict = "valid" -> "judge_evidence"
                                [] RepairAllowed(s, s.governance) -> "repair"
                                [] OTHER -> "finalize")
         [] node = "judge_evidence" -> route_after_evidence(s)
         [] node = "replan" -> UnlessStopped("route_action")
         [] node = "repair" -> UnlessStopped("validate_observation")
         [] node = "synthesize" -> "finalize"
         [] node = "finalize" -> "end"

-----------------------------------------------------------------------------
(***************************************************************************)
(* How a node goes on and ends.                                            *)
(***************************************************************************)
\* No invocation is under way and the run was not cancelled.
In(n, place) == phase = "idle" /\ node = n /\ at = place

\* finish_node: the delta is merged and the graph moves on.
Finish(s) ==
    LET merged == [s EXCEPT !.node_traces = @ + 1]
    IN  /\ st' = merged
        /\ node' = Successor(merged)
        /\ at' = "start"
        /\ UNCHANGED asked

Goto(place) ==
    /\ at' = place
    /\ UNCHANGED <<node, st, asked>>

\* The stop reasons a failed event leaves possible.
UnlessRefused(reason) == {reason, "internal_error"}

\* emit_budget_warning: only budget reasons are announced.
AfterWarning(reason) ==
    IF reason \in BudgetStopReasons THEN UnlessRefused(reason) ELSE {reason}

\* The node calls the model ...
Ask(p) ==
    /\ \E cost \in Costs : Invoke(p, cost) \/ InvokeRefused(p, cost)
    /\ at' = "asked"
    /\ asked' = Len(traces)
    /\ UNCHANGED <<node, st, toolTraces>>

\* ... the invocation runs ...
Converse == Progress /\ UNCHANGED graphVars

\* ... and its traces, repair record and governance go into the delta, whether
\* it returned or raised StructuredInvocationError.
Recorded(s) ==
    [s EXCEPT !.model_call_traces = @ \o SubSeq(traces, asked + 1, Len(traces)),
              !.repair_history =
                  IF record = "none" THEN @
                  ELSE Append(@, [kind |-> "structured_output", outcome |-> record]),
              !.governance = snapshot]

\* A failed invocation of any node but repair.
InvocationFailed ==
    /\ phase = "idle"
    /\ node \in {"decide_behavior", "build_plan", "route_action", "synthesize"}
    /\ at = "asked"
    /\ result # "output"
    /\ \E stop \in AfterWarning(result) :
          Finish([Recorded(st) EXCEPT !.stop = stop,
                                      !.next_action = "none",
                                      !.action_loop_pending = FALSE])
    /\ UNCHANGED <<vars, toolTraces>>

Obtained(n) == In(n, "asked") /\ result = "output"

\* Mutant: the round is not counted.
LoopDropped == UNCHANGED vars

\* _consume_pending_loop; LoopReserved says that it is never refused.
ConsumePendingLoop ==
    IF st.action_loop_pending
    THEN consume_action_loop /\ UNCHANGED <<expired, invokerVars>>
    ELSE UNCHANGED vars

\* Mutant: the ledger's answer is not merged.
UnloopedStale(s) == [s EXCEPT !.action_loop_pending = FALSE]

Unlooped(s) == [s EXCEPT !.action_loop_pending = FALSE, !.governance = snapshot']

-----------------------------------------------------------------------------
(***************************************************************************)
(* From the question to the plan.                                          *)
(***************************************************************************)
intake ==
    /\ In("intake", "start")
    /\ \E stop \in {"none", "missing_required_fields"} : Finish([st EXCEPT !.stop = stop])
    /\ UNCHANGED <<vars, toolTraces>>

decide_behavior ==
    \/ In("decide_behavior", "start") /\ Ask("behavior")
    \/ /\ Obtained("decide_behavior")
       /\ \E decision \in {"none"} \union BehaviorReasons :
          \E stop \in {"structured_output_invalid", "internal_error"} \union
                      {IF snapshot.soft_cap_reached /\ decision = "none"
                       THEN "cost_soft_cap" ELSE decision} :
             Finish([Recorded(st) EXCEPT !.stop = stop])
       /\ UNCHANGED <<vars, toolTraces>>

\* The lookups are at an end: n of them were observed and traced.
ContextEnds(n, stop) ==
    Finish([st EXCEPT !.observations = @ + n,
                      !.tool_call_traces = @ + n,
                      !.governance = snapshot,
                      !.stop = stop])

\* Mutant: a refused lookup waits.
LookupWaits(n) == FALSE

\* consume_tool refuses a lookup, with n of them done; "context.retrieved" and the
\* warning may be refused as well.
LookupRefused(n) ==
    /\ ToolLimit("other") # "none"
    /\ \E stop \in UnlessRefused(ToolLimit("other")) : ContextEnds(n, stop)
    /\ UNCHANGED vars

\* Mutant: a lookup is counted twice.
LookupTwice(place) ==
    /\ ToolLimit("other") = "none"
    /\ snapshot' = [snapshot EXCEPT !.tool_calls = @ + 2]
    /\ UNCHANGED <<reservations, expired, invokerVars>>
    /\ Goto(place)

Lookup(place) ==
    /\ consume_tool("other")
    /\ UNCHANGED <<expired, invokerVars>>
    /\ Goto(place)

retrieve_context ==
    \/ /\ In("retrieve_context", "start")
       /\ Lookup("tool") \/ LookupRefused(0)
       /\ UNCHANGED toolTraces
    \* lookup_metrics returns, and lookup_schema is called
    \/ /\ In("retrieve_context", "tool")
       /\ toolTraces' = toolTraces + 1
       /\ \/ Lookup("schema")
          \/ LookupRefused(1)
          \/ /\ \E stop \in ToolErrors \union {"internal_error"} : ContextEnds(1, stop)
             /\ UNCHANGED vars
    \* lookup_schema returns
    \/ /\ In("retrieve_context", "schema")
       /\ toolTraces' = toolTraces + 1
       /\ \E stop \in ToolErrors \union {"none", "internal_error"} : ContextEnds(2, stop)
       /\ UNCHANGED vars
    \* either raises
    \/ /\ phase = "idle" /\ node = "retrieve_context" /\ at \in {"tool", "schema"}
       /\ ContextEnds(IF at = "tool" THEN 0 ELSE 1, "internal_error")
       /\ UNCHANGED <<vars, toolTraces>>

build_plan ==
    \/ In("build_plan", "start") /\ Ask("plan")
    \/ /\ Obtained("build_plan")
       /\ \/ \E stop \in {"plan_invalid", "internal_error"} :
                Finish([Recorded(st) EXCEPT !.stop = stop])
          \/ \E plan \in Plans :
                Finish([Recorded(st) EXCEPT
                          !.plan = plan,
                          !.stop = IF snapshot.soft_cap_reached
                                   THEN "cost_soft_cap" ELSE "none"])
       /\ UNCHANGED <<vars, toolTraces>>

compile_contract ==
    /\ In("compile_contract", "start")
    /\ \/ Finish([st EXCEPT !.contract = TRUE, !.stop = "none"])
       \/ Finish([st EXCEPT !.stop = "plan_invalid", !.governance = snapshot])
    /\ UNCHANGED <<vars, toolTraces>>

-----------------------------------------------------------------------------
(***************************************************************************)
(* The loop.                                                               *)
(***************************************************************************)
ActionTraces == Len(SelectSeq(st.model_call_traces, LAMBDA t : t.purpose = "action"))

\* What keeps route_action from asking for an action.
RouteRefusal ==
    IF snapshot.soft_cap_reached THEN "cost_soft_cap"
    ELSE IF ActionTraces >= 4 THEN "analysis_loop_limit"
    ELSE IF ~Pending(st) THEN "internal_error"
    ELSE "none"

\* What keeps it from taking the action it was given.
ActionRefusal(type) ==
    IF type = "execute" THEN LoopLimit
    ELSE IF snapshot.soft_cap_reached THEN "cost_soft_cap"
    ELSE "none"

route_action ==
    \/ /\ In("route_action", "start")
       /\ RouteRefusal = "none"
       /\ Ask("action")
    \/ /\ In("route_action", "start")
       /\ RouteRefusal # "none"
       /\ \E stop \in AfterWarning(RouteRefusal) :
             Finish([st EXCEPT !.next_action = "none", !.stop = stop,
                               !.governance = snapshot])
       /\ UNCHANGED <<vars, toolTraces>>
    \/ /\ Obtained("route_action")
       /\ \E type \in {"execute", "profile"} :
             IF ActionRefusal(type) = "none"
             THEN Finish([Recorded(st) EXCEPT !.next_action = type,
                                              !.action_loop_pending = type = "execute",
                                              !.stop = "none"])
             ELSE \E stop \in AfterWarning(ActionRefusal(type)) :
                     Finish([Recorded(st) EXCEPT !.next_action = "none",
                                                 !.action_loop_pending = FALSE,
                                                 !.stop = stop])
       /\ UNCHANGED <<vars, toolTraces>>
    \* _valid_action_target fails
    \/ /\ Obtained("route_action")
       /\ Finish([Recorded(st) EXCEPT !.next_action = "none", !.stop = "plan_invalid"])
       /\ UNCHANGED <<vars, toolTraces>>

\* What the chosen tool may return; only the comparison of the two windows
\* refutes its hypothesis.
ToolResults ==
    ToolErrors \union {"internal_error"} \union
    IF st.next_action = "profile" THEN {"profiled"}
    ELSE {r \in QueryResults : r = "refuting" => st.plan = "attribution" /\ st.evidence = 0}

ActionType(action) == IF action = "execute" THEN "execute_sql" ELSE "profile"

ToolRefusal ==
    IF st.next_action = "profile" /\ snapshot.soft_cap_reached
    THEN "cost_soft_cap"
    ELSE ToolLimit(ActionType(st.next_action))

Observed(s, r) ==
    [s EXCEPT !.observations = @ + 1,
              !.observation = r,
              !.tool_call_traces = @ + 1,
              !.governance = snapshot]

invoke_tool ==
    \/ /\ In("invoke_tool", "start")
       /\ ToolRefusal = "none"
       /\ consume_tool(ActionType(st.next_action))
       /\ Goto("tool")
       /\ UNCHANGED <<expired, invokerVars, toolTraces>>
    \/ /\ In("invoke_tool", "start")
       /\ ToolRefusal # "none"
       /\ \E stop \in AfterWarning(ToolRefusal) :
             Finish([st EXCEPT !.stop = stop, !.action_loop_pending = FALSE,
                               !.governance = snapshot])
       /\ UNCHANGED <<vars, toolTraces>>
    \* "tool.started" is refused
    \/ /\ In("invoke_tool", "tool")
       /\ ConsumePendingLoop
       /\ Finish([Unlooped(st) EXCEPT !.stop = "internal_error"])
       /\ UNCHANGED toolTraces
    \* the tool returned; "tool.completed" or "tool.failed" is accepted ...
    \/ /\ In("invoke_tool", "tool")
       /\ \E r \in ToolResults : Finish([Observed(st, r) EXCEPT !.stop = "none"])
       /\ toolTraces' = toolTraces + 1
       /\ UNCHANGED vars
    \* ... or refused
    \/ /\ In("invoke_tool", "tool")
       /\ ConsumePendingLoop
       /\ \E r \in ToolResults :
             Finish([Unlooped(Observed(st, r)) EXCEPT !.stop = "internal_error"])
       /\ toolTraces' = toolTraces + 1

validate_profile ==
    /\ In("validate_profile", "start")
    /\ Finish([st EXCEPT !.next_action = "none",
                         !.stop = IF st.observation = "profiled" THEN "none"
                                  ELSE st.observation])
    /\ UNCHANGED <<vars, toolTraces>>

Verdict ==
    CASE st.observation \in {"supporting", "refuting", "void"} -> "valid"
      [] st.observation = "malformed" -> "repairable"
      [] st.observation \in {"truncated", "unusable"} -> st.observation

\* The validation of the last observation joins the state.
Validated(s) == [s EXCEPT !.validated = s.observations, !.verdict = Verdict]

ResultRepair(s, outcome) ==
    [s EXCEPT !.repair_history = Append(@, [kind |-> "result_contract", outcome |-> outcome])]

\* An event of validate_observation is refused.
ValidationUnannounced ==
    /\ ConsumePendingLoop
    /\ Finish([Unlooped(st) EXCEPT !.stop = "internal_error"])

validate_observation ==
    /\ In("validate_observation", "start")
    /\ \/ ValidationUnannounced
       \* a failed execution
       \/ /\ st.observation \notin QueryResults
          /\ ConsumePendingLoop
          /\ Finish([Unlooped(st) EXCEPT !.stop = st.observation])
       \* a first result
       \/ /\ st.observation \in QueryResults
          /\ ~PendingResultRepair(st)
          /\ Verdict = "valid"
          /\ Finish([Validated(st) EXCEPT !.stop = "none"])
          /\ UNCHANGED vars
       \/ /\ st.observation \in QueryResults
          /\ ~PendingResultRepair(st)
          /\ Verdict # "valid"
          /\ ConsumePendingLoop
          /\ LET s == Unlooped(Validated(st))
             IN  \E stop \in
                    IF snapshot'.soft_cap_reached THEN UnlessRefused("cost_soft_cap")
                    ELSE IF RepairAllowed(s, snapshot') THEN {"none"}
                    ELSE {RepairDenied(s)} :
                       Finish([s EXCEPT !.stop = stop])
       \* a repaired result; "repair.completed" is accepted
       \/ /\ st.observation \in QueryResults
          /\ PendingResultRepair(st)
          /\ IF Verdict = "valid"
             THEN Finish([ResultRepair(Validated(st), "success") EXCEPT !.stop = "none"])
             ELSE Finish([ResultRepair(Validated(st), "failed") EXCEPT !.stop = "repair_failed"])
          /\ UNCHANGED vars
    /\ UNCHANGED toolTraces

judge_evidence ==
    /\ In("judge_evidence", "start")
    /\ ConsumePendingLoop
    /\ LET s == Unlooped(st)
           judged == [s EXCEPT !.evidence = @ + 1,
                               !.refuted = @ \/ st.observation = "refuting",
                               !.next_action = "none"]
       IN  \* "hypothesis.updated" or "evidence.assessed" is refused
           \/ /\ st.observation # "void"
              /\ Finish([s EXCEPT !.stop = "internal_error"])
           \/ /\ st.observation = "void"
              /\ Finish([s EXCEPT !.stop = "answer_contract_unmet"])
           \/ /\ st.observation # "void"
              /\ Finish([judged EXCEPT
                           !.stop = IF PremiseNotMet(judged) THEN "premise_not_met"
                                    ELSE IF Complete(judged) THEN "answer_complete"
                                    ELSE "none"])
           \* the warning of the soft cap is refused
           \/ /\ st.observation # "void"
              /\ snapshot'.soft_cap_reached
              /\ Finish([judged EXCEPT !.stop = "internal_error"])
    /\ UNCHANGED toolTraces

replan ==
    /\ In("replan", "start")
    /\ \E stop \in IF ~Pending(st) THEN {"answer_contract_unmet"}
                   ELSE IF snapshot.soft_cap_reached THEN UnlessRefused("cost_soft_cap")
                   ELSE {"none"} :
          Finish([st EXCEPT !.next_action = "none", !.stop = stop])
    /\ UNCHANGED <<vars, toolTraces>>

RepairRefusal == IF snapshot.soft_cap_reached THEN "cost_soft_cap" ELSE RepairLimit

\* The repair fails after "repair.started": the failure is recorded if
\* "repair.completed" is accepted.
RepairFails(s, reason) ==
    \/ Finish([ResultRepair(s, "failed") EXCEPT !.stop = reason])
    \/ Finish([s EXCEPT !.stop = "internal_error"])

repair ==
    \/ /\ In("repair", "start")
       /\ RepairRefusal = "none"
       /\ consume_repair(FALSE)
       /\ Goto("started")
       /\ UNCHANGED <<expired, invokerVars, toolTraces>>
    \/ /\ In("repair", "start")
       /\ RepairRefusal # "none"
       /\ \E stop \in UnlessRefused(RepairRefusal) :
             Finish([st EXCEPT !.stop = stop, !.governance = snapshot])
       /\ UNCHANGED <<vars, toolTraces>>
    \* "repair.started" is refused, or accepted
    \/ /\ In("repair", "started")
       /\ Finish([st EXCEPT !.stop = "internal_error", !.governance = snapshot])
       /\ UNCHANGED <<vars, toolTraces>>
    \/ In("repair", "started") /\ Ask("repair")
    \* the invocation failed, or its action has another target
    \/ /\ In("repair", "asked")
       /\ RepairFails(Recorded(st), "repair_failed")
       /\ UNCHANGED <<vars, toolTraces>>
    \/ /\ Obtained("repair")
       /\ consume_tool("execute_sql")
       /\ Goto("tool")
       /\ UNCHANGED <<expired, invokerVars, toolTraces>>
    \* consume_tool refuses; the warning may be refused, too
    \/ /\ Obtained("repair")
       /\ ToolLimit("execute_sql") # "none"
       /\ \E stop \in UnlessRefused(ToolLimit("execute_sql")) :
             RepairFails(Recorded(st), stop)
       /\ UNCHANGED <<vars, toolTraces>>
    \* "tool.started" is refused
    \/ /\ In("repair", "tool")
       /\ RepairFails(Recorded(st), "internal_error")
       /\ UNCHANGED <<vars, toolTraces>>
    \* the tool returned
    \/ /\ In("repair", "tool")
       /\ toolTraces' = toolTraces + 1
       /\ \E r \in ToolResults :
             LET s == Observed(Recorded(st), r)
             IN  \* "tool.completed" or "tool.failed" is refused
                 \/ RepairFails(s, "internal_error")
                 \/ /\ r \in QueryResults
                    /\ Finish([s EXCEPT !.stop = "none"])
                 \/ /\ r \notin QueryResults
                    /\ RepairFails(s, IF r = "internal_error" THEN "repair_failed" ELSE r)
       /\ UNCHANGED vars

-----------------------------------------------------------------------------
(***************************************************************************)
(* The answer.  The model's synthesis is checked and not used.             *)
(***************************************************************************)
synthesize ==
    \/ In("synthesize", "start") /\ Ask("synthesis")
    \/ /\ Obtained("synthesize")
       /\ LET answer == DeterministicAnswer(st)
          IN  Finish([Recorded(st) EXCEPT !.final = answer, !.stop = answer.reason])
       /\ UNCHANGED <<vars, toolTraces>>

finalize ==
    /\ In("finalize", "start")
    /\ LET answer == IF st.final = NoFinal THEN DeterministicAnswer(st) ELSE st.final
       IN  Finish([st EXCEPT !.final = answer, !.stop = answer.reason,
                             !.governance = snapshot])
    /\ UNCHANGED <<vars, toolTraces>>

-----------------------------------------------------------------------------
\* The runner's timeout or shutdown cancels the run outside of a model call.
CancelRun ==
    /\ phase = "idle"
    /\ node \in Nodes
    /\ node' = "cancelled"
    /\ UNCHANGED <<vars, at, st, toolTraces, asked>>

GraphClock == node \in Nodes /\ Clock /\ UNCHANGED graphVars

Work ==
    \/ intake \/ decide_behavior \/ retrieve_context \/ build_plan \/ compile_contract
    \/ route_action \/ invoke_tool \/ validate_profile \/ validate_observation
    \/ judge_evidence \/ replan \/ repair \/ synthesize \/ finalize
    \/ InvocationFailed
    \/ Converse

GraphNext == Work \/ CancelRun \/ GraphClock

GraphSpec == GraphInit /\ [][GraphNext]_allVars

\* The event loop runs the graph; models, tools and the sink answer, or fail by
\* their timeouts.
GraphFairSpec == GraphSpec /\ WF_allVars(Work)

-----------------------------------------------------------------------------
(***************************************************************************)
(* Properties.                                                             *)
(***************************************************************************)
FinalStatuses ==
    {"completed", "partial", "clarification_required", "refused", "unsupported",
     "budget_exhausted", "policy_blocked", "model_unavailable", "execution_failed",
     "internal_error"}

AgentState ==
    [stop : StopReasons \union {"none"}, plan : AnalysisTypes \union {"none"},
     contract : BOOLEAN, evidence : 0 .. 4, refuted : BOOLEAN,
     next_action : {"none", "execute", "profile"}, action_loop_pending : BOOLEAN,
     observations : Nat,
     observation : {"none", "profiled"} \union QueryResults \union SafeErrorReasons,
     validated : Nat, verdict : {"none", "valid", "repairable", "truncated", "unusable"},
     repair_history : Seq([kind : {"structured_output", "result_contract"},
                           outcome : Records \ {"none"}]),
     governance : GovernanceSnapshot, node_traces : Nat,
     model_call_traces : Seq(ModelCallTrace), tool_call_traces : Nat,
     final : [status : FinalStatuses \union {"none"},
              reason : StopReasons \union {"none"}, evidence : 0 .. 4]]

GraphTypeOK ==
    /\ node \in Nodes \union {"end", "cancelled"}
    /\ at \in Places
    /\ st \in AgentState
    /\ toolTraces \in Nat
    /\ asked \in Nat

Between == phase = "idle" /\ at = "start" /\ node # "cancelled"

\* The state's copies agree with the recorder and the ledger whenever a node
\* begins or the graph ends, whatever failed in the nodes before: run_agent
\* throws the answer away if the traces diverged, and the routes and
\* _pending_result_repair decide by the copy of the ledger.
CopiesAgree ==
    Between => /\ st.model_call_traces = traces
               /\ st.tool_call_traces = toolTraces
               /\ st.governance = snapshot

\* _pending_result_repair infers from counters whether the result to validate is
\* a repaired one: it is right about every result.
RepairRecognised ==
    In("validate_observation", "start") /\ st.observation \in QueryResults =>
        (PendingResultRepair(st) <=> ~st.action_loop_pending)

\* The round that ensure_action_loop_available found free for an execution is
\* still free when the round is counted, several nodes later.
LoopReserved == st.action_loop_pending => LoopAvailable

\* Every execution of the loop is counted as a round exactly once, at the latest
\* when its evidence was judged; a repair's execution is not.  config.py orders the
\* limits so that the execute limit covers rounds and repairs: it stops no run.
\* The counting rests on telling a repaired result from a new one.
RoundsCounted ==
    /\ RepairRecognised
    /\ Between =>
         /\ snapshot.action_loops <= snapshot.execute_calls
         /\ snapshot.execute_calls <=
               snapshot.action_loops
               + (IF st.action_loop_pending THEN 1 ELSE 0)
               + (snapshot.repair_count - snapshot.structured_output_repair_count)
    /\ st.stop # "execute_limit"

\* The final answer's validator (contracts.FinalAnswer): an answer outside the
\* table would raise in finalize and the run would lose its evidence.
FinalAllowed ==
    LET reason == st.final.reason
    IN  CASE st.final.status = "none" -> node # "end"
          [] st.final.status = "completed" -> reason \in {"answer_complete", "premise_not_met"}
          [] st.final.status = "partial" ->
                reason \in {"evidence_partial", "result_truncated", "sql_timeout", "task_timeout"}
          [] st.final.status = "clarification_required" -> reason = "missing_required_fields"
          [] st.final.status = "refused" -> reason \in {"unsafe_request", "sensitive_data_request"}
          [] st.final.status = "unsupported" ->
                reason \in {"unsupported_analysis", "unsupported_data_domain"}
          [] st.final.status = "budget_exhausted" -> reason \in BudgetStopReasons \ {"task_timeout"}
          [] st.final.status = "policy_blocked" ->
                reason \in {"sql_policy_rejected", "sensitive_result_blocked"}
          [] st.final.status = "model_unavailable" -> reason = "model_unavailable"
          [] st.final.status = "execution_failed" ->
                reason \in {"sql_timeout", "task_timeout", "database_error",
                            "structured_output_invalid", "plan_invalid",
                            "answer_contract_unmet", "repair_failed"}
          [] st.final.status = "internal_error" -> reason = "internal_error"

\* Whatever stops the run, the evidence it has is reported, and "completed" is
\* said of it only if it resolves the plan: only an internal error hides it.
EvidenceReported ==
    node = "end" /\ st.final.status # "internal_error" =>
        /\ st.final.evidence = st.evidence
        /\ st.evidence > 0 => st.final.status \in {"completed", "partial"}
        /\ st.final.status = "completed" => Complete(st) \/ PremiseNotMet(st)

\* The answer is one its validator accepts, and hides nothing that was found.
AnswerSound == FinalAllowed /\ EvidenceReported

\* week-3-agent-api-design.md:482: a truncated result without other evidence is
\* execution_failed.  It is not: _deterministic_answer says partial.
TruncationNeedsEvidence ==
    st.final.reason = "result_truncated" /\ st.evidence = 0 =>
        st.final.status = "execution_failed"

\* week-3-agent-api-design.md:484: a provider that is unavailable, when no answer
\* can be formed, is model_unavailable.  Not so when the repair node called it:
\* the run ends as execution_failed.
ProviderFailureNamed ==
    node = "end" /\ result = "model_unavailable" /\ st.evidence = 0 =>
        st.final.status \in {"model_unavailable", "internal_error"}

\* Once the soft cap is reached no model is asked for anything new and no profile
\* is taken; only the query already chosen is executed.
NothingNewAfterSoftCap ==
    [][snapshot.soft_cap_reached =>
          /\ phase = "idle" => phase' = "idle"
          /\ snapshot'.profile_calls = snapshot.profile_calls
          /\ snapshot'.tool_calls > snapshot.tool_calls => st.next_action = "execute"]_allVars

\* The graph uses the ledger and the invoker as ModelInvoker allows: what holds of
\* ModelInvoker!Spec holds of every run.
ImplementsInvoker == Spec

\* Every run ends.
RunEnds == <>(node \in {"end", "cancelled"} \/ phase = "cancelled")

=============================================================================
