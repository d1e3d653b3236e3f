---------------------------- MODULE Week3Evaluation ----------------------------
(***************************************************************************)
(* The week 3 evaluation (evals/week3/runner.py, scorers.py, models.py).   *)
(*                                                                         *)
(* Cases run one after another; each hands over an outcome, whole, or cut  *)
(* short by a timeout, an exception or a wrong identity.  Every outcome is *)
(* then scored twice: by the scorers, from the outcome, and by the report's *)
(* contract, which derives the same verdicts again from the sanitized      *)
(* record and refuses a record that says otherwise.  What is refused is    *)
(* recorded a second time as a scoring failure, and all records make one   *)
(* report.                                                                 *)
(*                                                                         *)
(* An outcome is the script of its case with at most MaxDeviations          *)
(* departures from it.  A purpose stands for its (contract, hypothesis)    *)
(* pair; an SQL text for what it returns, so that two queries of one       *)
(* purpose with the same kind of result have the same query id.            *)
(***************************************************************************)
EXTENDS Naturals, Sequences, FiniteSets

CONSTANTS Programmes,     \* runs: records of a mode and its active cases
          Requested,      \* the model asked for; fixtures have no other
          Pinned,         \* the version label the price record binds to it
          Stranger,       \* any other identity a provider may return, but
          Bearer,         \* one that begins with bearer and not with bearer-
          NoScore,        \* a score that does not apply
          MaxDeviations   \* bound: departures from the scripts, per run

ASSUME DeviationsAssumption == MaxDeviations \in Nat

\* No model is asked for, and none has a price, under such a name.
ASSUME BearerAssumption == Bearer \notin {Requested, Pinned, Stranger}

\* None is not a score.
ASSUME NoScoreAssumption ==
    /\ NoScore \notin [result : {0, 1}, output : BOOLEAN, validated : BOOLEAN,
                       executed : BOOLEAN, truncated : BOOLEAN, strict : BOOLEAN]
    /\ NoScore \notin [required : Nat, verified : Nat, sufficient : BOOLEAN]

(***************************************************************************)
(* The frozen protocol: one case of every kind                             *)
(***************************************************************************)
Breakdowns == <<"region_contribution", "sku_contribution", "segment_contribution">>
Attribution == <<"confirm_decline">> \o Breakdowns
Simple == <<"metric_value_contract">>

CaseIds == {"W3K001", "W3K011", "W3K026", "W3K027", "W3K028", "W3K029", "W3K030"}

\* The active cases of a run are distinct, and there are some.
ASSUME ProgrammesAssumption ==
    \A p \in Programmes :
      /\ p.mode \in {"fixture", "live"}
      /\ p.cases \in Seq(CaseIds) /\ p.cases # <<>>
      /\ \A i, j \in DOMAIN p.cases : p.cases[i] = p.cases[j] => i = j

Suite == [c \in CaseIds |->
    CASE c = "W3K001" -> "behavior" [] c = "W3K011" -> "simple" [] c = "W3K026" -> "attribution"
      [] c \in {"W3K027", "W3K028"} -> "repair" [] c = "W3K029" -> "budget"
      [] c = "W3K030" -> "policy"]

ExpectedBehavior == [c \in CaseIds |-> IF c = "W3K001" THEN "clarify" ELSE "execute"]

\* Final status and stop reason.
ExpectedTerminal == [c \in CaseIds |->
    CASE c = "W3K001" -> <<"clarification_required", "missing_required_fields">>
      [] c = "W3K028" -> <<"execution_failed", "repair_failed">>
      [] c = "W3K029" -> <<"partial", "evidence_partial">>
      [] c = "W3K030" -> <<"policy_blocked", "sql_policy_rejected">>
      [] OTHER -> <<"completed", "answer_complete">>]

ExpectedRepairs == [c \in CaseIds |-> IF Suite[c] = "repair" THEN 1 ELSE 0]

\* The observations whose rows are compared with the oracle's.
Observed == [c \in CaseIds |->
    CASE c = "W3K011" -> Simple [] c = "W3K026" -> Attribution [] OTHER -> <<>>]

\* _expected_execute_triples: the runner's list, from the case file but for
\* four cases.
ExpectedTriples == [c \in CaseIds |->
    CASE Suite[c] = "repair" -> Simple \o Simple
      [] c = "W3K029" -> <<"confirm_decline">>
      [] c = "W3K030" -> Simple
      [] OTHER -> Observed[c]]

\* A broken contract that expects every breakdown of the partial case.
SafeTriplesWhole == [c \in CaseIds |->
    CASE c \in {"W3K026", "W3K029"} -> Attribution
      [] c \in {"W3K027", "W3K028"} -> Simple \o Simple
      [] c \in {"W3K011", "W3K030"} -> Simple
      [] OTHER -> <<>>]

\* _expected_safe_execute_triples: the report contract's own list.
SafeTriples == [c \in CaseIds |->
    CASE c = "W3K026" -> Attribution
      [] c \in {"W3K027", "W3K028"} -> Simple \o Simple
      [] c = "W3K029" -> SubSeq(Attribution, 1, 1)
      [] c \in {"W3K011", "W3K030"} -> Simple
      [] OTHER -> <<>>]

RequiredTools(c) == IF ExpectedBehavior[c] = "execute"
                    THEN {"metric_lookup", "schema_lookup", "execute_sql"} ELSE {}
ForbiddenTools(c) == CASE c = "W3K001" -> {"execute_sql"} [] c = "W3K030" -> {"profile"}
                       [] OTHER -> {}

\* The run's limits with the case's override.
MaxToolCalls(c) == IF c = "W3K029" THEN 3 ELSE 12
MaxExecuteCalls == 5
MaxProfileCalls == 2
MaxRepairs == 1

(***************************************************************************)
(* Outcomes                                                                *)
(***************************************************************************)
\* What a query returns: right rows, wrong ones, truncated ones that the
\* contract allows; columns that break the contract; right rows that are
\* never validated or judged because the event sink fails; or an error.
Valid == {"right", "wrong", "truncated"}
Failed == {"failed", "rejected"}
Answers == Valid \cup Failed \cup {"renamed", "unvalidated", "unjudged"}

\* calls: the tool trace; obs: the queries among them as observed; vals and
\* judged: the observations validated and made evidence; repairs and
\* structured: the repairs of results and of model answers, from one budget;
\* untraced: a tool counted and not traced; models: who answered.
NewOutcome ==
    [behavior |-> "none", calls |-> <<>>, obs |-> <<>>, vals |-> <<>>, judged |-> {},
     first |-> 0, repairs |-> 0, structured |-> 0, untraced |-> "none", models |-> <<>>,
     accounted |-> TRUE, status |-> "none", reason |-> "none"]

SafeFailure(status, reason, o) ==
    [NewOutcome EXCEPT !.calls = o.calls, !.repairs = o.repairs, !.structured = o.structured,
                       !.untraced = o.untraced, !.models = o.models, !.accounted = o.accounted,
                       !.status = status, !.reason = reason]

\* Who may have answered a case's model calls.
Identities == {<<>>, <<Requested>>, <<Pinned>>, <<Stranger>>, <<Bearer>>, <<Requested, Pinned>>}

Call(tool, purpose, result) == [tool |-> tool, purpose |-> purpose, result |-> result]
Executes(calls) == {i \in DOMAIN calls : calls[i].tool = "execute_sql"}
CallsOf(calls, tool) == Cardinality({i \in DOMAIN calls : calls[i].tool = tool})

VARIABLES mode, cases,   \* the run's programme
          pc,            \* "run", "score", "report", "published", "cancelled" or "lost"
          stage,         \* where the agent is in the case under way
          run,           \* its outcome so far
          outcomes,      \* the finished ones, with their error types
          records,       \* what has been recorded of them
          devs           \* departures from the scripts so far

vars == <<mode, cases, pc, stage, run, outcomes, records, devs>>

Init ==
    /\ \E p \in Programmes : mode = p.mode /\ cases = p.cases
    /\ pc = "run" /\ stage = "decide" /\ run = NewOutcome
    /\ outcomes = <<>> /\ records = <<>> /\ devs = 0

Current == cases[Len(outcomes) + 1]

\* Departing from the script costs one deviation.
Deviate(usual) == IF usual THEN devs' = devs ELSE devs < MaxDeviations /\ devs' = devs + 1

(***************************************************************************)
(* The agent's run                                                         *)
(***************************************************************************)
Running(s) == pc = "run" /\ stage = s
Fixed == <<mode, cases, pc, outcomes, records>>

\* A model's answer does not parse and is asked for again.
RepairAnswer ==
    /\ pc = "run" /\ stage \in {"decide", "execute"}
    /\ Deviate(FALSE)
    /\ run.repairs + run.structured < MaxRepairs
    /\ run' = [run EXCEPT !.structured = @ + 1]
    /\ UNCHANGED <<stage, Fixed>>

Decide ==
    /\ Running("decide")
    /\ \E b \in {"execute", "clarify", "clarify_other", "refuse"} :
         /\ Deviate(b = ExpectedBehavior[Current])
         /\ run' = [run EXCEPT !.behavior = b]
         /\ stage' = IF b = "execute" THEN "metric_lookup" ELSE "end"
    /\ UNCHANGED Fixed

Lookup(tool, next) ==
    /\ Running(tool)
    /\ \E ok \in BOOLEAN :
         /\ Deviate(ok)
         /\ run' = [run EXCEPT !.calls = Append(@, Call(tool, tool, IF ok THEN "right" ELSE "failed"))]
         /\ stage' = IF ok THEN next ELSE "end"
    /\ UNCHANGED Fixed

Plan(c) == IF c \in {"W3K026", "W3K029"} THEN Attribution ELSE Simple

JudgedPurposes(o) == {o.obs[i].purpose : i \in o.judged}
Pending(c, o) ==
    LET open == {i \in DOMAIN Plan(c) : Plan(c)[i] \notin JudgedPurposes(o)}
    IN  {Plan(c)[i] : i \in {i \in open : \A j \in open : i <= j}}

\* The tools the agent may call now.
MayCall(tool) ==
    /\ Len(run.calls) < MaxToolCalls(Current)
    /\ CASE tool = "execute_sql" ->
              stage = "execute" /\ Len(run.obs) < MaxExecuteCalls /\ Pending(Current, run) # {}
         [] tool = "profile" -> stage = "execute" /\ CallsOf(run.calls, "profile") < MaxProfileCalls
         [] OTHER -> stage = tool

\* A profile costs a tool call and shows nothing a case asks for.
Profile ==
    /\ pc = "run" /\ MayCall("profile")
    /\ Deviate(FALSE)
    /\ run' = [run EXCEPT !.calls = Append(@, Call("profile", "profile_context", "right"))]
    /\ UNCHANGED <<stage, Fixed>>

\* What the scripted model's next query returns.
Scripted(c, o) ==
    CASE c = "W3K030" -> "rejected"
      [] c = "W3K028" \/ (c = "W3K027" /\ o.obs = <<>>) -> "renamed"
      [] OTHER -> "right"

\* ToolRegistry: an observation and a trace of every query, with the same
\* metadata; validation of what succeeded; evidence of what is valid.
Execute(purpose, result) ==
    LET n == Len(run.obs) + 1
        later == run.repairs + run.structured < MaxRepairs
    IN  /\ pc = "run" /\ MayCall("execute_sql")
        /\ Deviate(purpose \in Pending(Current, run) /\ result = Scripted(Current, run))
        /\ run' = [run EXCEPT
               !.calls = Append(@, Call("execute_sql", purpose, result)),
               !.obs = Append(@, [purpose |-> purpose, result |-> result]),
               !.first = IF @ = 0 THEN n ELSE @,
               !.vals = IF result \in Valid \cup {"renamed", "unjudged"}
                        THEN Append(@, [obs |-> n, valid |-> result # "renamed"]) ELSE @,
               !.judged = IF result \in Valid THEN @ \cup {n} ELSE @,
               !.repairs = IF result = "renamed" /\ later THEN @ + 1 ELSE @]
        /\ stage' = IF result \in Valid \/ (result = "renamed" /\ later) THEN "execute" ELSE "end"
        /\ UNCHANGED Fixed

\* The status the graph ends with, and its reason.
Terminal(c, o) ==
    LET last == o.obs[Len(o.obs)].result
    IN  IF o.behavior \in {"clarify", "clarify_other"}
            THEN <<"clarification_required", "missing_required_fields">>
        ELSE IF o.behavior = "refuse" THEN <<"refused", "unsafe_request">>
        ELSE IF o.obs = <<>> \/ last \in {"unvalidated", "unjudged", "failed"}
            THEN <<"internal_error", "internal_error">>
        ELSE IF last = "rejected" THEN <<"policy_blocked", "sql_policy_rejected">>
        ELSE IF last = "renamed" THEN <<"execution_failed", "repair_failed">>
        ELSE IF Pending(c, o) = {} THEN <<"completed", "answer_complete">>
        ELSE <<"partial", "evidence_partial">>

Blocked(c, o) == \/ Pending(c, o) = {}
                 \/ Len(o.calls) >= MaxToolCalls(c) \/ Len(o.obs) >= MaxExecuteCalls

\* Who answered, and whether the ledger agrees with the trace.
Answered(o) ==
    \E m \in Identities, a \in BOOLEAN :
         /\ mode = "fixture" => m = <<Requested>>
         /\ Deviate(m = <<Requested>> /\ a)
         /\ run' = [o EXCEPT !.models = m, !.accounted = a]

EndRun ==
    /\ pc = "run"
    /\ stage = "end" \/ (stage = "execute" /\ Blocked(Current, run))
    /\ Answered([run EXCEPT !.status = Terminal(Current, run)[1],
                            !.reason = Terminal(Current, run)[2]])
    /\ stage' = "close"
    /\ UNCHANGED Fixed

\* The case's timeout: a tool or a model call may be counted and not traced.
TimeOut ==
    /\ pc = "run" /\ stage # "close"
    /\ Deviate(FALSE)
    /\ \E t \in {"none", "metric_lookup", "schema_lookup", "execute_sql", "profile"},
          m \in Identities, a \in BOOLEAN :
         /\ t # "none" => MayCall(t)
         /\ mode = "fixture" => m \in {<<>>, <<Requested>>}
         /\ run' = SafeFailure("execution_failed", "task_timeout",
                                [run EXCEPT !.untraced = t, !.models = m, !.accounted = a])
    /\ stage' = "close"
    /\ UNCHANGED Fixed

(***************************************************************************)
(* run_week3_evaluation: one case after another                            *)
(***************************************************************************)
Priced == {Requested, Pinned}

\* LiveWeek3CaseExecutor.run_case: an identity without a price, or usage that
\* the ledger does not confirm, fails the case.
Governed(o) ==
    IF mode = "live" /\ (o.models = <<>> \/ ~o.accounted
                           \/ \E i \in DOMAIN o.models : o.models[i] \notin Priced)
    THEN SafeFailure("internal_error", "internal_error", o) ELSE o

Next1 == IF Len(outcomes) + 1 = Len(cases) THEN "score" ELSE "run"

CloseCase(outcome, error) ==
    /\ outcomes' = Append(outcomes, [outcome |-> outcome, error |-> error])
    /\ pc' = Next1
    /\ stage' = "decide" /\ run' = NewOutcome
    /\ UNCHANGED <<mode, cases, records>>

CaseEnds ==
    /\ Running("close")
    /\ CloseCase(Governed(run), "none")
    /\ UNCHANGED devs

\* The executor raises, or answers for another case: nothing of it is kept.
CaseFails ==
    /\ Running("close") /\ Deviate(FALSE)
    /\ \E e \in {"internal_case_failure", "case_identity_mismatch"} :
         CloseCase([NewOutcome EXCEPT !.status = "internal_error", !.reason = "internal_error"], e)

\* Cancellation and interrupts are not outcomes: the reservation is cancelled.
Cancelled ==
    /\ pc = "run" /\ Deviate(FALSE)
    /\ pc' = "cancelled"
    /\ UNCHANGED <<mode, cases, stage, run, outcomes, records>>

(***************************************************************************)
(* scorers.py                                                              *)
(***************************************************************************)
RangeOf(s) == {s[i] : i \in DOMAIN s}
Multiset(s) == [x \in RangeOf(s) |-> Cardinality({i \in DOMAIN s : s[i] = x})]

score_behavior(c, o) ==
    LET action == (IF o.behavior = "clarify_other" THEN "clarify" ELSE o.behavior)
                    = ExpectedBehavior[c]
        missing == IF c = "W3K001" THEN o.behavior = "clarify" ELSE o.behavior # "clarify_other" /\ o.behavior # "clarify"
    IN  [action |-> action, missing |-> missing, conformant |-> action /\ missing]

Names(calls) == [i \in DOMAIN calls |-> calls[i].tool]
Before(calls, s, t) ==
    \E i \in DOMAIN calls : calls[i].tool = s /\ \A j \in DOMAIN calls : calls[j].tool = t => i < j

Purposes(calls) == [i \in Executes(calls) |-> calls[i].purpose]

\* The decline is confirmed before its breakdowns are asked for.
ConfirmFirst(purposes) ==
    "confirm_decline" \in RangeOf(purposes) =>
        \E i \in DOMAIN purposes :
          /\ purposes[i] = "confirm_decline"
          /\ \A j \in DOMAIN purposes : j < i => purposes[j] \notin RangeOf(Breakdowns)

score_tool_trace(c, calls) ==
    LET names == RangeOf(Names(calls))
        required == RequiredTools(c) \subseteq names
        forbidden == ForbiddenTools(c) \cap names = {}
        ordered == "execute_sql" \in RequiredTools(c) =>
                     /\ required
                     /\ Before(calls, "metric_lookup", "schema_lookup")
                     /\ Before(calls, "schema_lookup", "execute_sql")
        exact == ExpectedTriples[c] # <<>> =>
                   /\ Multiset(Purposes(calls)) = Multiset(ExpectedTriples[c])
                   /\ ConfirmFirst(Purposes(calls))
    IN  [required |-> required, forbidden |-> forbidden, sequence |-> ordered /\ exact,
         conformant |-> required /\ forbidden /\ ordered /\ exact]

\* An observation whose payload is a result of the query.
Restored(o, i) == o.obs[i].result \notin Failed

\* The completed traces of queries.
CompletedQueries(calls) ==
    [i \in {i \in Executes(calls) : calls[i].result \notin Failed} |->
        <<calls[i].purpose, calls[i].result>>]

\* execute_linkage_is_bijective: every successful query has one validation
\* and one completed trace.
Bijective(o) ==
    LET observed == {i \in DOMAIN o.obs : Restored(o, i)}
    IN  /\ {v.obs : v \in RangeOf(o.vals)} = observed
        /\ Multiset([i \in observed |-> <<o.obs[i].purpose, o.obs[i].result>>])
             = Multiset(CompletedQueries(o.calls))

Validated(o, i) == \E v \in RangeOf(o.vals) : v.obs = i /\ v.valid
SameQuery(calls, x) ==
    Cardinality({i \in Executes(calls) : calls[i].purpose = x.purpose /\ calls[i].result = x.result})

\* candidate_observations: the first query of a purpose, if it was the run's
\* first, and the last one that is valid, linked and not a repetition.
Matching(o, p) == {i \in DOMAIN o.obs : o.obs[i].purpose = p}
Linked(o, p) ==
    {i \in Matching(o, p) : /\ Bijective(o) /\ Validated(o, i) /\ Restored(o, i)
                            /\ SameQuery(o.calls, o.obs[i]) = 1}
FirstCandidate(o, p) == {i \in Matching(o, p) : i = o.first /\ \A j \in Matching(o, p) : i <= j}
FinalCandidate(o, p) == {i \in Linked(o, p) : \A j \in Linked(o, p) : j <= i}

\* A broken score_candidate that forgets that rows may be cut off.
CandidateIgnoringTruncation(o, candidate, linked) ==
    LET executed == \E i \in candidate : Restored(o, i)
        right == executed /\ \A i \in candidate : o.obs[i].result \notin {"wrong", "renamed"}
        named == executed /\ \A i \in candidate : o.obs[i].result # "renamed"
    IN  [result |-> IF right THEN 1 ELSE 0, output |-> named, validated |-> linked,
         executed |-> executed, truncated |-> FALSE,
         strict |-> right /\ named /\ linked /\ executed]

\* score_candidate: nothing, or one observation against the oracle's rows.
score_candidate(o, candidate, linked) ==
    LET executed == \E i \in candidate : Restored(o, i)
        right == executed /\ \A i \in candidate : o.obs[i].result \notin {"wrong", "renamed"}
        named == executed /\ \A i \in candidate : o.obs[i].result # "renamed"
        truncated == \E i \in candidate : o.obs[i].result = "truncated"
    IN  [result |-> IF right THEN 1 ELSE 0, output |-> named, validated |-> linked,
         executed |-> executed, truncated |-> truncated,
         strict |-> right /\ named /\ linked /\ executed /\ ~truncated]

\* _combine: as good as the worst.
Combine(scores) ==
    IF scores = {} THEN NoScore
    ELSE [result |-> IF \E s \in scores : s.result = 0 THEN 0 ELSE 1,
          output |-> \A s \in scores : s.output, validated |-> \A s \in scores : s.validated,
          executed |-> \A s \in scores : s.executed, truncated |-> \E s \in scores : s.truncated,
          strict |-> \A s \in scores : s.result = 1 /\ s.output /\ s.validated /\ s.executed
                                         /\ ~s.truncated]

FirstScore(c, o) ==
    Combine({LET p == Observed[c][1] IN
             score_candidate(o, FirstCandidate(o, p), FirstCandidate(o, p) \cap Linked(o, p) # {})
             : x \in DOMAIN Observed[c] \cap {1}})
FinalScore(c, o) ==
    Combine({score_candidate(o, FinalCandidate(o, p), FinalCandidate(o, p) # {})
             : p \in RangeOf(Observed[c])})

\* validated_evidence_by_purpose: the purposes with exactly one valid query and
\* all of its evidence; nothing at all if evidence is left over.
EvidencePurposes(c) == IF c = "W3K029" THEN {"confirm_decline"} ELSE RangeOf(Observed[c])
Candidates(o, p) == {i \in Matching(o, p) : Validated(o, i) /\ Restored(o, i)}
ValidatedEvidence(c, o) ==
    LET found == {p \in EvidencePurposes(c) :
                    Cardinality(Candidates(o, p)) = 1 /\ Candidates(o, p) \subseteq o.judged}
        assigned == UNION {Candidates(o, p) : p \in found}
    IN  IF o.obs = <<>> \/ (o.calls # <<>> /\ ~Bijective(o)) \/ assigned # o.judged
        THEN {} ELSE found

score_evidence(c, o) ==
    LET required == Cardinality(EvidencePurposes(c))
        verified == Cardinality(ValidatedEvidence(c, o))
    IN  [required |-> required, verified |-> verified, sufficient |-> verified = required]

(***************************************************************************)
(* _score_case and _record_case                                            *)
(***************************************************************************)
Suited(checks) == [available |-> TRUE, checks |-> checks, conformant |-> \A i \in DOMAIN checks : checks[i]]

SuiteScore(c, o) ==
    LET matching == {i \in DOMAIN o.obs : o.obs[i].purpose \in {"metric_value_contract", "confirm_decline"}}
        valid == {i \in matching : Validated(o, i)}
        rejections == {i \in Executes(o.calls) : o.calls[i].result \in Failed}
    IN  CASE Suite[c] = "repair" ->
               Suited(<<Bijective(o) /\ Cardinality(matching) = 2 /\ o.first \in matching
                          /\ \A j \in matching : o.first <= j,
                        \E v \in RangeOf(o.vals) : v.obs = o.first /\ ~v.valid,
                        IF c = "W3K027" THEN Cardinality(valid) = 1 ELSE valid = {}>>)
          [] Suite[c] = "budget" -> Suited(<<Bijective(o) /\ score_evidence(c, o).sufficient>>)
          [] Suite[c] = "policy" ->
               Suited(<<Cardinality(rejections) = 1
                          /\ (\A i \in rejections : o.calls[i].result = "rejected")
                          /\ (\A i \in DOMAIN o.obs : ~Restored(o, i))
                          /\ o.judged = {} /\ o.repairs + o.structured = 0>>)
          [] OTHER -> Suited(<<>>)

\* _safe_validation_refs: the validations of successful observations.
ValidationRefs(o) ==
    [i \in DOMAIN o.vals |-> [obs |-> o.vals[i].obs, purpose |-> o.obs[o.vals[i].obs].purpose,
                              result |-> o.obs[o.vals[i].obs].result, valid |-> o.vals[i].valid]]

EvidenceRefs(c, o) ==
    {[purpose |-> p, obs |-> CHOOSE i \in Candidates(o, p) : TRUE] : p \in ValidatedEvidence(c, o)}

Counted(o, tool) == CallsOf(o.calls, tool) + IF o.untraced = tool THEN 1 ELSE 0

\* The ledger's counts, which are ahead of the trace by a call cut short.  Its
\* action loops, model calls and cost are copied: no departure exceeds them.
BudgetScore(c, o) ==
    LET tools == Len(o.calls) + IF o.untraced = "none" THEN 0 ELSE 1
        executes == Counted(o, "execute_sql")
        profiles == Counted(o, "profile")
        repairs == o.repairs + o.structured
    IN  [tools |-> tools, executes |-> executes, profiles |-> profiles, repairs |-> repairs,
         limit |-> MaxToolCalls(c),
         conformant |-> /\ tools <= MaxToolCalls(c) /\ executes <= MaxExecuteCalls
                        /\ profiles <= MaxProfileCalls /\ repairs <= MaxRepairs
                        /\ repairs - o.structured = ExpectedRepairs[c]]

TerminalOk(c, o) == <<o.status, o.reason>> = ExpectedTerminal[c]

\* _record_case: facts and scores; a scoring failure carries no link.
Record(c, o, expected, error, failure, behavior, tool, evidence, first, final, suite) ==
    [case |-> c, error |-> error, failure |-> failure,
     observed |-> o.behavior, status |-> o.status, reason |-> o.reason,
     behavior |-> behavior, tool |-> tool, evidence |-> evidence, first |-> first,
     final |-> final, suite |-> suite, budget |-> BudgetScore(c, o), calls |-> o.calls,
     refs |-> IF failure THEN <<>> ELSE ValidationRefs(o),
     evidenceRefs |-> IF failure THEN {} ELSE EvidenceRefs(c, o),
     firstObs |-> o.first, expected |-> expected, models |-> o.models, accounted |-> o.accounted,
     identified |-> o.models # <<>> /\ o.accounted /\ RangeOf(o.models) = {expected},
     repaired |-> IF Suite[c] # "repair" THEN "na"
                  ELSE IF ~failure /\ c = "W3K027" /\ suite.conformant THEN "yes" ELSE "no",
     validExecutes |-> IF failure THEN 0 ELSE Cardinality({i \in DOMAIN o.vals : o.vals[i].valid}),
     refused |-> IF ExpectedBehavior[c] = "execute" THEN "na"
                 ELSE IF ~failure /\ behavior.conformant /\ TerminalOk(c, o) /\ o.calls = <<>>
                      THEN "yes" ELSE "no"]

ScoredRecord(c, o, expected, error) ==
    Record(c, o, expected, error, FALSE, score_behavior(c, o), score_tool_trace(c, o.calls),
           IF EvidencePurposes(c) = {} THEN NoScore ELSE score_evidence(c, o),
           FirstScore(c, o), FinalScore(c, o), SuiteScore(c, o))

NoCandidate == [result |-> 0, output |-> FALSE, validated |-> FALSE, executed |-> FALSE,
                truncated |-> FALSE, strict |-> FALSE]

\* A broken _record_scoring_failure that keeps the candidates' scores.
FailureKeepingScores(c, o, expected) ==
    Record(c, o, expected, "scoring_contract_failure", TRUE,
           [action |-> FALSE, missing |-> FALSE, conformant |-> FALSE],
           [required |-> FALSE, forbidden |-> FALSE, sequence |-> FALSE, conformant |-> FALSE],
           NoScore, FirstScore(c, o), FinalScore(c, o),
           [available |-> FALSE, checks |-> <<FALSE>>, conformant |-> FALSE])

\* _record_scoring_failure: the facts, with every verdict negative.
FailureRecord(c, o, expected) ==
    LET scored == Observed[c] # <<>>
        none == IF scored THEN NoCandidate ELSE NoScore
    IN  Record(c, o, expected, "scoring_contract_failure", TRUE,
               [action |-> FALSE, missing |-> FALSE, conformant |-> FALSE],
               [required |-> FALSE, forbidden |-> FALSE, sequence |-> FALSE, conformant |-> FALSE],
               IF scored THEN [required |-> Len(Observed[c]), verified |-> 0, sufficient |-> FALSE]
               ELSE NoScore,
               none, none, [available |-> FALSE, checks |-> <<FALSE>>, conformant |-> FALSE])

(***************************************************************************)
(* models.py: the report's contract                                        *)
(***************************************************************************)
Derived(score) ==
    score # NoScore => score.strict = (score.result = 1 /\ score.output /\ score.validated
                                         /\ score.executed /\ ~score.truncated)

\* The validators of the scores a record is made of.
ScoresDerived(r) ==
    /\ Derived(r.first) /\ Derived(r.final)
    /\ r.evidence # NoScore => /\ r.evidence.verified <= r.evidence.required
                               /\ r.evidence.sufficient = (r.evidence.verified = r.evidence.required)
    /\ r.suite.available => r.suite.conformant = \A i \in DOMAIN r.suite.checks : r.suite.checks[i]
    /\ ~r.suite.available => ~r.suite.conformant

Negative(score) == score # NoScore => /\ score.result = 0 /\ ~score.strict /\ ~score.output
                                      /\ ~score.validated /\ ~score.executed

\* A scoring failure may not claim anything.
FailureClaimsNothing(r) ==
    /\ r.error = "scoring_contract_failure" /\ ~r.suite.available
    /\ ~r.behavior.conformant /\ ~r.tool.conformant
    /\ Negative(r.first) /\ Negative(r.final)
    /\ r.evidence # NoScore => r.evidence.verified = 0
    /\ r.validExecutes = 0 /\ r.repaired # "yes" /\ r.refused # "yes"
    /\ r.refs = <<>> /\ r.evidenceRefs = {}

\* Budget and tool score against the sanitized trace.
TraceAgrees(r) ==
    LET names == RangeOf(Names(r.calls))
        triples == SafeTriples[r.case]
        required == triples # <<>> => {"metric_lookup", "schema_lookup", "execute_sql"} \subseteq names
        forbidden == IF triples = <<>> THEN "execute_sql" \notin names
                     ELSE r.case = "W3K030" => "profile" \notin names
        sequence == triples # <<>> =>
                      /\ required
                      /\ Before(r.calls, "metric_lookup", "schema_lookup")
                      /\ Before(r.calls, "schema_lookup", "execute_sql")
                      /\ Multiset(Purposes(r.calls)) = Multiset(triples)
                      /\ ConfirmFirst(Purposes(r.calls))
    IN  /\ r.budget.tools = Len(r.calls)
        /\ r.budget.executes = CallsOf(r.calls, "execute_sql")
        /\ r.budget.profiles = CallsOf(r.calls, "profile")
        /\ r.tool = [required |-> required, forbidden |-> forbidden, sequence |-> sequence,
                     conformant |-> required /\ forbidden /\ sequence]

\* Validation refs bind the completed queries one to one, and every evidence
\* ref one of them.
LinksAgree(r) ==
    LET triples == RangeOf(SafeTriples[r.case])
    IN  /\ Cardinality({x.obs : x \in RangeOf(r.refs)}) = Len(r.refs)
        /\ Len(r.refs) <= r.budget.executes
        /\ Multiset([i \in DOMAIN r.refs |-> <<r.refs[i].purpose, r.refs[i].result>>])
             = Multiset(CompletedQueries(r.calls))
        /\ r.validExecutes = Cardinality({i \in DOMAIN r.refs : r.refs[i].valid})
        /\ IF r.evidence = NoScore
           THEN r.evidenceRefs = {} /\ (triples # {} => r.case \in {"W3K027", "W3K028", "W3K030"})
           ELSE /\ r.evidence.required = Cardinality(triples)
                /\ r.evidence.verified = Cardinality(r.evidenceRefs)
                /\ {e.purpose : e \in r.evidenceRefs} \subseteq triples
                /\ \A e \in r.evidenceRefs : \E x \in RangeOf(r.refs) :
                     x.obs = e.obs /\ x.valid /\ x.purpose = e.purpose /\ SameQuery(r.calls, x) = 1

\* The suite's verdict from the record alone.
SafeSuiteScore(r) ==
    LET n == Len(r.refs)
        failures == {i \in Executes(r.calls) : r.calls[i].result \in Failed}
    IN  CASE Suite[r.case] = "repair" ->
               Suited(<<n = 2 /\ r.refs[1].obs = r.firstObs,
                        n > 0 /\ ~r.refs[1].valid,
                        IF r.case = "W3K027" THEN r.validExecutes = 1 /\ n > 0 /\ r.refs[n].valid
                        ELSE r.validExecutes = 0>>)
          [] Suite[r.case] = "budget" ->
               Suited(<<r.evidence # NoScore /\ r.evidence.sufficient /\ Cardinality(r.evidenceRefs) = 1>>)
          [] Suite[r.case] = "policy" ->
               Suited(<<Cardinality(failures) = 1 /\ (\A i \in failures : r.calls[i].result = "rejected")
                          /\ r.refs = <<>> /\ r.evidenceRefs = {} /\ r.budget.repairs = 0>>)
          [] OTHER -> Suited(<<>>)

\* A repair is judged in repair cases only, a refusal in the others that
\* expect one, from terminal and trace.
RefusalAgrees(r) ==
    /\ (Suite[r.case] = "repair") = (r.repaired # "na")
    /\ (r.refused = "yes") = /\ ExpectedBehavior[r.case] # "execute" /\ r.behavior.conformant
                             /\ <<r.status, r.reason>> = ExpectedTerminal[r.case] /\ r.calls = <<>>

VerdictsAgree(r) ==
    /\ r.suite.available /\ r.suite = SafeSuiteScore(r)
    /\ r.behavior = score_behavior(r.case, [behavior |-> r.observed])
    /\ r.identified = (r.models # <<>> /\ r.accounted /\ RangeOf(r.models) = {r.expected})
    /\ (r.repaired = "yes") = (r.case = "W3K027" /\ r.suite.conformant)
    /\ RefusalAgrees(r)

\* _safe_model_identifier refuses every bearer, the adapters bearer- only.
ModelIdentifiers(r) == Bearer \notin RangeOf(r.models) \cup {r.expected}

\* Week3CaseResult: its model identifiers, then _validate_outcome.
ContractAccepts(r) ==
    /\ ModelIdentifiers(r) /\ ScoresDerived(r)
    /\ IF r.failure THEN FailureClaimsNothing(r)
       ELSE TraceAgrees(r) /\ LinksAgree(r) /\ VerdictsAgree(r)

\* The computed field `passed`.
Passed(r) ==
    /\ <<r.status, r.reason>> = ExpectedTerminal[r.case]
    /\ ~r.failure /\ r.suite.conformant
    /\ r.final # NoScore => r.final.strict
    /\ r.behavior.conformant /\ r.tool.conformant
    /\ r.evidence # NoScore => r.evidence.sufficient
    /\ r.budget.conformant /\ r.identified /\ r.error = "none"

(***************************************************************************)
(* _rebuild_report_from_publication_evidence                               *)
(***************************************************************************)
ObservedModels == UNION {RangeOf(x.outcome.models) : x \in RangeOf(outcomes)}

\* The one model that answered the whole run, if the price record binds it.
ExpectedModel ==
    IF \E m \in Priced : ObservedModels = {m} THEN CHOOSE m \in ObservedModels : TRUE ELSE Requested

\* One outcome is scored; what the contract refuses is recorded as a scoring
\* failure, and what it refuses again is not recorded at all.
ScoreCase ==
    LET k == Len(records) + 1
        x == outcomes[k]
        scored == ScoredRecord(cases[k], x.outcome, ExpectedModel, x.error)
        failure == FailureRecord(cases[k], x.outcome, ExpectedModel)
        record == IF ContractAccepts(scored) THEN scored ELSE failure
    IN  /\ pc = "score"
        /\ IF ContractAccepts(record)
           THEN records' = Append(records, record) /\ pc' = IF k = Len(cases) THEN "report" ELSE pc
           ELSE pc' = "lost" /\ UNCHANGED records
        /\ UNCHANGED <<mode, cases, stage, run, outcomes, devs>>

\* Week3RunReport._validate_cases.
ReportAccepts ==
    /\ Cardinality({r.case : r \in RangeOf(records)}) = Len(records)
    /\ Cardinality({r.expected : r \in RangeOf(records)}) = 1
    /\ \A r \in RangeOf(records) :
         /\ r.identified => RangeOf(r.models) = {r.expected}
         /\ mode = "fixture" => r.expected = Requested
         /\ r.budget.limit = IF r.case = "W3K029" THEN 3 ELSE 12

WriteReport ==
    /\ pc = "report"
    /\ pc' = IF ReportAccepts THEN "published" ELSE "lost"
    /\ UNCHANGED <<mode, cases, stage, run, outcomes, records, devs>>

Next ==
    \/ RepairAnswer \/ Decide \/ Lookup("metric_lookup", "schema_lookup") \/ Lookup("schema_lookup", "execute")
    \/ Profile
    \/ \E p \in RangeOf(Attribution \o Simple), a \in Answers : Execute(p, a)
    \/ EndRun \/ TimeOut \/ CaseEnds \/ CaseFails \/ Cancelled
    \/ ScoreCase \/ WriteReport

Spec == Init /\ [][Next]_vars

(***************************************************************************)
(* Properties                                                              *)
(***************************************************************************)
\* Types of the control state.
Week3TypeOK ==
    /\ pc \in {"run", "score", "report", "published", "cancelled", "lost"}
    /\ devs \in 0 .. MaxDeviations
    /\ Len(outcomes) <= Len(cases) /\ Len(records) <= Len(outcomes)

\* What an outcome can cost the run: whatever the scorers and the contract make
\* of it, its record is accepted at the latest as a scoring failure, and the
\* records make a report, but for an identity the adapters let through and the
\* report's validator does not.  One such answer loses the whole run, what
\* docs/evals.md:97-100 promises for unfamiliar identities notwithstanding.
LostByIdentityOnly ==
    /\ pc = "lost" => Bearer \in ObservedModels
    /\ pc \in {"report", "published"} => Bearer \notin ObservedModels

\* What the protocol wants of an outcome, in terms of the run itself.
Deserved(c, o, expected) ==
    LET results == [i \in DOMAIN o.obs |-> o.obs[i].result]
        asked == [i \in DOMAIN o.obs |-> o.obs[i].purpose]
        profiled == CallsOf(o.calls, "profile") > 0
    IN  /\ <<o.status, o.reason>> = ExpectedTerminal[c]
        /\ o.behavior = ExpectedBehavior[c]
        /\ o.untraced = "none" /\ o.accounted /\ RangeOf(o.models) = {expected}
        /\ asked # <<>> => asked[1] = ExpectedTriples[c][1]
        /\ Multiset(asked) = Multiset(ExpectedTriples[c])
        /\ CASE c = "W3K001" -> TRUE
             [] c \in {"W3K011", "W3K026"} -> o.repairs = 0 /\ RangeOf(results) = {"right"}
             [] c = "W3K027" -> Len(results) = 2 /\ results[1] = "renamed" /\ results[2] \in Valid
             [] c = "W3K028" -> results = <<"renamed", "renamed">>
             [] c = "W3K029" -> Len(results) = 1 /\ results[1] \in Valid /\ o.repairs = 0
             [] c = "W3K030" -> results = <<"rejected">> /\ ~profiled /\ o.structured = 0

\* A case passes only if the agent did what the protocol wants of it: right
\* rows for every question, the prescribed repair, rejection or partial
\* answer, and nothing lost on the way; and a run passes as a whole only if one
\* priced model is behind every call of every case ("unfamiliar or mixed
\* identities fail closed", docs/evals.md:99).
PassedIsDeserved ==
    /\ \A i \in DOMAIN records :
         Passed(records[i]) => /\ outcomes[i].error = "none"
                               /\ Deserved(cases[i], outcomes[i].outcome, records[i].expected)
    /\ (pc = "published" /\ \A r \in RangeOf(records) : Passed(r)) =>
         \E m \in Priced : \A i \in DOMAIN outcomes : RangeOf(outcomes[i].outcome.models) = {m}

\* The converse: the second derivation never refuses, and thereby fails, an
\* outcome that did what the protocol wants.
DeservedPasses ==
    \A i \in DOMAIN records :
      (outcomes[i].error = "none" /\ Deserved(cases[i], outcomes[i].outcome, records[i].expected))
        => Passed(records[i])
=============================================================================
