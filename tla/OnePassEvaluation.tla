--------------------------- MODULE OnePassEvaluation ---------------------------
(***************************************************************************)
(* The one-pass evaluations of weeks 1 and 2 (evals/runner.py,             *)
(* evals/week2_runner.py, models/openai_compatible.py, pricing.py).        *)
(*                                                                         *)
(* Week 1 runs its cases and publishes a report.  Week 2, later, runs its  *)
(* own cases under a price record and a data set that may have changed,    *)
(* compares itself with the published report and publishes its own.  Every *)
(* execute case is generated once, priced, executed once and scored; a     *)
(* safety case only meets the SQL policy.  A provider may be slow, omit    *)
(* usage or identity, or answer under another identity.                    *)
(*                                                                         *)
(* The suites are those of the programme (20 and 70 cases in the code).    *)
(* Of the aggregates, the model keeps those about cost and completeness;   *)
(* the rates are the same sums over the same records.                      *)
(***************************************************************************)
EXTENDS ResultScoring, FiniteSetsExt

CONSTANTS Programmes,    \* modes, cases, price records and data sets of the two weeks
          Requested,     \* the model asked for
          Pinned,        \* the version label the price record binds to it
          Stranger,      \* another well-formed identity
          Fixture,       \* WEEK2_FIXTURE_MODEL
          Unknown        \* no identity, or one that is not well formed

None == "none"

(***************************************************************************)
(* Cases, and the price record                                             *)
(***************************************************************************)
ExecuteSuites == {"golden", "core-v2", "paraphrase", "boundary"}

\* SqlRejectionCode: two rules of the policy, and the code of SQL it cannot parse.
Rules == {"forbidden_relation", "select_star", "invalid_sql"}

\* What the registries accept of a case.  None of the registered safety cases
\* expects "invalid_sql", the code that SafetyCase gives to a policy that fails:
\* its record would be refused then, and the run lost.
CaseAccepted(c) ==
    /\ c.suite \in ExecuteSuites \cup {"safety"}
    /\ c.keys \cap c.numeric = {}
    /\ IF c.suite = "safety"
       THEN /\ c.keys = {} /\ c.numeric = {} /\ c.comparison = None
            /\ c.rule \in Rules \ {"invalid_sql"}
       ELSE /\ c.rule = None
            /\ c.comparison \in {"scalar", "boolean", "table", "top_k"}
            /\ c.comparison = "top_k" => c.keys # {}
            /\ c.comparison \in {"scalar", "boolean"} => c.keys = {}
            /\ c.comparison = "boolean" => c.numeric = {}

\* What they accept of its truth.
TruthAccepted(c) ==
    LET names == {c.truth.columns[i] : i \in DOMAIN c.truth.columns}
    IN  /\ IsResult(c.truth)
        /\ c.keys \cup c.numeric \subseteq names
        /\ c.comparison \in {"scalar", "boolean"} => OneCell(c.truth)
        /\ c.comparison = "boolean" => c.truth.rows[1][1].t = "bool"

\* What the oracle asks of the truths that it writes.
TruthStable(c) ==
    /\ c.keys # {} => KeysStable(c.truth.rows, Indexes(c.keys, c.truth.columns))
    /\ c.comparison = "top_k" => Len(c.truth.rows) \in 1..5

ASSUME ProgrammesAssumption ==
    \A p \in Programmes :
        /\ p.mode \in {"fixture", "live"} \X {"fixture", "live"}
        /\ \A week \in 1..2 :
             /\ Len(p.cases[week]) \in Nat \ {0}
             /\ DOMAIN p.cases[week] = 1..Len(p.cases[week])
             /\ \A i \in DOMAIN p.cases[week] :
                  LET c == p.cases[week][i]
                  IN  /\ CaseAccepted(c)
                      /\ week = 1 <=> c.suite = "golden"
                      /\ c.suite # "safety" =>
                           /\ TruthAccepted(c) /\ TruthStable(c)
                           /\ \A a \in c.results : IsResult(a)

Bound == {Requested, Pinned}   \* provider_model_has_pricing
Safe == {Requested, Pinned, Stranger, Fixture}   \* _safe_model_identifier

\* estimate_cost_cny refuses what is above the recorded bracket.
InBracket(input, price) == input <= price.bound
Cost(input, output, price) == input * price.input + output * price.output

(***************************************************************************)
(* What a provider returns, and what the adapter makes of it               *)
(***************************************************************************)
\* Its usage: none, without the output, whole, or above the price bracket.
Usages == {"none", "partial", "full", "large"}
InputOf(usage) == CASE usage = "none" -> 0 [] usage = "large" -> 3 [] OTHER -> 1
OutputOf(usage) == IF usage \in {"full", "large"} THEN 1 ELSE 0

\* Prices are not negative, and their bracket lies between the two usages.
ASSUME PricesAssumption ==
    \A p \in Programmes : \A week \in 1..2 : p.mode[week] = "live" =>
        /\ p.price[week].input \in Nat /\ p.price[week].output \in Nat
        /\ p.price[week].bound \in InputOf("full")..(InputOf("large") - 1)

ASSUME IdentitiesAssumption == Unknown \notin Safe

Responses ==
    {[content |-> c, model |-> m, usage |-> u] :
        c \in {"missing", "cut", "broken", "sql"}, m \in {Requested, Pinned, Stranger, Unknown},
        u \in Usages}
      \cup {[content |-> c, model |-> Unknown, usage |-> "none"] : c \in {"no_call", "crash"}}

\* OpenAICompatibleSqlGenerator.generate.  "crash" is an exception of another
\* class, such as the parser's recursion limit on the SQL of an answer.
Generation(r) ==
    LET category == CASE r.content = "no_call" -> "generation_provider_call_failed"
                      [] r.content = "missing" -> "generation_missing_content"
                      [] r.content \in {"cut", "broken"} -> "generation_invalid_json"
                      [] r.usage = "none" -> "generation_missing_usage"
                      [] r.usage = "partial" -> "generation_invalid_usage"
                      [] r.model = Unknown -> "generation_missing_model"
                      [] OTHER -> None
    IN  [kind |-> IF r.content = "crash" THEN "exception"
                  ELSE IF category = None THEN "sql" ELSE "error",
         category |-> category, model |-> r.model,
         input |-> InputOf(r.usage), output |-> OutputOf(r.usage),
         finish |-> IF r.content = "cut" THEN "length" ELSE None]

FixtureGeneration ==
    [kind |-> "sql", category |-> None, model |-> Fixture, input |-> 0, output |-> 0,
     finish |-> None]

VARIABLES programme,
          week,       \* the evaluation under way
          pc,         \* "preflight", "next", "priced", "scoring", "publish", or how it ended
          gen,        \* the generation of the case under way
          answer,     \* the result of its query
          records,    \* its recorded cases
          models,     \* resolved_models
          baseline,   \* the week 1 report, once published
          report,     \* the week 2 report
          calls,      \* the responses of the providers in both weeks, in order
          answers     \* the results of the week 2 queries, by case number

vars == <<programme, week, pc, gen, answer, records, models, baseline, report, calls, answers>>
Fixed == <<programme, week, baseline, report>>

NoReport == [published |-> FALSE]
NoAnswer == [columns |-> <<>>, rows |-> <<>>]

Init ==
    /\ programme \in Programmes
    /\ week = 1 /\ pc = "preflight" /\ gen = FixtureGeneration /\ answer = NoAnswer
    /\ records = <<>> /\ models = {} /\ baseline = NoReport /\ report = NoReport
    /\ calls = <<<<>>, <<>>>> /\ answers = <<>>

Mode == programme.mode[week]
Live == Mode = "live"
Price == programme.price[week]
Cases == programme.cases[week]
Current == Cases[Len(records) + 1]

(***************************************************************************)
(* Case records                                                            *)
(***************************************************************************)
\* _error_case of week 1, and the failed cases of week 2.
Failure(status, error, cost, executed) ==
    [suite |-> Current.suite, status |-> status, error |-> error, cost |-> cost,
     score |-> None, conformant |-> None, query |-> executed,
     input |-> gen.input, output |-> gen.output, finish |-> gen.finish,
     expected |-> None, observed |-> None]

Unaccounted(error) ==
    [Failure("invalid_sql", error, 0, FALSE) EXCEPT !.input = 0, !.output = 0, !.finish = None]

Scored(status, score, conformant, cost) ==
    [Failure(status, None, cost, TRUE) EXCEPT !.score = score, !.conformant = conformant]

Safety(status, error, observed) ==
    [Unaccounted(error) EXCEPT !.status = status, !.expected = Current.rule, !.observed = observed]

ScoreStatuses == {"passed", "wrong_answer", "contract_violation", "wrong_answer_and_contract_violation"}

WeekTwoStatus(score) ==
    CASE score.result = "one" /\ score.conformant -> "passed"
      [] score.result = "one" -> "contract_violation"
      [] score.conformant -> "wrong_answer"
      [] OTHER -> "wrong_answer_and_contract_violation"

PreExecutionErrors ==
    {"generation_provider_call_failed", "generation_missing_content", "generation_invalid_json",
     "generation_missing_usage", "generation_invalid_usage", "generation_missing_model",
     "generation_failed", "pricing_failed", "sql_rejected"}

\* BaselineCaseResult.
WeekOneContract(r) ==
    IF r.status \in {"invalid_sql", "execution_error"} THEN r.score = None /\ r.error # None
    ELSE /\ r.error = None
         /\ (r.status = "passed") = (r.score = "one")

\* Week2CaseResult: safety cases.
SafetyContract(r) ==
    /\ r.score = None /\ r.conformant = None /\ ~r.query /\ r.finish = None
    /\ r.input = 0 /\ r.output = 0 /\ r.cost = 0
    /\ r.expected # None
    /\ CASE r.status = "rejected" -> r.observed = r.expected /\ r.error = None
         [] r.status = "rejection_mismatch" ->
              /\ r.error = "safety_rejection_mismatch"
              /\ r.observed \notin {None, r.expected}
         [] r.status = "unexpected_accept" ->
              r.error = "safety_unexpected_accept" /\ r.observed = None
         [] OTHER -> FALSE

\* Week2CaseResult: execute cases.
ExecuteContract(r) ==
    /\ r.expected = None /\ r.observed = None
    /\ IF r.status \in ScoreStatuses
       THEN /\ r.score # None /\ r.error = None /\ r.query
            /\ r.status = WeekTwoStatus([result |-> r.score, conformant |-> r.conformant])
       ELSE /\ r.score = None /\ r.conformant = None
            /\ CASE r.status = "invalid_sql" -> ~r.query /\ r.error \in PreExecutionErrors
                 [] r.status = "execution_error" ->
                      r.query /\ r.error \in {"query_timeout", "execution_failed", "scoring_failed"}
                 [] OTHER -> FALSE

Contract(r) ==
    IF week = 1 THEN WeekOneContract(r)
    ELSE /\ r.error = "pricing_failed" => r.cost = 0
         /\ IF r.suite = "safety" THEN SafetyContract(r) ELSE ExecuteContract(r)

\* A record the contract refuses raises out of the run: it is lost.
Record(r) ==
    /\ records' = IF Contract(r) THEN Append(records, r) ELSE records
    /\ pc' = IF ~Contract(r) THEN "lost"
             ELSE IF Len(records) + 1 = Len(Cases) THEN "publish" ELSE "next"

(***************************************************************************)
(* One case                                                                *)
(***************************************************************************)
Total(rs) == MapThenSumSet(LAMBDA i : rs[i].cost, DOMAIN rs)

\* Week 2 reads its inputs and the reference before any call.
Preflight ==
    /\ pc = "preflight"
    /\ pc' = IF week = 2 /\ ~baseline.published THEN "refused" ELSE "next"
    /\ models' = IF week = 2 /\ ~Live THEN {Fixture} ELSE {}
    /\ records' = <<>>
    /\ UNCHANGED <<Fixed, gen, answer, calls, answers>>

SafetyCase ==
    /\ pc = "next" /\ Current.suite = "safety"
    /\ \/ Record(Safety("unexpected_accept", "safety_unexpected_accept", None))
       \/ Record(Safety("rejection_mismatch", "safety_rejection_mismatch", "invalid_sql"))
       \/ \E found \in Rules :
            Record(IF found = Current.rule THEN Safety("rejected", None, found)
                   ELSE Safety("rejection_mismatch", "safety_rejection_mismatch", found))
    /\ UNCHANGED <<Fixed, gen, answer, models, calls, answers>>

Generate ==
    /\ pc = "next" /\ Current.suite # "safety"
    /\ \/ /\ Live
          /\ \E r \in Responses :
               /\ gen' = Generation(r)
               /\ calls' = [calls EXCEPT ![week] = Append(@, r)]
       \/ ~Live /\ gen' = FixtureGeneration /\ calls' = calls
    /\ pc' = "generated"
    /\ UNCHANGED <<Fixed, answer, records, models, answers>>

\* A broken check that is content with a count of the input.
SomeUsage == gen.input > 0

\* _adapter_error_has_complete_usage.
CompleteUsage == gen.input > 0 /\ gen.output > 0

\* What can be charged to the price record.
Chargeable == gen.model \in Bound /\ CompleteUsage /\ InBracket(gen.input, Price)

Identified == models \cup ({gen.model} \cap Safe)

\* A broken handler that charges a failure before it knows whether it may.
FailureChargedFirst ==
    /\ pc = "generated" /\ gen.kind = "error"
    /\ Record(Failure("invalid_sql", IF Chargeable THEN gen.category ELSE "pricing_failed",
                      Cost(gen.input, gen.output, Price), FALSE))
    /\ models' = Identified
    /\ UNCHANGED <<Fixed, gen, answer, calls, answers>>

GenerationFailed ==
    /\ pc = "generated" /\ gen.kind = "error"
    /\ LET charged == IF week = 1 THEN InBracket(gen.input, Price) ELSE Chargeable
       IN  Record(IF charged
                  THEN Failure("invalid_sql", gen.category, Cost(gen.input, gen.output, Price), FALSE)
                  ELSE Failure("invalid_sql", "pricing_failed", 0, FALSE))
    /\ models' = Identified
    /\ UNCHANGED <<Fixed, gen, answer, calls, answers>>

GenerationRaised ==
    /\ pc = "generated" /\ gen.kind = "exception"
    /\ Record(Unaccounted(IF week = 2 /\ Live THEN "pricing_failed" ELSE "generation_failed"))
    /\ UNCHANGED <<Fixed, gen, answer, models, calls, answers>>

CaseCost == IF Live THEN Cost(gen.input, gen.output, Price) ELSE 0

PriceCase ==
    /\ pc = "generated" /\ gen.kind = "sql"
    /\ models' = Identified
    /\ IF ~Live \/ (InBracket(gen.input, Price) /\ (week = 2 => gen.model \in Bound))
       THEN pc' = "priced" /\ records' = records
       ELSE Record(Failure("invalid_sql", "pricing_failed", 0, FALSE))
    /\ UNCHANGED <<Fixed, gen, answer, calls, answers>>

\* Week 2 asks the SQL policy before it executes; week 1's executor does.
Rejected ==
    /\ pc = "priced"
    /\ Record(Failure("invalid_sql", "sql_rejected", CaseCost, FALSE))
    /\ UNCHANGED <<Fixed, gen, answer, models, calls, answers>>

\* The query times out or fails; in week 2 the tool may also reject what the
\* policy let pass, or answer under another query id.
ExecutionFails ==
    /\ pc = "priced"
    /\ \E error \in {"execution_failed"} \cup (IF week = 2 THEN {"query_timeout"} ELSE {}) :
         Record(Failure("execution_error", error, CaseCost, TRUE))
    /\ UNCHANGED <<Fixed, gen, answer, models, calls, answers>>

Executed ==
    /\ pc = "priced"
    /\ \E a \in Current.results : answer' = a
    /\ pc' = "scoring"
    /\ answers' = IF week = 2 THEN Append(answers, [at |-> Len(records) + 1, result |-> answer'])
                  ELSE answers
    /\ UNCHANGED <<Fixed, gen, records, models, calls>>

\* A numeral outside the range of the decimal context raises when subtracted.
ScorerRaises == ScoringRaises(week, Current, Current.truth, answer)

\* A record of a score that its contract refuses is caught as well.
Score ==
    /\ pc = "scoring"
    /\ LET one == ScoreResult(Current, Current.truth, answer)
           two == ScoreResultAndContract(Current, Current.truth, answer)
           scored == IF week = 1
                     THEN Scored(IF one = "one" THEN "passed" ELSE "wrong_answer", one, None, CaseCost)
                     ELSE Scored(WeekTwoStatus(two), two.result, two.conformant, CaseCost)
       IN  Record(IF ScorerRaises \/ ~Contract(scored)
                  THEN Failure("execution_error", "scoring_failed", CaseCost, TRUE) ELSE scored)
    /\ UNCHANGED <<Fixed, gen, answer, models, calls, answers>>

(***************************************************************************)
(* Reports                                                                 *)
(***************************************************************************)
Unpriced(rs) == Cardinality({i \in DOMAIN rs : rs[i].error = "pricing_failed"})

\* The reference's costs are those of the present price record.
CostMatches(price) ==
    /\ \A i \in DOMAIN baseline.records :
         LET r == baseline.records[i]
         IN  InBracket(r.input, price) /\ r.cost = Cost(r.input, r.output, price)
    /\ baseline.cost = Total(baseline.records)

\* A broken comparison that leaves the identities to the price record.
ComparableUnderAlias(complete) ==
    /\ Live /\ baseline.mode = "live" /\ programme.data[2] = baseline.data
    /\ Price.date = baseline.date /\ complete
    /\ CostMatches(Price)

\* _comparison_reference.
Comparable(complete) ==
    /\ Live /\ baseline.mode = "live" /\ programme.data[2] = baseline.data
    /\ models = baseline.models
    /\ Price.date = baseline.date /\ complete
    /\ CostMatches(Price)

\* Week2RunReport, beyond what is derived from the cases.
ReportContract(r) ==
    /\ r.models \subseteq Safe
    /\ r.comparable => r.complete
    /\ r.mode = "fixture" =>
         /\ r.models = {Fixture} /\ ~r.comparable /\ r.complete
         /\ \A i \in DOMAIN records : records[i].suite # "safety" =>
              records[i].finish = None /\ records[i].input = 0 /\ records[i].cost = 0

PublishBaseline ==
    /\ pc = "publish" /\ week = 1
    /\ \E published \in BOOLEAN :
         baseline' = IF published
                     THEN [published |-> TRUE, mode |-> Mode, models |-> models, cost |-> Total(records),
                           date |-> IF Live THEN Price.date ELSE 0, data |-> programme.data[1],
                           records |-> [i \in DOMAIN records |->
                               [input |-> records[i].input, output |-> records[i].output,
                                cost |-> records[i].cost]]]
                     ELSE NoReport
    /\ week' = 2 /\ pc' = "preflight"
    /\ UNCHANGED <<programme, gen, answer, records, models, report, calls, answers>>

PublishWeekTwo ==
    /\ pc = "publish" /\ week = 2
    /\ LET complete == Unpriced(records) = 0
           r == [published |-> TRUE, mode |-> Mode, models |-> models, cost |-> Total(records),
                 complete |-> complete, unpriced |-> Unpriced(records),
                 comparable |-> Comparable(complete)]
       IN  \E published \in BOOLEAN :
             /\ pc' = IF ~ReportContract(r) THEN "lost"
                      ELSE IF published THEN "published" ELSE "unpublished"
             /\ report' = IF pc' = "published" THEN r ELSE report
    /\ UNCHANGED <<programme, week, gen, answer, records, models, baseline, calls, answers>>

Next ==
    \/ Preflight \/ SafetyCase \/ Generate \/ GenerationFailed \/ GenerationRaised \/ PriceCase
    \/ Rejected \/ ExecutionFails \/ Executed \/ Score \/ PublishBaseline \/ PublishWeekTwo

Spec == Init /\ [][Next]_vars

(***************************************************************************)
(* Properties                                                              *)
(***************************************************************************)
\* No record and no report is refused by its own contract: what has been
\* generated and paid for is never lost to it.
OnePassNothingLost == pc # "lost"

\* A week 2 report that calls its cost complete states the price, under the
\* record, of every answer of the provider, all of them of bound identities:
\* no answer was left out, priced as nothing or priced for another model
\* (the pricing_failed cases of run_week2_evaluation and cost_estimate_complete
\* of derive_week2_aggregates).
CompleteCostIsTrue ==
    report.published /\ report.mode = "live" /\ report.complete =>
      /\ \A i \in DOMAIN calls[2] : calls[2][i].model \in Bound /\ calls[2][i].usage = "full"
      /\ report.cost = MapThenSumSet(
             LAMBDA i : Cost(InputOf(calls[2][i].usage), OutputOf(calls[2][i].usage), Price),
             DOMAIN calls[2])

IdentitiesOf(cs) == {cs[i].model : i \in DOMAIN cs} \ {Unknown}

\* A comparison is called comparable only between two live runs on the same
\* data, answered by the same bound identities, where the reference's cost is
\* what the present record makes of its counts (_comparison_reference).
ComparableIsDeserved ==
    report.published /\ report.comparable =>
      /\ programme.mode = <<"live", "live">>
      /\ programme.data[1] = programme.data[2]
      /\ IdentitiesOf(calls[1]) = IdentitiesOf(calls[2])
      /\ IdentitiesOf(calls[1]) \subseteq Bound
      /\ baseline.cost = MapThenSumSet(
             LAMBDA i : Cost(baseline.records[i].input, baseline.records[i].output, Price),
             DOMAIN baseline.records)

\* The rows of one result are those of the other, in some order.
SameRows(e, a, keys, numeric) ==
    \E f \in [DOMAIN e -> DOMAIN a] :
      /\ {f[i] : i \in DOMAIN e} = DOMAIN a /\ Len(e) = Len(a)
      /\ \A i \in DOMAIN e : RowKey(e[i], keys) = RowKey(a[f[i]], keys)
                             /\ RowMatches(e[i], a[f[i]], numeric)

\* An answer is right when it is the truth up to the tolerance and, for a
\* keyed table, up to the order of its rows.
Right(c, a) ==
    LET keys == Indexes(c.keys, c.truth.columns)
        numeric == Indexes(c.numeric, c.truth.columns)
    IN  /\ Len(a.columns) = Len(c.truth.columns)
        /\ CASE c.comparison = "table" /\ keys # {} -> SameRows(c.truth.rows, a.rows, keys, numeric)
             [] c.comparison = "scalar" ->
                  Len(a.rows) = 1 /\ NumericEqual(c.truth.rows[1][1], a.rows[1][1])
             [] c.comparison = "boolean" ->
                  Len(a.rows) = 1 /\ Truths(a.rows[1][1]) = Truths(c.truth.rows[1][1])
             [] OTHER -> RowsMatchInOrder(c.truth.rows, a.rows, numeric)

\* The recorded verdict is about the answer: the result scores exactly when
\* the answer is right and conforms exactly when its columns are the truth's,
\* and the scorers of the three weeks agree, but that week 1 asks for the
\* names too and of a ranking only for its keys (the scorers are three
\* separate pieces of code).
VerdictsRight ==
    week = 2 =>
      \A i \in DOMAIN answers :
        answers[i].at <= Len(records) /\ records[answers[i].at].error = None =>
          LET c == Cases[answers[i].at]
              a == answers[i].result
              r == records[answers[i].at]
              right == Right(c, a)
          IN  /\ (r.score = "one") = right
              /\ r.conformant = (a.columns = c.truth.columns)
              /\ ScoreCandidateRows(c, c.truth, a) = right
              /\ right /\ r.conformant => ScoreResult(c, c.truth, a) = "one"
              /\ ScoreResult(c, c.truth, a) = "one" =>
                   r.conformant /\ (right \/ c.comparison = "top_k")
=============================================================================
