----------------------- MODULE OnePassEvaluationProofs -----------------------
(***************************************************************************)
(* Theorems about OnePassEvaluation and the scorers, for any programmes,   *)
(* prices, identities and results: no record and no report is refused by   *)
(* its own contract, a complete cost is the price of every answer, a       *)
(* comparison is called comparable only between comparable runs, and a     *)
(* recorded verdict is about the answer.                                   *)
(***************************************************************************)
EXTENDS OnePassEvaluation, SumLemmas

-----------------------------------------------------------------------------
(* Types. *)

Suites == ExecuteSuites \cup {"safety"}
CaseStatuses ==
    ScoreStatuses \cup {"invalid_sql", "execution_error", "rejected", "rejection_mismatch",
                        "unexpected_accept"}
AdapterErrors ==
    {"generation_provider_call_failed", "generation_missing_content", "generation_invalid_json",
     "generation_missing_usage", "generation_invalid_usage", "generation_missing_model"}
Errors ==
    PreExecutionErrors \cup {None, "query_timeout", "execution_failed", "scoring_failed",
                             "safety_rejection_mismatch", "safety_unexpected_accept"}
Scores == {"one", "part", "zero", None}

CaseRecords ==
    [suite : Suites, status : CaseStatuses, error : Errors, cost : Nat, score : Scores,
     conformant : BOOLEAN \cup {None}, query : BOOLEAN, input : Nat, output : Nat,
     finish : {"length", None}, expected : Rules \cup {None}, observed : Rules \cup {None}]

Generations ==
    [kind : {"sql", "error", "exception"}, category : AdapterErrors \cup {None},
     model : Safe \cup {Unknown}, input : Nat, output : Nat, finish : {"length", None}]

States ==
    {"preflight", "next", "generated", "priced", "scoring", "publish", "refused", "published",
     "unpublished"}

\* A case is under way whose answer was generated.
Pending == pc \in {"generated", "priced", "scoring"}

\* A record that cost nothing and misses nothing, as a fixture run makes them.
Free(r) == r.error # "pricing_failed" /\ r.finish = None /\ r.input = 0 /\ r.cost = 0

TypeInv ==
    /\ programme \in Programmes /\ week \in 1..2 /\ pc \in States
    /\ gen \in Generations
    /\ records \in Seq(CaseRecords)
    /\ models \subseteq Safe
    /\ calls \in [1..2 -> Seq(Responses)]

\* The case under way is one of the programme, and its answer one of its results.
CaseInv ==
    /\ pc \in {"next", "generated", "priced", "scoring"} => Len(records) < Len(Cases)
    /\ Pending => Current.suite # "safety"
    /\ pc = "scoring" => answer \in Current.results

\* The generation under way is the last call's, and was priced before its
\* query is executed.
GenInv ==
    /\ gen.kind = "error" => gen.category \in AdapterErrors
    /\ Pending /\ ~Live => gen = FixtureGeneration
    /\ Pending /\ Live =>
         calls[week] # <<>> /\ gen = Generation(calls[week][Len(calls[week])])
    /\ pc \in {"priced", "scoring"} =>
         /\ gen.kind = "sql"
         /\ Live => InBracket(gen.input, Price) /\ (week = 2 => gen.model \in Bound)

\* A fixture run of week 2 is free of costs and of failures to price.
FixtureInv ==
    week = 2 /\ ~Live /\ pc \notin {"preflight", "refused"} =>
        models = {Fixture} /\ \A i \in DOMAIN records : Free(records[i])

RunInv == TypeInv /\ CaseInv /\ GenInv /\ FixtureInv

-----------------------------------------------------------------------------
(* What the assumptions and the definitions give. *)

LEMMA Usage ==
    /\ InputOf("none") = 0 /\ InputOf("partial") = 1 /\ InputOf("full") = 1 /\ InputOf("large") = 3
    /\ OutputOf("none") = 0 /\ OutputOf("partial") = 0
    /\ OutputOf("full") = 1 /\ OutputOf("large") = 1
  <1>1. InputOf("none") = 0 /\ InputOf("large") = 3 /\ InputOf("full") = 1 /\ InputOf("partial") = 1
    BY DEF InputOf
  <1> QED
    BY <1>1 DEF OutputOf

LEMMA UsageTyped ==
    \A u \in Usages : InputOf(u) \in Nat /\ OutputOf(u) \in Nat
  BY Usage DEF Usages

\* The case under way is one that the registries accept.
LEMMA CurrentCase ==
    ASSUME TypeInv, CaseInv, pc \in {"next", "generated", "priced", "scoring"}
    PROVE  /\ Current \in {Cases[i] : i \in DOMAIN Cases}
           /\ CaseAccepted(Current)
           /\ week = 1 <=> Current.suite = "golden"
           /\ Current.suite # "safety" =>
                /\ TruthAccepted(Current) /\ TruthStable(Current)
                /\ \A a \in Current.results : IsResult(a)
  <1>1. /\ programme \in Programmes /\ week \in 1..2 /\ Len(records) \in Nat
        /\ Len(records) < Len(Cases)
    BY DEF TypeInv, CaseInv
  <1>2. /\ Len(Cases) \in Nat \ {0} /\ DOMAIN Cases = 1..Len(Cases)
        /\ \A i \in DOMAIN Cases :
             /\ CaseAccepted(Cases[i])
             /\ week = 1 <=> Cases[i].suite = "golden"
             /\ Cases[i].suite # "safety" =>
                  /\ TruthAccepted(Cases[i]) /\ TruthStable(Cases[i])
                  /\ \A a \in Cases[i].results : IsResult(a)
    BY <1>1, ProgrammesAssumption DEF Cases
  <1>3. Len(records) + 1 \in DOMAIN Cases
    BY <1>1, <1>2
  <1> QED
    BY <1>2, <1>3 DEF Current

LEMMA Modes ==
    ASSUME TypeInv
    PROVE  /\ Mode \in {"fixture", "live"}
           /\ programme.mode = <<programme.mode[1], programme.mode[2]>>
  BY ProgrammesAssumption DEF TypeInv, Mode

\* A live run has prices; what a usage costs under them is a natural number.
LEMMA Priced ==
    ASSUME TypeInv, Live
    PROVE  /\ Price.input \in Nat /\ Price.output \in Nat
           /\ Price.bound \in Nat /\ 1 <= Price.bound /\ Price.bound < 3
           /\ \A i \in Nat, o \in Nat : Cost(i, o, Price) \in Nat
  <1>1. programme \in Programmes /\ week \in 1..2 /\ programme.mode[week] = "live"
    BY DEF TypeInv, Live, Mode
  <1>2. /\ Price.input \in Nat /\ Price.output \in Nat
        /\ Price.bound \in InputOf("full")..(InputOf("large") - 1)
    BY <1>1, PricesAssumption DEF Price
  <1>3. \A i \in Nat, o \in Nat : Cost(i, o, Price) \in Nat
    BY <1>2 DEF Cost
  <1>4. Price.bound \in 1..2
    <2>1. 3 - 1 = 2
      OBVIOUS
    <2> QED
      BY <1>2, <2>1, Usage
  <1>5. Price.bound \in Nat /\ 1 <= Price.bound /\ Price.bound < 3
    BY <1>4
  <1> QED
    BY <1>2, <1>3, <1>5

LEMMA ResponseIs ==
    ASSUME NEW r \in Responses
    PROVE  /\ r.model \in Safe \cup {Unknown} /\ r.usage \in Usages
           /\ r.content \in {"missing", "cut", "broken", "sql", "no_call", "crash"}
           /\ r.content \in {"no_call", "crash"} => r.model = Unknown /\ r.usage = "none"
  BY DEF Responses, Safe, Usages

LEMMA GenerationIs ==
    ASSUME NEW r \in Responses
    PROVE  /\ Generation(r) \in Generations
           /\ Generation(r).model = r.model
           /\ Generation(r).input = InputOf(r.usage)
           /\ Generation(r).output = OutputOf(r.usage)
           /\ Generation(r).kind = "error" => Generation(r).category \in AdapterErrors
           /\ Generation(r).kind = "exception" => r.model = Unknown
           /\ Generation(r).kind = "sql" => r.usage \in {"full", "large"}
  <1> DEFINE category ==
        CASE r.content = "no_call" -> "generation_provider_call_failed"
          [] r.content = "missing" -> "generation_missing_content"
          [] r.content \in {"cut", "broken"} -> "generation_invalid_json"
          [] r.usage = "none" -> "generation_missing_usage"
          [] r.usage = "partial" -> "generation_invalid_usage"
          [] r.model = Unknown -> "generation_missing_model"
          [] OTHER -> None
  <1>1. /\ r.model \in Safe \cup {Unknown} /\ r.usage \in Usages
        /\ r.content \in {"missing", "cut", "broken", "sql", "no_call", "crash"}
        /\ r.content \in {"no_call", "crash"} => r.model = Unknown /\ r.usage = "none"
    BY ResponseIs
  <1>2. category \in AdapterErrors \cup {None}
    BY DEF AdapterErrors, None
  <1> HIDE DEF category
  <1>3. Generation(r) =
          [kind |-> IF r.content = "crash" THEN "exception"
                    ELSE IF category = None THEN "sql" ELSE "error",
           category |-> category, model |-> r.model,
           input |-> InputOf(r.usage), output |-> OutputOf(r.usage),
           finish |-> IF r.content = "cut" THEN "length" ELSE None]
    BY DEF Generation, category
  <1>4. InputOf(r.usage) \in Nat /\ OutputOf(r.usage) \in Nat
    BY <1>1, UsageTyped
  <1>5. Generation(r) \in Generations
    BY <1>1, <1>2, <1>3, <1>4 DEF Generations
  <1>6. Generation(r).kind = "error" => category # None /\ Generation(r).category = category
    BY <1>3
  <1>7. Generation(r).kind = "exception" => r.content = "crash"
    BY <1>3
  <1>8. Generation(r).kind = "sql" => category = None
    BY <1>3
  <1>9. category = None => r.usage \notin {"none", "partial"} \/ r.content = "crash"
    BY DEF category, None
  <1>10. Generation(r).kind = "sql" => r.usage \in {"full", "large"}
    BY <1>1, <1>3, <1>8, <1>9 DEF Usages
  <1> QED
    BY <1>1, <1>2, <1>3, <1>5, <1>6, <1>7, <1>10

LEMMA FixtureIs ==
    /\ FixtureGeneration \in Generations
    /\ FixtureGeneration.kind = "sql" /\ FixtureGeneration.model = Fixture
    /\ FixtureGeneration.input = 0 /\ FixtureGeneration.output = 0
    /\ FixtureGeneration.finish = None
  BY DEF FixtureGeneration, Generations, Safe

-----------------------------------------------------------------------------
(* The records of the cases: each is one that its contract accepts. *)

LEMMA FailureIs ==
    ASSUME TypeInv, Current.suite \in Suites, NEW status \in CaseStatuses, NEW error \in Errors,
           NEW cost \in Nat, NEW executed \in BOOLEAN
    PROVE  LET r == Failure(status, error, cost, executed)
           IN  /\ r \in CaseRecords
               /\ r.suite = Current.suite /\ r.status = status /\ r.error = error
               /\ r.cost = cost /\ r.query = executed
               /\ r.score = None /\ r.conformant = None
               /\ r.expected = None /\ r.observed = None
               /\ r.input = gen.input /\ r.output = gen.output /\ r.finish = gen.finish
  <1>1. gen.input \in Nat /\ gen.output \in Nat /\ gen.finish \in {"length", None}
    BY DEF TypeInv, Generations
  <1>2. None \in Scores
    BY DEF Scores
  <1> QED
    BY <1>1, <1>2 DEF Failure, CaseRecords

\* A failure of week 1 needs only its error; one of week 2 the right one.
LEMMA FailureAccepted ==
    ASSUME TypeInv, Current.suite \in Suites, Current.suite # "safety",
           NEW error \in Errors \ {None}, NEW cost \in Nat,
           NEW status, NEW executed \in BOOLEAN,
           \/ status = "invalid_sql" /\ ~executed /\ error \in PreExecutionErrors
           \/ status = "execution_error" /\ executed
                /\ error \in {"query_timeout", "execution_failed", "scoring_failed"},
           error = "pricing_failed" => cost = 0
    PROVE  /\ Failure(status, error, cost, executed) \in CaseRecords
           /\ Contract(Failure(status, error, cost, executed))
           /\ Failure(status, error, cost, executed).error = error
           /\ Failure(status, error, cost, executed).cost = cost
           /\ Failure(status, error, cost, executed).input = gen.input
           /\ Failure(status, error, cost, executed).finish = gen.finish
  <1> DEFINE r == Failure(status, error, cost, executed)
  <1>1. status \in CaseStatuses /\ status \in {"invalid_sql", "execution_error"}
    BY DEF CaseStatuses
  <1>2. /\ r \in CaseRecords
        /\ r.suite = Current.suite /\ r.status = status /\ r.error = error
        /\ r.cost = cost /\ r.query = executed
        /\ r.score = None /\ r.conformant = None
        /\ r.expected = None /\ r.observed = None
        /\ r.input = gen.input /\ r.finish = gen.finish
    BY <1>1, FailureIs
  <1> HIDE DEF r
  <1>3. WeekOneContract(r)
    BY <1>1, <1>2 DEF WeekOneContract
  <1>4. r.status \notin ScoreStatuses
    BY <1>1, <1>2 DEF ScoreStatuses
  <1>5. ExecuteContract(r)
    <2>1. CASE status = "invalid_sql" /\ ~executed /\ error \in PreExecutionErrors
      BY <1>2, <1>4, <2>1 DEF ExecuteContract
    <2>2. CASE status = "execution_error" /\ executed
      BY <1>2, <1>4, <2>2 DEF ExecuteContract
    <2> QED
      BY <2>1, <2>2
  <1>6. Contract(r)
    BY <1>2, <1>3, <1>5 DEF Contract
  <1> QED
    BY <1>2, <1>6 DEF r

LEMMA InvalidAccepted ==
    ASSUME TypeInv, Current.suite \in Suites, Current.suite # "safety",
           NEW error \in PreExecutionErrors, NEW cost \in Nat,
           error = "pricing_failed" => cost = 0
    PROVE  LET r == Failure("invalid_sql", error, cost, FALSE)
           IN  r \in CaseRecords /\ Contract(r) /\ r.error = error /\ r.cost = cost
  <1>1. error \in Errors \ {None}
    BY DEF Errors, PreExecutionErrors, None
  <1>2. ASSUME NEW s, s = "invalid_sql", NEW b \in BOOLEAN, ~b
        PROVE  LET r == Failure(s, error, cost, b)
               IN  r \in CaseRecords /\ Contract(r) /\ r.error = error /\ r.cost = cost
    BY <1>1, <1>2, FailureAccepted
  <1> QED
    BY <1>2

LEMMA UnaccountedIs ==
    ASSUME TypeInv, Current.suite \in Suites, NEW error \in Errors
    PROVE  LET r == Unaccounted(error)
           IN  /\ r \in CaseRecords
               /\ r.suite = Current.suite /\ r.status = "invalid_sql" /\ r.error = error
               /\ r.cost = 0 /\ r.query = FALSE
               /\ r.score = None /\ r.conformant = None
               /\ r.expected = None /\ r.observed = None
               /\ r.input = 0 /\ r.output = 0 /\ r.finish = None
  <1> DEFINE f == Failure("invalid_sql", error, 0, FALSE)
  <1>1. "invalid_sql" \in CaseStatuses /\ 0 \in Nat /\ FALSE \in BOOLEAN
    BY DEF CaseStatuses
  <1>2. /\ f.suite = Current.suite /\ f.status = "invalid_sql" /\ f.error = error
        /\ f.cost = 0 /\ f.query = FALSE
        /\ f.score = None /\ f.conformant = None
        /\ f.expected = None /\ f.observed = None
    BY DEF Failure
  <1>3. f \in CaseRecords
    <2>1. \A b \in BOOLEAN : Failure("invalid_sql", error, 0, b) \in CaseRecords
      BY <1>1, FailureIs
    <2> QED
      BY <1>1, <2>1
  <1>4. Unaccounted(error) = [f EXCEPT !.input = 0, !.output = 0, !.finish = None]
    BY DEF Unaccounted
  <1> HIDE DEF f
  <1> QED
    BY <1>2, <1>3, <1>4 DEF CaseRecords

LEMMA RaisedAccepted ==
    ASSUME TypeInv, Current.suite \in Suites, Current.suite # "safety",
           NEW error \in {"pricing_failed", "generation_failed"}
    PROVE  /\ Unaccounted(error) \in CaseRecords
           /\ Contract(Unaccounted(error))
           /\ Unaccounted(error).error = error
  <1> DEFINE r == Unaccounted(error)
  <1>1. error \in Errors /\ error \in PreExecutionErrors /\ error # None
    BY DEF Errors, PreExecutionErrors, None
  <1>2. /\ r \in CaseRecords
        /\ r.suite = Current.suite /\ r.status = "invalid_sql" /\ r.error = error
        /\ r.cost = 0 /\ r.query = FALSE
        /\ r.score = None /\ r.conformant = None
        /\ r.expected = None /\ r.observed = None
    BY <1>1, UnaccountedIs
  <1> HIDE DEF r
  <1>3. WeekOneContract(r)
    BY <1>1, <1>2 DEF WeekOneContract
  <1>4. r.status \notin ScoreStatuses
    BY <1>2 DEF ScoreStatuses
  <1>5. ExecuteContract(r)
    BY <1>1, <1>2, <1>4 DEF ExecuteContract
  <1> QED
    BY <1>2, <1>3, <1>5 DEF Contract, r

\* A safety case, whatever the policy makes of it.
LEMMA SafetyAccepted ==
    ASSUME TypeInv, Current.suite = "safety", Current.rule \in Rules, week = 2,
           NEW status, NEW error, NEW observed,
           \/ status = "rejected" /\ error = None /\ observed = Current.rule
           \/ /\ status = "rejection_mismatch" /\ error = "safety_rejection_mismatch"
              /\ observed \in Rules \ {Current.rule}
           \/ status = "unexpected_accept" /\ error = "safety_unexpected_accept" /\ observed = None
    PROVE  /\ Safety(status, error, observed) \in CaseRecords
           /\ Contract(Safety(status, error, observed))
           /\ Free(Safety(status, error, observed))
  <1> DEFINE u == Unaccounted(error)
             r == Safety(status, error, observed)
  <1>1. /\ error \in Errors /\ error # "pricing_failed" /\ status \in CaseStatuses
        /\ Current.suite \in Suites /\ Current.rule # None
        /\ observed \in Rules \cup {None}
    BY DEF Errors, CaseStatuses, Suites, Rules, None
  <1>2. /\ u \in CaseRecords
        /\ u.suite = Current.suite /\ u.error = error
        /\ u.cost = 0 /\ u.query = FALSE
        /\ u.score = None /\ u.conformant = None
        /\ u.input = 0 /\ u.output = 0 /\ u.finish = None
    BY <1>1, UnaccountedIs
  <1>3. r = [u EXCEPT !.status = status, !.expected = Current.rule, !.observed = observed]
    BY DEF Safety
  <1> HIDE DEF u, r
  <1>4. /\ r \in CaseRecords
        /\ r.suite = "safety" /\ r.error = error /\ r.status = status
        /\ r.cost = 0 /\ r.query = FALSE
        /\ r.score = None /\ r.conformant = None
        /\ r.input = 0 /\ r.output = 0 /\ r.finish = None
        /\ r.expected = Current.rule /\ r.observed = observed
    BY <1>1, <1>2, <1>3 DEF CaseRecords
  <1>5. SafetyContract(r)
    <2>1. CASE status = "rejected" /\ error = None /\ observed = Current.rule
      BY <1>1, <1>4, <2>1 DEF SafetyContract
    <2>2. CASE /\ status = "rejection_mismatch" /\ error = "safety_rejection_mismatch"
               /\ observed \in Rules \ {Current.rule}
      <3>1. observed \notin {None, Current.rule}
        BY <2>2 DEF Rules, None
      <3> QED
        BY <1>1, <1>4, <2>2, <3>1 DEF SafetyContract
    <2>3. CASE /\ status = "unexpected_accept" /\ error = "safety_unexpected_accept"
               /\ observed = None
      BY <1>1, <1>4, <2>3 DEF SafetyContract
    <2> QED
      BY <2>1, <2>2, <2>3
  <1>6. Contract(r) /\ Free(r)
    BY <1>1, <1>4, <1>5 DEF Contract, Free
  <1> QED
    BY <1>4, <1>6 DEF r

\* What the scorers return is a score.
LEMMA ScoresAre ==
    ASSUME NEW c, NEW e, NEW a
    PROVE  /\ ScoreResult(c, e, a) \in Scores
           /\ ScoreResultAndContract(c, e, a).result \in {"one", "zero"}
           /\ ScoreResultAndContract(c, e, a).conformant \in BOOLEAN
  <1>1. \A keys : ScoreTopK(e.rows, a.rows, keys) \in Scores
    BY DEF ScoreTopK, Scores
  <1>2. \A b : Whole(b) \in {"one", "zero"}
    BY DEF Whole
  <1>3. ScoreResult(c, e, a) \in Scores
    BY <1>1, <1>2 DEF ScoreResult, Scores
  <1>4. /\ ScoreResultAndContract(c, e, a).result \in {"one", "zero"}
        /\ ScoreResultAndContract(c, e, a).conformant \in BOOLEAN
    BY <1>2 DEF ScoreResultAndContract
  <1> QED
    BY <1>3, <1>4

LEMMA ScoredIs ==
    ASSUME TypeInv, Current.suite \in Suites, NEW status \in ScoreStatuses,
           NEW score \in Scores, NEW conformant \in BOOLEAN \cup {None}, NEW cost \in Nat
    PROVE  LET r == Scored(status, score, conformant, cost)
           IN  /\ r \in CaseRecords
               /\ r.error = None /\ r.cost = cost /\ r.input = gen.input /\ r.finish = gen.finish
               /\ r.score = score /\ r.conformant = conformant
  <1> DEFINE f == Failure(status, None, cost, TRUE)
  <1>1. status \in CaseStatuses /\ None \in Errors /\ TRUE \in BOOLEAN
    BY DEF CaseStatuses, Errors
  <1>2. /\ f.error = None /\ f.cost = cost /\ f.input = gen.input /\ f.finish = gen.finish
    BY DEF Failure
  <1>3. f \in CaseRecords
    <2>1. \A b \in BOOLEAN : Failure(status, None, cost, b) \in CaseRecords
      BY <1>1, FailureIs
    <2> QED
      BY <1>1, <2>1
  <1>4. Scored(status, score, conformant, cost) =
          [f EXCEPT !.score = score, !.conformant = conformant]
    BY DEF Scored
  <1> HIDE DEF f
  <1> QED
    BY <1>2, <1>3, <1>4 DEF CaseRecords

-----------------------------------------------------------------------------
(* The steps: those that record a case have much in common. *)

Scoring == ScoreResultAndContract(Current, Current.truth, answer)

\* A step that records r, for the case under way.
Recorded(r) ==
    /\ pc \in {"next", "generated", "priced", "scoring"}
    /\ r \in CaseRecords
    /\ records' = Append(records, r)
    /\ pc' \in {"next", "publish"}
    /\ pc' = "next" => Len(records') < Len(Cases)
    /\ UNCHANGED <<Fixed, gen, answer, calls, answers>>
    /\ models' = IF pc = "generated" THEN Identified ELSE models
    /\ ~Live => Free(r)
    /\ pc = "next" => r.cost = 0 /\ r.error # "pricing_failed"
    /\ Live /\ week = 2 /\ pc # "next" /\ r.error # "pricing_failed" =>
         Chargeable /\ r.cost = Cost(gen.input, gen.output, Price)
    /\ week = 2 /\ pc # "next" /\ r.error = None =>
         pc = "scoring" /\ r.score = Scoring.result /\ r.conformant = Scoring.conformant

\* A step that finds a price for the case under way.
PricedStep ==
    /\ pc = "generated" /\ gen.kind = "sql"
    /\ pc' = "priced" /\ records' = records /\ models' = Identified
    /\ Live => InBracket(gen.input, Price) /\ (week = 2 => gen.model \in Bound)
    /\ UNCHANGED <<Fixed, gen, answer, calls, answers>>

LEMMA RecordIs ==
    ASSUME TypeInv, CaseInv, pc \in {"next", "generated", "priced", "scoring"},
           NEW r \in CaseRecords, Contract(r), Record(r), UNCHANGED <<programme, week>>
    PROVE  /\ records' = Append(records, r)
           /\ pc' \in {"next", "publish"}
           /\ pc' = "next" => Len(records') < Len(Cases)
  <1>1. records' = Append(records, r) /\ pc' \in {"next", "publish"}
    BY DEF Record
  <1>2. pc' = "next" => Len(records) + 1 # Len(Cases)
    BY DEF Record
  <1>3. /\ programme \in Programmes /\ week \in 1..2 /\ Len(records) \in Nat
        /\ Len(records) < Len(Cases) /\ records \in Seq(CaseRecords)
    BY DEF TypeInv, CaseInv
  <1>4. Len(Cases) \in Nat
    BY <1>3, ProgrammesAssumption DEF Cases
  <1>5. Len(records') = Len(records) + 1
    BY <1>1, <1>3
  <1> QED
    BY <1>1, <1>2, <1>3, <1>4, <1>5

\* What the case under way costs, and what its generation carries.
LEMMA CostIs ==
    ASSUME RunInv, Pending
    PROVE  /\ CaseCost \in Nat /\ gen.input \in Nat /\ gen.output \in Nat
           /\ Live => CaseCost = Cost(gen.input, gen.output, Price)
           /\ ~Live => /\ CaseCost = 0 /\ gen.kind = "sql" /\ gen.input = 0 /\ gen.finish = None
                       /\ gen.model = Fixture
           /\ Live /\ gen.kind = "sql" => CompleteUsage
           /\ Live /\ gen.kind = "exception" => gen.model = Unknown
  <1>1. gen.input \in Nat /\ gen.output \in Nat
    BY DEF RunInv, TypeInv, Generations
  <1>2. CASE Live
    <2>1. CaseCost = Cost(gen.input, gen.output, Price) /\ CaseCost \in Nat
      BY <1>1, <1>2, Priced DEF CaseCost, RunInv
    <2> DEFINE n == Len(calls[week])
               c == calls[week][n]
    <2>2. gen = Generation(c) /\ c \in Responses
      <3>1. calls[week] \in Seq(Responses) /\ calls[week] # <<>> /\ gen = Generation(c)
        BY <1>2 DEF RunInv, TypeInv, GenInv
      <3> QED
        BY <3>1
    <2>3. /\ gen.model = c.model /\ gen.input = InputOf(c.usage) /\ gen.output = OutputOf(c.usage)
          /\ gen.kind = "exception" => c.model = Unknown
          /\ gen.kind = "sql" => c.usage \in {"full", "large"}
      BY <2>2, GenerationIs
    <2>4. gen.kind = "sql" => CompleteUsage
      BY <2>3, Usage DEF CompleteUsage
    <2> QED
      BY <1>1, <1>2, <2>1, <2>3, <2>4
  <1>3. CASE ~Live
    <2>1. gen = FixtureGeneration
      BY <1>3 DEF RunInv, GenInv
    <2> QED
      BY <1>1, <1>3, <2>1, FixtureIs DEF CaseCost
  <1> QED
    BY <1>2, <1>3

LEMMA CurrentSuite ==
    ASSUME TypeInv, CaseInv, pc \in {"next", "generated", "priced", "scoring"}
    PROVE  /\ Current.suite \in Suites
           /\ Pending => Current.suite # "safety"
           /\ Current.suite = "safety" => week = 2 /\ Current.rule \in Rules \ {"invalid_sql"}
  <1>1. CaseAccepted(Current) /\ (week = 1 <=> Current.suite = "golden")
    BY CurrentCase
  <1>2. Current.suite \in Suites
    BY <1>1 DEF CaseAccepted, Suites
  <1>3. Current.suite = "safety" => week = 2 /\ Current.rule \in Rules \ {"invalid_sql"}
    BY <1>1 DEF CaseAccepted, TypeInv
  <1> QED
    BY <1>2, <1>3 DEF CaseInv

\* A safety case is recorded, free of costs.
LEMMA SafetyRecords ==
    ASSUME RunInv, SafetyCase
    PROVE  \E r : Recorded(r)
  <1>1. /\ TypeInv /\ CaseInv /\ pc = "next" /\ Current.suite = "safety" /\ week = 2
        /\ Current.rule \in Rules /\ Current.rule # "invalid_sql"
    BY CurrentSuite DEF RunInv, SafetyCase
  <1>2. /\ UNCHANGED <<Fixed, gen, answer, calls, answers>> /\ models' = models
        /\ UNCHANGED <<programme, week>>
    BY DEF SafetyCase, Fixed
  <1>3. ASSUME NEW r \in CaseRecords, Contract(r), Free(r), Record(r)
        PROVE  Recorded(r)
    <2>1. /\ records' = Append(records, r)
          /\ pc' \in {"next", "publish"}
          /\ pc' = "next" => Len(records') < Len(Cases)
      BY <1>1, <1>2, <1>3, RecordIs
    <2> QED
      BY <1>1, <1>2, <1>3, <2>1 DEF Recorded, Free
  <1>4. CASE Record(Safety("unexpected_accept", "safety_unexpected_accept", None))
    BY <1>1, <1>3, <1>4, SafetyAccepted
  <1>5. CASE Record(Safety("rejection_mismatch", "safety_rejection_mismatch", "invalid_sql"))
    <2>1. "invalid_sql" \in Rules \ {Current.rule}
      BY <1>1 DEF Rules
    <2> QED
      BY <1>1, <1>3, <1>5, <2>1, SafetyAccepted
  <1>6. CASE \E found \in Rules :
               Record(IF found = Current.rule THEN Safety("rejected", None, found)
                      ELSE Safety("rejection_mismatch", "safety_rejection_mismatch", found))
    <2>1. PICK found \in Rules :
               Record(IF found = Current.rule THEN Safety("rejected", None, found)
                      ELSE Safety("rejection_mismatch", "safety_rejection_mismatch", found))
      BY <1>6
    <2>2. CASE found = Current.rule
      BY <1>1, <1>3, <2>1, <2>2, SafetyAccepted
    <2>3. CASE found # Current.rule
      BY <1>1, <1>3, <2>1, <2>3, SafetyAccepted
    <2> QED
      BY <2>2, <2>3
  <1> QED
    BY <1>4, <1>5, <1>6 DEF SafetyCase

LEMMA PendingRecorded ==
    ASSUME RunInv, Pending, NEW r \in CaseRecords, Contract(r), Record(r),
           UNCHANGED <<Fixed, gen, answer, calls, answers>>,
           models' = (IF pc = "generated" THEN Identified ELSE models),
           ~Live => Free(r),
           Live /\ week = 2 /\ r.error # "pricing_failed" =>
               Chargeable /\ r.cost = Cost(gen.input, gen.output, Price),
           week = 2 /\ r.error = None =>
               pc = "scoring" /\ r.score = Scoring.result /\ r.conformant = Scoring.conformant
    PROVE  Recorded(r)
  <1>1. pc \in {"next", "generated", "priced", "scoring"} /\ pc # "next"
    BY DEF Pending
  <1>2. /\ records' = Append(records, r)
        /\ pc' \in {"next", "publish"}
        /\ pc' = "next" => Len(records') < Len(Cases)
    BY <1>1, RecordIs DEF RunInv, Fixed
  <1> QED
    BY <1>1, <1>2 DEF Recorded

\* Failures: of the generation, which may or may not be charged, and of a
\* query whose generation was priced.
LEMMA GenerationFailedRecords ==
    ASSUME RunInv, GenerationFailed
    PROVE  \E r : Recorded(r)
  <1> DEFINE charged == IF week = 1 THEN InBracket(gen.input, Price) ELSE Chargeable
             cost == Cost(gen.input, gen.output, Price)
  <1>1. /\ pc = "generated" /\ gen.kind = "error" /\ models' = Identified
        /\ UNCHANGED <<Fixed, gen, answer, calls, answers>>
        /\ Record(IF charged THEN Failure("invalid_sql", gen.category, cost, FALSE)
                  ELSE Failure("invalid_sql", "pricing_failed", 0, FALSE))
    BY DEF GenerationFailed
  <1>2. /\ TypeInv /\ CaseInv /\ Pending /\ Current.suite \in Suites /\ Current.suite # "safety"
    BY <1>1, CurrentSuite DEF RunInv, Pending
  <1>3. Live /\ cost \in Nat
    <2>1. Live
      BY <1>1, <1>2, CostIs
    <2>2. CaseCost = cost /\ CaseCost \in Nat
      BY <1>2, <2>1, CostIs
    <2> QED
      BY <2>1, <2>2
  <1>4. gen.category \in AdapterErrors
    BY <1>1 DEF RunInv, GenInv
  <1> HIDE DEF cost
  <1>5. CASE charged
    <2> DEFINE r == Failure("invalid_sql", gen.category, cost, FALSE)
    <2>1. /\ gen.category \in Errors \ {None} /\ gen.category \in PreExecutionErrors
          /\ gen.category # "pricing_failed" /\ FALSE \in BOOLEAN
      BY <1>4 DEF AdapterErrors, Errors, PreExecutionErrors, None
    <2>2. r \in CaseRecords /\ Contract(r) /\ r.error = gen.category /\ r.cost = cost
      BY <1>2, <1>3, <2>1, InvalidAccepted
    <2>3. r.error # None
      BY <2>1, <2>2
    <2>4. Record(r)
      BY <1>1, <1>5
    <2>5. week = 2 => Chargeable
      BY <1>5
    <2> HIDE DEF r
    <2> QED
      BY <1>1, <1>2, <1>3, <2>2, <2>3, <2>4, <2>5, PendingRecorded DEF cost
  <1>6. CASE ~charged
    <2> DEFINE r == Failure("invalid_sql", "pricing_failed", 0, FALSE)
    <2>1. /\ "pricing_failed" \in Errors \ {None} /\ "pricing_failed" \in PreExecutionErrors
          /\ 0 \in Nat /\ FALSE \in BOOLEAN
      BY DEF Errors, PreExecutionErrors, None
    <2>2. r \in CaseRecords /\ Contract(r) /\ r.error = "pricing_failed"
      BY <1>2, <2>1, InvalidAccepted
    <2>3. Record(r)
      BY <1>1, <1>6
    <2>4. r.error # None
      BY <2>1, <2>2
    <2> HIDE DEF r
    <2> QED
      BY <1>1, <1>2, <1>3, <2>2, <2>3, <2>4, PendingRecorded
  <1> QED
    BY <1>5, <1>6

LEMMA GenerationRaisedRecords ==
    ASSUME RunInv, GenerationRaised
    PROVE  \E r : Recorded(r)
  <1> DEFINE error == IF week = 2 /\ Live THEN "pricing_failed" ELSE "generation_failed"
             r == Unaccounted(error)
  <1>1. /\ pc = "generated" /\ gen.kind = "exception" /\ models' = models
        /\ UNCHANGED <<Fixed, gen, answer, calls, answers>>
        /\ Record(r)
    BY DEF GenerationRaised
  <1>2. /\ TypeInv /\ CaseInv /\ Pending /\ Current.suite \in Suites /\ Current.suite # "safety"
    BY <1>1, CurrentSuite DEF RunInv, Pending
  <1>3. Live
    BY <1>1, <1>2, CostIs
  <1>4. gen.model = Unknown
    BY <1>1, <1>2, <1>3, CostIs
  <1>5. models' = Identified
    BY <1>1, <1>4, IdentitiesAssumption DEF Identified
  <1>6. error \in {"pricing_failed", "generation_failed"} /\ (week = 2 => error = "pricing_failed")
    BY <1>3
  <1> HIDE DEF error
  <1>7. r \in CaseRecords /\ Contract(r) /\ r.error = error /\ error # None
    BY <1>2, <1>6, RaisedAccepted DEF None
  <1> HIDE DEF r
  <1> QED
    BY <1>1, <1>2, <1>3, <1>5, <1>6, <1>7, PendingRecorded

\* A failure of a case whose generation was priced, at the price of it.
LEMMA PricedFailureRecords ==
    ASSUME RunInv, pc \in {"priced", "scoring"},
           UNCHANGED <<Fixed, gen, answer, models, calls, answers>>,
           NEW error \in Errors \ {None, "pricing_failed"}, NEW status, NEW executed \in BOOLEAN,
           \/ status = "invalid_sql" /\ ~executed /\ error \in PreExecutionErrors
           \/ status = "execution_error" /\ executed
                /\ error \in {"query_timeout", "execution_failed", "scoring_failed"},
           Record(Failure(status, error, CaseCost, executed))
    PROVE  \E r : Recorded(r)
  <1> DEFINE r == Failure(status, error, CaseCost, executed)
  <1>1. /\ TypeInv /\ CaseInv /\ Pending /\ Current.suite \in Suites /\ Current.suite # "safety"
    BY CurrentSuite DEF RunInv, Pending
  <1>2. CaseCost \in Nat
    BY <1>1, CostIs
  <1>3. /\ r \in CaseRecords /\ Contract(r) /\ r.error = error /\ r.cost = CaseCost
        /\ r.input = gen.input /\ r.finish = gen.finish
    BY <1>1, <1>2, FailureAccepted
  <1>4. Record(r)
    OBVIOUS
  <1> HIDE DEF r
  <1>5. gen.kind = "sql" /\ (Live => InBracket(gen.input, Price) /\ (week = 2 => gen.model \in Bound))
    BY DEF RunInv, GenInv
  <1>6. Live /\ week = 2 => Chargeable /\ r.cost = Cost(gen.input, gen.output, Price)
    BY <1>1, <1>3, <1>5, CostIs DEF Chargeable
  <1>7. ~Live => Free(r)
    BY <1>1, <1>3, CostIs DEF Free
  <1>8. models' = (IF pc = "generated" THEN Identified ELSE models)
    OBVIOUS
  <1>9. r.error # None
    BY <1>3
  <1> QED
    BY <1>1, <1>3, <1>4, <1>6, <1>7, <1>8, <1>9, PendingRecorded

LEMMA RejectedRecords ==
    ASSUME RunInv, Rejected
    PROVE  \E r : Recorded(r)
  <1>1. "sql_rejected" \in Errors \ {None, "pricing_failed"} /\ "sql_rejected" \in PreExecutionErrors
    BY DEF Errors, PreExecutionErrors, None
  <1>2. /\ pc \in {"priced", "scoring"}
        /\ UNCHANGED <<Fixed, gen, answer, models, calls, answers>>
        /\ Record(Failure("invalid_sql", "sql_rejected", CaseCost, FALSE))
    BY DEF Rejected
  <1>3. FALSE \in BOOLEAN
    OBVIOUS
  <1> QED
    BY <1>1, <1>2, <1>3, PricedFailureRecords

LEMMA ExecutionFailsRecords ==
    ASSUME RunInv, ExecutionFails
    PROVE  \E r : Recorded(r)
  <1>1. PICK error \in {"execution_failed", "query_timeout"} :
             Record(Failure("execution_error", error, CaseCost, TRUE))
    BY DEF ExecutionFails
  <1>2. error \in Errors \ {None, "pricing_failed"}
    BY DEF Errors, PreExecutionErrors, None
  <1>3. /\ pc \in {"priced", "scoring"}
        /\ UNCHANGED <<Fixed, gen, answer, models, calls, answers>>
    BY DEF ExecutionFails
  <1>4. TRUE \in BOOLEAN
    OBVIOUS
  <1> QED
    BY <1>1, <1>2, <1>3, <1>4, PricedFailureRecords

LEMMA ScoreRecords ==
    ASSUME RunInv, Score
    PROVE  \E r : Recorded(r)
  <1> DEFINE one == ScoreResult(Current, Current.truth, answer)
             scored == IF week = 1
                       THEN Scored(IF one = "one" THEN "passed" ELSE "wrong_answer", one, None, CaseCost)
                       ELSE Scored(WeekTwoStatus(Scoring), Scoring.result, Scoring.conformant, CaseCost)
  <1>1. /\ pc = "scoring" /\ UNCHANGED <<Fixed, gen, answer, models, calls, answers>>
        /\ Record(IF ScorerRaises \/ ~Contract(scored)
                  THEN Failure("execution_error", "scoring_failed", CaseCost, TRUE) ELSE scored)
    BY DEF Score, Scoring
  <1>2. /\ TypeInv /\ CaseInv /\ Pending /\ Current.suite \in Suites /\ Current.suite # "safety"
    BY <1>1, CurrentSuite DEF RunInv, Pending
  <1>3. CaseCost \in Nat
    BY <1>2, CostIs
  <1>4. CASE ScorerRaises \/ ~Contract(scored)
    <2>1. "scoring_failed" \in Errors \ {None, "pricing_failed"} /\ TRUE \in BOOLEAN
      BY DEF Errors, None, PreExecutionErrors
    <2>2. Record(Failure("execution_error", "scoring_failed", CaseCost, TRUE))
      BY <1>1, <1>4
    <2>3. pc \in {"priced", "scoring"}
      BY <1>1
    <2> HIDE DEF scored
    <2> QED
      BY <1>1, <2>1, <2>2, <2>3, PricedFailureRecords
  <1>5. CASE ~(ScorerRaises \/ ~Contract(scored))
    <2>1. /\ scored \in CaseRecords /\ scored.error = None /\ scored.cost = CaseCost
          /\ scored.input = gen.input /\ scored.finish = gen.finish
          /\ week = 2 => scored.score = Scoring.result /\ scored.conformant = Scoring.conformant
      <3>1. CASE week = 1
        <4> DEFINE status == IF one = "one" THEN "passed" ELSE "wrong_answer"
        <4>1. status \in ScoreStatuses /\ one \in Scores /\ None \in BOOLEAN \cup {None}
          BY ScoresAre DEF ScoreStatuses
        <4>2. scored = Scored(status, one, None, CaseCost)
          BY <3>1
        <4> HIDE DEF status, one, scored
        <4> QED
          BY <1>2, <1>3, <3>1, <4>1, <4>2, ScoredIs
      <3>2. CASE week # 1
        <4>1. /\ WeekTwoStatus(Scoring) \in ScoreStatuses
              /\ Scoring.result \in Scores /\ Scoring.conformant \in BOOLEAN \cup {None}
          <5>1. Scoring.result \in {"one", "zero"} /\ Scoring.conformant \in BOOLEAN
            BY ScoresAre DEF Scoring
          <5>2. WeekTwoStatus(Scoring) \in ScoreStatuses
            BY DEF WeekTwoStatus, ScoreStatuses
          <5> QED
            BY <5>1, <5>2 DEF Scores
        <4>2. scored = Scored(WeekTwoStatus(Scoring), Scoring.result, Scoring.conformant, CaseCost)
          BY <3>2
        <4> HIDE DEF one, scored
        <4> QED
          BY <1>2, <1>3, <3>2, <4>1, <4>2, ScoredIs
      <3> QED
        BY <3>1, <3>2
    <2>2. Record(scored) /\ Contract(scored)
      BY <1>1, <1>5
    <2> HIDE DEF scored
    <2>3. gen.kind = "sql" /\ (Live => InBracket(gen.input, Price) /\ (week = 2 => gen.model \in Bound))
      BY <1>1 DEF RunInv, GenInv
    <2>4. Live /\ week = 2 => Chargeable /\ scored.cost = Cost(gen.input, gen.output, Price)
      BY <1>2, <2>1, <2>3, CostIs DEF Chargeable
    <2>5. scored.error # "pricing_failed"
      BY <2>1 DEF None
    <2>6. ~Live => Free(scored)
      BY <1>2, <2>1, <2>5, CostIs DEF Free
    <2>7. models' = (IF pc = "generated" THEN Identified ELSE models)
      BY <1>1
    <2>8. Recorded(scored)
      BY <1>1, <1>2, <2>1, <2>2, <2>4, <2>6, <2>7, PendingRecorded
    <2> QED
      BY <2>8
  <1> QED
    BY <1>4, <1>5

LEMMA PriceCaseSteps ==
    ASSUME RunInv, PriceCase
    PROVE  PricedStep \/ \E r : Recorded(r)
  <1>1. /\ pc = "generated" /\ gen.kind = "sql" /\ models' = Identified
        /\ UNCHANGED <<Fixed, gen, answer, calls, answers>>
    BY DEF PriceCase
  <1> DEFINE priced == ~Live \/ (InBracket(gen.input, Price) /\ (week = 2 => gen.model \in Bound))
  <1>2. CASE priced
    BY <1>1, <1>2 DEF PriceCase, PricedStep
  <1>3. CASE ~priced
    <2> DEFINE r == Failure("invalid_sql", "pricing_failed", 0, FALSE)
    <2>1. /\ "pricing_failed" \in Errors \ {None} /\ "pricing_failed" \in PreExecutionErrors
          /\ 0 \in Nat /\ FALSE \in BOOLEAN
      BY DEF Errors, PreExecutionErrors, None
    <2>2. /\ TypeInv /\ CaseInv /\ Pending /\ Current.suite \in Suites /\ Current.suite # "safety"
      BY <1>1, CurrentSuite DEF RunInv, Pending
    <2>3. r \in CaseRecords /\ Contract(r) /\ r.error = "pricing_failed"
      BY <2>1, <2>2, InvalidAccepted
    <2>4. Record(r) /\ Live
      BY <1>3 DEF PriceCase
    <2>5. r.error # None
      BY <2>1, <2>3
    <2> HIDE DEF r
    <2> QED
      BY <1>1, <2>2, <2>3, <2>4, <2>5, PendingRecorded
  <1> QED
    BY <1>2, <1>3

\* Every step is one of these.
LEMMA StepKinds ==
    ASSUME RunInv, [Next]_vars
    PROVE  \/ Preflight \/ Generate \/ PricedStep \/ Executed \/ \E r : Recorded(r)
           \/ PublishBaseline \/ PublishWeekTwo \/ UNCHANGED vars
  BY SafetyRecords, GenerationFailedRecords, GenerationRaisedRecords, RejectedRecords,
     ExecutionFailsRecords, ScoreRecords, PriceCaseSteps DEF Next

-----------------------------------------------------------------------------
(* Nothing is lost. *)

LEMMA SameWeek ==
    ASSUME UNCHANGED <<programme, week>>
    PROVE  Mode' = Mode /\ Live' = Live /\ Price' = Price /\ Cases' = Cases
  BY DEF Mode, Live, Price, Cases

LEMMA IdentifiedSafe ==
    ASSUME TypeInv
    PROVE  Identified \subseteq Safe
  BY DEF TypeInv, Identified

LEMMA RunInit == Init => RunInv
  <1> SUFFICES ASSUME Init PROVE RunInv
    OBVIOUS
  <1> USE DEF Init
  <1>1. TypeInv
    <2>1. calls \in [1..2 -> Seq(Responses)]
      <3>1. \A w \in 1..2 : calls[w] \in Seq(Responses)
        <4>1. calls[1] = <<>> /\ calls[2] = <<>> /\ <<>> \in Seq(Responses)
          OBVIOUS
        <4>2. \A w \in 1..2 : w = 1 \/ w = 2
          OBVIOUS
        <4> QED
          BY <4>1, <4>2
      <3>2. calls = <<<<>>, <<>>>> /\ DOMAIN calls = 1..2
        OBVIOUS
      <3>3. calls = [w \in 1..2 |-> calls[w]]
        BY <3>2
      <3> QED
        BY <3>1, <3>3
    <2>2. gen \in Generations
      BY FixtureIs
    <2> QED
      BY <2>1, <2>2 DEF TypeInv, States
  <1>2. CaseInv /\ FixtureInv
    BY DEF CaseInv, FixtureInv, Pending
  <1>3. GenInv
    BY FixtureIs DEF GenInv, Pending
  <1> QED
    BY <1>1, <1>2, <1>3 DEF RunInv

LEMMA RunPreflight ==
    ASSUME RunInv, Preflight
    PROVE  RunInv'
  <1>1. /\ pc' \in {"refused", "next"} /\ records' = <<>>
        /\ UNCHANGED <<programme, week, gen, calls>>
        /\ models' = IF week = 2 /\ ~Live THEN {Fixture} ELSE {}
    BY DEF Preflight, Fixed
  <1>2. Mode' = Mode /\ Live' = Live /\ Price' = Price /\ Cases' = Cases
    BY <1>1, SameWeek
  <1>3. TypeInv'
    BY <1>1 DEF RunInv, TypeInv, States, Safe
  <1>4. CaseInv'
    <2>1. Len(Cases) \in Nat \ {0}
      BY ProgrammesAssumption DEF Cases, RunInv, TypeInv
    <2>2. Len(records') = 0
      BY <1>1
    <2> QED
      BY <1>1, <1>2, <2>1, <2>2 DEF CaseInv, Pending
  <1>5. GenInv'
    BY <1>1 DEF GenInv, RunInv, Pending
  <1>6. FixtureInv'
    BY <1>1, <1>2 DEF FixtureInv
  <1> QED
    BY <1>3, <1>4, <1>5, <1>6 DEF RunInv

LEMMA RunGenerate ==
    ASSUME RunInv, Generate
    PROVE  RunInv'
  <1>1. /\ pc = "next" /\ pc' = "generated" /\ Current.suite # "safety"
        /\ UNCHANGED <<programme, week, baseline, report, answer, records, models, answers>>
    BY DEF Generate, Fixed
  <1>2. Mode' = Mode /\ Live' = Live /\ Price' = Price /\ Cases' = Cases /\ Current' = Current
    BY <1>1, SameWeek DEF Current
  <1>3. /\ TypeInv /\ CaseInv /\ FixtureInv /\ week \in 1..2 /\ calls \in [1..2 -> Seq(Responses)]
    BY DEF RunInv, TypeInv
  <1>4. /\ gen' \in Generations /\ calls' \in [1..2 -> Seq(Responses)]
        /\ gen'.kind = "error" => gen'.category \in AdapterErrors
        /\ ~Live => gen' = FixtureGeneration
        /\ Live => /\ calls'[week] # <<>>
                   /\ gen' = Generation(calls'[week][Len(calls'[week])])
    <2>1. CASE Live
      <3>1. PICK r \in Responses :
                 gen' = Generation(r) /\ calls' = [calls EXCEPT ![week] = Append(@, r)]
        BY <2>1 DEF Generate
      <3>2. /\ calls[week] \in Seq(Responses)
            /\ calls'[week] = Append(calls[week], r)
            /\ calls' \in [1..2 -> Seq(Responses)]
        BY <1>3, <3>1
      <3>3. Append(calls[week], r) # <<>>
            /\ Append(calls[week], r)[Len(Append(calls[week], r))] = r
        BY <3>2
      <3>4. gen' \in Generations /\ (gen'.kind = "error" => gen'.category \in AdapterErrors)
        BY <3>1, GenerationIs
      <3> QED
        BY <2>1, <3>1, <3>2, <3>3, <3>4
    <2>2. CASE ~Live
      <3>1. gen' = FixtureGeneration /\ calls' = calls
        BY <2>2 DEF Generate
      <3> QED
        BY <1>3, <2>2, <3>1, FixtureIs
    <2> QED
      BY <2>1, <2>2
  <1>5. TypeInv'
    BY <1>1, <1>3, <1>4 DEF TypeInv, States
  <1>6. CaseInv'
    BY <1>1, <1>2, <1>3 DEF CaseInv, Pending
  <1>7. GenInv'
    BY <1>1, <1>2, <1>4 DEF GenInv
  <1>8. FixtureInv'
    BY <1>1, <1>2, <1>3 DEF FixtureInv
  <1> QED
    BY <1>5, <1>6, <1>7, <1>8 DEF RunInv

LEMMA RunPriced ==
    ASSUME RunInv, PricedStep
    PROVE  RunInv'
  <1>1. /\ pc = "generated" /\ pc' = "priced" /\ gen.kind = "sql" /\ models' = Identified
        /\ UNCHANGED <<programme, week, gen, answer, records, calls>>
        /\ Live => InBracket(gen.input, Price) /\ (week = 2 => gen.model \in Bound)
    BY DEF PricedStep, Fixed
  <1>2. Mode' = Mode /\ Live' = Live /\ Price' = Price /\ Cases' = Cases /\ Current' = Current
    BY <1>1, SameWeek DEF Current
  <1>3. Identified \subseteq Safe
    BY IdentifiedSafe DEF RunInv
  <1>4. TypeInv'
    BY <1>1, <1>3 DEF TypeInv, RunInv, States
  <1>5. CaseInv'
    BY <1>1, <1>2 DEF CaseInv, RunInv, Pending
  <1>6. GenInv'
    BY <1>1, <1>2 DEF GenInv, RunInv, Pending
  <1>7. ~Live => gen.model = Fixture
    BY <1>1, CostIs DEF Pending
  <1>8. FixtureInv'
    BY <1>1, <1>2, <1>7 DEF FixtureInv, RunInv, Identified, Safe
  <1> QED
    BY <1>4, <1>5, <1>6, <1>8 DEF RunInv

LEMMA RunExecuted ==
    ASSUME RunInv, Executed
    PROVE  RunInv'
  <1>1. /\ pc = "priced" /\ pc' = "scoring" /\ answer' \in Current.results
        /\ UNCHANGED <<programme, week, gen, records, models, calls>>
    BY DEF Executed, Fixed
  <1>2. Mode' = Mode /\ Live' = Live /\ Price' = Price /\ Cases' = Cases /\ Current' = Current
    BY <1>1, SameWeek DEF Current
  <1>3. TypeInv'
    BY <1>1 DEF TypeInv, RunInv, States
  <1>4. CaseInv'
    BY <1>1, <1>2 DEF CaseInv, RunInv, Pending
  <1>5. GenInv'
    BY <1>1, <1>2 DEF GenInv, RunInv, Pending
  <1>6. FixtureInv'
    BY <1>1, <1>2 DEF FixtureInv, RunInv
  <1> QED
    BY <1>3, <1>4, <1>5, <1>6 DEF RunInv

LEMMA RunRecorded ==
    ASSUME RunInv, NEW r, Recorded(r)
    PROVE  RunInv'
  <1>1. /\ pc \in {"next", "generated", "priced", "scoring"} /\ pc' \in {"next", "publish"}
        /\ r \in CaseRecords /\ records' = Append(records, r)
        /\ models' = IF pc = "generated" THEN Identified ELSE models
        /\ UNCHANGED <<programme, week, gen, calls>>
    BY DEF Recorded, Fixed
  <1>2. Mode' = Mode /\ Live' = Live /\ Price' = Price /\ Cases' = Cases
    BY <1>1, SameWeek
  <1>3. TypeInv'
    <2>1. records' \in Seq(CaseRecords)
      BY <1>1 DEF RunInv, TypeInv
    <2>2. models' \subseteq Safe
      BY <1>1, IdentifiedSafe DEF RunInv, TypeInv
    <2> QED
      BY <1>1, <2>1, <2>2 DEF RunInv, TypeInv, States
  <1>4. CaseInv'
    BY <1>1, <1>2 DEF Recorded, CaseInv, Pending
  <1>5. GenInv'
    BY <1>1 DEF GenInv, RunInv, Pending
  <1>6. FixtureInv'
    <2> SUFFICES ASSUME week = 2, ~Live
                 PROVE  models' = {Fixture} /\ \A i \in DOMAIN records' : Free(records'[i])
      BY <1>1, <1>2 DEF FixtureInv
    <2>1. models = {Fixture} /\ \A i \in DOMAIN records : Free(records[i])
      BY <1>1 DEF FixtureInv, RunInv
    <2>2. Free(r)
      BY DEF Recorded
    <2>3. models' = {Fixture}
      <3>1. pc = "generated" => gen.model = Fixture
        BY CostIs DEF Pending
      <3> QED
        BY <1>1, <2>1, <3>1 DEF Identified, Safe
    <2>4. ASSUME NEW i \in DOMAIN records' PROVE Free(records'[i])
      <3>1. records \in Seq(CaseRecords)
        BY DEF RunInv, TypeInv
      <3>2. /\ DOMAIN records' = 1..(Len(records) + 1) /\ DOMAIN records = 1..Len(records)
            /\ \A j \in 1..Len(records) : records'[j] = records[j]
            /\ records'[Len(records) + 1] = r /\ Len(records) \in Nat
        BY <1>1, <3>1
      <3>3. CASE i = Len(records) + 1
        BY <2>2, <3>2, <3>3
      <3>4. CASE i \in 1..Len(records)
        BY <2>1, <3>2, <3>4
      <3>5. i = Len(records) + 1 \/ i \in 1..Len(records)
        BY <3>2
      <3> QED
        BY <3>3, <3>4, <3>5
    <2> QED
      BY <2>3, <2>4
  <1> QED
    BY <1>3, <1>4, <1>5, <1>6 DEF RunInv

LEMMA RunPublishBaseline ==
    ASSUME RunInv, PublishBaseline
    PROVE  RunInv'
  <1>1. /\ pc' = "preflight" /\ week' = 2 /\ UNCHANGED <<programme, gen, records, models, calls>>
    BY DEF PublishBaseline
  <1>2. TypeInv'
    BY <1>1 DEF TypeInv, RunInv, States
  <1>3. CaseInv' /\ FixtureInv'
    BY <1>1 DEF CaseInv, FixtureInv, Pending
  <1>4. GenInv'
    BY <1>1 DEF GenInv, RunInv, Pending
  <1> QED
    BY <1>2, <1>3, <1>4 DEF RunInv

\* The report of week 2, and that its contract accepts it.
Report(complete) ==
    [published |-> TRUE, mode |-> Mode, models |-> models, cost |-> Total(records),
     complete |-> complete, unpriced |-> Unpriced(records), comparable |-> Comparable(complete)]

LEMMA ReportAccepted ==
    ASSUME RunInv, pc = "publish", week = 2
    PROVE  ReportContract(Report(Unpriced(records) = 0))
  <1> DEFINE complete == Unpriced(records) = 0
             r == Report(complete)
  <1>1. /\ r.models = models /\ r.mode = Mode /\ r.complete = complete
        /\ r.comparable = Comparable(complete)
    BY DEF Report
  <1>2. models \subseteq Safe
    BY DEF RunInv, TypeInv
  <1>3. Comparable(complete) => complete /\ Live
    BY DEF Comparable
  <1>4. ASSUME Mode = "fixture"
        PROVE  /\ models = {Fixture} /\ ~Live
               /\ \A i \in DOMAIN records : Free(records[i])
    <2>1. ~Live
      BY <1>4 DEF Live
    <2> QED
      BY <2>1 DEF RunInv, FixtureInv
  <1>5. ASSUME Mode = "fixture"
        PROVE  complete
    <2>1. {i \in DOMAIN records : records[i].error = "pricing_failed"} = {}
      BY <1>4, <1>5 DEF Free
    <2> QED
      BY <2>1, FS_EmptySet DEF Unpriced
  <1> HIDE DEF complete, r
  <1>6. ASSUME Mode = "fixture"
        PROVE  \A i \in DOMAIN records : records[i].suite # "safety" =>
                  records[i].finish = None /\ records[i].input = 0 /\ records[i].cost = 0
    BY <1>4, <1>6 DEF Free
  <1>7. ReportContract(r)
    BY <1>1, <1>2, <1>3, <1>4, <1>5, <1>6 DEF ReportContract
  <1> QED
    BY <1>7 DEF r, complete

LEMMA PublishWeekTwoIs ==
    ASSUME RunInv, PublishWeekTwo
    PROVE  /\ pc = "publish" /\ week = 2 /\ pc' \in {"published", "unpublished"}
           /\ report' = IF pc' = "published" THEN Report(Unpriced(records) = 0) ELSE report
           /\ UNCHANGED <<programme, week, gen, answer, records, models, baseline, calls, answers>>
  <1>1. /\ pc = "publish" /\ week = 2
        /\ UNCHANGED <<programme, week, gen, answer, records, models, baseline, calls, answers>>
    BY DEF PublishWeekTwo
  <1>2. ReportContract(Report(Unpriced(records) = 0))
    BY <1>1, ReportAccepted
  <1>3. \E published \in BOOLEAN :
             /\ pc' = IF ~ReportContract(Report(Unpriced(records) = 0)) THEN "lost"
                      ELSE IF published THEN "published" ELSE "unpublished"
             /\ report' = IF pc' = "published" THEN Report(Unpriced(records) = 0) ELSE report
    BY DEF PublishWeekTwo, Report
  <1> QED
    BY <1>1, <1>2, <1>3

LEMMA RunPublishWeekTwo ==
    ASSUME RunInv, PublishWeekTwo
    PROVE  RunInv'
  <1>1. /\ pc = "publish" /\ pc' \in {"published", "unpublished"}
        /\ UNCHANGED <<programme, week, gen, records, models, calls>>
    BY PublishWeekTwoIs
  <1>2. Mode' = Mode /\ Live' = Live /\ Price' = Price /\ Cases' = Cases
    BY <1>1, SameWeek
  <1>3. TypeInv'
    BY <1>1 DEF TypeInv, RunInv, States
  <1>4. CaseInv' /\ GenInv'
    BY <1>1 DEF CaseInv, GenInv, RunInv, Pending
  <1>5. FixtureInv'
    BY <1>1, <1>2 DEF FixtureInv, RunInv
  <1> QED
    BY <1>3, <1>4, <1>5 DEF RunInv

LEMMA RunStutter ==
    ASSUME RunInv, UNCHANGED vars
    PROVE  RunInv'
  <1>1. UNCHANGED <<programme, week, pc, gen, answer, records, models, calls>>
    BY DEF vars
  <1>2. Mode' = Mode /\ Live' = Live /\ Price' = Price /\ Cases' = Cases /\ Current' = Current
    BY <1>1, SameWeek DEF Current
  <1> QED
    BY <1>1, <1>2 DEF RunInv, TypeInv, CaseInv, GenInv, FixtureInv, Pending

LEMMA RunStep ==
    RunInv /\ [Next]_vars => RunInv'
  BY StepKinds, RunPreflight, RunGenerate, RunPriced, RunExecuted, RunRecorded,
     RunPublishBaseline, RunPublishWeekTwo, RunStutter

THEOREM OnePassSound == Spec => []RunInv
  <1>1. Init => RunInv
    BY RunInit
  <1>2. RunInv /\ [Next]_vars => RunInv'
    BY RunStep
  <1> QED
    BY <1>1, <1>2, PTL DEF Spec

\* No record of a case and no report of the one-pass evaluations is refused by
\* the contract of its own model (BaselineCaseResult, Week2CaseResult and
\* Week2RunReport), whatever the providers answer, the policy finds and the
\* queries return: nothing that was generated and paid for is lost to it.
THEOREM NothingLost == Spec => []OnePassNothingLost
  <1>1. RunInv => OnePassNothingLost
    BY DEF RunInv, TypeInv, States, OnePassNothingLost
  <1> QED
    BY <1>1, OnePassSound, PTL

-----------------------------------------------------------------------------
(* The sums. *)

LEMMA TotalIsFold ==
    ASSUME NEW rs, IsFiniteSet(DOMAIN rs)
    PROVE  Total(rs) = CostFold(rs)
  <1>1. Total(rs) = CostSum(rs)
    BY DEF Total, CostSum
  <1> QED
    BY <1>1, CostSumIsSum, CostFoldIsSum

LEMMA TotalGrows ==
    ASSUME NEW rs \in Seq(CaseRecords), NEW r \in CaseRecords
    PROVE  Total(Append(rs, r)) = Total(rs) + r.cost /\ Total(rs) \in Nat
  <1>1. IsFiniteSet(DOMAIN rs) /\ IsFiniteSet(DOMAIN Append(rs, r))
    <2>1. /\ DOMAIN rs = 1..Len(rs) /\ Len(rs) \in Nat
          /\ DOMAIN Append(rs, r) = 1..(Len(rs) + 1) /\ Len(rs) + 1 \in Nat
      OBVIOUS
    <2> QED
      BY <2>1, FS_Interval
  <1>2. \A t \in CaseRecords : t.cost \in Nat
    BY DEF CaseRecords
  <1>3. CostFold(Append(rs, r)) = CostFold(rs) + r.cost /\ CostFold(rs) \in Nat
    BY <1>2, CostFoldGrows
  <1> QED
    BY <1>1, <1>3, TotalIsFold

LEMMA TotalOfNone == Total(<<>>) = 0
  <1>1. DOMAIN <<>> = {} /\ IsFiniteSet({})
    BY FS_EmptySet
  <1> QED
    BY <1>1, TotalIsFold, CostFoldOfNone

\* The prices of the calls of a provider, and the sum of them.
CallPrices(cs, price) ==
    [i \in DOMAIN cs |-> Cost(InputOf(cs[i].usage), OutputOf(cs[i].usage), price)]

CallSum(cs, price) ==
    MapThenSumSet(LAMBDA i : Cost(InputOf(cs[i].usage), OutputOf(cs[i].usage), price), DOMAIN cs)

CallRecursion(cs, price, g) ==
    g = [s \in SUBSET DOMAIN cs |->
            IF s = {} THEN 0
            ELSE Cost(InputOf(cs[CHOOSE x \in s : TRUE].usage),
                      OutputOf(cs[CHOOSE x \in s : TRUE].usage), price)
                   + g[s \ {CHOOSE x \in s : TRUE}]]

LEMMA CallSumUnfolds ==
    ASSUME NEW cs, NEW price, NEW g, CallRecursion(cs, price, g)
    PROVE  \E h : CallRecursion(cs, price, h) /\ CallSum(cs, price) = h[DOMAIN cs]
  BY DEF CallRecursion, CallSum, MapThenSumSet, MapThenFoldSet

LEMMA CallRecursionIsSums ==
    ASSUME NEW cs, NEW price, NEW g
    PROVE  CallRecursion(cs, price, g) <=> Sums(CallPrices(cs, price), DOMAIN cs, g)
  <1>1. \A s \in SUBSET DOMAIN cs : s # {} =>
           Cost(InputOf(cs[CHOOSE x \in s : TRUE].usage),
                OutputOf(cs[CHOOSE x \in s : TRUE].usage), price)
             = CallPrices(cs, price)[CHOOSE x \in s : TRUE]
    BY DEF CallPrices
  <1>2. [s \in SUBSET DOMAIN cs |->
            IF s = {} THEN 0
            ELSE Cost(InputOf(cs[CHOOSE x \in s : TRUE].usage),
                      OutputOf(cs[CHOOSE x \in s : TRUE].usage), price)
                   + g[s \ {CHOOSE x \in s : TRUE}]]
        = [s \in SUBSET DOMAIN cs |->
            IF s = {} THEN 0
            ELSE CallPrices(cs, price)[CHOOSE x \in s : TRUE] + g[s \ {CHOOSE x \in s : TRUE}]]
    BY <1>1
  <1> QED
    BY <1>2 DEF CallRecursion, Sums

LEMMA CallSumIsSum ==
    ASSUME NEW cs, NEW price, IsFiniteSet(DOMAIN cs)
    PROVE  CallSum(cs, price) = SumOver(CallPrices(cs, price), DOMAIN cs)
  <1>1. PICK g : Sums(CallPrices(cs, price), DOMAIN cs, g)
    BY SumsExist
  <1>2. PICK h : CallRecursion(cs, price, h) /\ CallSum(cs, price) = h[DOMAIN cs]
    BY <1>1, CallRecursionIsSums, CallSumUnfolds
  <1> QED
    BY <1>2, CallRecursionIsSums, SumIsRecursion

\* What the counts of the records cost, and the sum of it.
CountPrices(rs, price) == [i \in DOMAIN rs |-> Cost(rs[i].input, rs[i].output, price)]

CountSum(rs, price) ==
    MapThenSumSet(LAMBDA i : Cost(rs[i].input, rs[i].output, price), DOMAIN rs)

CountRecursion(rs, price, g) ==
    g = [s \in SUBSET DOMAIN rs |->
            IF s = {} THEN 0
            ELSE Cost(rs[CHOOSE x \in s : TRUE].input, rs[CHOOSE x \in s : TRUE].output, price)
                   + g[s \ {CHOOSE x \in s : TRUE}]]

LEMMA CountSumUnfolds ==
    ASSUME NEW rs, NEW price, NEW g, CountRecursion(rs, price, g)
    PROVE  \E h : CountRecursion(rs, price, h) /\ CountSum(rs, price) = h[DOMAIN rs]
  BY DEF CountRecursion, CountSum, MapThenSumSet, MapThenFoldSet

LEMMA CountRecursionIsSums ==
    ASSUME NEW rs, NEW price, NEW g
    PROVE  CountRecursion(rs, price, g) <=> Sums(CountPrices(rs, price), DOMAIN rs, g)
  <1>1. \A s \in SUBSET DOMAIN rs : s # {} =>
           Cost(rs[CHOOSE x \in s : TRUE].input, rs[CHOOSE x \in s : TRUE].output, price)
             = CountPrices(rs, price)[CHOOSE x \in s : TRUE]
    BY DEF CountPrices
  <1>2. [s \in SUBSET DOMAIN rs |->
            IF s = {} THEN 0
            ELSE Cost(rs[CHOOSE x \in s : TRUE].input, rs[CHOOSE x \in s : TRUE].output, price)
                   + g[s \ {CHOOSE x \in s : TRUE}]]
        = [s \in SUBSET DOMAIN rs |->
            IF s = {} THEN 0
            ELSE CountPrices(rs, price)[CHOOSE x \in s : TRUE] + g[s \ {CHOOSE x \in s : TRUE}]]
    BY <1>1
  <1> QED
    BY <1>2 DEF CountRecursion, Sums

LEMMA CountSumIsSum ==
    ASSUME NEW rs, NEW price, IsFiniteSet(DOMAIN rs)
    PROVE  CountSum(rs, price) = SumOver(CountPrices(rs, price), DOMAIN rs)
  <1>1. PICK g : Sums(CountPrices(rs, price), DOMAIN rs, g)
    BY SumsExist
  <1>2. PICK h : CountRecursion(rs, price, h) /\ CountSum(rs, price) = h[DOMAIN rs]
    BY <1>1, CountRecursionIsSums, CountSumUnfolds
  <1> QED
    BY <1>2, CountRecursionIsSums, SumIsRecursion

\* Records whose costs are those of their counts cost the sum of these.
LEMMA TotalIsCountSum ==
    ASSUME NEW rs, NEW price, IsFiniteSet(DOMAIN rs),
           \A i \in DOMAIN rs : rs[i].cost = Cost(rs[i].input, rs[i].output, price)
    PROVE  Total(rs) = CountSum(rs, price)
  <1>1. Total(rs) = SumOver(CostsOf(rs), DOMAIN rs)
    BY TotalIsFold, CostFoldIsSum
  <1>2. \A i \in DOMAIN rs : CostsOf(rs)[i] = CountPrices(rs, price)[i]
    BY DEF CostsOf, CountPrices
  <1> QED
    BY <1>1, <1>2, CountSumIsSum, SumsOfSame

-----------------------------------------------------------------------------
(* A complete cost is true. *)

AllPriced(rs) == \A i \in DOMAIN rs : rs[i].error # "pricing_failed"

\* The calls of week 2 whose cases are recorded.
Finished == IF Pending THEN Len(calls[2]) - 1 ELSE Len(calls[2])

\* While every record has a price, they cost what the finished calls cost.
MoneyInv ==
    /\ week = 1 \/ pc = "preflight" => calls[2] = <<>>
    /\ week = 2 /\ Live /\ pc \notin {"preflight", "refused"} /\ AllPriced(records) =>
         /\ \A i \in 1..Finished : calls[2][i].model \in Bound /\ calls[2][i].usage = "full"
         /\ Total(records) = SumOver(CallPrices(calls[2], Price), 1..Finished)

\* There is no report until it is published.
ReportInv == pc # "published" => report = NoReport

LEMMA CallsTyped ==
    ASSUME TypeInv, NEW w \in 1..2
    PROVE  /\ calls[w] \in Seq(Responses) /\ Len(calls[w]) \in Nat
           /\ DOMAIN calls[w] = 1..Len(calls[w])
           /\ \A i \in 1..Len(calls[w]) : calls[w][i] \in Responses
  <1>1. calls[w] \in Seq(Responses)
    BY DEF TypeInv
  <1> QED
    BY <1>1

\* The calls' prices are natural numbers in a live week 2.
LEMMA CallPricesTyped ==
    ASSUME TypeInv, Live, week = 2
    PROVE  \A i \in 1..Len(calls[2]) :
              /\ CallPrices(calls[2], Price)[i] \in Nat
              /\ CallPrices(calls[2], Price)[i]
                   = Cost(InputOf(calls[2][i].usage), OutputOf(calls[2][i].usage), Price)
  <1> SUFFICES ASSUME NEW i \in 1..Len(calls[2])
               PROVE  /\ CallPrices(calls[2], Price)[i] \in Nat
                      /\ CallPrices(calls[2], Price)[i]
                           = Cost(InputOf(calls[2][i].usage), OutputOf(calls[2][i].usage), Price)
    OBVIOUS
  <1>0. 2 \in 1..2
    OBVIOUS
  <1>1. DOMAIN calls[2] = 1..Len(calls[2]) /\ calls[2][i] \in Responses
    BY <1>0, CallsTyped
  <1>2. calls[2][i].usage \in Usages
    BY <1>1, ResponseIs
  <1>3. InputOf(calls[2][i].usage) \in Nat /\ OutputOf(calls[2][i].usage) \in Nat
    BY <1>2, UsageTyped
  <1>4. Cost(InputOf(calls[2][i].usage), OutputOf(calls[2][i].usage), Price) \in Nat
    BY <1>3, Priced
  <1> QED
    BY <1>1, <1>4 DEF CallPrices

\* The last call of a case that is under way.
LEMMA LastCall ==
    ASSUME RunInv, Pending, Live
    PROVE  LET c == calls[week][Len(calls[week])]
           IN  /\ Len(calls[week]) \in Nat \ {0} /\ c \in Responses
               /\ gen.model = c.model
               /\ gen.input = InputOf(c.usage) /\ gen.output = OutputOf(c.usage)
               /\ Chargeable => c.usage = "full"
  <1> DEFINE n == Len(calls[week])
             c == calls[week][n]
  <1>1. calls[week] # <<>> /\ gen = Generation(c) /\ week \in 1..2
    BY DEF RunInv, GenInv, TypeInv
  <1>2. calls[week] \in Seq(Responses)
    BY <1>1, CallsTyped DEF RunInv
  <1>3. n \in Nat \ {0} /\ c \in Responses
    BY <1>1, <1>2
  <1>4. gen.model = c.model /\ gen.input = InputOf(c.usage) /\ gen.output = OutputOf(c.usage)
    BY <1>1, <1>3, GenerationIs
  <1>5. c.usage \in Usages
    BY <1>3, ResponseIs
  <1>6. Chargeable => c.usage = "full"
    <2>1. Price.bound \in Nat /\ Price.bound < 3
      BY Priced DEF RunInv
    <2>2. CASE c.usage \in {"none", "partial"}
      <3>1. OutputOf(c.usage) = 0
        BY <2>2, Usage
      <3> QED
        BY <1>4, <3>1 DEF Chargeable, CompleteUsage
    <2>3. CASE c.usage = "large"
      <3>1. gen.input = 3
        BY <1>4, <2>3, Usage
      <3>2. ~InBracket(gen.input, Price)
        BY <2>1, <3>1 DEF InBracket
      <3> QED
        BY <3>2 DEF Chargeable
    <2> QED
      BY <1>5, <2>2, <2>3 DEF Usages
  <1> QED
    BY <1>3, <1>4, <1>6

\* The parts of the records that a step appended to.
LEMMA AppendedIs ==
    ASSUME RunInv, NEW r, Recorded(r)
    PROVE  /\ Len(records) \in Nat /\ DOMAIN records = 1..Len(records)
           /\ DOMAIN records' = 1..(Len(records) + 1) /\ Len(records') = Len(records) + 1
           /\ \A i \in DOMAIN records : records'[i] = records[i]
           /\ records'[Len(records) + 1] = r
           /\ Total(records') = Total(records) + r.cost
           /\ Total(records) \in Nat /\ r.cost \in Nat
  <1>1. records \in Seq(CaseRecords) /\ r \in CaseRecords /\ records' = Append(records, r)
    BY DEF RunInv, TypeInv, Recorded
  <1>2. Total(records') = Total(records) + r.cost /\ Total(records) \in Nat
    BY <1>1, TotalGrows
  <1>3. r.cost \in Nat
    BY <1>1 DEF CaseRecords
  <1> QED
    BY <1>1, <1>2, <1>3

LEMMA MoneyRecorded ==
    ASSUME RunInv, MoneyInv, NEW r, Recorded(r)
    PROVE  MoneyInv'
  <1>1. /\ pc \in {"next", "generated", "priced", "scoring"} /\ pc' \in {"next", "publish"}
        /\ UNCHANGED <<programme, week, calls, gen>>
    BY DEF Recorded, Fixed
  <1>2. Mode' = Mode /\ Live' = Live /\ Price' = Price /\ Cases' = Cases
    BY <1>1, SameWeek
  <1>3. /\ Len(records) \in Nat /\ DOMAIN records = 1..Len(records)
        /\ DOMAIN records' = 1..(Len(records) + 1)
        /\ \A i \in DOMAIN records : records'[i] = records[i]
        /\ records'[Len(records) + 1] = r
        /\ Total(records') = Total(records) + r.cost
        /\ Total(records) \in Nat /\ r.cost \in Nat
    BY AppendedIs
  <1>4. (week' = 1 \/ pc' = "preflight") => calls'[2] = <<>>
    BY <1>1 DEF MoneyInv
  <1> DEFINE n == Len(calls[2])
             v == CallPrices(calls[2], Price)
  <1>5. ASSUME week = 2, Live, AllPriced(records')
        PROVE  /\ \A i \in 1..n : calls[2][i].model \in Bound /\ calls[2][i].usage = "full"
               /\ Total(records') = SumOver(v, 1..n)
    <2>1. AllPriced(records) /\ r.error # "pricing_failed"
      BY <1>3, <1>5 DEF AllPriced
    <2>2. /\ \A i \in 1..Finished : calls[2][i].model \in Bound /\ calls[2][i].usage = "full"
          /\ Total(records) = SumOver(v, 1..Finished)
      BY <1>1, <1>5, <2>1 DEF MoneyInv
    <2>3. CASE pc = "next"
      <3>1. Finished = n
        BY <2>3 DEF Finished, Pending
      <3>2. r.cost = 0
        BY <2>3 DEF Recorded
      <3> QED
        BY <1>3, <2>2, <3>1, <3>2
    <2>4. CASE pc # "next"
      <3>1. Pending
        BY <1>1, <2>4 DEF Pending
      <3>2. Chargeable /\ r.cost = Cost(gen.input, gen.output, Price)
        BY <1>5, <2>1, <2>4 DEF Recorded
      <3>3. /\ n \in Nat \ {0} /\ gen.model = calls[2][n].model
            /\ gen.input = InputOf(calls[2][n].usage) /\ gen.output = OutputOf(calls[2][n].usage)
            /\ calls[2][n].usage = "full"
        BY <1>5, <3>1, <3>2, LastCall
      <3> DEFINE m == n - 1
      <3>4. m \in Nat /\ m + 1 = n /\ Finished = m
        BY <3>1, <3>3 DEF Finished
      <3>5. \A i \in 1..n :
               /\ v[i] \in Nat
               /\ v[i] = Cost(InputOf(calls[2][i].usage), OutputOf(calls[2][i].usage), Price)
        BY <1>5, CallPricesTyped DEF RunInv
      <3>6. v[n] = r.cost
        BY <3>2, <3>3, <3>5
      <3> HIDE DEF m, n, v
      <3>7. SumOver(v, 1..(m + 1)) = v[m + 1] + SumOver(v, 1..m)
        BY <3>4, <3>5, SumOfAppend
      <3>8. Total(records') = SumOver(v, 1..n)
        BY <1>3, <2>2, <3>4, <3>6, <3>7
      <3>9. calls[2][n].model \in Bound
        BY <3>2, <3>3 DEF Chargeable
      <3>10. \A i \in 1..n : i \in 1..m \/ i = n
        BY <3>3, <3>4
      <3> QED
        BY <2>2, <3>3, <3>4, <3>8, <3>9, <3>10
    <2> QED
      BY <2>3, <2>4
  <1>6. Finished' = n
    BY <1>1 DEF Finished, Pending
  <1>7. CallPrices(calls[2], Price)' = v
    BY <1>1, <1>2
  <1> HIDE DEF n, v
  <1>8. ASSUME week' = 2, Live', AllPriced(records)'
        PROVE  /\ \A i \in 1..Finished' : calls'[2][i].model \in Bound /\ calls'[2][i].usage = "full"
               /\ Total(records)' = SumOver(v, 1..Finished')
    <2>1. week = 2 /\ Live /\ AllPriced(records')
      BY <1>1, <1>2, <1>8 DEF AllPriced
    <2>2. Total(records)' = Total(records')
      OBVIOUS
    <2> QED
      BY <1>1, <1>5, <1>6, <2>1, <2>2
  <1> QED
    BY <1>4, <1>7, <1>8 DEF MoneyInv

LEMMA MoneyGenerate ==
    ASSUME RunInv, MoneyInv, Generate
    PROVE  MoneyInv'
  <1>1. /\ pc = "next" /\ pc' = "generated"
        /\ UNCHANGED <<programme, week, records>>
    BY DEF Generate, Fixed
  <1>2. Mode' = Mode /\ Live' = Live /\ Price' = Price
    BY <1>1, SameWeek
  <1>3. /\ TypeInv /\ TypeInv' /\ week \in 1..2 /\ calls \in [1..2 -> Seq(Responses)]
    BY RunGenerate DEF RunInv, TypeInv
  <1>4. calls' = calls \/ \E r \in Responses : calls' = [calls EXCEPT ![week] = Append(@, r)]
    BY DEF Generate
  <1>5. week = 1 => calls'[2] = <<>>
    <2>1. week = 1 => calls'[2] = calls[2]
      BY <1>3, <1>4
    <2> QED
      BY <2>1 DEF MoneyInv
  <1>6. ASSUME week = 2, Live, AllPriced(records)
        PROVE  /\ \A i \in 1..Finished' : calls'[2][i].model \in Bound /\ calls'[2][i].usage = "full"
               /\ Total(records) = SumOver(CallPrices(calls'[2], Price), 1..Finished')
    <2> DEFINE n == Len(calls[2])
               v == CallPrices(calls[2], Price)
               w == CallPrices(calls'[2], Price)
    <2>1. PICK r \in Responses : calls'[2] = Append(calls[2], r)
      <3>1. PICK r \in Responses : calls' = [calls EXCEPT ![week] = Append(@, r)]
        BY <1>6 DEF Generate
      <3> QED
        BY <1>3, <1>6, <3>1
    <2>2. /\ n \in Nat /\ Len(calls'[2]) = n + 1 /\ calls[2] \in Seq(Responses)
          /\ DOMAIN calls[2] = 1..n /\ DOMAIN calls'[2] = 1..(n + 1)
          /\ \A i \in 1..n : calls'[2][i] = calls[2][i]
      <3>1. calls[2] \in Seq(Responses)
        BY <1>3
      <3> QED
        BY <2>1, <3>1
    <2>3. Finished = n /\ Finished' = n
      <3>1. ~Pending /\ Pending'
        BY <1>1 DEF Pending
      <3> QED
        BY <2>2, <3>1 DEF Finished
    <2>4. /\ \A i \in 1..Finished : calls[2][i].model \in Bound /\ calls[2][i].usage = "full"
          /\ Total(records) = SumOver(v, 1..Finished)
      BY <1>1, <1>6 DEF MoneyInv
    <2>5. \A i \in 1..n : v[i] = w[i]
      BY <2>2 DEF CallPrices
    <2>6. IsFiniteSet(1..n)
      BY <2>2, FS_Interval
    <2> HIDE DEF v, w, n
    <2>7. SumOver(v, 1..n) = SumOver(w, 1..n)
      BY <2>5, <2>6, SumsOfSame
    <2> QED
      BY <2>2, <2>3, <2>4, <2>7 DEF w
  <1>7. /\ week' = week /\ pc' # "preflight" /\ Live' = Live /\ Price' = Price
        /\ records' = records
    BY <1>1, <1>2
  <1> QED
    BY <1>5, <1>6, <1>7 DEF MoneyInv

LEMMA MoneyStill ==
    ASSUME RunInv, MoneyInv, UNCHANGED <<programme, week, records, calls>>,
           Pending' = Pending, pc' # "preflight" \/ pc = "preflight",
           pc' \notin {"preflight", "refused"} => pc \notin {"preflight", "refused"}
    PROVE  MoneyInv'
  <1>1. Mode' = Mode /\ Live' = Live /\ Price' = Price
    BY SameWeek
  <1>2. Finished' = Finished
    BY DEF Finished
  <1> QED
    BY <1>1, <1>2 DEF MoneyInv

LEMMA MoneyPreflight ==
    ASSUME RunInv, MoneyInv, Preflight
    PROVE  MoneyInv'
  <1>1. /\ pc = "preflight" /\ pc' \in {"refused", "next"} /\ records' = <<>>
        /\ UNCHANGED <<programme, week, calls>>
    BY DEF Preflight, Fixed
  <1>2. calls'[2] = <<>>
    BY <1>1 DEF MoneyInv
  <1>3. Finished' = 0
    <2>1. ~Pending'
      BY <1>1 DEF Pending
    <2> QED
      BY <1>2, <2>1 DEF Finished
  <1>4. 1..0 = {}
    OBVIOUS
  <1>5. Total(records') = 0
    BY <1>1, TotalOfNone
  <1>6. Total(records)' = SumOver(CallPrices(calls[2], Price)', 1..Finished')
    <2>1. Total(records)' = Total(records')
      OBVIOUS
    <2>2. SumOver(CallPrices(calls[2], Price)', {}) = 0
      BY SumOfNone
    <2> QED
      BY <1>3, <1>4, <1>5, <2>1, <2>2
  <1>7. \A i \in 1..Finished' : calls'[2][i].model \in Bound /\ calls'[2][i].usage = "full"
    BY <1>3, <1>4
  <1>8. SumOver(CallPrices(calls[2], Price), 1..Finished)'
          = SumOver(CallPrices(calls[2], Price)', 1..Finished')
    OBVIOUS
  <1> QED
    BY <1>2, <1>6, <1>7, <1>8 DEF MoneyInv

LEMMA MoneyStep ==
    RunInv /\ MoneyInv /\ [Next]_vars => MoneyInv'
  <1> SUFFICES ASSUME RunInv, MoneyInv, [Next]_vars PROVE MoneyInv'
    OBVIOUS
  <1>1. CASE Preflight
    BY <1>1, MoneyPreflight
  <1>2. CASE Generate
    BY <1>2, MoneyGenerate
  <1>3. CASE PricedStep
    <2>1. /\ UNCHANGED <<programme, week, records, calls>> /\ pc = "generated" /\ pc' = "priced"
      BY <1>3 DEF PricedStep, Fixed
    <2> QED
      BY <2>1, MoneyStill DEF Pending
  <1>4. CASE Executed
    <2>1. /\ UNCHANGED <<programme, week, records, calls>> /\ pc = "priced" /\ pc' = "scoring"
      BY <1>4 DEF Executed, Fixed
    <2> QED
      BY <2>1, MoneyStill DEF Pending
  <1>5. CASE \E r : Recorded(r)
    BY <1>5, MoneyRecorded
  <1>6. CASE PublishBaseline
    <2>1. week = 1 /\ pc' = "preflight" /\ calls' = calls
      BY <1>6 DEF PublishBaseline
    <2> QED
      BY <2>1 DEF MoneyInv
  <1>7. CASE PublishWeekTwo
    <2>1. /\ UNCHANGED <<programme, week, records, calls>> /\ pc = "publish"
          /\ pc' \in {"published", "unpublished"}
      BY <1>7, PublishWeekTwoIs
    <2> QED
      BY <2>1, MoneyStill DEF Pending
  <1>8. CASE UNCHANGED vars
    BY <1>8, MoneyStill DEF vars, Pending
  <1> QED
    BY <1>1, <1>2, <1>3, <1>4, <1>5, <1>6, <1>7, <1>8, StepKinds

\* What a report of cost complete says of the calls cs, under a price record.
CostTrue(rep, cs, price) ==
    rep.published /\ rep.mode = "live" /\ rep.complete =>
      /\ \A i \in DOMAIN cs : cs[i].model \in Bound /\ cs[i].usage = "full"
      /\ rep.cost = CallSum(cs, price)

CostInv == CostTrue(report, calls[2], Price)

\* A step publishes the report, leaves everything or leaves no report.
LEMMA ReportStep ==
    ASSUME RunInv, ReportInv, [Next]_vars
    PROVE  /\ ReportInv'
           /\ \/ PublishWeekTwo /\ pc' = "published"
              \/ UNCHANGED vars
              \/ report' = NoReport
  <1>1. CASE Preflight
    BY <1>1 DEF Preflight, Fixed, ReportInv
  <1>2. CASE Generate
    BY <1>2 DEF Generate, Fixed, ReportInv
  <1>3. CASE PricedStep
    BY <1>3 DEF PricedStep, Fixed, ReportInv
  <1>4. CASE Executed
    BY <1>4 DEF Executed, Fixed, ReportInv
  <1>5. CASE \E r : Recorded(r)
    <2>1. pc # "published" /\ report' = report
      BY <1>5 DEF Recorded, Fixed
    <2> QED
      BY <2>1 DEF ReportInv
  <1>6. CASE PublishBaseline
    BY <1>6 DEF PublishBaseline, ReportInv
  <1>7. CASE PublishWeekTwo
    <2>1. /\ pc = "publish"
          /\ report' = IF pc' = "published" THEN Report(Unpriced(records) = 0) ELSE report
      BY <1>7, PublishWeekTwoIs
    <2> QED
      BY <1>7, <2>1 DEF ReportInv
  <1>8. CASE UNCHANGED vars
    BY <1>8 DEF vars, ReportInv
  <1> QED
    BY <1>1, <1>2, <1>3, <1>4, <1>5, <1>6, <1>7, <1>8, StepKinds

LEMMA CompleteIs ==
    ASSUME RunInv, Unpriced(records) = 0
    PROVE  AllPriced(records)
  <1>1. records \in Seq(CaseRecords)
    BY DEF RunInv, TypeInv
  <1>2. Len(records) \in Nat /\ DOMAIN records = 1..Len(records)
    BY <1>1
  <1>3. IsFiniteSet(DOMAIN records)
    BY <1>2, FS_Interval
  <1> DEFINE S == {i \in DOMAIN records : records[i].error = "pricing_failed"}
  <1>4. IsFiniteSet(S)
    BY <1>3, FS_Subset
  <1>5. Cardinality(S) = 0
    BY DEF Unpriced
  <1>6. S = {}
    <2> HIDE DEF S
    <2> QED
      BY <1>4, <1>5, FS_EmptySet
  <1> QED
    BY <1>6 DEF AllPriced

\* At the end of a live week 2 without failures to price, its records cost
\* what its calls cost.
LEMMA CostAtPublish ==
    ASSUME RunInv, MoneyInv, pc = "publish", week = 2, Live, Unpriced(records) = 0
    PROVE  /\ \A i \in DOMAIN calls[2] : calls[2][i].model \in Bound /\ calls[2][i].usage = "full"
           /\ Total(records) = CallSum(calls[2], Price)
  <1>1. AllPriced(records)
    BY CompleteIs
  <1>2. Finished = Len(calls[2])
    BY DEF Finished, Pending
  <1>3. /\ \A i \in 1..Len(calls[2]) : calls[2][i].model \in Bound /\ calls[2][i].usage = "full"
        /\ Total(records) = SumOver(CallPrices(calls[2], Price), 1..Len(calls[2]))
    BY <1>1, <1>2 DEF MoneyInv
  <1>4. Len(calls[2]) \in Nat /\ DOMAIN calls[2] = 1..Len(calls[2])
    <2>1. 2 \in 1..2
      OBVIOUS
    <2> QED
      BY <2>1, CallsTyped DEF RunInv
  <1>5. CallSum(calls[2], Price) = SumOver(CallPrices(calls[2], Price), DOMAIN calls[2])
    BY <1>4, FS_Interval, CallSumIsSum
  <1> QED
    BY <1>3, <1>4, <1>5

LEMMA CostStep ==
    RunInv /\ MoneyInv /\ ReportInv /\ CostInv /\ [Next]_vars => CostInv'
  <1> SUFFICES ASSUME RunInv, MoneyInv, ReportInv, CostInv, [Next]_vars PROVE CostInv'
    OBVIOUS
  <1>1. CASE PublishWeekTwo /\ pc' = "published"
    <2>1. /\ pc = "publish" /\ week = 2 /\ UNCHANGED <<programme, week, calls>>
          /\ report' = Report(Unpriced(records) = 0)
      BY <1>1, PublishWeekTwoIs
    <2>2. Price' = Price
      BY <2>1, SameWeek
    <2>3. CostTrue(report', calls[2], Price)
      <3> SUFFICES ASSUME report'.published, report'.mode = "live", report'.complete
                   PROVE  /\ \A i \in DOMAIN calls[2] :
                               calls[2][i].model \in Bound /\ calls[2][i].usage = "full"
                          /\ report'.cost = CallSum(calls[2], Price)
        BY DEF CostTrue
      <3>1. Live /\ Unpriced(records) = 0 /\ report'.cost = Total(records)
        BY <2>1 DEF Report, Live
      <3> QED
        BY <2>1, <3>1, CostAtPublish
    <2> QED
      BY <2>1, <2>2, <2>3 DEF CostInv
  <1>2. CASE UNCHANGED vars
    <2>1. UNCHANGED <<programme, week, calls, report>>
      BY <1>2 DEF vars
    <2>2. Price' = Price
      BY <2>1, SameWeek
    <2> QED
      BY <2>1, <2>2 DEF CostInv
  <1>3. CASE report' = NoReport
    <2>1. ~(report'.published)
      BY <1>3 DEF NoReport
    <2>2. \A cs, price : CostTrue(report', cs, price)
      BY <2>1 DEF CostTrue
    <2> QED
      BY <2>2 DEF CostInv
  <1> QED
    BY <1>1, <1>2, <1>3, ReportStep

LEMMA CostInit == Init => MoneyInv /\ ReportInv /\ CostInv
  <1> SUFFICES ASSUME Init PROVE MoneyInv /\ ReportInv /\ CostInv
    OBVIOUS
  <1>1. week = 1 /\ pc = "preflight" /\ calls[2] = <<>> /\ report = NoReport
    BY DEF Init
  <1> QED
    BY <1>1 DEF MoneyInv, ReportInv, CostInv, CostTrue, NoReport

\* A week 2 report that calls its cost complete states the price, under the
\* price record, of every answer of the provider, each of a bound identity and
\* with a whole usage (run_week2_evaluation, derive_week2_aggregates): for any
\* cases, prices and number of calls.
THEOREM CostIsTrue == Spec => []CompleteCostIsTrue
  <1>1. Init => MoneyInv /\ ReportInv /\ CostInv
    BY CostInit
  <1>2. RunInv /\ MoneyInv /\ ReportInv /\ CostInv /\ [Next]_vars
          => (MoneyInv /\ ReportInv /\ CostInv)'
    BY MoneyStep, ReportStep, CostStep
  <1>3. CostInv => CompleteCostIsTrue
    BY DEF CostInv, CostTrue, CompleteCostIsTrue, CallSum
  <1> QED
    BY <1>1, <1>2, <1>3, OnePassSound, PTL DEF Spec

-----------------------------------------------------------------------------
(* A comparison called comparable is. *)

\* The calls of the week whose identities are collected.
Known == IF pc = "generated" THEN Len(calls[week]) - 1 ELSE Len(calls[week])

\* The identities of the first n of the calls cs.
FirstIdentities(cs, n) == {cs[i].model : i \in 1..n} \ {Unknown}

\* A live run has collected the identities of the calls, but for the one that
\* is under way.
ModelsInv ==
    /\ pc = "preflight" => calls[week] = <<>>
    /\ Live /\ pc \notin {"preflight", "refused"} => models = FirstIdentities(calls[week], Known)

\* A reference is what week 1 published of itself, and week 2 runs only
\* with one.
BaselineInv ==
    week = 2 =>
      /\ pc \notin {"preflight", "refused"} => baseline.published
      /\ baseline.published =>
           /\ baseline.mode = programme.mode[1] /\ baseline.data = programme.data[1]
           /\ IsFiniteSet(DOMAIN baseline.records)
           /\ programme.mode[1] = "live" => baseline.models = IdentitiesOf(calls[1])

LEMMA AllIdentities ==
    ASSUME TypeInv, NEW w \in 1..2
    PROVE  FirstIdentities(calls[w], Len(calls[w])) = IdentitiesOf(calls[w])
  BY CallsTyped DEF FirstIdentities, IdentitiesOf

\* Collecting the identity of the last call.
LEMMA IdentifiedIs ==
    ASSUME RunInv, pc = "generated", Live,
           models = FirstIdentities(calls[week], Len(calls[week]) - 1)
    PROVE  Identified = FirstIdentities(calls[week], Len(calls[week]))
  <1> DEFINE n == Len(calls[week])
             c == calls[week][n]
  <1>1. n \in Nat \ {0} /\ c \in Responses /\ gen.model = c.model
    BY LastCall DEF Pending
  <1>2. c.model \in Safe \cup {Unknown} /\ Unknown \notin Safe
    BY <1>1, ResponseIs, IdentitiesAssumption
  <1>3. {gen.model} \cap Safe = {c.model} \ {Unknown}
    BY <1>1, <1>2
  <1>4. 1..n = 1..(n - 1) \cup {n}
    BY <1>1
  <1> HIDE DEF n
  <1>5. {calls[week][i].model : i \in 1..n} = {calls[week][i].model : i \in 1..(n - 1)} \cup {c.model}
    BY <1>4
  <1>6. models = {calls[week][i].model : i \in 1..(n - 1)} \ {Unknown}
    BY DEF n, FirstIdentities
  <1> QED
    BY <1>3, <1>5, <1>6 DEF Identified, FirstIdentities, n

LEMMA ModelsStep ==
    RunInv /\ MoneyInv /\ ModelsInv /\ [Next]_vars => ModelsInv'
  <1> SUFFICES ASSUME RunInv, MoneyInv, ModelsInv, [Next]_vars PROVE ModelsInv'
    OBVIOUS
  <1>0. /\ TypeInv /\ week \in 1..2 /\ calls \in [1..2 -> Seq(Responses)]
        /\ calls[week] \in Seq(Responses) /\ Len(calls[week]) \in Nat
    BY CallsTyped DEF RunInv, TypeInv
  <1>1. CASE Preflight
    <2>1. /\ pc = "preflight" /\ pc' \in {"refused", "next"}
          /\ UNCHANGED <<programme, week, calls>>
          /\ Live => models' = {}
      BY <1>1 DEF Preflight, Fixed
    <2>2. Live' = Live
      BY <2>1, SameWeek
    <2>3. calls'[week] = <<>> /\ Known' = 0
      BY <2>1 DEF ModelsInv, Known
    <2>4. 1..0 = {}
      OBVIOUS
    <2>5. FirstIdentities(calls'[week], 0) = {}
      BY <2>4 DEF FirstIdentities
    <2> QED
      BY <2>1, <2>2, <2>3, <2>5 DEF ModelsInv
  <1>2. CASE Generate
    <2>1. pc = "next" /\ pc' = "generated" /\ UNCHANGED <<programme, week, models>>
      BY <1>2 DEF Generate, Fixed
    <2>2. Live' = Live
      BY <2>1, SameWeek
    <2>3. ASSUME Live
          PROVE  models' = FirstIdentities(calls'[week], Known')
      <3>1. PICK r \in Responses : calls' = [calls EXCEPT ![week] = Append(@, r)]
        BY <1>2, <2>3 DEF Generate
      <3> DEFINE n == Len(calls[week])
      <3>2. calls'[week] = Append(calls[week], r)
        BY <1>0, <3>1
      <3>3. /\ Len(calls'[week]) = n + 1 /\ n \in Nat
            /\ \A i \in 1..n : calls'[week][i] = calls[week][i]
        BY <1>0, <3>2
      <3>4. Known = n /\ Known' = n
        BY <2>1, <3>3 DEF Known
      <3>5. models = FirstIdentities(calls[week], n)
        BY <2>1, <2>3, <3>4 DEF ModelsInv
      <3> HIDE DEF n
      <3>6. FirstIdentities(calls[week], n) = FirstIdentities(calls'[week], n)
        BY <3>3 DEF FirstIdentities
      <3> QED
        BY <2>1, <3>4, <3>5, <3>6
    <2> QED
      BY <2>1, <2>2, <2>3 DEF ModelsInv
  <1>3. CASE PricedStep
    <2>1. /\ pc = "generated" /\ pc' = "priced" /\ UNCHANGED <<programme, week, calls>>
          /\ models' = Identified
      BY <1>3 DEF PricedStep, Fixed
    <2>2. Live' = Live
      BY <2>1, SameWeek
    <2>3. Known' = Len(calls[week]) /\ Known = Len(calls[week]) - 1
      BY <2>1 DEF Known
    <2>4. Live => models' = FirstIdentities(calls[week], Len(calls[week]))
      BY <2>1, <2>3, IdentifiedIs DEF ModelsInv
    <2> QED
      BY <2>1, <2>2, <2>3, <2>4 DEF ModelsInv
  <1>4. CASE Executed
    <2>1. /\ pc = "priced" /\ pc' = "scoring" /\ UNCHANGED <<programme, week, calls, models>>
      BY <1>4 DEF Executed, Fixed
    <2>2. Live' = Live /\ Known' = Known
      BY <2>1, SameWeek DEF Known
    <2> QED
      BY <2>1, <2>2 DEF ModelsInv
  <1>5. CASE \E r : Recorded(r)
    <2>1. /\ pc \in {"next", "generated", "priced", "scoring"} /\ pc' \in {"next", "publish"}
          /\ UNCHANGED <<programme, week, calls>>
          /\ models' = IF pc = "generated" THEN Identified ELSE models
      BY <1>5 DEF Recorded, Fixed
    <2>2. Live' = Live
      BY <2>1, SameWeek
    <2>3. /\ Known' = Len(calls[week])
          /\ Known = IF pc = "generated" THEN Len(calls[week]) - 1 ELSE Len(calls[week])
      BY <2>1 DEF Known
    <2>4. Live => models' = FirstIdentities(calls[week], Len(calls[week]))
      BY <2>1, <2>3, IdentifiedIs DEF ModelsInv
    <2> QED
      BY <2>1, <2>2, <2>3, <2>4 DEF ModelsInv
  <1>6. CASE PublishBaseline
    <2>1. week = 1 /\ week' = 2 /\ pc' = "preflight" /\ calls' = calls
      BY <1>6 DEF PublishBaseline
    <2>2. calls[2] = <<>>
      BY <2>1 DEF MoneyInv
    <2> QED
      BY <2>1, <2>2 DEF ModelsInv
  <1>7. CASE PublishWeekTwo
    <2>1. /\ UNCHANGED <<programme, week, models, calls>> /\ pc = "publish"
          /\ pc' \in {"published", "unpublished"}
      BY <1>7, PublishWeekTwoIs
    <2>2. Live' = Live /\ Known' = Known
      BY <2>1, SameWeek DEF Known
    <2> QED
      BY <2>1, <2>2 DEF ModelsInv
  <1>8. CASE UNCHANGED vars
    <2>1. UNCHANGED <<programme, week, models, calls, pc>>
      BY <1>8 DEF vars
    <2>2. Live' = Live /\ Known' = Known
      BY <2>1, SameWeek DEF Known
    <2> QED
      BY <2>1, <2>2 DEF ModelsInv
  <1> QED
    BY <1>1, <1>2, <1>3, <1>4, <1>5, <1>6, <1>7, <1>8, StepKinds

LEMMA BaselineStep ==
    RunInv /\ ModelsInv /\ BaselineInv /\ [Next]_vars => BaselineInv'
  <1> SUFFICES ASSUME RunInv, ModelsInv, BaselineInv, [Next]_vars PROVE BaselineInv'
    OBVIOUS
  <1>0. TypeInv /\ week \in 1..2 /\ calls \in [1..2 -> Seq(Responses)]
    BY DEF RunInv, TypeInv
  <1>9. ASSUME UNCHANGED <<programme, week, baseline>>, week = 2 => calls'[1] = calls[1],
               pc \notin {"preflight", "refused"}
        PROVE  BaselineInv'
    BY <1>9 DEF BaselineInv, IdentitiesOf
  <1>1. CASE Preflight
    <2>1. /\ UNCHANGED <<programme, week, baseline, calls>>
          /\ pc' \notin {"preflight", "refused"} => (week = 2 => baseline.published)
      BY <1>1 DEF Preflight, Fixed
    <2> QED
      BY <2>1 DEF BaselineInv
  <1>2. CASE Generate
    <2>1. /\ pc = "next" /\ UNCHANGED <<programme, week, baseline>>
          /\ calls' = calls \/ \E r \in Responses : calls' = [calls EXCEPT ![week] = Append(@, r)]
      BY <1>2 DEF Generate, Fixed
    <2>2. week = 2 => calls'[1] = calls[1]
      BY <1>0, <2>1
    <2> QED
      BY <1>9, <2>1, <2>2
  <1>3. CASE PricedStep
    BY <1>3, <1>9 DEF PricedStep, Fixed
  <1>4. CASE Executed
    BY <1>4, <1>9 DEF Executed, Fixed
  <1>5. CASE \E r : Recorded(r)
    BY <1>5, <1>9 DEF Recorded, Fixed
  <1>6. CASE PublishBaseline
    <2>1. /\ pc = "publish" /\ week = 1 /\ week' = 2 /\ pc' = "preflight"
          /\ UNCHANGED <<programme, records, models, calls>>
      BY <1>6 DEF PublishBaseline
    <2> DEFINE b == [published |-> TRUE, mode |-> Mode, models |-> models, cost |-> Total(records),
                     date |-> IF Live THEN Price.date ELSE 0, data |-> programme.data[1],
                     records |-> [i \in DOMAIN records |->
                         [input |-> records[i].input, output |-> records[i].output,
                          cost |-> records[i].cost]]]
    <2>2. baseline' = b \/ baseline' = NoReport
      BY <1>6 DEF PublishBaseline
    <2>3. CASE baseline' = NoReport
      BY <2>1, <2>3 DEF BaselineInv, NoReport
    <2>4. CASE baseline' = b
      <3>1. /\ baseline'.mode = programme.mode[1] /\ baseline'.data = programme.data[1]
            /\ baseline'.models = models
        BY <2>1, <2>4 DEF Mode
      <3>2. DOMAIN baseline'.records = DOMAIN records
        BY <2>4
      <3>3. records \in Seq(CaseRecords)
        BY <1>0 DEF TypeInv
      <3>4. DOMAIN records = 1..Len(records) /\ Len(records) \in Nat
        BY <3>3
      <3>5. IsFiniteSet(DOMAIN baseline'.records)
        BY <3>2, <3>4, FS_Interval
      <3>6. programme.mode[1] = "live" => models = IdentitiesOf(calls[1])
        <4> SUFFICES ASSUME programme.mode[1] = "live" PROVE models = IdentitiesOf(calls[1])
          OBVIOUS
        <4>1. Live
          BY <2>1 DEF Live, Mode
        <4>2. models = FirstIdentities(calls[1], Len(calls[1]))
          BY <2>1, <4>1 DEF ModelsInv, Known
        <4>3. 1 \in 1..2
          OBVIOUS
        <4> QED
          BY <1>0, <4>2, <4>3, AllIdentities
      <3> QED
        BY <2>1, <3>1, <3>5, <3>6 DEF BaselineInv
    <2> QED
      BY <2>2, <2>3, <2>4
  <1>7. CASE PublishWeekTwo
    <2>1. pc = "publish" /\ UNCHANGED <<programme, week, baseline, calls>>
      BY <1>7, PublishWeekTwoIs
    <2> QED
      BY <1>9, <2>1
  <1>8. CASE UNCHANGED vars
    BY <1>8 DEF vars, BaselineInv, IdentitiesOf
  <1> QED
    BY <1>1, <1>2, <1>3, <1>4, <1>5, <1>6, <1>7, <1>8, StepKinds

\* What a comparable report says.
Deserved ==
    /\ programme.mode = <<"live", "live">>
    /\ programme.data[1] = programme.data[2]
    /\ IdentitiesOf(calls[1]) = IdentitiesOf(calls[2])
    /\ IdentitiesOf(calls[1]) \subseteq Bound
    /\ baseline.cost = CountSum(baseline.records, Price)

DeservedInv == report.published /\ report.comparable => Deserved

LEMMA DeservedAtPublish ==
    ASSUME RunInv, MoneyInv, ModelsInv, BaselineInv, pc = "publish", week = 2,
           Comparable(Unpriced(records) = 0)
    PROVE  Deserved
  <1>1. /\ Live /\ baseline.mode = "live" /\ programme.data[2] = baseline.data
        /\ models = baseline.models /\ Unpriced(records) = 0 /\ CostMatches(Price)
    BY DEF Comparable
  <1>2. /\ baseline.mode = programme.mode[1] /\ baseline.data = programme.data[1]
        /\ IsFiniteSet(DOMAIN baseline.records)
        /\ programme.mode[1] = "live" => baseline.models = IdentitiesOf(calls[1])
    BY DEF BaselineInv
  <1>3. programme.mode = <<"live", "live">>
    <2>1. programme.mode = <<programme.mode[1], programme.mode[2]>>
      BY Modes DEF RunInv
    <2>2. programme.mode[1] = "live" /\ programme.mode[2] = "live"
      BY <1>1, <1>2 DEF Live, Mode
    <2> QED
      BY <2>1, <2>2
  <1>4. models = IdentitiesOf(calls[2])
    <2>1. models = FirstIdentities(calls[2], Len(calls[2]))
      BY <1>1 DEF ModelsInv, Known
    <2>2. 2 \in 1..2 /\ TypeInv
      BY DEF RunInv
    <2> QED
      BY <2>1, <2>2, AllIdentities
  <1>5. \A i \in DOMAIN calls[2] : calls[2][i].model \in Bound
    BY <1>1, CostAtPublish
  <1>6. IdentitiesOf(calls[2]) \subseteq Bound
    BY <1>5 DEF IdentitiesOf
  <1>7. IdentitiesOf(calls[1]) = IdentitiesOf(calls[2])
    BY <1>1, <1>2, <1>4
  <1>8. baseline.cost = CountSum(baseline.records, Price)
    <2>1. /\ \A i \in DOMAIN baseline.records : baseline.records[i].cost
              = Cost(baseline.records[i].input, baseline.records[i].output, Price)
          /\ baseline.cost = Total(baseline.records)
      BY <1>1 DEF CostMatches
    <2> QED
      BY <1>2, <2>1, TotalIsCountSum
  <1> QED
    BY <1>1, <1>2, <1>3, <1>6, <1>7, <1>8 DEF Deserved

LEMMA DeservedStep ==
    RunInv /\ MoneyInv /\ ModelsInv /\ BaselineInv /\ ReportInv /\ DeservedInv /\ [Next]_vars
      => DeservedInv'
  <1> SUFFICES ASSUME RunInv, MoneyInv, ModelsInv, BaselineInv, ReportInv, DeservedInv, [Next]_vars
               PROVE  DeservedInv'
    OBVIOUS
  <1>1. CASE PublishWeekTwo /\ pc' = "published"
    <2>1. /\ pc = "publish" /\ week = 2 /\ UNCHANGED <<programme, week, calls, baseline>>
          /\ report' = Report(Unpriced(records) = 0)
      BY <1>1, PublishWeekTwoIs
    <2>2. Price' = Price
      BY <2>1, SameWeek
    <2>3. report'.comparable => Deserved
      BY <2>1, DeservedAtPublish DEF Report
    <2>4. Deserved' = Deserved
      BY <2>1, <2>2 DEF Deserved
    <2> QED
      BY <2>3, <2>4 DEF DeservedInv
  <1>2. CASE UNCHANGED vars
    <2>1. UNCHANGED <<programme, week, calls, baseline, report>>
      BY <1>2 DEF vars
    <2>2. Price' = Price
      BY <2>1, SameWeek
    <2>3. Deserved' = Deserved
      BY <2>1, <2>2 DEF Deserved
    <2> QED
      BY <2>1, <2>3 DEF DeservedInv
  <1>3. CASE report' = NoReport
    BY <1>3 DEF DeservedInv, NoReport
  <1> QED
    BY <1>1, <1>2, <1>3, ReportStep

\* Week 2 calls itself comparable with week 1 only when both were live, on the
\* same data, answered by the same identities, which the price record binds,
\* and the reference's cost is what the present record makes of its counts
\* (_comparison_reference): whatever the two weeks did.
THEOREM ComparableHolds == Spec => []ComparableIsDeserved
  <1>1. Init => MoneyInv /\ ReportInv /\ ModelsInv /\ BaselineInv /\ DeservedInv
    <2> SUFFICES ASSUME Init
                 PROVE  MoneyInv /\ ReportInv /\ ModelsInv /\ BaselineInv /\ DeservedInv
      OBVIOUS
    <2>1. week = 1 /\ pc = "preflight" /\ calls[1] = <<>> /\ report = NoReport
      BY DEF Init
    <2> QED
      BY <2>1, CostInit DEF ModelsInv, BaselineInv, DeservedInv, NoReport
  <1>2. RunInv /\ MoneyInv /\ ReportInv /\ ModelsInv /\ BaselineInv /\ DeservedInv /\ [Next]_vars
          => (MoneyInv /\ ReportInv /\ ModelsInv /\ BaselineInv /\ DeservedInv)'
    BY MoneyStep, ReportStep, ModelsStep, BaselineStep, DeservedStep
  <1>3. DeservedInv => ComparableIsDeserved
    BY DEF DeservedInv, Deserved, ComparableIsDeserved, CountSum
  <1> QED
    BY <1>1, <1>2, <1>3, OnePassSound, PTL DEF Spec

-----------------------------------------------------------------------------
(* The verdicts. The scorers of a case agree with what it is to be right.  *)

LEMMA LengthIs ==
    ASSUME NEW T, NEW rows \in Seq(T)
    PROVE  /\ DOMAIN rows = 1..Len(rows) /\ Len(rows) \in Nat
           /\ IsFiniteSet(DOMAIN rows) /\ Cardinality(DOMAIN rows) = Len(rows)
  <1>1. DOMAIN rows = 1..Len(rows) /\ Len(rows) \in Nat /\ 1 \in Int /\ Len(rows) \in Int
    OBVIOUS
  <1>2. /\ IsFiniteSet(1..Len(rows))
        /\ Cardinality(1..Len(rows)) = IF 1 > Len(rows) THEN 0 ELSE Len(rows) - 1 + 1
    BY <1>1, FS_Interval
  <1> QED
    BY <1>1, <1>2

\* A function between sets of one size that takes every value takes none twice.
LEMMA OntoIsOneToOne ==
    ASSUME NEW S, NEW T, IsFiniteSet(S), Cardinality(S) = Cardinality(T),
           NEW f \in [S -> T], \A y \in T : \E x \in S : f[x] = y
    PROVE  \A x, y \in S : f[x] = f[y] => x = y
  <1>1. f \in Surjection(S, T)
    BY DEF Surjection
  <1>2. f \in Injection(S, T)
    BY <1>1, FS_SurjSameCardinalityImpliesInj
  <1> QED
    BY <1>2 DEF Injection, IsInjective

\* Rows with as many keys as there are rows have each their own.
LEMMA UniqueKeys ==
    ASSUME NEW T, NEW rows \in Seq(T), NEW keys,
           Cardinality(KeysOf(rows, keys)) = Len(rows)
    PROVE  /\ \A i, j \in DOMAIN rows :
                 RowKey(rows[i], keys) = RowKey(rows[j], keys) => i = j
           /\ \A i \in DOMAIN rows : RowAt(rows, keys, RowKey(rows[i], keys)) = rows[i]
  <1> DEFINE S == DOMAIN rows
             K == KeysOf(rows, keys)
             f == [i \in S |-> RowKey(rows[i], keys)]
  <1>1. IsFiniteSet(S) /\ Cardinality(S) = Cardinality(K)
    BY LengthIs
  <1>2. f \in [S -> K] /\ \A y \in K : \E x \in S : f[x] = y
    BY DEF KeysOf
  <1>3. \A i, j \in S : f[i] = f[j] => i = j
    <2> HIDE DEF S, K, f
    <2> QED
      BY <1>1, <1>2, OntoIsOneToOne
  <1>4. \A i, j \in S : RowKey(rows[i], keys) = RowKey(rows[j], keys) => i = j
    BY <1>3
  <1>5. ASSUME NEW i \in S
        PROVE  RowAt(rows, keys, RowKey(rows[i], keys)) = rows[i]
    <2> DEFINE at == {j \in S : RowKey(rows[j], keys) = RowKey(rows[i], keys)}
    <2>1. at = {i}
      BY <1>4
    <2>2. i <= i
      BY LengthIs
    <2>3. (CHOOSE j \in at : \A k \in at : k <= j) = i
      BY <2>1, <2>2
    <2> QED
      BY <2>3 DEF RowAt
  <1> QED
    BY <1>4, <1>5

\* Given a truth with stable keys, its rows are those of an answer in some
\* order exactly when the answer's keys are stable and match.
LEMMA SameRowsByKey ==
    ASSUME NEW T, NEW e \in Seq(T), NEW a \in Seq(T), NEW keys, NEW numeric,
           KeysStable(e, keys)
    PROVE  /\ SameRows(e, a, keys, numeric)
                <=> KeysStable(a, keys) /\ RowsMatchByKey(e, a, keys, numeric)
           /\ Cardinality(KeysOf(a, keys)) = Len(a) /\ RowsMatchByKey(e, a, keys, numeric)
                => KeysStable(a, keys) /\ Len(e) = Len(a)
  <1>1. /\ IsFiniteSet(DOMAIN e) /\ Cardinality(DOMAIN e) = Len(e)
        /\ IsFiniteSet(DOMAIN a) /\ Cardinality(DOMAIN a) = Len(a)
    BY LengthIs
  <1>2. /\ \A i, j \in DOMAIN e : RowKey(e[i], keys) = RowKey(e[j], keys) => i = j
        /\ \A i \in DOMAIN e : RowAt(e, keys, RowKey(e[i], keys)) = e[i]
    <2>1. Cardinality(KeysOf(e, keys)) = Len(e)
      BY DEF KeysStable
    <2> QED
      BY <2>1, UniqueKeys
  <1>3. ASSUME SameRows(e, a, keys, numeric)
        PROVE  KeysStable(a, keys) /\ RowsMatchByKey(e, a, keys, numeric)
    <2>1. PICK f \in [DOMAIN e -> DOMAIN a] :
             /\ {f[i] : i \in DOMAIN e} = DOMAIN a /\ Len(e) = Len(a)
             /\ \A i \in DOMAIN e : RowKey(e[i], keys) = RowKey(a[f[i]], keys)
                                    /\ RowMatches(e[i], a[f[i]], numeric)
      BY <1>3 DEF SameRows
    <2>2. KeysOf(e, keys) = KeysOf(a, keys)
      <3>1. ASSUME NEW k \in KeysOf(e, keys) PROVE k \in KeysOf(a, keys)
        BY <2>1, <3>1 DEF KeysOf
      <3>2. ASSUME NEW k \in KeysOf(a, keys) PROVE k \in KeysOf(e, keys)
        <4>1. PICK j \in DOMAIN a : k = RowKey(a[j], keys)
          BY <3>2 DEF KeysOf
        <4>2. PICK i \in DOMAIN e : f[i] = j
          BY <2>1
        <4> QED
          BY <2>1, <4>1, <4>2 DEF KeysOf
      <3> QED
        BY <3>1, <3>2
    <2>3. KeysStable(a, keys)
      BY <2>1, <2>2 DEF KeysStable
    <2>4. \A i \in DOMAIN a : RowAt(a, keys, RowKey(a[i], keys)) = a[i]
      <3>1. Cardinality(KeysOf(a, keys)) = Len(a)
        BY <2>3 DEF KeysStable
      <3> QED
        BY <3>1, UniqueKeys
    <2>5. ASSUME NEW k \in KeysOf(e, keys)
          PROVE  RowMatches(RowAt(e, keys, k), RowAt(a, keys, k), numeric)
      <3>1. PICK i \in DOMAIN e : k = RowKey(e[i], keys)
        BY <2>5 DEF KeysOf
      <3>2. RowAt(e, keys, k) = e[i] /\ RowAt(a, keys, k) = a[f[i]]
        BY <1>2, <2>1, <2>4, <3>1
      <3> QED
        BY <2>1, <3>2
    <2> QED
      BY <2>2, <2>3, <2>5 DEF RowsMatchByKey
  <1>4. ASSUME Cardinality(KeysOf(a, keys)) = Len(a), RowsMatchByKey(e, a, keys, numeric)
        PROVE  /\ KeysStable(a, keys) /\ Len(e) = Len(a)
               /\ SameRows(e, a, keys, numeric)
    <2>1. KeysOf(e, keys) = KeysOf(a, keys)
      BY <1>4 DEF RowsMatchByKey
    <2>2. KeysStable(a, keys) /\ Len(e) = Len(a)
      BY <1>4, <2>1 DEF KeysStable
    <2>3. /\ \A i, j \in DOMAIN a : RowKey(a[i], keys) = RowKey(a[j], keys) => i = j
          /\ \A i \in DOMAIN a : RowAt(a, keys, RowKey(a[i], keys)) = a[i]
      BY <1>4, UniqueKeys
    <2> DEFINE f == [i \in DOMAIN e |->
                       CHOOSE j \in DOMAIN a : RowKey(a[j], keys) = RowKey(e[i], keys)]
    <2>4. ASSUME NEW i \in DOMAIN e
          PROVE  f[i] \in DOMAIN a /\ RowKey(a[f[i]], keys) = RowKey(e[i], keys)
      <3>1. RowKey(e[i], keys) \in KeysOf(a, keys)
        BY <2>1 DEF KeysOf
      <3>2. \E j \in DOMAIN a : RowKey(a[j], keys) = RowKey(e[i], keys)
        BY <3>1 DEF KeysOf
      <3> QED
        BY <3>2
    <2>5. f \in [DOMAIN e -> DOMAIN a]
      BY <2>4
    <2> HIDE DEF f
    <2>6. ASSUME NEW j \in DOMAIN a PROVE \E i \in DOMAIN e : f[i] = j
      <3>1. RowKey(a[j], keys) \in KeysOf(e, keys)
        BY <2>1 DEF KeysOf
      <3>2. PICK i \in DOMAIN e : RowKey(e[i], keys) = RowKey(a[j], keys)
        BY <3>1 DEF KeysOf
      <3> QED
        BY <2>3, <2>4, <3>2
    <2>7. {f[i] : i \in DOMAIN e} = DOMAIN a
      BY <2>4, <2>6
    <2>8. ASSUME NEW i \in DOMAIN e
          PROVE  RowMatches(e[i], a[f[i]], numeric)
      <3>1. RowKey(e[i], keys) \in KeysOf(e, keys)
        BY DEF KeysOf
      <3>2. RowMatches(RowAt(e, keys, RowKey(e[i], keys)), RowAt(a, keys, RowKey(e[i], keys)), numeric)
        BY <1>4, <3>1 DEF RowsMatchByKey
      <3>3. RowAt(a, keys, RowKey(e[i], keys)) = a[f[i]]
        BY <2>3, <2>4
      <3> QED
        BY <1>2, <3>2, <3>3
    <2> QED
      BY <2>2, <2>4, <2>5, <2>7, <2>8 DEF SameRows
  <1>5. KeysStable(a, keys) => Cardinality(KeysOf(a, keys)) = Len(a)
    BY DEF KeysStable
  <1> QED
    BY <1>3, <1>4, <1>5

\* The scorers of the three weeks agree about an answer to a case, as
\* VerdictsRight says.
Agreed(c, a) ==
    LET right == Right(c, a)
        two == ScoreResultAndContract(c, c.truth, a)
        one == ScoreResult(c, c.truth, a)
    IN  /\ (two.result = "one") = right
        /\ two.conformant = (a.columns = c.truth.columns)
        /\ ScoreCandidateRows(c, c.truth, a) = right
        /\ right /\ two.conformant => one = "one"
        /\ one = "one" => two.conformant /\ (right \/ c.comparison = "top_k")

\* It is enough that each asks for the width of the answer and the same of
\* its rows.
LEMMA AgreedIf ==
    ASSUME NEW c, NEW a, NEW M \in BOOLEAN, NEW W \in BOOLEAN,
           a.columns = c.truth.columns => W,
           Right(c, a) <=> W /\ M,
           ScoreByPosition(c, c.truth, a) <=> W /\ M,
           ScoreCandidateRows(c, c.truth, a) <=> W /\ M,
           a.columns = c.truth.columns =>
             /\ M => ScoreResult(c, c.truth, a) = "one"
             /\ ScoreResult(c, c.truth, a) = "one" /\ c.comparison # "top_k" => M
    PROVE  Agreed(c, a)
  <1> DEFINE two == ScoreResultAndContract(c, c.truth, a)
             one == ScoreResult(c, c.truth, a)
             same == a.columns = c.truth.columns
  <1>1. Right(c, a) \in BOOLEAN
    BY DEF Right
  <1>2. ScoreCandidateRows(c, c.truth, a) \in BOOLEAN
    BY DEF ScoreCandidateRows
  <1>3. (two.result = "one") <=> ScoreByPosition(c, c.truth, a)
    BY DEF ScoreResultAndContract, Whole
  <1>4. two.conformant = same
    BY DEF ScoreResultAndContract
  <1>5. ~same => one # "one"
    BY DEF ScoreResult
  <1>6. (two.result = "one") = Right(c, a)
    BY <1>1, <1>3
  <1>7. ScoreCandidateRows(c, c.truth, a) = Right(c, a)
    BY <1>1, <1>2
  <1>8. Right(c, a) /\ two.conformant => one = "one"
    BY <1>4
  <1>9. one = "one" => two.conformant /\ (Right(c, a) \/ c.comparison = "top_k")
    BY <1>4, <1>5
  <1> HIDE DEF two, one, same
  <1>10. /\ (two.result = "one") = Right(c, a)
         /\ two.conformant = same
         /\ ScoreCandidateRows(c, c.truth, a) = Right(c, a)
         /\ Right(c, a) /\ two.conformant => one = "one"
         /\ one = "one" => two.conformant /\ (Right(c, a) \/ c.comparison = "top_k")
    BY <1>4, <1>6, <1>7, <1>8, <1>9
  <1> QED
    BY <1>10 DEF Agreed, two, one, same

\* The places of the keys and of the numbers among the columns of the truth.
LEMMA IndexesAre ==
    ASSUME NEW c, CaseAccepted(c), c.suite # "safety", TruthAccepted(c)
    PROVE  /\ Indexes(c.keys, c.truth.columns) \cap Indexes(c.numeric, c.truth.columns) = {}
           /\ Indexes(c.keys, c.truth.columns) \subseteq DOMAIN c.truth.columns
           /\ c.keys # {} <=> Indexes(c.keys, c.truth.columns) # {}
           /\ c.comparison \in {"scalar", "boolean", "table", "top_k"}
           /\ c.comparison = "top_k" => c.keys # {}
  <1>1. /\ c.keys \cap c.numeric = {}
        /\ c.comparison \in {"scalar", "boolean", "table", "top_k"}
        /\ c.comparison = "top_k" => c.keys # {}
    BY DEF CaseAccepted
  <1>2. c.keys \cup c.numeric \subseteq {c.truth.columns[i] : i \in DOMAIN c.truth.columns}
    BY DEF TruthAccepted
  <1> QED
    BY <1>1, <1>2 DEF Indexes

LEMMA CellsAgree ==
    ASSUME NEW c, CaseAccepted(c), c.suite # "safety", TruthAccepted(c), NEW a, IsResult(a),
           c.comparison \in {"scalar", "boolean"}
    PROVE  Agreed(c, a)
  <1> DEFINE e == c.truth
             W == Len(a.columns) = Len(e.columns)
             M == ScoreCell(c.comparison, e, a)
  <1>1. OneCell(e) /\ (c.comparison = "boolean" => e.rows[1][1].t = "bool")
    BY DEF TruthAccepted
  <1>2. M \in BOOLEAN
    BY DEF ScoreCell
  <1>3. c.comparison \notin {"table", "top_k"}
    OBVIOUS
  <1>4. Right(c, a) <=> W /\ M
    <2>1. CASE c.comparison = "scalar"
      <3>1. Right(c, a) <=> W /\ (Len(a.rows) = 1 /\ NumericEqual(e.rows[1][1], a.rows[1][1]))
        BY <2>1 DEF Right
      <3>2. M <=> Len(a.rows) = 1 /\ NumericEqual(e.rows[1][1], a.rows[1][1])
        BY <1>1, <2>1 DEF ScoreCell
      <3> QED
        BY <3>1, <3>2
    <2>2. CASE c.comparison = "boolean"
      <3>1. Right(c, a) <=> W /\ (Len(a.rows) = 1 /\ Truths(a.rows[1][1]) = Truths(e.rows[1][1]))
        BY <2>2 DEF Right
      <3>2. M <=> /\ Len(a.rows) = 1
                  /\ Truths(e.rows[1][1]) \cap Truths(a.rows[1][1]) # {}
        BY <1>1, <2>2 DEF ScoreCell
      <3>3. Truths(e.rows[1][1]) = {e.rows[1][1].v # 0}
        BY <1>1, <2>2 DEF Truths
      <3>4. Truths(a.rows[1][1]) = {} \/ \E x : Truths(a.rows[1][1]) = {x}
        BY DEF Truths
      <3> QED
        BY <3>1, <3>2, <3>3, <3>4
    <2> QED
      BY <2>1, <2>2
  <1>5. ScoreByPosition(c, e, a) <=> W /\ M
    BY <1>3 DEF ScoreByPosition
  <1>6. ScoreCandidateRows(c, e, a) <=> W /\ M
    BY DEF ScoreCandidateRows
  <1>7. a.columns = e.columns => ScoreResult(c, e, a) = Whole(M)
    BY <1>3 DEF ScoreResult
  <1>8. (a.columns = e.columns => W) /\ W \in BOOLEAN
    OBVIOUS
  <1>9. (M => Whole(M) = "one") /\ (Whole(M) = "one" => M)
    BY DEF Whole
  <1> HIDE DEF M, W
  <1> QED
    BY <1>2, <1>4, <1>5, <1>6, <1>7, <1>8, <1>9, AgreedIf

LEMMA KeyedTablesAgree ==
    ASSUME NEW c, CaseAccepted(c), c.suite # "safety", TruthAccepted(c), TruthStable(c),
           NEW a, IsResult(a), c.comparison = "table", c.keys # {}
    PROVE  Agreed(c, a)
  <1> DEFINE e == c.truth
             keys == Indexes(c.keys, e.columns)
             numeric == Indexes(c.numeric, e.columns)
             W == Len(a.columns) = Len(e.columns)
             M == SameRows(e.rows, a.rows, keys, numeric)
             T == Seq([t : CellTypes, v : Int])
  <1>1. keys # {} /\ KeysStable(e.rows, keys)
    BY IndexesAre DEF TruthStable
  <1>2. e.rows \in Seq(T) /\ a.rows \in Seq(T)
    BY DEF TruthAccepted, IsResult
  <1>3. /\ M <=> KeysStable(a.rows, keys) /\ RowsMatchByKey(e.rows, a.rows, keys, numeric)
        /\ Cardinality(KeysOf(a.rows, keys)) = Len(a.rows)
             /\ RowsMatchByKey(e.rows, a.rows, keys, numeric)
               => KeysStable(a.rows, keys) /\ Len(e.rows) = Len(a.rows)
    <2> HIDE DEF e, keys, numeric, T
    <2> QED
      BY <1>1, <1>2, SameRowsByKey
  <1>4. Right(c, a) <=> W /\ M
    BY <1>1 DEF Right
  <1>5. M \in BOOLEAN /\ (M => Len(e.rows) = Len(a.rows))
    BY DEF SameRows
  <1>6. ScoreKeyedTable(e.rows, a.rows, keys, numeric) <=> M
    <2>1. ASSUME e.rows = <<>>, a.rows = <<>>
          PROVE  M
      <3>1. KeysOf(a.rows, keys) = {} /\ KeysOf(e.rows, keys) = {} /\ Len(a.rows) = 0
        BY <2>1 DEF KeysOf
      <3>2. Cardinality({}) = 0
        BY FS_EmptySet
      <3>3. KeysStable(a.rows, keys)
        BY <3>1, <3>2 DEF KeysStable
      <3>4. RowsMatchByKey(e.rows, a.rows, keys, numeric)
        BY <3>1 DEF RowsMatchByKey
      <3> QED
        BY <1>3, <3>3, <3>4
    <2> HIDE DEF e, keys, numeric, M
    <2> QED
      BY <1>1, <1>3, <2>1 DEF ScoreKeyedTable
  <1>7. ScoreByPosition(c, e, a) <=> W /\ M
    BY <1>6 DEF ScoreByPosition
  <1>8. ScoreCandidateRows(c, e, a) <=> W /\ M
    <2>1. ScoreCandidateRows(c, e, a) <=>
            W /\ Len(e.rows) = Len(a.rows)
              /\ Cardinality(KeysOf(e.rows, keys)) = Len(e.rows)
              /\ Cardinality(KeysOf(a.rows, keys)) = Len(a.rows)
              /\ RowsMatchByKey(e.rows, a.rows, keys, numeric)
      BY <1>1 DEF ScoreCandidateRows
    <2>2. Cardinality(KeysOf(e.rows, keys)) = Len(e.rows)
      BY <1>1 DEF KeysStable
    <2>3. KeysStable(a.rows, keys) => Cardinality(KeysOf(a.rows, keys)) = Len(a.rows)
      BY DEF KeysStable
    <2> HIDE DEF M, W, e, keys, numeric
    <2> QED
      BY <1>3, <1>5, <2>1, <2>2, <2>3
  <1>9. a.columns = e.columns =>
          ScoreResult(c, e, a) = Whole(ScoreKeyedTable(e.rows, a.rows, keys, numeric))
    BY DEF ScoreResult
  <1>10. (a.columns = e.columns => W) /\ W \in BOOLEAN
    OBVIOUS
  <1>11. a.columns = e.columns =>
          /\ M => ScoreResult(c, e, a) = "one"
          /\ ScoreResult(c, e, a) = "one" => M
    BY <1>6, <1>9 DEF Whole
  <1> HIDE DEF M, W
  <1> QED
    BY <1>4, <1>5, <1>7, <1>8, <1>10, <1>11, AgreedIf

LEMMA OrderedTablesAgree ==
    ASSUME NEW c, CaseAccepted(c), c.suite # "safety", TruthAccepted(c),
           NEW a, IsResult(a), c.comparison = "table", c.keys = {}
    PROVE  Agreed(c, a)
  <1> DEFINE e == c.truth
             keys == Indexes(c.keys, e.columns)
             numeric == Indexes(c.numeric, e.columns)
             W == Len(a.columns) = Len(e.columns)
             M == RowsMatchInOrder(e.rows, a.rows, numeric)
  <1>1. keys = {}
    BY IndexesAre
  <1>2. Right(c, a) <=> W /\ M
    BY <1>1 DEF Right
  <1>3. M \in BOOLEAN /\ (M => Len(e.rows) = Len(a.rows))
    BY DEF RowsMatchInOrder
  <1>4. ScoreKeyedTable(e.rows, a.rows, keys, numeric) <=> M
    <2>1. e.rows = <<>> /\ a.rows = <<>> => M
      BY DEF RowsMatchInOrder
    <2> HIDE DEF e, keys, numeric, M
    <2>2. RowsMatchInOrder(e.rows, a.rows, numeric) <=> M
      BY DEF M
    <2> QED
      BY <1>1, <2>1, <2>2 DEF ScoreKeyedTable
  <1>5. ScoreByPosition(c, e, a) <=> W /\ M
    BY <1>4 DEF ScoreByPosition
  <1>6. ScoreCandidateRows(c, e, a) <=> W /\ M
    BY <1>1, <1>3 DEF ScoreCandidateRows
  <1>7. a.columns = e.columns =>
          ScoreResult(c, e, a) = Whole(ScoreKeyedTable(e.rows, a.rows, keys, numeric))
    BY DEF ScoreResult
  <1>8. (a.columns = e.columns => W) /\ W \in BOOLEAN
    OBVIOUS
  <1>9. a.columns = e.columns =>
          /\ M => ScoreResult(c, e, a) = "one"
          /\ ScoreResult(c, e, a) = "one" => M
    BY <1>4, <1>7 DEF Whole
  <1> HIDE DEF M, W
  <1> QED
    BY <1>2, <1>3, <1>5, <1>6, <1>8, <1>9, AgreedIf

\* Rows that match have the keys of each other.
LEMMA MatchedKeys ==
    ASSUME NEW c, CaseAccepted(c), c.suite # "safety", TruthAccepted(c), NEW a,
           RowsMatchInOrder(c.truth.rows, a.rows, Indexes(c.numeric, c.truth.columns)),
           NEW i \in DOMAIN c.truth.rows
    PROVE  RowKey(c.truth.rows[i], Indexes(c.keys, c.truth.columns))
             = RowKey(a.rows[i], Indexes(c.keys, c.truth.columns))
  <1> DEFINE e == c.truth
             keys == Indexes(c.keys, e.columns)
             numeric == Indexes(c.numeric, e.columns)
  <1>1. keys \cap numeric = {} /\ keys \subseteq DOMAIN e.columns
    BY IndexesAre
  <1>2. /\ e.rows[i] \in Seq([t : CellTypes, v : Int]) /\ Len(e.rows[i]) = Len(e.columns)
        /\ e.columns \in Seq(STRING)
    BY DEF TruthAccepted, IsResult
  <1>3. DOMAIN e.rows[i] = DOMAIN e.columns
    BY <1>2
  <1>4. \A k \in keys : Plain(e.rows[i][k]) = Plain(a.rows[i][k])
    BY <1>1, <1>3 DEF RowsMatchInOrder, RowMatches
  <1> QED
    BY <1>4 DEF RowKey

LEMMA RankingsAgree ==
    ASSUME NEW c, CaseAccepted(c), c.suite # "safety", TruthAccepted(c), TruthStable(c),
           NEW a, IsResult(a), c.comparison = "top_k"
    PROVE  Agreed(c, a)
  <1> DEFINE e == c.truth
             keys == Indexes(c.keys, e.columns)
             numeric == Indexes(c.numeric, e.columns)
             W == Len(a.columns) = Len(e.columns)
             M == RowsMatchInOrder(e.rows, a.rows, numeric)
  <1>1. keys # {} /\ KeysStable(e.rows, keys) /\ Len(e.rows) \in 1..5
    BY IndexesAre DEF TruthStable
  <1>2. Right(c, a) <=> W /\ M
    BY DEF Right
  <1>3. M \in BOOLEAN /\ (M => Len(e.rows) = Len(a.rows))
    BY DEF RowsMatchInOrder
  <1>4. M => \A i \in DOMAIN e.rows : RowKey(e.rows[i], keys) = RowKey(a.rows[i], keys)
    BY MatchedKeys
  <1>5. ScoreOrderedTopK(e.rows, a.rows, keys, numeric) <=> M
    BY <1>4 DEF ScoreOrderedTopK, RowsMatchInOrder
  <1>6. ScoreByPosition(c, e, a) <=> W /\ M
    BY <1>5 DEF ScoreByPosition
  <1>7. ScoreCandidateRows(c, e, a) <=> W /\ M
    BY <1>3 DEF ScoreCandidateRows
  <1>8. a.columns = e.columns => ScoreResult(c, e, a) = ScoreTopK(e.rows, a.rows, keys)
    BY DEF ScoreResult
  <1>9. ASSUME M PROVE ScoreTopK(e.rows, a.rows, keys) = "one"
    <2>1. /\ DOMAIN e.rows = 1..Len(e.rows) /\ DOMAIN a.rows = 1..Len(a.rows)
          /\ Len(e.rows) = Len(a.rows)
      BY <1>3, <1>9, LengthIs DEF TruthAccepted, IsResult
    <2>2. KeysOf(e.rows, keys) = KeysOf(a.rows, keys)
      BY <1>4, <1>9, <2>1 DEF KeysOf
    <2>3. KeysOf(e.rows, keys) # {} /\ e.rows # <<>>
      <3>0. Len(e.rows) \in 1..5
        BY <1>1
      <3>1. 1 \in DOMAIN e.rows
        <4>1. DOMAIN e.rows = 1..Len(e.rows)
          BY <2>1
        <4>2. \A n \in 1..5 : 1 \in 1..n
          OBVIOUS
        <4>3. 1 \in 1..Len(e.rows)
          BY <3>0, <4>2
        <4> QED
          BY <4>1, <4>3
      <3>2. RowKey(e.rows[1], keys) \in KeysOf(e.rows, keys)
        BY <3>1 DEF KeysOf
      <3>3. e.rows # <<>>
        BY <3>1
      <3> QED
        BY <3>2, <3>3
    <2>4. ~(\E k \in KeysOf(a.rows, keys) : HasNull(k))
      BY <1>1, <2>2 DEF KeysStable
    <2> QED
      BY <1>1, <2>2, <2>3, <2>4 DEF ScoreTopK
  <1>10. (a.columns = e.columns => W) /\ W \in BOOLEAN
    OBVIOUS
  <1>11. a.columns = e.columns => (M => ScoreResult(c, e, a) = "one")
    BY <1>8, <1>9
  <1> HIDE DEF M, W
  <1> QED
    BY <1>2, <1>3, <1>6, <1>7, <1>10, <1>11, AgreedIf

LEMMA ScorersAgree ==
    ASSUME NEW c, CaseAccepted(c), c.suite # "safety", TruthAccepted(c), TruthStable(c),
           NEW a, IsResult(a)
    PROVE  Agreed(c, a)
  <1>1. c.comparison \in {"scalar", "boolean", "table", "top_k"}
    BY IndexesAre
  <1> QED
    BY <1>1, CellsAgree, KeyedTablesAgree, OrderedTablesAgree, RankingsAgree

\* The answers of week 2, and their places.
Answers == [at : Nat, result : UNION {Cases[i].results : i \in DOMAIN Cases}]

\* Every answer is one of the results of its case; when its case is recorded
\* without an error, the record holds what the scorers say of it.
AnswersInv ==
    /\ answers \in Seq(Answers)
    /\ week = 1 \/ pc \in {"preflight", "refused"} => answers = <<>>
    /\ \A i \in DOMAIN answers :
         LET at == answers[i].at
             a == answers[i].result
             two == ScoreResultAndContract(Cases[at], Cases[at].truth, a)
         IN  /\ at \in 1..(Len(records) + 1) /\ at \in DOMAIN Cases
             /\ Cases[at].suite # "safety" /\ a \in Cases[at].results
             /\ at = Len(records) + 1 => pc = "scoring" /\ a = answer
             /\ at <= Len(records) /\ records[at].error = None =>
                  records[at].score = two.result /\ records[at].conformant = two.conformant

LEMMA AppendIs ==
    ASSUME NEW S, NEW s \in Seq(S), NEW x \in S
    PROVE  /\ Append(s, x) \in Seq(S) /\ Len(s) \in Nat
           /\ DOMAIN s = 1..Len(s) /\ DOMAIN Append(s, x) = 1..(Len(s) + 1)
           /\ \A i \in 1..Len(s) : Append(s, x)[i] = s[i]
           /\ Append(s, x)[Len(s) + 1] = x
  OBVIOUS

LEMMA AnswersStill ==
    ASSUME AnswersInv, UNCHANGED <<programme, week, records, answers>>,
           pc' \in {"preflight", "refused"} => pc \in {"preflight", "refused"},
           pc = "scoring" => pc' = "scoring" /\ answer' = answer
    PROVE  AnswersInv'
  <1>1. Cases' = Cases
    BY SameWeek
  <1>2. Answers' = Answers
    BY <1>1 DEF Answers
  <1> QED
    BY <1>1, <1>2 DEF AnswersInv

LEMMA AnswersExecuted ==
    ASSUME RunInv, AnswersInv, Executed
    PROVE  AnswersInv'
  <1>1. /\ pc = "priced" /\ pc' = "scoring" /\ answer' \in Current.results
        /\ UNCHANGED <<programme, week, gen, records, models, calls>>
        /\ answers' = IF week = 2 THEN Append(answers, [at |-> Len(records) + 1, result |-> answer'])
                      ELSE answers
    BY DEF Executed, Fixed
  <1>2. Cases' = Cases
    BY <1>1, SameWeek
  <1>3. Answers' = Answers
    BY <1>2 DEF Answers
  <1>4. CASE week = 1
    <2>1. answers = <<>> /\ answers' = <<>> /\ week' = 1
      BY <1>1, <1>4 DEF AnswersInv
    <2>2. answers' \in Seq(Answers')
      BY <2>1
    <2> QED
      BY <2>1, <2>2 DEF AnswersInv
  <1>5. CASE week = 2
    <2> DEFINE b == [at |-> Len(records) + 1, result |-> answer']
    <2>1. records \in Seq(CaseRecords) /\ Len(records) \in Nat
      BY DEF RunInv, TypeInv
    <2>2. Len(records) + 1 \in DOMAIN Cases /\ Current.suite # "safety"
      <3>1. Len(records) < Len(Cases) /\ Current.suite # "safety"
        BY <1>1 DEF RunInv, CaseInv, Pending
      <3>2. Len(Cases) \in Nat /\ DOMAIN Cases = 1..Len(Cases)
        BY ProgrammesAssumption DEF Cases, RunInv, TypeInv
      <3> QED
        BY <2>1, <3>1, <3>2
    <2>3. Cases[Len(records) + 1] = Current
      BY DEF Current
    <2>4. b \in Answers
      BY <1>1, <2>1, <2>2, <2>3 DEF Answers
    <2>5. b.at = Len(records) + 1 /\ b.result = answer'
      OBVIOUS
    <2> HIDE DEF b
    <2>6. answers \in Seq(Answers) /\ answers' = Append(answers, b)
      BY <1>1, <1>5 DEF AnswersInv, b
    <2>7. /\ answers' \in Seq(Answers) /\ Len(answers) \in Nat
          /\ DOMAIN answers = 1..Len(answers) /\ DOMAIN answers' = 1..(Len(answers) + 1)
          /\ \A i \in 1..Len(answers) : answers'[i] = answers[i]
          /\ answers'[Len(answers) + 1] = b
      BY <2>4, <2>6, AppendIs
    <2>8. ASSUME NEW i \in DOMAIN answers'
          PROVE  LET at == answers'[i].at
                     a == answers'[i].result
                     two == ScoreResultAndContract(Cases[at], Cases[at].truth, a)
                 IN  /\ at \in 1..(Len(records) + 1) /\ at \in DOMAIN Cases
                     /\ Cases[at].suite # "safety" /\ a \in Cases[at].results
                     /\ at = Len(records) + 1 => a = answer'
                     /\ at <= Len(records) /\ records[at].error = None =>
                          records[at].score = two.result /\ records[at].conformant = two.conformant
      <3>1. CASE i \in 1..Len(answers)
        <4>1. i \in DOMAIN answers /\ answers'[i] = answers[i]
          BY <2>7, <3>1
        <4>2. answers[i].at # Len(records) + 1
          BY <1>1, <4>1 DEF AnswersInv
        <4> QED
          BY <4>1, <4>2 DEF AnswersInv
      <3>2. CASE i = Len(answers) + 1
        <4>1. answers'[i] = b
          BY <2>7, <3>2
        <4>2. Len(records) + 1 \in 1..(Len(records) + 1) /\ ~(Len(records) + 1 <= Len(records))
          BY <2>1
        <4> QED
          BY <1>1, <2>2, <2>3, <2>5, <4>1, <4>2
      <3> QED
        BY <2>7, <3>1, <3>2
    <2> QED
      BY <1>1, <1>2, <1>3, <1>5, <2>7, <2>8 DEF AnswersInv
  <1> QED
    BY <1>4, <1>5 DEF RunInv, TypeInv

LEMMA AnswersRecorded ==
    ASSUME RunInv, AnswersInv, NEW r, Recorded(r)
    PROVE  AnswersInv'
  <1>1. /\ pc \in {"next", "generated", "priced", "scoring"} /\ pc' \in {"next", "publish"}
        /\ UNCHANGED <<programme, week, answers, answer>>
    BY DEF Recorded, Fixed
  <1>2. Cases' = Cases
    BY <1>1, SameWeek
  <1>3. Answers' = Answers
    BY <1>2 DEF Answers
  <1>4. /\ Len(records) \in Nat /\ DOMAIN records = 1..Len(records)
        /\ Len(records') = Len(records) + 1
        /\ \A i \in DOMAIN records : records'[i] = records[i]
        /\ records'[Len(records) + 1] = r
    BY AppendedIs
  <1>5. ASSUME NEW i \in DOMAIN answers
        PROVE  LET at == answers[i].at
                   a == answers[i].result
                   two == ScoreResultAndContract(Cases[at], Cases[at].truth, a)
               IN  /\ at \in 1..(Len(records') + 1) /\ at \in DOMAIN Cases
                   /\ Cases[at].suite # "safety" /\ a \in Cases[at].results
                   /\ at # Len(records') + 1
                   /\ at <= Len(records') /\ records'[at].error = None =>
                        records'[at].score = two.result /\ records'[at].conformant = two.conformant
    <2> DEFINE at == answers[i].at
               a == answers[i].result
               two == ScoreResultAndContract(Cases[at], Cases[at].truth, a)
    <2>1. /\ at \in 1..(Len(records) + 1) /\ at \in DOMAIN Cases
          /\ Cases[at].suite # "safety" /\ a \in Cases[at].results
          /\ at = Len(records) + 1 => pc = "scoring" /\ a = answer
          /\ at <= Len(records) /\ records[at].error = None =>
               records[at].score = two.result /\ records[at].conformant = two.conformant
      BY DEF AnswersInv
    <2>2. CASE at = Len(records) + 1
      <3>1. records'[at] = r /\ pc = "scoring" /\ a = answer /\ Cases[at] = Current
        BY <1>4, <2>1, <2>2 DEF Current
      <3>2. two = Scoring
        BY <3>1 DEF Scoring
      <3>3. week = 2
        BY <1>1 DEF AnswersInv, RunInv, TypeInv
      <3>4. r.error = None => r.score = Scoring.result /\ r.conformant = Scoring.conformant
        BY <3>1, <3>3 DEF Recorded
      <3> HIDE DEF at, a, two
      <3> QED
        BY <1>4, <2>1, <2>2, <3>1, <3>2, <3>4 DEF at, a, two
    <2>3. CASE at # Len(records) + 1
      <3>1. at \in DOMAIN records /\ records'[at] = records[at] /\ at <= Len(records)
        BY <1>4, <2>1, <2>3
      <3> QED
        BY <1>4, <2>1, <3>1
    <2> QED
      BY <2>2, <2>3
  <1>6. answers' \in Seq(Answers') /\ (week' = 1 => answers' = <<>>)
    BY <1>1, <1>3 DEF AnswersInv
  <1> QED
    BY <1>1, <1>2, <1>5, <1>6 DEF AnswersInv

LEMMA AnswersStep ==
    RunInv /\ AnswersInv /\ [Next]_vars => AnswersInv'
  <1> SUFFICES ASSUME RunInv, AnswersInv, [Next]_vars PROVE AnswersInv'
    OBVIOUS
  <1>9. ASSUME answers = <<>>, answers' = answers
        PROVE  AnswersInv'
    <2>1. answers' = <<>> /\ answers' \in Seq(Answers')
      BY <1>9
    <2> QED
      BY <2>1 DEF AnswersInv
  <1>1. CASE Preflight
    <2>1. pc = "preflight" /\ answers' = answers
      BY <1>1 DEF Preflight
    <2> QED
      BY <1>9, <2>1 DEF AnswersInv
  <1>2. CASE Generate
    <2>1. /\ UNCHANGED <<programme, week, records, answers>> /\ pc = "next" /\ pc' = "generated"
      BY <1>2 DEF Generate, Fixed
    <2> QED
      BY <2>1, AnswersStill
  <1>3. CASE PricedStep
    <2>1. /\ UNCHANGED <<programme, week, records, answers>> /\ pc = "generated" /\ pc' = "priced"
      BY <1>3 DEF PricedStep, Fixed
    <2> QED
      BY <2>1, AnswersStill
  <1>4. CASE Executed
    BY <1>4, AnswersExecuted
  <1>5. CASE \E r : Recorded(r)
    BY <1>5, AnswersRecorded
  <1>6. CASE PublishBaseline
    <2>1. week = 1 /\ answers' = answers
      BY <1>6 DEF PublishBaseline
    <2> QED
      BY <1>9, <2>1 DEF AnswersInv
  <1>7. CASE PublishWeekTwo
    <2>1. /\ UNCHANGED <<programme, week, records, answers>> /\ pc = "publish"
          /\ pc' \in {"published", "unpublished"}
      BY <1>7, PublishWeekTwoIs
    <2> QED
      BY <2>1, AnswersStill
  <1>8. CASE UNCHANGED vars
    <2>1. UNCHANGED <<programme, week, records, answers, pc, answer>>
      BY <1>8 DEF vars
    <2> QED
      BY <2>1, AnswersStill
  <1> QED
    BY <1>1, <1>2, <1>3, <1>4, <1>5, <1>6, <1>7, <1>8, StepKinds

LEMMA VerdictsFollow == RunInv /\ AnswersInv => VerdictsRight
  <1> SUFFICES ASSUME RunInv, AnswersInv, week = 2, NEW i \in DOMAIN answers,
                      answers[i].at <= Len(records), records[answers[i].at].error = None
               PROVE  LET c == Cases[answers[i].at]
                          a == answers[i].result
                          r == records[answers[i].at]
                          right == Right(c, a)
                      IN  /\ (r.score = "one") = right
                          /\ r.conformant = (a.columns = c.truth.columns)
                          /\ ScoreCandidateRows(c, c.truth, a) = right
                          /\ right /\ r.conformant => ScoreResult(c, c.truth, a) = "one"
                          /\ ScoreResult(c, c.truth, a) = "one" =>
                               r.conformant /\ (right \/ c.comparison = "top_k")
    BY DEF VerdictsRight
  <1> DEFINE at == answers[i].at
             a == answers[i].result
             c == Cases[at]
             r == records[at]
             two == ScoreResultAndContract(c, c.truth, a)
  <1>1. /\ at \in DOMAIN Cases /\ c.suite # "safety" /\ a \in c.results
        /\ r.score = two.result /\ r.conformant = two.conformant
    BY DEF AnswersInv
  <1>2. /\ CaseAccepted(c) /\ TruthAccepted(c) /\ TruthStable(c)
        /\ \A b \in c.results : IsResult(b)
    <2>1. programme \in Programmes /\ week \in 1..2
      BY DEF RunInv, TypeInv
    <2>2. \A j \in DOMAIN Cases :
             /\ CaseAccepted(Cases[j])
             /\ Cases[j].suite # "safety" =>
                  /\ TruthAccepted(Cases[j]) /\ TruthStable(Cases[j])
                  /\ \A b \in Cases[j].results : IsResult(b)
      BY <2>1, ProgrammesAssumption DEF Cases
    <2> QED
      BY <1>1, <2>2
  <1> HIDE DEF at, a, c, r, two
  <1>3. Agreed(c, a)
    BY <1>1, <1>2, ScorersAgree
  <1>4. /\ (r.score = "one") = Right(c, a)
        /\ r.conformant = (a.columns = c.truth.columns)
        /\ ScoreCandidateRows(c, c.truth, a) = Right(c, a)
        /\ Right(c, a) /\ r.conformant => ScoreResult(c, c.truth, a) = "one"
        /\ ScoreResult(c, c.truth, a) = "one" =>
             r.conformant /\ (Right(c, a) \/ c.comparison = "top_k")
    BY <1>1, <1>3 DEF Agreed, two
  <1> QED
    BY <1>4 DEF at, a, c, r

\* The verdict that week 2 records is about the answer of the case: it scores
\* exactly when the answer is the truth, in the order that its comparison asks
\* for, it conforms exactly when the names of the columns are the truth's, and
\* the scorers of weeks 1 and 3 say the same of it but for the names and the
\* rankings (evals/scorers.py, week2_scorers.py, week3/scorers.py): for any
\* cases, truths and results.
THEOREM VerdictsHold == Spec => []VerdictsRight
  <1>1. Init => AnswersInv
    <2> SUFFICES ASSUME Init PROVE AnswersInv
      OBVIOUS
    <2>1. answers = <<>> /\ answers \in Seq(Answers)
      BY DEF Init
    <2> QED
      BY <2>1 DEF AnswersInv
  <1>2. RunInv /\ AnswersInv /\ [Next]_vars => AnswersInv'
    BY AnswersStep
  <1>3. RunInv /\ AnswersInv => VerdictsRight
    BY VerdictsFollow
  <1> QED
    BY <1>1, <1>2, <1>3, OnePassSound, PTL DEF Spec
=============================================================================
