------------------------ MODULE Week3EvaluationProofs ------------------------
(***************************************************************************)
(* Theorems about Week3Evaluation, for any programmes, any identities and  *)
(* any number of departures from the scripts.                              *)
(***************************************************************************)
EXTENDS Week3Evaluation, FiniteSetTheorems, TLAPS

-----------------------------------------------------------------------------
(* The invariant. *)

Stages == {"decide", "metric_lookup", "schema_lookup", "execute", "end", "close"}
Behaviors == {"none", "execute", "clarify", "clarify_other", "refuse"}
Tools == {"metric_lookup", "schema_lookup", "profile", "execute_sql"}
Asked == {"confirm_decline", "region_contribution", "sku_contribution",
          "segment_contribution", "metric_value_contract"}
Statuses == {"none", "clarification_required", "refused", "internal_error", "policy_blocked",
             "execution_failed", "completed", "partial"}
Reasons == {"none", "missing_required_fields", "unsafe_request", "internal_error",
            "sql_policy_rejected", "repair_failed", "answer_complete", "evidence_partial",
            "task_timeout"}
Errors == {"none", "internal_case_failure", "case_identity_mismatch"}

\* The results that are validated, and those after which the agent goes on.
Checked == Valid \cup {"renamed", "unjudged"}
Continued == Valid \cup {"renamed"}

Trace == [tool : Tools,
          purpose : Asked \cup {"metric_lookup", "schema_lookup", "profile_context"},
          result : Answers]
Observation == [purpose : Asked, result : Answers]
Validation == [obs : Nat, valid : BOOLEAN]
Outcome ==
    [behavior : Behaviors, calls : Seq(Trace), obs : Seq(Observation),
     vals : Seq(Validation), judged : SUBSET Nat, first : Nat, repairs : Nat,
     structured : Nat, untraced : Tools \cup {"none"}, models : Identities, accounted : BOOLEAN,
     status : Statuses, reason : Reasons]

\* f says at which place of the trace each query is: the queries are the
\* traces of execute_sql, in their order.
TracedBy(o, f) ==
    /\ f \in [DOMAIN o.obs -> DOMAIN o.calls]
    /\ \A i, j \in DOMAIN o.obs : i < j => f[i] < f[j]
    /\ Executes(o.calls) = {f[i] : i \in DOMAIN o.obs}
    /\ \A i \in DOMAIN o.obs : /\ o.calls[f[i]].purpose = o.obs[i].purpose
                               /\ o.calls[f[i]].result = o.obs[i].result
Traced(o) == \E f \in [DOMAIN o.obs -> DOMAIN o.calls] : TracedBy(o, f)

\* What is checked has one validation, in the order of the observations, that
\* says whether the columns are the contract's.
ValidatedOnce(o) ==
    /\ \A k \in DOMAIN o.vals :
         /\ o.vals[k].obs \in DOMAIN o.obs
         /\ o.obs[o.vals[k].obs].result \in Checked
         /\ o.vals[k].valid = (o.obs[o.vals[k].obs].result # "renamed")
    /\ \A i \in DOMAIN o.obs :
         o.obs[i].result \in Checked => \E k \in DOMAIN o.vals : o.vals[k].obs = i
    /\ \A k, l \in DOMAIN o.vals : k < l => o.vals[k].obs < o.vals[l].obs

\* Evidence is what is valid.
JudgedIfValid(o) == o.judged = {i \in DOMAIN o.obs : o.obs[i].result \in Valid}

\* The lookups come first, and only queries and profiles after them.
Prepared(calls) ==
    /\ Len(calls) >= 2
    /\ calls[1].tool = "metric_lookup" /\ calls[2].tool = "schema_lookup"
    /\ \A i \in DOMAIN calls : i > 2 => calls[i].tool \in {"execute_sql", "profile"}

\* One repair, of a result or of an answer; the agent goes on after columns
\* that break the contract if it was left.
RepairsShared(o) ==
    /\ o.structured \in 0 .. MaxRepairs
    /\ o.repairs = IF o.structured = 0 /\ \E i \in DOMAIN o.obs : o.obs[i].result = "renamed"
                   THEN 1 ELSE 0
    /\ \A i \in DOMAIN o.obs :
         i < Len(o.obs) /\ o.obs[i].result = "renamed" => o.structured = 0
Repaired(o) == \A i \in DOMAIN o.obs : o.obs[i].result = "renamed" => o.structured = 0

\* What a case's outcome is when the agent's run ends by itself.
RunSound(c, o) ==
    /\ o.behavior # "execute" => o.calls = <<>>
    /\ o.obs # <<>> => Prepared(o.calls)
    /\ Traced(o) /\ ValidatedOnce(o) /\ JudgedIfValid(o)
    /\ o.first = IF o.obs = <<>> THEN 0 ELSE 1
    /\ \A i \in DOMAIN o.obs : i < Len(o.obs) => o.obs[i].result \in Continued
    /\ RepairsShared(o)
    /\ o.untraced = "none"
    /\ Len(o.calls) <= MaxToolCalls(c) /\ Len(o.obs) <= MaxExecuteCalls
    /\ CallsOf(o.calls, "profile") <= MaxProfileCalls

\* An outcome that says no more than that its case failed.
CutShort(o) == o.reason \in {"task_timeout", "internal_error"}

\* A finished outcome: it keeps the facts of the run, or was cut short.
Finished(c, o) ==
    /\ o \in Outcome
    /\ mode = "fixture" => o.models \in {<<>>, <<Requested>>}
    /\ CutShort(o) \/ (RunSound(c, o) /\ <<o.status, o.reason>> = Terminal(c, o))

\* The run under way.
UnderWay ==
    /\ stage \in Stages
    /\ run \in Outcome
    /\ stage # "close" => RunSound(Current, run) /\ run.models = <<>>
    /\ stage = "decide" => run = [NewOutcome EXCEPT !.structured = run.structured]
    /\ stage \in {"metric_lookup", "schema_lookup", "execute"} => run.behavior = "execute"
    /\ stage = "metric_lookup" => run.calls = <<>> /\ run.obs = <<>>
    /\ stage = "schema_lookup" =>
         /\ Len(run.calls) = 1 /\ run.calls[1].tool = "metric_lookup"
         /\ run.obs = <<>>
    /\ stage = "execute" => /\ Prepared(run.calls)
                            /\ \A i \in DOMAIN run.obs : run.obs[i].result \in Continued
                            /\ Repaired(run)
    /\ stage = "close" => Finished(Current, run)

\* Outcomes and records come one by one.
ControlInv ==
    /\ mode \in {"fixture", "live"}
    /\ cases \in Seq(CaseIds) /\ cases # <<>>
    /\ \A i, j \in DOMAIN cases : cases[i] = cases[j] => i = j
    /\ devs \in 0 .. MaxDeviations
    /\ outcomes \in Seq([outcome : Outcome, error : Errors])
    /\ records = [i \in 1 .. Len(records) |-> records[i]]
    /\ Len(records) \in Nat
    /\ Len(outcomes) <= Len(cases) /\ Len(records) <= Len(outcomes)
    /\ pc \in {"run", "score", "report", "published", "cancelled", "lost"}
    /\ pc = "lost" => Bearer \in ObservedModels
    /\ pc = "run" => Len(outcomes) < Len(cases) /\ records = <<>>
    /\ pc = "score" => Len(outcomes) = Len(cases) /\ Len(records) < Len(cases)
    /\ pc \in {"report", "published"} => Len(outcomes) = Len(cases) /\ Len(records) = Len(cases)
    /\ pc = "cancelled" => records = <<>>

\* A record is the scored one, or the scoring failure of an outcome whose scored
\* record the contract refuses.
RecordOf(k) ==
    \/ records[k] = ScoredRecord(cases[k], outcomes[k].outcome, ExpectedModel, outcomes[k].error)
    \/ /\ records[k] = FailureRecord(cases[k], outcomes[k].outcome, ExpectedModel)
       /\ ~ContractAccepts(ScoredRecord(cases[k], outcomes[k].outcome, ExpectedModel,
                                        outcomes[k].error))

Week3Inv ==
    /\ ControlInv
    /\ pc = "run" => UnderWay
    /\ \A i \in DOMAIN outcomes : Finished(cases[i], outcomes[i].outcome)
    /\ \A k \in DOMAIN records : RecordOf(k) /\ ContractAccepts(records[k])

-----------------------------------------------------------------------------
(* Sequences and the trace. *)

\* Two sets have the same size if something pairs them.
LEMMA SameSize ==
    ASSUME NEW S, NEW T, IsFiniteSet(S), NEW f \in [S -> T],
           \A x, y \in S : f[x] = f[y] => x = y,
           \A z \in T : \E x \in S : f[x] = z
    PROVE  IsFiniteSet(T) /\ Cardinality(T) = Cardinality(S)
  <1>1. f \in Bijection(S, T)
    BY DEF Bijection, Injection, Surjection, IsInjective
  <1>2. ExistsBijection(S, T)
    BY <1>1 DEF ExistsBijection
  <1> QED
    BY <1>2, FS_Bijection

LEMMA IntervalSize ==
    ASSUME NEW n \in Nat
    PROVE  IsFiniteSet(1 .. n) /\ Cardinality(1 .. n) = n
  <1>1. 1 \in Int /\ n \in Int
    OBVIOUS
  <1>2. IsFiniteSet(1 .. n) /\ Cardinality(1 .. n) = IF 1 > n THEN 0 ELSE n - 1 + 1
    BY <1>1, FS_Interval
  <1> QED
    BY <1>2

LEMMA AppendIs ==
    ASSUME NEW S, NEW s \in Seq(S), NEW x \in S
    PROVE  /\ Append(s, x) \in Seq(S)
           /\ Len(Append(s, x)) = Len(s) + 1
           /\ Len(s) \in Nat
           /\ DOMAIN s = 1 .. Len(s)
           /\ DOMAIN Append(s, x) = 1 .. Len(s) + 1
           /\ \A i \in DOMAIN s : Append(s, x)[i] = s[i] /\ s[i] \in S
           /\ Append(s, x)[Len(s) + 1] = x
  OBVIOUS

LEMMA ExecutesOfAppend ==
    ASSUME NEW calls \in Seq(Trace), NEW x \in Trace
    PROVE  Executes(Append(calls, x)) =
             Executes(calls) \cup (IF x.tool = "execute_sql" THEN {Len(calls) + 1} ELSE {})
  BY AppendIs DEF Executes

\* Another call leaves the queries where they are.
LEMMA TracedWithOther ==
    ASSUME NEW o \in Outcome, NEW p \in Outcome, NEW x \in Trace, Traced(o),
           x.tool # "execute_sql", p.calls = Append(o.calls, x), p.obs = o.obs
    PROVE  Traced(p)
  <1>1. PICK f \in [DOMAIN o.obs -> DOMAIN o.calls] : TracedBy(o, f)
    BY DEF Traced
  <1>2. o.calls \in Seq(Trace)
    BY DEF Outcome
  <1>3. Executes(p.calls) = Executes(o.calls)
    BY <1>2, ExecutesOfAppend
  <1>4. DOMAIN o.calls \subseteq DOMAIN p.calls
    BY <1>2, AppendIs
  <1>5. f \in [DOMAIN p.obs -> DOMAIN p.calls]
    BY <1>4
  <1>6. \A i \in DOMAIN o.obs : p.calls[f[i]] = o.calls[f[i]]
    BY <1>1, <1>2, AppendIs
  <1>7. TracedBy(p, f)
    BY <1>1, <1>3, <1>5, <1>6 DEF TracedBy
  <1> QED
    BY <1>5, <1>7 DEF Traced

\* A query is traced at the end.
LEMMA TracedWithQuery ==
    ASSUME NEW o \in Outcome, NEW p \in Outcome, NEW x \in Trace, NEW y \in Observation,
           Traced(o), x.tool = "execute_sql", x.purpose = y.purpose, x.result = y.result,
           p.calls = Append(o.calls, x), p.obs = Append(o.obs, y)
    PROVE  Traced(p)
  <1>1. PICK f \in [DOMAIN o.obs -> DOMAIN o.calls] : TracedBy(o, f)
    BY DEF Traced
  <1>2. o.calls \in Seq(Trace) /\ o.obs \in Seq(Observation)
    BY DEF Outcome
  <1> DEFINE n == Len(o.obs)
  <1> DEFINE m == Len(o.calls)
  <1>3. /\ n \in Nat /\ m \in Nat
        /\ DOMAIN o.obs = 1 .. n /\ DOMAIN p.obs = 1 .. n + 1
        /\ DOMAIN o.calls = 1 .. m /\ DOMAIN p.calls = 1 .. m + 1
    BY <1>2, AppendIs
  <1>4. /\ \A i \in 1 .. n : p.obs[i] = o.obs[i]
        /\ \A i \in 1 .. m : p.calls[i] = o.calls[i]
        /\ p.obs[n + 1] = y /\ p.calls[m + 1] = x
    BY <1>2, <1>3, AppendIs
  <1>5. Executes(p.calls) = Executes(o.calls) \cup {m + 1}
    BY <1>2, ExecutesOfAppend
  <1> DEFINE g == [i \in 1 .. n + 1 |-> IF i <= n THEN f[i] ELSE m + 1]
  <1> HIDE DEF n, m
  <1>6. \A i \in 1 .. n : f[i] \in 1 .. m
    BY <1>1, <1>3
  <1>7. g \in [1 .. n + 1 -> 1 .. m + 1]
    BY <1>3, <1>6
  <1>8. /\ \A i \in 1 .. n : g[i] = f[i]
        /\ g[n + 1] = m + 1
    BY <1>3
  <1> HIDE DEF g
  <1>9. ASSUME NEW i \in 1 .. n + 1, NEW j \in 1 .. n + 1, i < j
        PROVE  g[i] < g[j]
    <2>1. CASE j = n + 1
      <3>1. i \in 1 .. n
        BY <2>1, <1>3, <1>9
      <3> QED
        BY <2>1, <3>1, <1>3, <1>6, <1>8
    <2>2. CASE j # n + 1
      <3>1. i \in 1 .. n /\ j \in 1 .. n
        BY <2>2, <1>3, <1>9
      <3>2. f[i] < f[j]
        BY <3>1, <1>1, <1>3, <1>9 DEF TracedBy
      <3> QED
        BY <3>1, <3>2, <1>8
    <2> QED
      BY <2>1, <2>2
  <1>10. Executes(p.calls) = {g[i] : i \in 1 .. n + 1}
    <2>1. Executes(o.calls) = {f[i] : i \in 1 .. n}
      BY <1>1, <1>3 DEF TracedBy
    <2>2. 1 .. n + 1 = (1 .. n) \cup {n + 1}
      BY <1>3
    <2> QED
      BY <2>1, <2>2, <1>5, <1>8
  <1>11. ASSUME NEW i \in 1 .. n + 1
         PROVE  p.calls[g[i]].purpose = p.obs[i].purpose /\ p.calls[g[i]].result = p.obs[i].result
    <2>1. CASE i = n + 1
      BY <2>1, <1>4, <1>8
    <2>2. CASE i # n + 1
      <3>1. i \in 1 .. n
        BY <2>2, <1>3
      <3>2. p.calls[g[i]] = o.calls[f[i]] /\ p.obs[i] = o.obs[i]
        BY <3>1, <1>4, <1>6, <1>8
      <3>3. o.calls[f[i]].purpose = o.obs[i].purpose /\ o.calls[f[i]].result = o.obs[i].result
        BY <3>1, <1>1, <1>3 DEF TracedBy
      <3> QED
        BY <3>2, <3>3
    <2> QED
      BY <2>1, <2>2
  <1>12. g \in [DOMAIN p.obs -> DOMAIN p.calls]
    BY <1>3, <1>7
  <1>13. TracedBy(p, g)
    BY <1>3, <1>9, <1>10, <1>11, <1>12 DEF TracedBy
  <1> QED
    BY <1>12, <1>13 DEF Traced

\* How many calls of a tool there are.
LEMMA CallsOfAppend ==
    ASSUME NEW calls \in Seq(Trace), NEW x \in Trace, NEW t
    PROVE  /\ CallsOf(calls, t) \in Nat
           /\ CallsOf(Append(calls, x), t) = CallsOf(calls, t) + (IF x.tool = t THEN 1 ELSE 0)
  <1> DEFINE old == {i \in DOMAIN calls : calls[i].tool = t}
  <1> DEFINE new == {i \in DOMAIN Append(calls, x) : Append(calls, x)[i].tool = t}
  <1>1. /\ Len(calls) \in Nat /\ DOMAIN calls = 1 .. Len(calls)
        /\ DOMAIN Append(calls, x) = 1 .. Len(calls) + 1
        /\ \A i \in 1 .. Len(calls) : Append(calls, x)[i] = calls[i]
        /\ Append(calls, x)[Len(calls) + 1] = x
    BY AppendIs
  <1>2. IsFiniteSet(1 .. Len(calls))
    BY <1>1, FS_Interval
  <1>3. IsFiniteSet(old)
    BY <1>1, <1>2, FS_Subset
  <1>4. Len(calls) + 1 \notin old
    BY <1>1
  <1>5. new = IF x.tool = t THEN old \cup {Len(calls) + 1} ELSE old
    BY <1>1
  <1>6. Cardinality(old) \in Nat
    BY <1>3, FS_CardinalityType
  <1>7. Cardinality(old \cup {Len(calls) + 1}) = Cardinality(old) + 1
    BY <1>3, <1>4, FS_AddElement
  <1> HIDE DEF old, new
  <1>8. Cardinality(new) = Cardinality(old) + (IF x.tool = t THEN 1 ELSE 0)
    BY <1>5, <1>6, <1>7
  <1> QED
    BY <1>6, <1>8 DEF CallsOf, old, new

-----------------------------------------------------------------------------
(* The steps of the agent's run keep its outcome sound. *)

LEMMA OutcomeParts ==
    ASSUME NEW o \in Outcome
    PROVE  /\ o.behavior \in Behaviors /\ o.calls \in Seq(Trace)
           /\ o.obs \in Seq(Observation) /\ o.vals \in Seq(Validation)
           /\ o.judged \subseteq Nat /\ o.first \in Nat /\ o.repairs \in Nat
           /\ o.structured \in Nat /\ o.untraced \in Tools \cup {"none"}
           /\ o.models \in Identities /\ o.accounted \in BOOLEAN
           /\ o.status \in Statuses /\ o.reason \in Reasons
           /\ o = [behavior |-> o.behavior, calls |-> o.calls, obs |-> o.obs,
                   vals |-> o.vals, judged |-> o.judged, first |-> o.first,
                   repairs |-> o.repairs, structured |-> o.structured, untraced |-> o.untraced,
                   models |-> o.models, accounted |-> o.accounted, status |-> o.status,
                   reason |-> o.reason]
  BY DEF Outcome

LEMMA CapIs == \A c : MaxToolCalls(c) \in {3, 12}
  BY DEF MaxToolCalls

LEMMA PreparedAfterOne ==
    ASSUME NEW calls \in Seq(Trace), NEW x \in Trace, Prepared(calls),
           x.tool \in {"execute_sql", "profile"}
    PROVE  Prepared(Append(calls, x))
  BY AppendIs DEF Prepared

\* Who answered, and with what status, says nothing of the run.
LEMMA SoundWhoeverAnswered ==
    ASSUME NEW c, NEW o \in Outcome, NEW p \in Outcome, RunSound(c, o),
           p.behavior = o.behavior, p.calls = o.calls, p.obs = o.obs, p.vals = o.vals,
           p.judged = o.judged, p.first = o.first, p.repairs = o.repairs,
           p.structured = o.structured, p.untraced = o.untraced
    PROVE  RunSound(c, p)
  BY DEF RunSound, RepairsShared, Traced, TracedBy, ValidatedOnce, JudgedIfValid

LEMMA SoundAfterOther ==
    ASSUME NEW c, NEW o \in Outcome, NEW p \in Outcome, NEW x \in Trace, RunSound(c, o),
           p = [o EXCEPT !.calls = Append(@, x)],
           x.tool # "execute_sql", o.behavior = "execute",
           Len(o.calls) < MaxToolCalls(c),
           x.tool = "profile" => CallsOf(o.calls, "profile") < MaxProfileCalls,
           o.obs # <<>> => x.tool = "profile"
    PROVE  RunSound(c, p)
  <1>1. /\ p.behavior = o.behavior /\ p.calls = Append(o.calls, x) /\ p.obs = o.obs
        /\ p.vals = o.vals /\ p.judged = o.judged /\ p.first = o.first
        /\ p.repairs = o.repairs /\ p.structured = o.structured /\ p.untraced = o.untraced
    BY OutcomeParts
  <1>2. o.calls \in Seq(Trace)
    BY OutcomeParts
  <1>3. Traced(p)
    BY <1>1, TracedWithOther DEF RunSound
  <1>4. p.obs # <<>> => Prepared(p.calls)
    BY <1>1, <1>2, PreparedAfterOne DEF RunSound
  <1>5. Len(p.calls) <= MaxToolCalls(c)
    BY <1>1, <1>2, AppendIs, CapIs
  <1>6. CallsOf(p.calls, "profile") <= MaxProfileCalls
    BY <1>1, <1>2, CallsOfAppend DEF RunSound, MaxProfileCalls
  <1>7. ValidatedOnce(p) /\ JudgedIfValid(p) /\ RepairsShared(p)
    BY <1>1 DEF RunSound, RepairsShared, ValidatedOnce, JudgedIfValid
  <1> QED
    BY <1>1, <1>3, <1>4, <1>5, <1>6, <1>7 DEF RunSound

\* A query: one more observation, its validation and its evidence.
LEMMA SoundAfterQuery ==
    ASSUME NEW c, NEW o \in Outcome, NEW purpose \in Asked, NEW result \in Answers,
           NEW p \in Outcome, RunSound(c, o), o.behavior = "execute", Prepared(o.calls),
           \A i \in DOMAIN o.obs : o.obs[i].result \in Continued, Repaired(o),
           Len(o.calls) < MaxToolCalls(c), Len(o.obs) + 1 <= MaxExecuteCalls,
           p.behavior = o.behavior, p.structured = o.structured, p.untraced = o.untraced,
           p.calls = Append(o.calls, Call("execute_sql", purpose, result)),
           p.obs = Append(o.obs, [purpose |-> purpose, result |-> result]),
           p.first = (IF o.first = 0 THEN Len(o.obs) + 1 ELSE o.first),
           p.vals = (IF result \in Checked
                     THEN Append(o.vals, [obs |-> Len(o.obs) + 1, valid |-> result # "renamed"])
                     ELSE o.vals),
           p.judged = (IF result \in Valid THEN o.judged \cup {Len(o.obs) + 1} ELSE o.judged),
           p.repairs = (IF result = "renamed" /\ o.structured = 0 THEN 1 ELSE o.repairs)
    PROVE  RunSound(c, p)
  <1> DEFINE n == Len(o.obs)
  <1> DEFINE x == Call("execute_sql", purpose, result)
  <1> DEFINE y == [purpose |-> purpose, result |-> result]
  <1> DEFINE v == [obs |-> n + 1, valid |-> result # "renamed"]
  <1>1. x \in Trace /\ x.tool = "execute_sql" /\ x.purpose = purpose /\ x.result = result
    BY DEF Call, Trace, Tools
  <1>2. y \in Observation /\ y.purpose = purpose /\ y.result = result
    BY DEF Observation
  <1>3. /\ o.calls \in Seq(Trace) /\ o.obs \in Seq(Observation) /\ o.vals \in Seq(Validation)
        /\ o.first \in Nat /\ o.repairs \in Nat /\ o.structured \in 0 .. MaxRepairs
    BY OutcomeParts DEF RunSound, RepairsShared
  <1>4. /\ n \in Nat /\ DOMAIN o.obs = 1 .. n /\ DOMAIN p.obs = 1 .. n + 1
        /\ Len(p.obs) = n + 1 /\ p.obs[n + 1] = y
        /\ \A i \in 1 .. n : p.obs[i] = o.obs[i]
    BY <1>2, <1>3, AppendIs
  <1>5. v \in Validation /\ v.obs = n + 1 /\ v.valid = (result # "renamed")
    BY <1>4 DEF Validation
  <1> HIDE DEF n, x, y, v
  <1>6. Traced(p)
    BY <1>1, <1>2, TracedWithQuery DEF RunSound, x, y
  <1>7. Prepared(p.calls)
    BY <1>1, <1>3, PreparedAfterOne DEF x
  <1>8. Len(p.calls) <= MaxToolCalls(c) /\ Len(p.obs) <= MaxExecuteCalls
    <2>1. Len(p.calls) = Len(o.calls) + 1 /\ Len(o.calls) \in Nat
      BY <1>1, <1>3, AppendIs DEF x
    <2>2. MaxToolCalls(c) \in Nat
      BY CapIs
    <2> QED
      BY <2>1, <2>2, <1>4 DEF n
  <1>9. CallsOf(p.calls, "profile") <= MaxProfileCalls
    <2>1. p.calls = Append(o.calls, x)
      BY DEF x
    <2>2. CallsOf(o.calls, "profile") <= MaxProfileCalls
      BY DEF RunSound
    <2>4. x.tool # "profile"
      BY <1>1
    <2>3. CallsOf(p.calls, "profile") = CallsOf(o.calls, "profile") + 0
          /\ CallsOf(o.calls, "profile") \in Nat
      BY <2>1, <2>4, <1>1, <1>3, CallsOfAppend
    <2> QED
      BY <2>2, <2>3 DEF MaxProfileCalls
  <1>10. p.first = IF p.obs = <<>> THEN 0 ELSE 1
    <2>1. p.obs # <<>>
      BY <1>4
    <2>2. o.first = IF o.obs = <<>> THEN 0 ELSE 1
      BY DEF RunSound
    <2>3. o.obs = <<>> => n = 0
      BY DEF n
    <2> QED
      BY <2>1, <2>2, <2>3 DEF n
  <1>11. \A i \in DOMAIN p.obs : i < Len(p.obs) => p.obs[i].result \in Continued
    BY <1>4
  <1>12. RepairsShared(p)
    <2>1. o.repairs = IF o.structured = 0 /\ \E i \in DOMAIN o.obs : o.obs[i].result = "renamed"
                      THEN 1 ELSE 0
      BY DEF RunSound, RepairsShared
    <2>2. (\E i \in DOMAIN p.obs : p.obs[i].result = "renamed")
            <=> (\E i \in DOMAIN o.obs : o.obs[i].result = "renamed") \/ result = "renamed"
      BY <1>2, <1>4
    <2>3. p.repairs = IF p.structured = 0 /\ \E i \in DOMAIN p.obs : p.obs[i].result = "renamed"
                      THEN 1 ELSE 0
      BY <2>1, <2>2, <1>3 DEF MaxRepairs
    <2>4. \A i \in DOMAIN p.obs :
            i < Len(p.obs) /\ p.obs[i].result = "renamed" => p.structured = 0
      BY <1>4 DEF Repaired
    <2> QED
      BY <2>3, <2>4, <1>3 DEF RepairsShared
  <1>13. JudgedIfValid(p)
    <2>1. o.judged = {i \in 1 .. n : o.obs[i].result \in Valid}
      BY <1>4 DEF RunSound, JudgedIfValid
    <2>2. {i \in 1 .. n + 1 : p.obs[i].result \in Valid}
            = {i \in 1 .. n : o.obs[i].result \in Valid}
                \cup (IF result \in Valid THEN {n + 1} ELSE {})
      BY <1>2, <1>4
    <2> QED
      BY <2>1, <2>2, <1>4 DEF JudgedIfValid, n
  <1>14. ValidatedOnce(p)
    <2> DEFINE m == Len(o.vals)
    <2>1. m \in Nat /\ DOMAIN o.vals = 1 .. m
      BY <1>3, <1>5, AppendIs
    <2>2. \A k \in 1 .. m : /\ o.vals[k].obs \in 1 .. n
                            /\ o.obs[o.vals[k].obs].result \in Checked
                            /\ o.vals[k].valid = (o.obs[o.vals[k].obs].result # "renamed")
      BY <2>1, <1>4 DEF RunSound, ValidatedOnce
    <2>3. \A i \in 1 .. n : o.obs[i].result \in Checked => \E k \in 1 .. m : o.vals[k].obs = i
      BY <2>1, <1>4 DEF RunSound, ValidatedOnce
    <2>4. \A k, l \in 1 .. m : k < l => o.vals[k].obs < o.vals[l].obs
      BY <2>1 DEF RunSound, ValidatedOnce
    <2>5. CASE result \in Checked
      <3>1. p.vals = Append(o.vals, v)
        BY <2>5 DEF v, n
      <3>2. /\ DOMAIN p.vals = 1 .. m + 1 /\ p.vals[m + 1] = v
            /\ \A k \in 1 .. m : p.vals[k] = o.vals[k]
        <4>1. /\ DOMAIN Append(o.vals, v) = 1 .. Len(o.vals) + 1
              /\ Append(o.vals, v)[Len(o.vals) + 1] = v
              /\ \A k \in DOMAIN o.vals : Append(o.vals, v)[k] = o.vals[k]
          BY <1>3, <1>5, AppendIs
        <4> QED
          BY <4>1, <3>1, <2>1
      <3> HIDE DEF m
      <3>3. ASSUME NEW k \in 1 .. m + 1
            PROVE  /\ p.vals[k].obs \in 1 .. n + 1
                   /\ p.obs[p.vals[k].obs].result \in Checked
                   /\ p.vals[k].valid = (p.obs[p.vals[k].obs].result # "renamed")
        <4>1. CASE k = m + 1
          BY <4>1, <3>2, <2>5, <1>2, <1>4, <1>5
        <4>2. CASE k # m + 1
          <5>1. k \in 1 .. m
            BY <4>2, <2>1
          <5>2. p.vals[k] = o.vals[k] /\ o.vals[k].obs \in 1 .. n
            BY <5>1, <3>2, <2>2
          <5>3. p.obs[p.vals[k].obs] = o.obs[o.vals[k].obs]
            BY <5>2, <1>4
          <5>4. /\ o.obs[o.vals[k].obs].result \in Checked
                /\ o.vals[k].valid = (o.obs[o.vals[k].obs].result # "renamed")
            BY <5>1, <2>2
          <5>5. p.vals[k].obs \in 1 .. n + 1
            <6>1. 1 .. n \subseteq 1 .. n + 1
              BY <1>4
            <6>2. o.vals[k].obs \in 1 .. n
              BY <5>1, <2>2
            <6> QED
              BY <6>1, <6>2, <5>2
          <5> QED
            BY <5>2, <5>3, <5>4, <5>5
        <4> QED
          BY <4>1, <4>2
      <3>4. ASSUME NEW i \in 1 .. n + 1, p.obs[i].result \in Checked
            PROVE  \E k \in 1 .. m + 1 : p.vals[k].obs = i
        <4>1. CASE i = n + 1
          BY <4>1, <3>2, <2>1, <1>5
        <4>2. CASE i # n + 1
          <5>1. i \in 1 .. n /\ o.obs[i].result \in Checked
            BY <4>2, <3>4, <1>4
          <5>2. PICK k \in 1 .. m : o.vals[k].obs = i
            BY <5>1, <2>3
          <5>3. k \in 1 .. m + 1 /\ p.vals[k].obs = i
            BY <5>2, <3>2, <2>1
          <5> QED
            BY <5>3
        <4> QED
          BY <4>1, <4>2
      <3>5. ASSUME NEW k \in 1 .. m + 1, NEW l \in 1 .. m + 1, k < l
            PROVE  p.vals[k].obs < p.vals[l].obs
        <4>0. k \in 1 .. m
          BY <3>5, <2>1
        <4>1. k \in 1 .. m /\ p.vals[k] = o.vals[k] /\ o.vals[k].obs \in 1 .. n
          BY <4>0, <3>2, <2>1, <2>2
        <4>2. CASE l = m + 1
          BY <4>1, <4>2, <3>2, <1>4, <1>5
        <4>3. CASE l # m + 1
          <5>1. l \in 1 .. m
            BY <4>3, <2>1
          <5> QED
            BY <5>1, <4>1, <3>2, <3>5, <2>4
        <4> QED
          BY <4>2, <4>3
      <3> QED
        BY <3>2, <3>3, <3>4, <3>5, <1>4 DEF ValidatedOnce
    <2>6. CASE result \notin Checked
      <3>1. p.vals = o.vals
        BY <2>6
      <3>2. \A i \in 1 .. n + 1 : p.obs[i].result \in Checked => i \in 1 .. n
        BY <2>6, <1>2, <1>4
      <3>3. \A k \in DOMAIN p.vals : p.vals[k] = o.vals[k] /\ k \in 1 .. m
        BY <3>1, <2>1
      <3> HIDE DEF m
      <3>4. ASSUME NEW k \in DOMAIN p.vals
            PROVE  /\ p.vals[k].obs \in DOMAIN p.obs
                   /\ p.obs[p.vals[k].obs].result \in Checked
                   /\ p.vals[k].valid = (p.obs[p.vals[k].obs].result # "renamed")
        <4>1. /\ p.vals[k] = o.vals[k] /\ o.vals[k].obs \in 1 .. n
              /\ o.obs[o.vals[k].obs].result \in Checked
              /\ o.vals[k].valid = (o.obs[o.vals[k].obs].result # "renamed")
          BY <3>3, <2>2
        <4>2. p.obs[p.vals[k].obs] = o.obs[o.vals[k].obs]
          BY <4>1, <1>4
        <4>3. p.vals[k].obs \in 1 .. n
          BY <4>1
        <4>4. 1 .. n \subseteq 1 .. n + 1 /\ DOMAIN p.obs = 1 .. n + 1
          BY <1>4
        <4>5. p.vals[k].obs \in DOMAIN p.obs
          BY <4>3, <4>4
        <4> QED
          BY <4>1, <4>2, <4>5
      <3>5. ASSUME NEW i \in DOMAIN p.obs, p.obs[i].result \in Checked
            PROVE  \E k \in DOMAIN p.vals : p.vals[k].obs = i
        BY <3>1, <3>2, <3>5, <2>1, <2>3, <1>4
      <3>6. \A k, l \in DOMAIN p.vals : k < l => p.vals[k].obs < p.vals[l].obs
        BY <3>1, <2>1, <2>4
      <3> QED
        BY <3>4, <3>5, <3>6 DEF ValidatedOnce
    <2> QED
      BY <2>5, <2>6
  <1> QED
    BY <1>6, <1>7, <1>8, <1>9, <1>10, <1>11, <1>12, <1>13, <1>14 DEF RunSound

\* Nothing has happened yet, but for the decision.
LEMMA SoundAtFirst ==
    ASSUME NEW c, NEW b \in Behaviors, NEW s \in 0 .. MaxRepairs
    PROVE  /\ NewOutcome \in Outcome
           /\ [NewOutcome EXCEPT !.behavior = b, !.structured = s] \in Outcome
           /\ RunSound(c, [NewOutcome EXCEPT !.behavior = b, !.structured = s])
           /\ RunSound(c, NewOutcome)
  <1> DEFINE o == [NewOutcome EXCEPT !.behavior = b, !.structured = s]
  <1>1. NewOutcome \in Outcome
    <2>1. <<>> \in Seq(Trace) /\ <<>> \in Seq(Observation) /\ <<>> \in Seq(Validation)
      OBVIOUS
    <2>2. <<>> \in Identities /\ "none" \in Behaviors
      BY DEF Behaviors, Identities
    <2>3. {} \subseteq Nat /\ 0 \in Nat
      OBVIOUS
    <2>4. TRUE \in BOOLEAN
      OBVIOUS
    <2>5. "none" \in Statuses /\ "none" \in Reasons
      BY DEF Statuses, Reasons
    <2> QED
      BY <2>1, <2>2, <2>3, <2>4, <2>5 DEF NewOutcome, Outcome
  <1>2. o \in Outcome
    <2>1. s \in Nat
      BY DEF MaxRepairs
    <2> QED
      BY <1>1, <2>1 DEF Outcome
  <1>3. /\ o.calls = <<>> /\ o.obs = <<>> /\ o.vals = <<>> /\ o.judged = {} /\ o.first = 0
        /\ o.repairs = 0 /\ o.structured = s /\ o.untraced = "none"
    BY DEF NewOutcome
  <1>4. ASSUME NEW p, p \in Outcome, p.calls = <<>>, p.obs = <<>>, p.vals = <<>>, p.judged = {},
               p.first = 0, p.repairs = 0, p.structured \in 0 .. MaxRepairs,
               p.untraced = "none"
        PROVE  RunSound(c, p)
    <2>1. DOMAIN p.obs = {} /\ DOMAIN p.calls = {} /\ DOMAIN p.vals = {}
      BY <1>4
    <2>2. Executes(p.calls) = {}
      BY <2>1 DEF Executes
    <2> DEFINE f == [i \in {} |-> 0]
    <2>3. f \in [DOMAIN p.obs -> DOMAIN p.calls]
      BY <2>1
    <2>4. TracedBy(p, f)
      BY <2>1, <2>2, <2>3 DEF TracedBy
    <2>5. Traced(p)
      BY <2>3, <2>4 DEF Traced
    <2>6. CallsOf(p.calls, "profile") = 0
      <3>1. {i \in DOMAIN p.calls : p.calls[i].tool = "profile"} = {}
        BY <2>1
      <3> QED
        BY <3>1, FS_EmptySet DEF CallsOf
    <2>7. ValidatedOnce(p) /\ JudgedIfValid(p) /\ RepairsShared(p)
      BY <2>1, <1>4 DEF RepairsShared, ValidatedOnce, JudgedIfValid
    <2>8. Len(p.calls) = 0 /\ Len(p.obs) = 0
      BY <1>4
    <2> QED
      BY <1>4, <2>1, <2>5, <2>6, <2>7, <2>8, CapIs
         DEF RunSound, MaxProfileCalls, MaxExecuteCalls
  <1>5. RunSound(c, o)
    BY <1>2, <1>3, <1>4
  <1>6. RunSound(c, NewOutcome)
    <2>1. /\ NewOutcome.calls = <<>> /\ NewOutcome.obs = <<>> /\ NewOutcome.vals = <<>>
          /\ NewOutcome.judged = {} /\ NewOutcome.first = 0
          /\ NewOutcome.repairs = 0 /\ NewOutcome.structured \in 0 .. MaxRepairs
          /\ NewOutcome.untraced = "none"
      BY DEF NewOutcome, MaxRepairs
    <2> QED
      BY <1>1, <2>1, <1>4
  <1> QED
    BY <1>1, <1>2, <1>5, <1>6

\* What remains of a case that was cut short.
LEMMA FailureIsOutcome ==
    ASSUME NEW o \in Outcome, NEW status \in Statuses, NEW reason \in Reasons
    PROVE  /\ SafeFailure(status, reason, o) \in Outcome
           /\ SafeFailure(status, reason, o).models = o.models
           /\ SafeFailure(status, reason, o).reason = reason
  <1>1. NewOutcome \in Outcome
    BY SoundAtFirst DEF Behaviors, MaxRepairs
  <1> QED
    BY <1>1, OutcomeParts DEF SafeFailure, Outcome

-----------------------------------------------------------------------------
(* The steps of the agent's run. *)

LEMMA DeviationsBounded ==
    ASSUME devs \in 0 .. MaxDeviations, NEW usual \in BOOLEAN, Deviate(usual)
    PROVE  devs' \in 0 .. MaxDeviations
  BY DeviationsAssumption DEF Deviate

\* A step within a case changes the run under way and nothing else.
LEMMA WithinCase ==
    ASSUME Week3Inv, pc = "run", UNCHANGED Fixed, devs' \in 0 .. MaxDeviations, UnderWay'
    PROVE  Week3Inv'
  BY DEF Week3Inv, ControlInv, Fixed, Finished, RecordOf

LEMMA CaseUnderWay ==
    ASSUME Week3Inv, pc = "run"
    PROVE  /\ Current \in CaseIds /\ UnderWay /\ devs \in 0 .. MaxDeviations
           /\ run \in Outcome
  <1>1. Len(outcomes) \in Nat /\ Len(outcomes) + 1 \in DOMAIN cases
    BY DEF Week3Inv, ControlInv
  <1> QED
    BY <1>1 DEF Week3Inv, ControlInv, Current, UnderWay

LEMMA DecideStep == Week3Inv /\ Decide => Week3Inv'
  <1> SUFFICES ASSUME Week3Inv, Decide PROVE Week3Inv'
    OBVIOUS
  <1>1. pc = "run" /\ stage = "decide" /\ UNCHANGED Fixed
    BY DEF Decide, Running
  <1>2. PICK b \in {"execute", "clarify", "clarify_other", "refuse"} :
          /\ Deviate(b = ExpectedBehavior[Current])
          /\ run' = [run EXCEPT !.behavior = b]
          /\ stage' = IF b = "execute" THEN "metric_lookup" ELSE "end"
    BY DEF Decide
  <1>3. devs' \in 0 .. MaxDeviations
    BY <1>1, <1>2, CaseUnderWay, DeviationsBounded
  <1>4. run = [NewOutcome EXCEPT !.structured = run.structured] /\ run.structured \in 0 .. MaxRepairs
    BY <1>1, CaseUnderWay DEF UnderWay, RunSound, RepairsShared
  <1>5. Current' = Current
    BY <1>1 DEF Current, Fixed
  <1>6. b \in Behaviors
    BY DEF Behaviors
  <1>7. run' = [NewOutcome EXCEPT !.behavior = b, !.structured = run.structured]
    BY <1>2, <1>4 DEF NewOutcome
  <1>8. /\ run'.calls = <<>> /\ run'.obs = <<>> /\ run'.models = <<>> /\ run'.behavior = b
        /\ run' \in Outcome /\ RunSound(Current, run')
    BY <1>4, <1>6, <1>7, SoundAtFirst DEF NewOutcome
  <1>9. stage' \in {"metric_lookup", "end"}
    BY <1>2
  <1>10. stage' = "metric_lookup" => b = "execute"
    BY <1>2
  <1>11. UnderWay'
    BY <1>5, <1>7, <1>8, <1>9, <1>10 DEF UnderWay, Stages
  <1> QED
    BY <1>1, <1>3, <1>11, WithinCase

\* A repaired answer costs a repair and leaves the rest of the run alone.
LEMMA RepairAnswerStep == Week3Inv /\ RepairAnswer => Week3Inv'
  <1> SUFFICES ASSUME Week3Inv, RepairAnswer PROVE Week3Inv'
    OBVIOUS
  <1>1. /\ pc = "run" /\ stage \in {"decide", "execute"} /\ stage' = stage /\ UNCHANGED Fixed
        /\ Deviate(FALSE) /\ run.repairs + run.structured < MaxRepairs
        /\ run' = [run EXCEPT !.structured = @ + 1]
    BY DEF RepairAnswer
  <1>2. devs' \in 0 .. MaxDeviations
    BY <1>1, CaseUnderWay, DeviationsBounded
  <1>3. /\ run \in Outcome /\ RunSound(Current, run) /\ run.models = <<>>
    BY <1>1, CaseUnderWay DEF UnderWay
  <1>4. run.repairs \in Nat /\ run.structured \in Nat
    BY <1>3, OutcomeParts
  <1>5. run.repairs = 0 /\ run.structured = 0 /\ run.structured + 1 \in 0 .. MaxRepairs
    BY <1>1, <1>4 DEF MaxRepairs
  <1>6. /\ run' \in Outcome /\ run'.structured = 1 /\ run'.repairs = 0
        /\ run'.behavior = run.behavior /\ run'.calls = run.calls /\ run'.obs = run.obs
        /\ run'.vals = run.vals /\ run'.judged = run.judged /\ run'.first = run.first
        /\ run'.untraced = run.untraced /\ run'.models = <<>>
    <2>1. run.structured + 1 \in Nat
      BY <1>4
    <2>2. run' \in Outcome
      BY <1>1, <1>3, <2>1 DEF Outcome
    <2> QED
      BY <1>1, <1>3, <1>5, <2>2, OutcomeParts
  <1>12. \A i \in DOMAIN run.obs : run.obs[i].result # "renamed"
    BY <1>3, <1>5 DEF RunSound, RepairsShared
  <1>7. RunSound(Current, run')
    BY <1>3, <1>5, <1>6, <1>12 DEF RunSound, RepairsShared, Traced, TracedBy, ValidatedOnce, JudgedIfValid
  <1>8. Current' = Current
    BY <1>1 DEF Current, Fixed
  <1>9. stage = "decide" => run' = [NewOutcome EXCEPT !.structured = run'.structured]
    <2>1. stage = "decide" => run = [NewOutcome EXCEPT !.structured = run.structured]
      BY <1>1, CaseUnderWay DEF UnderWay
    <2> QED
      BY <2>1, <1>1, <1>6 DEF NewOutcome
  <1>10. stage = "execute" => /\ run.behavior = "execute" /\ Prepared(run.calls)
                              /\ \A i \in DOMAIN run.obs : run.obs[i].result \in Continued
    BY <1>1, CaseUnderWay DEF UnderWay
  <1>11. UnderWay'
    BY <1>1, <1>6, <1>7, <1>8, <1>9, <1>10, <1>12 DEF UnderWay, Repaired, Stages
  <1> QED
    BY <1>1, <1>2, <1>11, WithinCase

LEMMA LookupStep ==
    ASSUME Week3Inv, NEW tool, NEW next, Lookup(tool, next),
           <<tool, next>> \in {<<"metric_lookup", "schema_lookup">>, <<"schema_lookup", "execute">>}
    PROVE  Week3Inv'
  <1>1. pc = "run" /\ stage = tool /\ UNCHANGED Fixed
    BY DEF Lookup, Running
  <1>2. PICK ok \in BOOLEAN :
          /\ Deviate(ok)
          /\ run' = [run EXCEPT !.calls =
                       Append(@, Call(tool, tool, IF ok THEN "right" ELSE "failed"))]
          /\ stage' = IF ok THEN next ELSE "end"
    BY DEF Lookup
  <1>3. devs' \in 0 .. MaxDeviations
    BY <1>1, <1>2, CaseUnderWay, DeviationsBounded
  <1> DEFINE x == Call(tool, tool, IF ok THEN "right" ELSE "failed")
  <1>4. tool \in {"metric_lookup", "schema_lookup"}
    OBVIOUS
  <1>5. x \in Trace /\ x.tool = tool
    BY <1>4 DEF Call, Trace, Tools, Answers, Failed, Valid
  <1>6. /\ run \in Outcome /\ RunSound(Current, run) /\ run.behavior = "execute"
        /\ run.obs = <<>> /\ run.models = <<>>
        /\ tool = "metric_lookup" => run.calls = <<>>
        /\ tool = "schema_lookup" => Len(run.calls) = 1 /\ run.calls[1].tool = "metric_lookup"
    BY <1>1, <1>4, CaseUnderWay DEF UnderWay
  <1>7. run.calls \in Seq(Trace)
    BY <1>6, OutcomeParts
  <1> HIDE DEF x
  <1>8. run' = [run EXCEPT !.calls = Append(@, x)]
    BY <1>2 DEF x
  <1>9. Append(run.calls, x) \in Seq(Trace)
    BY <1>5, <1>7, AppendIs
  <1>10. /\ run' \in Outcome /\ run'.calls = Append(run.calls, x) /\ run'.obs = <<>>
         /\ run'.behavior = "execute" /\ run'.models = <<>>
    BY <1>6, <1>8, <1>9 DEF Outcome
  <1>11. Len(run.calls) \in {0, 1}
    <2>1. tool = "metric_lookup" => Len(run.calls) = 0
      BY <1>6
    <2> QED
      BY <2>1, <1>4, <1>6
  <1>12. RunSound(Current, run')
    BY <1>4, <1>5, <1>6, <1>8, <1>10, <1>11, CapIs, SoundAfterOther
  <1>13. Current' = Current
    BY <1>1 DEF Current, Fixed
  <1>14. stage' = "schema_lookup" => Len(run'.calls) = 1 /\ run'.calls[1].tool = "metric_lookup"
    <2>1. stage' = "schema_lookup" => tool = "metric_lookup"
      BY <1>2, <1>4
    <2>2. tool = "metric_lookup" => Len(run.calls) = 0
      BY <1>6
    <2>3. /\ Len(run'.calls) = Len(run.calls) + 1
          /\ run'.calls[Len(run.calls) + 1] = x
      BY <1>5, <1>7, <1>10, AppendIs
    <2> QED
      BY <2>1, <2>2, <2>3, <1>5
  <1>15. stage' = "execute" => Prepared(run'.calls)
    <2>1. SUFFICES ASSUME stage' = "execute" PROVE Prepared(run'.calls)
      OBVIOUS
    <2>2. tool = "schema_lookup"
      BY <1>2, <1>4, <2>1
    <2>3. /\ Len(run.calls) = 1 /\ run.calls[1].tool = "metric_lookup"
      BY <1>6, <2>2
    <2>4. /\ DOMAIN run'.calls = 1 .. 2 /\ Len(run'.calls) = 2
          /\ run'.calls[1] = run.calls[1] /\ run'.calls[2] = x
      BY <1>5, <1>7, <1>10, <2>3, AppendIs
    <2> QED
      BY <2>2, <2>3, <2>4, <1>5 DEF Prepared
  <1>16. stage' \in {"schema_lookup", "execute", "end"}
    BY <1>2, <1>4
  <1>17. DOMAIN run'.obs = {}
    BY <1>10
  <1>18. UnderWay'
    BY <1>10, <1>12, <1>13, <1>14, <1>15, <1>16, <1>17 DEF UnderWay, Repaired, Stages
  <1> QED
    BY <1>1, <1>3, <1>18, WithinCase

LEMMA ProfileStep == Week3Inv /\ Profile => Week3Inv'
  <1> SUFFICES ASSUME Week3Inv, Profile PROVE Week3Inv'
    OBVIOUS
  <1> DEFINE x == Call("profile", "profile_context", "right")
  <1>1. /\ pc = "run" /\ stage = "execute" /\ stage' = stage /\ UNCHANGED Fixed
        /\ Deviate(FALSE)
        /\ Len(run.calls) < MaxToolCalls(Current)
        /\ CallsOf(run.calls, "profile") < MaxProfileCalls
        /\ run' = [run EXCEPT !.calls = Append(@, x)]
    BY DEF Profile, MayCall
  <1>2. devs' \in 0 .. MaxDeviations
    BY <1>1, CaseUnderWay, DeviationsBounded
  <1>3. x \in Trace /\ x.tool = "profile"
    BY DEF Call, Trace, Tools, Answers, Valid
  <1> HIDE DEF x
  <1>4. /\ run \in Outcome /\ RunSound(Current, run) /\ run.behavior = "execute"
        /\ run.models = <<>> /\ Prepared(run.calls)
        /\ \A i \in DOMAIN run.obs : run.obs[i].result \in Continued
    BY <1>1, CaseUnderWay DEF UnderWay
  <1>5. run.calls \in Seq(Trace)
    BY <1>4, OutcomeParts
  <1>6. Append(run.calls, x) \in Seq(Trace)
    BY <1>3, <1>5, AppendIs
  <1>7. /\ run' \in Outcome /\ run'.calls = Append(run.calls, x) /\ run'.obs = run.obs
        /\ run'.behavior = "execute" /\ run'.models = <<>>
    BY <1>1, <1>4, <1>6 DEF Outcome
  <1>8. RunSound(Current, run')
    BY <1>1, <1>3, <1>4, <1>7, SoundAfterOther
  <1>9. Prepared(run'.calls)
    BY <1>3, <1>4, <1>5, <1>7, PreparedAfterOne
  <1>10. Current' = Current
    BY <1>1 DEF Current, Fixed
  <1>11. Repaired(run')
    BY <1>1, <1>4, <1>7, CaseUnderWay, OutcomeParts DEF UnderWay, Repaired
  <1>12. UnderWay'
    BY <1>1, <1>4, <1>7, <1>8, <1>9, <1>10, <1>11 DEF UnderWay, Stages
  <1> QED
    BY <1>1, <1>2, <1>12, WithinCase

LEMMA PurposesAsked == RangeOf(Attribution \o Simple) \subseteq Asked
  BY DEF RangeOf, Attribution, Breakdowns, Simple, Asked

LEMMA ExecuteStep ==
    ASSUME Week3Inv, NEW purpose \in RangeOf(Attribution \o Simple), NEW result \in Answers,
           Execute(purpose, result)
    PROVE  Week3Inv'
  <1> DEFINE n == Len(run.obs) + 1
  <1> DEFINE later == run.repairs + run.structured < MaxRepairs
  <1> DEFINE x == Call("execute_sql", purpose, result)
  <1> DEFINE y == [purpose |-> purpose, result |-> result]
  <1> DEFINE v == [obs |-> n, valid |-> result # "renamed"]
  <1>1. /\ pc = "run" /\ stage = "execute" /\ UNCHANGED Fixed
        /\ Deviate(purpose \in Pending(Current, run) /\ result = Scripted(Current, run))
        /\ Len(run.calls) < MaxToolCalls(Current) /\ n <= MaxExecuteCalls
        /\ stage' = IF result \in Valid \/ (result = "renamed" /\ later) THEN "execute" ELSE "end"
    <2>1. pc = "run" /\ MayCall("execute_sql") /\ UNCHANGED Fixed
      BY DEF Execute
    <2>2. /\ stage = "execute" /\ Len(run.calls) < MaxToolCalls(Current)
          /\ Len(run.obs) < MaxExecuteCalls
      BY <2>1 DEF MayCall
    <2>3. Len(run.obs) \in Nat
      BY <2>1, CaseUnderWay, OutcomeParts
    <2> QED
      BY <2>1, <2>2, <2>3 DEF Execute, MaxExecuteCalls
  <1>2. run' = [run EXCEPT
               !.calls = Append(@, x),
               !.obs = Append(@, y),
               !.first = IF @ = 0 THEN n ELSE @,
               !.vals = IF result \in Valid \cup {"renamed", "unjudged"}
                        THEN Append(@, v) ELSE @,
               !.judged = IF result \in Valid THEN @ \cup {n} ELSE @,
               !.repairs = IF result = "renamed" /\ later THEN @ + 1 ELSE @]
    BY DEF Execute
  <1>3. devs' \in 0 .. MaxDeviations
    BY <1>1, CaseUnderWay, DeviationsBounded
  <1>4. purpose \in Asked
    BY PurposesAsked
  <1>5. x \in Trace /\ x.tool = "execute_sql"
    BY <1>4 DEF Call, Trace, Tools
  <1>6. y \in Observation
    BY <1>4 DEF Observation
  <1>7. /\ run \in Outcome /\ RunSound(Current, run) /\ run.behavior = "execute"
        /\ run.models = <<>> /\ Prepared(run.calls)
        /\ \A i \in DOMAIN run.obs : run.obs[i].result \in Continued
        /\ Repaired(run)
    BY <1>1, CaseUnderWay DEF UnderWay
  <1>8. /\ run.calls \in Seq(Trace) /\ run.obs \in Seq(Observation)
        /\ run.vals \in Seq(Validation) /\ run.judged \subseteq Nat /\ run.first \in Nat
        /\ run.repairs \in Nat /\ run.structured \in 0 .. MaxRepairs
    BY <1>7, OutcomeParts DEF RunSound, RepairsShared
  <1>9. n \in Nat
    BY <1>8
  <1>10. v \in Validation
    <2>1. (result # "renamed") \in BOOLEAN
      OBVIOUS
    <2> QED
      BY <1>9, <2>1 DEF Validation
  <1>11. /\ Append(run.calls, x) \in Seq(Trace) /\ Append(run.obs, y) \in Seq(Observation)
         /\ Append(run.vals, v) \in Seq(Validation)
    BY <1>5, <1>6, <1>8, <1>10, AppendIs
  <1>12. /\ DOMAIN Append(run.obs, y) = 1 .. n /\ Append(run.obs, y)[n] = y
         /\ \A i \in DOMAIN run.obs : Append(run.obs, y)[i] = run.obs[i]
         /\ DOMAIN run.obs = 1 .. n - 1
    BY <1>6, <1>8, AppendIs
  <1>13. /\ run'.behavior = run.behavior /\ run'.structured = run.structured
         /\ run'.untraced = run.untraced
         /\ run'.models = run.models /\ run'.accounted = run.accounted
         /\ run'.status = run.status /\ run'.reason = run.reason
         /\ run'.calls = Append(run.calls, x) /\ run'.obs = Append(run.obs, y)
    BY <1>2, <1>7, OutcomeParts
  <1>14. /\ run'.first = (IF run.first = 0 THEN n ELSE run.first)
         /\ run'.vals = (IF result \in Checked THEN Append(run.vals, v) ELSE run.vals)
         /\ run'.judged = (IF result \in Valid THEN run.judged \cup {n} ELSE run.judged)
         /\ run'.repairs = (IF result = "renamed" /\ later
                            THEN run.repairs + 1 ELSE run.repairs)
    BY <1>2, <1>7, OutcomeParts DEF Checked
  <1>15. run' \in Outcome
    <2>1. /\ run'.first \in Nat /\ run'.vals \in Seq(Validation) /\ run'.judged \subseteq Nat
          /\ run'.repairs \in Nat
      BY <1>8, <1>9, <1>11, <1>14
    <2>2. /\ run'.behavior \in Behaviors /\ run'.structured \in Nat
          /\ run'.untraced \in Tools \cup {"none"} /\ run'.models \in Identities
          /\ run'.accounted \in BOOLEAN /\ run'.status \in Statuses /\ run'.reason \in Reasons
      BY <1>7, <1>13, OutcomeParts
    <2>3. run' = [behavior |-> run'.behavior, calls |-> run'.calls, obs |-> run'.obs,
                  vals |-> run'.vals, judged |-> run'.judged, first |-> run'.first,
                  repairs |-> run'.repairs, structured |-> run'.structured,
                  untraced |-> run'.untraced,
                  models |-> run'.models, accounted |-> run'.accounted,
                  status |-> run'.status, reason |-> run'.reason]
      BY <1>2, <1>7, OutcomeParts
    <2> HIDE DEF x, y, v
    <2> QED
      BY <2>1, <2>2, <2>3, <1>11, <1>13 DEF Outcome
  <1>16. RunSound(Current, run')
    <2>1. run.repairs \in {0, 1} /\ run.structured \in {0, 1}
      BY <1>7, <1>8 DEF RunSound, RepairsShared, MaxRepairs
    <2>2. run'.repairs = (IF result = "renamed" /\ run.structured = 0 THEN 1 ELSE run.repairs)
      BY <1>14, <2>1 DEF MaxRepairs
    <2> QED
      BY <1>1, <1>4, <1>7, <1>13, <1>14, <1>15, <2>2, SoundAfterQuery
  <1>17. Prepared(run'.calls)
    BY <1>5, <1>7, <1>8, <1>13, PreparedAfterOne
  <1>18. stage' = "execute" => \A i \in DOMAIN run'.obs : run'.obs[i].result \in Continued
    <2>1. stage' = "execute" => result \in Continued
      BY <1>1 DEF Continued
    <2>2. y.result = result
      OBVIOUS
    <2> QED
      BY <2>1, <2>2, <1>7, <1>9, <1>12, <1>13
  <1>19. Current' = Current
    BY <1>1 DEF Current, Fixed
  <1>20. stage' \in {"execute", "end"}
    BY <1>1
  <1>21. run'.behavior = "execute" /\ run'.models = <<>>
    BY <1>7, <1>13
  <1>22. stage' = "execute" => Repaired(run')
    <2>1. stage' = "execute" => (result = "renamed" => run.structured = 0)
      BY <1>1, <1>8 DEF Valid, MaxRepairs
    <2>2. y.result = result
      OBVIOUS
    <2> QED
      BY <2>1, <2>2, <1>7, <1>9, <1>12, <1>13 DEF Repaired
  <1>23. UnderWay'
    BY <1>15, <1>16, <1>17, <1>18, <1>19, <1>20, <1>21, <1>22 DEF UnderWay, Stages
  <1> QED
    BY <1>1, <1>3, <1>23, WithinCase

LEMMA TerminalIs ==
    ASSUME NEW c, NEW o
    PROVE  Terminal(c, o) \in
             {<<"clarification_required", "missing_required_fields">>,
              <<"refused", "unsafe_request">>, <<"internal_error", "internal_error">>,
              <<"policy_blocked", "sql_policy_rejected">>,
              <<"execution_failed", "repair_failed">>, <<"completed", "answer_complete">>,
              <<"partial", "evidence_partial">>}
  BY DEF Terminal

LEMMA TerminalTyped ==
    ASSUME NEW c, NEW o
    PROVE  /\ Terminal(c, o)[1] \in Statuses /\ Terminal(c, o)[2] \in Reasons
           /\ Terminal(c, o) = <<Terminal(c, o)[1], Terminal(c, o)[2]>>
  BY TerminalIs DEF Statuses, Reasons

\* The terminal depends on the decision, the queries and the evidence.
LEMMA TerminalOfFacts ==
    ASSUME NEW c, NEW o, NEW p, p.behavior = o.behavior, p.obs = o.obs, p.judged = o.judged
    PROVE  Terminal(c, p) = Terminal(c, o)
  <1>1. Pending(c, p) = Pending(c, o)
    BY DEF Pending, JudgedPurposes
  <1> QED
    BY <1>1 DEF Terminal

LEMMA EndRunStep == Week3Inv /\ EndRun => Week3Inv'
  <1> SUFFICES ASSUME Week3Inv, EndRun PROVE Week3Inv'
    OBVIOUS
  <1> DEFINE terminal == Terminal(Current, run)
  <1> DEFINE o == [run EXCEPT !.status = terminal[1], !.reason = terminal[2]]
  <1>1. /\ pc = "run" /\ stage \in {"end", "execute"} /\ stage' = "close" /\ UNCHANGED Fixed
        /\ Answered(o)
    BY DEF EndRun
  <1>2. PICK m \in Identities, a \in BOOLEAN :
          /\ mode = "fixture" => m = <<Requested>>
          /\ Deviate(m = <<Requested>> /\ a)
          /\ run' = [o EXCEPT !.models = m, !.accounted = a]
    BY <1>1 DEF Answered
  <1>3. devs' \in 0 .. MaxDeviations
    BY <1>1, <1>2, CaseUnderWay, DeviationsBounded
  <1>4. run \in Outcome /\ RunSound(Current, run)
    BY <1>1, CaseUnderWay DEF UnderWay
  <1>5. terminal[1] \in Statuses /\ terminal[2] \in Reasons /\ terminal = <<terminal[1], terminal[2]>>
    BY TerminalTyped
  <1> HIDE DEF terminal
  <1>7. /\ run' \in Outcome /\ run'.behavior = run.behavior /\ run'.calls = run.calls
        /\ run'.obs = run.obs /\ run'.vals = run.vals /\ run'.judged = run.judged
        /\ run'.first = run.first /\ run'.repairs = run.repairs
        /\ run'.structured = run.structured /\ run'.untraced = run.untraced
        /\ run'.models = m
        /\ run'.status = terminal[1] /\ run'.reason = terminal[2]
    BY <1>2, <1>4, <1>5 DEF Outcome
  <1>8. RunSound(Current, run')
    BY <1>4, <1>7, SoundWhoeverAnswered
  <1>9. <<run'.status, run'.reason>> = Terminal(Current, run')
    BY <1>5, <1>7, TerminalOfFacts DEF terminal
  <1>10. Current' = Current /\ mode' = mode
    BY <1>1 DEF Current, Fixed
  <1>11. Finished(Current, run)'
    BY <1>2, <1>7, <1>8, <1>9, <1>10 DEF Finished
  <1>12. UnderWay'
    BY <1>1, <1>7, <1>10, <1>11 DEF UnderWay, Stages
  <1> QED
    BY <1>1, <1>3, <1>12, WithinCase

LEMMA TimeOutStep == Week3Inv /\ TimeOut => Week3Inv'
  <1> SUFFICES ASSUME Week3Inv, TimeOut PROVE Week3Inv'
    OBVIOUS
  <1>1. /\ pc = "run" /\ stage # "close" /\ stage' = "close" /\ UNCHANGED Fixed
        /\ Deviate(FALSE)
    BY DEF TimeOut
  <1>2. PICK t \in {"none", "metric_lookup", "schema_lookup", "execute_sql", "profile"},
             m \in Identities, a \in BOOLEAN :
          /\ mode = "fixture" => m \in {<<>>, <<Requested>>}
          /\ run' = SafeFailure("execution_failed", "task_timeout",
                                [run EXCEPT !.untraced = t, !.models = m, !.accounted = a])
    BY DEF TimeOut
  <1> DEFINE o == [run EXCEPT !.untraced = t, !.models = m, !.accounted = a]
  <1>3. devs' \in 0 .. MaxDeviations
    BY <1>1, CaseUnderWay, DeviationsBounded
  <1>4. run \in Outcome
    BY <1>1, CaseUnderWay
  <1>5. t \in Tools \cup {"none"}
    BY DEF Tools
  <1>6. o \in Outcome /\ o.models = m
    BY <1>4, <1>5 DEF Outcome
  <1>7. "execution_failed" \in Statuses /\ "task_timeout" \in Reasons
    BY DEF Statuses, Reasons
  <1>8. run' \in Outcome /\ run'.models = m /\ run'.reason = "task_timeout"
    <2>1. run' = SafeFailure("execution_failed", "task_timeout", o)
      BY <1>2
    <2> HIDE DEF o
    <2> QED
      BY <2>1, <1>6, <1>7, FailureIsOutcome
  <1>9. mode' = mode
    BY <1>1 DEF Fixed
  <1>10. Finished(Current, run)'
    BY <1>2, <1>8, <1>9 DEF Finished, CutShort
  <1>11. UnderWay'
    BY <1>1, <1>8, <1>10 DEF UnderWay, Stages
  <1> QED
    BY <1>1, <1>3, <1>11, WithinCase

\* The executor keeps what the run was, or cuts it short.
LEMMA GovernedFinished ==
    ASSUME NEW c, NEW o, Finished(c, o)
    PROVE  Finished(c, Governed(o))
  <1>1. "internal_error" \in Statuses /\ "internal_error" \in Reasons
    BY DEF Statuses, Reasons
  <1>2. o \in Outcome
    BY DEF Finished
  <1>3. Finished(c, SafeFailure("internal_error", "internal_error", o))
    BY <1>1, <1>2, FailureIsOutcome DEF Finished, CutShort
  <1> QED
    BY <1>3 DEF Governed

\* A case that ends adds its outcome.
LEMMA CloseStep ==
    ASSUME Week3Inv, pc = "run", NEW o, NEW e \in Errors, Finished(Current, o),
           devs' \in 0 .. MaxDeviations, CloseCase(o, e)
    PROVE  Week3Inv'
  <1> DEFINE x == [outcome |-> o, error |-> e]
  <1> DEFINE n == Len(outcomes)
  <1>1. /\ outcomes' = Append(outcomes, x) /\ pc' = Next1 /\ stage' = "decide"
        /\ run' = NewOutcome /\ mode' = mode /\ cases' = cases /\ records' = records
    BY DEF CloseCase
  <1>2. o \in Outcome
    BY DEF Finished
  <1>3. x \in [outcome : Outcome, error : Errors]
    BY <1>2
  <1>4. outcomes \in Seq([outcome : Outcome, error : Errors])
    BY DEF Week3Inv, ControlInv
  <1>5. /\ outcomes' \in Seq([outcome : Outcome, error : Errors])
        /\ n \in Nat /\ Len(outcomes') = n + 1
        /\ DOMAIN outcomes = 1 .. n /\ DOMAIN outcomes' = 1 .. n + 1
        /\ outcomes'[n + 1] = x
        /\ \A i \in 1 .. n : outcomes'[i] = outcomes[i]
    <2> HIDE DEF x
    <2> QED
      BY <1>1, <1>3, <1>4, AppendIs
  <1>6. /\ Len(cases) \in Nat /\ n < Len(cases) /\ records = <<>> /\ Len(records) = 0
        /\ n + 1 \in DOMAIN cases
    BY <1>5 DEF Week3Inv, ControlInv
  <1>7. pc' \in {"run", "score"} /\ (pc' = "run" => n + 1 < Len(cases))
                                 /\ (pc' = "score" => n + 1 = Len(cases))
    BY <1>1, <1>5, <1>6 DEF Next1
  <1>8. ControlInv'
    <2>1. /\ mode' \in {"fixture", "live"} /\ cases' \in Seq(CaseIds) /\ cases' # <<>>
          /\ \A i, j \in DOMAIN cases' : cases'[i] = cases'[j] => i = j
          /\ records' = [i \in 1 .. Len(records') |-> records'[i]] /\ Len(records') \in Nat
      BY <1>1 DEF Week3Inv, ControlInv
    <2>2. /\ Len(outcomes') <= Len(cases') /\ Len(records') <= Len(outcomes')
          /\ records' = <<>> /\ Len(records') < Len(cases')
      BY <1>1, <1>5, <1>6
    <2>3. /\ pc' = "run" => Len(outcomes') < Len(cases')
          /\ pc' = "score" => Len(outcomes') = Len(cases')
      BY <1>1, <1>5, <1>7
    <2> QED
      BY <2>1, <2>2, <2>3, <1>5, <1>7 DEF ControlInv
  <1>9. pc' = "run" => UnderWay'
    <2>1. NewOutcome \in Outcome /\ \A c : RunSound(c, NewOutcome)
      BY SoundAtFirst DEF Behaviors, MaxRepairs
    <2>2. /\ NewOutcome.models = <<>>
          /\ NewOutcome = [NewOutcome EXCEPT !.structured = NewOutcome.structured]
      BY DEF NewOutcome
    <2> QED
      BY <2>1, <2>2, <1>1 DEF UnderWay, Stages
  <1>10. ASSUME NEW i \in DOMAIN outcomes'
         PROVE  Finished(cases[i], outcomes[i].outcome)'
    <2>1. CASE i = n + 1
      <3>1. outcomes'[i].outcome = o /\ cases'[i] = Current
        BY <2>1, <1>1, <1>5 DEF Current
      <3>2. Finished(Current, o)
        OBVIOUS
      <3> QED
        BY <3>1, <3>2, <1>1 DEF Finished
    <2>2. CASE i # n + 1
      <3>1. i \in 1 .. n
        BY <2>2, <1>5
      <3>2. outcomes'[i].outcome = outcomes[i].outcome /\ cases'[i] = cases[i]
        BY <3>1, <1>1, <1>5
      <3>3. Finished(cases[i], outcomes[i].outcome)
        BY <3>1, <1>5 DEF Week3Inv
      <3> QED
        BY <3>2, <3>3, <1>1 DEF Finished
    <2> QED
      BY <2>1, <2>2
  <1>11. DOMAIN records' = {}
    BY <1>1, <1>6
  <1> QED
    BY <1>8, <1>9, <1>10, <1>11 DEF Week3Inv

LEMMA CaseEndsStep == Week3Inv /\ CaseEnds => Week3Inv'
  <1> SUFFICES ASSUME Week3Inv, CaseEnds PROVE Week3Inv'
    OBVIOUS
  <1>1. pc = "run" /\ stage = "close" /\ CloseCase(Governed(run), "none") /\ devs' = devs
    BY DEF CaseEnds, Running
  <1>2. Finished(Current, run) /\ devs \in 0 .. MaxDeviations
    BY <1>1, CaseUnderWay DEF UnderWay
  <1>3. Finished(Current, Governed(run))
    BY <1>2, GovernedFinished
  <1>4. "none" \in Errors
    BY DEF Errors
  <1> QED
    BY <1>1, <1>2, <1>3, <1>4, CloseStep

LEMMA CaseFailsStep == Week3Inv /\ CaseFails => Week3Inv'
  <1> SUFFICES ASSUME Week3Inv, CaseFails PROVE Week3Inv'
    OBVIOUS
  <1> DEFINE o == [NewOutcome EXCEPT !.status = "internal_error", !.reason = "internal_error"]
  <1>1. pc = "run" /\ Deviate(FALSE)
    BY DEF CaseFails, Running
  <1>2. PICK e \in {"internal_case_failure", "case_identity_mismatch"} : CloseCase(o, e)
    BY DEF CaseFails
  <1>3. devs' \in 0 .. MaxDeviations
    BY <1>1, CaseUnderWay, DeviationsBounded
  <1>4. NewOutcome \in Outcome
    BY SoundAtFirst DEF Behaviors, MaxRepairs
  <1>5. o \in Outcome /\ o.reason = "internal_error" /\ o.models = NewOutcome.models
    BY <1>4 DEF Outcome, Statuses, Reasons
  <1>6. NewOutcome.models = <<>>
    BY DEF NewOutcome
  <1> HIDE DEF o
  <1>7. Finished(Current, o)
    BY <1>5, <1>6 DEF Finished, CutShort
  <1>8. e \in Errors
    BY DEF Errors
  <1> QED
    BY <1>1, <1>2, <1>3, <1>7, <1>8, CloseStep

LEMMA CancelledStep == Week3Inv /\ Cancelled => Week3Inv'
  <1> SUFFICES ASSUME Week3Inv, Cancelled PROVE Week3Inv'
    OBVIOUS
  <1>1. /\ pc = "run" /\ pc' = "cancelled" /\ Deviate(FALSE)
        /\ UNCHANGED <<mode, cases, stage, run, outcomes, records>>
    BY DEF Cancelled
  <1>2. devs' \in 0 .. MaxDeviations
    BY <1>1, CaseUnderWay, DeviationsBounded
  <1>3. records = <<>>
    BY <1>1 DEF Week3Inv, ControlInv
  <1>4. ControlInv'
    BY <1>1, <1>2, <1>3 DEF Week3Inv, ControlInv
  <1>5. \A i \in DOMAIN outcomes' : Finished(cases[i], outcomes[i].outcome)'
    BY <1>1 DEF Week3Inv, Finished
  <1>6. DOMAIN records' = {}
    BY <1>1, <1>3
  <1> QED
    BY <1>1, <1>4, <1>5, <1>6 DEF Week3Inv

-----------------------------------------------------------------------------
(* The report. *)

\* A scoring failure claims nothing, so its contract accepts it.
LEMMA FailureAccepted ==
    ASSUME NEW c \in CaseIds, NEW o \in Outcome, NEW m, m # Bearer, Bearer \notin RangeOf(o.models)
    PROVE  ContractAccepts(FailureRecord(c, o, m))
  <1> DEFINE r == FailureRecord(c, o, m)
  <1> DEFINE scored == Observed[c] # <<>>
  <1>1. Len(Observed[c]) \in Nat /\ (scored => Len(Observed[c]) # 0)
    BY DEF Observed, Simple, Attribution, Breakdowns, CaseIds
  <1>2. /\ r.error = "scoring_contract_failure" /\ r.failure = TRUE
        /\ r.behavior.conformant = FALSE /\ r.tool.conformant = FALSE
        /\ r.suite.available = FALSE /\ r.suite.conformant = FALSE
        /\ r.validExecutes = 0 /\ r.refs = <<>> /\ r.evidenceRefs = {}
        /\ ModelIdentifiers(r)
    BY DEF FailureRecord, Record, ModelIdentifiers
  <1>3. r.repaired # "yes" /\ r.refused # "yes"
    BY DEF FailureRecord, Record
  <1>4. /\ r.first = IF scored THEN NoCandidate ELSE NoScore
        /\ r.final = IF scored THEN NoCandidate ELSE NoScore
    BY DEF FailureRecord, Record
  <1>5. r.evidence = IF scored
                     THEN [required |-> Len(Observed[c]), verified |-> 0, sufficient |-> FALSE]
                     ELSE NoScore
    BY DEF FailureRecord, Record
  <1> HIDE DEF r
  <1>6. Derived(r.first) /\ Derived(r.final) /\ Negative(r.first) /\ Negative(r.final)
    <2>1. /\ NoCandidate.result = 0 /\ NoCandidate.strict = FALSE /\ NoCandidate.output = FALSE
          /\ NoCandidate.validated = FALSE /\ NoCandidate.executed = FALSE
      BY DEF NoCandidate
    <2>2. (NoCandidate.result = 1 /\ NoCandidate.output /\ NoCandidate.validated
             /\ NoCandidate.executed /\ ~NoCandidate.truncated) = FALSE
      BY <2>1
    <2>3. Derived(NoCandidate)
      BY <2>1, <2>2 DEF Derived
    <2>4. Negative(NoCandidate)
      BY <2>1 DEF Negative
    <2>5. Derived(NoScore) /\ Negative(NoScore)
      BY DEF Derived, Negative
    <2> QED
      BY <2>3, <2>4, <2>5, <1>4
  <1>7. r.evidence # NoScore =>
          /\ r.evidence.verified = 0 /\ r.evidence.required = Len(Observed[c])
          /\ r.evidence.sufficient = FALSE /\ scored
    BY <1>5
  <1>8. r.evidence # NoScore =>
          /\ r.evidence.verified <= r.evidence.required
          /\ r.evidence.sufficient = (r.evidence.verified = r.evidence.required)
    <2>1. SUFFICES ASSUME r.evidence # NoScore
                   PROVE  /\ r.evidence.verified <= r.evidence.required
                          /\ r.evidence.sufficient = (r.evidence.verified = r.evidence.required)
      OBVIOUS
    <2>2. (r.evidence.verified = r.evidence.required) = FALSE
      BY <1>1, <1>7, <2>1
    <2>3. r.evidence.verified <= r.evidence.required
      BY <1>1, <1>7, <2>1
    <2>4. r.evidence.sufficient = FALSE
      BY <1>7, <2>1
    <2> QED
      BY <2>2, <2>3, <2>4
  <1>9. ScoresDerived(r)
    BY <1>2, <1>6, <1>8 DEF ScoresDerived
  <1>10. FailureClaimsNothing(r)
    BY <1>2, <1>3, <1>6, <1>7 DEF FailureClaimsNothing
  <1>11. r.failure
    BY <1>2
  <1> QED
    BY <1>2, <1>9, <1>10, <1>11 DEF ContractAccepts, r

\* What both kinds of record say of their case.
LEMMA RecordFacts ==
    ASSUME NEW k, RecordOf(k)
    PROVE  /\ records[k].case = cases[k] /\ records[k].expected = ExpectedModel
           /\ records[k].models = outcomes[k].outcome.models
           /\ records[k].accounted = outcomes[k].outcome.accounted
           /\ records[k].budget.limit = MaxToolCalls(cases[k])
           /\ records[k].identified =>
                /\ records[k].models # <<>> /\ records[k].accounted
                /\ RangeOf(records[k].models) = {records[k].expected}
  <1> DEFINE o == outcomes[k].outcome
  <1> DEFINE r == records[k]
  <1>1. /\ r.case = cases[k] /\ r.expected = ExpectedModel /\ r.models = o.models
        /\ r.accounted = o.accounted
    BY DEF RecordOf, ScoredRecord, FailureRecord, Record
  <1>2. r.budget.limit = MaxToolCalls(cases[k])
    BY DEF RecordOf, ScoredRecord, FailureRecord, Record, BudgetScore
  <1>3. r.identified = (o.models # <<>> /\ o.accounted /\ RangeOf(o.models) = {ExpectedModel})
    BY DEF RecordOf, ScoredRecord, FailureRecord, Record
  <1> HIDE DEF r, o
  <1>4. r.identified => o.models # <<>> /\ o.accounted /\ RangeOf(o.models) = {ExpectedModel}
    BY <1>3
  <1> QED
    BY <1>1, <1>2, <1>4 DEF r, o

LEMMA SequenceIsFunction ==
    ASSUME NEW S, NEW s \in Seq(S)
    PROVE  s = [i \in 1 .. Len(s) |-> s[i]]
  OBVIOUS

LEMMA AppendAny ==
    ASSUME NEW s, Len(s) \in Nat, s = [i \in 1 .. Len(s) |-> s[i]], NEW x
    PROVE  /\ Len(Append(s, x)) = Len(s) + 1
           /\ Append(s, x) = [i \in 1 .. Len(s) + 1 |-> Append(s, x)[i]]
           /\ \A i \in 1 .. Len(s) : Append(s, x)[i] = s[i]
           /\ Append(s, x)[Len(s) + 1] = x
           /\ DOMAIN s = 1 .. Len(s) /\ DOMAIN Append(s, x) = 1 .. Len(s) + 1
  <1> DEFINE S == {s[i] : i \in 1 .. Len(s)} \cup {x}
  <1>1. s \in Seq(S)
    <2>1. s \in [1 .. Len(s) -> S]
      OBVIOUS
    <2> QED
      BY <2>1
  <1>2. x \in S
    OBVIOUS
  <1> HIDE DEF S
  <1>3. /\ Append(s, x) \in Seq(S) /\ Len(Append(s, x)) = Len(s) + 1
        /\ DOMAIN s = 1 .. Len(s) /\ DOMAIN Append(s, x) = 1 .. Len(s) + 1
        /\ \A i \in DOMAIN s : Append(s, x)[i] = s[i]
        /\ Append(s, x)[Len(s) + 1] = x
    BY <1>1, <1>2, AppendIs
  <1>4. Append(s, x) = [i \in 1 .. Len(Append(s, x)) |-> Append(s, x)[i]]
    BY <1>3, SequenceIsFunction
  <1>5. Append(s, x) = [i \in 1 .. Len(s) + 1 |-> Append(s, x)[i]]
    BY <1>3, <1>4
  <1> QED
    BY <1>3, <1>5

\* The model behind a run is one that the price record binds.
LEMMA ExpectedPriced == ExpectedModel \in Priced
  <1>1. CASE \E m \in Priced : ObservedModels = {m}
    <2>1. PICK m \in Priced : ObservedModels = {m}
      BY <1>1
    <2>2. ExpectedModel = CHOOSE x \in ObservedModels : TRUE
      BY <1>1 DEF ExpectedModel
    <2>3. ExpectedModel \in ObservedModels
      BY <2>1, <2>2
    <2> QED
      BY <2>1, <2>3
  <1>2. CASE ~\E m \in Priced : ObservedModels = {m}
    BY <1>2 DEF ExpectedModel, Priced
  <1> QED
    BY <1>1, <1>2

LEMMA ScoreStep == Week3Inv /\ ScoreCase => Week3Inv'
  <1> SUFFICES ASSUME Week3Inv, ScoreCase PROVE Week3Inv'
    OBVIOUS
  <1>0. PICK k \in Nat : k = Len(records) + 1
    BY DEF Week3Inv, ControlInv
  <1> DEFINE c == cases[k]
  <1> DEFINE o == outcomes[k].outcome
  <1> DEFINE scored == ScoredRecord(c, o, ExpectedModel, outcomes[k].error)
  <1> DEFINE failure == FailureRecord(c, o, ExpectedModel)
  <1> DEFINE record == IF ContractAccepts(scored) THEN scored ELSE failure
  <1>1. /\ pc = "score" /\ UNCHANGED <<mode, cases, stage, run, outcomes, devs>>
        /\ IF ContractAccepts(record)
           THEN records' = Append(records, record) /\ pc' = IF k = Len(cases) THEN "report" ELSE pc
           ELSE pc' = "lost" /\ UNCHANGED records
    BY <1>0 DEF ScoreCase
  <1>2. /\ Len(outcomes) = Len(cases) /\ Len(records) < Len(cases) /\ Len(records) \in Nat
        /\ cases \in Seq(CaseIds) /\ outcomes \in Seq([outcome : Outcome, error : Errors])
        /\ records = [i \in 1 .. Len(records) |-> records[i]]
    BY <1>1 DEF Week3Inv, ControlInv
  <1>3. k \in DOMAIN cases /\ k \in DOMAIN outcomes /\ k \in Nat /\ k <= Len(cases)
    BY <1>0, <1>2
  <1>4. c \in CaseIds /\ o \in Outcome
    BY <1>2, <1>3 DEF Week3Inv, Finished
  <1>5. ExpectedModel' = ExpectedModel /\ ObservedModels' = ObservedModels
    BY <1>1 DEF ExpectedModel, ObservedModels
  <1>6. CASE ~ContractAccepts(record)
    <2>1. pc' = "lost" /\ records' = records
      BY <1>1, <1>6
    <2>2. ~ContractAccepts(failure)
      BY <1>6
    <2>3. ExpectedModel # Bearer
      BY ExpectedPriced, BearerAssumption DEF Priced
    <2>4. Bearer \in RangeOf(o.models)
      BY <2>2, <2>3, <1>4, FailureAccepted
    <2>5. outcomes[k] \in RangeOf(outcomes)
      BY <1>3 DEF RangeOf
    <2>6. Bearer \in ObservedModels'
      BY <2>4, <2>5, <1>5 DEF ObservedModels
    <2> HIDE DEF record, scored, failure
    <2>7. ControlInv'
      BY <1>1, <1>2, <2>1, <2>6 DEF Week3Inv, ControlInv
    <2>8. \A i \in DOMAIN outcomes' : Finished(cases[i], outcomes[i].outcome)'
      BY <1>1 DEF Week3Inv, Finished
    <2>9. \A i \in DOMAIN records' : RecordOf(i)' /\ ContractAccepts(records'[i])
      BY <1>1, <1>5, <2>1 DEF Week3Inv, RecordOf
    <2> QED
      BY <2>1, <2>7, <2>8, <2>9 DEF Week3Inv
  <1>7. SUFFICES ASSUME ContractAccepts(record) PROVE Week3Inv'
    BY <1>6
  <1>8. record = scored \/ (record = failure /\ ~ContractAccepts(scored))
    OBVIOUS
  <1> HIDE DEF record
  <1>9. records' = Append(records, record) /\ pc' = IF k = Len(cases) THEN "report" ELSE "score"
    BY <1>1, <1>7
  <1>10. /\ Len(records') = k /\ records'[k] = record
        /\ records' = [i \in 1 .. Len(records') |-> records'[i]]
        /\ \A i \in 1 .. k - 1 : records'[i] = records[i]
        /\ DOMAIN records' = 1 .. k /\ DOMAIN records = 1 .. k - 1
    BY <1>0, <1>2, <1>9, AppendAny
  <1>11. ControlInv'
    <2>1. /\ mode' \in {"fixture", "live"} /\ cases' \in Seq(CaseIds) /\ cases' # <<>>
          /\ \A i, j \in DOMAIN cases' : cases'[i] = cases'[j] => i = j
          /\ devs' \in 0 .. MaxDeviations
          /\ outcomes' \in Seq([outcome : Outcome, error : Errors])
      BY <1>1 DEF Week3Inv, ControlInv
    <2>2. /\ Len(records') \in Nat /\ Len(outcomes') = Len(cases') /\ Len(records') = k
          /\ Len(outcomes') <= Len(cases') /\ Len(records') <= Len(outcomes')
      BY <1>1, <1>2, <1>3, <1>10
    <2>3. /\ pc' \in {"score", "report"}
          /\ pc' = "score" => Len(records') < Len(cases')
          /\ pc' = "report" => Len(records') = Len(cases')
      BY <1>0, <1>1, <1>2, <1>3, <1>9, <1>10
    <2> QED
      BY <2>1, <2>2, <2>3, <1>10 DEF ControlInv
  <1>12. ASSUME NEW i \in DOMAIN records'
         PROVE  RecordOf(i)' /\ ContractAccepts(records'[i])
    <2>1. CASE i = k
      <3>1. RecordOf(k)'
        BY <1>1, <1>8, <1>10, <1>5 DEF RecordOf
      <3>2. ContractAccepts(records'[k])
        BY <1>7, <1>10
      <3> QED
        BY <2>1, <3>1, <3>2
    <2>2. CASE i # k
      <3>1. i \in 1 .. k - 1 /\ i \in DOMAIN records /\ records'[i] = records[i]
        BY <2>2, <1>3, <1>10
      <3>2. RecordOf(i) /\ ContractAccepts(records[i])
        BY <3>1 DEF Week3Inv
      <3>3. RecordOf(i)'
        BY <3>1, <3>2, <1>1, <1>5 DEF RecordOf
      <3> QED
        BY <3>1, <3>2, <3>3
    <2> QED
      BY <2>1, <2>2
  <1>13. \A i \in DOMAIN outcomes' : Finished(cases[i], outcomes[i].outcome)'
    BY <1>1 DEF Week3Inv, Finished
  <1>14. pc' # "run"
    BY <1>9
  <1>15. \A i \in DOMAIN records' : RecordOf(i)' /\ ContractAccepts(records'[i])
    BY <1>12
  <1> QED
    BY <1>11, <1>13, <1>14, <1>15 DEF Week3Inv

\* Fixtures answer as the requested model only.
LEMMA FixtureRequested ==
    ASSUME Week3Inv, mode = "fixture"
    PROVE  ExpectedModel = Requested
  <1>1. ASSUME NEW x \in RangeOf(outcomes)
        PROVE  RangeOf(x.outcome.models) \subseteq {Requested}
    <2>1. PICK i \in DOMAIN outcomes : x = outcomes[i]
      BY DEF RangeOf
    <2>2. x.outcome.models \in {<<>>, <<Requested>>}
      BY <2>1 DEF Week3Inv, Finished
    <2> QED
      BY <2>2 DEF RangeOf
  <1>2. ObservedModels \subseteq {Requested}
    BY <1>1 DEF ObservedModels
  <1>3. CASE \E m \in Priced : ObservedModels = {m}
    <2>1. ObservedModels = {Requested}
      BY <1>2, <1>3
    <2>2. ExpectedModel = CHOOSE x \in ObservedModels : TRUE
      BY <1>3 DEF ExpectedModel
    <2> QED
      BY <2>1, <2>2
  <1>4. CASE ~\E m \in Priced : ObservedModels = {m}
    BY <1>4 DEF ExpectedModel
  <1> QED
    BY <1>3, <1>4

\* As many different cases as records.
LEMMA CasesCounted ==
    ASSUME Week3Inv, Len(records) = Len(cases)
    PROVE  Cardinality({r.case : r \in RangeOf(records)}) = Len(records)
  <1> DEFINE n == Len(records)
  <1> DEFINE S == {r.case : r \in RangeOf(records)}
  <1>1. /\ n \in Nat /\ DOMAIN records = 1 .. n /\ DOMAIN cases = 1 .. n
        /\ \A i, j \in 1 .. n : cases[i] = cases[j] => i = j
    BY DEF Week3Inv, ControlInv
  <1>2. \A i \in 1 .. n : records[i].case = cases[i]
    BY <1>1, RecordFacts DEF Week3Inv
  <1>3. S = {cases[i] : i \in 1 .. n}
    BY <1>1, <1>2 DEF RangeOf
  <1> DEFINE f == [i \in 1 .. n |-> cases[i]]
  <1>4. /\ f \in [1 .. n -> S]
        /\ \A i, j \in 1 .. n : f[i] = f[j] => i = j
        /\ \A s \in S : \E i \in 1 .. n : f[i] = s
    BY <1>1, <1>3
  <1> HIDE DEF S, n, f
  <1>5. IsFiniteSet(1 .. n) /\ Cardinality(1 .. n) = n
    BY <1>1, IntervalSize
  <1>7. Cardinality(S) = Cardinality(1 .. n)
    BY <1>4, <1>5, SameSize
  <1> QED
    BY <1>5, <1>7 DEF S, n

LEMMA ReportAccepted ==
    ASSUME Week3Inv, pc = "report"
    PROVE  ReportAccepts
  <1>1. /\ Len(records) = Len(cases) /\ Len(cases) \in Nat /\ Len(cases) # 0
        /\ cases \in Seq(CaseIds) /\ DOMAIN records = 1 .. Len(cases)
        /\ mode \in {"fixture", "live"}
    BY DEF Week3Inv, ControlInv
  <1>2. Cardinality({r.case : r \in RangeOf(records)}) = Len(records)
    BY <1>1, CasesCounted
  <1>3. ASSUME NEW r \in RangeOf(records)
        PROVE  /\ r.expected = ExpectedModel
               /\ r.identified => RangeOf(r.models) = {r.expected}
               /\ r.budget.limit = IF r.case = "W3K029" THEN 3 ELSE 12
    <2>1. PICK i \in DOMAIN records : r = records[i]
      BY DEF RangeOf
    <2>2. RecordOf(i)
      BY <2>1 DEF Week3Inv
    <2> QED
      BY <2>1, <2>2, RecordFacts DEF MaxToolCalls
  <1>4. {r.expected : r \in RangeOf(records)} = {ExpectedModel}
    <2>1. records[1] \in RangeOf(records)
      BY <1>1 DEF RangeOf
    <2> QED
      BY <2>1, <1>3
  <1>5. Cardinality({r.expected : r \in RangeOf(records)}) = 1
    BY <1>4, FS_Singleton
  <1>6. mode = "fixture" => \A r \in RangeOf(records) : r.expected = Requested
    BY <1>3, FixtureRequested
  <1> QED
    BY <1>2, <1>3, <1>5, <1>6 DEF ReportAccepts

LEMMA WriteStep == Week3Inv /\ WriteReport => Week3Inv'
  <1> SUFFICES ASSUME Week3Inv, WriteReport PROVE Week3Inv'
    OBVIOUS
  <1>1. /\ pc = "report" /\ pc' = "published"
        /\ UNCHANGED <<mode, cases, stage, run, outcomes, records, devs>>
    BY ReportAccepted DEF WriteReport
  <1>2. ControlInv'
    BY <1>1 DEF Week3Inv, ControlInv
  <1>3. \A i \in DOMAIN outcomes' : Finished(cases[i], outcomes[i].outcome)'
    BY <1>1 DEF Week3Inv, Finished
  <1>4. ExpectedModel' = ExpectedModel
    BY <1>1 DEF ExpectedModel, ObservedModels
  <1>5. \A k \in DOMAIN records' : RecordOf(k)' /\ ContractAccepts(records'[k])
    BY <1>1, <1>4 DEF Week3Inv, RecordOf
  <1> QED
    BY <1>1, <1>2, <1>3, <1>5 DEF Week3Inv

-----------------------------------------------------------------------------
(* The theorems. *)

LEMMA Week3Init == Init => Week3Inv
  <1> SUFFICES ASSUME Init PROVE Week3Inv
    OBVIOUS
  <1>1. PICK p \in Programmes : mode = p.mode /\ cases = p.cases
    BY DEF Init
  <1>2. /\ pc = "run" /\ stage = "decide" /\ run = NewOutcome
        /\ outcomes = <<>> /\ records = <<>> /\ devs = 0
    BY DEF Init
  <1>3. /\ mode \in {"fixture", "live"} /\ cases \in Seq(CaseIds) /\ cases # <<>>
        /\ \A i, j \in DOMAIN cases : cases[i] = cases[j] => i = j
    BY <1>1, ProgrammesAssumption
  <1>4. Len(outcomes) = 0 /\ Len(records) = 0 /\ DOMAIN outcomes = {} /\ DOMAIN records = {}
    BY <1>2
  <1>5. Len(cases) \in Nat /\ Len(cases) > 0
    BY <1>3
  <1>6. outcomes \in Seq([outcome : Outcome, error : Errors])
    BY <1>2
  <1>7. records = [i \in 1 .. Len(records) |-> records[i]]
    <2>1. records \in Seq({})
      BY <1>2
    <2> QED
      BY <2>1, SequenceIsFunction
  <1>8. ControlInv
    BY <1>2, <1>3, <1>4, <1>5, <1>6, <1>7, DeviationsAssumption DEF ControlInv
  <1>9. UnderWay
    <2>1. NewOutcome \in Outcome /\ \A c : RunSound(c, NewOutcome)
      BY SoundAtFirst DEF Behaviors, MaxRepairs
    <2>2. /\ NewOutcome.models = <<>>
          /\ NewOutcome = [NewOutcome EXCEPT !.structured = NewOutcome.structured]
      BY DEF NewOutcome
    <2> QED
      BY <2>1, <2>2, <1>2 DEF UnderWay, Stages
  <1> QED
    BY <1>4, <1>8, <1>9 DEF Week3Inv

LEMMA Week3Step == Week3Inv /\ [Next]_vars => Week3Inv'
  <1> SUFFICES ASSUME Week3Inv, [Next]_vars PROVE Week3Inv'
    OBVIOUS
  <1>1. CASE Lookup("metric_lookup", "schema_lookup") \/ Lookup("schema_lookup", "execute")
    BY <1>1, LookupStep
  <1>2. CASE \E p \in RangeOf(Attribution \o Simple), a \in Answers : Execute(p, a)
    BY <1>2, ExecuteStep
  <1>3. CASE UNCHANGED vars
    <2>1. UNCHANGED <<mode, cases, pc, stage, run, outcomes, records, devs>>
      BY <1>3 DEF vars
    <2>2. ExpectedModel' = ExpectedModel /\ ObservedModels' = ObservedModels
      BY <2>1 DEF ExpectedModel, ObservedModels
    <2>3. ControlInv' /\ (pc' = "run" => UnderWay')
      BY <2>1, <2>2 DEF Week3Inv, ControlInv, UnderWay, Current, Finished
    <2>4. \A i \in DOMAIN outcomes' : Finished(cases[i], outcomes[i].outcome)'
      BY <2>1 DEF Week3Inv, Finished
    <2>5. \A k \in DOMAIN records' : RecordOf(k)' /\ ContractAccepts(records'[k])
      BY <2>1, <2>2 DEF Week3Inv, RecordOf
    <2> QED
      BY <2>3, <2>4, <2>5 DEF Week3Inv
  <1> QED
    BY <1>1, <1>2, <1>3, RepairAnswerStep, DecideStep, ProfileStep, EndRunStep, TimeOutStep, CaseEndsStep,
       CaseFailsStep, CancelledStep, ScoreStep, WriteStep DEF Next

THEOREM Week3InvHolds == Spec => []Week3Inv
  BY Week3Init, Week3Step, PTL DEF Spec

\* Types of the control state: outcomes and records come one by one, for any
\* programme and any number of departures from the scripts.
THEOREM Week3TypesCorrect == Spec => []Week3TypeOK
  <1>1. Week3Inv => Week3TypeOK
    BY DEF Week3Inv, ControlInv, Week3TypeOK
  <1> QED
    BY <1>1, Week3InvHolds, PTL

\* Whatever the agent, a timeout, an exception or a wrong identity makes of a
\* case, the run is lost for an identity the report's ModelIdentifier refuses
\* and for nothing else: _record_scoring_failure's record claims nothing more
\* that the contract could refuse, and the records of distinct cases always
\* make a report.  With such an identity there is never a report.
THEOREM RunLostByIdentityOnly == Spec => []LostByIdentityOnly
  <1>1. ASSUME Week3Inv, pc \in {"report", "published"}
        PROVE  Bearer \notin ObservedModels
    <2>1. /\ Len(records) = Len(cases) /\ Len(outcomes) = Len(cases) /\ Len(cases) \in Nat
          /\ DOMAIN records = 1 .. Len(cases) /\ DOMAIN outcomes = 1 .. Len(cases)
      BY <1>1 DEF Week3Inv, ControlInv
    <2>2. ASSUME NEW k \in DOMAIN outcomes
          PROVE  Bearer \notin RangeOf(outcomes[k].outcome.models)
      <3>1. RecordOf(k) /\ ContractAccepts(records[k])
        BY <1>1, <2>1 DEF Week3Inv
      <3>2. Bearer \notin RangeOf(records[k].models)
        BY <3>1 DEF ContractAccepts, ModelIdentifiers
      <3> QED
        BY <3>1, <3>2, RecordFacts
    <2>3. ASSUME NEW x \in RangeOf(outcomes)
          PROVE  Bearer \notin RangeOf(x.outcome.models)
      BY <2>2 DEF RangeOf
    <2> QED
      BY <2>3 DEF ObservedModels
  <1>2. Week3Inv => (pc = "lost" => Bearer \in ObservedModels)
    BY DEF Week3Inv, ControlInv
  <1>3. Week3Inv => LostByIdentityOnly
    BY <1>1, <1>2 DEF LostByIdentityOnly
  <1> QED
    BY <1>3, Week3InvHolds, PTL

-----------------------------------------------------------------------------
(***************************************************************************)
(* What passes was deserved.                                               *)
(***************************************************************************)
Purpose(o) == [i \in DOMAIN o.obs |-> o.obs[i].purpose]
Result(o) == [i \in DOMAIN o.obs |-> o.obs[i].result]

\* The same multiset: the same members, each as often.
LEMMA MultisetGives ==
    ASSUME NEW s, NEW t, Multiset(s) = Multiset(t)
    PROVE  /\ RangeOf(s) = RangeOf(t)
           /\ \A x \in RangeOf(t) : Cardinality({i \in DOMAIN s : s[i] = x})
                                      = Cardinality({i \in DOMAIN t : t[i] = x})
  <1>1. DOMAIN Multiset(s) = RangeOf(s) /\ DOMAIN Multiset(t) = RangeOf(t)
    BY DEF Multiset
  <1>2. RangeOf(s) = RangeOf(t)
    BY <1>1
  <1>3. \A x \in RangeOf(t) : Multiset(s)[x] = Multiset(t)[x]
    OBVIOUS
  <1> QED
    BY <1>2, <1>3 DEF Multiset

\* And the other way round.
LEMMA MultisetIs ==
    ASSUME NEW s, NEW t, RangeOf(s) = RangeOf(t),
           \A x \in RangeOf(t) : Cardinality({i \in DOMAIN s : s[i] = x})
                                   = Cardinality({i \in DOMAIN t : t[i] = x})
    PROVE  Multiset(s) = Multiset(t)
  BY DEF Multiset

\* The trace and the observations ask for the same.
LEMMA TracedPurposes ==
    ASSUME NEW o \in Outcome, Traced(o)
    PROVE  /\ Multiset(Purpose(o)) = Multiset(Purposes(o.calls))
           /\ ConfirmFirst(Purposes(o.calls)) => ConfirmFirst(Purpose(o))
  <1> DEFINE n == Len(o.obs)
  <1> DEFINE s == Purpose(o)
  <1> DEFINE t == Purposes(o.calls)
  <1>1. PICK f \in [DOMAIN o.obs -> DOMAIN o.calls] : TracedBy(o, f)
    BY DEF Traced
  <1>2. o.obs \in Seq(Observation) /\ o.calls \in Seq(Trace)
    BY OutcomeParts
  <1>3. /\ n \in Nat /\ DOMAIN o.obs = 1 .. n /\ DOMAIN s = 1 .. n
        /\ DOMAIN o.calls = 1 .. Len(o.calls) /\ Len(o.calls) \in Nat
    BY <1>2 DEF Purpose
  <1>4. /\ DOMAIN t = Executes(o.calls)
        /\ Executes(o.calls) = {f[i] : i \in 1 .. n}
        /\ \A i \in 1 .. n : f[i] \in Nat /\ t[f[i]] = s[i]
        /\ \A i, j \in 1 .. n : i < j => f[i] < f[j]
    <2>1. \A i \in 1 .. n : f[i] \in Executes(o.calls)
      BY <1>1, <1>3 DEF TracedBy
    <2>2. \A i \in 1 .. n : t[f[i]] = o.calls[f[i]].purpose
      BY <2>1 DEF Purposes
    <2>3. \A i \in 1 .. n : s[i] = o.obs[i].purpose
      BY <1>3 DEF Purpose
    <2>4. \A i \in 1 .. n : o.calls[f[i]].purpose = o.obs[i].purpose /\ f[i] \in Nat
      BY <1>1, <1>3 DEF TracedBy
    <2>5. \A i, j \in 1 .. n : i < j => f[i] < f[j]
      BY <1>1, <1>3 DEF TracedBy
    <2>6. Executes(o.calls) = {f[i] : i \in 1 .. n}
      BY <1>1, <1>3 DEF TracedBy
    <2>7. DOMAIN t = Executes(o.calls)
      BY DEF Purposes
    <2> HIDE DEF n, s, t
    <2> QED
      BY <2>2, <2>3, <2>4, <2>5, <2>6, <2>7
  <1>5. \A i, j \in 1 .. n : f[i] = f[j] => i = j
    BY <1>3, <1>4
  <1> HIDE DEF n, s, t
  <1>6. RangeOf(s) = RangeOf(t)
    BY <1>3, <1>4 DEF RangeOf
  <1>7. ASSUME NEW x \in RangeOf(t)
        PROVE  Cardinality({i \in DOMAIN s : s[i] = x}) = Cardinality({i \in DOMAIN t : t[i] = x})
    <2> DEFINE S == {i \in DOMAIN s : s[i] = x}
    <2> DEFINE T == {i \in DOMAIN t : t[i] = x}
    <2> DEFINE g == [i \in S |-> f[i]]
    <2>1. IsFiniteSet(S)
      BY <1>3, IntervalSize, FS_Subset
    <2>2. g \in [S -> T]
      BY <1>3, <1>4
    <2>3. \A i, j \in S : g[i] = g[j] => i = j
      BY <1>3, <1>5
    <2>4. \A z \in T : \E i \in S : g[i] = z
      BY <1>3, <1>4
    <2> HIDE DEF S, T, g
    <2>5. Cardinality(T) = Cardinality(S)
      BY <2>1, <2>2, <2>3, <2>4, SameSize
    <2> QED
      BY <2>5 DEF S, T
  <1>8. Multiset(s) = Multiset(t)
    BY <1>6, <1>7, MultisetIs
  <1>9. ASSUME ConfirmFirst(t), "confirm_decline" \in RangeOf(s)
        PROVE  \E i \in DOMAIN s : /\ s[i] = "confirm_decline"
                                   /\ \A j \in DOMAIN s : j < i => s[j] \notin RangeOf(Breakdowns)
    <2>1. PICK k \in DOMAIN t : /\ t[k] = "confirm_decline"
                                /\ \A j \in DOMAIN t : j < k => t[j] \notin RangeOf(Breakdowns)
      BY <1>6, <1>9 DEF ConfirmFirst
    <2>2. PICK i \in 1 .. n : f[i] = k
      BY <2>1, <1>4
    <2>3. s[i] = "confirm_decline"
      BY <2>1, <2>2, <1>4
    <2>4. ASSUME NEW j \in 1 .. n, j < i PROVE s[j] \notin RangeOf(Breakdowns)
      <3>1. f[j] \in DOMAIN t /\ f[j] < k /\ t[f[j]] = s[j]
        BY <2>2, <2>4, <1>4
      <3> QED
        BY <3>1, <2>1
    <2> QED
      BY <2>3, <2>4, <1>3
  <1>10. ConfirmFirst(t) => ConfirmFirst(s)
    BY <1>9 DEF ConfirmFirst
  <1> QED
    BY <1>8, <1>10 DEF s, t

\* As often the same thing.
LEMMA AllTheSame ==
    ASSUME NEW s, NEW t, 1 \in DOMAIN t, \A i \in DOMAIN t : t[i] = t[1],
           Multiset(s) = Multiset(t)
    PROVE  /\ Cardinality(DOMAIN s) = Cardinality(DOMAIN t)
           /\ \A i \in DOMAIN s : s[i] = t[1]
  <1>1. RangeOf(t) = {t[1]}
    BY DEF RangeOf
  <1>2. RangeOf(s) = {t[1]} /\ Cardinality({i \in DOMAIN s : s[i] = t[1]})
                                 = Cardinality({i \in DOMAIN t : t[i] = t[1]})
    BY <1>1, MultisetGives
  <1>3. \A i \in DOMAIN s : s[i] = t[1]
    BY <1>2 DEF RangeOf
  <1>4. {i \in DOMAIN s : s[i] = t[1]} = DOMAIN s /\ {i \in DOMAIN t : t[i] = t[1]} = DOMAIN t
    BY <1>3
  <1> QED
    BY <1>2, <1>3, <1>4

\* Different things, once each.
LEMMA OnceEach ==
    ASSUME NEW s, NEW n \in Nat, DOMAIN s = 1 .. n, NEW t, NEW m \in Nat, DOMAIN t = 1 .. m,
           \A i, j \in 1 .. m : t[i] = t[j] => i = j, Multiset(s) = Multiset(t)
    PROVE  /\ RangeOf(s) = RangeOf(t)
           /\ \A i, j \in 1 .. n : s[i] = s[j] => i = j
  <1>1. RangeOf(s) = RangeOf(t)
    BY MultisetGives
  <1>2. ASSUME NEW i \in 1 .. n, NEW j \in 1 .. n, s[i] = s[j]
        PROVE  i = j
    <2> DEFINE S == {k \in DOMAIN s : s[k] = s[i]}
    <2>1. s[i] \in RangeOf(t)
      BY <1>1 DEF RangeOf
    <2>2. PICK l \in 1 .. m : t[l] = s[i]
      BY <2>1 DEF RangeOf
    <2>3. {k \in DOMAIN t : t[k] = s[i]} = {l}
      BY <2>2
    <2>4. Cardinality(S) = Cardinality({l})
      BY <2>1, <2>3, MultisetGives
    <2>5. Cardinality(S) = 1
      BY <2>4, FS_Singleton
    <2>6. IsFiniteSet(S)
      BY IntervalSize, FS_Subset
    <2> HIDE DEF S
    <2>7. PICK z : S = {z}
      BY <2>5, <2>6, FS_Singleton
    <2> QED
      BY <2>7, <1>2 DEF S
  <1> QED
    BY <1>1, <1>2

\* What the terminal of a run that asked says of the last query.
LEMMA TerminalSays ==
    ASSUME NEW c, NEW o \in Outcome, o.obs # <<>>, o.behavior = "execute"
    PROVE  /\ Terminal(c, o) \in {<<"completed", "answer_complete">>,
                                  <<"partial", "evidence_partial">>} =>
                o.obs[Len(o.obs)].result \in Valid
           /\ Terminal(c, o) = <<"policy_blocked", "sql_policy_rejected">> =>
                o.obs[Len(o.obs)].result = "rejected"
           /\ Terminal(c, o) = <<"execution_failed", "repair_failed">> =>
                o.obs[Len(o.obs)].result = "renamed"
  <1> DEFINE last == o.obs[Len(o.obs)].result
  <1>1. last \in Answers
    <2>1. o.obs \in Seq(Observation)
      BY OutcomeParts
    <2>2. Len(o.obs) \in DOMAIN o.obs
      BY <2>1
    <2>3. o.obs[Len(o.obs)] \in Observation
      BY <2>1, <2>2
    <2> QED
      BY <2>3 DEF Observation
  <1>2. last \in {"unvalidated", "unjudged", "failed"} =>
          Terminal(c, o) = <<"internal_error", "internal_error">>
    BY DEF Terminal
  <1>3. last = "rejected" => Terminal(c, o) = <<"policy_blocked", "sql_policy_rejected">>
    BY DEF Terminal
  <1>4. last = "renamed" => Terminal(c, o) = <<"execution_failed", "repair_failed">>
    BY DEF Terminal
  <1>5. last \in Valid => Terminal(c, o) \in {<<"completed", "answer_complete">>,
                                              <<"partial", "evidence_partial">>}
    BY DEF Terminal, Valid
  <1> QED
    BY <1>1, <1>2, <1>3, <1>4, <1>5 DEF Answers, Valid, Failed

\* A question that is scored has a score.
LEMMA FinalIsScore ==
    ASSUME NEW c, NEW o, RangeOf(Observed[c]) # {}
    PROVE  FinalScore(c, o) # NoScore
  <1> DEFINE scores == {score_candidate(o, FinalCandidate(o, p), FinalCandidate(o, p) # {})
                          : p \in RangeOf(Observed[c])}
  <1>1. scores # {} /\ FinalScore(c, o) = Combine(scores)
    BY DEF FinalScore
  <1> HIDE DEF scores
  <1> DEFINE result == IF \E s \in scores : s.result = 0 THEN 0 ELSE 1
  <1> DEFINE output == \A s \in scores : s.output
  <1> DEFINE validated == \A s \in scores : s.validated
  <1> DEFINE executed == \A s \in scores : s.executed
  <1> DEFINE truncated == \E s \in scores : s.truncated
  <1> DEFINE strict == \A s \in scores : s.result = 1 /\ s.output /\ s.validated /\ s.executed
                                            /\ ~s.truncated
  <1>2. /\ result \in {0, 1} /\ output \in BOOLEAN /\ validated \in BOOLEAN
        /\ executed \in BOOLEAN /\ truncated \in BOOLEAN /\ strict \in BOOLEAN
    OBVIOUS
  <1>3. Combine(scores) = [result |-> result, output |-> output, validated |-> validated,
                           executed |-> executed, truncated |-> truncated, strict |-> strict]
    BY <1>1 DEF Combine
  <1> HIDE DEF result, output, validated, executed, truncated, strict
  <1> QED
    BY <1>1, <1>2, <1>3, NoScoreAssumption

\* Right rows for every question: what the final score says.
LEMMA StrictSays ==
    ASSUME NEW c, NEW o \in Outcome, ValidatedOnce(o),
           FinalScore(c, o) # NoScore, FinalScore(c, o).strict, NEW p \in RangeOf(Observed[c])
    PROVE  \E i \in DOMAIN o.obs : /\ o.obs[i].purpose = p
                                   /\ o.obs[i].result \in {"right", "unjudged"}
  <1> DEFINE Score(q) == score_candidate(o, FinalCandidate(o, q), FinalCandidate(o, q) # {})
  <1> DEFINE scores == {Score(q) : q \in RangeOf(Observed[c])}
  <1>1. FinalScore(c, o) = Combine(scores)
    BY DEF FinalScore
  <1>2. Score(p) \in scores
    OBVIOUS
  <1> HIDE DEF scores
  <1>3. FinalScore(c, o).strict =
          \A s \in scores : s.result = 1 /\ s.output /\ s.validated /\ s.executed /\ ~s.truncated
    BY <1>1, <1>2 DEF Combine
  <1>4. \A s \in scores : s.result = 1 /\ s.output /\ s.validated /\ s.executed /\ ~s.truncated
    BY <1>3
  <1>5. Score(p).result = 1 /\ Score(p).executed /\ ~Score(p).truncated
    BY <1>2, <1>4
  <1>6. /\ \E i \in FinalCandidate(o, p) : Restored(o, i)
        /\ \A i \in FinalCandidate(o, p) : o.obs[i].result \notin {"wrong", "renamed"}
        /\ ~\E i \in FinalCandidate(o, p) : o.obs[i].result = "truncated"
    BY <1>5 DEF score_candidate
  <1>7. PICK i \in FinalCandidate(o, p) : Restored(o, i)
    BY <1>6
  <1>8. /\ i \in DOMAIN o.obs /\ o.obs[i].purpose = p /\ Validated(o, i)
    BY DEF FinalCandidate, Linked, Matching
  <1>9. o.obs[i].result \in Checked
    <2>1. PICK k \in DOMAIN o.vals : o.vals[k].obs = i
      BY <1>8 DEF Validated, RangeOf
    <2> QED
      BY <2>1 DEF ValidatedOnce
  <1>10. o.obs[i].result \in {"right", "unjudged"}
    BY <1>6, <1>9 DEF Checked, Valid
  <1> QED
    BY <1>8, <1>10

\* What a passing record says of its outcome.
PassFacts(c, o, expected) ==
    /\ c \in CaseIds /\ o \in Outcome
    /\ RunSound(c, o) /\ Terminal(c, o) = ExpectedTerminal[c]
    /\ <<o.status, o.reason>> = ExpectedTerminal[c]
    /\ o.behavior = ExpectedBehavior[c]
    /\ o.accounted /\ RangeOf(o.models) = {expected}
    /\ score_tool_trace(c, o.calls).forbidden
    /\ ExpectedTriples[c] # <<>> =>
         /\ Multiset(Purposes(o.calls)) = Multiset(ExpectedTriples[c])
         /\ ConfirmFirst(Purposes(o.calls))
    /\ FinalScore(c, o) # NoScore => FinalScore(c, o).strict
    /\ SuiteScore(c, o).conformant /\ o.repairs = ExpectedRepairs[c]

\* The budget's verdict, with its counts written out.
LEMMA ConformantIs ==
    ASSUME NEW c, NEW o
    PROVE  BudgetScore(c, o).conformant <=>
             /\ Len(o.calls) + (IF o.untraced = "none" THEN 0 ELSE 1) <= MaxToolCalls(c)
             /\ Counted(o, "execute_sql") <= MaxExecuteCalls
             /\ Counted(o, "profile") <= MaxProfileCalls
             /\ o.repairs + o.structured <= MaxRepairs
             /\ (o.repairs + o.structured) - o.structured = ExpectedRepairs[c]
  <1> DEFINE tools == Len(o.calls) + IF o.untraced = "none" THEN 0 ELSE 1
  <1> DEFINE executes == Counted(o, "execute_sql")
  <1> DEFINE profiles == Counted(o, "profile")
  <1> DEFINE repairs == o.repairs + o.structured
  <1> DEFINE verdict == /\ tools <= MaxToolCalls(c) /\ executes <= MaxExecuteCalls
                        /\ profiles <= MaxProfileCalls /\ repairs <= MaxRepairs
                        /\ repairs - o.structured = ExpectedRepairs[c]
  <1>1. BudgetScore(c, o).conformant = verdict
    <2>1. BudgetScore(c, o)
            = [tools |-> tools, executes |-> executes, profiles |-> profiles, repairs |-> repairs,
               limit |-> MaxToolCalls(c), conformant |-> verdict]
      BY Zenon DEF BudgetScore
    <2> HIDE DEF verdict, tools, executes, profiles, repairs
    <2> QED
      BY <2>1
  <1>2. verdict \in BOOLEAN
    OBVIOUS
  <1>3. BudgetScore(c, o).conformant <=> verdict
    <2> HIDE DEF verdict
    <2> QED
      BY <1>1, <1>2, Zenon
  <1> QED
    BY <1>3

LEMMA PassedSays ==
    ASSUME Week3Inv, NEW k \in DOMAIN records, Passed(records[k])
    PROVE  /\ outcomes[k].error = "none"
           /\ PassFacts(cases[k], outcomes[k].outcome, records[k].expected)
  <1> DEFINE c == cases[k]
  <1> DEFINE o == outcomes[k].outcome
  <1> DEFINE r == records[k]
  <1> DEFINE e == outcomes[k].error
  <1> DEFINE scored == ScoredRecord(c, o, ExpectedModel, e)
  <1>1. k \in DOMAIN cases /\ k \in DOMAIN outcomes
    BY DEF Week3Inv, ControlInv
  <1>2. c \in CaseIds /\ o \in Outcome /\ Finished(c, o)
    BY <1>1 DEF Week3Inv, ControlInv, Finished
  <1>3. r = scored
    <2>1. ~r.failure
      BY DEF Passed
    <2>2. FailureRecord(c, o, ExpectedModel).failure = TRUE
      BY DEF FailureRecord, Record
    <2>3. r \in {scored, FailureRecord(c, o, ExpectedModel)}
      BY DEF Week3Inv, RecordOf
    <2> QED
      BY <2>1, <2>2, <2>3
  <1>4. /\ r.case = c /\ r.error = e /\ r.status = o.status /\ r.reason = o.reason
        /\ r.behavior = score_behavior(c, o) /\ r.tool = score_tool_trace(c, o.calls)
        /\ r.final = FinalScore(c, o) /\ r.suite = SuiteScore(c, o)
        /\ r.budget = BudgetScore(c, o) /\ r.expected = ExpectedModel
    BY <1>3 DEF ScoredRecord, Record
  <1> HIDE DEF r, scored, e, c, o
  <1>5. e = "none" /\ <<o.status, o.reason>> = ExpectedTerminal[c]
    BY <1>4 DEF Passed, r
  <1>6. r.behavior.conformant /\ r.tool.conformant /\ r.suite.conformant
        /\ r.budget.conformant /\ r.identified
        /\ (r.final # NoScore => r.final.strict)
    BY DEF Passed, r
  <1>7. ~CutShort(o)
    BY <1>2, <1>5 DEF ExpectedTerminal, CutShort
  <1>8. RunSound(c, o) /\ Terminal(c, o) = ExpectedTerminal[c]
    BY <1>2, <1>5, <1>7 DEF Finished
  <1>9. o.behavior = ExpectedBehavior[c]
    <2>1. score_behavior(c, o).conformant
      BY <1>4, <1>6
    <2>2. /\ (IF o.behavior = "clarify_other" THEN "clarify" ELSE o.behavior) = ExpectedBehavior[c]
          /\ IF c = "W3K001" THEN o.behavior = "clarify"
             ELSE o.behavior # "clarify_other" /\ o.behavior # "clarify"
      BY <2>1 DEF score_behavior
    <2> QED
      BY <2>2
  <1>10. o.accounted /\ RangeOf(o.models) = {r.expected}
    <2>1. RecordOf(k)
      BY DEF Week3Inv
    <2>2. r.identified
      BY <1>6
    <2>3. r.accounted /\ RangeOf(r.models) = {r.expected}
      BY <2>1, <2>2, RecordFacts DEF r
    <2>4. r.models = o.models /\ r.accounted = o.accounted
      BY <2>1, RecordFacts DEF r, o
    <2> QED
      BY <2>3, <2>4
  <1>11. /\ score_tool_trace(c, o.calls).forbidden
         /\ ExpectedTriples[c] # <<>> =>
              /\ Multiset(Purposes(o.calls)) = Multiset(ExpectedTriples[c])
              /\ ConfirmFirst(Purposes(o.calls))
    <2>1. score_tool_trace(c, o.calls).conformant
      BY <1>4, <1>6
    <2> QED
      BY <2>1 DEF score_tool_trace
  <1>12. o.repairs = ExpectedRepairs[c]
    <2>1. BudgetScore(c, o).conformant
      BY <1>4, <1>6
    <2>2. (o.repairs + o.structured) - o.structured = ExpectedRepairs[c]
      BY <2>1, ConformantIs
    <2> QED
      BY <2>2, <1>2, OutcomeParts
  <1>13. PassFacts(c, o, r.expected)
    BY <1>2, <1>4, <1>5, <1>6, <1>8, <1>9, <1>10, <1>11, <1>12 DEF PassFacts
  <1> QED
    BY <1>5, <1>13 DEF r, e, c, o

LEMMA EmptyTuple == ASSUME NEW s, NEW n \in Nat, s \in [1 .. n -> Asked], n = 0 PROVE s = <<>>
  <1>1. s \in Seq(Asked) /\ Len(s) = 0
    OBVIOUS
  <1> QED
    BY <1>1

LEMMA TriplesAre ==
    /\ Simple = <<"metric_value_contract">>
    /\ RangeOf(Simple) = {"metric_value_contract"}
    /\ DOMAIN (Simple \o Simple) = 1 .. 2
    /\ RangeOf(Simple \o Simple) = {"metric_value_contract"}
    /\ (Simple \o Simple)[1] = "metric_value_contract"
    /\ (Simple \o Simple)[2] = "metric_value_contract"
    /\ DOMAIN Attribution = 1 .. 4
    /\ Attribution[1] = "confirm_decline" /\ Attribution[2] = "region_contribution"
    /\ Attribution[3] = "sku_contribution" /\ Attribution[4] = "segment_contribution"
    /\ RangeOf(Breakdowns) = {"region_contribution", "sku_contribution", "segment_contribution"}
    /\ RangeOf(Attribution) = {"confirm_decline"} \cup RangeOf(Breakdowns)
    /\ ExpectedTriples["W3K001"] = <<>> /\ ExpectedTriples["W3K011"] = Simple
    /\ ExpectedTriples["W3K026"] = Attribution /\ ExpectedTriples["W3K027"] = Simple \o Simple
    /\ ExpectedTriples["W3K028"] = Simple \o Simple
    /\ ExpectedTriples["W3K029"] = <<"confirm_decline">> /\ ExpectedTriples["W3K030"] = Simple
  <1>1. Simple = <<"metric_value_contract">> /\ RangeOf(Simple) = {"metric_value_contract"}
    BY DEF Simple, RangeOf
  <1>2. /\ DOMAIN (Simple \o Simple) = 1 .. 2
        /\ (Simple \o Simple)[1] = "metric_value_contract"
        /\ (Simple \o Simple)[2] = "metric_value_contract"
    BY DEF Simple
  <1>3. RangeOf(Simple \o Simple) = {"metric_value_contract"}
    BY <1>2 DEF RangeOf
  <1>4. /\ DOMAIN Attribution = 1 .. 4
        /\ Attribution[1] = "confirm_decline" /\ Attribution[2] = "region_contribution"
        /\ Attribution[3] = "sku_contribution" /\ Attribution[4] = "segment_contribution"
    BY DEF Attribution, Breakdowns
  <1>5. RangeOf(Breakdowns) = {"region_contribution", "sku_contribution", "segment_contribution"}
    <2>1. DOMAIN Breakdowns = 1 .. 3
      BY DEF Breakdowns
    <2> QED
      BY <2>1 DEF Breakdowns, RangeOf
  <1>7. RangeOf(Attribution) = {"confirm_decline"} \cup RangeOf(Breakdowns)
    <2>1. RangeOf(Attribution) = {Attribution[1], Attribution[2], Attribution[3], Attribution[4]}
      BY <1>4 DEF RangeOf
    <2> QED
      BY <2>1, <1>4, <1>5
  <1>6. /\ ExpectedTriples["W3K001"] = <<>> /\ ExpectedTriples["W3K011"] = Simple
        /\ ExpectedTriples["W3K026"] = Attribution /\ ExpectedTriples["W3K027"] = Simple \o Simple
        /\ ExpectedTriples["W3K028"] = Simple \o Simple
        /\ ExpectedTriples["W3K029"] = <<"confirm_decline">> /\ ExpectedTriples["W3K030"] = Simple
    BY DEF ExpectedTriples, Observed, Suite, CaseIds
  <1> QED
    BY <1>1, <1>2, <1>3, <1>4, <1>5, <1>6, <1>7

\* A sequence of questions that is, as a multiset, what the protocol expects.
LEMMA QuestionsAsExpected ==
    ASSUME NEW c \in CaseIds \ {"W3K001"}, NEW n \in Nat, NEW s, DOMAIN s = 1 .. n,
           Multiset(s) = Multiset(ExpectedTriples[c]), ConfirmFirst(s)
    PROVE  /\ n > 0 /\ s[1] = ExpectedTriples[c][1]
           /\ c \in {"W3K011", "W3K029", "W3K030"} => n = 1
           /\ c \in {"W3K027", "W3K028"} => n = 2
           /\ c \in {"W3K011", "W3K026"} =>
                /\ \A i \in 1 .. n : s[i] \in RangeOf(Observed[c])
                /\ \A i, j \in 1 .. n : s[i] = s[j] => i = j
  <1>1. /\ Observed["W3K011"] = Simple /\ Observed["W3K026"] = Attribution
    BY DEF Observed, CaseIds
  <1>3. CASE c \in {"W3K011", "W3K030"}
    <2>1. /\ Multiset(s) = Multiset(Simple) /\ DOMAIN Simple = 1 .. 1
          /\ RangeOf(Simple) = {"metric_value_contract"} /\ Simple[1] = "metric_value_contract"
      BY <1>3, TriplesAre
    <2>4. 1 \in DOMAIN Simple /\ \A i \in DOMAIN Simple : Simple[i] = Simple[1]
      BY <2>1
    <2>5. /\ Cardinality(1 .. n) = Cardinality(1 .. 1)
          /\ \A i \in 1 .. n : s[i] = "metric_value_contract"
      BY <2>1, <2>4, AllTheSame
    <2>6. 1 \in Nat
      OBVIOUS
    <2>2. n = 1 /\ \A i \in 1 .. n : s[i] = "metric_value_contract"
      BY <2>5, <2>6, IntervalSize
    <2>3. ExpectedTriples[c][1] = "metric_value_contract"
      BY <1>3, TriplesAre
    <2> QED
      BY <2>1, <2>2, <2>3, <1>3, <1>1
  <1>4. CASE c \in {"W3K027", "W3K028"}
    <2> DEFINE t == Simple \o Simple
    <2>1. /\ Multiset(s) = Multiset(t) /\ DOMAIN t = 1 .. 2
          /\ t[1] = "metric_value_contract" /\ t[2] = "metric_value_contract"
      BY <1>4, TriplesAre
    <2>4. 1 \in DOMAIN t /\ \A i \in DOMAIN t : t[i] = t[1]
      BY <2>1
    <2>3. ExpectedTriples[c][1] = "metric_value_contract"
      BY <1>4, TriplesAre
    <2> HIDE DEF t
    <2>5. /\ Cardinality(1 .. n) = Cardinality(1 .. 2)
          /\ \A i \in 1 .. n : s[i] = "metric_value_contract"
      BY <2>1, <2>4, AllTheSame
    <2>6. 2 \in Nat
      OBVIOUS
    <2>2. n = 2 /\ \A i \in 1 .. n : s[i] = "metric_value_contract"
      BY <2>5, <2>6, IntervalSize
    <2> QED
      BY <2>2, <2>3, <1>4
  <1>5. CASE c = "W3K029"
    <2> DEFINE t == <<"confirm_decline">>
    <2>1. /\ Multiset(s) = Multiset(t) /\ DOMAIN t = 1 .. 1
          /\ t[1] = "confirm_decline"
      BY <1>5, TriplesAre
    <2>4. 1 \in DOMAIN t /\ \A i \in DOMAIN t : t[i] = t[1]
      BY <2>1
    <2>3. ExpectedTriples[c][1] = "confirm_decline"
      BY <1>5, TriplesAre
    <2> HIDE DEF t
    <2>5. /\ Cardinality(1 .. n) = Cardinality(1 .. 1)
          /\ \A i \in 1 .. n : s[i] = "confirm_decline"
      BY <2>1, <2>4, AllTheSame
    <2>6. 1 \in Nat
      OBVIOUS
    <2>2. n = 1 /\ \A i \in 1 .. n : s[i] = "confirm_decline"
      BY <2>5, <2>6, IntervalSize
    <2> QED
      BY <2>2, <2>3, <1>5
  <1>6. CASE c = "W3K026"
    <2>1. Multiset(s) = Multiset(Attribution) /\ DOMAIN Attribution = 1 .. 4 /\ 4 \in Nat
      BY <1>6, TriplesAre
    <2>2. \A i, j \in 1 .. 4 : Attribution[i] = Attribution[j] => i = j
      BY TriplesAre
    <2>3. RangeOf(s) = RangeOf(Attribution) /\ \A i, j \in 1 .. n : s[i] = s[j] => i = j
      BY <2>1, <2>2, OnceEach
    <2>4. RangeOf(Attribution) = {"confirm_decline"} \cup RangeOf(Breakdowns)
      BY TriplesAre
    <2>5. PICK i \in 1 .. n : /\ s[i] = "confirm_decline"
                              /\ \A j \in 1 .. n : j < i => s[j] \notin RangeOf(Breakdowns)
      BY <2>3, <2>4 DEF ConfirmFirst
    <2>6. \A j \in 1 .. n : s[j] \in RangeOf(Attribution)
      BY <2>3 DEF RangeOf
    <2>7. 1 \in 1 .. n /\ s[1] = "confirm_decline"
      BY <2>4, <2>5, <2>6
    <2>8. ExpectedTriples[c][1] = "confirm_decline"
      BY <1>6, TriplesAre
    <2> QED
      BY <2>3, <2>6, <2>7, <2>8, <1>1, <1>6
  <1> QED
    BY <1>3, <1>4, <1>5, <1>6 DEF CaseIds

\* What was asked for is what the protocol expects.
LEMMA AskedAsExpected ==
    ASSUME NEW c \in CaseIds, NEW o \in Outcome, RunSound(c, o),
           o.behavior = ExpectedBehavior[c],
           ExpectedTriples[c] # <<>> =>
             /\ Multiset(Purposes(o.calls)) = Multiset(ExpectedTriples[c])
             /\ ConfirmFirst(Purposes(o.calls))
    PROVE  /\ Multiset(Purpose(o)) = Multiset(ExpectedTriples[c])
           /\ Purpose(o) # <<>> => Purpose(o)[1] = ExpectedTriples[c][1]
           /\ c # "W3K001" => Len(o.obs) > 0
           /\ c \in {"W3K011", "W3K029", "W3K030"} => Len(o.obs) = 1
           /\ c \in {"W3K027", "W3K028"} => Len(o.obs) = 2
           /\ c \in {"W3K011", "W3K026"} =>
                /\ \A i \in DOMAIN o.obs : o.obs[i].purpose \in RangeOf(Observed[c])
                /\ \A i, j \in DOMAIN o.obs : o.obs[i].purpose = o.obs[j].purpose => i = j
  <1> DEFINE n == Len(o.obs)
  <1> DEFINE s == Purpose(o)
  <1>1. o.obs \in Seq(Observation) /\ n \in Nat /\ DOMAIN o.obs = 1 .. n
    BY OutcomeParts
  <1>2. s \in [1 .. n -> Asked] /\ DOMAIN s = 1 .. n
    <2>1. \A i \in 1 .. n : o.obs[i] \in Observation
      BY <1>1
    <2>2. \A i \in 1 .. n : o.obs[i].purpose \in Asked
      BY <2>1 DEF Observation
    <2> HIDE DEF n
    <2> QED
      BY <2>2, <1>1 DEF Purpose
  <1>6. \A i \in 1 .. n : s[i] = o.obs[i].purpose
    BY <1>1 DEF Purpose
  <1>3. /\ Multiset(s) = Multiset(Purposes(o.calls))
        /\ ConfirmFirst(Purposes(o.calls)) => ConfirmFirst(s)
    BY TracedPurposes DEF RunSound
  <1>4. CASE c = "W3K001"
    <2>1. o.behavior = "clarify"
      BY <1>4 DEF ExpectedBehavior
    <2>2. o.calls = <<>>
      BY <2>1 DEF RunSound
    <2>3. o.obs = <<>>
      BY <2>2 DEF RunSound, Prepared
    <2>4. n = 0
      BY <2>3
    <2> HIDE DEF n, s
    <2>5. s = <<>>
      BY <2>4, <1>1, <1>2, EmptyTuple
    <2> QED
      BY <2>5, <1>4, TriplesAre DEF s
  <1>5. CASE c # "W3K001"
    <2>1. ExpectedTriples[c] # <<>>
      <3>1. DOMAIN Simple = 1 .. 1 /\ DOMAIN <<"confirm_decline">> = 1 .. 1
        BY TriplesAre
      <3>2. DOMAIN ExpectedTriples[c] \in {1 .. 1, 1 .. 2, 1 .. 4}
        BY <1>5, <3>1, TriplesAre DEF CaseIds
      <3>3. 1 \in DOMAIN ExpectedTriples[c]
        BY <3>2
      <3>4. 1 \notin DOMAIN <<>>
        OBVIOUS
      <3> QED
        BY <3>3, <3>4
    <2>2. Multiset(s) = Multiset(ExpectedTriples[c]) /\ ConfirmFirst(s)
      BY <2>1, <1>3
    <2>4. c \in CaseIds \ {"W3K001"}
      BY <1>5
    <2> HIDE DEF n, s
    <2>3. /\ n > 0 /\ s[1] = ExpectedTriples[c][1]
          /\ c \in {"W3K011", "W3K029", "W3K030"} => n = 1
          /\ c \in {"W3K027", "W3K028"} => n = 2
          /\ c \in {"W3K011", "W3K026"} =>
               /\ \A i \in 1 .. n : s[i] \in RangeOf(Observed[c])
               /\ \A i, j \in 1 .. n : s[i] = s[j] => i = j
      BY <2>2, <2>4, <1>1, <1>2, QuestionsAsExpected
    <2> QED
      BY <2>2, <2>3, <1>1, <1>5, <1>6 DEF s, n
  <1> QED
    BY <1>4, <1>5

\* The expected terminal says how the last query went.
LEMMA LastAsExpected ==
    ASSUME NEW c \in CaseIds, NEW o \in Outcome, Len(o.obs) > 0, c # "W3K001",
           Terminal(c, o) = ExpectedTerminal[c], o.behavior = ExpectedBehavior[c]
    PROVE  /\ c \in {"W3K011", "W3K026", "W3K027", "W3K029"} =>
                o.obs[Len(o.obs)].result \in Valid
           /\ c = "W3K028" => o.obs[Len(o.obs)].result = "renamed"
           /\ c = "W3K030" => o.obs[Len(o.obs)].result = "rejected"
  <1>1. o.behavior = "execute"
    BY DEF ExpectedBehavior
  <1>2. o.obs # <<>>
    OBVIOUS
  <1>3. /\ c \in {"W3K011", "W3K026", "W3K027"} =>
             ExpectedTerminal[c] = <<"completed", "answer_complete">>
        /\ c = "W3K028" => ExpectedTerminal[c] = <<"execution_failed", "repair_failed">>
        /\ c = "W3K029" => ExpectedTerminal[c] = <<"partial", "evidence_partial">>
        /\ c = "W3K030" => ExpectedTerminal[c] = <<"policy_blocked", "sql_policy_rejected">>
    BY DEF ExpectedTerminal, CaseIds
  <1>4. /\ Terminal(c, o) \in {<<"completed", "answer_complete">>,
                               <<"partial", "evidence_partial">>} =>
             o.obs[Len(o.obs)].result \in Valid
        /\ Terminal(c, o) = <<"policy_blocked", "sql_policy_rejected">> =>
             o.obs[Len(o.obs)].result = "rejected"
        /\ Terminal(c, o) = <<"execution_failed", "repair_failed">> =>
             o.obs[Len(o.obs)].result = "renamed"
    BY <1>1, <1>2, TerminalSays
  <1> QED
    BY <1>3, <1>4

\* Each question of a scored case was asked once, and got the right rows.
LEMMA RightRows ==
    ASSUME NEW c \in {"W3K011", "W3K026"}, NEW o \in Outcome, RunSound(c, o), Len(o.obs) > 0,
           o.obs[Len(o.obs)].result \in Valid,
           FinalScore(c, o) # NoScore => FinalScore(c, o).strict,
           \A i \in DOMAIN o.obs : o.obs[i].purpose \in RangeOf(Observed[c]),
           \A i, j \in DOMAIN o.obs : o.obs[i].purpose = o.obs[j].purpose => i = j
    PROVE  \A i \in DOMAIN o.obs : o.obs[i].result = "right"
  <1>1. o.obs \in Seq(Observation) /\ DOMAIN o.obs = 1 .. Len(o.obs) /\ Len(o.obs) \in Nat
    BY OutcomeParts
  <1>2. FinalScore(c, o) # NoScore
    <2>1. 1 \in DOMAIN o.obs
      BY <1>1
    <2>2. o.obs[1].purpose \in RangeOf(Observed[c])
      BY <2>1
    <2>3. RangeOf(Observed[c]) # {}
      BY <2>2
    <2> QED
      BY <2>3, FinalIsScore
  <1>3. FinalScore(c, o).strict /\ ValidatedOnce(o)
    BY <1>2 DEF RunSound
  <1>4. ASSUME NEW i \in DOMAIN o.obs
        PROVE  o.obs[i].result = "right"
    <2>1. o.obs[i].purpose \in RangeOf(Observed[c])
      OBVIOUS
    <2>2. PICK j \in DOMAIN o.obs : /\ o.obs[j].purpose = o.obs[i].purpose
                                    /\ o.obs[j].result \in {"right", "unjudged"}
      <3> DEFINE p == o.obs[i].purpose
      <3>1. p \in RangeOf(Observed[c])
        BY <2>1
      <3> HIDE DEF p
      <3>2. \E j \in DOMAIN o.obs : /\ o.obs[j].purpose = p
                                    /\ o.obs[j].result \in {"right", "unjudged"}
        BY <3>1, <1>2, <1>3, StrictSays
      <3> QED
        BY <3>2 DEF p
    <2>3. j = i
      BY <2>2
    <2>4. i < Len(o.obs) => o.obs[i].result \in Continued
      BY DEF RunSound
    <2>5. i = Len(o.obs) \/ i < Len(o.obs)
      BY <1>1
    <2> QED
      BY <2>2, <2>3, <2>4, <2>5 DEF Continued, Valid
  <1> QED
    BY <1>4

\* A repair case begins with columns that break the contract.
LEMMA RenamedFirst ==
    ASSUME NEW c \in {"W3K027", "W3K028"}, NEW o \in Outcome, RunSound(c, o), Len(o.obs) > 0,
           SuiteScore(c, o).conformant
    PROVE  o.obs[1].result = "renamed"
  <1>1. Suite[c] = "repair"
    BY DEF Suite, CaseIds
  <1>2. PICK one, three : SuiteScore(c, o) =
          Suited(<<one, \E v \in RangeOf(o.vals) : v.obs = o.first /\ ~v.valid, three>>)
    BY <1>1 DEF SuiteScore
  <1>3. \E v \in RangeOf(o.vals) : v.obs = o.first /\ ~v.valid
    <2> DEFINE two == \E v \in RangeOf(o.vals) : v.obs = o.first /\ ~v.valid
    <2> DEFINE checks == <<one, two, three>>
    <2>1. SuiteScore(c, o) = Suited(checks)
      BY <1>2
    <2> HIDE DEF two
    <2>2. 2 \in DOMAIN checks /\ checks[2] = two
      OBVIOUS
    <2> HIDE DEF checks
    <2>4. \A i \in DOMAIN checks : checks[i]
      BY <2>1 DEF Suited
    <2>3. checks[2]
      BY <2>2, <2>4
    <2> QED
      BY <2>2, <2>3 DEF two
  <1>4. PICK k \in DOMAIN o.vals : o.vals[k].obs = o.first /\ ~o.vals[k].valid
    BY <1>3 DEF RangeOf
  <1>5. ValidatedOnce(o) /\ o.obs # <<>>
    BY DEF RunSound
  <1>6. o.first = 1
    BY <1>5 DEF RunSound
  <1>7. o.vals[k].valid = (o.obs[o.vals[k].obs].result # "renamed")
    BY <1>4, <1>5 DEF ValidatedOnce
  <1> QED
    BY <1>4, <1>6, <1>7

LEMMA ResultIs ==
    ASSUME NEW o \in Outcome
    PROVE  /\ Result(o) \in Seq(Answers) /\ Len(Result(o)) = Len(o.obs)
           /\ DOMAIN Result(o) = DOMAIN o.obs
           /\ \A i \in DOMAIN o.obs : Result(o)[i] = o.obs[i].result
  <1> DEFINE n == Len(o.obs)
  <1>1. o.obs \in Seq(Observation) /\ n \in Nat /\ DOMAIN o.obs = 1 .. n
    BY OutcomeParts
  <1>2. \A i \in 1 .. n : o.obs[i] \in Observation
    BY <1>1
  <1>3. \A i \in 1 .. n : o.obs[i].result \in Answers
    BY <1>2 DEF Observation
  <1> HIDE DEF n
  <1>4. Result(o) = [i \in 1 .. n |-> o.obs[i].result]
    BY <1>1 DEF Result
  <1>5. Result(o) \in Seq(Answers) /\ Len(Result(o)) = n
    BY <1>1, <1>3, <1>4
  <1> QED
    BY <1>1, <1>4, <1>5 DEF n

\* A tool that is not in the trace was not called.
LEMMA NotCalled ==
    ASSUME NEW calls, NEW t, t \notin RangeOf(Names(calls))
    PROVE  CallsOf(calls, t) = 0
  <1>1. {i \in DOMAIN calls : calls[i].tool = t} = {}
    BY DEF Names, RangeOf
  <1> QED
    BY <1>1, FS_EmptySet DEF CallsOf

\* What a passing record says makes its outcome deserved.
LEMMA DeservedIfFacts ==
    ASSUME NEW c, NEW o, NEW expected, PassFacts(c, o, expected)
    PROVE  Deserved(c, o, expected)
  <1> c \in CaseIds /\ o \in Outcome /\ RunSound(c, o) /\ o.behavior = ExpectedBehavior[c]
    BY DEF PassFacts
  <1> USE DEF PassFacts
  <1>1. /\ Multiset(Purpose(o)) = Multiset(ExpectedTriples[c])
        /\ Purpose(o) # <<>> => Purpose(o)[1] = ExpectedTriples[c][1]
        /\ c # "W3K001" => Len(o.obs) > 0
        /\ c \in {"W3K011", "W3K029", "W3K030"} => Len(o.obs) = 1
        /\ c \in {"W3K027", "W3K028"} => Len(o.obs) = 2
        /\ c \in {"W3K011", "W3K026"} =>
             /\ \A i \in DOMAIN o.obs : o.obs[i].purpose \in RangeOf(Observed[c])
             /\ \A i, j \in DOMAIN o.obs : o.obs[i].purpose = o.obs[j].purpose => i = j
    BY AskedAsExpected
  <1>2. c # "W3K001" =>
          /\ c \in {"W3K011", "W3K026", "W3K027", "W3K029"} => o.obs[Len(o.obs)].result \in Valid
          /\ c = "W3K028" => o.obs[Len(o.obs)].result = "renamed"
          /\ c = "W3K030" => o.obs[Len(o.obs)].result = "rejected"
    BY <1>1, LastAsExpected
  <1>3. /\ Result(o) \in Seq(Answers) /\ Len(Result(o)) = Len(o.obs)
        /\ DOMAIN Result(o) = DOMAIN o.obs
        /\ \A i \in DOMAIN o.obs : Result(o)[i] = o.obs[i].result
    BY ResultIs
  <1>4. o.obs \in Seq(Observation) /\ DOMAIN o.obs = 1 .. Len(o.obs) /\ Len(o.obs) \in Nat
    BY OutcomeParts
  <1>5. c \in {"W3K011", "W3K026"} => o.repairs = 0 /\ RangeOf(Result(o)) = {"right"}
    <2> SUFFICES ASSUME c \in {"W3K011", "W3K026"}
                 PROVE  o.repairs = 0 /\ RangeOf(Result(o)) = {"right"}
      OBVIOUS
    <2>1. o.repairs = 0
      BY DEF ExpectedRepairs, Suite, CaseIds
    <2>2. \A i \in DOMAIN o.obs : o.obs[i].result = "right"
      BY <1>1, <1>2, RightRows
    <2>3. 1 \in DOMAIN o.obs
      BY <1>1, <1>4
    <2> QED
      BY <2>1, <2>2, <2>3, <1>3 DEF RangeOf
  <1>6. c \in {"W3K027", "W3K028"} => Result(o)[1] = "renamed"
    <2>1. c \in {"W3K027", "W3K028"} => 1 \in DOMAIN o.obs /\ Result(o)[1] = o.obs[1].result
      BY <1>1, <1>3, <1>4
    <2> QED
      BY <2>1, <1>1, RenamedFirst
  <1>14. c \in {"W3K027", "W3K028"} =>
           Len(Result(o)) = 2 /\ Result(o)[2] = o.obs[Len(o.obs)].result
    <2>1. c \in {"W3K027", "W3K028"} => Len(o.obs) = 2
      BY <1>1
    <2>2. Len(o.obs) = 2 => 2 \in DOMAIN o.obs
      BY <1>4
    <2>3. Len(o.obs) = 2 => Result(o)[2] = o.obs[2].result
      BY <2>2, <1>3
    <2> QED
      BY <2>1, <2>3, <1>3
  <1>7. c = "W3K027" => Len(Result(o)) = 2 /\ Result(o)[2] \in Valid
    BY <1>2, <1>14
  <1>8. c = "W3K028" => Result(o) = <<"renamed", "renamed">>
    <2>1. c = "W3K028" => Len(Result(o)) = 2 /\ Result(o)[2] = "renamed"
      BY <1>2, <1>14
    <2> QED
      BY <2>1, <1>3, <1>6
  <1>9. c = "W3K029" => Len(Result(o)) = 1 /\ Result(o)[1] \in Valid /\ o.repairs = 0
    <2>1. c = "W3K029" => o.repairs = 0
      BY DEF ExpectedRepairs, Suite, CaseIds
    <2>2. c = "W3K029" => Len(Result(o)) = 1 /\ Result(o)[1] \in Valid
      BY <1>1, <1>2, <1>3, <1>4
    <2> QED
      BY <2>1, <2>2
  <1>10. c = "W3K030" => Result(o) = <<"rejected">>
    <2>1. c = "W3K030" => Len(Result(o)) = 1 /\ Result(o)[1] = "rejected"
      BY <1>1, <1>2, <1>3, <1>4
    <2> QED
      BY <2>1, <1>3
  <1>11. c = "W3K030" => ~(CallsOf(o.calls, "profile") > 0)
    <2>1. c = "W3K030" => "profile" \notin RangeOf(Names(o.calls))
      BY DEF score_tool_trace, ForbiddenTools
    <2>2. c = "W3K030" => CallsOf(o.calls, "profile") = 0
      BY <2>1, NotCalled
    <2> QED
      BY <2>2
  <1>12. o.untraced = "none"
    BY DEF RunSound
  <1>13. c = "W3K030" => o.structured = 0
    <2> SUFFICES ASSUME c = "W3K030" PROVE o.structured = 0
      OBVIOUS
    <2>1. SuiteScore(c, o).conformant /\ Suite[c] = "policy"
      BY DEF Suite
    <2>2. \E check : /\ SuiteScore(c, o) = Suited(<<check>>)
                     /\ check => o.repairs + o.structured = 0
      BY <2>1 DEF SuiteScore
    <2>3. o.repairs + o.structured = 0
      BY <2>1, <2>2 DEF Suited
    <2> QED
      BY <2>3, OutcomeParts
  <1> QED
    BY <1>1, <1>5, <1>6, <1>7, <1>8, <1>9, <1>10, <1>11, <1>12, <1>13
       DEF CaseIds, Deserved, Result, Purpose

LEMMA PassedDeserved == Week3Inv => PassedIsDeserved
  <1> SUFFICES ASSUME Week3Inv PROVE PassedIsDeserved
    OBVIOUS
  <1>1. ASSUME NEW i \in DOMAIN records, Passed(records[i])
        PROVE  /\ outcomes[i].error = "none"
               /\ Deserved(cases[i], outcomes[i].outcome, records[i].expected)
    BY <1>1, PassedSays, DeservedIfFacts
  <1>2. ASSUME pc = "published", \A r \in RangeOf(records) : Passed(r)
        PROVE  \E m \in Priced : \A i \in DOMAIN outcomes : RangeOf(outcomes[i].outcome.models) = {m}
    <2>1. DOMAIN outcomes = DOMAIN records
      BY <1>2 DEF Week3Inv, ControlInv
    <2>2. ASSUME NEW i \in DOMAIN outcomes
          PROVE  RangeOf(outcomes[i].outcome.models) = {ExpectedModel}
      <3>1. i \in DOMAIN records /\ Passed(records[i])
        BY <2>1, <1>2 DEF RangeOf
      <3>2. RecordOf(i)
        BY <3>1 DEF Week3Inv
      <3>3. records[i].identified
        BY <3>1 DEF Passed
      <3> QED
        BY <3>2, <3>3, RecordFacts
    <2> QED
      BY <2>2, ExpectedPriced
  <1> QED
    BY <1>1, <1>2 DEF PassedIsDeserved

\* PassedIsDeserved of the runs: whatever the agent does, a case passes only
\* with the terminal, the questions, the results and the one priced identity
\* that the protocol asks for, and a run passes only if one priced model
\* answered all of it (models.py, Week3CaseResult.passed; scorers.py).
THEOREM PassedWasDeserved == Spec => []PassedIsDeserved
  <1>1. Week3Inv => PassedIsDeserved
    BY PassedDeserved
  <1> QED
    BY <1>1, Week3InvHolds, PTL

-----------------------------------------------------------------------------
(* The converse: what deserves to pass does. *)

\* The trace confirms the decline first if the observations do.
LEMMA TracedConfirm ==
    ASSUME NEW o \in Outcome, Traced(o), ConfirmFirst(Purpose(o))
    PROVE  ConfirmFirst(Purposes(o.calls))
  <1> DEFINE n == Len(o.obs)
  <1> DEFINE s == Purpose(o)
  <1> DEFINE t == Purposes(o.calls)
  <1>1. PICK f \in [DOMAIN o.obs -> DOMAIN o.calls] : TracedBy(o, f)
    BY DEF Traced
  <1>2. o.obs \in Seq(Observation) /\ o.calls \in Seq(Trace)
    BY OutcomeParts
  <1>3. n \in Nat /\ DOMAIN o.obs = 1 .. n /\ DOMAIN s = 1 .. n
    BY <1>2 DEF Purpose
  <1>4. \A i \in 1 .. n : f[i] \in Executes(o.calls) /\ o.calls[f[i]].purpose = o.obs[i].purpose
    BY <1>1, <1>3 DEF TracedBy
  <1>5. \A i \in 1 .. n : f[i] \in Nat
    BY <1>2, <1>3
  <1>6. Executes(o.calls) = {f[i] : i \in 1 .. n} /\ \A i, j \in 1 .. n : i < j => f[i] < f[j]
    BY <1>1, <1>3 DEF TracedBy
  <1>7. DOMAIN t = Executes(o.calls) /\ \A i \in 1 .. n : t[f[i]] = s[i]
    <2>1. \A i \in 1 .. n : t[f[i]] = o.calls[f[i]].purpose
      BY <1>4 DEF Purposes
    <2>2. \A i \in 1 .. n : s[i] = o.obs[i].purpose
      BY <1>3 DEF Purpose
    <2> QED
      BY <2>1, <2>2, <1>4 DEF Purposes
  <1>8. ConfirmFirst(s)
    OBVIOUS
  <1> HIDE DEF n, s, t
  <1>9. ASSUME "confirm_decline" \in RangeOf(t)
        PROVE  \E k \in DOMAIN t : /\ t[k] = "confirm_decline"
                                   /\ \A j \in DOMAIN t : j < k => t[j] \notin RangeOf(Breakdowns)
    <2>1. "confirm_decline" \in RangeOf(s)
      BY <1>9, <1>3, <1>6, <1>7 DEF RangeOf
    <2>2. PICK i \in 1 .. n : /\ s[i] = "confirm_decline"
                              /\ \A j \in 1 .. n : j < i => s[j] \notin RangeOf(Breakdowns)
      BY <2>1, <1>3, <1>8 DEF ConfirmFirst
    <2>3. f[i] \in DOMAIN t /\ t[f[i]] = "confirm_decline"
      BY <2>2, <1>4, <1>7
    <2>4. ASSUME NEW k \in DOMAIN t, k < f[i] PROVE t[k] \notin RangeOf(Breakdowns)
      <3>1. PICK j \in 1 .. n : f[j] = k
        BY <1>6, <1>7
      <3>2. j < i
        BY <3>1, <2>4, <1>3, <1>5, <1>6
      <3> QED
        BY <3>1, <3>2, <2>2, <1>7
    <2> QED
      BY <2>3, <2>4
  <1> QED
    BY <1>9 DEF ConfirmFirst, t

\* The queries of the trace and the observations, matched by what they asked
\* and what they got.
LEMMA TracedPairs ==
    ASSUME NEW o \in Outcome, Traced(o)
    PROVE  \E f \in [DOMAIN o.obs -> Executes(o.calls)] :
             /\ \A i, j \in DOMAIN o.obs : f[i] = f[j] => i = j
             /\ \A z \in Executes(o.calls) : \E i \in DOMAIN o.obs : f[i] = z
             /\ \A i \in DOMAIN o.obs : /\ o.calls[f[i]].purpose = o.obs[i].purpose
                                        /\ o.calls[f[i]].result = o.obs[i].result
  <1>1. PICK f \in [DOMAIN o.obs -> DOMAIN o.calls] : TracedBy(o, f)
    BY DEF Traced
  <1>2. o.obs \in Seq(Observation) /\ o.calls \in Seq(Trace)
    BY OutcomeParts
  <1> DEFINE n == Len(o.obs)
  <1>3. n \in Nat /\ DOMAIN o.obs = 1 .. n /\ \A i \in 1 .. n : f[i] \in Nat
    BY <1>2
  <1>4. /\ Executes(o.calls) = {f[i] : i \in DOMAIN o.obs}
        /\ \A i, j \in DOMAIN o.obs : i < j => f[i] < f[j]
        /\ \A i \in DOMAIN o.obs : /\ o.calls[f[i]].purpose = o.obs[i].purpose
                                   /\ o.calls[f[i]].result = o.obs[i].result
    BY <1>1 DEF TracedBy
  <1>5. f \in [DOMAIN o.obs -> Executes(o.calls)]
    BY <1>4
  <1>6. \A i, j \in DOMAIN o.obs : f[i] = f[j] => i = j
    BY <1>3, <1>4
  <1> QED
    BY <1>4, <1>5, <1>6

\* As many queries of a kind are traced as are observed.
LEMMA TracedCount ==
    ASSUME NEW o \in Outcome, Traced(o), NEW K
    PROVE  /\ IsFiniteSet({i \in DOMAIN o.obs : <<o.obs[i].purpose, o.obs[i].result>> \in K})
           /\ Cardinality({i \in Executes(o.calls) : <<o.calls[i].purpose, o.calls[i].result>> \in K})
                = Cardinality({i \in DOMAIN o.obs : <<o.obs[i].purpose, o.obs[i].result>> \in K})
  <1> DEFINE S == {i \in DOMAIN o.obs : <<o.obs[i].purpose, o.obs[i].result>> \in K}
  <1> DEFINE T == {i \in Executes(o.calls) : <<o.calls[i].purpose, o.calls[i].result>> \in K}
  <1>1. PICK f \in [DOMAIN o.obs -> Executes(o.calls)] :
             /\ \A i, j \in DOMAIN o.obs : f[i] = f[j] => i = j
             /\ \A z \in Executes(o.calls) : \E i \in DOMAIN o.obs : f[i] = z
             /\ \A i \in DOMAIN o.obs : /\ o.calls[f[i]].purpose = o.obs[i].purpose
                                        /\ o.calls[f[i]].result = o.obs[i].result
    BY TracedPairs
  <1>2. o.obs \in Seq(Observation) /\ DOMAIN o.obs = 1 .. Len(o.obs) /\ Len(o.obs) \in Nat
    BY OutcomeParts
  <1>3. IsFiniteSet(S)
    BY <1>2, IntervalSize, FS_Subset
  <1> DEFINE g == [i \in S |-> f[i]]
  <1>4. g \in [S -> T]
    BY <1>1
  <1>5. \A i, j \in S : g[i] = g[j] => i = j
    BY <1>1
  <1>6. \A z \in T : \E i \in S : g[i] = z
    BY <1>1
  <1> HIDE DEF S, T, g
  <1>7. Cardinality(T) = Cardinality(S)
    BY <1>3, <1>4, <1>5, <1>6, SameSize
  <1> QED
    BY <1>3, <1>7 DEF S, T

\* Two functions with paired arguments of the same values are one multiset.
LEMMA MultisetByPairs ==
    ASSUME NEW s, NEW t, IsFiniteSet(DOMAIN s), NEW f \in [DOMAIN s -> DOMAIN t],
           \A i, j \in DOMAIN s : f[i] = f[j] => i = j,
           \A z \in DOMAIN t : \E i \in DOMAIN s : f[i] = z,
           \A i \in DOMAIN s : t[f[i]] = s[i]
    PROVE  Multiset(s) = Multiset(t)
  <1>1. RangeOf(s) = RangeOf(t)
    BY DEF RangeOf
  <1>2. ASSUME NEW x \in RangeOf(t)
        PROVE  Cardinality({i \in DOMAIN s : s[i] = x}) = Cardinality({i \in DOMAIN t : t[i] = x})
    <2> DEFINE S == {i \in DOMAIN s : s[i] = x}
    <2> DEFINE T == {i \in DOMAIN t : t[i] = x}
    <2> DEFINE g == [i \in S |-> f[i]]
    <2>1. IsFiniteSet(S)
      BY FS_Subset
    <2>2. g \in [S -> T]
      OBVIOUS
    <2>3. \A i, j \in S : g[i] = g[j] => i = j
      OBVIOUS
    <2>4. \A z \in T : \E i \in S : g[i] = z
      OBVIOUS
    <2> HIDE DEF S, T, g
    <2>5. Cardinality(T) = Cardinality(S)
      BY <2>1, <2>2, <2>3, <2>4, SameSize
    <2> QED
      BY <2>5 DEF S, T
  <1> QED
    BY <1>1, <1>2, MultisetIs

\* The successful queries as observed.
ObservedQueries(o) ==
    [i \in {i \in DOMAIN o.obs : Restored(o, i)} |-> <<o.obs[i].purpose, o.obs[i].result>>]

LEMMA CompletedAsObserved ==
    ASSUME NEW o \in Outcome, Traced(o)
    PROVE  Multiset(ObservedQueries(o)) = Multiset(CompletedQueries(o.calls))
  <1> DEFINE s == ObservedQueries(o)
  <1> DEFINE t == CompletedQueries(o.calls)
  <1> DEFINE S == {i \in DOMAIN o.obs : Restored(o, i)}
  <1> DEFINE T == {i \in Executes(o.calls) : o.calls[i].result \notin Failed}
  <1>1. PICK f \in [DOMAIN o.obs -> Executes(o.calls)] :
             /\ \A i, j \in DOMAIN o.obs : f[i] = f[j] => i = j
             /\ \A z \in Executes(o.calls) : \E i \in DOMAIN o.obs : f[i] = z
             /\ \A i \in DOMAIN o.obs : /\ o.calls[f[i]].purpose = o.obs[i].purpose
                                        /\ o.calls[f[i]].result = o.obs[i].result
    BY TracedPairs
  <1>2. o.obs \in Seq(Observation) /\ DOMAIN o.obs = 1 .. Len(o.obs) /\ Len(o.obs) \in Nat
    BY OutcomeParts
  <1>3. DOMAIN s = S /\ \A i \in S : s[i] = <<o.obs[i].purpose, o.obs[i].result>>
    BY DEF ObservedQueries
  <1>4. DOMAIN t = T /\ \A i \in T : t[i] = <<o.calls[i].purpose, o.calls[i].result>>
    BY DEF CompletedQueries
  <1>5. IsFiniteSet(S)
    BY <1>2, IntervalSize, FS_Subset
  <1> DEFINE g == [i \in S |-> f[i]]
  <1>6. \A i \in S : f[i] \in T
    BY <1>1 DEF Restored
  <1>7. \A i, j \in S : g[i] = g[j] => i = j
    BY <1>1
  <1>8. \A z \in T : \E i \in S : g[i] = z
    BY <1>1 DEF Restored
  <1>9. \A i \in S : g[i] = f[i]
    OBVIOUS
  <1>10. g \in [S -> T]
    BY <1>6
  <1>11. \A i \in S : i \in DOMAIN o.obs
    OBVIOUS
  <1> HIDE DEF s, t, S, T, g
  <1>12. \A i \in S : t[g[i]] = s[i]
    BY <1>1, <1>3, <1>4, <1>6, <1>9, <1>11
  <1>13. Multiset(s) = Multiset(t)
    BY <1>3, <1>4, <1>5, <1>7, <1>8, <1>10, <1>12, MultisetByPairs
  <1> QED
    BY <1>13 DEF s, t

\* Unless a query was left unvalidated, the validations are of the successful
\* queries, once each.
Seen(o) == \A i \in DOMAIN o.obs : o.obs[i].result # "unvalidated"

LEMMA CheckedIfSeen ==
    ASSUME NEW o \in Outcome, Seen(o), NEW i \in DOMAIN o.obs
    PROVE  Restored(o, i) <=> o.obs[i].result \in Checked
  <1>1. o.obs \in Seq(Observation)
    BY OutcomeParts
  <1>2. o.obs[i] \in Observation
    BY <1>1
  <1>3. o.obs[i].result \in Answers
    BY <1>2 DEF Observation
  <1> QED
    BY <1>3 DEF Seen, Restored, Checked, Answers, Valid, Failed

LEMMA ValidatedObs ==
    ASSUME NEW o \in Outcome, ValidatedOnce(o), Seen(o)
    PROVE  {v.obs : v \in RangeOf(o.vals)} = {i \in DOMAIN o.obs : Restored(o, i)}
  <1>1. \A k \in DOMAIN o.vals : o.vals[k].obs \in DOMAIN o.obs /\ Restored(o, o.vals[k].obs)
    BY CheckedIfSeen DEF ValidatedOnce
  <1>2. \A i \in DOMAIN o.obs : Restored(o, i) => \E k \in DOMAIN o.vals : o.vals[k].obs = i
    BY CheckedIfSeen DEF ValidatedOnce
  <1> QED
    BY <1>1, <1>2 DEF RangeOf

LEMMA BijectiveIfSeen ==
    ASSUME NEW o \in Outcome, Traced(o), ValidatedOnce(o), Seen(o)
    PROVE  Bijective(o)
  BY CompletedAsObserved, ValidatedObs DEF Bijective, ObservedQueries

\* Validations are of different observations.
LEMMA ValidationsDiffer ==
    ASSUME NEW o \in Outcome, ValidatedOnce(o)
    PROVE  /\ DOMAIN o.vals = 1 .. Len(o.vals) /\ Len(o.vals) \in Nat
           /\ \A k, l \in DOMAIN o.vals : o.vals[k].obs = o.vals[l].obs => k = l
  <1>1. o.vals \in Seq(Validation)
    BY OutcomeParts
  <1>2. DOMAIN o.vals = 1 .. Len(o.vals) /\ Len(o.vals) \in Nat
    BY <1>1
  <1>3. \A k \in DOMAIN o.vals : o.vals[k] \in Validation
    BY <1>1
  <1>4. \A k \in DOMAIN o.vals : o.vals[k].obs \in Nat
    BY <1>3 DEF Validation
  <1>5. \A k, l \in DOMAIN o.vals : k < l => o.vals[k].obs < o.vals[l].obs
    BY DEF ValidatedOnce
  <1> QED
    BY <1>2, <1>4, <1>5

\* The validation refs of a record: as many, and of the same queries.
LEMMA RefsAsObserved ==
    ASSUME NEW o \in Outcome, ValidatedOnce(o), Seen(o), NEW refs, refs = ValidationRefs(o)
    PROVE  Multiset([k \in DOMAIN refs |-> <<refs[k].purpose, refs[k].result>>])
             = Multiset(ObservedQueries(o))
  <1> DEFINE s == [k \in DOMAIN refs |-> <<refs[k].purpose, refs[k].result>>]
  <1> DEFINE t == ObservedQueries(o)
  <1> DEFINE f == [k \in DOMAIN o.vals |-> o.vals[k].obs]
  <1>1. DOMAIN refs = DOMAIN o.vals
    BY DEF ValidationRefs
  <1>2. \A k \in DOMAIN o.vals : s[k] = <<o.obs[f[k]].purpose, o.obs[f[k]].result>>
    BY DEF ValidationRefs
  <1>3. DOMAIN t = {i \in DOMAIN o.obs : Restored(o, i)}
        /\ \A i \in DOMAIN t : t[i] = <<o.obs[i].purpose, o.obs[i].result>>
    BY DEF ObservedQueries
  <1>4. \A k \in DOMAIN o.vals : f[k] \in DOMAIN t
    BY <1>3, CheckedIfSeen DEF ValidatedOnce
  <1>5. \A z \in DOMAIN t : \E k \in DOMAIN o.vals : f[k] = z
    BY <1>3, CheckedIfSeen DEF ValidatedOnce
  <1>6. \A k, l \in DOMAIN o.vals : f[k] = f[l] => k = l
    BY ValidationsDiffer
  <1>7. IsFiniteSet(DOMAIN o.vals)
    BY ValidationsDiffer, IntervalSize
  <1>8. f \in [DOMAIN o.vals -> DOMAIN t]
    BY <1>4
  <1>9. DOMAIN s = DOMAIN o.vals
    BY <1>1
  <1> HIDE DEF s, t, f
  <1>10. \A k \in DOMAIN s : t[f[k]] = s[k]
    BY <1>2, <1>3, <1>4, <1>9
  <1>11. Multiset(s) = Multiset(t)
    BY <1>5, <1>6, <1>7, <1>8, <1>9, <1>10, MultisetByPairs
  <1> QED
    BY <1>11 DEF s, t

\* What an outcome that deserves to pass looks like, in detail.
Fair(c, o) ==
    /\ c \in CaseIds /\ o \in Outcome /\ RunSound(c, o)
    /\ <<o.status, o.reason>> = ExpectedTerminal[c] /\ o.behavior = ExpectedBehavior[c]
    /\ o.untraced = "none" /\ o.accounted /\ o.repairs = ExpectedRepairs[c]
    /\ Multiset(Purposes(o.calls)) = Multiset(ExpectedTriples[c])
    /\ ConfirmFirst(Purposes(o.calls))
    /\ Seen(o)
    /\ c = "W3K001" => o.calls = <<>> /\ o.obs = <<>>
    /\ c # "W3K001" => Len(o.obs) > 0
    /\ c \in {"W3K011", "W3K029", "W3K030"} => Len(o.obs) = 1
    /\ c \in {"W3K027", "W3K028"} => Len(o.obs) = 2
    /\ {o.obs[i].purpose : i \in DOMAIN o.obs} = RangeOf(ExpectedTriples[c])
    /\ c \notin {"W3K027", "W3K028"} =>
         \A i, j \in DOMAIN o.obs : o.obs[i].purpose = o.obs[j].purpose => i = j
    /\ c \in {"W3K011", "W3K026"} => \A i \in DOMAIN o.obs : o.obs[i].result = "right"
    /\ c \in {"W3K027", "W3K028"} => o.obs[1].result = "renamed"
    /\ c = "W3K027" => o.obs[2].result \in Valid
    /\ c = "W3K028" => o.obs[2].result = "renamed"
    /\ c = "W3K029" => o.obs[1].result \in Valid
    /\ c = "W3K030" => /\ o.obs[1].result = "rejected" /\ o.structured = 0
                       /\ "profile" \notin RangeOf(Names(o.calls))

LEMMA DeservedConfirms ==
    ASSUME NEW c \in CaseIds, NEW o \in Outcome, NEW expected, Deserved(c, o, expected)
    PROVE  /\ Multiset(Purpose(o)) = Multiset(ExpectedTriples[c])
           /\ RangeOf(Purpose(o)) = RangeOf(ExpectedTriples[c])
           /\ ConfirmFirst(Purpose(o))
  <1> DEFINE s == Purpose(o)
  <1>1. Multiset(s) = Multiset(ExpectedTriples[c])
    BY DEF Deserved, Purpose
  <1>2. s # <<>> => s[1] = ExpectedTriples[c][1]
    BY DEF Deserved, Purpose
  <1>3. DOMAIN s = 1 .. Len(o.obs) /\ Len(o.obs) \in Nat
    <2>1. o.obs \in Seq(Observation)
      BY OutcomeParts
    <2> QED
      BY <2>1 DEF Purpose
  <1> HIDE DEF s
  <1>4. RangeOf(s) = RangeOf(ExpectedTriples[c])
    BY <1>1, MultisetGives
  <1>5. ASSUME "confirm_decline" \in RangeOf(s)
        PROVE  \E i \in DOMAIN s : /\ s[i] = "confirm_decline"
                                   /\ \A j \in DOMAIN s : j < i => s[j] \notin RangeOf(Breakdowns)
    <2>1. PICK k \in DOMAIN s : s[k] = "confirm_decline"
      BY <1>5 DEF RangeOf
    <2>2. 1 \in DOMAIN s /\ \A j \in DOMAIN s : ~(j < 1)
      BY <2>1, <1>3
    <2>3. s # <<>>
      BY <2>1
    <2>4. c \in {"W3K026", "W3K029"}
      <3>1. RangeOf(ExpectedTriples["W3K001"]) = {}
        BY TriplesAre DEF RangeOf
      <3>2. \A d \in {"W3K011", "W3K027", "W3K028", "W3K030"} :
              RangeOf(ExpectedTriples[d]) = {"metric_value_contract"}
        BY TriplesAre
      <3>3. "confirm_decline" \in RangeOf(ExpectedTriples[c])
        BY <1>4, <1>5
      <3> QED
        BY <3>1, <3>2, <3>3 DEF CaseIds
    <2>5. ExpectedTriples[c][1] = "confirm_decline"
      BY <2>4, TriplesAre
    <2> QED
      BY <2>2, <2>3, <2>5, <1>2
  <1>6. ConfirmFirst(s)
    BY <1>5 DEF ConfirmFirst
  <1> QED
    BY <1>1, <1>4, <1>6 DEF s

\* The results that a deserving outcome has.
LEMMA DeservedResults ==
    ASSUME NEW c \in CaseIds, NEW o \in Outcome, NEW expected, Deserved(c, o, expected),
           c \in {"W3K027", "W3K028"} => Len(o.obs) = 2,
           c \in {"W3K029", "W3K030"} => Len(o.obs) = 1
    PROVE  /\ c \in {"W3K011", "W3K026"} => \A i \in DOMAIN o.obs : o.obs[i].result = "right"
           /\ c \in {"W3K027", "W3K028"} => o.obs[1].result = "renamed"
           /\ c = "W3K027" => o.obs[2].result \in Valid
           /\ c = "W3K028" => o.obs[2].result = "renamed"
           /\ c = "W3K029" => o.obs[1].result \in Valid
           /\ c = "W3K030" => o.obs[1].result = "rejected" /\ ~(CallsOf(o.calls, "profile") > 0)
           /\ c \in {"W3K011", "W3K026", "W3K029"} => o.repairs = 0
  <1> DEFINE s == Result(o)
  <1>1. /\ DOMAIN s = DOMAIN o.obs /\ Len(s) = Len(o.obs) /\ s \in Seq(Answers)
        /\ \A i \in DOMAIN o.obs : s[i] = o.obs[i].result
    BY ResultIs
  <1>2. DOMAIN o.obs = 1 .. Len(o.obs) /\ Len(o.obs) \in Nat
    <2>1. o.obs \in Seq(Observation)
      BY OutcomeParts
    <2> QED
      BY <2>1
  <1>3. CASE c = "W3K001"
    BY <1>3
  <1>4. CASE c \in {"W3K011", "W3K026"}
    <2>1. o.repairs = 0 /\ RangeOf(s) = {"right"}
      BY <1>4 DEF Deserved, Result
    <2> QED
      BY <2>1, <1>1, <1>4 DEF RangeOf
  <1>5. CASE c = "W3K027"
    <2>1. s[1] = "renamed" /\ s[2] \in Valid
      BY <1>5 DEF Deserved, Result
    <2>2. 1 \in DOMAIN o.obs /\ 2 \in DOMAIN o.obs
      BY <1>2, <1>5
    <2> QED
      BY <2>1, <2>2, <1>1, <1>5
  <1>6. CASE c = "W3K028"
    <2>1. s = <<"renamed", "renamed">>
      BY <1>6 DEF Deserved, Result
    <2>2. 1 \in DOMAIN o.obs /\ 2 \in DOMAIN o.obs
      BY <1>2, <1>6
    <2> QED
      BY <2>1, <2>2, <1>1, <1>6
  <1>7. CASE c = "W3K029"
    <2>1. s[1] \in Valid /\ o.repairs = 0
      BY <1>7 DEF Deserved, Result
    <2>3. Len(o.obs) = 1
      BY <1>7
    <2>2. 1 \in DOMAIN o.obs
      BY <2>3, <1>2
    <2> QED
      BY <2>1, <2>2, <1>1, <1>7
  <1>8. CASE c = "W3K030"
    <2>1. s = <<"rejected">> /\ ~(CallsOf(o.calls, "profile") > 0)
      BY <1>8 DEF Deserved, Result
    <2>3. Len(o.obs) = 1
      BY <1>8
    <2>2. 1 \in DOMAIN o.obs
      BY <2>3, <1>2
    <2> QED
      BY <2>1, <2>2, <1>1, <1>8
  <1> QED
    BY <1>3, <1>4, <1>5, <1>6, <1>7, <1>8 DEF CaseIds

LEMMA CalledSo ==
    ASSUME NEW calls \in Seq(Trace), NEW t, ~(CallsOf(calls, t) > 0)
    PROVE  t \notin RangeOf(Names(calls))
  <1> DEFINE S == {i \in DOMAIN calls : calls[i].tool = t}
  <1>1. DOMAIN calls = 1 .. Len(calls) /\ Len(calls) \in Nat
    OBVIOUS
  <1>2. IsFiniteSet(S)
    BY <1>1, IntervalSize, FS_Subset
  <1>3. Cardinality(S) \in Nat /\ ~(Cardinality(S) > 0)
    BY <1>2, FS_CardinalityType DEF CallsOf
  <1> HIDE DEF S
  <1>4. Cardinality(S) = 0
    BY <1>3
  <1>5. S = {}
    BY <1>2, <1>4, FS_EmptySet
  <1> QED
    BY <1>5 DEF S, Names, RangeOf

LEMMA DeservedIsFair ==
    ASSUME NEW c \in CaseIds, NEW o, NEW expected, Finished(c, o), Deserved(c, o, expected)
    PROVE  Fair(c, o)
  <1>1. o \in Outcome /\ <<o.status, o.reason>> = ExpectedTerminal[c]
        /\ o.behavior = ExpectedBehavior[c] /\ o.untraced = "none" /\ o.accounted
    BY DEF Finished, Deserved
  <1>2. ~CutShort(o)
    BY <1>1 DEF ExpectedTerminal, CutShort
  <1>3. RunSound(c, o)
    BY <1>2 DEF Finished
  <1>4. /\ Multiset(Purpose(o)) = Multiset(ExpectedTriples[c])
        /\ RangeOf(Purpose(o)) = RangeOf(ExpectedTriples[c])
        /\ ConfirmFirst(Purpose(o))
    BY <1>1, DeservedConfirms
  <1>5. Multiset(Purpose(o)) = Multiset(Purposes(o.calls))
    BY <1>1, <1>3, TracedPurposes DEF RunSound
  <1>6. ConfirmFirst(Purposes(o.calls))
    BY <1>1, <1>3, <1>4, TracedConfirm DEF RunSound
  <1>7. /\ c # "W3K001" => Len(o.obs) > 0
        /\ c \in {"W3K011", "W3K029", "W3K030"} => Len(o.obs) = 1
        /\ c \in {"W3K027", "W3K028"} => Len(o.obs) = 2
        /\ c \in {"W3K011", "W3K026"} =>
             \A i, j \in DOMAIN o.obs : o.obs[i].purpose = o.obs[j].purpose => i = j
    BY <1>1, <1>3, <1>4, <1>5, <1>6, AskedAsExpected
  <1>8. /\ c \in {"W3K011", "W3K026"} => \A i \in DOMAIN o.obs : o.obs[i].result = "right"
        /\ c \in {"W3K027", "W3K028"} => o.obs[1].result = "renamed"
        /\ c = "W3K027" => o.obs[2].result \in Valid
        /\ c = "W3K028" => o.obs[2].result = "renamed"
        /\ c = "W3K029" => o.obs[1].result \in Valid
        /\ c = "W3K030" => o.obs[1].result = "rejected" /\ ~(CallsOf(o.calls, "profile") > 0)
        /\ c \in {"W3K011", "W3K026", "W3K029"} => o.repairs = 0
    BY <1>1, <1>7, DeservedResults
  <1>17. c = "W3K030" => o.structured = 0
    BY DEF Deserved
  <1>9. o.obs \in Seq(Observation) /\ o.calls \in Seq(Trace)
        /\ DOMAIN o.obs = 1 .. Len(o.obs) /\ Len(o.obs) \in Nat
    BY <1>1, OutcomeParts
  <1>10. c = "W3K001" => o.calls = <<>> /\ o.obs = <<>>
    <2>1. c = "W3K001" => o.behavior = "clarify"
      BY <1>1 DEF ExpectedBehavior
    <2>2. c = "W3K001" => o.calls = <<>>
      BY <2>1, <1>3 DEF RunSound
    <2> QED
      BY <2>2, <1>3 DEF RunSound, Prepared
  <1>11. c = "W3K030" => "profile" \notin RangeOf(Names(o.calls))
    BY <1>8, <1>9, CalledSo
  <1>12. {o.obs[i].purpose : i \in DOMAIN o.obs} = RangeOf(ExpectedTriples[c])
    BY <1>4 DEF Purpose, RangeOf
  <1>13. c \notin {"W3K027", "W3K028"} =>
           \A i, j \in DOMAIN o.obs : o.obs[i].purpose = o.obs[j].purpose => i = j
    <2>1. CASE c \in {"W3K029", "W3K030"}
      <3>1. Len(o.obs) = 1
        BY <2>1, <1>7
      <3> QED
        BY <3>1, <1>9
    <2>2. CASE c = "W3K001"
      BY <2>2, <1>10
    <2> QED
      BY <2>1, <2>2, <1>7 DEF CaseIds
  <1>14. \A i \in DOMAIN o.obs :
           /\ o.obs[i].result # "unvalidated"
           /\ c \notin {"W3K027", "W3K028"} => o.obs[i].result # "renamed"
    <2>1. CASE c \in {"W3K011", "W3K026"}
      BY <2>1, <1>8
    <2>2. CASE c \in {"W3K027", "W3K028"}
      <3>1. Len(o.obs) = 2
        BY <2>2, <1>7
      <3>2. DOMAIN o.obs = {1, 2}
        BY <3>1, <1>9
      <3> QED
        BY <2>2, <3>2, <1>8 DEF Valid
    <2>3. CASE c \in {"W3K029", "W3K030"}
      <3>1. Len(o.obs) = 1
        BY <2>3, <1>7
      <3>2. DOMAIN o.obs = {1}
        BY <3>1, <1>9
      <3> QED
        BY <2>3, <3>2, <1>8 DEF Valid
    <2>4. CASE c = "W3K001"
      BY <2>4, <1>10
    <2> QED
      BY <2>1, <2>2, <2>3, <2>4 DEF CaseIds
  <1>15. o.repairs = ExpectedRepairs[c]
    <2>1. ExpectedRepairs[c] = IF c \in {"W3K027", "W3K028"} THEN 1 ELSE 0
      BY DEF ExpectedRepairs, Suite, CaseIds
    <2>2. o.repairs = IF o.structured = 0 /\ \E i \in DOMAIN o.obs : o.obs[i].result = "renamed"
                      THEN 1 ELSE 0
      BY <1>3 DEF RunSound, RepairsShared
    <2>3. CASE c \in {"W3K027", "W3K028"}
      <3>1. Len(o.obs) = 2
        BY <2>3, <1>7
      <3>2. 1 \in DOMAIN o.obs /\ 1 < Len(o.obs)
        BY <3>1, <1>9
      <3>3. o.obs[1].result = "renamed"
        BY <2>3, <1>8
      <3>4. o.structured = 0
        BY <3>2, <3>3, <1>3 DEF RunSound, RepairsShared
      <3> QED
        BY <2>1, <2>2, <2>3, <3>2, <3>3, <3>4
    <2>4. CASE c \notin {"W3K027", "W3K028"}
      BY <2>1, <2>2, <2>4, <1>14
    <2> QED
      BY <2>3, <2>4
  <1>16. Seen(o)
    BY <1>14 DEF Seen
  <1> QED
    BY <1>1, <1>3, <1>4, <1>5, <1>6, <1>7, <1>8, <1>10, <1>11, <1>12, <1>13, <1>15, <1>16, <1>17
       DEF Fair

LEMMA OneElement ==
    ASSUME NEW S, NEW s \in Seq(S), Len(s) = 1 PROVE s = <<s[1]>>
  OBVIOUS

\* The contract's list of questions is the runner's.
LEMMA SameTriples == \A c \in CaseIds : SafeTriples[c] = ExpectedTriples[c]
  <1>1. SubSeq(Attribution, 1, 1) = <<"confirm_decline">>
    <2>1. Attribution \in Seq(Asked)
      BY DEF Attribution, Breakdowns, Asked
    <2>2. /\ SubSeq(Attribution, 1, 1) \in Seq(Asked) /\ Len(SubSeq(Attribution, 1, 1)) = 1
          /\ SubSeq(Attribution, 1, 1)[1] = Attribution[1]
      <3>1. Len(Attribution) = 4
        <4>1. DOMAIN Attribution = 1 .. 4
          BY TriplesAre
        <4> QED
          BY <2>1, <4>1
      <3> QED
        BY <2>1, <3>1
    <2>3. Attribution[1] = "confirm_decline"
      BY TriplesAre
    <2> DEFINE s == SubSeq(Attribution, 1, 1)
    <2>4. s \in Seq(Asked) /\ Len(s) = 1 /\ s[1] = "confirm_decline"
      BY <2>2, <2>3
    <2> HIDE DEF s
    <2>5. s = <<s[1]>>
      BY <2>4, OneElement
    <2> QED
      BY <2>4, <2>5 DEF s
  <1>2. /\ SafeTriples["W3K001"] = <<>> /\ SafeTriples["W3K011"] = Simple
        /\ SafeTriples["W3K026"] = Attribution /\ SafeTriples["W3K027"] = Simple \o Simple
        /\ SafeTriples["W3K028"] = Simple \o Simple
        /\ SafeTriples["W3K029"] = SubSeq(Attribution, 1, 1) /\ SafeTriples["W3K030"] = Simple
    BY DEF SafeTriples, CaseIds
  <1> QED
    BY <1>1, <1>2, TriplesAre DEF CaseIds

\* A run that asked looked everything up before.
LEMMA ToolsInOrder ==
    ASSUME NEW o \in Outcome, Prepared(o.calls), Traced(o), Len(o.obs) > 0
    PROVE  /\ {"metric_lookup", "schema_lookup", "execute_sql"} \subseteq RangeOf(Names(o.calls))
           /\ Before(o.calls, "metric_lookup", "schema_lookup")
           /\ Before(o.calls, "schema_lookup", "execute_sql")
  <1> DEFINE calls == o.calls
  <1>1. calls \in Seq(Trace) /\ DOMAIN calls = 1 .. Len(calls) /\ Len(calls) \in Nat
        /\ DOMAIN o.obs = 1 .. Len(o.obs) /\ Len(o.obs) \in Nat
    BY OutcomeParts
  <1>2. PICK f \in [DOMAIN o.obs -> Executes(calls)] : TRUE
    BY TracedPairs
  <1>3. 1 \in DOMAIN o.obs
    BY <1>1
  <1>4. f[1] \in DOMAIN calls /\ calls[f[1]].tool = "execute_sql"
    BY <1>2, <1>3 DEF Executes
  <1>5. /\ Len(calls) >= 2
        /\ calls[1].tool = "metric_lookup" /\ calls[2].tool = "schema_lookup"
    BY DEF Prepared
  <1> HIDE DEF calls
  <1>6. 1 \in DOMAIN calls /\ 2 \in DOMAIN calls
    BY <1>1, <1>5
  <1>7. /\ DOMAIN Names(calls) = DOMAIN calls
        /\ \A i \in DOMAIN calls : Names(calls)[i] = calls[i].tool
    BY DEF Names
  <1>8. {"metric_lookup", "schema_lookup", "execute_sql"} \subseteq RangeOf(Names(calls))
    BY <1>4, <1>5, <1>6, <1>7 DEF RangeOf
  <1>9. Before(calls, "metric_lookup", "schema_lookup")
    <2>1. \A j \in DOMAIN calls : calls[j].tool = "schema_lookup" => 1 < j
      BY <1>1, <1>5
    <2> QED
      BY <2>1, <1>5, <1>6 DEF Before
  <1>10. Before(calls, "schema_lookup", "execute_sql")
    <2>1. \A j \in DOMAIN calls : calls[j].tool = "execute_sql" => 2 < j
      BY <1>1, <1>5
    <2> QED
      BY <2>1, <1>5, <1>6 DEF Before
  <1> QED
    BY <1>8, <1>9, <1>10 DEF calls

LEMMA NoCalls ==
    ASSUME NEW calls, calls = <<>>
    PROVE  /\ RangeOf(Names(calls)) = {} /\ Executes(calls) = {} /\ Len(calls) = 0
           /\ \A t : CallsOf(calls, t) = 0
  <1>1. DOMAIN calls = {} /\ Len(calls) = 0
    OBVIOUS
  <1>2. RangeOf(Names(calls)) = {} /\ Executes(calls) = {}
    BY <1>1 DEF RangeOf, Names, Executes
  <1>3. \A t : {i \in DOMAIN calls : calls[i].tool = t} = {}
    BY <1>1
  <1> QED
    BY <1>1, <1>2, <1>3, FS_EmptySet DEF CallsOf

\* The two derivations of the tool verdict agree on a fair outcome: all is well.
AllWell == [required |-> TRUE, forbidden |-> TRUE, sequence |-> TRUE, conformant |-> TRUE]

LEMMA FairTools ==
    ASSUME NEW c, NEW o, Fair(c, o)
    PROVE  /\ c # "W3K001" => /\ {"metric_lookup", "schema_lookup", "execute_sql"}
                                   \subseteq RangeOf(Names(o.calls))
                              /\ Before(o.calls, "metric_lookup", "schema_lookup")
                              /\ Before(o.calls, "schema_lookup", "execute_sql")
           /\ score_tool_trace(c, o.calls) = AllWell
  <1>1. c \in CaseIds /\ o \in Outcome /\ RunSound(c, o)
    BY DEF Fair
  <1>2. CASE c = "W3K001"
    <2>3. ExpectedBehavior[c] = "clarify"
      BY <1>2 DEF ExpectedBehavior, CaseIds
    <2>4. RequiredTools(c) = {}
      BY <2>3 DEF RequiredTools
    <2>5. ForbiddenTools(c) = {"execute_sql"}
      BY <1>2 DEF ForbiddenTools
    <2>1. RequiredTools(c) = {} /\ ForbiddenTools(c) = {"execute_sql"} /\ ExpectedTriples[c] = <<>>
      BY <1>2, <2>4, <2>5, TriplesAre
    <2>2. RangeOf(Names(o.calls)) = {}
      BY <1>2, NoCalls DEF Fair
    <2> QED
      BY <2>1, <2>2, <1>2 DEF score_tool_trace, AllWell
  <1>3. CASE c # "W3K001"
    <2>1. Len(o.obs) > 0 /\ Traced(o)
      BY <1>1, <1>3 DEF Fair, RunSound
    <2>2. o.obs # <<>>
      BY <2>1
    <2>3. Prepared(o.calls)
      BY <2>2, <1>1 DEF RunSound
    <2>4. /\ {"metric_lookup", "schema_lookup", "execute_sql"} \subseteq RangeOf(Names(o.calls))
          /\ Before(o.calls, "metric_lookup", "schema_lookup")
          /\ Before(o.calls, "schema_lookup", "execute_sql")
      BY <1>1, <2>1, <2>3, ToolsInOrder
    <2>5. RequiredTools(c) = {"metric_lookup", "schema_lookup", "execute_sql"}
      BY <1>1, <1>3 DEF RequiredTools, ExpectedBehavior
    <2>6. ForbiddenTools(c) \cap RangeOf(Names(o.calls)) = {}
      <3>1. ForbiddenTools(c) = IF c = "W3K030" THEN {"profile"} ELSE {}
        BY <1>3 DEF ForbiddenTools
      <3>2. c = "W3K030" => "profile" \notin RangeOf(Names(o.calls))
        BY DEF Fair
      <3> QED
        BY <3>1, <3>2
    <2>7. /\ Multiset(Purposes(o.calls)) = Multiset(ExpectedTriples[c])
          /\ ConfirmFirst(Purposes(o.calls))
      BY DEF Fair
    <2> QED
      BY <2>4, <2>5, <2>6, <2>7 DEF score_tool_trace, AllWell
  <1> QED
    BY <1>2, <1>3

\* The fields of a scored record.
Scores(r, c, o, expected) == r = ScoredRecord(c, o, expected, "none")

LEMMA ScoredFields ==
    ASSUME NEW c, NEW o, NEW expected, NEW r, Scores(r, c, o, expected)
    PROVE  /\ r.case = c /\ r.error = "none" /\ ~r.failure
           /\ r.observed = o.behavior /\ r.status = o.status /\ r.reason = o.reason
           /\ r.first = FirstScore(c, o) /\ r.final = FinalScore(c, o)
           /\ r.calls = o.calls /\ r.refs = ValidationRefs(o)
           /\ r.evidenceRefs = EvidenceRefs(c, o)
           /\ r.firstObs = o.first /\ r.expected = expected
           /\ r.models = o.models /\ r.accounted = o.accounted
  BY DEF Scores, ScoredRecord, Record

LEMMA ScoredVerdicts ==
    ASSUME NEW c, NEW o, NEW expected, NEW r, Scores(r, c, o, expected)
    PROVE  /\ r.behavior = score_behavior(c, o) /\ r.tool = score_tool_trace(c, o.calls)
           /\ r.suite = SuiteScore(c, o) /\ r.budget = BudgetScore(c, o)
           /\ EvidencePurposes(c) = {} => r.evidence = NoScore
           /\ EvidencePurposes(c) # {} => r.evidence = score_evidence(c, o)
           /\ r.validExecutes = Cardinality({i \in DOMAIN o.vals : o.vals[i].valid})
  BY DEF Scores, ScoredRecord, Record

LEMMA ScoredClaims ==
    ASSUME NEW c, NEW o, NEW expected, NEW r, Scores(r, c, o, expected)
    PROVE  /\ r.identified = (o.models # <<>> /\ o.accounted /\ RangeOf(o.models) = {expected})
           /\ r.repaired = (IF Suite[c] # "repair" THEN "na"
                            ELSE IF c = "W3K027" /\ SuiteScore(c, o).conformant THEN "yes" ELSE "no")
           /\ r.refused = (IF ExpectedBehavior[c] = "execute" THEN "na"
                           ELSE IF score_behavior(c, o).conformant /\ TerminalOk(c, o) /\ o.calls = <<>>
                                THEN "yes" ELSE "no")
  BY DEF Scores, ScoredRecord, Record

\* The ledger has counted what the trace shows.
LEMMA CountedIs ==
    ASSUME NEW o \in Outcome, o.untraced = "none", NEW tool, tool # "none"
    PROVE  Counted(o, tool) = CallsOf(o.calls, tool)
  <1>1. DOMAIN o.calls = 1 .. Len(o.calls) /\ Len(o.calls) \in Nat
    BY OutcomeParts
  <1>2. IsFiniteSet(DOMAIN o.calls)
    BY <1>1, IntervalSize
  <1>3. CallsOf(o.calls, tool) \in Nat
    BY <1>2, FS_Subset, FS_CardinalityType DEF CallsOf
  <1> QED
    BY <1>3 DEF Counted

LEMMA FairTrace ==
    ASSUME NEW c, NEW o, NEW expected, NEW r, Scores(r, c, o, expected), Fair(c, o)
    PROVE  TraceAgrees(r)
  <1>1. /\ r.case = c /\ r.calls = o.calls /\ r.tool = score_tool_trace(c, o.calls)
        /\ r.budget = BudgetScore(c, o)
    <2>1. r.case = c
      BY ScoredFields
    <2>2. r.calls = o.calls
      BY ScoredFields
    <2>3. r.tool = score_tool_trace(c, o.calls)
      BY DEF Scores, ScoredRecord, Record
    <2>4. r.budget = BudgetScore(c, o)
      BY ScoredVerdicts
    <2> QED
      BY <2>1, <2>2, <2>3, <2>4
  <1>2. c \in CaseIds /\ o \in Outcome /\ o.untraced = "none"
    BY DEF Fair
  <1>3. Len(o.calls) \in Nat
    <2>1. o.calls \in Seq(Trace)
      BY <1>2, OutcomeParts
    <2> QED
      BY <2>1
  <1>4. /\ r.budget.tools = Len(r.calls)
        /\ r.budget.executes = CallsOf(r.calls, "execute_sql")
        /\ r.budget.profiles = CallsOf(r.calls, "profile")
    BY <1>1, <1>2, <1>3, CountedIs DEF BudgetScore
  <1>5. SafeTriples[c] = ExpectedTriples[c]
    BY <1>2, SameTriples
  <1>6. r.tool = AllWell
    BY <1>1, FairTools
  <1>7. CASE c = "W3K001"
    <2>1. SafeTriples[c] = <<>>
      BY <1>5, <1>7, TriplesAre
    <2>2. RangeOf(Names(r.calls)) = {}
      BY <1>1, <1>7, NoCalls DEF Fair
    <2> QED
      BY <2>1, <2>2, <1>1, <1>4, <1>6 DEF TraceAgrees, AllWell
  <1>8. CASE c # "W3K001"
    <2>1. /\ {"metric_lookup", "schema_lookup", "execute_sql"} \subseteq RangeOf(Names(r.calls))
          /\ Before(r.calls, "metric_lookup", "schema_lookup")
          /\ Before(r.calls, "schema_lookup", "execute_sql")
      BY <1>1, <1>8, FairTools
    <2>2. /\ Multiset(Purposes(r.calls)) = Multiset(SafeTriples[c])
          /\ ConfirmFirst(Purposes(r.calls))
      BY <1>1, <1>5 DEF Fair
    <2>3. SafeTriples[c] # <<>>
      <3>1. Len(o.obs) > 0
        BY <1>8 DEF Fair
      <3>2. o.obs \in Seq(Observation)
        BY <1>2, OutcomeParts
      <3>3. 1 \in DOMAIN o.obs
        BY <3>1, <3>2
      <3>4. {o.obs[i].purpose : i \in DOMAIN o.obs} = RangeOf(SafeTriples[c])
        BY <1>5 DEF Fair
      <3>5. o.obs[1].purpose \in RangeOf(SafeTriples[c])
        BY <3>3, <3>4
      <3>6. RangeOf(<<>>) = {}
        BY DEF RangeOf
      <3> QED
        BY <3>5, <3>6
    <2>4. c = "W3K030" => "profile" \notin RangeOf(Names(r.calls))
      BY <1>1 DEF Fair
    <2> QED
      BY <2>1, <2>2, <2>3, <2>4, <1>1, <1>4, <1>6 DEF TraceAgrees, AllWell
  <1> QED
    BY <1>7, <1>8

\* A combined score is derived from its parts as the contract derives it.
LEMMA CombineDerived ==
    ASSUME NEW scores, \A s \in scores : s.result \in {0, 1}
    PROVE  Derived(Combine(scores))
  <1>1. CASE scores = {}
    BY <1>1 DEF Combine, Derived
  <1>2. CASE scores # {}
    <2> DEFINE result == IF \E s \in scores : s.result = 0 THEN 0 ELSE 1
    <2> DEFINE output == \A s \in scores : s.output
    <2> DEFINE validated == \A s \in scores : s.validated
    <2> DEFINE executed == \A s \in scores : s.executed
    <2> DEFINE truncated == \E s \in scores : s.truncated
    <2> DEFINE strict == \A s \in scores : s.result = 1 /\ s.output /\ s.validated /\ s.executed
                                              /\ ~s.truncated
    <2>1. strict = (result = 1 /\ output /\ validated /\ executed /\ ~truncated)
      OBVIOUS
    <2>2. Combine(scores) = [result |-> result, output |-> output, validated |-> validated,
                             executed |-> executed, truncated |-> truncated, strict |-> strict]
      BY <1>2 DEF Combine
    <2> HIDE DEF result, output, validated, executed, truncated, strict
    <2> QED
      BY <2>1, <2>2 DEF Derived
  <1> QED
    BY <1>1, <1>2

LEMMA CandidateResult ==
    ASSUME NEW o, NEW candidate, NEW linked
    PROVE  score_candidate(o, candidate, linked).result \in {0, 1}
  BY DEF score_candidate

LEMMA EvidenceFinite ==
    ASSUME NEW c \in CaseIds, NEW o
    PROVE  /\ IsFiniteSet(EvidencePurposes(c)) /\ Cardinality(EvidencePurposes(c)) \in Nat
           /\ ValidatedEvidence(c, o) \subseteq EvidencePurposes(c)
           /\ Cardinality(ValidatedEvidence(c, o)) \in Nat
           /\ Cardinality(ValidatedEvidence(c, o)) <= Cardinality(EvidencePurposes(c))
  <1> DEFINE all == {"confirm_decline"} \cup {"region_contribution"} \cup {"sku_contribution"}
                      \cup {"segment_contribution"} \cup {"metric_value_contract"}
  <1>1. EvidencePurposes(c) \subseteq all
    <2>1. \A d \in CaseIds : Observed[d] \in {<<>>, Simple, Attribution}
      BY DEF Observed
    <2>2. RangeOf(<<>>) = {}
      BY DEF RangeOf
    <2> QED
      BY <2>1, <2>2, TriplesAre DEF EvidencePurposes
  <1>2. IsFiniteSet(all)
    <2>1. \A x : IsFiniteSet({x})
      BY FS_Singleton
    <2>2. IsFiniteSet({"confirm_decline"} \cup {"region_contribution"})
      BY <2>1, FS_Union
    <2>3. IsFiniteSet({"confirm_decline"} \cup {"region_contribution"} \cup {"sku_contribution"})
      BY <2>1, <2>2, FS_Union
    <2>4. IsFiniteSet({"confirm_decline"} \cup {"region_contribution"} \cup {"sku_contribution"}
                        \cup {"segment_contribution"})
      BY <2>1, <2>3, FS_Union
    <2> QED
      BY <2>1, <2>4, FS_Union
  <1>3. IsFiniteSet(EvidencePurposes(c))
    BY <1>1, <1>2, FS_Subset
  <1>4. ValidatedEvidence(c, o) \subseteq EvidencePurposes(c)
    BY DEF ValidatedEvidence
  <1> QED
    BY <1>3, <1>4, FS_Subset, FS_CardinalityType DEF all

LEMMA SuiteIsSuited ==
    ASSUME NEW c \in CaseIds, NEW o
    PROVE  \E checks : SuiteScore(c, o) = Suited(checks)
  <1>1. Suite[c] \in {"behavior", "simple", "attribution", "repair", "budget", "policy"}
    BY DEF Suite, CaseIds
  <1> QED
    BY <1>1 DEF SuiteScore

LEMMA ScoredDerived ==
    ASSUME NEW c \in CaseIds, NEW o, NEW expected, NEW r, Scores(r, c, o, expected)
    PROVE  ScoresDerived(r)
  <1>1. Derived(r.first)
    <2>1. r.first = FirstScore(c, o)
      BY ScoredFields
    <2> QED
      BY <2>1, CombineDerived, CandidateResult DEF FirstScore
  <1>2. Derived(r.final)
    <2>1. r.final = FinalScore(c, o)
      BY ScoredFields
    <2> QED
      BY <2>1, CombineDerived, CandidateResult DEF FinalScore
  <1>3. r.evidence # NoScore => /\ r.evidence.verified <= r.evidence.required
                                /\ r.evidence.sufficient = (r.evidence.verified = r.evidence.required)
    <2>1. r.evidence # NoScore => r.evidence = score_evidence(c, o)
      BY DEF Scores, ScoredRecord, Record
    <2>2. score_evidence(c, o).verified <= score_evidence(c, o).required
      BY EvidenceFinite DEF score_evidence
    <2>3. score_evidence(c, o).sufficient
            = (score_evidence(c, o).verified = score_evidence(c, o).required)
      BY DEF score_evidence
    <2> QED
      BY <2>1, <2>2, <2>3
  <1>4. /\ r.suite.available => r.suite.conformant = \A i \in DOMAIN r.suite.checks : r.suite.checks[i]
        /\ r.suite.available
    <2>1. r.suite = SuiteScore(c, o)
      BY DEF Scores, ScoredRecord, Record
    <2>2. PICK checks : SuiteScore(c, o) = Suited(checks)
      BY SuiteIsSuited
    <2> QED
      BY <2>1, <2>2 DEF Suited
  <1> QED
    BY <1>1, <1>2, <1>3, <1>4 DEF ScoresDerived

-----------------------------------------------------------------------------
(* The evidence of a fair outcome. *)

LEMMA EvidenceAsked ==
    /\ \A c \in {"W3K011", "W3K026", "W3K029"} : EvidencePurposes(c) = RangeOf(ExpectedTriples[c])
    /\ \A c \in {"W3K001", "W3K027", "W3K028", "W3K030"} : EvidencePurposes(c) = {}
    /\ \A c \in {"W3K011", "W3K026"} : RangeOf(Observed[c]) = RangeOf(ExpectedTriples[c])
    /\ \A c \in {"W3K001", "W3K027", "W3K028", "W3K029", "W3K030"} : Observed[c] = <<>>
  <1>1. /\ Observed["W3K011"] = Simple /\ Observed["W3K026"] = Attribution
        /\ \A c \in {"W3K001", "W3K027", "W3K028", "W3K029", "W3K030"} : Observed[c] = <<>>
    BY DEF Observed, CaseIds
  <1>2. RangeOf(<<>>) = {} /\ RangeOf(<<"confirm_decline">>) = {"confirm_decline"}
    BY DEF RangeOf
  <1>3. EvidencePurposes("W3K029") = {"confirm_decline"}
    BY DEF EvidencePurposes
  <1>4. \A c \in CaseIds \ {"W3K029"} : EvidencePurposes(c) = RangeOf(Observed[c])
    BY DEF EvidencePurposes
  <1>5. /\ ExpectedTriples["W3K011"] = Simple /\ ExpectedTriples["W3K026"] = Attribution
        /\ ExpectedTriples["W3K029"] = <<"confirm_decline">>
    BY TriplesAre
  <1>6. \A c \in {"W3K011", "W3K026"} : RangeOf(Observed[c]) = RangeOf(ExpectedTriples[c])
    BY <1>1, <1>5
  <1>7. \A c \in {"W3K011", "W3K026"} : EvidencePurposes(c) = RangeOf(Observed[c])
    BY <1>4 DEF CaseIds
  <1>8. \A c \in {"W3K001", "W3K027", "W3K028", "W3K030"} : EvidencePurposes(c) = {}
    BY <1>1, <1>2, <1>4 DEF CaseIds
  <1>9. EvidencePurposes("W3K029") = RangeOf(ExpectedTriples["W3K029"])
    BY <1>2, <1>3, <1>5
  <1>10. \A c \in {"W3K011", "W3K026", "W3K029"} : EvidencePurposes(c) = RangeOf(ExpectedTriples[c])
    BY <1>6, <1>7, <1>9
  <1> QED
    BY <1>1, <1>6, <1>8, <1>10

LEMMA ValidatedIfValid ==
    ASSUME NEW o \in Outcome, ValidatedOnce(o), NEW i \in DOMAIN o.obs,
           o.obs[i].result \in Checked
    PROVE  Validated(o, i) <=> o.obs[i].result # "renamed"
  <1>1. PICK k \in DOMAIN o.vals : o.vals[k].obs = i
    BY DEF ValidatedOnce
  <1>2. o.vals[k].valid = (o.obs[i].result # "renamed")
    BY <1>1 DEF ValidatedOnce
  <1>3. \A l \in DOMAIN o.vals : o.vals[l].obs = i => l = k
    BY <1>1, ValidationsDiffer
  <1>4. Validated(o, i) <=> o.vals[k].valid
    BY <1>1, <1>3 DEF Validated, RangeOf
  <1> QED
    BY <1>2, <1>4

LEMMA FairQueries ==
    ASSUME NEW c, NEW o, Fair(c, o), c \in {"W3K011", "W3K026", "W3K029"}
    PROVE  /\ o.obs # <<>> /\ DOMAIN o.obs = 1 .. Len(o.obs) /\ Len(o.obs) \in Nat
           /\ o.judged = DOMAIN o.obs /\ Bijective(o)
           /\ \A i \in DOMAIN o.obs :
                /\ o.obs[i].result \in Valid /\ Restored(o, i) /\ Validated(o, i)
                /\ Matching(o, o.obs[i].purpose) = {i}
                /\ SameQuery(o.calls, o.obs[i]) = 1
  <1>1. c \in CaseIds /\ o \in Outcome /\ RunSound(c, o) /\ Seen(o)
    BY DEF Fair
  <1>2. ValidatedOnce(o) /\ Traced(o) /\ JudgedIfValid(o)
    BY <1>1 DEF RunSound
  <1>3. o.obs \in Seq(Observation) /\ Len(o.obs) > 0
    BY <1>1, OutcomeParts DEF Fair
  <1>4. o.obs # <<>> /\ DOMAIN o.obs = 1 .. Len(o.obs) /\ Len(o.obs) \in Nat
    BY <1>3
  <1>5. \A i \in DOMAIN o.obs : o.obs[i].result \in Valid
    <2>1. CASE c \in {"W3K011", "W3K026"}
      BY <2>1 DEF Fair, Valid
    <2>2. CASE c = "W3K029"
      <3>1. Len(o.obs) = 1 /\ o.obs[1].result \in Valid
        BY <2>2 DEF Fair
      <3> QED
        BY <3>1, <1>4
    <2> QED
      BY <2>1, <2>2
  <1>6. o.judged = DOMAIN o.obs
    BY <1>2, <1>5 DEF JudgedIfValid
  <1>7. Bijective(o)
    BY <1>1, <1>2, BijectiveIfSeen
  <1>8. ASSUME NEW i \in DOMAIN o.obs
        PROVE  /\ o.obs[i].result \in Valid /\ Restored(o, i) /\ Validated(o, i)
               /\ Matching(o, o.obs[i].purpose) = {i}
               /\ SameQuery(o.calls, o.obs[i]) = 1
    <2>1. o.obs[i].result \in Valid
      BY <1>5
    <2>2. o.obs[i].result \in Checked /\ o.obs[i].result # "renamed" /\ Restored(o, i)
      BY <2>1 DEF Checked, Valid, Failed, Restored
    <2>3. Validated(o, i)
      BY <2>2, <1>1, <1>2, ValidatedIfValid
    <2>4. \A j \in DOMAIN o.obs : o.obs[j].purpose = o.obs[i].purpose => j = i
      BY DEF Fair
    <2>5. Matching(o, o.obs[i].purpose) = {i}
      BY <2>4 DEF Matching
    <2>6. SameQuery(o.calls, o.obs[i]) = 1
      <3> DEFINE K == {<<o.obs[i].purpose, o.obs[i].result>>}
      <3>1. Cardinality({j \in Executes(o.calls) : <<o.calls[j].purpose, o.calls[j].result>> \in K})
              = Cardinality({j \in DOMAIN o.obs : <<o.obs[j].purpose, o.obs[j].result>> \in K})
        BY <1>1, <1>2, TracedCount
      <3>2. {j \in DOMAIN o.obs : <<o.obs[j].purpose, o.obs[j].result>> \in K} = {i}
        BY <2>4
      <3>3. {j \in Executes(o.calls) : <<o.calls[j].purpose, o.calls[j].result>> \in K}
              = {j \in Executes(o.calls) : /\ o.calls[j].purpose = o.obs[i].purpose
                                           /\ o.calls[j].result = o.obs[i].result}
        OBVIOUS
      <3>4. Cardinality({i}) = 1
        BY FS_Singleton
      <3> QED
        BY <3>1, <3>2, <3>3, <3>4 DEF SameQuery
    <2> QED
      BY <2>1, <2>2, <2>3, <2>5, <2>6
  <1> QED
    BY <1>4, <1>6, <1>7, <1>8

LEMMA FairEvidence ==
    ASSUME NEW c, NEW o, Fair(c, o), c \in {"W3K011", "W3K026", "W3K029"}
    PROVE  /\ ValidatedEvidence(c, o) = EvidencePurposes(c)
           /\ \A i \in DOMAIN o.obs : Candidates(o, o.obs[i].purpose) = {i}
           /\ EvidencePurposes(c) = {o.obs[i].purpose : i \in DOMAIN o.obs}
  <1>1. /\ o.obs # <<>> /\ o.judged = DOMAIN o.obs /\ Bijective(o)
        /\ \A i \in DOMAIN o.obs :
             Restored(o, i) /\ Validated(o, i) /\ Matching(o, o.obs[i].purpose) = {i}
    BY FairQueries
  <1>2. \A i \in DOMAIN o.obs : Candidates(o, o.obs[i].purpose) = {i}
    BY <1>1 DEF Candidates
  <1>3. EvidencePurposes(c) = {o.obs[i].purpose : i \in DOMAIN o.obs}
    BY EvidenceAsked DEF Fair
  <1> DEFINE found == {p \in EvidencePurposes(c) :
                         Cardinality(Candidates(o, p)) = 1 /\ Candidates(o, p) \subseteq o.judged}
  <1>4. ASSUME NEW p \in EvidencePurposes(c)
        PROVE  Cardinality(Candidates(o, p)) = 1 /\ Candidates(o, p) \subseteq o.judged
    <2>1. PICK i \in DOMAIN o.obs : p = o.obs[i].purpose
      BY <1>3
    <2>2. Candidates(o, p) = {i}
      BY <2>1, <1>2
    <2> QED
      BY <2>2, <1>1, FS_Singleton
  <1>5. found = EvidencePurposes(c)
    BY <1>4
  <1>6. UNION {Candidates(o, p) : p \in found} = o.judged
    <2>1. \A p \in EvidencePurposes(c) : Candidates(o, p) \subseteq o.judged
      BY <1>4
    <2>2. \A i \in DOMAIN o.obs : i \in Candidates(o, o.obs[i].purpose)
                                   /\ o.obs[i].purpose \in EvidencePurposes(c)
      BY <1>2, <1>3
    <2> QED
      BY <2>1, <2>2, <1>1, <1>5
  <1>7. ValidatedEvidence(c, o) = found
    BY <1>1, <1>6 DEF ValidatedEvidence
  <1> QED
    BY <1>2, <1>3, <1>5, <1>7

\* The right rows are found and scored as such.
LEMMA RightScored ==
    ASSUME NEW c, NEW o, Fair(c, o), c \in {"W3K011", "W3K026"}, NEW i \in DOMAIN o.obs,
           NEW p, p = o.obs[i].purpose, NEW s,
           s = score_candidate(o, FinalCandidate(o, p), FinalCandidate(o, p) # {})
    PROVE  s.result = 1 /\ s.output /\ s.validated /\ s.executed /\ ~s.truncated
  <1>1. /\ DOMAIN o.obs = 1 .. Len(o.obs) /\ Len(o.obs) \in Nat /\ Bijective(o)
        /\ Restored(o, i) /\ Validated(o, i) /\ Matching(o, p) = {i}
        /\ SameQuery(o.calls, o.obs[i]) = 1
    BY FairQueries
  <1>2. o.obs[i].result = "right"
    BY DEF Fair
  <1>3. Linked(o, p) = {i}
    BY <1>1 DEF Linked
  <1>4. FinalCandidate(o, p) = {i}
    BY <1>1, <1>3 DEF FinalCandidate
  <1> QED
    BY <1>1, <1>2, <1>4 DEF score_candidate

LEMMA FairFinal ==
    ASSUME NEW c, NEW o, Fair(c, o), FinalScore(c, o) # NoScore
    PROVE  FinalScore(c, o).strict
  <1> DEFINE scores == {score_candidate(o, FinalCandidate(o, p), FinalCandidate(o, p) # {})
                          : p \in RangeOf(Observed[c])}
  <1>1. FinalScore(c, o) = Combine(scores)
    BY DEF FinalScore
  <1>2. scores # {}
    BY <1>1 DEF Combine
  <1>3. PICK q : q \in RangeOf(Observed[c])
    BY <1>2
  <1>4. c \in {"W3K011", "W3K026"}
    <2>1. RangeOf(<<>>) = {}
      BY DEF RangeOf
    <2>2. c \in CaseIds
      BY DEF Fair
    <2> QED
      BY <2>1, <2>2, <1>3, EvidenceAsked DEF CaseIds
  <1>5. RangeOf(Observed[c]) = {o.obs[i].purpose : i \in DOMAIN o.obs}
    BY <1>4, EvidenceAsked DEF Fair
  <1>6. ASSUME NEW s \in scores
        PROVE  s.result = 1 /\ s.output /\ s.validated /\ s.executed /\ ~s.truncated
    <2>1. PICK p \in RangeOf(Observed[c]) :
            s = score_candidate(o, FinalCandidate(o, p), FinalCandidate(o, p) # {})
      OBVIOUS
    <2>2. PICK i \in DOMAIN o.obs : p = o.obs[i].purpose
      BY <1>5
    <2> QED
      BY <2>1, <2>2, <1>4, RightScored
  <1> HIDE DEF scores
  <1> QED
    BY <1>1, <1>2, <1>6 DEF Combine

\* The evidence that the report counts.
LEMMA FairEvidenceScore ==
    ASSUME NEW c, NEW o, Fair(c, o)
    PROVE  /\ c \in {"W3K011", "W3K026", "W3K029"} =>
                /\ EvidencePurposes(c) # {}
                /\ score_evidence(c, o) = [required |-> Cardinality(EvidencePurposes(c)),
                                           verified |-> Cardinality(EvidencePurposes(c)),
                                           sufficient |-> TRUE]
                /\ score_evidence(c, o) # NoScore
           /\ c \notin {"W3K011", "W3K026", "W3K029"} =>
                EvidencePurposes(c) = {} /\ EvidenceRefs(c, o) = {}
  <1>1. c \in CaseIds /\ o \in Outcome
    BY DEF Fair
  <1>2. ASSUME c \in {"W3K011", "W3K026", "W3K029"}
        PROVE  /\ EvidencePurposes(c) # {}
               /\ score_evidence(c, o) = [required |-> Cardinality(EvidencePurposes(c)),
                                          verified |-> Cardinality(EvidencePurposes(c)),
                                          sufficient |-> TRUE]
               /\ score_evidence(c, o) # NoScore
    <2>1. /\ ValidatedEvidence(c, o) = EvidencePurposes(c)
          /\ EvidencePurposes(c) = {o.obs[i].purpose : i \in DOMAIN o.obs}
      BY <1>2, FairEvidence
    <2>2. EvidencePurposes(c) # {}
      <3>1. o.obs \in Seq(Observation) /\ Len(o.obs) > 0
        BY <1>1, <1>2, OutcomeParts DEF Fair
      <3>2. 1 \in DOMAIN o.obs
        BY <3>1
      <3> QED
        BY <2>1, <3>2
    <2>3. score_evidence(c, o) = [required |-> Cardinality(EvidencePurposes(c)),
                                  verified |-> Cardinality(EvidencePurposes(c)),
                                  sufficient |-> TRUE]
      BY <2>1 DEF score_evidence
    <2>4. Cardinality(EvidencePurposes(c)) \in Nat
      BY <1>1, EvidenceFinite
    <2>5. score_evidence(c, o) \in [required : Nat, verified : Nat, sufficient : BOOLEAN]
      BY <2>3, <2>4
    <2> QED
      BY <2>2, <2>3, <2>5, NoScoreAssumption
  <1>3. ASSUME c \notin {"W3K011", "W3K026", "W3K029"}
        PROVE  EvidencePurposes(c) = {} /\ EvidenceRefs(c, o) = {}
    <2>1. EvidencePurposes(c) = {}
      BY <1>1, <1>3, EvidenceAsked DEF CaseIds
    <2>2. ValidatedEvidence(c, o) = {}
      BY <2>1 DEF ValidatedEvidence
    <2> QED
      BY <2>1, <2>2 DEF EvidenceRefs
  <1> QED
    BY <1>2, <1>3

\* One reference per purpose, to its only query.
LEMMA FairEvidenceRefs ==
    ASSUME NEW c, NEW o, Fair(c, o), c \in {"W3K011", "W3K026", "W3K029"}
    PROVE  /\ EvidenceRefs(c, o) = {[purpose |-> o.obs[i].purpose, obs |-> i] : i \in DOMAIN o.obs}
           /\ Cardinality(EvidenceRefs(c, o)) = Cardinality(EvidencePurposes(c))
           /\ {e.purpose : e \in EvidenceRefs(c, o)} = EvidencePurposes(c)
  <1>1. /\ ValidatedEvidence(c, o) = EvidencePurposes(c)
        /\ \A i \in DOMAIN o.obs : Candidates(o, o.obs[i].purpose) = {i}
        /\ EvidencePurposes(c) = {o.obs[i].purpose : i \in DOMAIN o.obs}
    BY FairEvidence
  <1> DEFINE Ref(p) == [purpose |-> p, obs |-> CHOOSE i \in Candidates(o, p) : TRUE]
  <1>2. EvidenceRefs(c, o) = {Ref(p) : p \in EvidencePurposes(c)}
    BY <1>1 DEF EvidenceRefs
  <1>3. \A i \in DOMAIN o.obs : Ref(o.obs[i].purpose) = [purpose |-> o.obs[i].purpose, obs |-> i]
    <2> SUFFICES ASSUME NEW i \in DOMAIN o.obs
                 PROVE  (CHOOSE j \in Candidates(o, o.obs[i].purpose) : TRUE) = i
      OBVIOUS
    <2>1. Candidates(o, o.obs[i].purpose) = {i}
      BY <1>1
    <2>2. (CHOOSE j \in {i} : TRUE) = i
      OBVIOUS
    <2> QED
      BY <2>1, <2>2
  <1>4. \A p : Ref(p).purpose = p
    OBVIOUS
  <1> HIDE DEF Ref
  <1>5. EvidenceRefs(c, o) = {[purpose |-> o.obs[i].purpose, obs |-> i] : i \in DOMAIN o.obs}
    <2>1. EvidenceRefs(c, o) = {Ref(o.obs[i].purpose) : i \in DOMAIN o.obs}
      BY <1>1, <1>2
    <2>2. {Ref(o.obs[i].purpose) : i \in DOMAIN o.obs}
            = {[purpose |-> o.obs[i].purpose, obs |-> i] : i \in DOMAIN o.obs}
      BY <1>3
    <2> QED
      BY <2>1, <2>2
  <1>6. {e.purpose : e \in EvidenceRefs(c, o)} = EvidencePurposes(c)
    BY <1>2, <1>4
  <1>7. Cardinality(EvidenceRefs(c, o)) = Cardinality(EvidencePurposes(c))
    <2> DEFINE S == EvidencePurposes(c)
    <2> DEFINE T == EvidenceRefs(c, o)
    <2> DEFINE f == [p \in S |-> Ref(p)]
    <2>1. IsFiniteSet(S)
      BY EvidenceFinite DEF Fair
    <2>2. f \in [S -> T]
      BY <1>2
    <2>3. \A p, q \in S : f[p] = f[q] => p = q
      BY <1>4
    <2>4. \A z \in T : \E p \in S : f[p] = z
      BY <1>2
    <2> HIDE DEF S, T, f
    <2>5. Cardinality(T) = Cardinality(S)
      BY <2>1, <2>2, <2>3, <2>4, SameSize
    <2> QED
      BY <2>5 DEF S, T
  <1> QED
    BY <1>5, <1>6, <1>7

-----------------------------------------------------------------------------
(* The links of a fair outcome. *)

LEMMA RefsAre ==
    ASSUME NEW o \in Outcome, NEW refs, refs = ValidationRefs(o)
    PROVE  /\ DOMAIN refs = DOMAIN o.vals /\ Len(refs) = Len(o.vals)
           /\ \A k \in DOMAIN o.vals :
                /\ refs[k].obs = o.vals[k].obs /\ refs[k].valid = o.vals[k].valid
                /\ refs[k].purpose = o.obs[o.vals[k].obs].purpose
                /\ refs[k].result = o.obs[o.vals[k].obs].result
  <1> DEFINE m == Len(o.vals)
  <1>1. m \in Nat /\ DOMAIN o.vals = 1 .. m
    <2>1. o.vals \in Seq(Validation)
      BY OutcomeParts
    <2> QED
      BY <2>1
  <1> DEFINE R(k) == [obs |-> o.vals[k].obs, purpose |-> o.obs[o.vals[k].obs].purpose,
                      result |-> o.obs[o.vals[k].obs].result, valid |-> o.vals[k].valid]
  <1>2. refs = [k \in 1 .. m |-> R(k)]
    BY <1>1 DEF ValidationRefs
  <1>3. \A k \in 1 .. m :
          /\ refs[k].obs = o.vals[k].obs /\ refs[k].valid = o.vals[k].valid
          /\ refs[k].purpose = o.obs[o.vals[k].obs].purpose
          /\ refs[k].result = o.obs[o.vals[k].obs].result
    <2>1. \A k : /\ R(k).obs = o.vals[k].obs /\ R(k).valid = o.vals[k].valid
                 /\ R(k).purpose = o.obs[o.vals[k].obs].purpose
                 /\ R(k).result = o.obs[o.vals[k].obs].result
      OBVIOUS
    <2> HIDE DEF m, R
    <2>2. \A k \in 1 .. m : refs[k] = R(k)
      BY <1>2
    <2> QED
      BY <2>1, <2>2
  <1> HIDE DEF m, R
  <1>4. Len(refs) = m
    <2> DEFINE X == {R(k) : k \in 1 .. m}
    <2>1. refs \in [1 .. m -> X]
      BY <1>2
    <2> HIDE DEF X
    <2>2. refs \in Seq(X)
      BY <2>1, <1>1
    <2> QED
      BY <2>1, <2>2, <1>1
  <1> QED
    BY <1>1, <1>2, <1>3, <1>4 DEF m

LEMMA RefsDiffer ==
    ASSUME NEW o \in Outcome, ValidatedOnce(o)
    PROVE  /\ Cardinality({v.obs : v \in RangeOf(o.vals)}) = Len(o.vals)
           /\ Len(o.vals) <= Len(o.obs)
  <1> DEFINE m == Len(o.vals)
  <1> DEFINE n == Len(o.obs)
  <1> DEFINE T == {v.obs : v \in RangeOf(o.vals)}
  <1> DEFINE f == [k \in 1 .. m |-> o.vals[k].obs]
  <1>1. /\ DOMAIN o.vals = 1 .. m /\ m \in Nat
        /\ \A k, l \in DOMAIN o.vals : o.vals[k].obs = o.vals[l].obs => k = l
    BY ValidationsDiffer
  <1>2. DOMAIN o.obs = 1 .. n /\ n \in Nat
    <2>1. o.obs \in Seq(Observation)
      BY OutcomeParts
    <2> QED
      BY <2>1
  <1>3. f \in [1 .. m -> T]
    BY <1>1 DEF RangeOf
  <1>4. \A k, l \in 1 .. m : f[k] = f[l] => k = l
    BY <1>1
  <1>5. \A z \in T : \E k \in 1 .. m : f[k] = z
    BY <1>1 DEF RangeOf
  <1>6. T \subseteq 1 .. n
    BY <1>2 DEF RangeOf, ValidatedOnce
  <1> HIDE DEF m, n, T, f
  <1>7. IsFiniteSet(1 .. m) /\ Cardinality(1 .. m) = m
    BY <1>1, IntervalSize
  <1>8. Cardinality(T) = m
    BY <1>3, <1>4, <1>5, <1>7, SameSize
  <1>9. IsFiniteSet(1 .. n) /\ Cardinality(1 .. n) = n
    BY <1>2, IntervalSize
  <1>10. Cardinality(T) <= n
    BY <1>6, <1>9, FS_Subset
  <1> QED
    BY <1>8, <1>10 DEF m, n, T

LEMMA ExecutesCounted ==
    ASSUME NEW o \in Outcome, Traced(o)
    PROVE  CallsOf(o.calls, "execute_sql") = Len(o.obs)
  <1> DEFINE n == Len(o.obs)
  <1>1. DOMAIN o.obs = 1 .. n /\ n \in Nat
    <2>1. o.obs \in Seq(Observation)
      BY OutcomeParts
    <2> QED
      BY <2>1
  <1>2. PICK f \in [DOMAIN o.obs -> Executes(o.calls)] :
             /\ \A i, j \in DOMAIN o.obs : f[i] = f[j] => i = j
             /\ \A z \in Executes(o.calls) : \E i \in DOMAIN o.obs : f[i] = z
    BY TracedPairs
  <1>3. IsFiniteSet(DOMAIN o.obs) /\ Cardinality(DOMAIN o.obs) = n
    BY <1>1, IntervalSize
  <1>4. Cardinality(Executes(o.calls)) = Cardinality(DOMAIN o.obs)
    BY <1>2, <1>3, SameSize
  <1> QED
    BY <1>3, <1>4 DEF CallsOf, Executes

LEMMA FairLinks ==
    ASSUME NEW c, NEW o, NEW expected, NEW r, Scores(r, c, o, expected), Fair(c, o)
    PROVE  LinksAgree(r)
  <1>1. c \in CaseIds /\ o \in Outcome /\ ValidatedOnce(o) /\ Traced(o) /\ Seen(o)
    BY DEF Fair, RunSound
  <1>2. /\ r.case = c /\ r.calls = o.calls /\ r.refs = ValidationRefs(o)
        /\ r.evidenceRefs = EvidenceRefs(c, o)
    BY ScoredFields
  <1>3. r.budget = BudgetScore(c, o)
    BY DEF Scores, ScoredRecord, Record
  <1>4. r.validExecutes = Cardinality({i \in DOMAIN o.vals : o.vals[i].valid})
    BY DEF Scores, ScoredRecord, Record
  <1>5. r.evidence = IF EvidencePurposes(c) = {} THEN NoScore ELSE score_evidence(c, o)
    BY DEF Scores, ScoredRecord, Record
  <1> DEFINE refs == r.refs
  <1>6. /\ DOMAIN refs = DOMAIN o.vals /\ Len(refs) = Len(o.vals)
        /\ \A k \in DOMAIN o.vals :
             /\ refs[k].obs = o.vals[k].obs /\ refs[k].valid = o.vals[k].valid
             /\ refs[k].purpose = o.obs[o.vals[k].obs].purpose
             /\ refs[k].result = o.obs[o.vals[k].obs].result
    BY <1>1, <1>2, RefsAre
  <1>7. {x.obs : x \in RangeOf(refs)} = {v.obs : v \in RangeOf(o.vals)}
    BY <1>6 DEF RangeOf
  <1>8. Cardinality({x.obs : x \in RangeOf(refs)}) = Len(refs)
    BY <1>1, <1>6, <1>7, RefsDiffer
  <1>9. Len(refs) <= r.budget.executes
    <2>1. r.budget.executes = Len(o.obs)
      <3>1. o.untraced = "none"
        BY DEF Fair
      <3>2. r.budget.executes = Counted(o, "execute_sql")
        BY <1>3 DEF BudgetScore
      <3> QED
        BY <1>1, <3>1, <3>2, ExecutesCounted, CountedIs
    <2> QED
      BY <2>1, <1>1, <1>6, RefsDiffer
  <1>10. Multiset([i \in DOMAIN refs |-> <<refs[i].purpose, refs[i].result>>])
           = Multiset(CompletedQueries(r.calls))
    <2>1. Multiset([i \in DOMAIN refs |-> <<refs[i].purpose, refs[i].result>>])
            = Multiset(ObservedQueries(o))
      BY <1>1, <1>2, RefsAsObserved
    <2> QED
      BY <2>1, <1>1, <1>2, CompletedAsObserved
  <1>11. r.validExecutes = Cardinality({i \in DOMAIN refs : refs[i].valid})
    <2>1. {i \in DOMAIN refs : refs[i].valid} = {i \in DOMAIN o.vals : o.vals[i].valid}
      BY <1>6
    <2> QED
      BY <2>1, <1>4
  <1>12. SafeTriples[c] = ExpectedTriples[c]
    BY <1>1, SameTriples
  <1>13. CASE c \in {"W3K011", "W3K026", "W3K029"}
    <2>1. /\ r.evidence = [required |-> Cardinality(EvidencePurposes(c)),
                           verified |-> Cardinality(EvidencePurposes(c)), sufficient |-> TRUE]
          /\ r.evidence # NoScore
      BY <1>5, <1>13, FairEvidenceScore
    <2>2. EvidencePurposes(c) = RangeOf(SafeTriples[c])
      BY <1>12, <1>13, EvidenceAsked
    <2>3. /\ r.evidenceRefs = {[purpose |-> o.obs[i].purpose, obs |-> i] : i \in DOMAIN o.obs}
          /\ Cardinality(r.evidenceRefs) = Cardinality(EvidencePurposes(c))
          /\ {e.purpose : e \in r.evidenceRefs} = EvidencePurposes(c)
      BY <1>2, <1>13, FairEvidenceRefs
    <2>4. ASSUME NEW e \in r.evidenceRefs
          PROVE  \E x \in RangeOf(refs) :
                   x.obs = e.obs /\ x.valid /\ x.purpose = e.purpose /\ SameQuery(r.calls, x) = 1
      <3>1. PICK i \in DOMAIN o.obs : e = [purpose |-> o.obs[i].purpose, obs |-> i]
        BY <2>3
      <3>2. Validated(o, i) /\ SameQuery(o.calls, o.obs[i]) = 1
        BY <1>13, FairQueries
      <3>3. PICK k \in DOMAIN o.vals : o.vals[k].obs = i /\ o.vals[k].valid
        BY <3>2 DEF Validated, RangeOf
      <3>4. /\ refs[k] \in RangeOf(refs) /\ refs[k].obs = i /\ refs[k].valid
            /\ refs[k].purpose = o.obs[i].purpose /\ refs[k].result = o.obs[i].result
        BY <3>3, <1>6 DEF RangeOf
      <3>5. SameQuery(r.calls, refs[k]) = 1
        BY <3>2, <3>4, <1>2 DEF SameQuery
      <3> QED
        BY <3>1, <3>4, <3>5
    <2> HIDE DEF refs
    <2>5. /\ r.evidence.required = Cardinality(RangeOf(SafeTriples[c]))
          /\ r.evidence.verified = Cardinality(r.evidenceRefs)
          /\ {e.purpose : e \in r.evidenceRefs} \subseteq RangeOf(SafeTriples[c])
      BY <2>1, <2>2, <2>3
    <2> QED
      BY <2>1, <2>4, <2>5, <1>2, <1>8, <1>9, <1>10, <1>11 DEF LinksAgree, refs
  <1>14. CASE c \notin {"W3K011", "W3K026", "W3K029"}
    <2>1. r.evidence = NoScore /\ r.evidenceRefs = {}
      BY <1>2, <1>5, <1>14, FairEvidenceScore
    <2>2. RangeOf(SafeTriples[c]) # {} => c \in {"W3K027", "W3K028", "W3K030"}
      <3>1. c = "W3K001" => SafeTriples[c] = <<>>
        BY <1>12, TriplesAre
      <3>2. RangeOf(<<>>) = {}
        BY DEF RangeOf
      <3> QED
        BY <3>1, <3>2, <1>1, <1>14 DEF CaseIds
    <2> QED
      BY <2>1, <2>2, <1>2, <1>8, <1>9, <1>10, <1>11 DEF LinksAgree, refs
  <1> QED
    BY <1>13, <1>14

-----------------------------------------------------------------------------
(* The suites' verdicts on a fair outcome. *)

LEMMA FairPlain ==
    ASSUME NEW c \in {"W3K001", "W3K011", "W3K026"}, NEW o, NEW r, r.case = c
    PROVE  SuiteScore(c, o) = Suited(<<>>) /\ SafeSuiteScore(r) = Suited(<<>>)
  <1>1. Suite[c] \in {"behavior", "simple", "attribution"}
    BY DEF Suite, CaseIds
  <1> QED
    BY <1>1 DEF SuiteScore, SafeSuiteScore

\* The two validations of a repair case.
LEMMA RepairValidations ==
    ASSUME NEW c, NEW o, Fair(c, o), c \in {"W3K027", "W3K028"}
    PROVE  /\ DOMAIN o.obs = 1 .. 2 /\ DOMAIN o.vals = 1 .. 2 /\ Len(o.vals) = 2
           /\ o.vals[1].obs = 1 /\ o.vals[2].obs = 2
           /\ ~o.vals[1].valid /\ (o.vals[2].valid <=> c = "W3K027")
           /\ ~Validated(o, 1) /\ (Validated(o, 2) <=> c = "W3K027")
  <1>1. c \in CaseIds /\ o \in Outcome /\ ValidatedOnce(o)
    BY DEF Fair, RunSound
  <1>2. DOMAIN o.obs = 1 .. 2
    <2>1. o.obs \in Seq(Observation) /\ Len(o.obs) = 2
      BY <1>1, OutcomeParts DEF Fair
    <2> QED
      BY <2>1
  <1>3. /\ o.obs[1].result = "renamed" /\ o.obs[1].result \in Checked
        /\ o.obs[2].result \in Checked /\ (o.obs[2].result # "renamed" <=> c = "W3K027")
    BY DEF Fair, Checked, Valid
  <1>4. 1 \in DOMAIN o.obs /\ 2 \in DOMAIN o.obs
    BY <1>2
  <1>5. ~Validated(o, 1) /\ (Validated(o, 2) <=> c = "W3K027")
    BY <1>1, <1>3, <1>4, ValidatedIfValid
  <1>6. /\ DOMAIN o.vals = 1 .. Len(o.vals) /\ Len(o.vals) \in Nat
        /\ \A k, l \in DOMAIN o.vals : k < l => o.vals[k].obs < o.vals[l].obs
    BY <1>1, ValidationsDiffer DEF ValidatedOnce
  <1>7. PICK k \in DOMAIN o.vals : o.vals[k].obs = 1
    BY <1>1, <1>3, <1>4 DEF ValidatedOnce
  <1>8. PICK l \in DOMAIN o.vals : o.vals[l].obs = 2
    BY <1>1, <1>3, <1>4 DEF ValidatedOnce
  <1>9. \A j \in DOMAIN o.vals : o.vals[j].obs \in 1 .. 2
    BY <1>1, <1>2 DEF ValidatedOnce
  <1>10. k < l /\ \A j \in DOMAIN o.vals : j = k \/ j = l
    <2>1. \A j \in DOMAIN o.vals : o.vals[j].obs = 1 => j = k
      BY <1>1, <1>7, ValidationsDiffer
    <2>2. \A j \in DOMAIN o.vals : o.vals[j].obs = 2 => j = l
      BY <1>1, <1>8, ValidationsDiffer
    <2>3. \A j \in DOMAIN o.vals : o.vals[j].obs = 1 \/ o.vals[j].obs = 2
      BY <1>9
    <2>4. k # l /\ ~(l < k)
      BY <1>6, <1>7, <1>8
    <2>5. k \in Nat /\ l \in Nat
      BY <1>6
    <2> QED
      BY <2>1, <2>2, <2>3, <2>4, <2>5
  <1>11. k = 1 /\ l = 2 /\ Len(o.vals) = 2
    <2>1. k \in 1 .. Len(o.vals) /\ l \in 1 .. Len(o.vals)
          /\ \A j \in 1 .. Len(o.vals) : j = k \/ j = l
      BY <1>6, <1>10
    <2>2. 1 = k \/ 1 = l
      BY <2>1, <1>6
    <2>3. k = 1
      BY <2>1, <2>2, <1>10, <1>6
    <2>4. 2 = k \/ 2 = l
      BY <2>1, <2>3, <1>10, <1>6
    <2>5. Len(o.vals) = k \/ Len(o.vals) = l
      BY <2>1, <1>6
    <2>6. l = 2 /\ l <= Len(o.vals)
      BY <2>1, <2>3, <2>4, <1>6
    <2> QED
      BY <2>3, <2>5, <2>6, <1>6
  <1>12. o.vals[1].obs = 1 /\ o.vals[2].obs = 2 /\ 1 \in DOMAIN o.vals /\ 2 \in DOMAIN o.vals
    BY <1>7, <1>8, <1>11
  <1>13. /\ o.vals[1].valid = (o.obs[1].result # "renamed")
         /\ o.vals[2].valid = (o.obs[2].result # "renamed")
    BY <1>1, <1>12 DEF ValidatedOnce
  <1>14. ~o.vals[1].valid /\ (o.vals[2].valid <=> c = "W3K027")
    BY <1>13, <1>3
  <1>15. DOMAIN o.vals = 1 .. 2
    BY <1>6, <1>11
  <1> QED
    BY <1>2, <1>5, <1>11, <1>12, <1>14, <1>15

LEMMA FairRepair ==
    ASSUME NEW c, NEW o, NEW expected, NEW r, Scores(r, c, o, expected), Fair(c, o),
           c \in {"W3K027", "W3K028"}
    PROVE  /\ SuiteScore(c, o) = Suited(<<TRUE, TRUE, TRUE>>)
           /\ SafeSuiteScore(r) = Suited(<<TRUE, TRUE, TRUE>>)
  <1>1. c \in CaseIds /\ o \in Outcome /\ RunSound(c, o) /\ Bijective(o)
    <2>1. c \in CaseIds /\ o \in Outcome /\ RunSound(c, o) /\ Seen(o)
      BY DEF Fair
    <2> QED
      BY <2>1, BijectiveIfSeen DEF RunSound
  <1>2. Suite[c] = "repair"
    BY <1>1 DEF Suite
  <1>3. /\ DOMAIN o.obs = 1 .. 2 /\ DOMAIN o.vals = 1 .. 2 /\ Len(o.vals) = 2
        /\ o.vals[1].obs = 1 /\ o.vals[2].obs = 2
        /\ ~o.vals[1].valid /\ (o.vals[2].valid <=> c = "W3K027")
        /\ ~Validated(o, 1) /\ (Validated(o, 2) <=> c = "W3K027")
    BY RepairValidations
  <1>4. o.first = 1
    <2>1. 1 \in DOMAIN o.obs
      BY <1>3
    <2>2. o.obs # <<>>
      BY <2>1
    <2> QED
      BY <2>2, <1>1 DEF RunSound
  <1>5. \A i \in DOMAIN o.obs : o.obs[i].purpose = "metric_value_contract"
    <2>1. RangeOf(ExpectedTriples[c]) = {"metric_value_contract"}
      BY TriplesAre
    <2>2. {o.obs[i].purpose : i \in DOMAIN o.obs} = {"metric_value_contract"}
      BY <2>1 DEF Fair
    <2> QED
      BY <2>2
  <1>6. Cardinality({1, 2}) = 2 /\ Cardinality({2}) = 1 /\ Cardinality({}) = 0
    <2>1. IsFiniteSet({2}) /\ Cardinality({2}) = 1
      BY FS_Singleton
    <2>2. 2 \in Nat /\ {1, 2} = 1 .. 2
      OBVIOUS
    <2>3. Cardinality(1 .. 2) = 2
      BY <2>2, IntervalSize
    <2> QED
      BY <2>1, <2>2, <2>3, FS_EmptySet
  <1> DEFINE matching == {i \in DOMAIN o.obs : o.obs[i].purpose \in {"metric_value_contract", "confirm_decline"}}
  <1> DEFINE valid == {i \in matching : Validated(o, i)}
  <1>7. matching = {1, 2}
    BY <1>3, <1>5
  <1>8. valid = IF c = "W3K027" THEN {2} ELSE {}
    BY <1>3, <1>7
  <1>9. /\ Cardinality(matching) = 2 /\ o.first \in matching /\ \A j \in matching : o.first <= j
        /\ IF c = "W3K027" THEN Cardinality(valid) = 1 ELSE valid = {}
    <2>1. Cardinality(matching) = 2
      BY <1>6, <1>7
    <2>2. o.first \in matching /\ \A j \in matching : o.first <= j
      BY <1>4, <1>7
    <2>3. c = "W3K027" => Cardinality(valid) = 1
      BY <1>6, <1>8
    <2>4. c # "W3K027" => valid = {}
      BY <1>8
    <2> HIDE DEF matching, valid
    <2> QED
      BY <2>1, <2>2, <2>3, <2>4
  <1>10. \E v \in RangeOf(o.vals) : v.obs = o.first /\ ~v.valid
    BY <1>3, <1>4 DEF RangeOf
  <1>11. SuiteScore(c, o) = Suited(<<Bijective(o) /\ Cardinality(matching) = 2 /\ o.first \in matching
                                       /\ \A j \in matching : o.first <= j,
                                     \E v \in RangeOf(o.vals) : v.obs = o.first /\ ~v.valid,
                                     IF c = "W3K027" THEN Cardinality(valid) = 1 ELSE valid = {}>>)
    BY <1>2 DEF SuiteScore
  <1>12. /\ r.case = c /\ r.refs = ValidationRefs(o) /\ r.firstObs = 1
         /\ r.validExecutes = Cardinality({i \in DOMAIN o.vals : o.vals[i].valid})
    <2>1. r.case = c /\ r.refs = ValidationRefs(o) /\ r.firstObs = o.first
      BY ScoredFields
    <2>2. r.validExecutes = Cardinality({i \in DOMAIN o.vals : o.vals[i].valid})
      BY DEF Scores, ScoredRecord, Record
    <2> QED
      BY <2>1, <2>2, <1>4
  <1>13. {i \in DOMAIN o.vals : o.vals[i].valid} = IF c = "W3K027" THEN {2} ELSE {}
    BY <1>3
  <1>14. r.validExecutes = IF c = "W3K027" THEN 1 ELSE 0
    BY <1>6, <1>12, <1>13
  <1>15. /\ Len(r.refs) = 2 /\ r.refs[1].obs = r.firstObs /\ ~r.refs[1].valid
         /\ (r.refs[2].valid <=> c = "W3K027")
    BY <1>1, <1>3, <1>12, RefsAre
  <1> HIDE DEF matching, valid
  <1>16. SuiteScore(c, o) = Suited(<<TRUE, TRUE, TRUE>>)
    BY <1>1, <1>9, <1>10, <1>11
  <1> DEFINE one == Len(r.refs) = 2 /\ r.refs[1].obs = r.firstObs
  <1> DEFINE two == Len(r.refs) > 0 /\ ~r.refs[1].valid
  <1> DEFINE three == IF c = "W3K027" THEN r.validExecutes = 1 /\ Len(r.refs) > 0
                                             /\ r.refs[Len(r.refs)].valid
                      ELSE r.validExecutes = 0
  <1>17. SafeSuiteScore(r) = Suited(<<one, two, three>>)
    BY <1>2, <1>12 DEF SafeSuiteScore
  <1>18. one = TRUE /\ two = TRUE
    BY <1>15
  <1>19. three = TRUE
    BY <1>14, <1>15
  <1> HIDE DEF one, two, three
  <1>20. SafeSuiteScore(r) = Suited(<<TRUE, TRUE, TRUE>>)
    BY <1>17, <1>18, <1>19
  <1> QED
    BY <1>16, <1>20

LEMMA FairBudget ==
    ASSUME NEW c, NEW o, NEW expected, NEW r, Scores(r, c, o, expected), Fair(c, o), c = "W3K029"
    PROVE  SuiteScore(c, o) = Suited(<<TRUE>>) /\ SafeSuiteScore(r) = Suited(<<TRUE>>)
  <1>1. c \in CaseIds /\ o \in Outcome /\ c \in {"W3K011", "W3K026", "W3K029"}
    BY DEF Fair
  <1>2. Suite[c] = "budget"
    BY <1>1 DEF Suite
  <1>3. /\ EvidencePurposes(c) # {}
        /\ score_evidence(c, o) = [required |-> Cardinality(EvidencePurposes(c)),
                                   verified |-> Cardinality(EvidencePurposes(c)), sufficient |-> TRUE]
        /\ score_evidence(c, o) # NoScore
    BY <1>1, FairEvidenceScore
  <1>4. score_evidence(c, o).sufficient = TRUE
    BY <1>3
  <1>5. Bijective(o) = TRUE
    <2>1. Bijective(o)
      BY <1>1, FairQueries
    <2> QED
      BY <2>1 DEF Bijective
  <1>6. SuiteScore(c, o) = Suited(<<Bijective(o) /\ score_evidence(c, o).sufficient>>)
    BY <1>2 DEF SuiteScore
  <1>7. SuiteScore(c, o) = Suited(<<TRUE>>)
    BY <1>4, <1>5, <1>6
  <1>8. /\ r.case = c /\ r.evidenceRefs = EvidenceRefs(c, o)
        /\ r.evidence = score_evidence(c, o)
    <2>1. r.case = c /\ r.evidenceRefs = EvidenceRefs(c, o)
      BY ScoredFields
    <2>2. r.evidence = score_evidence(c, o)
      BY <1>3 DEF Scores, ScoredRecord, Record
    <2> QED
      BY <2>1, <2>2
  <1>9. Cardinality(r.evidenceRefs) = 1
    <2>1. /\ EvidencePurposes(c) = {o.obs[i].purpose : i \in DOMAIN o.obs}
          /\ Cardinality(EvidenceRefs(c, o)) = Cardinality(EvidencePurposes(c))
      BY <1>1, FairEvidence, FairEvidenceRefs
    <2>2. o.obs \in Seq(Observation) /\ Len(o.obs) = 1
      BY <1>1, OutcomeParts DEF Fair
    <2>3. DOMAIN o.obs = {1}
      BY <2>2
    <2>4. EvidencePurposes(c) = {o.obs[1].purpose}
      BY <2>1, <2>3
    <2> QED
      BY <2>1, <2>4, <1>8, FS_Singleton
  <1> DEFINE check == r.evidence # NoScore /\ r.evidence.sufficient /\ Cardinality(r.evidenceRefs) = 1
  <1>10. SafeSuiteScore(r) = Suited(<<check>>)
    BY <1>2, <1>8 DEF SafeSuiteScore
  <1>11. check = TRUE
    BY <1>3, <1>4, <1>8, <1>9
  <1> HIDE DEF check
  <1> QED
    BY <1>7, <1>10, <1>11

LEMMA FairPolicy ==
    ASSUME NEW c, NEW o, NEW expected, NEW r, Scores(r, c, o, expected), Fair(c, o), c = "W3K030"
    PROVE  SuiteScore(c, o) = Suited(<<TRUE>>) /\ SafeSuiteScore(r) = Suited(<<TRUE>>)
  <1>1. c \in CaseIds /\ o \in Outcome /\ Traced(o) /\ ValidatedOnce(o) /\ JudgedIfValid(o)
    BY DEF Fair, RunSound
  <1>2. Suite[c] = "policy"
    BY <1>1 DEF Suite
  <1>3. DOMAIN o.obs = {1} /\ o.obs[1].result = "rejected"
    <2>1. o.obs \in Seq(Observation) /\ Len(o.obs) = 1
      BY <1>1, OutcomeParts DEF Fair
    <2> QED
      BY <2>1 DEF Fair
  <1>4. "rejected" \in Failed /\ "rejected" \notin Checked /\ "rejected" \notin Valid
    BY DEF Failed, Checked, Valid
  <1>5. o.judged = {}
    BY <1>1, <1>3, <1>4 DEF JudgedIfValid
  <1>6. o.vals = <<>>
    <2>1. DOMAIN o.vals = 1 .. Len(o.vals) /\ Len(o.vals) \in Nat
      BY <1>1, ValidationsDiffer
    <2>2. \A k \in DOMAIN o.vals : FALSE
      BY <1>1, <1>3, <1>4 DEF ValidatedOnce
    <2>3. o.vals \in Seq(Validation)
      BY <1>1, OutcomeParts
    <2>4. Len(o.vals) = 0
      <3>1. 1 \notin DOMAIN o.vals
        BY <2>2
      <3> QED
        BY <2>1, <3>1
    <2> QED
      BY <2>3, <2>4
  <1>7. o.repairs + o.structured = 0
    BY <1>1, <1>2 DEF Fair, ExpectedRepairs
  <1> DEFINE rejections == {i \in Executes(o.calls) : o.calls[i].result \in Failed}
  <1>8. Cardinality(rejections) = 1 /\ \A i \in rejections : o.calls[i].result = "rejected"
    <2>1. PICK f \in [DOMAIN o.obs -> Executes(o.calls)] :
             /\ \A i, j \in DOMAIN o.obs : f[i] = f[j] => i = j
             /\ \A z \in Executes(o.calls) : \E i \in DOMAIN o.obs : f[i] = z
             /\ \A i \in DOMAIN o.obs : /\ o.calls[f[i]].purpose = o.obs[i].purpose
                                        /\ o.calls[f[i]].result = o.obs[i].result
      BY <1>1, TracedPairs
    <2>2. 1 \in DOMAIN o.obs
      BY <1>3
    <2>3. f[1] \in Executes(o.calls) /\ o.calls[f[1]].result = "rejected"
      BY <2>1, <2>2, <1>3
    <2>4. \A z \in Executes(o.calls) : z = f[1]
      BY <2>1, <1>3
    <2>5. rejections = {f[1]}
      BY <2>3, <2>4, <1>4
    <2> QED
      BY <2>3, <2>5, FS_Singleton
  <1>9. \A i \in DOMAIN o.obs : ~Restored(o, i)
    BY <1>3, <1>4 DEF Restored
  <1>10. /\ r.case = c /\ r.calls = o.calls
         /\ r.refs = <<>> /\ r.evidenceRefs = {} /\ r.budget.repairs = 0
    <2>1. /\ r.case = c /\ r.calls = o.calls
          /\ r.refs = ValidationRefs(o) /\ r.evidenceRefs = EvidenceRefs(c, o)
      BY ScoredFields
    <2>2. r.budget = BudgetScore(c, o)
      BY DEF Scores, ScoredRecord, Record
    <2>3. r.budget.repairs = 0
      BY <2>2, <1>7 DEF BudgetScore
    <2>4. ValidationRefs(o) = <<>>
      <3>1. DOMAIN o.vals = {}
        BY <1>6
      <3> QED
        BY <3>1 DEF ValidationRefs
    <2>5. EvidenceRefs(c, o) = {}
      BY FairEvidenceScore
    <2> QED
      BY <2>1, <2>3, <2>4, <2>5
  <1> DEFINE check == Cardinality(rejections) = 1
                        /\ (\A i \in rejections : o.calls[i].result = "rejected")
                        /\ (\A i \in DOMAIN o.obs : ~Restored(o, i)) /\ o.judged = {}
                        /\ o.repairs + o.structured = 0
  <1> DEFINE failures == {i \in Executes(r.calls) : r.calls[i].result \in Failed}
  <1> DEFINE again == Cardinality(failures) = 1
                        /\ (\A i \in failures : r.calls[i].result = "rejected")
                        /\ r.refs = <<>> /\ r.evidenceRefs = {} /\ r.budget.repairs = 0
  <1>11. SuiteScore(c, o) = Suited(<<check>>)
    BY <1>2 DEF SuiteScore
  <1>12. SafeSuiteScore(r) = Suited(<<again>>)
    BY <1>2, <1>10 DEF SafeSuiteScore
  <1>13. check = TRUE
    BY <1>5, <1>7, <1>8, <1>9
  <1>14. again = TRUE
    <2>1. failures = rejections
      BY <1>10
    <2> HIDE DEF failures, rejections
    <2> QED
      BY <2>1, <1>8, <1>10
  <1> HIDE DEF check, again
  <1> QED
    BY <1>11, <1>12, <1>13, <1>14

\* The suite's verdict on a fair outcome, derived twice, is that all is well.
LEMMA FairSuite ==
    ASSUME NEW c, NEW o, NEW expected, NEW r, Scores(r, c, o, expected), Fair(c, o)
    PROVE  r.suite.available /\ r.suite.conformant /\ r.suite = SafeSuiteScore(r)
  <1>1. r.case = c /\ c \in CaseIds
    BY ScoredFields DEF Fair
  <1>2. r.suite = SuiteScore(c, o)
    BY DEF Scores, ScoredRecord, Record
  <1>3. \A checks : Suited(checks).available
                      /\ ((\A i \in DOMAIN checks : checks[i]) => Suited(checks).conformant)
    BY DEF Suited
  <1>4. SuiteScore(c, o) = SafeSuiteScore(r)
          /\ SuiteScore(c, o) \in {Suited(<<>>), Suited(<<TRUE>>), Suited(<<TRUE, TRUE, TRUE>>)}
    <2>1. CASE c \in {"W3K001", "W3K011", "W3K026"}
      BY <1>1, <2>1, FairPlain
    <2>2. CASE c \in {"W3K027", "W3K028"}
      BY <2>2, FairRepair
    <2>3. CASE c = "W3K029"
      BY <2>3, FairBudget
    <2>4. CASE c = "W3K030"
      BY <2>4, FairPolicy
    <2> QED
      BY <1>1, <2>1, <2>2, <2>3, <2>4 DEF CaseIds
  <1>5. /\ Suited(<<>>).conformant /\ Suited(<<TRUE>>).conformant
        /\ Suited(<<TRUE, TRUE, TRUE>>).conformant
    <2>1. \A i \in DOMAIN <<>> : <<>>[i]
      OBVIOUS
    <2>2. ASSUME NEW i \in DOMAIN <<TRUE>> PROVE <<TRUE>>[i]
      <3>1. \A b : <<b>>[i] = b
        OBVIOUS
      <3> QED
        BY <3>1
    <2>3. ASSUME NEW i \in DOMAIN <<TRUE, TRUE, TRUE>> PROVE <<TRUE, TRUE, TRUE>>[i]
      <3>1. \A b : <<b, b, b>>[i] = b
        OBVIOUS
      <3> QED
        BY <3>1
    <2>4. Suited(<<>>).conformant
      BY <1>3, <2>1
    <2>5. Suited(<<TRUE>>).conformant
      BY <1>3, <2>2
    <2>6. Suited(<<TRUE, TRUE, TRUE>>).conformant
      BY <1>3, <2>3
    <2> QED
      BY <2>4, <2>5, <2>6
  <1>6. SuiteScore(c, o).available /\ SuiteScore(c, o).conformant
    BY <1>3, <1>4, <1>5
  <1> QED
    BY <1>2, <1>4, <1>6

\* So is the behaviour's.
LEMMA FairBehavior ==
    ASSUME NEW c, NEW o, Fair(c, o)
    PROVE  /\ score_behavior(c, o) = [action |-> TRUE, missing |-> TRUE, conformant |-> TRUE]
           /\ score_behavior(c, [behavior |-> o.behavior]) = score_behavior(c, o)
  <1>1. c \in CaseIds /\ o.behavior = IF c = "W3K001" THEN "clarify" ELSE "execute"
    BY DEF Fair, ExpectedBehavior
  <1>2. ExpectedBehavior[c] = IF c = "W3K001" THEN "clarify" ELSE "execute"
    BY <1>1 DEF ExpectedBehavior
  <1> QED
    BY <1>1, <1>2 DEF score_behavior

\* What the contract derives again from the record is what the scorers said.
LEMMA FairVerdicts ==
    ASSUME NEW c, NEW o, NEW expected, NEW r, Scores(r, c, o, expected), Fair(c, o)
    PROVE  VerdictsAgree(r)
  <1>1. /\ r.case = c /\ r.observed = o.behavior /\ r.status = o.status /\ r.reason = o.reason
        /\ r.calls = o.calls /\ r.expected = expected /\ r.models = o.models
        /\ r.accounted = o.accounted
    BY ScoredFields
  <1>2. c \in CaseIds /\ <<o.status, o.reason>> = ExpectedTerminal[c]
    BY DEF Fair
  <1>3. r.suite.available /\ r.suite.conformant /\ r.suite = SafeSuiteScore(r)
    BY FairSuite
  <1>4. r.behavior = score_behavior(c, o)
    BY DEF Scores, ScoredRecord, Record
  <1>5. r.behavior = score_behavior(r.case, [behavior |-> r.observed]) /\ r.behavior.conformant
    BY <1>1, <1>4, FairBehavior
  <1>6. r.identified = (r.models # <<>> /\ r.accounted /\ RangeOf(r.models) = {r.expected})
    <2>1. r.identified = (o.models # <<>> /\ o.accounted /\ RangeOf(o.models) = {expected})
      BY DEF Scores, ScoredRecord, Record
    <2> QED
      BY <2>1, <1>1
  <1>7. SuiteScore(c, o).conformant
    <2>1. r.suite = SuiteScore(c, o)
      BY DEF Scores, ScoredRecord, Record
    <2> QED
      BY <2>1, <1>3
  <1>8. r.repaired = IF Suite[c] # "repair" THEN "na" ELSE IF c = "W3K027" THEN "yes" ELSE "no"
    BY <1>7, ScoredClaims
  <1>9. Suite[c] = "repair" <=> c \in {"W3K027", "W3K028"}
    BY <1>2 DEF Suite, CaseIds
  <1>10. /\ (r.repaired = "yes") = (r.case = "W3K027" /\ r.suite.conformant)
         /\ (Suite[r.case] = "repair") = (r.repaired # "na")
    BY <1>1, <1>3, <1>8, <1>9
  <1>11. r.refused = (IF ExpectedBehavior[c] = "execute" THEN "na"
                      ELSE IF score_behavior(c, o).conformant /\ TerminalOk(c, o) /\ o.calls = <<>>
                           THEN "yes" ELSE "no")
    BY ScoredClaims
  <1>12. (r.refused = "yes") = /\ ExpectedBehavior[r.case] # "execute" /\ r.behavior.conformant
                               /\ <<r.status, r.reason>> = ExpectedTerminal[r.case]
                               /\ r.calls = <<>>
    BY <1>1, <1>4, <1>11 DEF TerminalOk
  <1> QED
    BY <1>1, <1>3, <1>5, <1>6, <1>10, <1>12 DEF VerdictsAgree, RefusalAgrees

LEMMA FairAccepted ==
    ASSUME NEW c, NEW o, NEW expected, NEW r, Scores(r, c, o, expected), Fair(c, o),
           RangeOf(o.models) = {expected}, expected # Bearer
    PROVE  ContractAccepts(r)
  <1>1. ~r.failure
    BY ScoredFields
  <1>4. ModelIdentifiers(r)
    <2>1. r.models = o.models /\ r.expected = expected
      BY DEF Scores, ScoredRecord, Record
    <2> QED
      BY <2>1 DEF ModelIdentifiers
  <1>2. ScoresDerived(r)
    BY ScoredDerived DEF Fair
  <1>3. TraceAgrees(r) /\ LinksAgree(r) /\ VerdictsAgree(r)
    BY FairTrace, FairLinks, FairVerdicts
  <1> QED
    BY <1>1, <1>2, <1>3, <1>4 DEF ContractAccepts

LEMMA FairWithinBudget ==
    ASSUME NEW c, NEW o, Fair(c, o)
    PROVE  BudgetScore(c, o).conformant
  <1>1. c \in CaseIds /\ o \in Outcome /\ RunSound(c, o) /\ o.untraced = "none"
        /\ o.repairs = ExpectedRepairs[c]
    BY DEF Fair
  <1>2. Len(o.calls) \in Nat
    <2>1. o.calls \in Seq(Trace)
      BY <1>1, OutcomeParts
    <2> QED
      BY <2>1
  <1>3. Len(o.calls) <= MaxToolCalls(c)
    BY <1>1, <1>2 DEF RunSound
  <1>4. CallsOf(o.calls, "execute_sql") <= MaxExecuteCalls
    BY <1>1, ExecutesCounted DEF RunSound
  <1>5. CallsOf(o.calls, "profile") <= MaxProfileCalls
    BY <1>1 DEF RunSound
  <1>6. o.repairs + o.structured <= MaxRepairs
    BY <1>1 DEF RunSound, RepairsShared, MaxRepairs
  <1>7. (o.repairs + o.structured) - o.structured = o.repairs
    BY <1>1, OutcomeParts
  <1>8. /\ Counted(o, "execute_sql") <= MaxExecuteCalls
        /\ Counted(o, "profile") <= MaxProfileCalls
    BY <1>1, <1>4, <1>5, CountedIs
  <1>9. Len(o.calls) + (IF o.untraced = "none" THEN 0 ELSE 1) <= MaxToolCalls(c)
    BY <1>1, <1>2, <1>3
  <1> QED
    BY <1>1, <1>6, <1>7, <1>8, <1>9, ConformantIs

LEMMA FairPasses ==
    ASSUME NEW c, NEW o, NEW expected, NEW r, Scores(r, c, o, expected), Fair(c, o),
           RangeOf(o.models) = {expected}
    PROVE  Passed(r)
  <1>1. <<r.status, r.reason>> = ExpectedTerminal[r.case] /\ ~r.failure /\ r.error = "none"
    <2>1. r.case = c /\ r.error = "none" /\ ~r.failure /\ r.status = o.status /\ r.reason = o.reason
      BY ScoredFields
    <2> QED
      BY <2>1 DEF Fair
  <1>2. r.suite.conformant
    BY FairSuite
  <1>3. r.final # NoScore => r.final.strict
    <2>1. r.final = FinalScore(c, o)
      BY ScoredFields
    <2> QED
      BY <2>1, FairFinal
  <1>4. r.behavior.conformant
    <2>1. r.behavior = score_behavior(c, o)
      BY DEF Scores, ScoredRecord, Record
    <2>2. r.behavior = [action |-> TRUE, missing |-> TRUE, conformant |-> TRUE]
      BY <2>1, FairBehavior
    <2> QED
      BY <2>2
  <1>5. r.tool.conformant
    <2>1. r.tool = score_tool_trace(c, o.calls)
      BY DEF Scores, ScoredRecord, Record
    <2> QED
      BY <2>1, FairTools DEF AllWell
  <1>6. r.evidence # NoScore => r.evidence.sufficient
    <2>1. r.evidence = IF EvidencePurposes(c) = {} THEN NoScore ELSE score_evidence(c, o)
      BY DEF Scores, ScoredRecord, Record
    <2>2. ASSUME r.evidence # NoScore PROVE score_evidence(c, o).sufficient
      <3>1. c \in {"W3K011", "W3K026", "W3K029"}
        BY <2>1, <2>2, FairEvidenceScore
      <3> QED
        BY <3>1, FairEvidenceScore
    <2> QED
      BY <2>1, <2>2
  <1>7. r.budget.conformant
    <2>1. r.budget = BudgetScore(c, o)
      BY DEF Scores, ScoredRecord, Record
    <2> QED
      BY <2>1, FairWithinBudget
  <1>8. r.identified
    <2>1. o.models # <<>>
      <3>1. RangeOf(<<>>) = {}
        BY DEF RangeOf
      <3> QED
        BY <3>1
    <2>2. r.identified = (o.models # <<>> /\ o.accounted /\ RangeOf(o.models) = {expected})
      BY ScoredClaims
    <2> QED
      BY <2>1, <2>2 DEF Fair
  <1> QED
    BY <1>1, <1>2, <1>3, <1>4, <1>5, <1>6, <1>7, <1>8 DEF Passed

LEMMA DeservedPassed == Week3Inv => DeservedPasses
  <1> SUFFICES ASSUME Week3Inv, NEW k \in DOMAIN records, outcomes[k].error = "none",
                      Deserved(cases[k], outcomes[k].outcome, records[k].expected)
               PROVE  Passed(records[k])
    BY DEF DeservedPasses
  <1>1. /\ k \in DOMAIN outcomes /\ k \in DOMAIN cases /\ cases[k] \in CaseIds
        /\ Finished(cases[k], outcomes[k].outcome)
    <2>1. /\ DOMAIN records = 1 .. Len(records) /\ Len(records) \in Nat
          /\ cases \in Seq(CaseIds) /\ outcomes \in Seq([outcome : Outcome, error : Errors])
          /\ Len(outcomes) <= Len(cases) /\ Len(records) <= Len(outcomes)
      BY DEF Week3Inv, ControlInv
    <2>2. k \in DOMAIN outcomes /\ k \in DOMAIN cases
      BY <2>1
    <2> QED
      BY <2>1, <2>2 DEF Week3Inv
  <1>2. RecordOf(k) /\ records[k].expected = ExpectedModel
    BY RecordFacts DEF Week3Inv
  <1>3. /\ Fair(cases[k], outcomes[k].outcome)
        /\ RangeOf(outcomes[k].outcome.models) = {ExpectedModel}
    BY <1>1, <1>2, DeservedIsFair DEF Deserved
  <1>4. PICK r : Scores(r, cases[k], outcomes[k].outcome, ExpectedModel)
    BY DEF Scores
  <1>7. ExpectedModel # Bearer
    BY ExpectedPriced, BearerAssumption DEF Priced
  <1>5. ContractAccepts(r) /\ Passed(r)
    BY <1>3, <1>4, <1>7, FairAccepted, FairPasses
  <1>6. records[k] = r
    BY <1>2, <1>4, <1>5 DEF RecordOf, Scores
  <1> QED
    BY <1>5, <1>6

\* The second derivation fails no outcome that did what the protocol wants:
\* whatever the case, if the run's terminal, questions, results, repairs and
\* models are the protocol's, models.py derives from the sanitized record the
\* verdicts the scorers reached, accepts it, and `passed` is true.
THEOREM DeservedAlwaysPasses == Spec => []DeservedPasses
  BY Week3InvHolds, DeservedPassed, PTL
=============================================================================
