# A TLA+ model of the governed analytics agent

The service accepts a question over HTTP, runs a bounded analysis agent on it in
a background task, and lets clients poll the outcome and follow the run's events
over a resumable stream.  Around it are command line tools that generate the
dataset and evaluate models and the agent.  This directory models the parts
whose correctness depends on the order of things or on several pieces of code
that must agree: the event store and its streams, up to the SSE response; the
runner that keeps a run's record, its log and its task consistent; the budget
ledger with the invoker behind the agent's model calls; the graph of nodes that
uses them; the publication of the dataset and of evaluation reports; and the
evaluations, which derive the same verdicts more than once.

    tlc -config MCEventStore.cfg MCEventStore        # and so on, see "Runs"
    tlapm SseStreamProofs.tla                            # and the other *Proofs modules

## 1. The system

| part | source (under `src/src/governed_analytics`) | state it keeps | operations | modelled |
|---|---|---|---|---|
| event store | `runtime/events.py` `InMemoryEventStore` | per run a buffer: events, terminal, started, active_streams, deleted, owner | create_run, emit, emit_terminal, delete_run, open_stream, reads | `EventStore` |
| event stream | `runtime/events.py` `_OpenedEventStream` | read task, close task, closing/closed, lease; a generator's cursor and batch | `__anext__`, aclose | `EventStore` |
| run store | `runtime/runs.py` `InMemoryRunStore` | per run a record: queued / running / terminal, outcome, times | create, mark_running, complete, delete_queued, delete_terminal, expired ids | `AnalysisRunner` |
| runner | `runtime/runs.py` `AnalysisRunner` | tasks, owner tokens, terminalizing, accepting, fail-stop, lock, semaphore | submit, get, wait, shutdown, `_execute`, pruning | `AnalysisRunner` |
| budget ledger | `runtime/budgets.py` | snapshot of counters and costs, open reservations | reserve, settle, fail, consume_* | `BudgetLedger` |
| model invoker | `agent/modeling.py` | the trace recorder's model calls; per invocation its reservation | invoke: reserve, call, settle or fail, repair once | `ModelInvoker` |
| agent graph | `agent/graph.py`, `agent/nodes/*` | the LangGraph state | plan, act, validate, repair, replan, synthesize, finalize | `AgentGraph` |
| HTTP API | `api/*` | the container; `_SseEventIterator`: read and close tasks | POST, GET, SSE, lifespan | `SseStream` (the event stream) |
| tools, SQL safety, metrics | `tools/*`, `safety/*`, `metrics/*` | none | pure functions and SQL | no |
| data generation | `data_generation/*` | files of a published snapshot, twelve tables | generate, load, publish, roll back, verify | `DatasetPublication` |
| report publication | `evals/reporting.py`, `evals/week2_reporting.py`, `evals/week3/reporting.py` | staging and final directories | reserve, write, publish, clean up | `ReportPublication` |
| one-pass evaluations | `evals/runner.py`, `evals/week2_runner.py`, `evals/*scorers.py`, `pricing.py`, `models/openai_compatible.py` | case records, identities, a reference report | generate, price, execute, score, compare | `OnePassEvaluation`, `ResultScoring` |
| agent evaluation | `evals/week3/*` | outcomes and case records | run a case, score, record, report | `Week3Evaluation` |

How they interact.  `POST /v1/analyses` calls `submit`, which stores a record,
opens a log, publishes `run.created` and starts a task; everything in one
critical section (`_prune_lock`).  The task marks the run running, publishes
`run.started`, calls the agent under a timeout, stores the outcome in the record
and then publishes `run.terminal`.  The agent publishes through a `BoundEventSink`
and calls models through the invoker, which reserves and settles in the ledger.
`GET .../events` opens a stream with the client's `Last-Event-ID`; a stream
holds a lease (`active_streams`), and pruning, which submissions and finished
tasks do under the same lock, leaves leased logs alone.  The response iterates
`_SseEventIterator`, which iterates the opened stream from a task of its own.
The tools run as processes of their own: generation and evaluation share the
dataset's files and the database, and evaluation publishes into a directory
that other processes and users have access to.

What is hard in it, and what makes each part correct:

* *Streams*: three coroutines per stream, each of which can be cancelled or finish
  first.  Correct: the lease is returned once and always; no event is skipped or
  repeated within a stream; a reconnect resumes exactly behind the last event
  received; no reader sleeps while there is something to read.
* *Runner*: a run lives in two stores and a task, every store call may fail
  before or after taking effect, requests are cancelled, shutdown and fail-stop
  happen in between.  Correct: log and record stay matched, the terminal event
  says what the record says, refused submissions leave nothing, accepted runs
  end, nothing is accepted after the stop, the service does not stop itself
  without cause.
* *Ledger and invoker*: a reservation is settled or charged exactly once, whatever
  happens to the call; limits are never exceeded.
* *Graph*: the loop terminates, with a stop reason that matches what happened.
* *SSE iterator*: the same read/close protocol one level up, stacked on the first:
  a disconnect, a cancelled response and a failing read meet in two layers of
  tasks.  Correct: what a client is sent is the log, once and in order; a
  cursor that was given out is honoured; the lease comes back.
* *Publication of files*: several file operations, each of which may fail or be
  the last, and nobody holds a lock.  Correct: a dataset is of one version, a
  report is whole and is never replaced, a failure leaves nothing of its own and
  deletes nothing of others.
* *Evaluations*: contracts check again what the code before them decided, and a
  record they refuse may cost a paid run.  Correct: nothing is lost (but see 6), a case
  passes exactly if it deserves to, a complete cost is the true one.

## 2. The modules

| module | models |
|---|---|
| `ReplayLog` | the promise of the event store: append-only logs, cursors that move one event at a time |
| `EventStore` | `runtime/events.py`, refines `ReplayLog` |
| `RunLifecycle` | the promise of the runner to those who poll a run or read its log |
| `AnalysisRunner` | `runtime/runs.py`, refines `RunLifecycle` |
| `AnalysisRunnerProofs` | theorems about it, for any runs, outcomes, limits, retries and failures |
| `BudgetLedger` | `runtime/budgets.py`: the operations of the ledger, as actions without an actor |
| `ModelInvoker` | `agent/modeling.py` over `BudgetLedger` |
| `AgentGraph` | `agent/graph.py` and `agent/nodes/` over `ModelInvoker`, which it refines |
| `AgentGraphProofs` | theorems about `ModelInvoker` and its ledger, for all limits, costs and purposes; from them about the graph, and about whole runs: copies, soft cap, rounds and answers |
| `SseStream` | `api/routes.py`: requests and `_SseEventIterator`, composed with `EventStore` |
| `SseStreamProofs` | theorems about `EventStore`, for every value of its constants, and from them about `SseStream` |
| `DatasetPublication` | `data_generation/pipeline.py`, `loader.py`, `cli.py` |
| `DatasetPublicationProofs` | theorems about it, for any processes, tables, versions and bounds |
| `ReportPublication` | the three report publishers of `evals/` |
| `ReportPublicationProofs` | theorems about it, for any finite set of publishers and any parts |
| `ResultScoring` | the three scorers of `evals/`, as operators |
| `OnePassEvaluation` | weeks 1 and 2 of `evals/`, over `ResultScoring` |
| `OnePassEvaluationProofs` | theorems about it, for any programmes, cases, results, prices and identities, and about the scorers |
| `SumLemmas` | lemmas about sums over finite sets and sequences, which the proofs of costs use |
| `Week3Evaluation` | `evals/week3/runner.py`, `scorers.py`, `models.py` |
| `Week3EvaluationProofs` | theorems about it, for any programmes, identities and number of departures |
| `MC*` | instances for TLC: model values, symmetry, suites |

### EventStore

A buffer of the model is a `_RunBuffer`; a stream record holds a whole
`_OpenedEventStream`: where its caller is (`call`), its read task (`read`), its
close task (`close`), its generator (`gen`, `cursor`, `batch`) and its lease.  The
methods of the store take their locks uncontended and await nothing else while
they hold them, so each is one action; what interleaves is what asyncio
interleaves, the tasks of a stream.  `anext` starts a read; the read task advances
the generator by `GeneratorYield`, `GeneratorWait` (inside `condition.wait`) or
`GeneratorEnd`; the caller resumes by `ReturnEvent`, `ReturnFailure` and
`ReturnClosed`; `CancelCaller` cancels it wherever it is suspended, also a second
time while it gathers the read or awaits the shielded close; `aclose`,
`CloseJoins` and `CloseReleases` are the close.  `lastId` is the client's own
memory, what it would send as `Last-Event-ID`: it is not state of the program but
what the promises are about.  Payloads, timestamps and their validation are left
out, and so is the failure of a generator's `aclose` (its body has no `finally`
that could raise).

### AnalysisRunner

`record` is the run store, `log` what the runner can see of the event store,
`task` where the coroutine `_execute` of a run is suspended, `cs` the holder of
`_prune_lock` and the await it is suspended in.  Each await of a store call is an
action, so tasks, readers, other producers and time act between any two.  A store
call ends with a reply `x`: applied or not, raised or not (`Reply`), so that a
call can fail before or after its effect; a raise may be the cancellation of the
submitting request, which the code holds back (`_DelayedCancellation`) until the
submission is rolled back.  The store's own refusals (capacity, wrong status,
open streams, foreign owner) are computed, not chosen.

Abstractions: a run id is used by one submission, as `uuid4` gives it, so the
owner token of a run is the run itself and a log is *own* or *foreign*; of a
log's events only the three that the runner publishes are kept; a read that the
code repeats up to three times is one step that succeeds or exhausts its
attempts; the retries of calls that change something are kept (`Attempts`).
The outcome stands for the pair of status and stop reason and the rest of the
result.  A foreign producer never removes its log.

### BudgetLedger and ModelInvoker

`snapshot` is `_snapshot`, `reservations` is `_reservations`; the clock is the
flag `expired`, which `Clock` sets at any time and for good.  Costs are natural
numbers of a smallest unit, as the code's `Decimal`s are exact.  An operation
that raises `BudgetExceeded` changes nothing; its condition is the operator
`...Limit`, which is also the stop reason that the exception carries.

`phase` is where an invocation stands: awaiting its first answer, about to
consume a repair, about to reserve for it, awaiting the repair's answer.  The
code awaits only the model; the stretches between two awaits are cut where the
clock is read, so that the deadline can fall between the consumption of a repair
and the reservation of its call.  `Answered`, `FirstCallFailed` and
`RepairCallFailed` are the ways an answer comes in, each with any usage;
`Cancel` is the task's cancellation at the await.  `NodeConsumes` is what the
graph's nodes do with the ledger between two invocations.  The error categories are
abstracted to what decides about a repair, the payloads left out.

### AgentGraph

`node` is the node that runs, `at` where it stands, `st` the `AgentState` that
LangGraph passed to it.  A node works on a delta, which `Finish` merges; the
ledger and the trace recorder are shared objects that change at once
(`snapshot`, `traces`, `toolTraces`), and `asked` is the recorder's mark from
which `Recorded` takes the new calls into the delta.  A node is one action
between two awaits of a model or a tool, and is cut again after each consumption
from the ledger, so that the deadline may fall between `consume_tool` and the
call.  `Successor` is the routes.  Each `emit_domain_event` may be refused by the
sink; as in the code, the node then ends with `internal_error`, having charged
what it charged.  `CancelRun` is the runner's timeout or shutdown between two
model calls (during one it is `ModelInvoker!Cancel`).

Abstractions: the hypotheses of a plan are resolved in order, so the evidence is
a count and only the first of an attribution can be refuted; a tool's result is
one of what the validation tells apart (`QueryResults`: among them "unusable", which is
neither truncated nor to be repaired), or an error; what the
model answers is reduced to the choices the nodes make by it; the in-memory trace
recorder does not fail.  The bundles' contents, the SQL and its policy are left
out.

### SseStream

The module extends `EventStore` and replaces its consumers.  `sse[c]` is a request
of client `c` and its iterator; `sent[c]` is what has gone out to the client.
`ReadHighWater` and `Subscribe` are the two awaits of `sse_events`; between them
the log may grow or go.  The caller of the inner stream is here the outer read
task: `ReadStarts` and `ReadResumes` step it, with `EventStore`'s `ReturnEvent`,
`ReturnFailure` and `ReturnClosed` for the inner `__anext__`, and cancelling it is
`EventStore!CancelCaller`.  `SseNext` and `SseReturn...` are the iterator's
`__anext__` in the response, `SseCancelCaller` the cancellation of the response
at any await, `Disconnect` and `SseClose` the disconnect handler,
`SseCloseJoins`, `SseCloseInner` and `SseCloseDone` the shared close task.  A
client names the last event it was sent, nothing, or an event that it was never
sent; a malformed header is a refusal.  Left out: heartbeats; the branch of
`aclose` that resets a close task that raised, which nothing it awaits can make
raise.  A response that is cancelled between two reads, with no disconnect
noticed, closes nothing: that is the server library's promise, so the model
lets it happen and asks nothing of it.

### DatasetPublication

A file or a table is the version of the generator it was made by: generation is
deterministic.  Processes run one job after another, `generate` or `verify`, with
one action per file and per table; `torn` and `alone` are history: a
publication ended half-way since the last good one, and another process wrote to
the root during the job.  The database's lock on the truncated tables is
`txn`.  `JobFails` is any exception before the publication, `ReplaceFails` and
`RestoreFails` an `OSError` in it, `Interrupted` a ctrl-C or a kill, which no
handler of the publication catches.

### ReportPublication

`names` maps the names in the mode directory to directories, `content` a
directory to its entries, each the publisher's own, foreign or absent.  The
three harnesses take different ways through the same actions, chosen by `kind`.
An action is a check together with the system call that it guards where the code
makes them one (`mkdir`, `openat` with `O_EXCL`, a rename that never replaces), and
otherwise a step of its own, so that `SomebodyElse` acts in between: adds, removes
and replaces files, moves a directory aside, puts one at a free name.  `StepFails`,
`Interrupt`, `Kill` and `CleanupFails` are the ways to fail.  `Fail` says where each
harness goes from there: weeks 1 and 2 to the tree under the staging name
(`RemoveTree`), week 3 to the rmdir of that name if it could not verify its
reservation (`ReleaseName`, which takes whatever has the name, if it is empty), to the
quarantine if the published report does not validate, and else to its known entries
(`CleanEntry`).  Weeks 1 and 2 write a file by its path and over another one of the name
(`WritePart`); the first part is a directory, which `mkdir` never replaces.

### ResultScoring, OnePassEvaluation, Week3Evaluation

`ResultScoring` has the scorers as operators over cells with a type and a value,
in hundredths, and, for weeks 1 and 2, the comparisons that an `ArithmeticError`
leaves (`ScoringRaises`): a scalar, or the first pair of cells of a table or ranking
whose difference overflows, if nothing before it differs.  `OnePassEvaluation` runs weeks 1 and 2 after one another: a
provider's response is what the adapter can tell apart (`Generation`), the
price of it and the case's record follow, and `Record` applies the contract of the
report's model, whose refusal would raise out of the run (`"lost"`).  The second
week compares itself with the report of the first under a price record and a
dataset that may have changed.

`Week3Evaluation` takes the agent as a script per case from which it departs at
most `MaxDeviations` times: a query that fails, is rejected, truncated, wrong or
renamed, a wrong order, an early end, an answer that has to be repaired, a timeout,
an exception, a wrong identity.  At a timeout the ledger may have counted a tool that
the trace does not have (`untraced`), and any identity may have answered or none.
An outcome is scored by the scorers, and `ContractAccepts` derives the same from
the record, as the validators of `models.py` do; what is refused is recorded as a
scoring failure.  `Stranger` is an identity that is well formed and expected by
nobody; `Bearer` is one that begins with `bearer` and not with `bearer-`, which the
adapters let through (`models/agent_openai_compatible.py:38`, `agent/modeling.py:49`)
and `ModelIdentifiers` refuses in every record.  The seven cases are one of every kind of the protocol.

## 3. The runs

| run | question | bounds | states, time |
|---|---|---|---|
| `event_store` | safety of the streams and refinement of `ReplayLog` | one run, two clients (leases compete, one reads while the other closes), two owners, two events and the terminal one, two connections per client (a reconnect) | 45 s |
| `sse` | what a client is sent, resumption, leases and delivery through both layers, under fairness | one run, one client, three events, two connections | 1 min |
| `runner` | consistency under failing calls, refinement of `RunLifecycle` | two submissions, three failing calls, one foreign log, one stream per log, two attempts per loop (one success after a failure, and exhaustion) | 40 s |
| `runner_live` | accepted runs end and are announced, submissions are answered, shutdown drains | two submissions, one record, one failing call | 30 s |
| `agent_graph` | the state's copies agree with the ledger, the answer is allowed and reports the evidence, the soft cap stops what costs | the default counts of `config.py`; both analyses; costs 1 and 2, soft cap 9, hard cap 11, so that eight calls fit or five reach a cap | 2.1 M, 30 s |
| `agent_graph_tight` | the ledger's limits, one charge per reservation, truthful records, rounds, the deadline, refinement of `ModelInvoker`, termination | limits that each stop some run, two repairs, hard cap 7 | 102 k, 8 s |
| `dataset` | files and tables are of one version, rollbacks are exact, verification is truthful | two processes, three jobs, two tables and three evidence files, two versions, two faults | 5.0 M, 80 s |
| `publication` | nothing foreign is lost, nothing is replaced, reports are whole, failures leave nothing | two publishers of each harness, two parts and an extra entry, three interventions, two faults | 657 k, 30 s |
| `week3` | what alone can lose the run, passing and deserving agree | every kind of case alone, one live case, two live cases in a run, two departures | 212 k, 20 s |
| `one_pass` | nothing is lost, costs and comparisons are true, the scorers agree | a live run after a live or fixture run, changed prices and data, every response, results of every shape for each comparison | 1.7 M, 20 s |
| `agent_graph_truncation`, `agent_graph_provider` | violations: see "Findings" | as `agent_graph` | |

The bounds let every action fire and every retry loop be exhausted: two attempts
per loop instead of three, so that two failing calls exhaust it and a third
fails afterwards.  One call of the dearest kind reaches the soft cap of the tight
instance from the usual spending and two the hard cap, and a call may use more
than was reserved.  Two clients suffice for the streams because streams interact
only through the count of leases and the notifications of one buffer; in `sse`
one does, because its two layers interact with nothing else.  Two publishers and
two processes are all that a rename, a rollback or a table lock tells apart; two
faults are a failing step and a failing cleanup.  In `week3`, three departures
pass as well (4.8 million states).  `CHECK_DEADLOCK FALSE`: the system may
stop, when every run is pruned, the agent's run or the evaluation ends, or the
bounds on events, connections and faults are used up; `dataset` and `publication`
say when they are done instead.

`LogsSound`, `RunsWhole`, `LedgerSound`, `AnswerSound`, `RecordsTruthful` and
`RoundsCounted` are conjunctions of named invariants, each with its own comment in
its module.

Each property has a mutant, a definition beside the original that has the bug the
property is for: a lease that is not released, a deletion under open streams, an
append without notification, a commit without the last look at fail-stop, and so
on.  They are marked as broken, or as mutants, in the modules.

Fairness.  `SseStream!SseFairness`: the event loop runs every ready task, of both
layers; the response iterates until the iterator raises, and a disconnect runs
its handler, as `EventSourceResponse` does.  Nothing is assumed of writers,
requests, cancellations or disconnects.  `AnalysisRunner!Fairness`: the holder
of the lock and every task run on; the lock and the semaphore are asyncio's,
which are FIFO, so a waiting task gets them if they are free again and again
(strong fairness); the timeout expires even if the agent never returns.
`AgentGraph!GraphFairSpec`: the run is one coroutine, which the event loop resumes;
the calls it awaits are bounded by timeouts of the provider's adapter and the
tools.  That the deadline expires is not assumed.  Nothing
makes clients submit, readers detach, agents answer or the process shut down.

### Findings

`docs/superpowers/specs/2026-09-04-week-3-agent-api-design.md` lists how a run
ends.  In two cases the code disagrees:

* line 482: a truncated result is `partial` only if there is other evidence, else
  `execution_failed`.  `_deterministic_answer` (`synthesis.py:224`) answers
  `partial` before it looks at the evidence (`agent_graph_truncation`).
* line 484: an unavailable provider, if no answer can be formed, ends the run as
  `model_unavailable`.  When it was the repair node that asked, its handler
  (`execution.py:1342`) puts `repair_failed` in place of the reason, and the run
  ends as `execution_failed` (`agent_graph_provider`).

## 4. What is proved

Every safety invariant and every action property that a run checks is stated by a
theorem below.

The first part of `SseStreamProofs` is about `EventStore` alone and proves, for any
set of runs, owners and finite set of clients and for any bounds:

* `TypeCorrect`: `Spec => []TypeOK`;
* `LeaseCountCorrect`: `active_streams` counts the leases;
* `LogCorrect`: numbering and terminal event of every log;
* `LeasedLogSafe`: a leased log is kept (`LogsHold` joins the two);
* `WakeupCorrect`: no lost wake-up;
* `DeliveryCorrect`: nothing skipped;
* `RefinesReplayLog`: `EventStore` implements `ReplayLog`, initial states and steps
  both.

The argument goes up in layers, each inductive given the ones below it.  `Base`
(types, a stream with a lease names a run, buffers not yet created are empty) is
inductive alone.  `LeaseCountExact` needs `Base`: an action changes the lease of
one client at a time, so the cardinality changes by one with the counter.
`LogWellFormed` is inductive over the appends.  `PositionOK` strengthens
`LeasedLogKept`: the batch of a stream consists of the events that follow its
cursor, in order, and ends inside the log; a deletion is impossible because an
exact count of zero means that no stream is leased.  `AllInStep` strengthens
`NothingSkipped` by where the three coroutines are: a cursor can be ahead of the
client only while a read that succeeded has not been returned.  For the
refinement each action is one step of the promise or none: an append is
`Publish`, a deletion can only be `Drop` because the count of leases is exact, and
the step by which a client receives an event is `Deliver` because of `AllInStep`.
The assumptions are those of the module: the sentinels are no runs or owners, the bounds are
naturals and `Clients` is finite.

Its second part proves of `SseStream`, for any number of clients and runs:

* `SseTypesCorrect`: `SseSpec => []SseTypeOK`;
* `SseStoreSound`: the store keeps its promises under these consumers too;
* `SentInOrderHolds`: a connection sends event after event, each while the iterator
  is open and from a log that still holds it;
* `ResumptionAlwaysHonoured`: who resumes after the last event it was sent is never
  told that its cursor is ahead.

Each step of the composition does to the store what a step of `EventStore` does,
or cancels a caller; the lemmas of the first part about single actions therefore
carry `StoreInv` over.  What is new is `Links`, which holds of each client alone:
the outer read task is inside the inner stream exactly when it runs, the event
it brings is the one after the last that was sent, and the inner stream is closed
only when no read is under way.  `InLog` says that what a client was sent of a log
that exists is in it, which is what makes the comparison with the high-water mark
come out right although the log may have grown or gone since the mark was read.

`AnalysisRunnerProofs` proves, for any runs, outcomes, capacities and attempts, and
any number of failing calls, other producers and streams:

* `TypeCorrect`: types, and who may hold the lock (`Held`);
* `RunsAgree`: `Spec => []RunsWhole`, record, log and task of a run agree;
* `NothingElse`: what no step does to a run or to another producer's log;
* `StopIsFinal`: nothing is accepted after fail-stop or the start of a shutdown;
* `RefinesLifecycle`: `AnalysisRunner` implements `RunLifecycle`, initial states and
  steps both;
* `StopsOnlyForCause`: with `Attempts >= 2`, the service stops itself only if a store
  call failed or another producer has a log under one of its ids.

`RunsWhole` speaks of a run at rest, so the invariant `Inv` says what is true of
one in motion.  `SubmissionAt` gives, for each await a submission can be suspended
in, what it has in the two stores: a queued record but no log at `open_log`, both at
`commit`, a record without a log again at `del_record`.  `PruneAt` does the same for
the run being pruned: it is expired or gone, and its log goes first.  `RecordInv`,
`LogInv` and `TaskInv` hold of each run alone: who is accepted has a task, a running
run has its log, a task that publishes has its outcome in the record.  `StopInv`
says that a shutdown finds no submission under way.  `SectionInv`, `LeaveInv`,
`AbortInv` and `OutsideInv` are the four ways a step can change this (the section
goes on, ends, fails; something outside of it moves), so that each action has to see
to its own run only.  For the last three theorems `StepEffect` sums up what any step
does to the stores: it changes at most one run, by one of the seven steps of the
life cycle (`Effect`).

`NoSpuriousFailStop` needs an invariant of its own, about the states in which no call
has failed and no log is foreign (`Quiet`).  `Calm` says that nothing is in doubt in
them: no task is at a read that follows a failed call, each task's record and log are
where its point expects them, and the section never gives up.  The last is where
`Attempts` matters: even if no store call fails, the cancellation of a request
spoils one attempt of a deletion, so `FirstTry` and `Unspoilt` say that a loop is in
its second attempt only if the one cancellation was spent on it.  `NotBegun`, that
the log of a submission which is not accepted has no reader and no `run.started`,
makes its deletion succeed.  With one attempt the property is false; the code makes
three (`range(3)`).

The assumptions are `ConfigAssumption` and
`SentinelAssumption`; neither fairness nor a finite set of runs is needed.

The first part of `AgentGraphProofs` is about `ModelInvoker` and `BudgetLedger` and
proves, for all limits, costs and purposes that satisfy the modules' assumptions:

* `TypeCorrect`: `Spec => []TypeOK`;
* `ReservationsEnd`: money is reserved exactly for the awaited call;
* `LedgerHolds`: the hard cap, the exact soft cap, every limit and the snapshot's
  inequalities;
* `DeadlineHolds`, `CommitmentHolds`: two action properties; the second,
  `CommitmentKept`, is proved only;
* `RecordsHold`: `RecordsTruthful`: one trace per call that ended, the costs of the
  traces add up to the ledger's, and a repair's record tells what happened to it.

The inductive invariant is `TypeOK`, `ReservedForCall` and the ledger's
inequalities (`LedgerInv`).  `WithinHardCap` is not inductive alone: that a
settlement moves no more than was reserved needs the reservation to be part of
`reserved`, which is `ReservedForCall`.  The costs of the traces are a sum of the
library, which recurs on the subsets of their indexes.  `SumLemmas` shows of such a
sum, for any finite set, that it is natural (`SumIsNat`), that any element may be
taken out of it first (`SumWithout`), and that equal values have equal sums: each by supposing the contrary
and taking a subset that is minimal (`MinimalSubset`), which is induction without
an induction principle.

Its second part proves of the graph, for all limits, costs, plans and tool errors:

* `GraphImplementsInvoker`: each step of the graph is a step of `ModelInvoker` or
  leaves the ledger and the invoker alone;
* `RunWithinLimits`: so what is proved of the invoker holds of every run;
* `GraphTypeCorrect`: `GraphSpec => []GraphTypeOK`;
* `RoundReserved`: the round found free is free when it is counted;
* `EvidenceWithinPlan`: a hypothesis is pending as long as one is being tested.

The invariant `GInv` adds two facts to the types and to `LoopReserved`.  The
evidence stays within `0 .. 4` only because a hypothesis is pending from
`route_action` to `judge_evidence` (`EvidenceInPlan`), through the repair loop;
the verdict and the stop reason keep their types only because what a node observed
fits the action it took (`ObservationFits`): `validate_profile` copies the
observation into the stop reason.  Each node has a lemma; `FinishKeeps` says
what any node must have seen to of its delta.

Its third part proves of whole runs, under the same assumptions:

* `CopiesAlwaysAgree`: between two nodes the state's traces are the recorder's and
  its governance is the ledger's, whatever failed;
* `CallsInState`: so every call the ledger counted is in the state, once;
* `NothingNewHolds`: nothing new is begun once the soft cap is reached;
* `RoundsCountedOnce`: an execution is counted as one round, a repaired one as none,
  a repaired result is told from a new one, and no run ends on the execute limit;
* `AnswersSound`: every answer is one its validator accepts, and reports the evidence.

It begins with a lemma per node that says which fields the node changes and to
what; the invariants are proved from these effects alone, in this order.  `CopyInv`
says what the state lacks while a node runs: the traces since its mark, and the
tool call that is traced before it is merged.  `CapInv` names the points where a
node may begin something, and says that the cap was not reached there, because the
node or the one before it looked and nothing was spent since.  `AnswerInv` says of
the stop reason before the answer what `EvidenceReported` says of the answer after
it.  `RoundsInv` balances executions against rounds and repairs at every point, with
the round under way (`Executed`) and the repair that is due (`RepairDue`); from it
follows that `_pending_result_repair` guesses right.

`DatasetPublicationProofs` proves, for any processes, tables, versions of the
generator and bounds:

* `TypeCorrect`: `TypeOK`, and that a job is only where its kind allows;
* `LoadCorrect`: the tables are of one version in every committed state;
* `SnapshotsWhole`: between publications the files and the tables are each of
  one version, unless the history says what tore them;
* `RollbackExact`: a re-raised error of a replacement has restored every file;
* `VerificationHolds`: a successful verification vouches for all the files.

`SnapshotWhole` speaks of the states in which nobody publishes, and nothing in it
says how far a publication is.  The invariant `PubInv` adds that, per process: what
its backup was taken from (`BaseInv`), that the files up to its index are new and
the others old (`RootInv`), or while rolling back the reverse, and what a
verification has read so far (`VerifyInv`); each holds only while the process is
`alone`.  `WritePub` is the lemma that any write of one file by one process keeps
it.  The arithmetic of the indices over `ArtifactOrder` is in `ArtifactFacts`.
`LoadInv` is about the transaction only: the tables before the one being copied
are of the loader's version.  The assumptions are those of the module: the order of
the tables is a sequence of names without repetition, and the sentinel is no
process.

`ReportPublicationProofs` proves, for any finite set of publishers, any parts and
bounds and each of the three harnesses:

* `TypeCorrect`: `Spec => []TypeOK`;
* `NotOverwritten`: what has the final name keeps it, until its own publisher
  withdraws it or somebody else moves it;
* `ForeignNeverDeleted`: week 3 deletes no file it did not write;
* `PublishedIsWhole`: a report is complete from the moment it has the final name, and
  a publisher of week 2 or 3 that returns has its own directory there;
* `FailureIsClean`: a publisher that reports a failure it could clean up after leaves
  no reservation and, in week 3, no report.

`ForeignKept` is an equation between a counter and the number of foreign entries,
inductive with the types alone; each step changes the entries of one directory,
and the lemmas on cardinalities say by how much.  It is the reason why `Procs` is
assumed finite.  The last two theorems share `PlaceInv`, which says, as long as
nobody moved a reservation, that no directory has two names, that a publisher's has
the name its point calls for (`Named`) and, unless somebody changed it, exactly the
parts written so far (`Filled`).  `PublicationAssumption` says that none of the report's
parts has the name of the entry that stands for files of others: otherwise a
whole report would be one that lacks a part.

`Week3EvaluationProofs` proves, for any programmes, identities and number of
departures from the scripts:

* `Week3TypesCorrect`: types of the control state, and that outcomes and records
  never run ahead of the cases;
* `RunLostByIdentityOnly`: the run is lost only if a model answered it under an
  identity that `ModelIdentifier` refuses, and then there is never a report; whatever
  else the scorers and the contract make of an outcome, its record is accepted at the
  latest as a scoring failure, and the records make a report;
* `PassedWasDeserved`: what passes did what the protocol asks for, and a run passes as
  a whole only if one priced model answered all of it;
* `DeservedAlwaysPasses`, the converse: an outcome that did what the protocol asks for
  is scored so, its record is accepted, and `passed` is true.

The invariant `Week3Inv` says of the run under way and of every finished outcome that
is not cut short what the agent loop made sure of (`RunSound`): each query has one
trace, in the same order (`TracedBy`), each checked result one validation
(`ValidatedOnce`), the evidence is what is valid (`JudgedIfValid`), and the lookups come
first.  Of a record it says that it is the scored one, or the scoring failure of an
outcome whose scored record the contract refuses, and that the contract accepted it.
That the scoring failure is always accepted, but for its identities, needs that the
budget counts what the trace shows; that the report is, that all records were scored with one expected
model, which in a fixture run is the requested one.
`PassedWasDeserved` takes its facts from the verdicts of a passing record (`PassFacts`) and
combines them with `RunSound`: the multiset of the traced purposes is that of the
observations; each question of a scored case was asked once, so the one linked
candidate that is right is its only query; a first validation that is not valid
can only be renamed columns; and the terminal says how the last query went.

`DeservedAlwaysPasses` goes the other way.  `DeservedIsFair` spells out, per case, what an
outcome that is deserved looks like (`Fair`), and each part of the contract is shown
of its scored record by itself: the trace (`FairTrace`), the links (`FairLinks`: the
trace, the observations and the validations are paired one to one, so their multisets
are the same, `MultisetByPairs`), the suites' verdicts derived twice (`FairSuite`) and the
remaining ones (`FairVerdicts`).  So the contract accepts the scored record, and the
invariant says that it is then the one recorded.

The assumptions are `ProgrammesAssumption` (`evals/week3/models.py:1143`,
`suites.py:556`), `NoScoreAssumption` (`None` is no score), `DeviationsAssumption` and `BearerAssumption` (no model is asked
for, and none has a price, under a name that the report refuses).

`OnePassEvaluationProofs` proves, for any programmes, cases, results, prices and
identities that satisfy the module's assumptions:

* `OnePassSound`: `Spec => []RunInv`, types and what is known of the case under way;
* `NothingLost`: no generation, failure or score makes a record that its contract
  refuses, so a paid run is not lost;
* `CostIsTrue`: a complete cost is the sum of what each call cost, every one of
  them priced;
* `ComparableHolds`: two reports are called comparable only if both runs were live,
  on the same data, answered by the same priced identities, and the first one's
  cost is what the second's prices make of its tokens;
* `VerdictsHold`: a recorded verdict is right (`Right` is the definition that mentions no
  scorer), week 3's scorer gives the same, and week 1's differs only by what it
  leaves open, the order and the extra rows of a ranking.

`RunInv` adds to the types what `OnePassNothingLost` needs: a case under way is an
execute case of the programme and its answer one of its results (`CaseInv`); the
generation is the adapter's of the last call, an error has one of the adapter's
categories, and what is executed was found within the price bracket and, in week 2,
from a priced identity (`GenInv`); a fixture run is free of costs and of pricing
failures (`FixtureInv`), without which the report's contract would refuse its cost.
A lemma per kind of record (`FailureAccepted`, `ScoredIs`, `SafetyAccepted`, ...) then shows
that the record contract accepts it, and a lemma per action (`Run...`) that `RunInv`
is kept.  `StepKinds` says which kinds of steps there are: checking the reference,
generating, accepting the price, executing, recording a case, publishing; the other
invariants are proved from what each kind does.

For `CostIsTrue`, `MoneyInv` relates two sums over different things: that of the
records, safety cases and failures included, to that of the calls whose cases are
recorded.  It holds only as long as every record has a price, as the code gives up
its claim with the first that has none.  `ModelsInv` says which calls' identities
have been collected, one fewer while a generation awaits its price, and
`BaselineInv` what the published reference says of week 1.  `AnswersInv` says of
each answer of week 2 where its record is and what the record's score must be;
what remains is about the scorers alone, whatever the tables (`ScorersAgree`): if week
2 accepts a ranking, week 1 scores it as whole; two tables with the same stable
keys have as many rows, and matching by key is then matching of every row with its
own (`SameRowsByKey`), which is why a repeated key has to be refused.

The assumptions say what the code's registries accept, and each is needed:

* `ProgrammesAssumption`: `CaseAccepted` and `TruthAccepted` are the validators of the
  cases.  `TruthStable`, that the keys of a truth are unique and not null and that a
  ranking has one to five rows, is `_validate_result` of `evals/oracle.py:43`, which
  writes the truths of the golden, core and paraphrase suites.  The truths of the
  boundary suite are committed data without that check; its keyed ones (B205, B206
  and B210, all rankings) have five rows with different keys each.  That no safety
  case expects `invalid_sql` is a fact of the registered cases: see the end of this
  file.
* `PricesAssumption`: prices are not negative, and the recorded bracket lies between a
  usual and a large usage, so that "large" is what it stands for.
* `IdentitiesAssumption`: a missing identity is not a well-formed one.

Only model-checked: the six liveness properties (`SseLeaseReturned`,
`SseTerminalDelivered`, `AcceptedRunAnnounced`, `SubmissionAnswered`, `ShutdownDrains`,
`RunEnds`).  They need fairness, hence `ENABLED`, which is out of the prover's reach.

## 5. Plan

1. `ForeignKept` says that files are conserved in number; that each stays itself
   would need names for them.
2. The SQL safety policy, as operators over bounded parse trees.

## 6. Not modelled

* *Agent contracts and tool registry* (`agent/contracts.py` beyond what the nodes
  use, `agent/tool_registry.py`): frozen types and a constant table; their checks appear
  where the code relies on them.
* *Tools and metrics*: deterministic functions from a database to a bundle; what
  the graph tells apart of their results is `QueryResults`.
* *SQL safety policy*: a pure function of a parse tree of an external library,
  with no state or order; its verdict is an input of the graph and of the
  evaluations.
* *The numeric generators* of the dataset: one deterministic result per version.
* *Rendering, digests, the protocol files of week 3 and the counters of its
  report*: formats and sums over records that the model has.
* *The other routes, settings and the engine factory*: they map one call to
  another and keep no state.

Known, and followed by the model without a property that asks for more:

* fail-stop does not stop tasks that are already queued; runs cancelled by
  shutdown keep their last status and get no terminal event;
* a response cancelled between two reads, with no disconnect noticed, closes
  nothing by itself;
* a directory that is moved aside between a publisher's check and its rename lets
  that rename publish another's reservation; week 2, failing after its rename,
  leaves its report, which is whole;
* week 1 charges a failed call without usage as zero and does not claim that its
  cost is complete; its top-k comparison accepts a superset in any order;
* a week 3 case of repair whose second execution fails is a scoring failure;
* a safety case of week 2 that expects `invalid_sql` and meets an unexpected
  exception of the policy would lose the run (`week2_runner.py:599`).  The cases
  are a fixed file, none of them expects that code and the policy turns the parser's
  errors into it, so the model has no such input (`CaseAccepted`);
* a model identity that begins with `bearer` but not with `bearer-` passes the
  adapters and is refused by the report (`evals/week3/models.py:47`), in the scored
  record and in the scoring failure: one such answer loses a run of week 3 that
  `docs/evals.md:97-100` promises to keep.  `LostByIdentityOnly` states it, and that
  nothing else loses one;
* an `ArithmeticError` of the scorers of weeks 1 and 2 is not one of the exceptions
  that they make a zero of: a wrong answer with a huge numeral is recorded as
  `scoring_failed`, and in a table only if nothing before it differs.
