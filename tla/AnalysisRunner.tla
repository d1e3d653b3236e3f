--------------------------- MODULE AnalysisRunner ----------------------------
(***************************************************************************)
(* runtime/runs.py: AnalysisRunner over a run store and an event store.    *)
(*                                                                         *)
(* The runner keeps one analysis in three places - a record in the run     *)
(* store, a log in the event store, a background task - and both stores    *)
(* are reached through protocols whose calls may fail before taking effect *)
(* or after it (the reply is lost).  Submissions, pruning and shutdown     *)
(* share one lock; tasks run in between.  Every await of a store call is a *)
(* step of its own, so everything else may happen between two of them.     *)
(*                                                                         *)
(* Abstractions.  A run id is used by one submission (uuid4), so the owner *)
(* token of a run is identified with the run, and a log is "own" when its  *)
(* token is the one of the run's submission and "foreign" when another     *)
(* producer created it.  Of a log's events only run.created, run.started   *)
(* and run.terminal are kept.  A read that the code repeats up to Attempts *)
(* times is one step: it succeeds, or it fails on every attempt.           *)
(***************************************************************************)
EXTENDS Integers, FiniteSets

CONSTANTS
  Runs,           \* run ids the id factory hands out
  Results,        \* outcomes an agent can return
  NoOutcome,
  NoRun,
  MaxConcurrent,  \* settings.max_concurrent_runs
  MaxRuns,        \* settings.max_runs
  Attempts,       \* range(3) of every retry loop
  MaxFaults,      \* bound: store calls that fail
  MaxForeign,     \* bound: logs created by another producer
  MaxStreams      \* bound: streams attached to one log

ASSUME ConfigAssumption ==
  /\ MaxConcurrent \in Nat \ {0} /\ MaxRuns \in Nat \ {0} /\ Attempts \in Nat \ {0}
  /\ MaxFaults \in Nat /\ MaxForeign \in Nat /\ MaxStreams \in Nat
ASSUME SentinelAssumption ==
  /\ NoRun \notin Runs
  /\ NoOutcome \notin Results \cup {"internal_error", "task_timeout"}

Outcomes == Results \cup {"internal_error", "task_timeout"}

VARIABLES
  record,       \* record[r]: status, outcome and "retention has passed"
  log,          \* log[r]: the event buffer of r
  token,        \* token[r]: _ownership_tokens has r
  task,         \* task[r]: the background task of r
  submission,   \* submission[r]: how the submit call that got id r stands
  cs,           \* who holds _prune_lock and where it is
  accepting,    \* _accepting
  failed,       \* _consistency_failed
  runFailures,  \* _run_consistency_failures
  shutdown,     \* "no" | "gather" | "done"
  faults        \* calls that failed so far

vars == <<record, log, token, task, submission, cs,
          accepting, failed, runFailures, shutdown, faults>>

stores == <<record, log>>
failStop == <<accepting, failed, runFailures>>

NoRecord == [status |-> "absent", outcome |-> NoOutcome, expired |-> FALSE]
NoLog == [owner |-> "none", created |-> FALSE, started |-> FALSE,
          outcome |-> NoOutcome, streams |-> 0]
NoTask == [at |-> "none", tries |-> 0, outcome |-> NoOutcome]

(***************************************************************************)
(* The critical section.  "at" is the await it is suspended in, "tries"    *)
(* the failed attempts of the current retry loop, "todo" and "cur" the     *)
(* expired runs still to prune and the one being pruned, "pending" a       *)
(* cancellation of the submitter that is held back (_DelayedCancellation), *)
(* "existed" and "owned" what is known of the log, "then" what follows the *)
(* deletion of the queued record, "result" what submit will raise.         *)
(***************************************************************************)
Free == [at |-> "free", holder |-> "none", run |-> NoRun, cur |-> NoRun,
         todo |-> {}, tries |-> 0, pending |-> FALSE, existed |-> FALSE,
         owned |-> FALSE, then |-> "rollback", result |-> "failed"]

Init ==
  /\ record = [r \in Runs |-> NoRecord]
  /\ log = [r \in Runs |-> NoLog]
  /\ token = [r \in Runs |-> FALSE]
  /\ task = [r \in Runs |-> NoTask]
  /\ submission = [r \in Runs |-> "none"]
  /\ cs = Free
  /\ accepting = TRUE /\ failed = FALSE /\ runFailures = {}
  /\ shutdown = "no"
  /\ faults = 0

-----------------------------------------------------------------------------
(* Store calls. *)

\* How a call ends: with or without effect, with or without an exception,
\* which may be the cancellation of the submitting task.
Reply == {x \in [applied : BOOLEAN, raised : BOOLEAN, cancelled : BOOLEAN] :
            /\ x.raised \/ x.applied
            /\ x.cancelled => x.raised}
TaskReply == {x \in Reply : ~x.cancelled}

Charge(bad) ==
  /\ bad => faults < MaxFaults
  /\ faults' = IF bad THEN faults + 1 ELSE faults

\* A call of the section: only a submitting request is ever cancelled in it, and
\* (a bound) no more than once.
Called(x) ==
  /\ x.cancelled => cs.holder = "submit" /\ ~cs.pending
  /\ Charge(x.raised /\ ~x.cancelled)

Present == {r \in Runs : record[r].status # "absent"}

\* InMemoryRunStore.create / delete_queued / delete_terminal,
\* InMemoryEventStore.create_run / delete_run, as effects on the two maps.
Created(r) == [record EXCEPT ![r].status = "queued"]
Deleted(r, status) ==
  IF record[r].status = status THEN [record EXCEPT ![r] = NoRecord] ELSE record

\* A broken create_run that replaces the log it finds.
LogReplaced(r) == [log EXCEPT ![r].owner = "own"]

LogDeletable(r, allowUnstarted) ==
  /\ log[r].owner = "own" /\ log[r].streams = 0
  /\ log[r].outcome # NoOutcome \/ (allowUnstarted /\ ~log[r].started)
LogDeleted(r, allowUnstarted) ==
  IF LogDeletable(r, allowUnstarted) THEN [log EXCEPT ![r] = NoLog] ELSE log
LogOpened(r) ==
  IF log[r].owner = "none" THEN [log EXCEPT ![r].owner = "own"] ELSE log

\* _enter_fail_stop, for the runs S.
EnterFailStop(S) ==
  /\ accepting' = FALSE
  /\ failed' = TRUE
  /\ runFailures' = runFailures \cup S

\* The section is left: submit returns or raises (the held-back cancellation
\* first), or the task that pruned is over.
Leave(result, pending) ==
  /\ cs' = Free
  /\ IF cs.holder = "submit"
     THEN /\ submission' = [submission EXCEPT ![cs.run] =
                              IF pending THEN "cancelled" ELSE result]
          /\ UNCHANGED task
     ELSE /\ task' = [task EXCEPT ![cs.run].at =
                        IF result = "inconsistent" THEN "failed" ELSE "done"]
          /\ UNCHANGED submission

\* _raise_coordination_failure, and the handlers of submit and _execute that
\* turn it into fail-stop.
Abort(S) ==
  /\ EnterFailStop(S \cup IF cs.holder = "task" THEN {cs.run} ELSE {})
  /\ Leave("inconsistent", cs.pending)

Goto(at) == cs' = [cs EXCEPT !.at = at, !.tries = 0]

\* After a failed attempt: the same call again, or the loop is exhausted.
LastTry == cs.tries + 1 >= Attempts
Retry(at) == ~LastTry /\ cs' = [cs EXCEPT !.at = at, !.tries = @ + 1]

-----------------------------------------------------------------------------
(* submit *)

Submit(r) ==
  /\ cs.at = "free" /\ submission[r] = "none"
  /\ IF failed \/ ~accepting
     THEN /\ submission' = [submission EXCEPT ![r] =
                              IF failed THEN "inconsistent" ELSE "shutdown"]
          /\ UNCHANGED cs
     ELSE /\ submission' = [submission EXCEPT ![r] = "pending"]
          /\ cs' = [Free EXCEPT !.at = "list", !.holder = "submit", !.run = r]
  /\ UNCHANGED <<stores, token, task, failStop, shutdown, faults>>

Create(x) ==
  /\ cs.at = "create" /\ Called(x)
  /\ LET full == Cardinality(Present) >= MaxRuns IN
       /\ record' = IF x.applied /\ ~full THEN Created(cs.run) ELSE record
       /\ IF full /\ ~x.raised
          THEN Leave("capacity", cs.pending)
          ELSE /\ cs' = [cs EXCEPT !.at = IF x.raised THEN "create_read" ELSE "probe",
                                   !.pending = @ \/ x.cancelled]
               /\ UNCHANGED <<submission, task>>
  /\ UNCHANGED <<log, token, failStop, shutdown>>

\* create failed: a record that is there after all is deleted again.
CreateRead(readable) ==
  /\ cs.at = "create_read" /\ Charge(~readable)
  /\ \/ ~readable /\ Abort({cs.run})
     \/ /\ readable /\ record[cs.run].status = "absent"
        /\ Leave("failed", cs.pending) /\ UNCHANGED failStop
     \/ /\ readable /\ record[cs.run].status # "absent"
        /\ cs' = [cs EXCEPT !.at = "del_record", !.then = "undo"]
        /\ UNCHANGED <<submission, task, failStop>>
  /\ UNCHANGED <<stores, token, shutdown>>

\* _event_exists_before_submission: an unexplained error is fail-stop, a
\* cancellation is not; either way the queued record is deleted.
Probe(x) ==
  /\ cs.at = "probe" /\ x.applied /\ Called(x)
  /\ cs' = IF x.raised
           THEN [cs EXCEPT !.at = "del_record", !.then = "undo", !.pending = @ \/ x.cancelled,
                           !.result = IF x.cancelled THEN "failed" ELSE "inconsistent"]
           ELSE [cs EXCEPT !.at = "open_log", !.existed = log[cs.run].owner # "none"]
  /\ IF x.raised /\ ~x.cancelled THEN EnterFailStop({}) ELSE UNCHANGED failStop
  /\ UNCHANGED <<stores, token, task, submission, shutdown>>

\* events.create_run refuses an id that already has a log.
OpenLog(x) ==
  /\ cs.at = "open_log" /\ Called(x)
  /\ LET taken == log[cs.run].owner # "none" IN
       /\ log' = IF x.applied THEN LogOpened(cs.run) ELSE log
       /\ cs' = [cs EXCEPT
            !.pending = @ \/ x.cancelled,
            !.owned = ~x.raised /\ ~taken,
            !.at = CASE ~x.raised /\ ~taken -> "emit_created"
                     [] cs.existed -> "del_record"
                     [] OTHER -> "classify"]
  /\ UNCHANGED <<record, token, task, submission, failStop, shutdown>>

EmitCreated(x) ==
  /\ cs.at = "emit_created" /\ Called(x)
  /\ log' = IF x.applied THEN [log EXCEPT ![cs.run].created = TRUE] ELSE log
  /\ cs' = [cs EXCEPT !.at = IF x.raised THEN "del_log" ELSE "commit",
                      !.pending = @ \/ x.cancelled]
  /\ UNCHANGED <<record, token, task, submission, failStop, shutdown>>

\* _event_generation_after_failure: whose log is it that is there now?
Classify(readable) ==
  /\ cs.at = "classify" /\ Charge(~readable)
  /\ IF ~readable THEN Abort({cs.run})
     ELSE /\ cs' = CASE log[cs.run].owner = "own" ->
                          [cs EXCEPT !.at = "del_log", !.owned = TRUE]
                     [] log[cs.run].owner = "foreign" ->
                          [cs EXCEPT !.at = "del_record", !.then = "abort"]
                     [] OTHER -> [cs EXCEPT !.at = "del_record"]
          /\ UNCHANGED <<submission, task, failStop>>
  /\ UNCHANGED <<stores, token, shutdown>>

\* A broken commit, without the last check of fail-stop.
CommitUnchecked(spawned) ==
  /\ cs.at = "commit" /\ Charge(FALSE)
  /\ cs' = Free
  /\ token' = [token EXCEPT ![cs.run] = TRUE]
  /\ task' = [task EXCEPT ![cs.run].at = "queued"]
  /\ submission' = [submission EXCEPT ![cs.run] = "accepted"]
  /\ UNCHANGED <<stores, failStop, shutdown>>

\* Nothing awaits between the last check of fail-stop and create_task: either
\* the task exists when submit returns, or everything is rolled back.
Commit(spawned) ==
  /\ cs.at = "commit" /\ Charge(~failed /\ ~spawned)
  /\ IF failed \/ ~spawned
     THEN /\ cs' = [cs EXCEPT !.at = "del_log",
                              !.result = IF failed THEN "inconsistent" ELSE "failed"]
          /\ UNCHANGED <<token, task, submission>>
     ELSE /\ cs' = Free
          /\ token' = [token EXCEPT ![cs.run] = TRUE]
          /\ task' = [task EXCEPT ![cs.run].at = "queued"]
          /\ submission' = [submission EXCEPT ![cs.run] = "accepted"]
  /\ UNCHANGED <<stores, failStop, shutdown>>

\* The submitting request is cancelled while a reconciliation is under way: the
\* cancellation is observed, the reconciliation goes on.
CancelSubmit ==
  /\ cs.holder = "submit" /\ ~cs.pending
  /\ cs.at \in {"create_read", "classify", "del_log_read", "del_record_read",
                "verify", "restore", "prune_log_read", "prune_record_read", "prune_verify"}
  /\ cs' = [cs EXCEPT !.pending = TRUE]
  /\ UNCHANGED <<stores, token, task, submission, failStop, shutdown, faults>>

-----------------------------------------------------------------------------
(* _rollback_submission: the log first, then the queued record; if the record
   cannot be deleted the log is restored, so that no record is left without. *)

DeleteLog(x) ==
  /\ cs.at = "del_log" /\ Called(x)
  /\ log' = IF x.applied THEN LogDeleted(cs.run, TRUE) ELSE log
  /\ cs' = [cs EXCEPT !.pending = @ \/ x.cancelled,
       !.at = IF ~x.raised /\ log[cs.run].owner = "none" THEN "del_record"
              ELSE "del_log_read",
       !.tries = IF ~x.raised /\ log[cs.run].owner = "none" THEN 0 ELSE @]
  /\ UNCHANGED <<record, token, task, submission, failStop, shutdown>>

DeleteLogRead(readable) ==
  /\ cs.at = "del_log_read" /\ Charge(~readable)
  /\ \/ /\ readable /\ log[cs.run].owner = "none"
        /\ Goto("del_record")
        /\ UNCHANGED <<submission, task, failStop>>
     \/ /\ readable /\ log[cs.run].owner = "own" /\ Retry("del_log")
        /\ UNCHANGED <<submission, task, failStop>>
     \/ /\ ~readable \/ log[cs.run].owner = "foreign"
             \/ (log[cs.run].owner = "own" /\ LastTry)
        /\ Abort({cs.run})
  /\ UNCHANGED <<stores, token, shutdown>>

DeleteRecord(x) ==
  /\ cs.at = "del_record" /\ Called(x)
  /\ record' = IF x.applied THEN Deleted(cs.run, "queued") ELSE record
  /\ cs' = [cs EXCEPT !.at = "del_record_read", !.pending = @ \/ x.cancelled]
  /\ UNCHANGED <<log, token, task, submission, failStop, shutdown>>

DeleteRecordRead(readable) ==
  /\ cs.at = "del_record_read" /\ Charge(~readable)
  /\ LET gone == readable /\ record[cs.run].status = "absent"
         still == readable /\ record[cs.run].status = "queued" IN
     \/ /\ gone /\ cs.then # "abort" /\ cs.owned
        /\ Goto("verify") /\ UNCHANGED <<submission, task, failStop>>
     \/ /\ gone /\ cs.then # "abort" /\ ~cs.owned
        /\ Leave(cs.result, cs.pending) /\ UNCHANGED failStop
     \/ /\ gone /\ cs.then = "abort" /\ Abort({cs.run})
     \/ /\ still /\ Retry("del_record") /\ UNCHANGED <<submission, task, failStop>>
     \/ /\ still /\ LastTry /\ cs.owned
        /\ Goto("restore") /\ UNCHANGED <<submission, task, failStop>>
     \/ /\ still /\ LastTry /\ ~cs.owned
        /\ Abort(IF cs.then = "undo" THEN {} ELSE {cs.run})
     \/ /\ ~gone /\ ~still /\ Abort({cs.run})
  /\ UNCHANGED <<stores, token, shutdown>>

\* The deleted log must still be missing.
VerifyLogGone(readable) ==
  /\ cs.at = "verify" /\ Charge(~readable)
  /\ IF readable /\ log[cs.run].owner = "none"
     THEN Leave(cs.result, cs.pending) /\ UNCHANGED failStop
     ELSE Abort({cs.run})
  /\ UNCHANGED <<stores, token, shutdown>>

\* _restore_owned_event_run: create_run, then run.created, each up to Attempts
\* times and each followed by a read; it ends in fail-stop in every case.
RestoreLog(x) ==
  /\ cs.at = "restore" /\ cs.tries < Attempts /\ log[cs.run].owner = "none" /\ Called(x)
  /\ log' = IF x.applied THEN LogOpened(cs.run) ELSE log
  /\ cs' = [cs EXCEPT !.pending = @ \/ x.cancelled,
                      !.tries = IF x.applied THEN 0 ELSE @ + 1]
  /\ UNCHANGED <<record, token, task, submission, failStop, shutdown>>

RestoreCreated(x) ==
  /\ cs.at = "restore" /\ cs.tries < Attempts
  /\ log[cs.run].owner = "own" /\ ~log[cs.run].created /\ Called(x)
  /\ log' = IF x.applied THEN [log EXCEPT ![cs.run].created = TRUE] ELSE log
  /\ cs' = [cs EXCEPT !.pending = @ \/ x.cancelled, !.tries = @ + 1]
  /\ UNCHANGED <<record, token, task, submission, failStop, shutdown>>

RestoreEnds(readable) ==
  /\ cs.at = "restore" /\ Charge(~readable)
  /\ ~readable \/ log[cs.run].owner = "foreign" \/ log[cs.run].created \/ cs.tries = Attempts
  /\ Abort({cs.run})
  /\ UNCHANGED <<stores, token, shutdown>>

-----------------------------------------------------------------------------
(* _prune_locked: expired runs whose log no stream holds, the log first. *)

PruneList(x) ==
  /\ cs.at = "list" /\ x.applied /\ Called(x)
  /\ \/ /\ ~x.raised
        /\ cs' = [cs EXCEPT !.at = "next", !.todo = {r \in Runs : record[r].expired}]
        /\ UNCHANGED <<submission, task, failStop>>
     \/ /\ x.raised /\ x.cancelled
        /\ Leave("cancelled", TRUE) /\ UNCHANGED failStop
     \/ /\ x.raised /\ ~x.cancelled /\ Abort({})
  /\ UNCHANGED <<stores, token, shutdown>>

PruneNext(r) ==
  /\ cs.at = "next" /\ ~cs.pending /\ r \in cs.todo
  /\ IF token[r]
     THEN /\ cs' = [cs EXCEPT !.at = "prune_log", !.cur = r, !.todo = @ \ {r}, !.tries = 0]
          /\ UNCHANGED <<submission, task, failStop>>
     ELSE Abort({r})
  /\ UNCHANGED <<stores, token, shutdown, faults>>

\* A broken prune that also deletes logs which never started.
PruneUnstarted(x) ==
  /\ cs.at = "prune_log" /\ Called(x)
  /\ log' = IF x.applied THEN LogDeleted(cs.cur, TRUE) ELSE log
  /\ cs' = [cs EXCEPT !.pending = @ \/ x.cancelled,
       !.at = IF ~x.raised /\ log[cs.cur].owner = "none" THEN "prune_record"
              ELSE "prune_log_read",
       !.tries = IF ~x.raised /\ log[cs.cur].owner = "none" THEN 0 ELSE @]
  /\ UNCHANGED <<record, token, task, submission, failStop, shutdown>>

\* delete_run returns FALSE while a stream is attached: retried, then skipped.
PruneLog(x) ==
  /\ cs.at = "prune_log" /\ Called(x)
  /\ log' = IF x.applied THEN LogDeleted(cs.cur, FALSE) ELSE log
  /\ cs' = [cs EXCEPT !.pending = @ \/ x.cancelled,
       !.at = IF ~x.raised /\ log[cs.cur].owner = "none" THEN "prune_record"
              ELSE "prune_log_read",
       !.tries = IF ~x.raised /\ log[cs.cur].owner = "none" THEN 0 ELSE @]
  /\ UNCHANGED <<record, token, task, submission, failStop, shutdown>>

\* Two broken reactions to a log that is still there: call it an inconsistency,
\* or try for ever.
PruneReadAborts(readable) ==
  /\ cs.at = "prune_log_read" /\ Charge(~readable)
  /\ IF readable /\ log[cs.cur].owner = "none"
     THEN Goto("prune_record") /\ UNCHANGED <<submission, task, failStop>>
     ELSE Abort({cs.cur})
  /\ UNCHANGED <<stores, token, shutdown>>

PruneReadForever(readable) ==
  /\ cs.at = "prune_log_read" /\ Charge(~readable)
  /\ Goto(IF log[cs.cur].owner = "none" THEN "prune_record" ELSE "prune_log")
  /\ UNCHANGED <<stores, token, task, submission, failStop, shutdown>>

PruneLogRead(readable) ==
  /\ cs.at = "prune_log_read" /\ Charge(~readable)
  /\ \/ /\ readable /\ log[cs.cur].owner = "none"
        /\ Goto("prune_record") /\ UNCHANGED <<submission, task, failStop>>
     \/ /\ readable /\ log[cs.cur].owner = "own"
        /\ Retry("prune_log") \/ (LastTry /\ Goto("next"))
        /\ UNCHANGED <<submission, task, failStop>>
     \/ /\ ~readable \/ log[cs.cur].owner = "foreign"
        /\ Abort({cs.cur})
  /\ UNCHANGED <<stores, token, shutdown>>

PruneRecord(x) ==
  /\ cs.at = "prune_record" /\ Called(x)
  /\ record' = IF x.applied THEN Deleted(cs.cur, "terminal") ELSE record
  /\ cs' = [cs EXCEPT !.at = "prune_record_read", !.pending = @ \/ x.cancelled]
  /\ UNCHANGED <<log, token, task, submission, failStop, shutdown>>

PruneRecordRead(readable) ==
  /\ cs.at = "prune_record_read" /\ Charge(~readable)
  /\ \/ /\ readable /\ record[cs.cur].status = "absent"
        /\ Goto("prune_verify") /\ UNCHANGED <<submission, task, failStop>>
     \/ /\ readable /\ record[cs.cur].status = "terminal" /\ Retry("prune_record")
        /\ UNCHANGED <<submission, task, failStop>>
     \/ /\ ~readable \/ record[cs.cur].status \in {"queued", "running"}
             \/ (record[cs.cur].status = "terminal" /\ LastTry)
        /\ Abort({cs.cur})
  /\ UNCHANGED <<stores, token, shutdown>>

PruneVerify(readable) ==
  /\ cs.at = "prune_verify" /\ Charge(~readable)
  /\ IF readable /\ log[cs.cur].owner = "none"
     THEN /\ token' = [token EXCEPT ![cs.cur] = FALSE]
          /\ Goto("next")
          /\ UNCHANGED <<submission, task, failStop>>
     ELSE Abort({cs.cur}) /\ UNCHANGED token
  /\ UNCHANGED <<stores, shutdown>>

\* All expired runs are dealt with, or the held-back cancellation is raised.
PruneDone ==
  /\ cs.at = "next" /\ (cs.todo = {} \/ cs.pending)
  /\ IF cs.holder = "submit" /\ ~cs.pending
     THEN cs' = [cs EXCEPT !.at = "create", !.tries = 0, !.cur = NoRun]
          /\ UNCHANGED <<submission, task>>
     ELSE Leave("cancelled", cs.pending)
  /\ UNCHANGED <<stores, token, failStop, shutdown, faults>>
-----------------------------------------------------------------------------
(* _execute: one task per accepted run. *)

Holding == {"mark", "mark_read", "start", "agent", "complete", "complete_read",
            "publish", "publish_emit", "publish_last"}
Terminalizing == {"complete", "complete_read", "publish", "publish_emit", "publish_last"}
Ended == {"done", "failed", "cancelled"}
Holders == {r \in Runs : task[r].at \in Holding}

TaskTo(r, at) == task' = [task EXCEPT ![r].at = at, ![r].tries = 0]
TaskLastTry(r) == task[r].tries + 1 >= Attempts
TaskRetry(r, at) ==
  /\ ~TaskLastTry(r)
  /\ task' = [task EXCEPT ![r].at = at, ![r].tries = @ + 1]

\* RunConsistencyError in a task: it ends, and the service is in fail-stop.
TaskFails(r) ==
  /\ EnterFailStop({r})
  /\ TaskTo(r, "failed")

\* async with self._semaphore
Acquire(r) ==
  /\ task[r].at = "queued" /\ Cardinality(Holders) < MaxConcurrent
  /\ TaskTo(r, "mark")
  /\ UNCHANGED <<stores, token, submission, cs, failStop, shutdown, faults>>

MarkRunning(r, x) ==
  /\ task[r].at = "mark" /\ Charge(x.raised)
  /\ record' = IF x.applied /\ record[r].status = "queued"
               THEN [record EXCEPT ![r].status = "running"] ELSE record
  /\ IF x.raised \/ record[r].status # "queued"
     THEN task' = [task EXCEPT ![r].at = "mark_read"]
     ELSE TaskTo(r, "start")
  /\ UNCHANGED <<log, token, submission, cs, failStop, shutdown>>

MarkRead(r, readable) ==
  /\ task[r].at = "mark_read" /\ Charge(~readable)
  /\ \/ /\ readable /\ record[r].status = "running"
        /\ TaskTo(r, "start") /\ UNCHANGED failStop
     \/ /\ readable /\ record[r].status = "queued"
        /\ TaskRetry(r, "mark") /\ UNCHANGED failStop
     \/ /\ ~readable \/ record[r].status \in {"absent", "terminal"}
             \/ (record[r].status = "queued" /\ TaskLastTry(r))
        /\ TaskFails(r)
  /\ UNCHANGED <<stores, token, submission, cs, shutdown>>

Decide(r, outcome) ==
  task' = [task EXCEPT ![r].at = "complete", ![r].tries = 0, ![r].outcome = outcome]

\* The context factory and run.started, under the timeout: whatever goes wrong
\* decides the outcome, and the agent is not called.
StartRun(r, x, outcome) ==
  /\ task[r].at = "start" /\ Charge(x.raised)
  /\ outcome \in {NoOutcome, "internal_error", "task_timeout"}
  /\ x.raised => outcome # NoOutcome
  /\ log' = IF x.applied /\ log[r].owner = "own"
            THEN [log EXCEPT ![r].started = TRUE] ELSE log
  /\ IF outcome = NoOutcome THEN TaskTo(r, "agent") ELSE Decide(r, outcome)
  /\ UNCHANGED <<record, token, submission, cs, failStop, shutdown>>

\* The agent returns a result, or raises, or returns something that is none.
AgentReturns(r, outcome) ==
  /\ task[r].at = "agent" /\ outcome \in Results \cup {"internal_error"}
  /\ Decide(r, outcome)
  /\ UNCHANGED <<stores, token, submission, cs, failStop, shutdown, faults>>

TimeoutExpires(r) ==
  /\ task[r].at = "agent"
  /\ Decide(r, "task_timeout")
  /\ UNCHANGED <<stores, token, submission, cs, failStop, shutdown, faults>>

\* _ensure_run_terminal: complete is idempotent for the same outcome.
Complete(r, x) ==
  /\ task[r].at = "complete" /\ Charge(x.raised)
  /\ record' = IF x.applied /\ record[r].status = "running"
               THEN [record EXCEPT ![r].status = "terminal",
                                   ![r].outcome = task[r].outcome]
               ELSE record
  /\ IF \/ x.raised
        \/ /\ record[r].status # "running"
           /\ ~(record[r].status = "terminal" /\ record[r].outcome = task[r].outcome)
     THEN task' = [task EXCEPT ![r].at = "complete_read"]
     ELSE TaskTo(r, "publish")
  /\ UNCHANGED <<log, token, submission, cs, failStop, shutdown>>

CompleteRead(r, readable) ==
  /\ task[r].at = "complete_read" /\ Charge(~readable)
  /\ LET matches == record[r].status = "terminal" /\ record[r].outcome = task[r].outcome IN
     \/ /\ readable /\ matches
        /\ TaskTo(r, "publish") /\ UNCHANGED failStop
     \/ /\ readable /\ record[r].status = "running"
        /\ TaskRetry(r, "complete") /\ UNCHANGED failStop
     \/ /\ \/ ~readable
           \/ ~matches /\ record[r].status # "running"
           \/ record[r].status = "running" /\ TaskLastTry(r)
        /\ TaskFails(r)
  /\ UNCHANGED <<stores, token, submission, cs, shutdown>>

\* _ensure_event_terminal: is the terminal event there, and is it ours?
Announced(r) == log[r].owner = "own" /\ log[r].outcome # NoOutcome
AnnouncedOurs(r) == log[r].owner = "own" /\ log[r].outcome = task[r].outcome

\* A broken publication that gives up when the log cannot be read.
PublishReadGivesUp(r, readable) ==
  /\ task[r].at = "publish" /\ Charge(~readable)
  /\ IF readable /\ ~Announced(r)
     THEN task' = [task EXCEPT ![r].at = "publish_emit"]
     ELSE TaskTo(r, "prune")
  /\ UNCHANGED <<stores, token, submission, cs, failStop, shutdown>>

PublishRead(r, readable) ==
  /\ task[r].at = "publish" /\ Charge(~readable)
  /\ \/ /\ readable /\ AnnouncedOurs(r)
        /\ TaskTo(r, "prune")
     \/ /\ readable /\ Announced(r) /\ ~AnnouncedOurs(r)
        /\ \/ TaskRetry(r, "publish")
           \/ TaskLastTry(r) /\ TaskTo(r, "publish_last")
     \/ /\ ~readable \/ ~Announced(r)
        /\ task' = [task EXCEPT ![r].at = "publish_emit"]
  /\ UNCHANGED <<stores, token, submission, cs, failStop, shutdown>>

PublishEmit(r, x) ==
  /\ task[r].at = "publish_emit" /\ Charge(x.raised)
  /\ LET sealable == log[r].owner = "own" /\ log[r].outcome = NoOutcome IN
       /\ log' = IF x.applied /\ sealable
                 THEN [log EXCEPT ![r].outcome = task[r].outcome] ELSE log
       /\ IF ~x.raised /\ sealable
          THEN TaskTo(r, "prune")
          ELSE \/ TaskRetry(r, "publish")
               \/ TaskLastTry(r) /\ TaskTo(r, "publish_last")
  /\ UNCHANGED <<record, token, submission, cs, failStop, shutdown>>

PublishLast(r, readable) ==
  /\ task[r].at = "publish_last" /\ Charge(~readable)
  /\ IF readable /\ AnnouncedOurs(r)
     THEN TaskTo(r, "prune") /\ UNCHANGED failStop
     ELSE TaskFails(r)
  /\ UNCHANGED <<stores, token, submission, cs, shutdown>>

\* A broken prune that waits for the service to accept submissions.
TaskPruneWhileOpen(r) ==
  /\ task[r].at = "prune" /\ cs.at = "free" /\ accepting
  /\ cs' = [Free EXCEPT !.at = "list", !.holder = "task", !.run = r]
  /\ TaskTo(r, "pruning")
  /\ UNCHANGED <<stores, token, submission, failStop, shutdown, faults>>

\* The semaphore is released; the task takes the lock and prunes.
TaskPrune(r) ==
  /\ task[r].at = "prune" /\ cs.at = "free"
  /\ cs' = [Free EXCEPT !.at = "list", !.holder = "task", !.run = r]
  /\ TaskTo(r, "pruning")
  /\ UNCHANGED <<stores, token, submission, failStop, shutdown, faults>>

-----------------------------------------------------------------------------
(* shutdown: the tasks it may cancel are decided and cancelled in one step,
   for nothing awaits between the release of the lock and task.cancel(). *)

\* A broken shutdown that cancels every task, and one that stays open.
CancellableAll == {r \in Runs : task[r].at \notin {"none"} \cup Ended}

Cancellable == {r \in Runs : task[r].at \notin {"none"} \cup Ended \cup Terminalizing}

Shutdown ==
  /\ shutdown = "no" /\ cs.at = "free"
  /\ shutdown' = "gather"
  /\ accepting' = FALSE
  /\ task' = [r \in Runs |-> IF r \in Cancellable
                             THEN [task[r] EXCEPT !.at = "cancelled"] ELSE task[r]]
  /\ UNCHANGED <<stores, token, submission, cs, failed, runFailures, faults>>

ShutdownReturns ==
  /\ shutdown = "gather"
  /\ \A r \in Runs : task[r].at \in {"none"} \cup Ended
  /\ shutdown' = "done"
  /\ UNCHANGED <<stores, token, task, submission, cs, failStop, faults>>

-----------------------------------------------------------------------------
(* The environment: time, readers of the event streams, other producers. *)

RetentionPasses(r) ==
  /\ record[r].status = "terminal" /\ ~record[r].expired
  /\ record' = [record EXCEPT ![r].expired = TRUE]
  /\ UNCHANGED <<log, token, task, submission, cs, failStop, shutdown, faults>>

AttachStream(r) ==
  /\ submission[r] = "accepted" /\ log[r].owner = "own" /\ log[r].streams < MaxStreams
  /\ log' = [log EXCEPT ![r].streams = @ + 1]
  /\ UNCHANGED <<record, token, task, submission, cs, failStop, shutdown, faults>>

DetachStream(r) ==
  /\ log[r].streams > 0
  /\ log' = [log EXCEPT ![r].streams = @ - 1]
  /\ UNCHANGED <<record, token, task, submission, cs, failStop, shutdown, faults>>

ForeignLogs == {r \in Runs : log[r].owner = "foreign"}

ForeignProducer(r) ==
  /\ log[r].owner = "none" /\ Cardinality(ForeignLogs) < MaxForeign
  /\ log' = [log EXCEPT ![r].owner = "foreign"]
  /\ UNCHANGED <<record, token, task, submission, cs, failStop, shutdown, faults>>

-----------------------------------------------------------------------------
\* What the holder of the lock does next.
SectionCall(x) ==
  \/ Create(x) \/ Probe(x) \/ OpenLog(x) \/ EmitCreated(x)
  \/ DeleteLog(x) \/ DeleteRecord(x) \/ RestoreLog(x) \/ RestoreCreated(x)
  \/ PruneList(x) \/ PruneLog(x) \/ PruneRecord(x)

SectionRead(readable) ==
  \/ CreateRead(readable) \/ Classify(readable) \/ Commit(readable)
  \/ DeleteLogRead(readable) \/ DeleteRecordRead(readable) \/ VerifyLogGone(readable)
  \/ RestoreEnds(readable) \/ PruneLogRead(readable) \/ PruneRecordRead(readable)
  \/ PruneVerify(readable)

Section ==
  \/ \E x \in Reply : SectionCall(x)
  \/ \E b \in BOOLEAN : SectionRead(b)
  \/ \E r \in Runs : PruneNext(r)
  \/ PruneDone

\* What the task of r does next, the wait for the agent apart.
TaskCall(r, x) ==
  \/ MarkRunning(r, x) \/ Complete(r, x) \/ PublishEmit(r, x)
  \/ \E o \in {NoOutcome, "internal_error", "task_timeout"} : StartRun(r, x, o)

TaskRead(r, readable) ==
  \/ MarkRead(r, readable) \/ CompleteRead(r, readable)
  \/ PublishRead(r, readable) \/ PublishLast(r, readable)

TaskStep(r) ==
  \/ \E x \in TaskReply : TaskCall(r, x)
  \/ \E b \in BOOLEAN : TaskRead(r, b)

Environment ==
  \E r \in Runs :
    RetentionPasses(r) \/ AttachStream(r) \/ DetachStream(r) \/ ForeignProducer(r)

Next ==
  \/ \E r \in Runs : Submit(r) \/ Acquire(r) \/ TaskStep(r) \/ TimeoutExpires(r) \/ TaskPrune(r)
  \/ \E r \in Runs, o \in Results \cup {"internal_error"} : AgentReturns(r, o)
  \/ Section \/ CancelSubmit
  \/ Shutdown \/ ShutdownReturns
  \/ Environment

Spec == Init /\ [][Next]_vars

(***************************************************************************)
(* Fairness: the event loop runs whoever holds the lock and every task;    *)
(* asyncio's locks and semaphores are FIFO, so a task that waits for one   *)
(* gets it if it is released again and again; the timeout fires even if    *)
(* the agent never returns.  Nothing makes clients submit, readers detach, *)
(* the agent return or the process shut down.                              *)
(***************************************************************************)
Fairness ==
  /\ WF_vars(Section)
  /\ WF_vars(ShutdownReturns)
  /\ \A r \in Runs :
       /\ SF_vars(Acquire(r))
       /\ WF_vars(TaskStep(r))
       /\ WF_vars(TimeoutExpires(r))
       /\ SF_vars(TaskPrune(r))

FairSpec == Spec /\ Fairness
-----------------------------------------------------------------------------
(* Properties. *)

Statuses == {"absent", "queued", "running", "terminal"}
SectionPoints ==
  {"free", "list", "next", "prune_log", "prune_log_read", "prune_record",
   "prune_record_read", "prune_verify", "create", "create_read", "probe", "open_log",
   "emit_created", "classify", "commit", "del_log", "del_log_read", "del_record",
   "del_record_read", "verify", "restore"}

\* The type of every variable.
TypeOK ==
  /\ record \in [Runs -> [status : Statuses, outcome : Outcomes \cup {NoOutcome},
                          expired : BOOLEAN]]
  /\ log \in [Runs -> [owner : {"none", "own", "foreign"}, created : BOOLEAN,
                       started : BOOLEAN, outcome : Outcomes \cup {NoOutcome},
                       streams : Int]]
  /\ token \in [Runs -> BOOLEAN]
  /\ task \in [Runs -> [at : {"none", "queued", "prune", "pruning"} \cup Holding \cup Ended,
                        tries : Nat, outcome : Outcomes \cup {NoOutcome}]]
  /\ submission \in [Runs -> {"none", "pending", "accepted", "failed", "cancelled",
                              "capacity", "inconsistent", "shutdown"}]
  /\ cs \in [at : SectionPoints, holder : {"none", "submit", "task"},
             run : Runs \cup {NoRun}, cur : Runs \cup {NoRun}, todo : SUBSET Runs,
             tries : Nat, pending : BOOLEAN, existed : BOOLEAN, owned : BOOLEAN,
             then : {"rollback", "undo", "abort"}, result : {"failed", "inconsistent"}]
  /\ accepting \in BOOLEAN /\ failed \in BOOLEAN /\ runFailures \in SUBSET Runs
  /\ shutdown \in {"no", "gather", "done"}
  /\ faults \in Nat

\* A log of the runner never outlives its record: records are created before
\* logs and deleted after them, on every path and whatever call fails, so an
\* event stream can always be matched with a run that can be polled.
LogHasRecord ==
  \A r \in Runs : log[r].owner = "own" => record[r].status # "absent"

\* A terminal record whose log lacks the terminal event belongs to a task that
\* is publishing it, or is reported as inconsistent: shutdown, cancellation and
\* timeouts never leave a run half finished.
NeverHalfTerminal ==
  \A r \in Runs :
    record[r].status = "terminal" /\ log[r].owner = "own" /\ log[r].outcome = NoOutcome =>
      task[r].at \in Terminalizing \/ r \in runFailures

\* A submission that was refused, failed or was cancelled leaves neither a
\* record nor a log of its own behind, unless the service is in fail-stop.
RefusedLeavesNothing ==
  \A r \in Runs :
    submission[r] \notin {"none", "pending", "accepted"} /\ ~failed =>
      record[r].status = "absent" /\ log[r].owner # "own"

\* An accepted run can be polled and streamed until it is pruned: it has both a
\* record and a log that starts with run.created, or neither.
AcceptedIsWhole ==
  \A r \in Runs :
    submission[r] = "accepted" /\ record[r].status # "absent" /\ ~failed =>
      \/ log[r].owner = "own" /\ log[r].created
      \/ cs.cur = r

\* Without a failing call and without another producer the service never stops
\* itself: neither pruning under open streams, nor cancelled requests, nor a
\* shutdown, nor any interleaving of them is mistaken for an inconsistency.
NoSpuriousFailStop ==
  failed => faults > 0 \/ ForeignLogs # {}

\* Every record that will ever expire has the token pruning needs; its log is
\* deleted under that token.
PrunableHasToken ==
  \A r \in Runs : record[r].status \in {"running", "terminal"} => token[r]

\* The two stores and the tasks agree on every run, whichever call failed between
\* the first write and the last (submit, _execute, pruning).
RunsWhole ==
  /\ LogHasRecord
  /\ NeverHalfTerminal
  /\ AcceptedIsWhole
  /\ RefusedLeavesNothing
  /\ PrunableHasToken

\* Fail-stop is final, and after it, or after shutdown began, no submission is
\* accepted any more, not even one that was under way.
NothingAcceptedAfterStop ==
  [][/\ failed => failed'
     /\ failed \/ shutdown # "no" =>
          \A r \in Runs : submission'[r] = "accepted" => submission[r] = "accepted"]_vars

\* Only an expired run without open streams is pruned, a run in progress is never
\* taken away, and a log of another producer under the same id is neither written
\* to nor deleted.
NothingElseTouched ==
  [][\A r \in Runs :
       /\ log[r].owner = "foreign" => log'[r] = log[r]
       /\ log[r].owner = "own" /\ log'[r].owner = "none" => log[r].streams = 0
       /\ token[r] /\ record'[r] # record[r] /\ record'[r].status = "absent"
            => record[r].expired /\ log[r].owner # "own"]_vars

\* The runner implements the life cycle promised to clients.
Lifecycle == INSTANCE RunLifecycle WITH
  phase <- [r \in Runs |-> record[r].status],
  outcome <- [r \in Runs |-> record[r].outcome],
  announced <- [r \in Runs |-> log[r].outcome],
  open <- [r \in Runs |-> log[r].owner = "own"]

ImplementsLifecycle == Lifecycle!Spec

\* Unless the service stops, a run that is accepted gets its terminal event.
AcceptedRunAnnounced ==
  \A r \in Runs :
    task[r].at = "queued" ~>
      (log[r].outcome # NoOutcome \/ failed \/ shutdown # "no")

\* A submission that got the lock is answered: rollback and pruning terminate,
\* and the lock is given back.
SubmissionAnswered ==
  \A r \in Runs : submission[r] = "pending" ~> submission[r] # "pending"

\* Shutdown returns, and from then on no task is left, or can be started, that
\* could still touch a store or the database engine that is disposed of next.
ShutdownDrains ==
  /\ shutdown = "gather" ~> shutdown = "done"
  /\ [](shutdown = "done" => \A r \in Runs : task[r].at \in {"none"} \cup Ended)
=============================================================================
