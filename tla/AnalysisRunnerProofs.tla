------------------------ MODULE AnalysisRunnerProofs -------------------------
(***************************************************************************)
(* Theorems about AnalysisRunner, for any runs, outcomes, capacities,      *)
(* retries and failures: the record, the log and the task of a run agree,  *)
(* nothing else is touched, nothing is accepted after the stop, the runner *)
(* implements the life cycle it promises, and it stops only for a cause.   *)
(***************************************************************************)
EXTENDS AnalysisRunner, TLAPS

(***************************************************************************)
(* The inductive invariant                                                 *)
(***************************************************************************)
PrunePoints ==
  {"list", "next", "prune_log", "prune_log_read", "prune_record",
   "prune_record_read", "prune_verify"}
PruningOne == PrunePoints \ {"list", "next"}

\* Where the task of a run is before its outcome is decided.
Undecided == {"queued", "mark", "mark_read", "start", "agent"}

Refused == {"failed", "cancelled", "capacity", "inconsistent", "shutdown"}

\* The critical section is held by a submission that is not answered yet, or by
\* a task that prunes.
Held ==
  /\ cs.at = "free" => cs.holder = "none"
  /\ cs.at # "free" => cs.run \in Runs
  /\ cs.at # "free" => cs.holder \in {"submit", "task"}
  /\ cs.holder = "submit" => cs.run \in Runs /\ submission[cs.run] = "pending"
  /\ cs.holder = "task" => /\ cs.run \in Runs /\ task[cs.run].at = "pruning"
                           /\ cs.at \in PrunePoints
  /\ cs.at \in PruningOne => /\ cs.cur \in Runs /\ cs.cur \notin cs.todo
                             /\ submission[cs.cur] = "accepted"
  /\ \A r \in Runs : token[r] => submission[r] = "accepted"

TypeInv == TypeOK /\ Held

\* What a submission has in the two stores, by where it stands.
Absent(r) == record[r].status = "absent"
Queued(r) == record[r].status = "queued"
Own(r) == log[r].owner = "own"

SubmissionAt ==
  cs.holder = "submit" =>
    /\ cs.at \in PrunePoints \cup {"create", "verify"} => Absent(cs.run)
    /\ cs.at \in {"probe", "open_log", "emit_created", "classify", "commit",
                  "del_log", "del_log_read", "del_record", "restore"} => Queued(cs.run)
    /\ cs.at \in PrunePoints \cup {"create", "create_read", "probe", "open_log",
                  "del_record", "del_record_read", "verify"} => ~Own(cs.run)
    /\ cs.at \in {"emit_created", "commit"} => Own(cs.run)
    /\ cs.at = "commit" => log[cs.run].created
    /\ cs.existed => log[cs.run].owner = "foreign"

\* What the stores have of the run being pruned, and of those still to prune.
PruneAt ==
  /\ \A r \in cs.todo : record[r].expired
  /\ cs.at \in PruningOne => Absent(cs.cur) \/ record[cs.cur].expired
  /\ cs.at \in {"prune_record", "prune_record_read", "prune_verify"} => ~Own(cs.cur)
  /\ cs.at = "prune_verify" => Absent(cs.cur)

\* After the beginning of a shutdown no submission is under way.
StopInv == shutdown # "no" => ~accepting /\ cs.holder # "submit"

\* The record of a run and its submission.
RecordInv(r) ==
  /\ record[r].status \in {"running", "terminal"} => submission[r] = "accepted"
  /\ record[r].expired => record[r].status = "terminal"
  /\ submission[r] = "none" => Absent(r)
  /\ submission[r] \in Refused /\ ~failed => Absent(r)
  /\ submission[r] = "pending" => cs.holder = "submit" /\ cs.run = r
  /\ submission[r] = "accepted" /\ ~Absent(r) => token[r]

\* The log of a run, its record and its submission.
LogInv(r) ==
  /\ Own(r) => ~Absent(r)
  /\ ~Own(r) => log[r].streams = 0
  /\ submission[r] = "none" => ~Own(r)
  /\ submission[r] \in Refused /\ ~failed => ~Own(r)
  /\ submission[r] = "accepted" /\ Own(r) => log[r].created
  /\ submission[r] = "accepted" /\ record[r].status \in {"queued", "running"} => Own(r)
  /\ submission[r] = "accepted" /\ record[r].status = "terminal" /\ ~failed =>
       Own(r) \/ (cs.cur = r /\ cs.at \in PruningOne \ {"prune_log"})

\* The task of a run, its record and its log.
TaskInv(r) ==
  /\ task[r].at # "none" <=> submission[r] = "accepted"
  /\ task[r].at \in Undecided => record[r].status # "terminal"
  /\ task[r].at \in Terminalizing => task[r].outcome # NoOutcome
  /\ task[r].at \in {"publish", "publish_emit", "publish_last"} /\ ~Absent(r) =>
       record[r].status = "terminal" /\ record[r].outcome = task[r].outcome
  /\ record[r].status = "terminal" /\ Own(r) /\ log[r].outcome = NoOutcome =>
       task[r].at \in Terminalizing \/ r \in runFailures

RunInv(r) == RecordInv(r) /\ LogInv(r) /\ TaskInv(r)

Inv ==
  /\ SubmissionAt /\ PruneAt /\ StopInv
  /\ \A r \in Runs : RunInv(r)

(***************************************************************************)
(* Types                                                                   *)
(***************************************************************************)
TaskRecords ==
  [at : {"none", "queued", "prune", "pruning"} \cup Holding \cup Ended,
   tries : Nat, outcome : Outcomes \cup {NoOutcome}]
RunRecords == [status : Statuses, outcome : Outcomes \cup {NoOutcome}, expired : BOOLEAN]
HolderKinds == {"none", "submit", "task"}
RunOrNone == Runs \cup {NoRun}
Followups == {"rollback", "undo", "abort"}
Failures == {"failed", "inconsistent"}
Sections ==
  [at : SectionPoints, holder : HolderKinds, run : RunOrNone, cur : RunOrNone,
   todo : SUBSET Runs, tries : Nat, pending : BOOLEAN, existed : BOOLEAN,
   owned : BOOLEAN, then : Followups, result : Failures]
Logs ==
  [owner : {"none", "own", "foreign"}, created : BOOLEAN, started : BOOLEAN,
   outcome : Outcomes \cup {NoOutcome}, streams : Int]

LEMMA InitType == Init => TypeInv
<1> SUFFICES ASSUME Init PROVE TypeInv
  OBVIOUS
<1>1. NoRecord \in RunRecords /\ NoLog \in Logs /\ NoTask \in TaskRecords
  BY DEF NoRecord, NoLog, NoTask, RunRecords, Logs, TaskRecords, Statuses
<1>2. TypeOK
  BY <1>1 DEF Init, TypeOK, Free, SectionPoints, RunRecords, Logs, TaskRecords
<1>3. Held
  BY DEF Init, Held, Free, PruningOne, PrunePoints
<1> QED
  BY <1>2, <1>3 DEF TypeInv

\* A task that moves keeps its type.
LEMMA TaskMoves ==
  ASSUME TypeInv, NEW r \in Runs,
         NEW a \in {"none", "queued", "prune", "pruning"} \cup Holding \cup Ended,
         NEW n \in Nat, NEW o \in Outcomes \cup {NoOutcome}
  PROVE  /\ [task EXCEPT ![r].at = a] \in [Runs -> TaskRecords]
         /\ [task EXCEPT ![r].at = a, ![r].tries = n] \in [Runs -> TaskRecords]
         /\ [task EXCEPT ![r].at = a, ![r].tries = n, ![r].outcome = o] \in [Runs -> TaskRecords]
<1>1. task \in [Runs -> TaskRecords]
  BY DEF TypeInv, TypeOK, TaskRecords
<1> DEFINE As == {"none", "queued", "prune", "pruning"} \cup Holding \cup Ended
           Os == Outcomes \cup {NoOutcome}
<1>2. TaskRecords = [at : As, tries : Nat, outcome : Os] /\ a \in As /\ o \in Os
  BY DEF TaskRecords
<1> HIDE DEF As, Os
<1> QED
  BY <1>1, <1>2

\* Leaving the section frees the lock and answers the submission, or ends the task.
LEMMA LeaveFacts ==
  ASSUME TypeInv, cs.at # "free", NEW result \in Refused, NEW pending \in BOOLEAN, Leave(result, pending)
  PROVE  /\ cs' = Free
         /\ cs.run \in Runs
         /\ cs.holder = "submit" =>
              /\ task' = task
              /\ submission' = [submission EXCEPT ![cs.run] = IF pending THEN "cancelled" ELSE result]
              /\ submission'[cs.run] \in Refused
              /\ \A r \in Runs : r # cs.run => submission'[r] = submission[r]
         /\ cs.holder = "task" =>
              /\ submission' = submission
              /\ \E a \in {"done", "failed"} : task' = [task EXCEPT ![cs.run].at = a]
BY DEF Leave, TypeInv, TypeOK, Held, Refused

LEMMA LeaveType ==
  ASSUME TypeInv, cs.at # "free", NEW result \in Refused, NEW pending \in BOOLEAN, Leave(result, pending),
         record' \in [Runs -> [status : Statuses, outcome : Outcomes \cup {NoOutcome},
                          expired : BOOLEAN]],
         log' = log, token' = token, accepting' \in BOOLEAN, failed' \in BOOLEAN,
         runFailures' \in SUBSET Runs, shutdown' = shutdown, faults' \in Nat
  PROVE  TypeInv'
<1>1. cs' = Free /\ cs.run \in Runs
  BY LeaveFacts
<1>2. Held'
  <2>1. \A r \in Runs : token[r] => submission'[r] = "accepted"
    BY LeaveFacts DEF TypeInv, Held
  <2> QED
    BY <1>1, <2>1 DEF Free, Held, PruningOne, PrunePoints
<1>3. CASE cs.holder = "submit"
  <2>1. task' = task /\ submission' = [submission EXCEPT ![cs.run] = IF pending THEN "cancelled" ELSE result]
    BY <1>3, LeaveFacts
  <2>2. TypeOK'
    BY <1>1, <2>1 DEF TypeInv, TypeOK, Free, SectionPoints, Refused
  <2> QED
    BY <1>2, <2>2 DEF TypeInv
<1>4. CASE cs.holder = "task"
  <2>1. submission' = submission /\ \E a \in {"done", "failed"} : task' = [task EXCEPT ![cs.run].at = a]
    BY <1>4, LeaveFacts
  <2> PICK a \in {"done", "failed"} : task' = [task EXCEPT ![cs.run].at = a]
    BY <2>1
  <2>2. task' \in [Runs -> TaskRecords]
    BY <1>1, TaskMoves, 0 \in Nat, NoOutcome \in Outcomes \cup {NoOutcome} DEF Ended
  <2>3. TypeOK'
    BY <1>1, <2>1, <2>2 DEF TypeInv, TypeOK, Free, SectionPoints, TaskRecords
  <2> QED
    BY <1>2, <2>3 DEF TypeInv
<1> QED
  BY <1>3, <1>4 DEF TypeInv, Held

LEMMA ChargeType ==
  ASSUME TypeInv, NEW bad \in BOOLEAN, Charge(bad)
  PROVE  faults' \in Nat /\ (~bad => faults' = faults)
BY DEF Charge, TypeInv, TypeOK

LEMMA CalledType ==
  ASSUME TypeInv, NEW x \in Reply, Called(x)
  PROVE  /\ faults' \in Nat /\ x.cancelled \in BOOLEAN /\ x.raised \in BOOLEAN /\ x.applied \in BOOLEAN
         /\ x.cancelled => x.raised /\ cs.holder = "submit"
         /\ ~x.raised => x.applied
BY ChargeType DEF Called, Reply

\* The section goes on: it keeps its holder, its run and, while it prunes, cur.
LEMMA SectionType ==
  ASSUME TypeInv, cs.at # "free",
         cs' \in Sections, cs'.at # "free", cs'.holder = cs.holder, cs'.run = cs.run,
         cs.holder = "task" => cs'.at \in PrunePoints,
         cs'.at \in PruningOne => cs'.cur \in Runs /\ cs'.cur \notin cs'.todo /\ submission[cs'.cur] = "accepted",
         record' \in [Runs -> RunRecords], log' \in [Runs -> Logs], token' \in [Runs -> BOOLEAN],
         \A r \in Runs : token'[r] => token[r], task' = task, submission' = submission, accepting' \in BOOLEAN, failed' \in BOOLEAN,
         runFailures' \in SUBSET Runs, shutdown' = shutdown, faults' \in Nat
  PROVE  TypeInv'
<1>1. TypeOK'
  BY DEF TypeInv, TypeOK, RunRecords, Logs, Sections, HolderKinds, RunOrNone, Followups, Failures
<1>2. Held'
  BY DEF TypeInv, Held
<1> QED
  BY <1>1, <1>2 DEF TypeInv

LEMMA TypeParts ==
  TypeInv => /\ record \in [Runs -> RunRecords] /\ log \in [Runs -> Logs]
             /\ task \in [Runs -> TaskRecords] /\ cs \in Sections /\ token \in [Runs -> BOOLEAN]
             /\ submission \in [Runs -> {"none", "pending", "accepted"} \cup Refused]
             /\ failed \in BOOLEAN /\ accepting \in BOOLEAN /\ runFailures \in SUBSET Runs
             /\ faults \in Nat
BY DEF TypeInv, TypeOK, RunRecords, Logs, TaskRecords, Refused,
       Sections, HolderKinds, RunOrNone, Followups, Failures

\* The effects of the store calls.
LEMMA StoreTypes ==
  ASSUME TypeInv, NEW r \in Runs
  PROVE  /\ Created(r) \in [Runs -> RunRecords]
         /\ \A s \in Statuses : Deleted(r, s) \in [Runs -> RunRecords]
         /\ LogOpened(r) \in [Runs -> Logs]
         /\ \A b \in BOOLEAN : LogDeleted(r, b) \in [Runs -> Logs]
         /\ [log EXCEPT ![r].created = TRUE] \in [Runs -> Logs]
<1>1. NoRecord \in RunRecords /\ NoLog \in Logs
  BY DEF NoRecord, NoLog, RunRecords, Logs, Statuses
<1>2. Created(r) \in [Runs -> RunRecords]
  BY TypeParts DEF Created, RunRecords, Statuses
<1>3. \A s \in Statuses : Deleted(r, s) \in [Runs -> RunRecords]
  BY <1>1, TypeParts DEF Deleted
<1>4. LogOpened(r) \in [Runs -> Logs] /\ [log EXCEPT ![r].created = TRUE] \in [Runs -> Logs]
  BY TypeParts DEF LogOpened, Logs
<1>5. \A b \in BOOLEAN : LogDeleted(r, b) \in [Runs -> Logs]
  BY <1>1, TypeParts DEF LogDeleted
<1> QED
  BY <1>2, <1>3, <1>4, <1>5

LEMMA ProbeType == ASSUME TypeInv, NEW x \in Reply, Probe(x) PROVE TypeInv'
<1>1. cs.at # "free" /\ cs.run \in Runs /\ (cs.at \in PruningOne => cs.cur \in Runs)
  BY DEF Probe, TypeInv, Held
<1>2. cs \in Sections /\ x.cancelled \in BOOLEAN /\ x.raised \in BOOLEAN /\ x.applied \in BOOLEAN
  BY TypeParts, CalledType DEF Probe
<1>3. /\ cs'.at \in SectionPoints /\ cs'.tries \in Nat /\ cs'.pending \in BOOLEAN
      /\ cs'.existed \in BOOLEAN /\ cs'.owned \in BOOLEAN /\ cs'.then \in Followups
      /\ cs'.result \in Failures
  BY <1>2 DEF Probe, Sections, SectionPoints, Followups, Failures
<1>4. cs' \in Sections
  BY <1>2, <1>3 DEF Probe, Sections
<1>5. /\ cs'.at # "free" /\ cs'.holder = cs.holder /\ cs'.run = cs.run
      /\ cs.holder = "task" => cs'.at \in PrunePoints
      /\ cs'.at \in PruningOne => cs'.cur \in Runs /\ cs'.cur \notin cs'.todo /\ submission[cs'.cur] = "accepted"
  BY <1>1, <1>2 DEF Probe, TypeInv, Held, Sections, PrunePoints, PruningOne
<1>6. record' \in [Runs -> RunRecords] /\ log' \in [Runs -> Logs]
  BY <1>1, <1>2, StoreTypes, TypeParts DEF Probe, Statuses, PruningOne, PrunePoints, stores
<1>7. /\ token' \in [Runs -> BOOLEAN] /\ (\A r \in Runs : token'[r] => token[r]) /\ task' = task /\ submission' = submission
      /\ accepting' \in BOOLEAN /\ failed' \in BOOLEAN
      /\ runFailures' \in SUBSET Runs /\ shutdown' = shutdown /\ faults' \in Nat
  BY TypeParts, CalledType DEF Probe, EnterFailStop, failStop
<1> QED
  BY <1>1, <1>4, <1>5, <1>6, <1>7, SectionType

LEMMA OpenLogType == ASSUME TypeInv, NEW x \in Reply, OpenLog(x) PROVE TypeInv'
<1>1. cs.at # "free" /\ cs.run \in Runs /\ (cs.at \in PruningOne => cs.cur \in Runs)
  BY DEF OpenLog, TypeInv, Held
<1>2. cs \in Sections /\ x.cancelled \in BOOLEAN /\ x.raised \in BOOLEAN /\ x.applied \in BOOLEAN
  BY TypeParts, CalledType DEF OpenLog
<1>3. /\ cs'.at \in SectionPoints /\ cs'.tries \in Nat /\ cs'.pending \in BOOLEAN
      /\ cs'.existed \in BOOLEAN /\ cs'.owned \in BOOLEAN /\ cs'.then \in Followups
      /\ cs'.result \in Failures
  BY <1>2 DEF OpenLog, Sections, SectionPoints, Followups, Failures
<1>4. cs' \in Sections
  BY <1>2, <1>3 DEF OpenLog, Sections
<1>5. /\ cs'.at # "free" /\ cs'.holder = cs.holder /\ cs'.run = cs.run
      /\ cs.holder = "task" => cs'.at \in PrunePoints
      /\ cs'.at \in PruningOne => cs'.cur \in Runs /\ cs'.cur \notin cs'.todo /\ submission[cs'.cur] = "accepted"
  BY <1>1, <1>2 DEF OpenLog, TypeInv, Held, Sections, PrunePoints, PruningOne
<1>6. record' \in [Runs -> RunRecords] /\ log' \in [Runs -> Logs]
  BY <1>1, <1>2, StoreTypes, TypeParts DEF OpenLog, Statuses, PruningOne, PrunePoints, stores
<1>7. /\ token' \in [Runs -> BOOLEAN] /\ (\A r \in Runs : token'[r] => token[r]) /\ task' = task /\ submission' = submission
      /\ accepting' \in BOOLEAN /\ failed' \in BOOLEAN
      /\ runFailures' \in SUBSET Runs /\ shutdown' = shutdown /\ faults' \in Nat
  BY TypeParts, CalledType DEF OpenLog, EnterFailStop, failStop
<1> QED
  BY <1>1, <1>4, <1>5, <1>6, <1>7, SectionType

LEMMA EmitCreatedType == ASSUME TypeInv, NEW x \in Reply, EmitCreated(x) PROVE TypeInv'
<1>1. cs.at # "free" /\ cs.run \in Runs /\ (cs.at \in PruningOne => cs.cur \in Runs)
  BY DEF EmitCreated, TypeInv, Held
<1>2. cs \in Sections /\ x.cancelled \in BOOLEAN /\ x.raised \in BOOLEAN /\ x.applied \in BOOLEAN
  BY TypeParts, CalledType DEF EmitCreated
<1>3. /\ cs'.at \in SectionPoints /\ cs'.tries \in Nat /\ cs'.pending \in BOOLEAN
      /\ cs'.existed \in BOOLEAN /\ cs'.owned \in BOOLEAN /\ cs'.then \in Followups
      /\ cs'.result \in Failures
  BY <1>2 DEF EmitCreated, Sections, SectionPoints, Followups, Failures
<1>4. cs' \in Sections
  BY <1>2, <1>3 DEF EmitCreated, Sections
<1>5. /\ cs'.at # "free" /\ cs'.holder = cs.holder /\ cs'.run = cs.run
      /\ cs.holder = "task" => cs'.at \in PrunePoints
      /\ cs'.at \in PruningOne => cs'.cur \in Runs /\ cs'.cur \notin cs'.todo /\ submission[cs'.cur] = "accepted"
  BY <1>1, <1>2 DEF EmitCreated, TypeInv, Held, Sections, PrunePoints, PruningOne
<1>6. record' \in [Runs -> RunRecords] /\ log' \in [Runs -> Logs]
  BY <1>1, <1>2, StoreTypes, TypeParts DEF EmitCreated, Statuses, PruningOne, PrunePoints, stores
<1>7. /\ token' \in [Runs -> BOOLEAN] /\ (\A r \in Runs : token'[r] => token[r]) /\ task' = task /\ submission' = submission
      /\ accepting' \in BOOLEAN /\ failed' \in BOOLEAN
      /\ runFailures' \in SUBSET Runs /\ shutdown' = shutdown /\ faults' \in Nat
  BY TypeParts, CalledType DEF EmitCreated, EnterFailStop, failStop
<1> QED
  BY <1>1, <1>4, <1>5, <1>6, <1>7, SectionType

LEMMA DeleteLogType == ASSUME TypeInv, NEW x \in Reply, DeleteLog(x) PROVE TypeInv'
<1>1. cs.at # "free" /\ cs.run \in Runs /\ (cs.at \in PruningOne => cs.cur \in Runs)
  BY DEF DeleteLog, TypeInv, Held
<1>2. cs \in Sections /\ x.cancelled \in BOOLEAN /\ x.raised \in BOOLEAN /\ x.applied \in BOOLEAN
  BY TypeParts, CalledType DEF DeleteLog
<1>3. /\ cs'.at \in SectionPoints /\ cs'.tries \in Nat /\ cs'.pending \in BOOLEAN
      /\ cs'.existed \in BOOLEAN /\ cs'.owned \in BOOLEAN /\ cs'.then \in Followups
      /\ cs'.result \in Failures
  BY <1>2 DEF DeleteLog, Sections, SectionPoints, Followups, Failures
<1>4. cs' \in Sections
  BY <1>2, <1>3 DEF DeleteLog, Sections
<1>5. /\ cs'.at # "free" /\ cs'.holder = cs.holder /\ cs'.run = cs.run
      /\ cs.holder = "task" => cs'.at \in PrunePoints
      /\ cs'.at \in PruningOne => cs'.cur \in Runs /\ cs'.cur \notin cs'.todo /\ submission[cs'.cur] = "accepted"
  BY <1>1, <1>2 DEF DeleteLog, TypeInv, Held, Sections, PrunePoints, PruningOne
<1>6. record' \in [Runs -> RunRecords] /\ log' \in [Runs -> Logs]
  BY <1>1, <1>2, StoreTypes, TypeParts DEF DeleteLog, Statuses, PruningOne, PrunePoints, stores
<1>7. /\ token' \in [Runs -> BOOLEAN] /\ (\A r \in Runs : token'[r] => token[r]) /\ task' = task /\ submission' = submission
      /\ accepting' \in BOOLEAN /\ failed' \in BOOLEAN
      /\ runFailures' \in SUBSET Runs /\ shutdown' = shutdown /\ faults' \in Nat
  BY TypeParts, CalledType DEF DeleteLog, EnterFailStop, failStop
<1> QED
  BY <1>1, <1>4, <1>5, <1>6, <1>7, SectionType

LEMMA DeleteRecordType == ASSUME TypeInv, NEW x \in Reply, DeleteRecord(x) PROVE TypeInv'
<1>1. cs.at # "free" /\ cs.run \in Runs /\ (cs.at \in PruningOne => cs.cur \in Runs)
  BY DEF DeleteRecord, TypeInv, Held
<1>2. cs \in Sections /\ x.cancelled \in BOOLEAN /\ x.raised \in BOOLEAN /\ x.applied \in BOOLEAN
  BY TypeParts, CalledType DEF DeleteRecord
<1>3. /\ cs'.at \in SectionPoints /\ cs'.tries \in Nat /\ cs'.pending \in BOOLEAN
      /\ cs'.existed \in BOOLEAN /\ cs'.owned \in BOOLEAN /\ cs'.then \in Followups
      /\ cs'.result \in Failures
  BY <1>2 DEF DeleteRecord, Sections, SectionPoints, Followups, Failures
<1>4. cs' \in Sections
  BY <1>2, <1>3 DEF DeleteRecord, Sections
<1>5. /\ cs'.at # "free" /\ cs'.holder = cs.holder /\ cs'.run = cs.run
      /\ cs.holder = "task" => cs'.at \in PrunePoints
      /\ cs'.at \in PruningOne => cs'.cur \in Runs /\ cs'.cur \notin cs'.todo /\ submission[cs'.cur] = "accepted"
  BY <1>1, <1>2 DEF DeleteRecord, TypeInv, Held, Sections, PrunePoints, PruningOne
<1>6. record' \in [Runs -> RunRecords] /\ log' \in [Runs -> Logs]
  BY <1>1, <1>2, StoreTypes, TypeParts DEF DeleteRecord, Statuses, PruningOne, PrunePoints, stores
<1>7. /\ token' \in [Runs -> BOOLEAN] /\ (\A r \in Runs : token'[r] => token[r]) /\ task' = task /\ submission' = submission
      /\ accepting' \in BOOLEAN /\ failed' \in BOOLEAN
      /\ runFailures' \in SUBSET Runs /\ shutdown' = shutdown /\ faults' \in Nat
  BY TypeParts, CalledType DEF DeleteRecord, EnterFailStop, failStop
<1> QED
  BY <1>1, <1>4, <1>5, <1>6, <1>7, SectionType

LEMMA RestoreLogType == ASSUME TypeInv, NEW x \in Reply, RestoreLog(x) PROVE TypeInv'
<1>1. cs.at # "free" /\ cs.run \in Runs /\ (cs.at \in PruningOne => cs.cur \in Runs)
  BY DEF RestoreLog, TypeInv, Held
<1>2. cs \in Sections /\ x.cancelled \in BOOLEAN /\ x.raised \in BOOLEAN /\ x.applied \in BOOLEAN
  BY TypeParts, CalledType DEF RestoreLog
<1>3. /\ cs'.at \in SectionPoints /\ cs'.tries \in Nat /\ cs'.pending \in BOOLEAN
      /\ cs'.existed \in BOOLEAN /\ cs'.owned \in BOOLEAN /\ cs'.then \in Followups
      /\ cs'.result \in Failures
  BY <1>2 DEF RestoreLog, Sections, SectionPoints, Followups, Failures
<1>4. cs' \in Sections
  BY <1>2, <1>3 DEF RestoreLog, Sections
<1>5. /\ cs'.at # "free" /\ cs'.holder = cs.holder /\ cs'.run = cs.run
      /\ cs.holder = "task" => cs'.at \in PrunePoints
      /\ cs'.at \in PruningOne => cs'.cur \in Runs /\ cs'.cur \notin cs'.todo /\ submission[cs'.cur] = "accepted"
  BY <1>1, <1>2 DEF RestoreLog, TypeInv, Held, Sections, PrunePoints, PruningOne
<1>6. record' \in [Runs -> RunRecords] /\ log' \in [Runs -> Logs]
  BY <1>1, <1>2, StoreTypes, TypeParts DEF RestoreLog, Statuses, PruningOne, PrunePoints, stores
<1>7. /\ token' \in [Runs -> BOOLEAN] /\ (\A r \in Runs : token'[r] => token[r]) /\ task' = task /\ submission' = submission
      /\ accepting' \in BOOLEAN /\ failed' \in BOOLEAN
      /\ runFailures' \in SUBSET Runs /\ shutdown' = shutdown /\ faults' \in Nat
  BY TypeParts, CalledType DEF RestoreLog, EnterFailStop, failStop
<1> QED
  BY <1>1, <1>4, <1>5, <1>6, <1>7, SectionType

LEMMA RestoreCreatedType == ASSUME TypeInv, NEW x \in Reply, RestoreCreated(x) PROVE TypeInv'
<1>1. cs.at # "free" /\ cs.run \in Runs /\ (cs.at \in PruningOne => cs.cur \in Runs)
  BY DEF RestoreCreated, TypeInv, Held
<1>2. cs \in Sections /\ x.cancelled \in BOOLEAN /\ x.raised \in BOOLEAN /\ x.applied \in BOOLEAN
  BY TypeParts, CalledType DEF RestoreCreated
<1>3. /\ cs'.at \in SectionPoints /\ cs'.tries \in Nat /\ cs'.pending \in BOOLEAN
      /\ cs'.existed \in BOOLEAN /\ cs'.owned \in BOOLEAN /\ cs'.then \in Followups
      /\ cs'.result \in Failures
  BY <1>2 DEF RestoreCreated, Sections, SectionPoints, Followups, Failures
<1>4. cs' \in Sections
  BY <1>2, <1>3 DEF RestoreCreated, Sections
<1>5. /\ cs'.at # "free" /\ cs'.holder = cs.holder /\ cs'.run = cs.run
      /\ cs.holder = "task" => cs'.at \in PrunePoints
      /\ cs'.at \in PruningOne => cs'.cur \in Runs /\ cs'.cur \notin cs'.todo /\ submission[cs'.cur] = "accepted"
  BY <1>1, <1>2 DEF RestoreCreated, TypeInv, Held, Sections, PrunePoints, PruningOne
<1>6. record' \in [Runs -> RunRecords] /\ log' \in [Runs -> Logs]
  BY <1>1, <1>2, StoreTypes, TypeParts DEF RestoreCreated, Statuses, PruningOne, PrunePoints,
     stores
<1>7. /\ token' \in [Runs -> BOOLEAN] /\ (\A r \in Runs : token'[r] => token[r]) /\ task' = task /\ submission' = submission
      /\ accepting' \in BOOLEAN /\ failed' \in BOOLEAN
      /\ runFailures' \in SUBSET Runs /\ shutdown' = shutdown /\ faults' \in Nat
  BY TypeParts, CalledType DEF RestoreCreated, EnterFailStop, failStop
<1> QED
  BY <1>1, <1>4, <1>5, <1>6, <1>7, SectionType

LEMMA PruneLogType == ASSUME TypeInv, NEW x \in Reply, PruneLog(x) PROVE TypeInv'
<1>1. cs.at # "free" /\ cs.run \in Runs /\ (cs.at \in PruningOne => cs.cur \in Runs)
  BY DEF PruneLog, TypeInv, Held
<1>2. cs \in Sections /\ x.cancelled \in BOOLEAN /\ x.raised \in BOOLEAN /\ x.applied \in BOOLEAN
  BY TypeParts, CalledType DEF PruneLog
<1>3. /\ cs'.at \in SectionPoints /\ cs'.tries \in Nat /\ cs'.pending \in BOOLEAN
      /\ cs'.existed \in BOOLEAN /\ cs'.owned \in BOOLEAN /\ cs'.then \in Followups
      /\ cs'.result \in Failures
  BY <1>2 DEF PruneLog, Sections, SectionPoints, Followups, Failures
<1>4. cs' \in Sections
  BY <1>2, <1>3 DEF PruneLog, Sections
<1>5. /\ cs'.at # "free" /\ cs'.holder = cs.holder /\ cs'.run = cs.run
      /\ cs.holder = "task" => cs'.at \in PrunePoints
      /\ cs'.at \in PruningOne => cs'.cur \in Runs /\ cs'.cur \notin cs'.todo /\ submission[cs'.cur] = "accepted"
  BY <1>1, <1>2 DEF PruneLog, TypeInv, Held, Sections, PrunePoints, PruningOne
<1>6. record' \in [Runs -> RunRecords] /\ log' \in [Runs -> Logs]
  BY <1>1, <1>2, StoreTypes, TypeParts DEF PruneLog, Statuses, PruningOne, PrunePoints, stores
<1>7. /\ token' \in [Runs -> BOOLEAN] /\ (\A r \in Runs : token'[r] => token[r]) /\ task' = task /\ submission' = submission
      /\ accepting' \in BOOLEAN /\ failed' \in BOOLEAN
      /\ runFailures' \in SUBSET Runs /\ shutdown' = shutdown /\ faults' \in Nat
  BY TypeParts, CalledType DEF PruneLog, EnterFailStop, failStop
<1> QED
  BY <1>1, <1>4, <1>5, <1>6, <1>7, SectionType

LEMMA PruneRecordType == ASSUME TypeInv, NEW x \in Reply, PruneRecord(x) PROVE TypeInv'
<1>1. cs.at # "free" /\ cs.run \in Runs /\ (cs.at \in PruningOne => cs.cur \in Runs)
  BY DEF PruneRecord, TypeInv, Held
<1>2. cs \in Sections /\ x.cancelled \in BOOLEAN /\ x.raised \in BOOLEAN /\ x.applied \in BOOLEAN
  BY TypeParts, CalledType DEF PruneRecord
<1>3. /\ cs'.at \in SectionPoints /\ cs'.tries \in Nat /\ cs'.pending \in BOOLEAN
      /\ cs'.existed \in BOOLEAN /\ cs'.owned \in BOOLEAN /\ cs'.then \in Followups
      /\ cs'.result \in Failures
  BY <1>2 DEF PruneRecord, Sections, SectionPoints, Followups, Failures
<1>4. cs' \in Sections
  BY <1>2, <1>3 DEF PruneRecord, Sections
<1>5. /\ cs'.at # "free" /\ cs'.holder = cs.holder /\ cs'.run = cs.run
      /\ cs.holder = "task" => cs'.at \in PrunePoints
      /\ cs'.at \in PruningOne => cs'.cur \in Runs /\ cs'.cur \notin cs'.todo /\ submission[cs'.cur] = "accepted"
  BY <1>1, <1>2 DEF PruneRecord, TypeInv, Held, Sections, PrunePoints, PruningOne
<1>6. record' \in [Runs -> RunRecords] /\ log' \in [Runs -> Logs]
  BY <1>1, <1>2, StoreTypes, TypeParts DEF PruneRecord, Statuses, PruningOne, PrunePoints, stores
<1>7. /\ token' \in [Runs -> BOOLEAN] /\ (\A r \in Runs : token'[r] => token[r]) /\ task' = task /\ submission' = submission
      /\ accepting' \in BOOLEAN /\ failed' \in BOOLEAN
      /\ runFailures' \in SUBSET Runs /\ shutdown' = shutdown /\ faults' \in Nat
  BY TypeParts, CalledType DEF PruneRecord, EnterFailStop, failStop
<1> QED
  BY <1>1, <1>4, <1>5, <1>6, <1>7, SectionType

LEMMA AbortType ==
  ASSUME TypeInv, cs.at # "free", NEW S \in SUBSET Runs, Abort(S),
         UNCHANGED <<record, log, token, shutdown>>, faults' \in Nat
  PROVE  TypeInv'
<1>1. /\ accepting' \in BOOLEAN /\ failed' \in BOOLEAN /\ runFailures' \in SUBSET Runs
      /\ Leave("inconsistent", cs.pending)
  BY TypeParts DEF Abort, EnterFailStop, TypeInv, Held
<1>2. cs.pending \in BOOLEAN /\ "inconsistent" \in Refused
  BY TypeParts DEF Sections, Refused
<1> QED
  BY <1>1, <1>2, LeaveType, TypeParts DEF RunRecords

\* Steps of the section that only look: they end it or move within it.
Stays(c) == cs' = c /\ UNCHANGED <<submission, task, accepting, failed, runFailures>>
Looks == UNCHANGED <<record, log, token, shutdown>>
Ends == UNCHANGED <<accepting, failed, runFailures>>

LEMMA StaysType ==
  ASSUME TypeInv, cs.at # "free", Looks, faults' \in Nat, NEW c \in Sections, Stays(c),
         c.at # "free", c.holder = cs.holder, c.run = cs.run,
         cs.holder = "task" => c.at \in PrunePoints,
         c.at \in PruningOne => c.cur \in Runs /\ c.cur \notin c.todo /\ submission[c.cur] = "accepted"
  PROVE  TypeInv'
<1>1. /\ cs' = c /\ task' = task /\ submission' = submission /\ record' = record /\ log' = log
      /\ token' = token /\ accepting' = accepting /\ failed' = failed
      /\ runFailures' = runFailures /\ shutdown' = shutdown
  BY DEF Looks, Stays
<1> QED
  BY <1>1, SectionType, TypeParts

LEMMA CreateReadCases ==
  ASSUME TypeInv, NEW readable \in BOOLEAN, CreateRead(readable)
  PROVE  /\ cs.at = "create_read" /\ cs.run \in Runs /\ cs.pending \in BOOLEAN /\ faults' \in Nat /\ Looks
         /\ \/ Abort({cs.run})
            \/ Absent(cs.run) /\ Leave("failed", cs.pending) /\ Ends
            \/ ~Absent(cs.run) /\ Stays([cs EXCEPT !.at = "del_record", !.then = "undo"])
<1>1. cs.at = "create_read" /\ cs.run \in Runs /\ cs.pending \in BOOLEAN /\ faults' \in Nat /\ Looks
  BY TypeParts, ChargeType, CalledType DEF CreateRead, Looks, stores, TypeInv, Held, Sections
<1> QED
  BY <1>1, TypeParts DEF CreateRead, Goto, Retry, LastTry, Stays, Ends, failStop, Absent,
     Queued, Own, Sections, Held, TypeInv

LEMMA CreateReadType ==
  ASSUME TypeInv, NEW readable \in BOOLEAN, CreateRead(readable) PROVE TypeInv'
<1>1. cs.at = "create_read" /\ cs.run \in Runs /\ cs.pending \in BOOLEAN /\ faults' \in Nat /\ Looks
  BY CreateReadCases
<1>2. cs \in Sections /\ (cs.at \in PruningOne => cs.cur \in Runs)
  BY TypeParts DEF TypeInv, Held
<1>3. CASE Abort({cs.run})
  BY <1>1, <1>2, <1>3, AbortType DEF Looks
<1>4. CASE Absent(cs.run) /\ Leave("failed", cs.pending) /\ Ends
  <2>1. "failed" \in Refused
    BY <1>2 DEF Refused, Sections, Failures
  <2> QED
    BY <1>1, <1>4, <2>1, LeaveType, TypeParts DEF Looks, Ends, RunRecords
<1>5. CASE ~Absent(cs.run) /\ Stays([cs EXCEPT !.at = "del_record", !.then = "undo"])
  <2> DEFINE c == [cs EXCEPT !.at = "del_record", !.then = "undo"]
  <2>1. /\ c.at \in SectionPoints /\ c.tries \in Nat /\ c.pending \in BOOLEAN
        /\ c.existed \in BOOLEAN /\ c.owned \in BOOLEAN /\ c.then \in Followups
        /\ c.result \in Failures /\ c.cur \in RunOrNone /\ c.todo \in SUBSET Runs
    BY <1>2 DEF Sections, SectionPoints, Followups, Failures, RunOrNone
  <2>2. c \in Sections
    BY <1>2, <2>1 DEF Sections
  <2>3. /\ c.at # "free" /\ c.holder = cs.holder /\ c.run = cs.run
        /\ cs.holder = "task" => c.at \in PrunePoints
        /\ c.at \in PruningOne => c.cur \in Runs /\ c.cur \notin c.todo /\ submission[c.cur] = "accepted"
    BY <1>1, <1>2, <1>5 DEF TypeInv, Held, Sections, PrunePoints, PruningOne
  <2> HIDE DEF c
  <2> QED
    BY <1>1, <1>5, <2>2, <2>3, StaysType DEF c
<1> QED
  BY CreateReadCases, <1>3, <1>4, <1>5

LEMMA ClassifyCases ==
  ASSUME TypeInv, NEW readable \in BOOLEAN, Classify(readable)
  PROVE  /\ cs.at = "classify" /\ cs.run \in Runs /\ cs.pending \in BOOLEAN /\ faults' \in Nat /\ Looks
         /\ \/ Abort({cs.run})
            \/ Own(cs.run) /\ Stays([cs EXCEPT !.at = "del_log", !.owned = TRUE])
            \/ ~Own(cs.run) /\ Stays([cs EXCEPT !.at = "del_record", !.then = "abort"])
            \/ ~Own(cs.run) /\ Stays([cs EXCEPT !.at = "del_record"])
<1>1. cs.at = "classify" /\ cs.run \in Runs /\ cs.pending \in BOOLEAN /\ faults' \in Nat /\ Looks
  BY TypeParts, ChargeType, CalledType DEF Classify, Looks, stores, TypeInv, Held, Sections
<1> QED
  BY <1>1, TypeParts DEF Classify, Goto, Retry, LastTry, Stays, Ends, failStop, Absent,
     Queued, Own, Sections, Held, TypeInv

LEMMA ClassifyType ==
  ASSUME TypeInv, NEW readable \in BOOLEAN, Classify(readable) PROVE TypeInv'
<1>1. cs.at = "classify" /\ cs.run \in Runs /\ cs.pending \in BOOLEAN /\ faults' \in Nat /\ Looks
  BY ClassifyCases
<1>2. cs \in Sections /\ (cs.at \in PruningOne => cs.cur \in Runs)
  BY TypeParts DEF TypeInv, Held
<1>3. CASE Abort({cs.run})
  BY <1>1, <1>2, <1>3, AbortType DEF Looks
<1>4. CASE Own(cs.run) /\ Stays([cs EXCEPT !.at = "del_log", !.owned = TRUE])
  <2> DEFINE c == [cs EXCEPT !.at = "del_log", !.owned = TRUE]
  <2>1. /\ c.at \in SectionPoints /\ c.tries \in Nat /\ c.pending \in BOOLEAN
        /\ c.existed \in BOOLEAN /\ c.owned \in BOOLEAN /\ c.then \in Followups
        /\ c.result \in Failures /\ c.cur \in RunOrNone /\ c.todo \in SUBSET Runs
    BY <1>2 DEF Sections, SectionPoints, Followups, Failures, RunOrNone
  <2>2. c \in Sections
    BY <1>2, <2>1 DEF Sections
  <2>3. /\ c.at # "free" /\ c.holder = cs.holder /\ c.run = cs.run
        /\ cs.holder = "task" => c.at \in PrunePoints
        /\ c.at \in PruningOne => c.cur \in Runs /\ c.cur \notin c.todo /\ submission[c.cur] = "accepted"
    BY <1>1, <1>2, <1>4 DEF TypeInv, Held, Sections, PrunePoints, PruningOne
  <2> HIDE DEF c
  <2> QED
    BY <1>1, <1>4, <2>2, <2>3, StaysType DEF c
<1>5. CASE ~Own(cs.run) /\ Stays([cs EXCEPT !.at = "del_record", !.then = "abort"])
  <2> DEFINE c == [cs EXCEPT !.at = "del_record", !.then = "abort"]
  <2>1. /\ c.at \in SectionPoints /\ c.tries \in Nat /\ c.pending \in BOOLEAN
        /\ c.existed \in BOOLEAN /\ c.owned \in BOOLEAN /\ c.then \in Followups
        /\ c.result \in Failures /\ c.cur \in RunOrNone /\ c.todo \in SUBSET Runs
    BY <1>2 DEF Sections, SectionPoints, Followups, Failures, RunOrNone
  <2>2. c \in Sections
    BY <1>2, <2>1 DEF Sections
  <2>3. /\ c.at # "free" /\ c.holder = cs.holder /\ c.run = cs.run
        /\ cs.holder = "task" => c.at \in PrunePoints
        /\ c.at \in PruningOne => c.cur \in Runs /\ c.cur \notin c.todo /\ submission[c.cur] = "accepted"
    BY <1>1, <1>2, <1>5 DEF TypeInv, Held, Sections, PrunePoints, PruningOne
  <2> HIDE DEF c
  <2> QED
    BY <1>1, <1>5, <2>2, <2>3, StaysType DEF c
<1>6. CASE ~Own(cs.run) /\ Stays([cs EXCEPT !.at = "del_record"])
  <2> DEFINE c == [cs EXCEPT !.at = "del_record"]
  <2>1. /\ c.at \in SectionPoints /\ c.tries \in Nat /\ c.pending \in BOOLEAN
        /\ c.existed \in BOOLEAN /\ c.owned \in BOOLEAN /\ c.then \in Followups
        /\ c.result \in Failures /\ c.cur \in RunOrNone /\ c.todo \in SUBSET Runs
    BY <1>2 DEF Sections, SectionPoints, Followups, Failures, RunOrNone
  <2>2. c \in Sections
    BY <1>2, <2>1 DEF Sections
  <2>3. /\ c.at # "free" /\ c.holder = cs.holder /\ c.run = cs.run
        /\ cs.holder = "task" => c.at \in PrunePoints
        /\ c.at \in PruningOne => c.cur \in Runs /\ c.cur \notin c.todo /\ submission[c.cur] = "accepted"
    BY <1>1, <1>2, <1>6 DEF TypeInv, Held, Sections, PrunePoints, PruningOne
  <2> HIDE DEF c
  <2> QED
    BY <1>1, <1>6, <2>2, <2>3, StaysType DEF c
<1> QED
  BY ClassifyCases, <1>3, <1>4, <1>5, <1>6

LEMMA DeleteLogReadCases ==
  ASSUME TypeInv, NEW readable \in BOOLEAN, DeleteLogRead(readable)
  PROVE  /\ cs.at = "del_log_read" /\ cs.run \in Runs /\ cs.pending \in BOOLEAN /\ faults' \in Nat /\ Looks
         /\ \/ Abort({cs.run})
            \/ ~Own(cs.run) /\ Stays([cs EXCEPT !.at = "del_record", !.tries = 0])
            \/ Own(cs.run) /\ Stays([cs EXCEPT !.at = "del_log", !.tries = @ + 1])
<1>1. cs.at = "del_log_read" /\ cs.run \in Runs /\ cs.pending \in BOOLEAN /\ faults' \in Nat /\ Looks
  BY TypeParts, ChargeType, CalledType DEF DeleteLogRead, Looks, stores, TypeInv, Held, Sections
<1> QED
  BY <1>1, TypeParts DEF DeleteLogRead, Goto, Retry, LastTry, Stays, Ends, failStop, Absent,
     Queued, Own, Sections, Held, TypeInv

LEMMA DeleteLogReadType ==
  ASSUME TypeInv, NEW readable \in BOOLEAN, DeleteLogRead(readable) PROVE TypeInv'
<1>1. cs.at = "del_log_read" /\ cs.run \in Runs /\ cs.pending \in BOOLEAN /\ faults' \in Nat /\ Looks
  BY DeleteLogReadCases
<1>2. cs \in Sections /\ (cs.at \in PruningOne => cs.cur \in Runs)
  BY TypeParts DEF TypeInv, Held
<1>3. CASE Abort({cs.run})
  BY <1>1, <1>2, <1>3, AbortType DEF Looks
<1>4. CASE ~Own(cs.run) /\ Stays([cs EXCEPT !.at = "del_record", !.tries = 0])
  <2> DEFINE c == [cs EXCEPT !.at = "del_record", !.tries = 0]
  <2>1. /\ c.at \in SectionPoints /\ c.tries \in Nat /\ c.pending \in BOOLEAN
        /\ c.existed \in BOOLEAN /\ c.owned \in BOOLEAN /\ c.then \in Followups
        /\ c.result \in Failures /\ c.cur \in RunOrNone /\ c.todo \in SUBSET Runs
    BY <1>2 DEF Sections, SectionPoints, Followups, Failures, RunOrNone
  <2>2. c \in Sections
    BY <1>2, <2>1 DEF Sections
  <2>3. /\ c.at # "free" /\ c.holder = cs.holder /\ c.run = cs.run
        /\ cs.holder = "task" => c.at \in PrunePoints
        /\ c.at \in PruningOne => c.cur \in Runs /\ c.cur \notin c.todo /\ submission[c.cur] = "accepted"
    BY <1>1, <1>2, <1>4 DEF TypeInv, Held, Sections, PrunePoints, PruningOne
  <2> HIDE DEF c
  <2> QED
    BY <1>1, <1>4, <2>2, <2>3, StaysType DEF c
<1>5. CASE Own(cs.run) /\ Stays([cs EXCEPT !.at = "del_log", !.tries = @ + 1])
  <2> DEFINE c == [cs EXCEPT !.at = "del_log", !.tries = @ + 1]
  <2>1. /\ c.at \in SectionPoints /\ c.tries \in Nat /\ c.pending \in BOOLEAN
        /\ c.existed \in BOOLEAN /\ c.owned \in BOOLEAN /\ c.then \in Followups
        /\ c.result \in Failures /\ c.cur \in RunOrNone /\ c.todo \in SUBSET Runs
    BY <1>2 DEF Sections, SectionPoints, Followups, Failures, RunOrNone
  <2>2. c \in Sections
    BY <1>2, <2>1 DEF Sections
  <2>3. /\ c.at # "free" /\ c.holder = cs.holder /\ c.run = cs.run
        /\ cs.holder = "task" => c.at \in PrunePoints
        /\ c.at \in PruningOne => c.cur \in Runs /\ c.cur \notin c.todo /\ submission[c.cur] = "accepted"
    BY <1>1, <1>2, <1>5 DEF TypeInv, Held, Sections, PrunePoints, PruningOne
  <2> HIDE DEF c
  <2> QED
    BY <1>1, <1>5, <2>2, <2>3, StaysType DEF c
<1> QED
  BY DeleteLogReadCases, <1>3, <1>4, <1>5

LEMMA DeleteRecordReadCases ==
  ASSUME TypeInv, NEW readable \in BOOLEAN, DeleteRecordRead(readable)
  PROVE  /\ cs.at = "del_record_read" /\ cs.run \in Runs /\ cs.pending \in BOOLEAN /\ faults' \in Nat /\ Looks
         /\ \/ Abort({cs.run})
            \/ Abort({})
            \/ Absent(cs.run) /\ Leave(cs.result, cs.pending) /\ Ends
            \/ Absent(cs.run) /\ Stays([cs EXCEPT !.at = "verify", !.tries = 0])
            \/ Queued(cs.run) /\ Stays([cs EXCEPT !.at = "del_record", !.tries = @ + 1])
            \/ Queued(cs.run) /\ Stays([cs EXCEPT !.at = "restore", !.tries = 0])
<1>1. cs.at = "del_record_read" /\ cs.run \in Runs /\ cs.pending \in BOOLEAN /\ faults' \in Nat /\ Looks
  BY TypeParts, ChargeType, CalledType DEF DeleteRecordRead, Looks, stores, TypeInv, Held,
     Sections
<1> QED
  BY <1>1, TypeParts DEF DeleteRecordRead, Goto, Retry, LastTry, Stays, Ends, failStop,
     Absent, Queued, Own, Sections, Held, TypeInv

LEMMA DeleteRecordReadType ==
  ASSUME TypeInv, NEW readable \in BOOLEAN, DeleteRecordRead(readable) PROVE TypeInv'
<1>1. cs.at = "del_record_read" /\ cs.run \in Runs /\ cs.pending \in BOOLEAN /\ faults' \in Nat /\ Looks
  BY DeleteRecordReadCases
<1>2. cs \in Sections /\ (cs.at \in PruningOne => cs.cur \in Runs)
  BY TypeParts DEF TypeInv, Held
<1>3. CASE Abort({cs.run})
  BY <1>1, <1>2, <1>3, AbortType DEF Looks
<1>4. CASE Abort({})
  BY <1>1, <1>2, <1>4, AbortType DEF Looks
<1>5. CASE Absent(cs.run) /\ Leave(cs.result, cs.pending) /\ Ends
  <2>1. cs.result \in Refused
    BY <1>2 DEF Refused, Sections, Failures
  <2> QED
    BY <1>1, <1>5, <2>1, LeaveType, TypeParts DEF Looks, Ends, RunRecords
<1>6. CASE Absent(cs.run) /\ Stays([cs EXCEPT !.at = "verify", !.tries = 0])
  <2> DEFINE c == [cs EXCEPT !.at = "verify", !.tries = 0]
  <2>1. /\ c.at \in SectionPoints /\ c.tries \in Nat /\ c.pending \in BOOLEAN
        /\ c.existed \in BOOLEAN /\ c.owned \in BOOLEAN /\ c.then \in Followups
        /\ c.result \in Failures /\ c.cur \in RunOrNone /\ c.todo \in SUBSET Runs
    BY <1>2 DEF Sections, SectionPoints, Followups, Failures, RunOrNone
  <2>2. c \in Sections
    BY <1>2, <2>1 DEF Sections
  <2>3. /\ c.at # "free" /\ c.holder = cs.holder /\ c.run = cs.run
        /\ cs.holder = "task" => c.at \in PrunePoints
        /\ c.at \in PruningOne => c.cur \in Runs /\ c.cur \notin c.todo /\ submission[c.cur] = "accepted"
    BY <1>1, <1>2, <1>6 DEF TypeInv, Held, Sections, PrunePoints, PruningOne
  <2> HIDE DEF c
  <2> QED
    BY <1>1, <1>6, <2>2, <2>3, StaysType DEF c
<1>7. CASE Queued(cs.run) /\ Stays([cs EXCEPT !.at = "del_record", !.tries = @ + 1])
  <2> DEFINE c == [cs EXCEPT !.at = "del_record", !.tries = @ + 1]
  <2>1. /\ c.at \in SectionPoints /\ c.tries \in Nat /\ c.pending \in BOOLEAN
        /\ c.existed \in BOOLEAN /\ c.owned \in BOOLEAN /\ c.then \in Followups
        /\ c.result \in Failures /\ c.cur \in RunOrNone /\ c.todo \in SUBSET Runs
    BY <1>2 DEF Sections, SectionPoints, Followups, Failures, RunOrNone
  <2>2. c \in Sections
    BY <1>2, <2>1 DEF Sections
  <2>3. /\ c.at # "free" /\ c.holder = cs.holder /\ c.run = cs.run
        /\ cs.holder = "task" => c.at \in PrunePoints
        /\ c.at \in PruningOne => c.cur \in Runs /\ c.cur \notin c.todo /\ submission[c.cur] = "accepted"
    BY <1>1, <1>2, <1>7 DEF TypeInv, Held, Sections, PrunePoints, PruningOne
  <2> HIDE DEF c
  <2> QED
    BY <1>1, <1>7, <2>2, <2>3, StaysType DEF c
<1>8. CASE Queued(cs.run) /\ Stays([cs EXCEPT !.at = "restore", !.tries = 0])
  <2> DEFINE c == [cs EXCEPT !.at = "restore", !.tries = 0]
  <2>1. /\ c.at \in SectionPoints /\ c.tries \in Nat /\ c.pending \in BOOLEAN
        /\ c.existed \in BOOLEAN /\ c.owned \in BOOLEAN /\ c.then \in Followups
        /\ c.result \in Failures /\ c.cur \in RunOrNone /\ c.todo \in SUBSET Runs
    BY <1>2 DEF Sections, SectionPoints, Followups, Failures, RunOrNone
  <2>2. c \in Sections
    BY <1>2, <2>1 DEF Sections
  <2>3. /\ c.at # "free" /\ c.holder = cs.holder /\ c.run = cs.run
        /\ cs.holder = "task" => c.at \in PrunePoints
        /\ c.at \in PruningOne => c.cur \in Runs /\ c.cur \notin c.todo /\ submission[c.cur] = "accepted"
    BY <1>1, <1>2, <1>8 DEF TypeInv, Held, Sections, PrunePoints, PruningOne
  <2> HIDE DEF c
  <2> QED
    BY <1>1, <1>8, <2>2, <2>3, StaysType DEF c
<1> QED
  BY DeleteRecordReadCases, <1>3, <1>4, <1>5, <1>6, <1>7, <1>8

LEMMA VerifyLogGoneCases ==
  ASSUME TypeInv, NEW readable \in BOOLEAN, VerifyLogGone(readable)
  PROVE  /\ cs.at = "verify" /\ cs.run \in Runs /\ cs.pending \in BOOLEAN /\ faults' \in Nat /\ Looks
         /\ \/ Abort({cs.run})
            \/ ~Own(cs.run) /\ Leave(cs.result, cs.pending) /\ Ends
<1>1. cs.at = "verify" /\ cs.run \in Runs /\ cs.pending \in BOOLEAN /\ faults' \in Nat /\ Looks
  BY TypeParts, ChargeType, CalledType DEF VerifyLogGone, Looks, stores, TypeInv, Held, Sections
<1> QED
  BY <1>1, TypeParts DEF VerifyLogGone, Goto, Retry, LastTry, Stays, Ends, failStop, Absent,
     Queued, Own, Sections, Held, TypeInv

LEMMA VerifyLogGoneType ==
  ASSUME TypeInv, NEW readable \in BOOLEAN, VerifyLogGone(readable) PROVE TypeInv'
<1>1. cs.at = "verify" /\ cs.run \in Runs /\ cs.pending \in BOOLEAN /\ faults' \in Nat /\ Looks
  BY VerifyLogGoneCases
<1>2. cs \in Sections /\ (cs.at \in PruningOne => cs.cur \in Runs)
  BY TypeParts DEF TypeInv, Held
<1>3. CASE Abort({cs.run})
  BY <1>1, <1>2, <1>3, AbortType DEF Looks
<1>4. CASE ~Own(cs.run) /\ Leave(cs.result, cs.pending) /\ Ends
  <2>1. cs.result \in Refused
    BY <1>2 DEF Refused, Sections, Failures
  <2> QED
    BY <1>1, <1>4, <2>1, LeaveType, TypeParts DEF Looks, Ends, RunRecords
<1> QED
  BY VerifyLogGoneCases, <1>3, <1>4

LEMMA RestoreEndsCases ==
  ASSUME TypeInv, NEW readable \in BOOLEAN, RestoreEnds(readable)
  PROVE  /\ cs.at = "restore" /\ cs.run \in Runs /\ cs.pending \in BOOLEAN /\ faults' \in Nat /\ Looks
         /\ \/ Abort({cs.run})
<1>1. cs.at = "restore" /\ cs.run \in Runs /\ cs.pending \in BOOLEAN /\ faults' \in Nat /\ Looks
  BY TypeParts, ChargeType, CalledType DEF RestoreEnds, Looks, stores, TypeInv, Held, Sections
<1> QED
  BY <1>1, TypeParts DEF RestoreEnds, Goto, Retry, LastTry, Stays, Ends, failStop, Absent,
     Queued, Own, Sections, Held, TypeInv

LEMMA RestoreEndsType ==
  ASSUME TypeInv, NEW readable \in BOOLEAN, RestoreEnds(readable) PROVE TypeInv'
<1>1. cs.at = "restore" /\ cs.run \in Runs /\ cs.pending \in BOOLEAN /\ faults' \in Nat /\ Looks
  BY RestoreEndsCases
<1>2. cs \in Sections /\ (cs.at \in PruningOne => cs.cur \in Runs)
  BY TypeParts DEF TypeInv, Held
<1>3. CASE Abort({cs.run})
  BY <1>1, <1>2, <1>3, AbortType DEF Looks
<1> QED
  BY RestoreEndsCases, <1>3

LEMMA PruneLogReadCases ==
  ASSUME TypeInv, NEW readable \in BOOLEAN, PruneLogRead(readable)
  PROVE  /\ cs.at = "prune_log_read" /\ cs.run \in Runs /\ cs.pending \in BOOLEAN /\ faults' \in Nat /\ Looks
         /\ \/ Abort({cs.cur})
            \/ ~Own(cs.cur) /\ Stays([cs EXCEPT !.at = "prune_record", !.tries = 0])
            \/ Own(cs.cur) /\ Stays([cs EXCEPT !.at = "prune_log", !.tries = @ + 1])
            \/ Own(cs.cur) /\ Stays([cs EXCEPT !.at = "next", !.tries = 0])
<1>1. cs.at = "prune_log_read" /\ cs.run \in Runs /\ cs.pending \in BOOLEAN /\ faults' \in Nat /\ Looks
  BY TypeParts, ChargeType, CalledType DEF PruneLogRead, Looks, stores, TypeInv, Held, Sections
<1> QED
  BY <1>1, TypeParts DEF PruneLogRead, Goto, Retry, LastTry, Stays, Ends, failStop, Absent,
     Queued, Own, Sections, Held, TypeInv

LEMMA PruneLogReadType ==
  ASSUME TypeInv, NEW readable \in BOOLEAN, PruneLogRead(readable) PROVE TypeInv'
<1>1. cs.at = "prune_log_read" /\ cs.run \in Runs /\ cs.pending \in BOOLEAN /\ faults' \in Nat /\ Looks
  BY PruneLogReadCases
<1>2. cs \in Sections /\ (cs.at \in PruningOne => cs.cur \in Runs)
  BY TypeParts DEF TypeInv, Held
<1>3. CASE Abort({cs.cur})
  BY <1>1, <1>2, <1>3, AbortType DEF Looks, PruningOne, PrunePoints
<1>4. CASE ~Own(cs.cur) /\ Stays([cs EXCEPT !.at = "prune_record", !.tries = 0])
  <2> DEFINE c == [cs EXCEPT !.at = "prune_record", !.tries = 0]
  <2>1. /\ c.at \in SectionPoints /\ c.tries \in Nat /\ c.pending \in BOOLEAN
        /\ c.existed \in BOOLEAN /\ c.owned \in BOOLEAN /\ c.then \in Followups
        /\ c.result \in Failures /\ c.cur \in RunOrNone /\ c.todo \in SUBSET Runs
    BY <1>2 DEF Sections, SectionPoints, Followups, Failures, RunOrNone
  <2>2. c \in Sections
    BY <1>2, <2>1 DEF Sections
  <2>3. /\ c.at # "free" /\ c.holder = cs.holder /\ c.run = cs.run
        /\ cs.holder = "task" => c.at \in PrunePoints
        /\ c.at \in PruningOne => c.cur \in Runs /\ c.cur \notin c.todo /\ submission[c.cur] = "accepted"
    BY <1>1, <1>2, <1>4 DEF TypeInv, Held, Sections, PrunePoints, PruningOne
  <2> HIDE DEF c
  <2> QED
    BY <1>1, <1>4, <2>2, <2>3, StaysType DEF c
<1>5. CASE Own(cs.cur) /\ Stays([cs EXCEPT !.at = "prune_log", !.tries = @ + 1])
  <2> DEFINE c == [cs EXCEPT !.at = "prune_log", !.tries = @ + 1]
  <2>1. /\ c.at \in SectionPoints /\ c.tries \in Nat /\ c.pending \in BOOLEAN
        /\ c.existed \in BOOLEAN /\ c.owned \in BOOLEAN /\ c.then \in Followups
        /\ c.result \in Failures /\ c.cur \in RunOrNone /\ c.todo \in SUBSET Runs
    BY <1>2 DEF Sections, SectionPoints, Followups, Failures, RunOrNone
  <2>2. c \in Sections
    BY <1>2, <2>1 DEF Sections
  <2>3. /\ c.at # "free" /\ c.holder = cs.holder /\ c.run = cs.run
        /\ cs.holder = "task" => c.at \in PrunePoints
        /\ c.at \in PruningOne => c.cur \in Runs /\ c.cur \notin c.todo /\ submission[c.cur] = "accepted"
    BY <1>1, <1>2, <1>5 DEF TypeInv, Held, Sections, PrunePoints, PruningOne
  <2> HIDE DEF c
  <2> QED
    BY <1>1, <1>5, <2>2, <2>3, StaysType DEF c
<1>6. CASE Own(cs.cur) /\ Stays([cs EXCEPT !.at = "next", !.tries = 0])
  <2> DEFINE c == [cs EXCEPT !.at = "next", !.tries = 0]
  <2>1. /\ c.at \in SectionPoints /\ c.tries \in Nat /\ c.pending \in BOOLEAN
        /\ c.existed \in BOOLEAN /\ c.owned \in BOOLEAN /\ c.then \in Followups
        /\ c.result \in Failures /\ c.cur \in RunOrNone /\ c.todo \in SUBSET Runs
    BY <1>2 DEF Sections, SectionPoints, Followups, Failures, RunOrNone
  <2>2. c \in Sections
    BY <1>2, <2>1 DEF Sections
  <2>3. /\ c.at # "free" /\ c.holder = cs.holder /\ c.run = cs.run
        /\ cs.holder = "task" => c.at \in PrunePoints
        /\ c.at \in PruningOne => c.cur \in Runs /\ c.cur \notin c.todo /\ submission[c.cur] = "accepted"
    BY <1>1, <1>2, <1>6 DEF TypeInv, Held, Sections, PrunePoints, PruningOne
  <2> HIDE DEF c
  <2> QED
    BY <1>1, <1>6, <2>2, <2>3, StaysType DEF c
<1> QED
  BY PruneLogReadCases, <1>3, <1>4, <1>5, <1>6

LEMMA PruneRecordReadCases ==
  ASSUME TypeInv, NEW readable \in BOOLEAN, PruneRecordRead(readable)
  PROVE  /\ cs.at = "prune_record_read" /\ cs.run \in Runs /\ cs.pending \in BOOLEAN /\ faults' \in Nat /\ Looks
         /\ \/ Abort({cs.cur})
            \/ Absent(cs.cur) /\ Stays([cs EXCEPT !.at = "prune_verify", !.tries = 0])
            \/ ~Absent(cs.cur) /\ Stays([cs EXCEPT !.at = "prune_record", !.tries = @ + 1])
<1>1. cs.at = "prune_record_read" /\ cs.run \in Runs /\ cs.pending \in BOOLEAN /\ faults' \in Nat /\ Looks
  BY TypeParts, ChargeType, CalledType DEF PruneRecordRead, Looks, stores, TypeInv, Held, Sections
<1> QED
  BY <1>1, TypeParts DEF PruneRecordRead, Goto, Retry, LastTry, Stays, Ends, failStop, Absent,
     Queued, Own, Sections, Held, TypeInv

LEMMA PruneRecordReadType ==
  ASSUME TypeInv, NEW readable \in BOOLEAN, PruneRecordRead(readable) PROVE TypeInv'
<1>1. cs.at = "prune_record_read" /\ cs.run \in Runs /\ cs.pending \in BOOLEAN /\ faults' \in Nat /\ Looks
  BY PruneRecordReadCases
<1>2. cs \in Sections /\ (cs.at \in PruningOne => cs.cur \in Runs)
  BY TypeParts DEF TypeInv, Held
<1>3. CASE Abort({cs.cur})
  BY <1>1, <1>2, <1>3, AbortType DEF Looks, PruningOne, PrunePoints
<1>4. CASE Absent(cs.cur) /\ Stays([cs EXCEPT !.at = "prune_verify", !.tries = 0])
  <2> DEFINE c == [cs EXCEPT !.at = "prune_verify", !.tries = 0]
  <2>1. /\ c.at \in SectionPoints /\ c.tries \in Nat /\ c.pending \in BOOLEAN
        /\ c.existed \in BOOLEAN /\ c.owned \in BOOLEAN /\ c.then \in Followups
        /\ c.result \in Failures /\ c.cur \in RunOrNone /\ c.todo \in SUBSET Runs
    BY <1>2 DEF Sections, SectionPoints, Followups, Failures, RunOrNone
  <2>2. c \in Sections
    BY <1>2, <2>1 DEF Sections
  <2>3. /\ c.at # "free" /\ c.holder = cs.holder /\ c.run = cs.run
        /\ cs.holder = "task" => c.at \in PrunePoints
        /\ c.at \in PruningOne => c.cur \in Runs /\ c.cur \notin c.todo /\ submission[c.cur] = "accepted"
    BY <1>1, <1>2, <1>4 DEF TypeInv, Held, Sections, PrunePoints, PruningOne
  <2> HIDE DEF c
  <2> QED
    BY <1>1, <1>4, <2>2, <2>3, StaysType DEF c
<1>5. CASE ~Absent(cs.cur) /\ Stays([cs EXCEPT !.at = "prune_record", !.tries = @ + 1])
  <2> DEFINE c == [cs EXCEPT !.at = "prune_record", !.tries = @ + 1]
  <2>1. /\ c.at \in SectionPoints /\ c.tries \in Nat /\ c.pending \in BOOLEAN
        /\ c.existed \in BOOLEAN /\ c.owned \in BOOLEAN /\ c.then \in Followups
        /\ c.result \in Failures /\ c.cur \in RunOrNone /\ c.todo \in SUBSET Runs
    BY <1>2 DEF Sections, SectionPoints, Followups, Failures, RunOrNone
  <2>2. c \in Sections
    BY <1>2, <2>1 DEF Sections
  <2>3. /\ c.at # "free" /\ c.holder = cs.holder /\ c.run = cs.run
        /\ cs.holder = "task" => c.at \in PrunePoints
        /\ c.at \in PruningOne => c.cur \in Runs /\ c.cur \notin c.todo /\ submission[c.cur] = "accepted"
    BY <1>1, <1>2, <1>5 DEF TypeInv, Held, Sections, PrunePoints, PruningOne
  <2> HIDE DEF c
  <2> QED
    BY <1>1, <1>5, <2>2, <2>3, StaysType DEF c
<1> QED
  BY PruneRecordReadCases, <1>3, <1>4, <1>5

LEMMA PruneNextCases ==
  ASSUME TypeInv, NEW r \in Runs, PruneNext(r)
  PROVE  /\ cs.at = "next" /\ cs.run \in Runs /\ cs.pending \in BOOLEAN /\ faults' \in Nat /\ Looks
         /\ \/ Abort({r})
            \/ r \in cs.todo /\ token[r] /\ Stays([cs EXCEPT !.at = "prune_log", !.cur = r, !.todo = @ \ {r}, !.tries = 0])
<1>1. cs.at = "next" /\ cs.run \in Runs /\ cs.pending \in BOOLEAN /\ faults' \in Nat /\ Looks
  BY TypeParts, ChargeType, CalledType DEF PruneNext, Looks, stores, TypeInv, Held, Sections
<1> QED
  BY <1>1, TypeParts DEF PruneNext, Goto, Retry, LastTry, Stays, Ends, failStop, Absent,
     Queued, Own, Sections, Held, TypeInv

LEMMA PruneNextType == ASSUME TypeInv, NEW r \in Runs, PruneNext(r) PROVE TypeInv'
<1>1. cs.at = "next" /\ cs.run \in Runs /\ cs.pending \in BOOLEAN /\ faults' \in Nat /\ Looks
  BY PruneNextCases
<1>2. cs \in Sections /\ (cs.at \in PruningOne => cs.cur \in Runs)
  BY TypeParts DEF TypeInv, Held
<1>3. CASE Abort({r})
  BY <1>1, <1>2, <1>3, AbortType DEF Looks
<1>4. CASE r \in cs.todo /\ token[r] /\ Stays([cs EXCEPT !.at = "prune_log", !.cur = r, !.todo = @ \ {r}, !.tries = 0])
  <2> DEFINE c == [cs EXCEPT !.at = "prune_log", !.cur = r, !.todo = @ \ {r}, !.tries = 0]
  <2>1. /\ c.at \in SectionPoints /\ c.tries \in Nat /\ c.pending \in BOOLEAN
        /\ c.existed \in BOOLEAN /\ c.owned \in BOOLEAN /\ c.then \in Followups
        /\ c.result \in Failures /\ c.cur \in RunOrNone /\ c.todo \in SUBSET Runs
    BY <1>2 DEF Sections, SectionPoints, Followups, Failures, RunOrNone
  <2>2. c \in Sections
    BY <1>2, <2>1 DEF Sections
  <2>3. /\ c.at # "free" /\ c.holder = cs.holder /\ c.run = cs.run
        /\ cs.holder = "task" => c.at \in PrunePoints
        /\ c.at \in PruningOne => c.cur \in Runs /\ c.cur \notin c.todo /\ submission[c.cur] = "accepted"
    BY <1>1, <1>2, <1>4 DEF TypeInv, Held, Sections, PrunePoints, PruningOne
  <2> HIDE DEF c
  <2> QED
    BY <1>1, <1>4, <2>2, <2>3, StaysType DEF c
<1> QED
  BY PruneNextCases, <1>3, <1>4

LEMMA PruneDoneCases ==
  ASSUME TypeInv, PruneDone
  PROVE  /\ cs.at = "next" /\ cs.run \in Runs /\ cs.pending \in BOOLEAN /\ faults' \in Nat /\ Looks
         /\ \/ Leave("cancelled", cs.pending) /\ Ends
            \/ cs.holder = "submit" /\ cs.todo = {} /\ Stays([cs EXCEPT !.at = "create", !.tries = 0, !.cur = NoRun])
<1>1. cs.at = "next" /\ cs.run \in Runs /\ cs.pending \in BOOLEAN /\ faults' \in Nat /\ Looks
  BY TypeParts, ChargeType, CalledType DEF PruneDone, Looks, stores, TypeInv, Held, Sections
<1> QED
  BY <1>1, TypeParts DEF PruneDone, Goto, Retry, LastTry, Stays, Ends, failStop, Absent,
     Queued, Own, Sections, Held, TypeInv

LEMMA PruneDoneType == ASSUME TypeInv, PruneDone PROVE TypeInv'
<1>1. cs.at = "next" /\ cs.run \in Runs /\ cs.pending \in BOOLEAN /\ faults' \in Nat /\ Looks
  BY PruneDoneCases
<1>2. cs \in Sections /\ (cs.at \in PruningOne => cs.cur \in Runs)
  BY TypeParts DEF TypeInv, Held
<1>3. CASE Leave("cancelled", cs.pending) /\ Ends
  <2>1. "cancelled" \in Refused
    BY <1>2 DEF Refused, Sections, Failures
  <2> QED
    BY <1>1, <1>3, <2>1, LeaveType, TypeParts DEF Looks, Ends, RunRecords
<1>4. CASE cs.holder = "submit" /\ cs.todo = {} /\ Stays([cs EXCEPT !.at = "create", !.tries = 0, !.cur = NoRun])
  <2> DEFINE c == [cs EXCEPT !.at = "create", !.tries = 0, !.cur = NoRun]
  <2>1. /\ c.at \in SectionPoints /\ c.tries \in Nat /\ c.pending \in BOOLEAN
        /\ c.existed \in BOOLEAN /\ c.owned \in BOOLEAN /\ c.then \in Followups
        /\ c.result \in Failures /\ c.cur \in RunOrNone /\ c.todo \in SUBSET Runs
    BY <1>2 DEF Sections, SectionPoints, Followups, Failures, RunOrNone
  <2>2. c \in Sections
    BY <1>2, <2>1 DEF Sections
  <2>3. /\ c.at # "free" /\ c.holder = cs.holder /\ c.run = cs.run
        /\ cs.holder = "task" => c.at \in PrunePoints
        /\ c.at \in PruningOne => c.cur \in Runs /\ c.cur \notin c.todo /\ submission[c.cur] = "accepted"
    BY <1>1, <1>2, <1>4 DEF TypeInv, Held, Sections, PrunePoints, PruningOne
  <2> HIDE DEF c
  <2> QED
    BY <1>1, <1>4, <2>2, <2>3, StaysType DEF c
<1> QED
  BY PruneDoneCases, <1>3, <1>4

LEMMA PruneListCases ==
  ASSUME TypeInv, NEW x \in Reply, PruneList(x)
  PROVE  /\ cs.at = "list" /\ cs.run \in Runs /\ cs.pending \in BOOLEAN /\ faults' \in Nat /\ Looks
         /\ \/ Abort({})
            \/ cs.holder = "submit" /\ Leave("cancelled", TRUE) /\ Ends
            \/ Stays([cs EXCEPT !.at = "next", !.todo = {r \in Runs : record[r].expired}])
<1>1. cs.at = "list" /\ cs.run \in Runs /\ cs.pending \in BOOLEAN /\ faults' \in Nat /\ Looks
  BY TypeParts, ChargeType, CalledType DEF PruneList, Looks, stores, TypeInv, Held, Sections
<1> QED
  BY <1>1, TypeParts, CalledType DEF PruneList, Goto, Retry, LastTry, Stays, Ends, failStop,
     Absent, Queued, Own, Sections, Held, TypeInv

LEMMA PruneListType == ASSUME TypeInv, NEW x \in Reply, PruneList(x) PROVE TypeInv'
<1>1. cs.at = "list" /\ cs.run \in Runs /\ cs.pending \in BOOLEAN /\ faults' \in Nat /\ Looks
  BY PruneListCases
<1>2. cs \in Sections /\ (cs.at \in PruningOne => cs.cur \in Runs)
  BY TypeParts DEF TypeInv, Held
<1>3. CASE Abort({})
  BY <1>1, <1>2, <1>3, AbortType DEF Looks
<1>4. CASE cs.holder = "submit" /\ Leave("cancelled", TRUE) /\ Ends
  <2>1. "cancelled" \in Refused
    BY <1>2 DEF Refused, Sections, Failures
  <2> QED
    BY <1>1, <1>4, <2>1, LeaveType, TypeParts DEF Looks, Ends, RunRecords
<1>5. CASE Stays([cs EXCEPT !.at = "next", !.todo = {r \in Runs : record[r].expired}])
  <2> DEFINE c == [cs EXCEPT !.at = "next", !.todo = {r \in Runs : record[r].expired}]
  <2>1. /\ c.at \in SectionPoints /\ c.tries \in Nat /\ c.pending \in BOOLEAN
        /\ c.existed \in BOOLEAN /\ c.owned \in BOOLEAN /\ c.then \in Followups
        /\ c.result \in Failures /\ c.cur \in RunOrNone /\ c.todo \in SUBSET Runs
    BY <1>2 DEF Sections, SectionPoints, Followups, Failures, RunOrNone
  <2>2. c \in Sections
    BY <1>2, <2>1 DEF Sections
  <2>3. /\ c.at # "free" /\ c.holder = cs.holder /\ c.run = cs.run
        /\ cs.holder = "task" => c.at \in PrunePoints
        /\ c.at \in PruningOne => c.cur \in Runs /\ c.cur \notin c.todo /\ submission[c.cur] = "accepted"
    BY <1>1, <1>2, <1>5 DEF TypeInv, Held, Sections, PrunePoints, PruningOne
  <2> HIDE DEF c
  <2> QED
    BY <1>1, <1>5, <2>2, <2>3, StaysType DEF c
<1> QED
  BY PruneListCases, <1>3, <1>4, <1>5

LEMMA PruneVerifyCases ==
  ASSUME TypeInv, NEW readable \in BOOLEAN, PruneVerify(readable)
  PROVE  /\ cs.at = "prune_verify" /\ cs.run \in Runs /\ cs.cur \in Runs /\ faults' \in Nat
         /\ UNCHANGED <<record, log, shutdown>>
         /\ \/ token' = token /\ Abort({cs.cur})
            \/ /\ token' = [token EXCEPT ![cs.cur] = FALSE] /\ ~Own(cs.cur)
               /\ Stays([cs EXCEPT !.at = "next", !.tries = 0])
BY ChargeType DEF PruneVerify, Goto, Stays, Own, stores, failStop, TypeInv, Held, PruningOne,
   PrunePoints

LEMMA PruneVerifyType ==
  ASSUME TypeInv, NEW readable \in BOOLEAN, PruneVerify(readable) PROVE TypeInv'
<1>1. /\ cs.at = "prune_verify" /\ cs.run \in Runs /\ cs.cur \in Runs /\ faults' \in Nat
      /\ UNCHANGED <<record, log, shutdown>> /\ cs \in Sections
  BY PruneVerifyCases, TypeParts
<1>2. CASE token' = token /\ Abort({cs.cur})
  BY <1>1, <1>2, AbortType
<1>3. CASE /\ token' = [token EXCEPT ![cs.cur] = FALSE]
           /\ Stays([cs EXCEPT !.at = "next", !.tries = 0])
  <2>1. "next" \in SectionPoints /\ "next" \in PrunePoints /\ "next" \notin PruningOne
    BY DEF SectionPoints, PrunePoints, PruningOne
  <2>2. /\ cs' \in Sections /\ cs'.at = "next" /\ cs'.holder = cs.holder /\ cs'.run = cs.run
    BY <1>1, <1>3, <2>1 DEF Stays, Sections
  <2>3. /\ token' \in [Runs -> BOOLEAN] /\ (\A r \in Runs : token'[r] => token[r])
        /\ task' = task /\ submission' = submission /\ accepting' = accepting
        /\ failed' = failed /\ runFailures' = runFailures
    BY <1>1, <1>3, TypeParts DEF Stays
  <2> QED
    BY <1>1, <2>1, <2>2, <2>3, SectionType, TypeParts
<1> QED
  BY PruneVerifyCases, <1>2, <1>3

LEMMA CreateCases ==
  ASSUME TypeInv, NEW x \in Reply, Create(x)
  PROVE  /\ cs.at = "create" /\ cs.run \in Runs /\ cs.pending \in BOOLEAN /\ faults' \in Nat
         /\ UNCHANGED <<log, token, accepting, failed, runFailures, shutdown>>
         /\ \/ record' = record /\ Leave("capacity", cs.pending)
            \/ /\ record' = Created(cs.run)
               /\ Stays([cs EXCEPT !.at = "probe", !.pending = cs.pending \/ x.cancelled])
            \/ /\ record' = record \/ record' = Created(cs.run)
               /\ Stays([cs EXCEPT !.at = "create_read", !.pending = cs.pending \/ x.cancelled])
<1>1. /\ cs.at = "create" /\ cs.run \in Runs /\ cs.pending \in BOOLEAN /\ faults' \in Nat
      /\ UNCHANGED <<log, token, accepting, failed, runFailures, shutdown>>
  BY CalledType, TypeParts DEF Create, TypeInv, Held, Sections, failStop
<1> QED
  BY <1>1, CalledType DEF Create, Stays, failStop

LEMMA CreateType == ASSUME TypeInv, NEW x \in Reply, Create(x) PROVE TypeInv'
<1>1. /\ cs.at = "create" /\ cs.run \in Runs /\ cs.pending \in BOOLEAN /\ faults' \in Nat
      /\ UNCHANGED <<log, token, accepting, failed, runFailures, shutdown>> /\ cs \in Sections
      /\ (cs.pending \/ x.cancelled) \in BOOLEAN
  BY CreateCases, TypeParts
<1>2. CASE record' = record /\ Leave("capacity", cs.pending)
  BY <1>1, <1>2, LeaveType, TypeParts DEF Refused, RunRecords
<1>3. ASSUME record' = record \/ record' = Created(cs.run), NEW a \in {"probe", "create_read"},
             Stays([cs EXCEPT !.at = a, !.pending = cs.pending \/ x.cancelled])
      PROVE  TypeInv'
  <2>1. a \in SectionPoints /\ a \notin PruningOne /\ cs.holder # "task" /\ a # "free"
    BY <1>1 DEF SectionPoints, PrunePoints, PruningOne, TypeInv, Held
  <2>2. /\ cs' \in Sections /\ cs'.at = a /\ cs'.holder = cs.holder /\ cs'.run = cs.run
    BY <1>1, <1>3, <2>1 DEF Stays, Sections
  <2> QED
    BY <1>1, <1>3, <2>1, <2>2, SectionType, TypeParts, StoreTypes DEF Stays
<1> QED
  BY CreateCases, <1>2, <1>3

LEMMA CommitCases ==
  ASSUME TypeInv, NEW spawned \in BOOLEAN, Commit(spawned)
  PROVE  /\ cs.at = "commit" /\ cs.run \in Runs /\ faults' \in Nat
         /\ UNCHANGED <<record, log, shutdown, accepting, failed, runFailures>>
         /\ \/ token' = token /\ \E w \in Failures : Stays([cs EXCEPT !.at = "del_log", !.result = w])
            \/ /\ ~failed /\ cs' = Free
               /\ token' = [token EXCEPT ![cs.run] = TRUE]
               /\ task' = [task EXCEPT ![cs.run].at = "queued"]
               /\ submission' = [submission EXCEPT ![cs.run] = "accepted"]
<1>1. /\ cs.at = "commit" /\ cs.run \in Runs /\ faults' \in Nat /\ failed \in BOOLEAN
      /\ UNCHANGED <<record, log, shutdown, accepting, failed, runFailures>>
  BY ChargeType, TypeParts DEF Commit, TypeInv, Held, failStop, stores
<1>2. ASSUME failed \/ ~spawned
      PROVE  token' = token /\ \E w \in Failures : Stays([cs EXCEPT !.at = "del_log", !.result = w])
  <2>1. PICK w \in Failures : w = IF failed THEN "inconsistent" ELSE "failed"
    BY DEF Failures
  <2>2. token' = token /\ Stays([cs EXCEPT !.at = "del_log", !.result = w])
    BY <1>1, <1>2, <2>1 DEF Commit, Stays
  <2> QED
    BY <2>2
<1> QED
  BY <1>1, <1>2 DEF Commit

LEMMA CommitType == ASSUME TypeInv, NEW spawned \in BOOLEAN, Commit(spawned) PROVE TypeInv'
<1>1. /\ cs.at = "commit" /\ cs.run \in Runs /\ faults' \in Nat /\ cs \in Sections
      /\ UNCHANGED <<record, log, shutdown, accepting, failed, runFailures>> /\ cs.holder # "task"
  BY CommitCases, TypeParts DEF TypeInv, Held, PrunePoints
<1>2. ASSUME token' = token, NEW w \in Failures, Stays([cs EXCEPT !.at = "del_log", !.result = w])
      PROVE  TypeInv'
  <2>1. "del_log" \in SectionPoints /\ "del_log" \notin PruningOne
    BY DEF SectionPoints, PrunePoints, PruningOne
  <2>2. /\ cs' \in Sections /\ cs'.at = "del_log" /\ cs'.holder = cs.holder /\ cs'.run = cs.run
    BY <1>1, <1>2, <2>1 DEF Stays, Sections
  <2> QED
    BY <1>1, <1>2, <2>1, <2>2, SectionType, TypeParts DEF Stays
<1>3. ASSUME cs' = Free, token' = [token EXCEPT ![cs.run] = TRUE],
             task' = [task EXCEPT ![cs.run].at = "queued"],
             submission' = [submission EXCEPT ![cs.run] = "accepted"]
      PROVE  TypeInv'
  <2>1. task' \in [Runs -> TaskRecords]
    BY <1>1, <1>3, TaskMoves, 0 \in Nat, NoOutcome \in Outcomes \cup {NoOutcome}
  <2>2. TypeOK'
    BY <1>1, <1>3, <2>1 DEF TypeInv, TypeOK, Free, SectionPoints, TaskRecords
  <2>3. \A r \in Runs : token'[r] => submission'[r] = "accepted"
    BY <1>3, TypeParts DEF TypeInv, Held
  <2>4. Held'
    BY <1>3, <2>3 DEF Held, Free, PruningOne, PrunePoints
  <2> QED
    BY <2>2, <2>4 DEF TypeInv
<1> QED
  BY CommitCases, <1>2, <1>3

LEMMA CancelSubmitType == ASSUME TypeInv, CancelSubmit PROVE TypeInv'
<1>1. cs.at # "free" /\ cs \in Sections
  BY TypeParts DEF CancelSubmit, TypeInv, Held
<1>2. cs' \in Sections /\ cs'.at = cs.at /\ cs'.holder = cs.holder /\ cs'.run = cs.run
      /\ cs'.cur = cs.cur /\ cs'.todo = cs.todo
  BY <1>1 DEF CancelSubmit, Sections
<1> QED
  BY <1>1, <1>2, SectionType, TypeParts DEF CancelSubmit, stores, failStop, TypeInv, Held

(***************************************************************************)
(* Types: the tasks, shutdown and the environment                          *)
(***************************************************************************)
\* Whatever is not done by the holder of the lock leaves the section alone.
LEMMA OutsideType ==
  ASSUME TypeInv, cs' = cs, submission' = submission, token' = token,
         record' \in [Runs -> RunRecords], log' \in [Runs -> Logs], task' \in [Runs -> TaskRecords],
         \A r \in Runs : task[r].at = "pruning" => task'[r].at = "pruning",
         accepting' \in BOOLEAN, failed' \in BOOLEAN, runFailures' \in SUBSET Runs,
         shutdown' \in {"no", "gather", "done"}, faults' \in Nat
  PROVE  TypeInv'
<1>1. TypeOK'
  BY DEF TypeInv, TypeOK, RunRecords, Logs, TaskRecords
<1>2. Held'
  BY DEF TypeInv, Held
<1> QED
  BY <1>1, <1>2 DEF TypeInv

TaskPoints == {"none", "queued", "prune", "pruning"} \cup Holding \cup Ended

LEMMA TaskTypes ==
  ASSUME TypeInv, NEW r \in Runs, NEW a \in TaskPoints, task[r].at # "pruning",
         \/ TaskTo(r, a) \/ TaskRetry(r, a) \/ task' = [task EXCEPT ![r].at = a]
  PROVE  /\ task' \in [Runs -> TaskRecords]
         /\ \A q \in Runs : task[q].at = "pruning" => task'[q].at = "pruning"
<1>1. task \in [Runs -> TaskRecords] /\ task[r].tries \in Nat /\ task[r].tries + 1 \in Nat /\ 0 \in Nat
  BY TypeParts DEF TaskRecords
<1>2. NoOutcome \in Outcomes \cup {NoOutcome}
  OBVIOUS
<1>3. CASE TaskTo(r, a)
  BY <1>1, <1>2, <1>3, TaskMoves DEF TaskTo, TaskPoints
<1>4. CASE TaskRetry(r, a)
  <2>1. task' = [task EXCEPT ![r].at = a, ![r].tries = task[r].tries + 1]
    BY <1>1, <1>4 DEF TaskRetry
  <2> QED
    BY <1>1, <1>2, <2>1, TaskMoves DEF TaskPoints
<1>5. CASE task' = [task EXCEPT ![r].at = a]
  BY <1>1, <1>2, <1>5, TaskMoves DEF TaskPoints
<1> QED
  BY <1>3, <1>4, <1>5

LEMMA DecideTypes ==
  ASSUME TypeInv, NEW r \in Runs, NEW o \in Outcomes, Decide(r, o), task[r].at # "pruning"
  PROVE  /\ task' \in [Runs -> TaskRecords]
         /\ \A q \in Runs : task[q].at = "pruning" => task'[q].at = "pruning"
<1>1. task \in [Runs -> TaskRecords] /\ "complete" \in Holding
  BY TypeParts DEF Holding
<1> QED
  BY <1>1, TaskMoves, 0 \in Nat DEF Decide

LEMMA PointFacts ==
  /\ Holding \cup Ended \subseteq TaskPoints
  /\ {"mark", "mark_read", "start", "agent", "complete", "complete_read",
      "publish", "publish_emit", "publish_last", "failed", "done", "cancelled", "prune"} \subseteq TaskPoints
  /\ "pruning" \in TaskPoints /\ "queued" \in TaskPoints
BY DEF TaskPoints, Holding, Ended

\* Single fields of a record or a log.
LEMMA FieldTypes ==
  ASSUME TypeInv, NEW r \in Runs, NEW o \in Outcomes \cup {NoOutcome}
  PROVE  /\ [record EXCEPT ![r].status = "terminal", ![r].outcome = o] \in [Runs -> RunRecords]
         /\ [record EXCEPT ![r].expired = TRUE] \in [Runs -> RunRecords]
         /\ [log EXCEPT ![r].started = TRUE] \in [Runs -> Logs]
         /\ [log EXCEPT ![r].outcome = o] \in [Runs -> Logs]
         /\ [log EXCEPT ![r].owner = "foreign"] \in [Runs -> Logs]
         /\ [log EXCEPT ![r].streams = @ + 1] \in [Runs -> Logs]
         /\ [log EXCEPT ![r].streams = @ - 1] \in [Runs -> Logs]
         /\ task[r].outcome \in Outcomes \cup {NoOutcome}
<1> DEFINE Os == Outcomes \cup {NoOutcome}
           Owners == {"none", "own", "foreign"}
<1>1. /\ RunRecords = [status : Statuses, outcome : Os, expired : BOOLEAN]
      /\ Logs = [owner : Owners, created : BOOLEAN, started : BOOLEAN, outcome : Os, streams : Int]
      /\ "terminal" \in Statuses /\ "foreign" \in Owners /\ o \in Os
  BY DEF RunRecords, Logs, Statuses
<1>2. log[r].streams \in Int /\ task[r].outcome \in Os
  BY TypeParts DEF Logs, TaskRecords
<1> HIDE DEF Os, Owners
<1>3. /\ [record EXCEPT ![r].status = "terminal", ![r].outcome = o] \in [Runs -> RunRecords]
      /\ [record EXCEPT ![r].expired = TRUE] \in [Runs -> RunRecords]
  BY <1>1, TypeParts
<1>4. /\ [log EXCEPT ![r].started = TRUE] \in [Runs -> Logs]
      /\ [log EXCEPT ![r].outcome = o] \in [Runs -> Logs]
      /\ [log EXCEPT ![r].owner = "foreign"] \in [Runs -> Logs]
  BY <1>1, TypeParts
<1>5. ASSUME NEW n \in Int PROVE [log EXCEPT ![r].streams = n] \in [Runs -> Logs]
  BY <1>1, TypeParts
<1>6. /\ [log EXCEPT ![r].streams = @ + 1] \in [Runs -> Logs]
      /\ [log EXCEPT ![r].streams = @ - 1] \in [Runs -> Logs]
  <2>1. /\ [log EXCEPT ![r].streams = log[r].streams + 1] \in [Runs -> Logs]
        /\ [log EXCEPT ![r].streams = log[r].streams - 1] \in [Runs -> Logs]
    BY <1>2, <1>5
  <2> QED
    BY <2>1, TypeParts
<1> QED
  BY <1>2, <1>3, <1>4, <1>6 DEF Os

LEMMA MarkRunningCases ==
  ASSUME TypeInv, NEW r \in Runs, NEW x \in TaskReply, MarkRunning(r, x)
  PROVE  /\ task[r].at = "mark" /\ faults' \in Nat
         /\ UNCHANGED <<token, submission, cs, shutdown, log, accepting, failed, runFailures>>
         /\ \/ task' = [task EXCEPT ![r].at = "mark_read"]
            \/ Queued(r) /\ ~x.raised /\ TaskTo(r, "start")
BY ChargeType DEF MarkRunning, stores, failStop, Ends, Queued, Own, Reply, TaskReply

LEMMA MarkRunningType ==
  ASSUME TypeInv, NEW r \in Runs, NEW x \in TaskReply, MarkRunning(r, x) PROVE TypeInv'
<1>1. task[r].at = "mark" /\ faults' \in Nat /\ task[r].at # "pruning"
      /\ UNCHANGED <<token, submission, cs, shutdown, log>>
  BY MarkRunningCases
<1>2. /\ task' \in [Runs -> TaskRecords]
      /\ \A q \in Runs : task[q].at = "pruning" => task'[q].at = "pruning"
  BY <1>1, MarkRunningCases, TaskTypes, PointFacts DEF TaskFails
<1>3. accepting' \in BOOLEAN /\ failed' \in BOOLEAN /\ runFailures' \in SUBSET Runs
  BY MarkRunningCases, TypeParts DEF TaskFails, EnterFailStop, Ends
<1>4. record' \in [Runs -> RunRecords]
  <2>1. record' = record \/ record' = [record EXCEPT ![r].status = "running"]
    BY DEF MarkRunning
  <2>2. record \in [Runs -> RunRecords]
    BY TypeParts
  <2> QED
    BY <2>1, <2>2 DEF RunRecords, Statuses
<1> QED
  BY <1>1, <1>2, <1>3, <1>4, OutsideType, TypeParts DEF TypeInv, TypeOK

LEMMA MarkReadCases ==
  ASSUME TypeInv, NEW r \in Runs, NEW b \in BOOLEAN, MarkRead(r, b)
  PROVE  /\ task[r].at = "mark_read" /\ faults' \in Nat
         /\ UNCHANGED <<token, submission, cs, shutdown, record, log>>
         /\ \/ record[r].status = "running" /\ TaskTo(r, "start") /\ Ends
            \/ TaskRetry(r, "mark") /\ Ends
            \/ TaskFails(r)
BY ChargeType DEF MarkRead, stores, failStop, Ends, Queued, Own, Reply, TaskReply

LEMMA MarkReadType ==
  ASSUME TypeInv, NEW r \in Runs, NEW b \in BOOLEAN, MarkRead(r, b) PROVE TypeInv'
<1>1. task[r].at = "mark_read" /\ faults' \in Nat /\ task[r].at # "pruning"
      /\ UNCHANGED <<token, submission, cs, shutdown, record, log>>
  BY MarkReadCases
<1>2. /\ task' \in [Runs -> TaskRecords]
      /\ \A q \in Runs : task[q].at = "pruning" => task'[q].at = "pruning"
  BY <1>1, MarkReadCases, TaskTypes, PointFacts DEF TaskFails
<1>3. accepting' \in BOOLEAN /\ failed' \in BOOLEAN /\ runFailures' \in SUBSET Runs
  BY MarkReadCases, TypeParts DEF TaskFails, EnterFailStop, Ends
<1> QED
  BY <1>1, <1>2, <1>3, OutsideType, TypeParts DEF TypeInv, TypeOK

LEMMA CompleteCases ==
  ASSUME TypeInv, NEW r \in Runs, NEW x \in TaskReply, Complete(r, x)
  PROVE  /\ task[r].at = "complete" /\ faults' \in Nat
         /\ UNCHANGED <<token, submission, cs, shutdown, log, accepting, failed, runFailures>>
         /\ \/ task' = [task EXCEPT ![r].at = "complete_read"]
            \/ TaskTo(r, "publish") /\ ((record[r].status = "running" /\ ~x.raised) \/ (record[r].status = "terminal" /\ record[r].outcome = task[r].outcome))
<1>1. /\ task[r].at = "complete" /\ faults' \in Nat
      /\ UNCHANGED <<token, submission, cs, shutdown, log, accepting, failed, runFailures>>
  BY ChargeType DEF Complete, failStop, Reply, TaskReply
<1>2. CASE x.raised \/ (record[r].status # "running"
                        /\ ~(record[r].status = "terminal" /\ record[r].outcome = task[r].outcome))
  BY <1>1, <1>2 DEF Complete
<1>3. CASE ~(x.raised \/ (record[r].status # "running"
                        /\ ~(record[r].status = "terminal" /\ record[r].outcome = task[r].outcome)))
  <2>1. TaskTo(r, "publish")
    BY <1>3 DEF Complete
  <2>2. \/ record[r].status = "running" /\ ~x.raised
        \/ record[r].status = "terminal" /\ record[r].outcome = task[r].outcome
    BY <1>3
  <2> QED
    BY <1>1, <2>1, <2>2
<1> QED
  BY <1>2, <1>3

LEMMA CompleteType ==
  ASSUME TypeInv, NEW r \in Runs, NEW x \in TaskReply, Complete(r, x) PROVE TypeInv'
<1>1. task[r].at = "complete" /\ faults' \in Nat /\ task[r].at # "pruning"
      /\ UNCHANGED <<token, submission, cs, shutdown, log>>
  BY CompleteCases
<1>2. /\ task' \in [Runs -> TaskRecords]
      /\ \A q \in Runs : task[q].at = "pruning" => task'[q].at = "pruning"
  BY <1>1, CompleteCases, TaskTypes, PointFacts DEF TaskFails
<1>3. accepting' \in BOOLEAN /\ failed' \in BOOLEAN /\ runFailures' \in SUBSET Runs
  BY CompleteCases, TypeParts DEF TaskFails, EnterFailStop, Ends
<1>4. record' \in [Runs -> RunRecords]
  BY TypeParts, FieldTypes DEF Complete
<1> QED
  BY <1>1, <1>2, <1>3, <1>4, OutsideType, TypeParts DEF TypeInv, TypeOK

LEMMA CompleteReadCases ==
  ASSUME TypeInv, NEW r \in Runs, NEW b \in BOOLEAN, CompleteRead(r, b)
  PROVE  /\ task[r].at = "complete_read" /\ faults' \in Nat
         /\ UNCHANGED <<token, submission, cs, shutdown, record, log>>
         /\ \/ record[r].status = "terminal" /\ record[r].outcome = task[r].outcome /\ TaskTo(r, "publish") /\ Ends
            \/ TaskRetry(r, "complete") /\ Ends
            \/ TaskFails(r)
BY ChargeType DEF CompleteRead, stores, failStop, Ends, Queued, Own, Reply, TaskReply

LEMMA CompleteReadType ==
  ASSUME TypeInv, NEW r \in Runs, NEW b \in BOOLEAN, CompleteRead(r, b) PROVE TypeInv'
<1>1. task[r].at = "complete_read" /\ faults' \in Nat /\ task[r].at # "pruning"
      /\ UNCHANGED <<token, submission, cs, shutdown, record, log>>
  BY CompleteReadCases
<1>2. /\ task' \in [Runs -> TaskRecords]
      /\ \A q \in Runs : task[q].at = "pruning" => task'[q].at = "pruning"
  BY <1>1, CompleteReadCases, TaskTypes, PointFacts DEF TaskFails
<1>3. accepting' \in BOOLEAN /\ failed' \in BOOLEAN /\ runFailures' \in SUBSET Runs
  BY CompleteReadCases, TypeParts DEF TaskFails, EnterFailStop, Ends
<1> QED
  BY <1>1, <1>2, <1>3, OutsideType, TypeParts DEF TypeInv, TypeOK

LEMMA PublishReadCases ==
  ASSUME TypeInv, NEW r \in Runs, NEW b \in BOOLEAN, PublishRead(r, b)
  PROVE  /\ task[r].at = "publish" /\ faults' \in Nat
         /\ UNCHANGED <<token, submission, cs, shutdown, record, log, accepting, failed, runFailures>>
         /\ \/ AnnouncedOurs(r) /\ TaskTo(r, "prune")
            \/ TaskRetry(r, "publish")
            \/ TaskTo(r, "publish_last")
            \/ task' = [task EXCEPT ![r].at = "publish_emit"]
BY ChargeType DEF PublishRead, stores, failStop, Ends, Queued, Own, Reply, TaskReply,
   AnnouncedOurs, Announced

LEMMA PublishReadType ==
  ASSUME TypeInv, NEW r \in Runs, NEW b \in BOOLEAN, PublishRead(r, b) PROVE TypeInv'
<1>1. task[r].at = "publish" /\ faults' \in Nat /\ task[r].at # "pruning"
      /\ UNCHANGED <<token, submission, cs, shutdown, record, log>>
  BY PublishReadCases
<1>2. /\ task' \in [Runs -> TaskRecords]
      /\ \A q \in Runs : task[q].at = "pruning" => task'[q].at = "pruning"
  BY <1>1, PublishReadCases, TaskTypes, PointFacts DEF TaskFails
<1>3. accepting' \in BOOLEAN /\ failed' \in BOOLEAN /\ runFailures' \in SUBSET Runs
  BY PublishReadCases, TypeParts DEF TaskFails, EnterFailStop, Ends
<1> QED
  BY <1>1, <1>2, <1>3, OutsideType, TypeParts DEF TypeInv, TypeOK

LEMMA PublishEmitCases ==
  ASSUME TypeInv, NEW r \in Runs, NEW x \in TaskReply, PublishEmit(r, x)
  PROVE  /\ task[r].at = "publish_emit" /\ faults' \in Nat
         /\ UNCHANGED <<token, submission, cs, shutdown, record, accepting, failed, runFailures>>
         /\ \/ Own(r) /\ log[r].outcome = NoOutcome /\ ~x.raised /\ TaskTo(r, "prune")
            \/ TaskRetry(r, "publish")
            \/ TaskTo(r, "publish_last")
BY ChargeType DEF PublishEmit, stores, failStop, Ends, Queued, Own, Reply, TaskReply

LEMMA PublishEmitType ==
  ASSUME TypeInv, NEW r \in Runs, NEW x \in TaskReply, PublishEmit(r, x) PROVE TypeInv'
<1>1. task[r].at = "publish_emit" /\ faults' \in Nat /\ task[r].at # "pruning"
      /\ UNCHANGED <<token, submission, cs, shutdown, record>>
  BY PublishEmitCases
<1>2. /\ task' \in [Runs -> TaskRecords]
      /\ \A q \in Runs : task[q].at = "pruning" => task'[q].at = "pruning"
  BY <1>1, PublishEmitCases, TaskTypes, PointFacts DEF TaskFails
<1>3. accepting' \in BOOLEAN /\ failed' \in BOOLEAN /\ runFailures' \in SUBSET Runs
  BY PublishEmitCases, TypeParts DEF TaskFails, EnterFailStop, Ends
<1>4. log' \in [Runs -> Logs]
  BY TypeParts, FieldTypes DEF PublishEmit
<1> QED
  BY <1>1, <1>2, <1>3, <1>4, OutsideType, TypeParts DEF TypeInv, TypeOK

LEMMA PublishLastCases ==
  ASSUME TypeInv, NEW r \in Runs, NEW b \in BOOLEAN, PublishLast(r, b)
  PROVE  /\ task[r].at = "publish_last" /\ faults' \in Nat
         /\ UNCHANGED <<token, submission, cs, shutdown, record, log>>
         /\ \/ AnnouncedOurs(r) /\ TaskTo(r, "prune") /\ Ends
            \/ TaskFails(r)
BY ChargeType DEF PublishLast, stores, failStop, Ends, Queued, Own, Reply, TaskReply

LEMMA PublishLastType ==
  ASSUME TypeInv, NEW r \in Runs, NEW b \in BOOLEAN, PublishLast(r, b) PROVE TypeInv'
<1>1. task[r].at = "publish_last" /\ faults' \in Nat /\ task[r].at # "pruning"
      /\ UNCHANGED <<token, submission, cs, shutdown, record, log>>
  BY PublishLastCases
<1>2. /\ task' \in [Runs -> TaskRecords]
      /\ \A q \in Runs : task[q].at = "pruning" => task'[q].at = "pruning"
  BY <1>1, PublishLastCases, TaskTypes, PointFacts DEF TaskFails
<1>3. accepting' \in BOOLEAN /\ failed' \in BOOLEAN /\ runFailures' \in SUBSET Runs
  BY PublishLastCases, TypeParts DEF TaskFails, EnterFailStop, Ends
<1> QED
  BY <1>1, <1>2, <1>3, OutsideType, TypeParts DEF TypeInv, TypeOK

LEMMA StartRunCases ==
  ASSUME TypeInv, NEW r \in Runs, NEW x \in TaskReply,
         NEW o \in {NoOutcome, "internal_error", "task_timeout"}, StartRun(r, x, o)
  PROVE  /\ task[r].at = "start" /\ faults' \in Nat
         /\ UNCHANGED <<record, token, submission, cs, shutdown, accepting, failed, runFailures>>
         /\ log' = log \/ (Own(r) /\ log' = [log EXCEPT ![r].started = TRUE])
         /\ TaskTo(r, "agent") \/ \E p \in Outcomes : Decide(r, p)
BY ChargeType DEF StartRun, failStop, Own, TaskReply, Reply, Outcomes

LEMMA StartRunType ==
  ASSUME TypeInv, NEW r \in Runs, NEW x \in TaskReply,
         NEW o \in {NoOutcome, "internal_error", "task_timeout"}, StartRun(r, x, o)
  PROVE  TypeInv'
<1>1. /\ task' \in [Runs -> TaskRecords]
      /\ \A q \in Runs : task[q].at = "pruning" => task'[q].at = "pruning"
  BY StartRunCases, TaskTypes, DecideTypes, PointFacts
<1>2. log' \in [Runs -> Logs]
  <2>1. [log EXCEPT ![r].started = TRUE] \in [Runs -> Logs]
    BY FieldTypes, NoOutcome \in Outcomes \cup {NoOutcome}
  <2>2. log' = log \/ (Own(r) /\ log' = [log EXCEPT ![r].started = TRUE])
    BY StartRunCases
  <2> QED
    BY <2>1, <2>2, TypeParts
<1> QED
  BY <1>1, <1>2, StartRunCases, OutsideType, TypeParts DEF TypeInv, TypeOK

\* The agent answers or is given up.
LEMMA AgentCases ==
  ASSUME TypeInv, NEW r \in Runs,
         TimeoutExpires(r) \/ \E o \in Results \cup {"internal_error"} : AgentReturns(r, o)
  PROVE  /\ task[r].at = "agent"
         /\ UNCHANGED <<record, log, token, submission, cs, shutdown, accepting, failed, runFailures, faults>>
         /\ \E p \in Outcomes : Decide(r, p)
BY DEF TimeoutExpires, AgentReturns, failStop, stores, Outcomes

LEMMA AgentType ==
  ASSUME TypeInv, NEW r \in Runs,
         TimeoutExpires(r) \/ \E o \in Results \cup {"internal_error"} : AgentReturns(r, o)
  PROVE  TypeInv'
BY AgentCases, DecideTypes, OutsideType, TypeParts DEF TypeInv, TypeOK

LEMMA AcquireType == ASSUME TypeInv, NEW r \in Runs, Acquire(r) PROVE TypeInv'
<1>1. task[r].at # "pruning" /\ TaskTo(r, "mark")
      /\ UNCHANGED <<record, log, token, submission, cs, shutdown, accepting, failed, runFailures, faults>>
  BY DEF Acquire, stores, failStop
<1> QED
  BY <1>1, TaskTypes, PointFacts, OutsideType, TypeParts DEF TypeInv, TypeOK

LEMMA ShutdownType == ASSUME TypeInv, Shutdown \/ ShutdownReturns PROVE TypeInv'
<1>1. CASE Shutdown
  <2>1. \A r \in Runs : task[r].at = "pruning" => cs.at # "free" \/ task'[r].at = "cancelled" \/ task'[r] = task[r]
    BY <1>1 DEF Shutdown
  <2>2. task' \in [Runs -> TaskRecords]
    <3>1. ASSUME NEW r \in Runs PROVE [task[r] EXCEPT !.at = "cancelled"] \in TaskRecords
      <4>1. task[r] \in TaskRecords /\ "cancelled" \in Ended
        BY TypeParts DEF Ended
      <4> QED
        BY <4>1 DEF TaskRecords
    <3> QED
      BY <1>1, <3>1, TypeParts DEF Shutdown
  <2>3. TypeOK'
    BY <1>1, <2>2 DEF Shutdown, TypeInv, TypeOK, TaskRecords, stores
  <2>4. Held'
    BY <1>1 DEF Shutdown, TypeInv, Held, PruningOne, PrunePoints, stores
  <2> QED
    BY <2>3, <2>4 DEF TypeInv
<1>2. CASE ShutdownReturns
  BY <1>2, OutsideType, TypeParts DEF ShutdownReturns, stores, failStop
<1> QED
  BY <1>1, <1>2

LEMMA SubmitType == ASSUME TypeInv, NEW r \in Runs, Submit(r) PROVE TypeInv'
<1>1. /\ cs.at = "free" /\ submission[r] = "none" /\ cs \in Sections
      /\ UNCHANGED <<record, log, token, task, shutdown, accepting, failed, runFailures, faults>>
  BY TypeParts DEF Submit, stores, failStop
<1>2. \A q \in Runs : token'[q] => submission'[q] = "accepted"
  BY <1>1, TypeParts DEF Submit, TypeInv, Held
<1>3. CASE failed \/ ~accepting
  <2>1. cs' = cs /\ submission' \in [Runs -> {"none", "pending", "accepted", "failed", "cancelled",
                              "capacity", "inconsistent", "shutdown"}]
    BY <1>3 DEF Submit, TypeInv, TypeOK
  <2>2. TypeOK'
    BY <1>1, <2>1 DEF TypeInv, TypeOK
  <2> QED
    BY <1>1, <1>2, <2>1, <2>2 DEF TypeInv, Held, PruningOne, PrunePoints
<1>4. CASE ~(failed \/ ~accepting)
  <2>1. /\ submission' = [submission EXCEPT ![r] = "pending"]
        /\ cs' = [Free EXCEPT !.at = "list", !.holder = "submit", !.run = r]
    BY <1>4 DEF Submit
  <2>2. TypeOK'
    BY <1>1, <2>1 DEF TypeInv, TypeOK, Free, SectionPoints
  <2>3. cs'.at = "list" /\ cs'.holder = "submit" /\ cs'.run = r /\ submission'[r] = "pending"
    BY <2>1, TypeParts DEF Free
  <2>4. Held'
    BY <1>2, <2>3 DEF Held, PruningOne, PrunePoints
  <2> QED
    BY <2>2, <2>4 DEF TypeInv
<1> QED
  BY <1>3, <1>4

LEMMA TaskPruneType == ASSUME TypeInv, NEW r \in Runs, TaskPrune(r) PROVE TypeInv'
<1>1. /\ task[r].at = "prune" /\ cs.at = "free" /\ TaskTo(r, "pruning")
      /\ cs' = [Free EXCEPT !.at = "list", !.holder = "task", !.run = r]
      /\ UNCHANGED <<record, log, token, submission, shutdown, accepting, failed, runFailures, faults>>
  BY DEF TaskPrune, stores, failStop
<1>2. task' \in [Runs -> TaskRecords] /\ task'[r].at = "pruning"
  <2>1. task' \in [Runs -> TaskRecords]
    BY <1>1, TaskTypes, PointFacts
  <2>2. task \in [Runs -> TaskRecords] /\ task' = [task EXCEPT ![r].at = "pruning", ![r].tries = 0]
    BY <1>1, TypeParts DEF TaskTo
  <2> QED
    BY <2>1, <2>2 DEF TaskRecords
<1>3. TypeOK'
  BY <1>1, <1>2 DEF TypeInv, TypeOK, Free, SectionPoints, TaskRecords
<1>4. cs'.at = "list" /\ cs'.holder = "task" /\ cs'.run = r
  BY <1>1 DEF Free
<1>5. Held'
  BY <1>1, <1>2, <1>4 DEF Held, PruningOne, PrunePoints, TypeInv
<1> QED
  BY <1>3, <1>5 DEF TypeInv

LEMMA EnvironmentType == ASSUME TypeInv, Environment PROVE TypeInv'
<1>1. PICK r \in Runs : RetentionPasses(r) \/ AttachStream(r) \/ DetachStream(r) \/ ForeignProducer(r)
  BY DEF Environment
<1>2. /\ UNCHANGED <<token, task, submission, cs, shutdown, accepting, failed, runFailures, faults>>
  BY <1>1 DEF RetentionPasses, AttachStream, DetachStream, ForeignProducer, failStop
<1>3. NoOutcome \in Outcomes \cup {NoOutcome}
  OBVIOUS
<1>4. /\ [record EXCEPT ![r].expired = TRUE] \in [Runs -> RunRecords]
      /\ [log EXCEPT ![r].streams = @ + 1] \in [Runs -> Logs]
      /\ [log EXCEPT ![r].streams = @ - 1] \in [Runs -> Logs]
      /\ [log EXCEPT ![r].owner = "foreign"] \in [Runs -> Logs]
      /\ record \in [Runs -> RunRecords] /\ log \in [Runs -> Logs]
  BY <1>3, FieldTypes, TypeParts
<1>5. record' \in [Runs -> RunRecords] /\ log' \in [Runs -> Logs]
  BY <1>1, <1>4 DEF RetentionPasses, AttachStream, DetachStream, ForeignProducer
<1> QED
  BY <1>2, <1>5, OutsideType, TypeParts DEF TypeInv, TypeOK

LEMMA StepType == TypeInv /\ [Next]_vars => TypeInv'
<1> SUFFICES ASSUME TypeInv, [Next]_vars PROVE TypeInv'
  OBVIOUS
<1>1. ASSUME NEW x \in Reply, SectionCall(x) PROVE TypeInv'
  BY <1>1, CreateType, ProbeType, OpenLogType, EmitCreatedType, DeleteLogType, DeleteRecordType,
     RestoreLogType, RestoreCreatedType, PruneListType, PruneLogType, PruneRecordType DEF SectionCall
<1>2. ASSUME NEW b \in BOOLEAN, SectionRead(b) PROVE TypeInv'
  BY <1>2, CreateReadType, ClassifyType, CommitType, DeleteLogReadType, DeleteRecordReadType,
     VerifyLogGoneType, RestoreEndsType, PruneLogReadType, PruneRecordReadType, PruneVerifyType
     DEF SectionRead
<1>3. ASSUME Section PROVE TypeInv'
  BY <1>1, <1>2, <1>3, PruneNextType, PruneDoneType DEF Section
<1>4. ASSUME NEW r \in Runs, TaskStep(r) PROVE TypeInv'
  <2>1. ASSUME NEW x \in TaskReply, TaskCall(r, x) PROVE TypeInv'
    BY <2>1, MarkRunningType, CompleteType, PublishEmitType, StartRunType DEF TaskCall
  <2>2. ASSUME NEW b \in BOOLEAN, TaskRead(r, b) PROVE TypeInv'
    BY <2>2, MarkReadType, CompleteReadType, PublishReadType, PublishLastType DEF TaskRead
  <2> QED
    BY <1>4, <2>1, <2>2 DEF TaskStep
<1>5. CASE UNCHANGED vars
  BY <1>5, OutsideType, TypeParts DEF vars, TypeInv, TypeOK
<1> QED
  BY <1>3, <1>4, <1>5, SubmitType, AcquireType, AgentType, TaskPruneType, CancelSubmitType,
     ShutdownType, EnvironmentType DEF Next

\* Every state of every run of the runner is of the right types, and whoever
\* holds the lock is a submission that is not answered, or a task that prunes.
THEOREM TypeCorrect == Spec => [](TypeOK /\ Held)
<1>1. Spec => []TypeInv
  BY InitType, StepType, PTL DEF Spec
<1>2. TypeInv => TypeOK /\ Held
  BY DEF TypeInv
<1> QED
  BY <1>1, <1>2, PTL

(***************************************************************************)
(* The invariant: what each kind of step must see to                       *)
(***************************************************************************)
LEMMA InitInv == Init => Inv
<1> SUFFICES ASSUME Init PROVE Inv
  OBVIOUS
<1>1. SubmissionAt /\ PruneAt /\ StopInv
  BY DEF Init, Free, SubmissionAt, PruneAt, StopInv, PruningOne, PrunePoints
<1>2. ASSUME NEW r \in Runs PROVE RunInv(r)
  <2>1. record[r] = NoRecord /\ log[r] = NoLog /\ task[r] = NoTask /\ submission[r] = "none" /\ ~token[r]
    BY DEF Init
  <2> QED
    BY <2>1 DEF RunInv, RecordInv, LogInv, TaskInv, Absent, Own, NoRecord, NoLog, NoTask, Refused,
                Undecided, Terminalizing
<1> QED
  BY <1>1, <1>2 DEF Inv

\* A run whose place in the stores, the tasks and the submissions is kept.
LEMMA KeptRun ==
  ASSUME NEW r \in Runs, RunInv(r), record'[r] = record[r], log'[r] = log[r], token'[r] = token[r],
         task'[r] = task[r], submission'[r] = submission[r], failed => failed',
         runFailures \subseteq runFailures',
         submission[r] = "pending" => cs'.holder = "submit" /\ cs'.run = r,
         \/ failed'
         \/ Own(r) \/ Absent(r)
         \/ ~(cs.cur = r /\ cs.at \in PruningOne \ {"prune_log"})
         \/ cs'.cur = r /\ cs'.at \in PruningOne \ {"prune_log"}
  PROVE  RunInv(r)'
<1>1. RecordInv(r)'
  BY DEF RunInv, RecordInv, Absent
<1>2. LogInv(r)'
  BY DEF RunInv, LogInv, Absent, Own
<1>3. TaskInv(r)'
  BY DEF RunInv, TaskInv, Absent, Own
<1> QED
  BY <1>1, <1>2, <1>3 DEF RunInv

\* What the run that is being pruned needs when the section goes on.
PruneKept ==
  \A r \in Runs :
    \/ failed'
    \/ Own(r) \/ Absent(r)
    \/ ~(cs.cur = r /\ cs.at \in PruningOne \ {"prune_log"})
    \/ cs'.cur = r /\ cs'.at \in PruningOne \ {"prune_log"}

\* The section goes on, and changes at most the record and the log of one run.
LEMMA SectionInv ==
  ASSUME TypeInv, Inv, NEW q \in Runs,
         \A r \in Runs \ {q} : record'[r] = record[r] /\ log'[r] = log[r] /\ token'[r] = token[r],
         task' = task, submission' = submission, failed => failed', runFailures \subseteq runFailures',
         accepting' => accepting, shutdown' = shutdown,
         cs'.holder = cs.holder, cs'.run = cs.run,
         PruneKept, RunInv(q)', SubmissionAt', PruneAt'
  PROVE  Inv'
<1>1. ASSUME NEW r \in Runs PROVE RunInv(r)'
  <2>1. CASE r = q
    BY <2>1
  <2>2. CASE r # q
    <3>1. submission[r] = "pending" => cs'.holder = "submit" /\ cs'.run = r
      BY DEF Inv, RunInv, RecordInv
    <3>2. RunInv(r) /\ record'[r] = record[r] /\ log'[r] = log[r] /\ token'[r] = token[r]
      BY <2>2 DEF Inv
    <3>3. \/ failed'
          \/ Own(r) \/ Absent(r)
          \/ ~(cs.cur = r /\ cs.at \in PruningOne \ {"prune_log"})
          \/ cs'.cur = r /\ cs'.at \in PruningOne \ {"prune_log"}
      BY DEF PruneKept
    <3> QED
      BY <3>1, <3>2, <3>3, KeptRun
  <2> QED
    BY <2>1, <2>2
<1>2. StopInv'
  BY DEF Inv, StopInv
<1> QED
  BY <1>1, <1>2 DEF Inv

\* The section only looks and goes on.
LEMMA StaysInv ==
  ASSUME TypeInv, Inv, cs.run \in Runs, Looks, NEW c, Stays(c), c.holder = cs.holder, c.run = cs.run,
         PruneKept, SubmissionAt', PruneAt'
  PROVE  Inv'
<1>1. /\ cs' = c /\ task' = task /\ submission' = submission /\ record' = record /\ log' = log
      /\ token' = token /\ accepting' = accepting /\ failed' = failed
      /\ runFailures' = runFailures /\ shutdown' = shutdown
  BY DEF Looks, Stays
<1>2. ASSUME NEW r \in Runs PROVE RunInv(r)'
  <2>1. RunInv(r) /\ (submission[r] = "pending" => cs'.holder = "submit" /\ cs'.run = r)
    BY <1>1 DEF Inv, RunInv, RecordInv
  <2>2. \/ failed'
        \/ Own(r) \/ Absent(r)
        \/ ~(cs.cur = r /\ cs.at \in PruningOne \ {"prune_log"})
        \/ cs'.cur = r /\ cs'.at \in PruningOne \ {"prune_log"}
    BY DEF PruneKept
  <2> QED
    BY <1>1, <2>1, <2>2, KeptRun
<1>3. StopInv'
  BY <1>1 DEF Inv, StopInv
<1> QED
  BY <1>2, <1>3 DEF Inv

\* The section ends: the submission is answered, or the task is over.
LEMMA LeaveInv ==
  ASSUME TypeInv, Inv, cs.at # "free", NEW result \in Refused, NEW pending \in BOOLEAN,
         Leave(result, pending), Looks,
         failed => failed', runFailures \subseteq runFailures', accepting' => accepting,
         failed' \/ cs.at \notin PruningOne,
         cs.holder = "submit" => failed' \/ (Absent(cs.run) /\ ~Own(cs.run))
  PROVE  Inv'
<1>1. /\ cs' = Free /\ cs.run \in Runs /\ record' = record /\ log' = log /\ token' = token /\ shutdown' = shutdown
      /\ Free.holder = "none" /\ Free.at = "free" /\ Free.todo = {}
  BY LeaveFacts DEF Looks, Free
<1>2. SubmissionAt' /\ PruneAt' /\ StopInv'
  BY <1>1 DEF SubmissionAt, PruneAt, StopInv, Inv, PruningOne, PrunePoints
<1>3. ASSUME NEW r \in Runs, r # cs.run PROVE RunInv(r)'
  <2>1. task'[r] = task[r] /\ submission'[r] = submission[r] /\ RunInv(r) /\ submission[r] # "pending"
    BY <1>1, <1>3, LeaveFacts, TypeParts DEF Inv, RunInv, RecordInv, TypeInv, Held
  <2> QED
    BY <1>1, <2>1, KeptRun
<1>4. ASSUME NEW r \in Runs, r = cs.run PROVE RunInv(r)'
  <2>1. RunInv(r) /\ record'[r] = record[r] /\ log'[r] = log[r] /\ token'[r] = token[r]
    BY <1>1 DEF Inv
  <2>2. CASE cs.holder = "submit"
    <3>1. task' = task /\ submission'[r] \in Refused /\ submission[r] = "pending"
      BY <2>2, <1>4, LeaveFacts DEF TypeInv, Held
    <3>2. failed' \/ (Absent(r) /\ ~Own(r))
      BY <2>2, <1>4
    <3>3. RecordInv(r)'
      BY <2>1, <3>1, <3>2 DEF RunInv, RecordInv, Absent, Refused
    <3>4. LogInv(r)'
      BY <2>1, <3>1, <3>2 DEF RunInv, LogInv, Absent, Own, Refused
    <3>5. TaskInv(r)'
      BY <2>1, <3>1, <3>2 DEF RunInv, TaskInv, Absent, Own, Refused
    <3> QED
      BY <3>3, <3>4, <3>5 DEF RunInv
  <2>3. CASE cs.holder = "task"
    <3>1. /\ submission'[r] = submission[r] /\ task[r].at = "pruning"
          /\ task'[r].at \in {"done", "failed"} /\ task'[r].outcome = task[r].outcome
      BY <2>3, <1>4, LeaveFacts, TypeParts DEF TypeInv, Held, TaskRecords
    <3>2. RecordInv(r)'
      BY <2>1, <2>3, <3>1 DEF RunInv, RecordInv, Absent
    <3>3. LogInv(r)'
      BY <2>1, <3>1 DEF RunInv, LogInv, Absent, Own
    <3>4. TaskInv(r)'
      BY <2>1, <3>1 DEF RunInv, TaskInv, Absent, Own, Terminalizing, Undecided
    <3> QED
      BY <3>2, <3>3, <3>4 DEF RunInv
  <2> QED
    BY <2>2, <2>3 DEF TypeInv, Held
<1> QED
  BY <1>2, <1>3, <1>4 DEF Inv

LEMMA AbortInv ==
  ASSUME TypeInv, Inv, cs.at # "free", NEW S \in SUBSET Runs, Abort(S), Looks
  PROVE  Inv'
<1>1. /\ failed' /\ ~accepting' /\ runFailures \subseteq runFailures'
      /\ Leave("inconsistent", cs.pending)
  BY DEF Abort, EnterFailStop
<1>2. cs.pending \in BOOLEAN /\ "inconsistent" \in Refused
  BY TypeParts DEF Sections, Refused
<1> QED
  BY <1>1, <1>2, LeaveInv

LEMMA CreateReadKeeps ==
  ASSUME TypeInv, Inv, NEW readable \in BOOLEAN, CreateRead(readable) PROVE Inv'
<1>1. cs.at = "create_read" /\ cs.run \in Runs /\ cs.pending \in BOOLEAN /\ Looks /\ cs \in Sections
  BY CreateReadCases, TypeParts
<1>2. CASE Abort({cs.run})
  BY <1>1, <1>2, AbortInv
<1>3. CASE Absent(cs.run) /\ Leave("failed", cs.pending) /\ Ends
  <2>1. "failed" \in Refused /\ cs.at \notin PruningOne
    BY <1>1 DEF Refused, Sections, Failures, PruningOne, PrunePoints
  <2>2. cs.holder = "submit" => Absent(cs.run) /\ ~Own(cs.run)
    BY <1>1, <1>3 DEF Inv, SubmissionAt, PrunePoints
  <2> QED
    BY <1>1, <1>3, <2>1, <2>2, LeaveInv DEF Ends
<1>4. CASE ~Absent(cs.run) /\ Stays([cs EXCEPT !.at = "del_record", !.then = "undo"])
  <2> DEFINE c == [cs EXCEPT !.at = "del_record", !.then = "undo"]
  <2>1. /\ cs' = c /\ record' = record /\ log' = log /\ token' = token /\ Stays(c)
        /\ failed' = failed /\ submission' = submission
    BY <1>1, <1>4 DEF Stays, Looks
  <2>2. c.holder = cs.holder /\ c.run = cs.run
    BY <1>1 DEF Sections
  <2>6. Queued(cs.run)
    <3>1. cs.holder = "submit" /\ submission[cs.run] = "pending" /\ record[cs.run].status \in Statuses
      BY <1>1, TypeParts DEF TypeInv, Held, PrunePoints, RunRecords
    <3> QED
      BY <1>1, <1>4, <3>1 DEF Inv, RunInv, RecordInv, Statuses, Absent, Queued
  <2>3. SubmissionAt'
    BY <2>6, <1>1, <1>4, <2>1 DEF Inv, SubmissionAt, Sections, PrunePoints, Absent, Queued,
       Own, TypeInv, Held
  <2>4. PruneAt'
    BY <1>1, <1>4, <2>1 DEF Inv, PruneAt, Sections, PruningOne, PrunePoints, Absent, Own
  <2>5. PruneKept
    BY <1>1, <1>4, <2>1 DEF PruneKept, PruningOne, PrunePoints, Sections
  <2> HIDE DEF c
  <2> QED
    BY <1>1, <1>4, <2>1, <2>2, <2>3, <2>4, <2>5, StaysInv
<1> QED
  BY CreateReadCases, <1>2, <1>3, <1>4

LEMMA ClassifyKeeps ==
  ASSUME TypeInv, Inv, NEW readable \in BOOLEAN, Classify(readable) PROVE Inv'
<1>1. cs.at = "classify" /\ cs.run \in Runs /\ cs.pending \in BOOLEAN /\ Looks /\ cs \in Sections
  BY ClassifyCases, TypeParts
<1>2. CASE Abort({cs.run})
  BY <1>1, <1>2, AbortInv
<1>3. CASE Own(cs.run) /\ Stays([cs EXCEPT !.at = "del_log", !.owned = TRUE])
  <2> DEFINE c == [cs EXCEPT !.at = "del_log", !.owned = TRUE]
  <2>1. /\ cs' = c /\ record' = record /\ log' = log /\ token' = token /\ Stays(c)
        /\ failed' = failed /\ submission' = submission
    BY <1>1, <1>3 DEF Stays, Looks
  <2>2. c.holder = cs.holder /\ c.run = cs.run
    BY <1>1 DEF Sections
  <2>3. SubmissionAt'
    BY <1>1, <1>3, <2>1 DEF Inv, SubmissionAt, Sections, PrunePoints, Absent, Queued, Own,
       TypeInv, Held
  <2>4. PruneAt'
    BY <1>1, <1>3, <2>1 DEF Inv, PruneAt, Sections, PruningOne, PrunePoints, Absent, Own
  <2>5. PruneKept
    BY <1>1, <1>3, <2>1 DEF PruneKept, PruningOne, PrunePoints, Sections
  <2> HIDE DEF c
  <2> QED
    BY <1>1, <1>3, <2>1, <2>2, <2>3, <2>4, <2>5, StaysInv
<1>4. CASE ~Own(cs.run) /\ Stays([cs EXCEPT !.at = "del_record", !.then = "abort"])
  <2> DEFINE c == [cs EXCEPT !.at = "del_record", !.then = "abort"]
  <2>1. /\ cs' = c /\ record' = record /\ log' = log /\ token' = token /\ Stays(c)
        /\ failed' = failed /\ submission' = submission
    BY <1>1, <1>4 DEF Stays, Looks
  <2>2. c.holder = cs.holder /\ c.run = cs.run
    BY <1>1 DEF Sections
  <2>3. SubmissionAt'
    BY <1>1, <1>4, <2>1 DEF Inv, SubmissionAt, Sections, PrunePoints, Absent, Queued, Own,
       TypeInv, Held
  <2>4. PruneAt'
    BY <1>1, <1>4, <2>1 DEF Inv, PruneAt, Sections, PruningOne, PrunePoints, Absent, Own
  <2>5. PruneKept
    BY <1>1, <1>4, <2>1 DEF PruneKept, PruningOne, PrunePoints, Sections
  <2> HIDE DEF c
  <2> QED
    BY <1>1, <1>4, <2>1, <2>2, <2>3, <2>4, <2>5, StaysInv
<1>5. CASE ~Own(cs.run) /\ Stays([cs EXCEPT !.at = "del_record"])
  <2> DEFINE c == [cs EXCEPT !.at = "del_record"]
  <2>1. /\ cs' = c /\ record' = record /\ log' = log /\ token' = token /\ Stays(c)
        /\ failed' = failed /\ submission' = submission
    BY <1>1, <1>5 DEF Stays, Looks
  <2>2. c.holder = cs.holder /\ c.run = cs.run
    BY <1>1 DEF Sections
  <2>3. SubmissionAt'
    BY <1>1, <1>5, <2>1 DEF Inv, SubmissionAt, Sections, PrunePoints, Absent, Queued, Own,
       TypeInv, Held
  <2>4. PruneAt'
    BY <1>1, <1>5, <2>1 DEF Inv, PruneAt, Sections, PruningOne, PrunePoints, Absent, Own
  <2>5. PruneKept
    BY <1>1, <1>5, <2>1 DEF PruneKept, PruningOne, PrunePoints, Sections
  <2> HIDE DEF c
  <2> QED
    BY <1>1, <1>5, <2>1, <2>2, <2>3, <2>4, <2>5, StaysInv
<1> QED
  BY ClassifyCases, <1>2, <1>3, <1>4, <1>5

LEMMA DeleteLogReadKeeps ==
  ASSUME TypeInv, Inv, NEW readable \in BOOLEAN, DeleteLogRead(readable) PROVE Inv'
<1>1. cs.at = "del_log_read" /\ cs.run \in Runs /\ cs.pending \in BOOLEAN /\ Looks /\ cs \in Sections
  BY DeleteLogReadCases, TypeParts
<1>2. CASE Abort({cs.run})
  BY <1>1, <1>2, AbortInv
<1>3. CASE ~Own(cs.run) /\ Stays([cs EXCEPT !.at = "del_record", !.tries = 0])
  <2> DEFINE c == [cs EXCEPT !.at = "del_record", !.tries = 0]
  <2>1. /\ cs' = c /\ record' = record /\ log' = log /\ token' = token /\ Stays(c)
        /\ failed' = failed /\ submission' = submission
    BY <1>1, <1>3 DEF Stays, Looks
  <2>2. c.holder = cs.holder /\ c.run = cs.run
    BY <1>1 DEF Sections
  <2>3. SubmissionAt'
    BY <1>1, <1>3, <2>1 DEF Inv, SubmissionAt, Sections, PrunePoints, Absent, Queued, Own,
       TypeInv, Held
  <2>4. PruneAt'
    BY <1>1, <1>3, <2>1 DEF Inv, PruneAt, Sections, PruningOne, PrunePoints, Absent, Own
  <2>5. PruneKept
    BY <1>1, <1>3, <2>1 DEF PruneKept, PruningOne, PrunePoints, Sections
  <2> HIDE DEF c
  <2> QED
    BY <1>1, <1>3, <2>1, <2>2, <2>3, <2>4, <2>5, StaysInv
<1>4. CASE Own(cs.run) /\ Stays([cs EXCEPT !.at = "del_log", !.tries = @ + 1])
  <2> DEFINE c == [cs EXCEPT !.at = "del_log", !.tries = @ + 1]
  <2>1. /\ cs' = c /\ record' = record /\ log' = log /\ token' = token /\ Stays(c)
        /\ failed' = failed /\ submission' = submission
    BY <1>1, <1>4 DEF Stays, Looks
  <2>2. c.holder = cs.holder /\ c.run = cs.run
    BY <1>1 DEF Sections
  <2>3. SubmissionAt'
    BY <1>1, <1>4, <2>1 DEF Inv, SubmissionAt, Sections, PrunePoints, Absent, Queued, Own,
       TypeInv, Held
  <2>4. PruneAt'
    BY <1>1, <1>4, <2>1 DEF Inv, PruneAt, Sections, PruningOne, PrunePoints, Absent, Own
  <2>5. PruneKept
    BY <1>1, <1>4, <2>1 DEF PruneKept, PruningOne, PrunePoints, Sections
  <2> HIDE DEF c
  <2> QED
    BY <1>1, <1>4, <2>1, <2>2, <2>3, <2>4, <2>5, StaysInv
<1> QED
  BY DeleteLogReadCases, <1>2, <1>3, <1>4

LEMMA DeleteRecordReadKeeps ==
  ASSUME TypeInv, Inv, NEW readable \in BOOLEAN, DeleteRecordRead(readable) PROVE Inv'
<1>1. cs.at = "del_record_read" /\ cs.run \in Runs /\ cs.pending \in BOOLEAN /\ Looks /\ cs \in Sections
  BY DeleteRecordReadCases, TypeParts
<1>2. CASE Abort({cs.run})
  BY <1>1, <1>2, AbortInv
<1>3. CASE Abort({})
  BY <1>1, <1>3, AbortInv
<1>4. CASE Absent(cs.run) /\ Leave(cs.result, cs.pending) /\ Ends
  <2>1. cs.result \in Refused /\ cs.at \notin PruningOne
    BY <1>1 DEF Refused, Sections, Failures, PruningOne, PrunePoints
  <2>2. cs.holder = "submit" => Absent(cs.run) /\ ~Own(cs.run)
    BY <1>1, <1>4 DEF Inv, SubmissionAt, PrunePoints
  <2> QED
    BY <1>1, <1>4, <2>1, <2>2, LeaveInv DEF Ends
<1>5. CASE Absent(cs.run) /\ Stays([cs EXCEPT !.at = "verify", !.tries = 0])
  <2> DEFINE c == [cs EXCEPT !.at = "verify", !.tries = 0]
  <2>1. /\ cs' = c /\ record' = record /\ log' = log /\ token' = token /\ Stays(c)
        /\ failed' = failed /\ submission' = submission
    BY <1>1, <1>5 DEF Stays, Looks
  <2>2. c.holder = cs.holder /\ c.run = cs.run
    BY <1>1 DEF Sections
  <2>3. SubmissionAt'
    BY <1>1, <1>5, <2>1 DEF Inv, SubmissionAt, Sections, PrunePoints, Absent, Queued, Own,
       TypeInv, Held
  <2>4. PruneAt'
    BY <1>1, <1>5, <2>1 DEF Inv, PruneAt, Sections, PruningOne, PrunePoints, Absent, Own
  <2>5. PruneKept
    BY <1>1, <1>5, <2>1 DEF PruneKept, PruningOne, PrunePoints, Sections
  <2> HIDE DEF c
  <2> QED
    BY <1>1, <1>5, <2>1, <2>2, <2>3, <2>4, <2>5, StaysInv
<1>6. CASE Queued(cs.run) /\ Stays([cs EXCEPT !.at = "del_record", !.tries = @ + 1])
  <2> DEFINE c == [cs EXCEPT !.at = "del_record", !.tries = @ + 1]
  <2>1. /\ cs' = c /\ record' = record /\ log' = log /\ token' = token /\ Stays(c)
        /\ failed' = failed /\ submission' = submission
    BY <1>1, <1>6 DEF Stays, Looks
  <2>2. c.holder = cs.holder /\ c.run = cs.run
    BY <1>1 DEF Sections
  <2>3. SubmissionAt'
    BY <1>1, <1>6, <2>1 DEF Inv, SubmissionAt, Sections, PrunePoints, Absent, Queued, Own,
       TypeInv, Held
  <2>4. PruneAt'
    BY <1>1, <1>6, <2>1 DEF Inv, PruneAt, Sections, PruningOne, PrunePoints, Absent, Own
  <2>5. PruneKept
    BY <1>1, <1>6, <2>1 DEF PruneKept, PruningOne, PrunePoints, Sections
  <2> HIDE DEF c
  <2> QED
    BY <1>1, <1>6, <2>1, <2>2, <2>3, <2>4, <2>5, StaysInv
<1>7. CASE Queued(cs.run) /\ Stays([cs EXCEPT !.at = "restore", !.tries = 0])
  <2> DEFINE c == [cs EXCEPT !.at = "restore", !.tries = 0]
  <2>1. /\ cs' = c /\ record' = record /\ log' = log /\ token' = token /\ Stays(c)
        /\ failed' = failed /\ submission' = submission
    BY <1>1, <1>7 DEF Stays, Looks
  <2>2. c.holder = cs.holder /\ c.run = cs.run
    BY <1>1 DEF Sections
  <2>3. SubmissionAt'
    BY <1>1, <1>7, <2>1 DEF Inv, SubmissionAt, Sections, PrunePoints, Absent, Queued, Own,
       TypeInv, Held
  <2>4. PruneAt'
    BY <1>1, <1>7, <2>1 DEF Inv, PruneAt, Sections, PruningOne, PrunePoints, Absent, Own
  <2>5. PruneKept
    BY <1>1, <1>7, <2>1 DEF PruneKept, PruningOne, PrunePoints, Sections
  <2> HIDE DEF c
  <2> QED
    BY <1>1, <1>7, <2>1, <2>2, <2>3, <2>4, <2>5, StaysInv
<1> QED
  BY DeleteRecordReadCases, <1>2, <1>3, <1>4, <1>5, <1>6, <1>7

LEMMA VerifyLogGoneKeeps ==
  ASSUME TypeInv, Inv, NEW readable \in BOOLEAN, VerifyLogGone(readable) PROVE Inv'
<1>1. cs.at = "verify" /\ cs.run \in Runs /\ cs.pending \in BOOLEAN /\ Looks /\ cs \in Sections
  BY VerifyLogGoneCases, TypeParts
<1>2. CASE Abort({cs.run})
  BY <1>1, <1>2, AbortInv
<1>3. CASE ~Own(cs.run) /\ Leave(cs.result, cs.pending) /\ Ends
  <2>1. cs.result \in Refused /\ cs.at \notin PruningOne
    BY <1>1 DEF Refused, Sections, Failures, PruningOne, PrunePoints
  <2>2. cs.holder = "submit" => Absent(cs.run) /\ ~Own(cs.run)
    BY <1>1, <1>3 DEF Inv, SubmissionAt, PrunePoints
  <2> QED
    BY <1>1, <1>3, <2>1, <2>2, LeaveInv DEF Ends
<1> QED
  BY VerifyLogGoneCases, <1>2, <1>3

LEMMA RestoreEndsKeeps ==
  ASSUME TypeInv, Inv, NEW readable \in BOOLEAN, RestoreEnds(readable) PROVE Inv'
<1>1. cs.at = "restore" /\ cs.run \in Runs /\ cs.pending \in BOOLEAN /\ Looks /\ cs \in Sections
  BY RestoreEndsCases, TypeParts
<1>2. CASE Abort({cs.run})
  BY <1>1, <1>2, AbortInv
<1> QED
  BY RestoreEndsCases, <1>2

LEMMA PruneLogReadKeeps ==
  ASSUME TypeInv, Inv, NEW readable \in BOOLEAN, PruneLogRead(readable) PROVE Inv'
<1>1. cs.at = "prune_log_read" /\ cs.run \in Runs /\ cs.pending \in BOOLEAN /\ Looks /\ cs \in Sections
  BY PruneLogReadCases, TypeParts
<1>2. CASE Abort({cs.cur})
  BY <1>1, <1>2, AbortInv DEF TypeInv, Held, PruningOne, PrunePoints
<1>3. CASE ~Own(cs.cur) /\ Stays([cs EXCEPT !.at = "prune_record", !.tries = 0])
  <2> DEFINE c == [cs EXCEPT !.at = "prune_record", !.tries = 0]
  <2>1. /\ cs' = c /\ record' = record /\ log' = log /\ token' = token /\ Stays(c)
        /\ failed' = failed /\ submission' = submission
    BY <1>1, <1>3 DEF Stays, Looks
  <2>2. c.holder = cs.holder /\ c.run = cs.run
    BY <1>1 DEF Sections
  <2>3. SubmissionAt'
    BY <1>1, <1>3, <2>1 DEF Inv, SubmissionAt, Sections, PrunePoints, Absent, Queued, Own,
       TypeInv, Held
  <2>4. PruneAt'
    BY <1>1, <1>3, <2>1 DEF Inv, PruneAt, Sections, PruningOne, PrunePoints, Absent, Own
  <2>5. PruneKept
    BY <1>1, <1>3, <2>1 DEF PruneKept, PruningOne, PrunePoints, Sections
  <2> HIDE DEF c
  <2> QED
    BY <1>1, <1>3, <2>1, <2>2, <2>3, <2>4, <2>5, StaysInv
<1>4. CASE Own(cs.cur) /\ Stays([cs EXCEPT !.at = "prune_log", !.tries = @ + 1])
  <2> DEFINE c == [cs EXCEPT !.at = "prune_log", !.tries = @ + 1]
  <2>1. /\ cs' = c /\ record' = record /\ log' = log /\ token' = token /\ Stays(c)
        /\ failed' = failed /\ submission' = submission
    BY <1>1, <1>4 DEF Stays, Looks
  <2>2. c.holder = cs.holder /\ c.run = cs.run
    BY <1>1 DEF Sections
  <2>3. SubmissionAt'
    BY <1>1, <1>4, <2>1 DEF Inv, SubmissionAt, Sections, PrunePoints, Absent, Queued, Own,
       TypeInv, Held
  <2>4. PruneAt'
    BY <1>1, <1>4, <2>1 DEF Inv, PruneAt, Sections, PruningOne, PrunePoints, Absent, Own
  <2>5. PruneKept
    BY <1>1, <1>4, <2>1 DEF PruneKept, PruningOne, PrunePoints, Sections
  <2> HIDE DEF c
  <2> QED
    BY <1>1, <1>4, <2>1, <2>2, <2>3, <2>4, <2>5, StaysInv
<1>5. CASE Own(cs.cur) /\ Stays([cs EXCEPT !.at = "next", !.tries = 0])
  <2> DEFINE c == [cs EXCEPT !.at = "next", !.tries = 0]
  <2>1. /\ cs' = c /\ record' = record /\ log' = log /\ token' = token /\ Stays(c)
        /\ failed' = failed /\ submission' = submission
    BY <1>1, <1>5 DEF Stays, Looks
  <2>2. c.holder = cs.holder /\ c.run = cs.run
    BY <1>1 DEF Sections
  <2>3. SubmissionAt'
    BY <1>1, <1>5, <2>1 DEF Inv, SubmissionAt, Sections, PrunePoints, Absent, Queued, Own,
       TypeInv, Held
  <2>4. PruneAt'
    BY <1>1, <1>5, <2>1 DEF Inv, PruneAt, Sections, PruningOne, PrunePoints, Absent, Own
  <2>5. PruneKept
    BY <1>1, <1>5, <2>1 DEF PruneKept, PruningOne, PrunePoints, Sections
  <2> HIDE DEF c
  <2> QED
    BY <1>1, <1>5, <2>1, <2>2, <2>3, <2>4, <2>5, StaysInv
<1> QED
  BY PruneLogReadCases, <1>2, <1>3, <1>4, <1>5

LEMMA PruneRecordReadKeeps ==
  ASSUME TypeInv, Inv, NEW readable \in BOOLEAN, PruneRecordRead(readable) PROVE Inv'
<1>1. cs.at = "prune_record_read" /\ cs.run \in Runs /\ cs.pending \in BOOLEAN /\ Looks /\ cs \in Sections
  BY PruneRecordReadCases, TypeParts
<1>2. CASE Abort({cs.cur})
  BY <1>1, <1>2, AbortInv DEF TypeInv, Held, PruningOne, PrunePoints
<1>3. CASE Absent(cs.cur) /\ Stays([cs EXCEPT !.at = "prune_verify", !.tries = 0])
  <2> DEFINE c == [cs EXCEPT !.at = "prune_verify", !.tries = 0]
  <2>1. /\ cs' = c /\ record' = record /\ log' = log /\ token' = token /\ Stays(c)
        /\ failed' = failed /\ submission' = submission
    BY <1>1, <1>3 DEF Stays, Looks
  <2>2. c.holder = cs.holder /\ c.run = cs.run
    BY <1>1 DEF Sections
  <2>3. SubmissionAt'
    BY <1>1, <1>3, <2>1 DEF Inv, SubmissionAt, Sections, PrunePoints, Absent, Queued, Own,
       TypeInv, Held
  <2>4. PruneAt'
    BY <1>1, <1>3, <2>1 DEF Inv, PruneAt, Sections, PruningOne, PrunePoints, Absent, Own
  <2>5. PruneKept
    BY <1>1, <1>3, <2>1 DEF PruneKept, PruningOne, PrunePoints, Sections
  <2> HIDE DEF c
  <2> QED
    BY <1>1, <1>3, <2>1, <2>2, <2>3, <2>4, <2>5, StaysInv
<1>4. CASE ~Absent(cs.cur) /\ Stays([cs EXCEPT !.at = "prune_record", !.tries = @ + 1])
  <2> DEFINE c == [cs EXCEPT !.at = "prune_record", !.tries = @ + 1]
  <2>1. /\ cs' = c /\ record' = record /\ log' = log /\ token' = token /\ Stays(c)
        /\ failed' = failed /\ submission' = submission
    BY <1>1, <1>4 DEF Stays, Looks
  <2>2. c.holder = cs.holder /\ c.run = cs.run
    BY <1>1 DEF Sections
  <2>3. SubmissionAt'
    BY <1>1, <1>4, <2>1 DEF Inv, SubmissionAt, Sections, PrunePoints, Absent, Queued, Own,
       TypeInv, Held
  <2>4. PruneAt'
    BY <1>1, <1>4, <2>1 DEF Inv, PruneAt, Sections, PruningOne, PrunePoints, Absent, Own
  <2>5. PruneKept
    BY <1>1, <1>4, <2>1 DEF PruneKept, PruningOne, PrunePoints, Sections
  <2> HIDE DEF c
  <2> QED
    BY <1>1, <1>4, <2>1, <2>2, <2>3, <2>4, <2>5, StaysInv
<1> QED
  BY PruneRecordReadCases, <1>2, <1>3, <1>4

LEMMA PruneNextKeeps == ASSUME TypeInv, Inv, NEW r \in Runs, PruneNext(r) PROVE Inv'
<1>1. cs.at = "next" /\ cs.run \in Runs /\ cs.pending \in BOOLEAN /\ Looks /\ cs \in Sections
  BY PruneNextCases, TypeParts
<1>2. CASE Abort({r})
  BY <1>1, <1>2, AbortInv
<1>3. CASE r \in cs.todo /\ token[r] /\ Stays([cs EXCEPT !.at = "prune_log", !.cur = r, !.todo = @ \ {r}, !.tries = 0])
  <2> DEFINE c == [cs EXCEPT !.at = "prune_log", !.cur = r, !.todo = @ \ {r}, !.tries = 0]
  <2>1. /\ cs' = c /\ record' = record /\ log' = log /\ token' = token /\ Stays(c)
        /\ failed' = failed /\ submission' = submission
    BY <1>1, <1>3 DEF Stays, Looks
  <2>2. c.holder = cs.holder /\ c.run = cs.run
    BY <1>1 DEF Sections
  <2>3. SubmissionAt'
    BY <1>1, <1>3, <2>1 DEF Inv, SubmissionAt, Sections, PrunePoints, Absent, Queued, Own,
       TypeInv, Held
  <2>4. PruneAt'
    BY <1>1, <1>3, <2>1 DEF Inv, PruneAt, Sections, PruningOne, PrunePoints, Absent, Own
  <2>5. PruneKept
    BY <1>1, <1>3, <2>1 DEF PruneKept, PruningOne, PrunePoints, Sections
  <2> HIDE DEF c
  <2> QED
    BY <1>1, <1>3, <2>1, <2>2, <2>3, <2>4, <2>5, StaysInv
<1> QED
  BY PruneNextCases, <1>2, <1>3

LEMMA PruneDoneKeeps == ASSUME TypeInv, Inv, PruneDone PROVE Inv'
<1>1. cs.at = "next" /\ cs.run \in Runs /\ cs.pending \in BOOLEAN /\ Looks /\ cs \in Sections
  BY PruneDoneCases, TypeParts
<1>2. CASE Leave("cancelled", cs.pending) /\ Ends
  <2>1. "cancelled" \in Refused /\ cs.at \notin PruningOne
    BY <1>1 DEF Refused, Sections, Failures, PruningOne, PrunePoints
  <2>2. cs.holder = "submit" => Absent(cs.run) /\ ~Own(cs.run)
    BY <1>1, <1>2 DEF Inv, SubmissionAt, PrunePoints
  <2> QED
    BY <1>1, <1>2, <2>1, <2>2, LeaveInv DEF Ends
<1>3. CASE cs.holder = "submit" /\ cs.todo = {} /\ Stays([cs EXCEPT !.at = "create", !.tries = 0, !.cur = NoRun])
  <2> DEFINE c == [cs EXCEPT !.at = "create", !.tries = 0, !.cur = NoRun]
  <2>1. /\ cs' = c /\ record' = record /\ log' = log /\ token' = token /\ Stays(c)
        /\ failed' = failed /\ submission' = submission
    BY <1>1, <1>3 DEF Stays, Looks
  <2>2. c.holder = cs.holder /\ c.run = cs.run
    BY <1>1 DEF Sections
  <2>3. SubmissionAt'
    BY <1>1, <1>3, <2>1 DEF Inv, SubmissionAt, Sections, PrunePoints, Absent, Queued, Own,
       TypeInv, Held
  <2>4. PruneAt'
    BY <1>1, <1>3, <2>1 DEF Inv, PruneAt, Sections, PruningOne, PrunePoints, Absent, Own
  <2>5. PruneKept
    BY <1>1, <1>3, <2>1 DEF PruneKept, PruningOne, PrunePoints, Sections
  <2> HIDE DEF c
  <2> QED
    BY <1>1, <1>3, <2>1, <2>2, <2>3, <2>4, <2>5, StaysInv
<1> QED
  BY PruneDoneCases, <1>2, <1>3

LEMMA PruneListKeeps == ASSUME TypeInv, Inv, NEW x \in Reply, PruneList(x) PROVE Inv'
<1>1. cs.at = "list" /\ cs.run \in Runs /\ cs.pending \in BOOLEAN /\ Looks /\ cs \in Sections
  BY PruneListCases, TypeParts
<1>2. CASE Abort({})
  BY <1>1, <1>2, AbortInv
<1>3. CASE cs.holder = "submit" /\ Leave("cancelled", TRUE) /\ Ends
  <2>1. "cancelled" \in Refused /\ cs.at \notin PruningOne
    BY <1>1 DEF Refused, Sections, Failures, PruningOne, PrunePoints
  <2>2. cs.holder = "submit" => Absent(cs.run) /\ ~Own(cs.run)
    BY <1>1, <1>3 DEF Inv, SubmissionAt, PrunePoints
  <2> QED
    BY <1>1, <1>3, <2>1, <2>2, LeaveInv DEF Ends
<1>4. CASE Stays([cs EXCEPT !.at = "next", !.todo = {r \in Runs : record[r].expired}])
  <2> DEFINE c == [cs EXCEPT !.at = "next", !.todo = {r \in Runs : record[r].expired}]
  <2>1. /\ cs' = c /\ record' = record /\ log' = log /\ token' = token /\ Stays(c)
        /\ failed' = failed /\ submission' = submission
    BY <1>1, <1>4 DEF Stays, Looks
  <2>2. c.holder = cs.holder /\ c.run = cs.run
    BY <1>1 DEF Sections
  <2>3. SubmissionAt'
    BY <1>1, <1>4, <2>1 DEF Inv, SubmissionAt, Sections, PrunePoints, Absent, Queued, Own,
       TypeInv, Held
  <2>4. PruneAt'
    BY <1>1, <1>4, <2>1 DEF Inv, PruneAt, Sections, PruningOne, PrunePoints, Absent, Own
  <2>5. PruneKept
    BY <1>1, <1>4, <2>1 DEF PruneKept, PruningOne, PrunePoints, Sections
  <2> HIDE DEF c
  <2> QED
    BY <1>1, <1>4, <2>1, <2>2, <2>3, <2>4, <2>5, StaysInv
<1> QED
  BY PruneListCases, <1>2, <1>3, <1>4

LEMMA PruneVerifyKeeps ==
  ASSUME TypeInv, Inv, NEW readable \in BOOLEAN, PruneVerify(readable) PROVE Inv'
<1>1. /\ cs.at = "prune_verify" /\ cs.run \in Runs /\ cs.cur \in Runs /\ cs \in Sections
      /\ UNCHANGED <<record, log, shutdown>>
  BY PruneVerifyCases, TypeParts
<1>2. CASE token' = token /\ Abort({cs.cur})
  BY <1>1, <1>2, AbortInv DEF Looks
<1>3. CASE /\ token' = [token EXCEPT ![cs.cur] = FALSE]
           /\ Stays([cs EXCEPT !.at = "next", !.tries = 0])
  <2> PICK q \in Runs : q = cs.cur
    BY <1>1
  <2>1. /\ cs' = [cs EXCEPT !.at = "next", !.tries = 0] /\ task' = task /\ submission' = submission
        /\ accepting' = accepting /\ failed' = failed /\ runFailures' = runFailures
    BY <1>3 DEF Stays
  <2>2. cs'.holder = cs.holder /\ cs'.run = cs.run /\ cs'.at = "next" /\ cs'.cur = q /\ cs'.todo = cs.todo
        /\ cs'.existed = cs.existed
    BY <1>1, <2>1 DEF Sections
  <2>3. q \in Runs /\ Absent(q) /\ submission[q] = "accepted" /\ RunInv(q) /\ ~Own(q)
    BY <1>1 DEF Inv, PruneAt, TypeInv, Held, PruningOne, PrunePoints
  <2>4. SubmissionAt'
    BY <1>1, <2>1, <2>2 DEF Inv, SubmissionAt, PrunePoints, Absent, Queued, Own
  <2>5. PruneAt'
    BY <1>1, <2>1, <2>2 DEF Inv, PruneAt, PruningOne, PrunePoints, Absent, Own
  <2>6. PruneKept
    BY <2>2, <2>3 DEF PruneKept
  <2>7. \A r \in Runs \ {q} : record'[r] = record[r] /\ log'[r] = log[r] /\ token'[r] = token[r]
    BY <1>1, <1>3, TypeParts
  <2>8. record'[q] = record[q] /\ log'[q] = log[q]
    BY <1>1
  <2>9. RunInv(q)'
    <3>1. RecordInv(q)'
      BY <1>1, <2>1, <2>3, <2>8 DEF RunInv, RecordInv, Absent
    <3>2. LogInv(q)'
      BY <1>1, <2>1, <2>3, <2>8 DEF RunInv, LogInv, Absent, Own
    <3>3. TaskInv(q)'
      BY <1>1, <2>1, <2>3, <2>8 DEF RunInv, TaskInv, Absent, Own
    <3> QED
      BY <3>1, <3>2, <3>3 DEF RunInv
  <2> QED
    BY <1>1, <2>1, <2>2, <2>3, <2>4, <2>5, <2>6, <2>7, <2>9, SectionInv
<1> QED
  BY PruneVerifyCases, <1>2, <1>3

\* A call of a submission outside of pruning changes the stores of its own run.
LEMMA SubmitCallInv ==
  ASSUME TypeInv, Inv, cs.at \notin PrunePoints, cs.at # "free", NEW q \in Runs, q = cs.run,
         \A r \in Runs \ {q} : record'[r] = record[r] /\ log'[r] = log[r],
         token' = token, task' = task, submission' = submission, failed => failed',
         runFailures \subseteq runFailures', accepting' => accepting, shutdown' = shutdown,
         cs'.holder = cs.holder, cs'.run = cs.run, cs'.todo = cs.todo, cs'.at \notin PrunePoints,
         record'[q].status \in {"absent", "queued"}, ~record'[q].expired,
         log'[q].owner # "own" => log'[q].streams = 0,
         log'[q].owner = "own" => record'[q].status # "absent",
         SubmissionAt'
  PROVE  Inv'
<1>1. cs.holder = "submit" /\ submission[q] = "pending" /\ RunInv(q)
  BY DEF TypeInv, Held, Inv
<1>2. ~record[q].expired /\ task[q].at = "none"
  <2>1. task[q].at = "none" /\ record[q].status \notin {"running", "terminal"}
    BY <1>1 DEF RunInv, RecordInv, TaskInv
  <2> QED
    BY <1>1, <2>1 DEF RunInv, RecordInv
<1>3. PruneAt'
  <2>1. \A r \in cs.todo : r \in Runs /\ r # q /\ record[r].expired
    BY <1>2, TypeParts DEF Inv, PruneAt, Sections
  <2>2. cs'.at \notin PruningOne
        /\ cs'.at \notin {"prune_record", "prune_record_read", "prune_verify"}
    BY DEF PruningOne, PrunePoints
  <2> QED
    BY <2>1, <2>2 DEF PruneAt
<1>4. PruneKept
  BY DEF PruneKept, PruningOne
<1>5. RecordInv(q)'
  BY <1>1, <1>2 DEF RunInv, RecordInv, Absent, Refused
<1>6. LogInv(q)'
  BY <1>1, <1>2 DEF RunInv, LogInv, Absent, Own, Refused
<1>7. TaskInv(q)'
  BY <1>1, <1>2 DEF RunInv, TaskInv, Absent, Own, Undecided, Terminalizing
<1> QED
  BY <1>1, <1>3, <1>4, <1>5, <1>6, <1>7, SectionInv DEF RunInv

\* What is known of the run of a submission when it calls a store.
LEMMA SubmitCallFacts ==
  ASSUME TypeInv, Inv, cs.at \notin PrunePoints, cs.at # "free"
  PROVE  /\ cs.run \in Runs /\ cs.holder = "submit" /\ submission[cs.run] = "pending"
         /\ record[cs.run].status \in {"absent", "queued"} /\ ~record[cs.run].expired
         /\ ~Own(cs.run) => log[cs.run].streams = 0
         /\ Own(cs.run) => ~Absent(cs.run)
         /\ log[cs.run].owner \in {"none", "own", "foreign"} /\ cs \in Sections
<1>1. cs.run \in Runs /\ cs.holder = "submit" /\ submission[cs.run] = "pending" /\ cs \in Sections
  BY TypeParts DEF TypeInv, Held
<1>2. record[cs.run].status \in Statuses /\ log[cs.run].owner \in {"none", "own", "foreign"}
  BY <1>1, TypeParts DEF RunRecords, Logs
<1>3. RunInv(cs.run)
  BY <1>1 DEF Inv
<1> QED
  BY <1>1, <1>2, <1>3 DEF RunInv, RecordInv, LogInv, Statuses

LEMMA ProbeKeeps == ASSUME TypeInv, Inv, NEW x \in Reply, Probe(x) PROVE Inv'
<1> DEFINE q == cs.run
<1>1. cs.at = "probe" /\ cs.at \notin PrunePoints /\ cs.at # "free"
  BY DEF Probe, PrunePoints
<1>2. /\ q \in Runs /\ cs.holder = "submit" /\ submission[q] = "pending"
      /\ record[q].status \in {"absent", "queued"} /\ ~record[q].expired
      /\ (~Own(q) => log[q].streams = 0) /\ (Own(q) => ~Absent(q))
      /\ log[q].owner \in {"none", "own", "foreign"} /\ cs \in Sections
  BY <1>1, SubmitCallFacts
<1>3. /\ token' = token /\ task' = task /\ submission' = submission /\ (failed => failed')
      /\ runFailures \subseteq runFailures' /\ (accepting' => accepting) /\ shutdown' = shutdown
  BY DEF Probe, EnterFailStop, failStop, Stays
<1>4. /\ x.raised \/ x.applied
      /\ cs'.holder = cs.holder /\ cs'.run = cs.run /\ cs'.todo = cs.todo /\ cs'.at \notin PrunePoints
  BY <1>1, <1>2 DEF Probe, Stays, Sections, Reply, PrunePoints
<1>5. \A r \in Runs \ {q} : record'[r] = record[r] /\ log'[r] = log[r]
  BY <1>2, TypeParts DEF Probe, stores, LogOpened, LogDeleted, Deleted, Created
<1>6. SubmissionAt
  BY DEF Inv
<1>7. /\ record'[q].status \in {"absent", "queued"} /\ ~record'[q].expired
      /\ log'[q].owner # "own" => log'[q].streams = 0
      /\ log'[q].owner = "own" => record'[q].status # "absent"
  BY <1>1, <1>2, <1>6, TypeParts DEF Probe, stores, LogOpened, LogDeleted, LogDeletable,
     Deleted, Created, NoLog, NoRecord, Own, Absent, Queued, SubmissionAt, RunRecords, Logs
<1>8. SubmissionAt'
  BY <1>1, <1>2, <1>4, <1>6, TypeParts DEF Probe, stores, LogOpened, LogDeleted, LogDeletable,
     Deleted, Created, NoLog, NoRecord, Own, Absent, Queued, SubmissionAt, RunRecords, Logs,
     Sections, PrunePoints
<1> HIDE DEF q
<1> QED
  BY <1>1, <1>2, <1>3, <1>4, <1>5, <1>7, <1>8, SubmitCallInv DEF q

LEMMA OpenLogKeeps == ASSUME TypeInv, Inv, NEW x \in Reply, OpenLog(x) PROVE Inv'
<1> DEFINE q == cs.run
<1>1. cs.at = "open_log" /\ cs.at \notin PrunePoints /\ cs.at # "free"
  BY DEF OpenLog, PrunePoints
<1>2. /\ q \in Runs /\ cs.holder = "submit" /\ submission[q] = "pending"
      /\ record[q].status \in {"absent", "queued"} /\ ~record[q].expired
      /\ (~Own(q) => log[q].streams = 0) /\ (Own(q) => ~Absent(q))
      /\ log[q].owner \in {"none", "own", "foreign"} /\ cs \in Sections
  BY <1>1, SubmitCallFacts
<1>3. /\ token' = token /\ task' = task /\ submission' = submission /\ (failed => failed')
      /\ runFailures \subseteq runFailures' /\ (accepting' => accepting) /\ shutdown' = shutdown
  BY DEF OpenLog, EnterFailStop, failStop, Stays
<1>4. /\ x.raised \/ x.applied
      /\ cs'.holder = cs.holder /\ cs'.run = cs.run /\ cs'.todo = cs.todo /\ cs'.at \notin PrunePoints
  BY <1>1, <1>2 DEF OpenLog, Stays, Sections, Reply, PrunePoints
<1>5. \A r \in Runs \ {q} : record'[r] = record[r] /\ log'[r] = log[r]
  BY <1>2, TypeParts DEF OpenLog, stores, LogOpened, LogDeleted, Deleted, Created
<1>6. SubmissionAt
  BY DEF Inv
<1>7. /\ record'[q].status \in {"absent", "queued"} /\ ~record'[q].expired
      /\ log'[q].owner # "own" => log'[q].streams = 0
      /\ log'[q].owner = "own" => record'[q].status # "absent"
  BY <1>1, <1>2, <1>6, TypeParts DEF OpenLog, stores, LogOpened, LogDeleted, LogDeletable,
     Deleted, Created, NoLog, NoRecord, Own, Absent, Queued, SubmissionAt, RunRecords, Logs
<1>8. SubmissionAt'
  BY <1>1, <1>2, <1>4, <1>6, TypeParts DEF OpenLog, stores, LogOpened, LogDeleted,
     LogDeletable, Deleted, Created, NoLog, NoRecord, Own, Absent, Queued, SubmissionAt,
     RunRecords, Logs, Sections, PrunePoints
<1> HIDE DEF q
<1> QED
  BY <1>1, <1>2, <1>3, <1>4, <1>5, <1>7, <1>8, SubmitCallInv DEF q

LEMMA EmitCreatedKeeps == ASSUME TypeInv, Inv, NEW x \in Reply, EmitCreated(x) PROVE Inv'
<1> DEFINE q == cs.run
<1>1. cs.at = "emit_created" /\ cs.at \notin PrunePoints /\ cs.at # "free"
  BY DEF EmitCreated, PrunePoints
<1>2. /\ q \in Runs /\ cs.holder = "submit" /\ submission[q] = "pending"
      /\ record[q].status \in {"absent", "queued"} /\ ~record[q].expired
      /\ (~Own(q) => log[q].streams = 0) /\ (Own(q) => ~Absent(q))
      /\ log[q].owner \in {"none", "own", "foreign"} /\ cs \in Sections
  BY <1>1, SubmitCallFacts
<1>3. /\ token' = token /\ task' = task /\ submission' = submission /\ (failed => failed')
      /\ runFailures \subseteq runFailures' /\ (accepting' => accepting) /\ shutdown' = shutdown
  BY DEF EmitCreated, EnterFailStop, failStop, Stays
<1>4. /\ x.raised \/ x.applied
      /\ cs'.holder = cs.holder /\ cs'.run = cs.run /\ cs'.todo = cs.todo /\ cs'.at \notin PrunePoints
  BY <1>1, <1>2 DEF EmitCreated, Stays, Sections, Reply, PrunePoints
<1>5. \A r \in Runs \ {q} : record'[r] = record[r] /\ log'[r] = log[r]
  BY <1>2, TypeParts DEF EmitCreated, stores, LogOpened, LogDeleted, Deleted, Created
<1>6. SubmissionAt
  BY DEF Inv
<1>7. /\ record'[q].status \in {"absent", "queued"} /\ ~record'[q].expired
      /\ log'[q].owner # "own" => log'[q].streams = 0
      /\ log'[q].owner = "own" => record'[q].status # "absent"
  BY <1>1, <1>2, <1>6, TypeParts DEF EmitCreated, stores, LogOpened, LogDeleted, LogDeletable,
     Deleted, Created, NoLog, NoRecord, Own, Absent, Queued, SubmissionAt, RunRecords, Logs
<1>8. SubmissionAt'
  BY <1>1, <1>2, <1>4, <1>6, TypeParts DEF EmitCreated, stores, LogOpened, LogDeleted,
     LogDeletable, Deleted, Created, NoLog, NoRecord, Own, Absent, Queued, SubmissionAt,
     RunRecords, Logs, Sections, PrunePoints
<1> HIDE DEF q
<1> QED
  BY <1>1, <1>2, <1>3, <1>4, <1>5, <1>7, <1>8, SubmitCallInv DEF q

LEMMA DeleteLogKeeps == ASSUME TypeInv, Inv, NEW x \in Reply, DeleteLog(x) PROVE Inv'
<1> DEFINE q == cs.run
<1>1. cs.at = "del_log" /\ cs.at \notin PrunePoints /\ cs.at # "free"
  BY DEF DeleteLog, PrunePoints
<1>2. /\ q \in Runs /\ cs.holder = "submit" /\ submission[q] = "pending"
      /\ record[q].status \in {"absent", "queued"} /\ ~record[q].expired
      /\ (~Own(q) => log[q].streams = 0) /\ (Own(q) => ~Absent(q))
      /\ log[q].owner \in {"none", "own", "foreign"} /\ cs \in Sections
  BY <1>1, SubmitCallFacts
<1>3. /\ token' = token /\ task' = task /\ submission' = submission /\ (failed => failed')
      /\ runFailures \subseteq runFailures' /\ (accepting' => accepting) /\ shutdown' = shutdown
  BY DEF DeleteLog, EnterFailStop, failStop, Stays
<1>4. /\ x.raised \/ x.applied
      /\ cs'.holder = cs.holder /\ cs'.run = cs.run /\ cs'.todo = cs.todo /\ cs'.at \notin PrunePoints
  BY <1>1, <1>2 DEF DeleteLog, Stays, Sections, Reply, PrunePoints
<1>5. \A r \in Runs \ {q} : record'[r] = record[r] /\ log'[r] = log[r]
  BY <1>2, TypeParts DEF DeleteLog, stores, LogOpened, LogDeleted, Deleted, Created
<1>6. SubmissionAt
  BY DEF Inv
<1>7. /\ record'[q].status \in {"absent", "queued"} /\ ~record'[q].expired
      /\ log'[q].owner # "own" => log'[q].streams = 0
      /\ log'[q].owner = "own" => record'[q].status # "absent"
  BY <1>1, <1>2, <1>6, TypeParts DEF DeleteLog, stores, LogOpened, LogDeleted, LogDeletable,
     Deleted, Created, NoLog, NoRecord, Own, Absent, Queued, SubmissionAt, RunRecords, Logs
<1>8. SubmissionAt'
  BY <1>1, <1>2, <1>4, <1>6, TypeParts DEF DeleteLog, stores, LogOpened, LogDeleted,
     LogDeletable, Deleted, Created, NoLog, NoRecord, Own, Absent, Queued, SubmissionAt,
     RunRecords, Logs, Sections, PrunePoints
<1> HIDE DEF q
<1> QED
  BY <1>1, <1>2, <1>3, <1>4, <1>5, <1>7, <1>8, SubmitCallInv DEF q

LEMMA DeleteRecordKeeps == ASSUME TypeInv, Inv, NEW x \in Reply, DeleteRecord(x) PROVE Inv'
<1> DEFINE q == cs.run
<1>1. cs.at = "del_record" /\ cs.at \notin PrunePoints /\ cs.at # "free"
  BY DEF DeleteRecord, PrunePoints
<1>2. /\ q \in Runs /\ cs.holder = "submit" /\ submission[q] = "pending"
      /\ record[q].status \in {"absent", "queued"} /\ ~record[q].expired
      /\ (~Own(q) => log[q].streams = 0) /\ (Own(q) => ~Absent(q))
      /\ log[q].owner \in {"none", "own", "foreign"} /\ cs \in Sections
  BY <1>1, SubmitCallFacts
<1>3. /\ token' = token /\ task' = task /\ submission' = submission /\ (failed => failed')
      /\ runFailures \subseteq runFailures' /\ (accepting' => accepting) /\ shutdown' = shutdown
  BY DEF DeleteRecord, EnterFailStop, failStop, Stays
<1>4. /\ x.raised \/ x.applied
      /\ cs'.holder = cs.holder /\ cs'.run = cs.run /\ cs'.todo = cs.todo /\ cs'.at \notin PrunePoints
  BY <1>1, <1>2 DEF DeleteRecord, Stays, Sections, Reply, PrunePoints
<1>5. \A r \in Runs \ {q} : record'[r] = record[r] /\ log'[r] = log[r]
  BY <1>2, TypeParts DEF DeleteRecord, stores, LogOpened, LogDeleted, Deleted, Created
<1>6. SubmissionAt
  BY DEF Inv
<1>7. /\ record'[q].status \in {"absent", "queued"} /\ ~record'[q].expired
      /\ log'[q].owner # "own" => log'[q].streams = 0
      /\ log'[q].owner = "own" => record'[q].status # "absent"
  BY <1>1, <1>2, <1>6, TypeParts DEF DeleteRecord, stores, LogOpened, LogDeleted,
     LogDeletable, Deleted, Created, NoLog, NoRecord, Own, Absent, Queued, SubmissionAt,
     RunRecords, Logs
<1>8. SubmissionAt'
  BY <1>1, <1>2, <1>4, <1>6, TypeParts DEF DeleteRecord, stores, LogOpened, LogDeleted,
     LogDeletable, Deleted, Created, NoLog, NoRecord, Own, Absent, Queued, SubmissionAt,
     RunRecords, Logs, Sections, PrunePoints
<1> HIDE DEF q
<1> QED
  BY <1>1, <1>2, <1>3, <1>4, <1>5, <1>7, <1>8, SubmitCallInv DEF q

LEMMA RestoreLogKeeps == ASSUME TypeInv, Inv, NEW x \in Reply, RestoreLog(x) PROVE Inv'
<1> DEFINE q == cs.run
<1>1. cs.at = "restore" /\ cs.at \notin PrunePoints /\ cs.at # "free"
  BY DEF RestoreLog, PrunePoints
<1>2. /\ q \in Runs /\ cs.holder = "submit" /\ submission[q] = "pending"
      /\ record[q].status \in {"absent", "queued"} /\ ~record[q].expired
      /\ (~Own(q) => log[q].streams = 0) /\ (Own(q) => ~Absent(q))
      /\ log[q].owner \in {"none", "own", "foreign"} /\ cs \in Sections
  BY <1>1, SubmitCallFacts
<1>3. /\ token' = token /\ task' = task /\ submission' = submission /\ (failed => failed')
      /\ runFailures \subseteq runFailures' /\ (accepting' => accepting) /\ shutdown' = shutdown
  BY DEF RestoreLog, EnterFailStop, failStop, Stays
<1>4. /\ x.raised \/ x.applied
      /\ cs'.holder = cs.holder /\ cs'.run = cs.run /\ cs'.todo = cs.todo /\ cs'.at \notin PrunePoints
  BY <1>1, <1>2 DEF RestoreLog, Stays, Sections, Reply, PrunePoints
<1>5. \A r \in Runs \ {q} : record'[r] = record[r] /\ log'[r] = log[r]
  BY <1>2, TypeParts DEF RestoreLog, stores, LogOpened, LogDeleted, Deleted, Created
<1>6. SubmissionAt
  BY DEF Inv
<1>7. /\ record'[q].status \in {"absent", "queued"} /\ ~record'[q].expired
      /\ log'[q].owner # "own" => log'[q].streams = 0
      /\ log'[q].owner = "own" => record'[q].status # "absent"
  BY <1>1, <1>2, <1>6, TypeParts DEF RestoreLog, stores, LogOpened, LogDeleted, LogDeletable,
     Deleted, Created, NoLog, NoRecord, Own, Absent, Queued, SubmissionAt, RunRecords, Logs
<1>8. SubmissionAt'
  BY <1>1, <1>2, <1>4, <1>6, TypeParts DEF RestoreLog, stores, LogOpened, LogDeleted,
     LogDeletable, Deleted, Created, NoLog, NoRecord, Own, Absent, Queued, SubmissionAt,
     RunRecords, Logs, Sections, PrunePoints
<1> HIDE DEF q
<1> QED
  BY <1>1, <1>2, <1>3, <1>4, <1>5, <1>7, <1>8, SubmitCallInv DEF q

LEMMA RestoreCreatedKeeps == ASSUME TypeInv, Inv, NEW x \in Reply, RestoreCreated(x) PROVE Inv'
<1> DEFINE q == cs.run
<1>1. cs.at = "restore" /\ cs.at \notin PrunePoints /\ cs.at # "free"
  BY DEF RestoreCreated, PrunePoints
<1>2. /\ q \in Runs /\ cs.holder = "submit" /\ submission[q] = "pending"
      /\ record[q].status \in {"absent", "queued"} /\ ~record[q].expired
      /\ (~Own(q) => log[q].streams = 0) /\ (Own(q) => ~Absent(q))
      /\ log[q].owner \in {"none", "own", "foreign"} /\ cs \in Sections
  BY <1>1, SubmitCallFacts
<1>3. /\ token' = token /\ task' = task /\ submission' = submission /\ (failed => failed')
      /\ runFailures \subseteq runFailures' /\ (accepting' => accepting) /\ shutdown' = shutdown
  BY DEF RestoreCreated, EnterFailStop, failStop, Stays
<1>4. /\ x.raised \/ x.applied
      /\ cs'.holder = cs.holder /\ cs'.run = cs.run /\ cs'.todo = cs.todo /\ cs'.at \notin PrunePoints
  BY <1>1, <1>2 DEF RestoreCreated, Stays, Sections, Reply, PrunePoints
<1>5. \A r \in Runs \ {q} : record'[r] = record[r] /\ log'[r] = log[r]
  BY <1>2, TypeParts DEF RestoreCreated, stores, LogOpened, LogDeleted, Deleted, Created
<1>6. SubmissionAt
  BY DEF Inv
<1>7. /\ record'[q].status \in {"absent", "queued"} /\ ~record'[q].expired
      /\ log'[q].owner # "own" => log'[q].streams = 0
      /\ log'[q].owner = "own" => record'[q].status # "absent"
  BY <1>1, <1>2, <1>6, TypeParts DEF RestoreCreated, stores, LogOpened, LogDeleted,
     LogDeletable, Deleted, Created, NoLog, NoRecord, Own, Absent, Queued, SubmissionAt,
     RunRecords, Logs
<1>8. SubmissionAt'
  BY <1>1, <1>2, <1>4, <1>6, TypeParts DEF RestoreCreated, stores, LogOpened, LogDeleted,
     LogDeletable, Deleted, Created, NoLog, NoRecord, Own, Absent, Queued, SubmissionAt,
     RunRecords, Logs, Sections, PrunePoints
<1> HIDE DEF q
<1> QED
  BY <1>1, <1>2, <1>3, <1>4, <1>5, <1>7, <1>8, SubmitCallInv DEF q

LEMMA CreateKeeps == ASSUME TypeInv, Inv, NEW x \in Reply, Create(x) PROVE Inv'
<1> DEFINE q == cs.run
<1>1. /\ cs.at = "create" /\ cs.at \notin PrunePoints /\ cs.at # "free" /\ cs.pending \in BOOLEAN
      /\ UNCHANGED <<log, token, accepting, failed, runFailures, shutdown>>
  BY CreateCases DEF PrunePoints
<1>2. /\ q \in Runs /\ cs.holder = "submit" /\ submission[q] = "pending"
      /\ record[q].status \in {"absent", "queued"} /\ ~record[q].expired
      /\ (~Own(q) => log[q].streams = 0) /\ (Own(q) => ~Absent(q)) /\ cs \in Sections
  BY <1>1, SubmitCallFacts
<1>3. Absent(q) /\ ~Own(q) /\ SubmissionAt
  BY <1>1, <1>2 DEF Inv, SubmissionAt
<1>4. CASE record' = record /\ Leave("capacity", cs.pending)
  <2>1. "capacity" \in Refused /\ cs.at \notin PruningOne
    BY <1>1 DEF Refused, PruningOne
  <2> QED
    BY <1>1, <1>3, <1>4, <2>1, LeaveInv DEF Looks
<1>5. ASSUME NEW a \in {"probe", "create_read"}, record' = Created(q) \/ (a = "create_read" /\ record' = record),
             Stays([cs EXCEPT !.at = a, !.pending = cs.pending \/ x.cancelled])
      PROVE  Inv'
  <2>1. /\ task' = task /\ submission' = submission
        /\ cs'.holder = cs.holder /\ cs'.run = cs.run /\ cs'.todo = cs.todo /\ cs'.at = a
        /\ cs'.at \notin PrunePoints /\ cs'.existed = cs.existed
    BY <1>2, <1>5 DEF Stays, Sections, PrunePoints
  <2>2. \A r \in Runs \ {q} : record'[r] = record[r] /\ log'[r] = log[r]
    BY <1>1, <1>2, <1>5, TypeParts DEF Created
  <2>3. /\ record'[q].status \in {"absent", "queued"} /\ ~record'[q].expired
        /\ a = "probe" => record'[q].status = "queued"
    BY <1>2, <1>5, TypeParts DEF Created, RunRecords
  <2>4. SubmissionAt'
    BY <1>1, <1>3, <2>1, <2>3 DEF SubmissionAt, Absent, Queued, Own, PrunePoints
  <2>5. log'[q].owner = log[q].owner /\ log'[q].streams = log[q].streams
    BY <1>1
  <2> HIDE DEF q
  <2> QED
    BY <1>1, <1>2, <1>3, <2>1, <2>2, <2>3, <2>4, <2>5, SubmitCallInv DEF q, Own
<1> QED
  BY CreateCases, <1>4, <1>5

LEMMA CommitKeeps == ASSUME TypeInv, Inv, NEW spawned \in BOOLEAN, Commit(spawned) PROVE Inv'
<1>1. /\ cs.at = "commit" /\ cs.run \in Runs /\ cs.holder = "submit" /\ cs \in Sections
      /\ UNCHANGED <<record, log, shutdown, accepting, failed, runFailures>>
  BY CommitCases, TypeParts DEF TypeInv, Held, PrunePoints
<1>2. ASSUME token' = token, NEW w \in Failures, Stays([cs EXCEPT !.at = "del_log", !.result = w])
      PROVE  Inv'
  <2> DEFINE c == [cs EXCEPT !.at = "del_log", !.result = w]
  <2>1. /\ c.holder = cs.holder /\ c.run = cs.run /\ c.at = "del_log" /\ c.existed = cs.existed
        /\ c.todo = cs.todo /\ cs' = c /\ Looks /\ submission' = submission
    BY <1>1, <1>2 DEF Sections, Looks, Stays
  <2>2. SubmissionAt'
    BY <1>1, <2>1 DEF Inv, SubmissionAt, Absent, Queued, Own, PrunePoints
  <2>3. PruneAt' /\ PruneKept
    BY <1>1, <2>1 DEF Inv, PruneAt, PruneKept, PruningOne, PrunePoints
  <2> HIDE DEF c
  <2> QED
    BY <1>1, <1>2, <2>1, <2>2, <2>3, StaysInv DEF c
<1>3. ASSUME ~failed, cs' = Free, token' = [token EXCEPT ![cs.run] = TRUE],
             task' = [task EXCEPT ![cs.run].at = "queued"],
             submission' = [submission EXCEPT ![cs.run] = "accepted"]
      PROVE  Inv'
  <2>1. SubmissionAt' /\ PruneAt' /\ StopInv'
    BY <1>1, <1>3 DEF SubmissionAt, PruneAt, StopInv, Inv, PruningOne, PrunePoints, Free
  <2>2. ASSUME NEW r \in Runs, r # cs.run PROVE RunInv(r)'
    <3>1. /\ record'[r] = record[r] /\ log'[r] = log[r] /\ token'[r] = token[r] /\ task'[r] = task[r]
          /\ submission'[r] = submission[r] /\ submission[r] # "pending" /\ RunInv(r)
      BY <1>1, <1>3, <2>2, TypeParts DEF Inv, RunInv, RecordInv
    <3> QED
      BY <1>1, <3>1, KeptRun DEF PruningOne, PrunePoints
  <2>3. ASSUME NEW r \in Runs, r = cs.run PROVE RunInv(r)'
    <3>1. /\ record'[r] = record[r] /\ log'[r] = log[r] /\ token'[r] = TRUE /\ task'[r].at = "queued"
          /\ submission'[r] = "accepted" /\ RunInv(r)
      BY <1>1, <1>3, <2>3, TypeParts DEF Inv, TaskRecords
    <3>2. record[r].status = "queued" /\ Own(r) /\ log[r].created
      BY <1>1, <2>3 DEF Inv, SubmissionAt, Queued
    <3>3. RecordInv(r)'
      BY <3>1, <3>2 DEF RunInv, RecordInv, Absent, Refused
    <3>4. LogInv(r)'
      BY <3>1, <3>2 DEF RunInv, LogInv, Absent, Own, Refused
    <3>5. TaskInv(r)'
      BY <3>1, <3>2 DEF RunInv, TaskInv, Absent, Own, Terminalizing, Undecided
    <3> QED
      BY <3>3, <3>4, <3>5 DEF RunInv
  <2> QED
    BY <2>1, <2>2, <2>3 DEF Inv
<1> QED
  BY CommitCases, <1>2, <1>3

LEMMA CancelSubmitKeeps == ASSUME TypeInv, Inv, CancelSubmit PROVE Inv'
<1> DEFINE c == [cs EXCEPT !.pending = TRUE]
<1>1. Looks /\ Stays(c) /\ cs.holder = "submit" /\ cs.run \in Runs /\ cs \in Sections
  BY TypeParts DEF CancelSubmit, Looks, Stays, stores, failStop, TypeInv, Held
<1>2. /\ c.holder = cs.holder /\ c.run = cs.run /\ c.at = cs.at /\ c.existed = cs.existed
      /\ c.todo = cs.todo /\ c.cur = cs.cur /\ cs' = c /\ submission' = submission
      /\ record' = record /\ log' = log
  BY <1>1 DEF Sections, Looks, Stays
<1>3. SubmissionAt' /\ PruneAt' /\ PruneKept
  BY <1>1, <1>2 DEF Inv, SubmissionAt, PruneAt, PruneKept, Absent, Queued, Own
<1> HIDE DEF c
<1> QED
  BY <1>1, <1>2, <1>3, StaysInv

\* The run being pruned, when a store is called for it.
LEMMA PruneCallFacts ==
  ASSUME TypeInv, Inv, cs.at \in PruningOne
  PROVE  /\ cs.run \in Runs /\ cs.cur \in Runs /\ cs.cur \notin cs.todo /\ cs.todo \subseteq Runs
         /\ submission[cs.cur] = "accepted" /\ RunInv(cs.cur)
         /\ Absent(cs.cur) \/ (record[cs.cur].expired /\ record[cs.cur].status = "terminal")
         /\ cs.holder = "submit" => cs.run # cs.cur /\ Absent(cs.run) /\ ~Own(cs.run)
         /\ ~cs.existed \/ cs.holder # "submit" \/ log[cs.run].owner = "foreign"
         /\ cs \in Sections
<1>1. /\ cs.run \in Runs /\ cs.cur \in Runs /\ cs.cur \notin cs.todo /\ cs \in Sections /\ cs.todo \subseteq Runs
      /\ submission[cs.cur] = "accepted" /\ (cs.holder = "submit" => submission[cs.run] = "pending")
  BY TypeParts DEF TypeInv, Held, PruningOne, PrunePoints, Sections
<1>2. RunInv(cs.cur)
  BY <1>1 DEF Inv
<1>3. Absent(cs.cur) \/ (record[cs.cur].expired /\ record[cs.cur].status = "terminal")
  BY <1>2 DEF Inv, PruneAt, RunInv, RecordInv
<1>4. cs.holder = "submit" => Absent(cs.run) /\ ~Own(cs.run) /\ (cs.existed => log[cs.run].owner = "foreign")
  BY DEF Inv, SubmissionAt, PruningOne
<1> QED
  BY <1>1, <1>2, <1>3, <1>4

LEMMA PruneLogKeeps == ASSUME TypeInv, Inv, NEW x \in Reply, PruneLog(x) PROVE Inv'
<1>1. cs.at = "prune_log" /\ cs.at \in PruningOne
  BY DEF PruneLog, PruningOne, PrunePoints
<1> PICK q \in Runs : q = cs.cur
  BY <1>1, PruneCallFacts
<1>2. /\ cs.run \in Runs /\ submission[q] = "accepted" /\ RunInv(q) /\ cs \in Sections
      /\ Absent(q) \/ (record[q].expired /\ record[q].status = "terminal")
      /\ cs.holder = "submit" => cs.run # q
  BY <1>1, PruneCallFacts
<1>3. /\ token' = token /\ task' = task /\ submission' = submission /\ failed' = failed
      /\ runFailures' = runFailures /\ accepting' = accepting /\ shutdown' = shutdown /\ record' = record
  BY DEF PruneLog, failStop
<1>4. /\ cs'.holder = cs.holder /\ cs'.run = cs.run /\ cs'.todo = cs.todo /\ cs'.cur = q /\ cs'.existed = cs.existed
      /\ cs'.at \in {"prune_record", "prune_log_read"}
      /\ cs'.at = "prune_record" => ~Own(q)
  BY <1>2 DEF PruneLog, Sections, Own
<1>5. log' = log \/ (LogDeletable(q, FALSE) /\ log' = [log EXCEPT ![q] = NoLog])
  BY DEF PruneLog, LogDeleted
<1>6. \A r \in Runs \ {q} : record'[r] = record[r] /\ log'[r] = log[r] /\ token'[r] = token[r]
  BY <1>3, <1>5, TypeParts
<1>7. log'[q] = log[q] \/ log'[q] = NoLog
  BY <1>5, TypeParts
<1>8. SubmissionAt'
  BY <1>1, <1>2, <1>3, <1>4, <1>6 DEF Inv, SubmissionAt, PrunePoints, Absent, Queued, Own
<1>9. PruneAt'
  BY <1>1, <1>2, <1>3, <1>4, <1>7 DEF Inv, PruneAt, PruningOne, PrunePoints, Absent, Own, NoLog
<1>10. PruneKept
  BY <1>1 DEF PruneKept
<1>11. RecordInv(q)'
  BY <1>2, <1>3 DEF RunInv, RecordInv, Absent
<1>12. LogInv(q)'
  BY <1>2, <1>3, <1>4, <1>7 DEF RunInv, LogInv, Absent, Own, NoLog, PruningOne, PrunePoints,
     Refused
<1>13. TaskInv(q)'
  BY <1>2, <1>3, <1>7 DEF RunInv, TaskInv, Absent, Own, NoLog
<1> QED
  BY <1>2, <1>3, <1>4, <1>6, <1>8, <1>9, <1>10, <1>11, <1>12, <1>13, SectionInv DEF RunInv

LEMMA PruneRecordKeeps == ASSUME TypeInv, Inv, NEW x \in Reply, PruneRecord(x) PROVE Inv'
<1>1. cs.at = "prune_record" /\ cs.at \in PruningOne
  BY DEF PruneRecord, PruningOne, PrunePoints
<1> PICK q \in Runs : q = cs.cur
  BY <1>1, PruneCallFacts
<1>2. /\ cs.run \in Runs /\ submission[q] = "accepted" /\ RunInv(q) /\ cs \in Sections
      /\ Absent(q) \/ (record[q].expired /\ record[q].status = "terminal")
      /\ cs.holder = "submit" => cs.run # q
      /\ q \notin cs.todo /\ cs.todo \subseteq Runs /\ ~Own(q)
  BY <1>1, PruneCallFacts DEF Inv, PruneAt
<1>3. /\ token' = token /\ task' = task /\ submission' = submission /\ failed' = failed
      /\ runFailures' = runFailures /\ accepting' = accepting /\ shutdown' = shutdown /\ log' = log
  BY DEF PruneRecord, failStop
<1>4. /\ cs'.holder = cs.holder /\ cs'.run = cs.run /\ cs'.todo = cs.todo /\ cs'.cur = q /\ cs'.existed = cs.existed
      /\ cs'.at = "prune_record_read"
  BY <1>2 DEF PruneRecord, Sections
<1>5. record' = record \/ record' = [record EXCEPT ![q] = NoRecord]
  BY DEF PruneRecord, Deleted
<1>6. \A r \in Runs \ {q} : record'[r] = record[r] /\ log'[r] = log[r] /\ token'[r] = token[r]
  BY <1>3, <1>5, TypeParts
<1>7. record'[q] = record[q] \/ record'[q] = NoRecord
  BY <1>5, TypeParts
<1>8. SubmissionAt'
  BY <1>1, <1>2, <1>3, <1>4, <1>6 DEF Inv, SubmissionAt, PrunePoints, Absent, Queued, Own
<1>9. PruneAt'
  BY <1>1, <1>2, <1>3, <1>4, <1>6, <1>7 DEF Inv, PruneAt, PruningOne, PrunePoints, Absent,
     Own, NoRecord
<1>10. PruneKept
  BY <1>1, <1>4 DEF PruneKept, PruningOne, PrunePoints
<1>11. RecordInv(q)'
  BY <1>2, <1>3, <1>7 DEF RunInv, RecordInv, Absent, NoRecord
<1>12. LogInv(q)'
  BY <1>2, <1>3, <1>4, <1>7 DEF RunInv, LogInv, Absent, Own, NoRecord, PruningOne,
     PrunePoints, Refused
<1>13. TaskInv(q)'
  BY <1>2, <1>3, <1>7 DEF RunInv, TaskInv, Absent, Own, NoRecord
<1> QED
  BY <1>2, <1>3, <1>4, <1>6, <1>8, <1>9, <1>10, <1>11, <1>12, <1>13, SectionInv DEF RunInv

LEMMA SubmitKeeps == ASSUME TypeInv, Inv, NEW r \in Runs, Submit(r) PROVE Inv'
<1>1. /\ cs.at = "free" /\ cs.holder = "none" /\ submission[r] = "none"
      /\ UNCHANGED <<record, log, token, task, shutdown, accepting, failed, runFailures, faults>>
  BY DEF Submit, stores, failStop, TypeInv, Held
<1>2. ~Own(r) /\ Absent(r) /\ RunInv(r) /\ task[r].at = "none"
  BY <1>1 DEF Inv, RunInv, RecordInv, LogInv, TaskInv
<1>3. \/ /\ cs' = cs
         /\ submission' = [submission EXCEPT ![r] = IF failed THEN "inconsistent" ELSE "shutdown"]
      \/ /\ accepting /\ submission' = [submission EXCEPT ![r] = "pending"]
         /\ cs' = [Free EXCEPT !.at = "list", !.holder = "submit", !.run = r]
  BY DEF Submit
<1>4. \/ cs' = cs /\ submission'[r] \in Refused
      \/ /\ accepting /\ submission'[r] = "pending" /\ cs'.at = "list" /\ cs'.holder = "submit" /\ cs'.run = r
         /\ cs'.todo = {} /\ ~cs'.existed
  BY <1>3, TypeParts DEF Free, Refused
<1>5. \A q \in Runs \ {r} : submission'[q] = submission[q]
  BY <1>3, TypeParts
<1>6. SubmissionAt' /\ PruneAt' /\ StopInv'
  BY <1>1, <1>2, <1>4 DEF Inv, SubmissionAt, PruneAt, StopInv, Absent, Queued, Own,
     PrunePoints, PruningOne
<1>7. ASSUME NEW q \in Runs, q # r PROVE RunInv(q)'
  <2>1. /\ record'[q] = record[q] /\ log'[q] = log[q] /\ token'[q] = token[q] /\ task'[q] = task[q]
        /\ submission'[q] = submission[q] /\ submission[q] # "pending" /\ RunInv(q)
    BY <1>1, <1>5, <1>7 DEF Inv, RunInv, RecordInv
  <2> QED
    BY <1>1, <2>1, KeptRun DEF PruningOne, PrunePoints
<1>8. RunInv(r)'
  <2>1. RecordInv(r)'
    BY <1>1, <1>2, <1>4 DEF RunInv, RecordInv, Absent, Refused
  <2>2. LogInv(r)'
    BY <1>1, <1>2, <1>4 DEF RunInv, LogInv, Absent, Own, Refused
  <2>3. TaskInv(r)'
    BY <1>1, <1>2, <1>4 DEF RunInv, TaskInv, Absent, Own, Refused
  <2> QED
    BY <2>1, <2>2, <2>3 DEF RunInv
<1> QED
  BY <1>6, <1>7, <1>8 DEF Inv

(***************************************************************************)
(* The invariant: tasks, shutdown, environment                             *)
(***************************************************************************)
\* A step outside of the section that changes one run: it keeps what the section
\* relies on.
LEMMA OutsideInv ==
  ASSUME TypeInv, Inv, NEW q \in Runs,
         \A r \in Runs \ {q} : record'[r] = record[r] /\ log'[r] = log[r] /\ task'[r] = task[r],
         token' = token, submission' = submission, cs' = cs, shutdown' = shutdown,
         failed => failed', runFailures \subseteq runFailures', accepting' => accepting,
         \/ submission[q] = "accepted"
         \/ /\ record'[q] = record[q] /\ log'[q].created = log[q].created
            /\ \/ log'[q].owner = log[q].owner
               \/ log[q].owner # "own" /\ log'[q].owner = "foreign",
         Absent(q) <=> record'[q].status = "absent",
         record[q].expired => record'[q].expired,
         Own(q) <=> log'[q].owner = "own",
         RunInv(q)'
  PROVE  Inv'
<1>1. SubmissionAt'
  <2>1. CASE cs.holder = "submit"
    <3>1. cs.run \in Runs /\ submission[cs.run] = "pending" /\ SubmissionAt
      BY <2>1 DEF Inv, TypeInv, Held
    <3>2. /\ record'[cs.run] = record[cs.run]
          /\ log'[cs.run].owner = log[cs.run].owner
               \/ (log[cs.run].owner # "own" /\ log'[cs.run].owner = "foreign")
          /\ cs.at = "commit" => log'[cs.run].created = log[cs.run].created
      <4>1. CASE q # cs.run
        BY <3>1, <4>1
      <4>2. CASE q = cs.run
        BY <3>1, <2>1, <4>2 DEF SubmissionAt, Own
      <4> QED
        BY <4>1, <4>2
    <3> QED
      BY <2>1, <3>1, <3>2 DEF SubmissionAt, Absent, Queued, Own
  <2>2. CASE cs.holder # "submit"
    BY <2>2 DEF SubmissionAt
  <2> QED
    BY <2>1, <2>2
<1>2. PruneAt'
  <2>1. cs.todo \subseteq Runs /\ PruneAt /\ (cs.at \in PruningOne => cs.cur \in Runs)
        /\ (cs.at \in {"prune_record", "prune_record_read", "prune_verify"} => cs.at \in PruningOne)
    BY TypeParts DEF Inv, TypeInv, Held, Sections, PruningOne, PrunePoints
  <2>2. \A r \in Runs :
          /\ record[r].expired => record'[r].expired
          /\ Absent(r) => record'[r].status = "absent"
          /\ ~Own(r) => log'[r].owner # "own"
    BY DEF Own, Absent
  <2> QED
    BY <2>1, <2>2 DEF PruneAt, Own, Absent
<1>3. ASSUME NEW r \in Runs, r # q PROVE RunInv(r)'
  <2>1. /\ RunInv(r) /\ (submission[r] = "pending" => cs'.holder = "submit" /\ cs'.run = r)
        /\ record'[r] = record[r] /\ log'[r] = log[r] /\ task'[r] = task[r]
    BY <1>3 DEF Inv, RunInv, RecordInv
  <2> QED
    BY <2>1, KeptRun
<1>4. StopInv'
  BY DEF Inv, StopInv
<1> QED
  BY <1>1, <1>2, <1>3, <1>4 DEF Inv

\* A task that moves without touching the stores.
LEMMA TaskInvStep ==
  ASSUME TypeInv, Inv, NEW q \in Runs, submission[q] = "accepted", record' = record, log' = log,
         \A r \in Runs \ {q} : task'[r] = task[r],
         token' = token, submission' = submission, cs' = cs, shutdown' = shutdown,
         failed => failed', runFailures \subseteq runFailures', accepting' => accepting,
         TaskInv(q)'
  PROVE  Inv'
<1>1. /\ record'[q] = record[q] /\ log'[q] = log[q] /\ RunInv(q)
  BY DEF Inv
<1>2. RecordInv(q)' /\ LogInv(q)'
  BY <1>1 DEF RunInv, RecordInv, LogInv, Absent, Own
<1>3. Absent(q) <=> record'[q].status = "absent"
  BY <1>1 DEF Absent
<1>4. Own(q) <=> log'[q].owner = "own"
  BY <1>1 DEF Own
<1>5. record[q].expired => record'[q].expired
  BY <1>1
<1>6. RunInv(q)'
  BY <1>2 DEF RunInv
<1> QED
  BY <1>3, <1>4, <1>5, <1>6, OutsideInv

\* Where a task moves to, as a function of its run.
LEMMA TaskEffects ==
  ASSUME TypeInv, NEW q \in Runs, NEW a \in TaskPoints
  PROVE  /\ (TaskTo(q, a) \/ TaskRetry(q, a) \/ task' = [task EXCEPT ![q].at = a]) =>
              /\ task'[q].at = a /\ task'[q].outcome = task[q].outcome
              /\ \A r \in Runs \ {q} : task'[r] = task[r]
         /\ \A o \in Outcomes : Decide(q, o) =>
              /\ task'[q].at = "complete" /\ task'[q].outcome = o
              /\ \A r \in Runs \ {q} : task'[r] = task[r]
BY TypeParts DEF TaskTo, TaskRetry, Decide, TaskRecords

LEMMA TaskFailsEffects ==
  ASSUME TypeInv, NEW q \in Runs, TaskFails(q)
  PROVE  /\ task'[q].at = "failed" /\ \A r \in Runs \ {q} : task'[r] = task[r]
         /\ failed' /\ ~accepting' /\ q \in runFailures' /\ runFailures \subseteq runFailures'
BY TaskEffects, PointFacts DEF TaskFails, EnterFailStop

\* What is known of the run of a task that is under way.
LEMMA TaskFacts ==
  ASSUME TypeInv, Inv, NEW r \in Runs, task[r].at # "none"
  PROVE  /\ submission[r] = "accepted" /\ TaskInv(r) /\ RunInv(r) /\ record[r].status \in Statuses
BY TypeParts DEF Inv, RunInv, TaskInv, RunRecords

\* The steps of a task that only look, or that are decided elsewhere.
LEMMA LookingTaskKeeps ==
  ASSUME TypeInv, Inv, NEW r \in Runs,
         \/ Acquire(r) \/ TimeoutExpires(r)
         \/ \E o \in Results \cup {"internal_error"} : AgentReturns(r, o)
         \/ \E b \in BOOLEAN : TaskRead(r, b)
  PROVE  Inv'
<1>1. CASE Acquire(r)
  <2>1. task[r].at = "queued" /\ TaskTo(r, "mark")
        /\ UNCHANGED <<record, log, token, submission, cs, shutdown, accepting, failed, runFailures, faults>>
    BY <1>1 DEF Acquire, stores, failStop
  <2>2. task'[r].at = "mark" /\ \A q \in Runs \ {r} : task'[q] = task[q]
    BY <2>1, TaskEffects, PointFacts
  <2>3. TaskInv(r)'
    BY <2>1, <2>2, TaskFacts DEF TaskInv, Undecided, Terminalizing, Absent, Own
  <2> QED
    BY <2>1, <2>2, <2>3, TaskFacts, TaskInvStep
<1>2. CASE TimeoutExpires(r) \/ \E o \in Results \cup {"internal_error"} : AgentReturns(r, o)
  <2>1. /\ task[r].at = "agent" /\ \E p \in Outcomes : Decide(r, p)
        /\ UNCHANGED <<record, log, token, submission, cs, shutdown, accepting, failed, runFailures, faults>>
    BY <1>2, AgentCases
  <2>2. /\ task'[r].at = "complete" /\ task'[r].outcome \in Outcomes /\ \A q \in Runs \ {r} : task'[q] = task[q]
    BY <2>1, TaskEffects, PointFacts
  <2>3. TaskInv(r)'
    BY <2>1, <2>2, TaskFacts, SentinelAssumption DEF TaskInv, Undecided, Terminalizing,
       Absent, Own, Outcomes
  <2> QED
    BY <2>1, <2>2, <2>3, TaskFacts, TaskInvStep
<1>3. ASSUME NEW b \in BOOLEAN, MarkRead(r, b) PROVE Inv'
  <2>1. /\ task[r].at = "mark_read" /\ UNCHANGED <<record, log, token, submission, cs, shutdown>>
    BY <1>3, MarkReadCases
  <2>2. submission[r] = "accepted" /\ TaskInv(r) /\ RunInv(r)
    BY <2>1, TaskFacts
  <2>3. CASE record[r].status = "running" /\ TaskTo(r, "start") /\ Ends
    <3>1. task'[r].at = "start" /\ task'[r].outcome = task[r].outcome /\ \A q \in Runs \ {r} : task'[q] = task[q]
      BY <2>3, TaskEffects, PointFacts
    <3>2. TaskInv(r)'
      BY <2>1, <2>2, <2>3, <3>1 DEF TaskInv, Undecided, Terminalizing, Absent, Own,
         AnnouncedOurs, Ends
    <3> QED
      BY <2>1, <2>2, <2>3, <3>1, <3>2, TaskInvStep DEF Ends
  <2>4. CASE TaskRetry(r, "mark") /\ Ends
    <3>1. task'[r].at = "mark" /\ task'[r].outcome = task[r].outcome /\ \A q \in Runs \ {r} : task'[q] = task[q]
      BY <2>4, TaskEffects, PointFacts
    <3>2. TaskInv(r)'
      BY <2>1, <2>2, <2>4, <3>1 DEF TaskInv, Undecided, Terminalizing, Absent, Own,
         AnnouncedOurs, Ends
    <3> QED
      BY <2>1, <2>2, <2>4, <3>1, <3>2, TaskInvStep DEF Ends
  <2>5. CASE TaskFails(r)
    <3>1. /\ task'[r].at = "failed" /\ r \in runFailures' /\ \A q \in Runs \ {r} : task'[q] = task[q]
          /\ failed' /\ ~accepting' /\ runFailures \subseteq runFailures'
      BY <2>5, TaskFailsEffects
    <3>2. TaskInv(r)'
      BY <2>1, <2>2, <3>1 DEF TaskInv, Undecided, Terminalizing, Absent, Own
    <3> QED
      BY <2>1, <2>2, <3>1, <3>2, TaskInvStep
  <2> QED
    BY <1>3, MarkReadCases, <2>3, <2>4, <2>5
<1>4. ASSUME NEW b \in BOOLEAN, CompleteRead(r, b) PROVE Inv'
  <2>1. /\ task[r].at = "complete_read" /\ UNCHANGED <<record, log, token, submission, cs, shutdown>>
    BY <1>4, CompleteReadCases
  <2>2. submission[r] = "accepted" /\ TaskInv(r) /\ RunInv(r)
    BY <2>1, TaskFacts
  <2>3. CASE record[r].status = "terminal" /\ record[r].outcome = task[r].outcome /\ TaskTo(r, "publish") /\ Ends
    <3>1. task'[r].at = "publish" /\ task'[r].outcome = task[r].outcome /\ \A q \in Runs \ {r} : task'[q] = task[q]
      BY <2>3, TaskEffects, PointFacts
    <3>2. TaskInv(r)'
      BY <2>1, <2>2, <2>3, <3>1 DEF TaskInv, Undecided, Terminalizing, Absent, Own,
         AnnouncedOurs, Ends
    <3> QED
      BY <2>1, <2>2, <2>3, <3>1, <3>2, TaskInvStep DEF Ends
  <2>4. CASE TaskRetry(r, "complete") /\ Ends
    <3>1. task'[r].at = "complete" /\ task'[r].outcome = task[r].outcome /\ \A q \in Runs \ {r} : task'[q] = task[q]
      BY <2>4, TaskEffects, PointFacts
    <3>2. TaskInv(r)'
      BY <2>1, <2>2, <2>4, <3>1 DEF TaskInv, Undecided, Terminalizing, Absent, Own,
         AnnouncedOurs, Ends
    <3> QED
      BY <2>1, <2>2, <2>4, <3>1, <3>2, TaskInvStep DEF Ends
  <2>5. CASE TaskFails(r)
    <3>1. /\ task'[r].at = "failed" /\ r \in runFailures' /\ \A q \in Runs \ {r} : task'[q] = task[q]
          /\ failed' /\ ~accepting' /\ runFailures \subseteq runFailures'
      BY <2>5, TaskFailsEffects
    <3>2. TaskInv(r)'
      BY <2>1, <2>2, <3>1 DEF TaskInv, Undecided, Terminalizing, Absent, Own
    <3> QED
      BY <2>1, <2>2, <3>1, <3>2, TaskInvStep
  <2> QED
    BY <1>4, CompleteReadCases, <2>3, <2>4, <2>5
<1>5. ASSUME NEW b \in BOOLEAN, PublishRead(r, b) PROVE Inv'
  <2>1. /\ task[r].at = "publish" /\ UNCHANGED <<record, log, token, submission, cs, shutdown>>
    BY <1>5, PublishReadCases
  <2>2. submission[r] = "accepted" /\ TaskInv(r) /\ RunInv(r)
    BY <2>1, TaskFacts
  <2>3. CASE AnnouncedOurs(r) /\ TaskTo(r, "prune") /\ Ends
    <3>1. task'[r].at = "prune" /\ task'[r].outcome = task[r].outcome /\ \A q \in Runs \ {r} : task'[q] = task[q]
      BY <2>3, TaskEffects, PointFacts
    <3>2. TaskInv(r)'
      BY <2>1, <2>2, <2>3, <3>1 DEF TaskInv, Undecided, Terminalizing, Absent, Own,
         AnnouncedOurs, Ends
    <3> QED
      BY <2>1, <2>2, <2>3, <3>1, <3>2, TaskInvStep DEF Ends
  <2>4. CASE TaskRetry(r, "publish") /\ Ends
    <3>1. task'[r].at = "publish" /\ task'[r].outcome = task[r].outcome /\ \A q \in Runs \ {r} : task'[q] = task[q]
      BY <2>4, TaskEffects, PointFacts
    <3>2. TaskInv(r)'
      BY <2>1, <2>2, <2>4, <3>1 DEF TaskInv, Undecided, Terminalizing, Absent, Own,
         AnnouncedOurs, Ends
    <3> QED
      BY <2>1, <2>2, <2>4, <3>1, <3>2, TaskInvStep DEF Ends
  <2>5. CASE TaskTo(r, "publish_last") /\ Ends
    <3>1. task'[r].at = "publish_last" /\ task'[r].outcome = task[r].outcome /\ \A q \in Runs \ {r} : task'[q] = task[q]
      BY <2>5, TaskEffects, PointFacts
    <3>2. TaskInv(r)'
      BY <2>1, <2>2, <2>5, <3>1 DEF TaskInv, Undecided, Terminalizing, Absent, Own,
         AnnouncedOurs, Ends
    <3> QED
      BY <2>1, <2>2, <2>5, <3>1, <3>2, TaskInvStep DEF Ends
  <2>6. CASE task' = [task EXCEPT ![r].at = "publish_emit"] /\ Ends
    <3>1. task'[r].at = "publish_emit" /\ task'[r].outcome = task[r].outcome /\ \A q \in Runs \ {r} : task'[q] = task[q]
      BY <2>6, TaskEffects, PointFacts
    <3>2. TaskInv(r)'
      BY <2>1, <2>2, <2>6, <3>1 DEF TaskInv, Undecided, Terminalizing, Absent, Own,
         AnnouncedOurs, Ends
    <3> QED
      BY <2>1, <2>2, <2>6, <3>1, <3>2, TaskInvStep DEF Ends
  <2> QED
    BY <1>5, PublishReadCases, <2>3, <2>4, <2>5, <2>6 DEF Ends
<1>6. ASSUME NEW b \in BOOLEAN, PublishLast(r, b) PROVE Inv'
  <2>1. /\ task[r].at = "publish_last" /\ UNCHANGED <<record, log, token, submission, cs, shutdown>>
    BY <1>6, PublishLastCases
  <2>2. submission[r] = "accepted" /\ TaskInv(r) /\ RunInv(r)
    BY <2>1, TaskFacts
  <2>3. CASE AnnouncedOurs(r) /\ TaskTo(r, "prune") /\ Ends
    <3>1. task'[r].at = "prune" /\ task'[r].outcome = task[r].outcome /\ \A q \in Runs \ {r} : task'[q] = task[q]
      BY <2>3, TaskEffects, PointFacts
    <3>2. TaskInv(r)'
      BY <2>1, <2>2, <2>3, <3>1 DEF TaskInv, Undecided, Terminalizing, Absent, Own,
         AnnouncedOurs, Ends
    <3> QED
      BY <2>1, <2>2, <2>3, <3>1, <3>2, TaskInvStep DEF Ends
  <2>4. CASE TaskFails(r)
    <3>1. /\ task'[r].at = "failed" /\ r \in runFailures' /\ \A q \in Runs \ {r} : task'[q] = task[q]
          /\ failed' /\ ~accepting' /\ runFailures \subseteq runFailures'
      BY <2>4, TaskFailsEffects
    <3>2. TaskInv(r)'
      BY <2>1, <2>2, <3>1 DEF TaskInv, Undecided, Terminalizing, Absent, Own
    <3> QED
      BY <2>1, <2>2, <3>1, <3>2, TaskInvStep
  <2> QED
    BY <1>6, PublishLastCases, <2>3, <2>4
<1> QED
  BY <1>1, <1>2, <1>3, <1>4, <1>5, <1>6 DEF TaskRead

LEMMA MarkRunningKeeps ==
  ASSUME TypeInv, Inv, NEW r \in Runs, NEW x \in TaskReply, MarkRunning(r, x) PROVE Inv'
<1>1. /\ task[r].at = "mark"
      /\ UNCHANGED <<token, submission, cs, shutdown, log, accepting, failed, runFailures>>
  BY MarkRunningCases
<1>2. submission[r] = "accepted" /\ RecordInv(r) /\ LogInv(r) /\ TaskInv(r)
  BY <1>1, TaskFacts DEF RunInv
<1>3. /\ task'[r].at \in {"mark_read", "start"} /\ \A q \in Runs \ {r} : task'[q] = task[q]
  BY MarkRunningCases, TaskEffects, PointFacts
<1>4. /\ \A q \in Runs \ {r} : record'[q] = record[q]
      /\ \/ record'[r] = record[r]
         \/ /\ record[r].status = "queued" /\ record'[r].status = "running"
            /\ record'[r].expired = record[r].expired
  BY TypeParts DEF MarkRunning, RunRecords
<1>5. /\ log' = log /\ (Absent(r) <=> record'[r].status = "absent") /\ (Own(r) <=> log'[r].owner = "own")
      /\ (record[r].expired => record'[r].expired)
  BY <1>1, <1>4 DEF Absent, Own
<1>6. RecordInv(r)'
  BY <1>1, <1>2, <1>4 DEF RecordInv, Absent
<1>7. LogInv(r)'
  BY <1>1, <1>2, <1>4, <1>5 DEF LogInv, Absent, Own
<1>8. TaskInv(r)'
  BY <1>1, <1>2, <1>3, <1>4, <1>5 DEF TaskInv, Absent, Own, Undecided, Terminalizing
<1> QED
  BY <1>1, <1>2, <1>3, <1>4, <1>5, <1>6, <1>7, <1>8, OutsideInv DEF RunInv

LEMMA StartRunKeeps ==
  ASSUME TypeInv, Inv, NEW r \in Runs, NEW x \in TaskReply,
         NEW o \in {NoOutcome, "internal_error", "task_timeout"}, StartRun(r, x, o)
  PROVE  Inv'
<1>1. /\ task[r].at = "start"
      /\ UNCHANGED <<record, token, submission, cs, shutdown, accepting, failed, runFailures>>
  BY StartRunCases
<1>2. submission[r] = "accepted" /\ RecordInv(r) /\ LogInv(r) /\ TaskInv(r)
  BY <1>1, TaskFacts DEF RunInv
<1>3. /\ \A q \in Runs \ {r} : task'[q] = task[q]
      /\ task'[r].at = "agent" \/ (task'[r].at = "complete" /\ task'[r].outcome # NoOutcome)
  BY StartRunCases, TaskEffects, PointFacts, SentinelAssumption DEF Outcomes
<1>4. /\ \A q \in Runs \ {r} : log'[q] = log[q]
      /\ log'[r].owner = log[r].owner /\ log'[r].created = log[r].created
      /\ log'[r].streams = log[r].streams /\ log'[r].outcome = log[r].outcome
  <2>1. log' = log \/ log' = [log EXCEPT ![r].started = TRUE]
    BY StartRunCases
  <2> QED
    BY <2>1, TypeParts DEF Logs
<1>5. /\ (Absent(r) <=> record'[r].status = "absent") /\ (Own(r) <=> log'[r].owner = "own")
  BY <1>1, <1>4 DEF Absent, Own
<1>6. RecordInv(r)'
  BY <1>1, <1>2 DEF RecordInv, Absent
<1>7. LogInv(r)'
  BY <1>1, <1>2, <1>4 DEF LogInv, Absent, Own
<1>8. TaskInv(r)'
  BY <1>1, <1>2, <1>3, <1>4 DEF TaskInv, Absent, Own, Undecided, Terminalizing
<1> QED
  BY <1>1, <1>2, <1>3, <1>4, <1>5, <1>6, <1>7, <1>8, OutsideInv DEF RunInv

LEMMA CompleteKeeps ==
  ASSUME TypeInv, Inv, NEW r \in Runs, NEW x \in TaskReply, Complete(r, x) PROVE Inv'
<1>1. /\ task[r].at = "complete" /\ (x.raised \/ x.applied)
      /\ UNCHANGED <<token, submission, cs, shutdown, log, accepting, failed, runFailures>>
  BY CompleteCases DEF TaskReply, Reply
<1>2. submission[r] = "accepted" /\ RecordInv(r) /\ LogInv(r) /\ TaskInv(r)
  BY <1>1, TaskFacts DEF RunInv
<1>3. /\ \A q \in Runs \ {r} : task'[q] = task[q]
      /\ task'[r].outcome = task[r].outcome
      /\ \/ task'[r].at = "complete_read"
         \/ /\ task'[r].at = "publish"
            /\ \/ record[r].status = "running" /\ ~x.raised
               \/ record[r].status = "terminal" /\ record[r].outcome = task[r].outcome
  BY CompleteCases, TaskEffects, PointFacts
<1>4. /\ \A q \in Runs \ {r} : record'[q] = record[q]
      /\ \/ ~(x.applied /\ record[r].status = "running") /\ record'[r] = record[r]
         \/ /\ x.applied /\ record[r].status = "running" /\ record'[r].status = "terminal"
            /\ record'[r].outcome = task[r].outcome /\ record'[r].expired = record[r].expired
  BY TypeParts DEF Complete, RunRecords
<1>5. /\ log' = log /\ (Absent(r) <=> record'[r].status = "absent") /\ (Own(r) <=> log'[r].owner = "own")
      /\ (record[r].expired => record'[r].expired)
  BY <1>1, <1>4 DEF Absent, Own
<1>6. RecordInv(r)'
  BY <1>1, <1>2, <1>4 DEF RecordInv, Absent
<1>7. LogInv(r)'
  BY <1>1, <1>2, <1>4, <1>5 DEF LogInv, Absent, Own
<1>8. TaskInv(r)'
  BY <1>1, <1>2, <1>3, <1>4, <1>5 DEF TaskInv, Absent, Own, Undecided, Terminalizing
<1> QED
  BY <1>1, <1>2, <1>3, <1>4, <1>5, <1>6, <1>7, <1>8, OutsideInv DEF RunInv

LEMMA PublishEmitKeeps ==
  ASSUME TypeInv, Inv, NEW r \in Runs, NEW x \in TaskReply, PublishEmit(r, x) PROVE Inv'
<1>1. /\ task[r].at = "publish_emit" /\ (x.raised \/ x.applied)
      /\ UNCHANGED <<record, token, submission, cs, shutdown, accepting, failed, runFailures>>
  BY PublishEmitCases DEF TaskReply, Reply
<1>2. submission[r] = "accepted" /\ RecordInv(r) /\ LogInv(r) /\ TaskInv(r)
  BY <1>1, TaskFacts DEF RunInv
<1>3. task[r].outcome # NoOutcome
  BY <1>1, <1>2 DEF TaskInv, Terminalizing
<1>4. /\ \A q \in Runs \ {r} : task'[q] = task[q]
      /\ task'[r].outcome = task[r].outcome
      /\ \/ task'[r].at = "prune" /\ Own(r) /\ log[r].outcome = NoOutcome /\ ~x.raised
         \/ task'[r].at \in {"publish", "publish_last"}
  BY PublishEmitCases, TaskEffects, PointFacts
<1>5. /\ \A q \in Runs \ {r} : log'[q] = log[q]
      /\ log'[r].owner = log[r].owner /\ log'[r].created = log[r].created
      /\ log'[r].streams = log[r].streams
      /\ \/ log'[r].outcome = log[r].outcome /\ ~(x.applied /\ Own(r) /\ log[r].outcome = NoOutcome)
         \/ log'[r].outcome = task[r].outcome
  BY TypeParts DEF PublishEmit, Logs, Own
<1>6. /\ (Absent(r) <=> record'[r].status = "absent") /\ (Own(r) <=> log'[r].owner = "own")
  BY <1>1, <1>5 DEF Absent, Own
<1>7. RecordInv(r)'
  BY <1>1, <1>2 DEF RecordInv, Absent
<1>8. LogInv(r)'
  BY <1>1, <1>2, <1>5 DEF LogInv, Absent, Own
<1>9. TaskInv(r)'
  BY <1>1, <1>2, <1>3, <1>4, <1>5 DEF TaskInv, Absent, Own, Undecided, Terminalizing
<1> QED
  BY <1>1, <1>2, <1>4, <1>5, <1>6, <1>7, <1>8, <1>9, OutsideInv DEF RunInv

LEMMA TaskPruneKeeps == ASSUME TypeInv, Inv, NEW r \in Runs, TaskPrune(r) PROVE Inv'
<1>1. /\ task[r].at = "prune" /\ cs.at = "free" /\ cs.holder = "none" /\ TaskTo(r, "pruning")
      /\ cs' = [Free EXCEPT !.at = "list", !.holder = "task", !.run = r]
      /\ UNCHANGED <<record, log, token, submission, shutdown, accepting, failed, runFailures, faults>>
  BY DEF TaskPrune, stores, failStop, TypeInv, Held
<1>2. cs'.at = "list" /\ cs'.holder = "task" /\ cs'.todo = {}
  BY <1>1 DEF Free
<1>3. task'[r].at = "pruning" /\ task'[r].outcome = task[r].outcome /\ \A q \in Runs \ {r} : task'[q] = task[q]
  BY <1>1, TaskEffects, PointFacts
<1>4. SubmissionAt' /\ PruneAt' /\ StopInv'
  BY <1>1, <1>2 DEF Inv, SubmissionAt, PruneAt, StopInv, PruningOne, PrunePoints
<1>5. ASSUME NEW q \in Runs, q # r PROVE RunInv(q)'
  <2>1. RunInv(q) /\ submission[q] # "pending" /\ task'[q] = task[q]
    BY <1>1, <1>3, <1>5 DEF Inv, RunInv, RecordInv
  <2> QED
    BY <1>1, <2>1, KeptRun DEF PruningOne, PrunePoints
<1>6. RunInv(r)'
  <2>1. submission[r] = "accepted" /\ RecordInv(r) /\ LogInv(r) /\ TaskInv(r)
    BY <1>1, TaskFacts DEF RunInv
  <2>2. RecordInv(r)'
    BY <1>1, <2>1 DEF RecordInv, Absent
  <2>3. LogInv(r)'
    BY <1>1, <2>1 DEF LogInv, Absent, Own, PruningOne, PrunePoints
  <2>4. TaskInv(r)'
    BY <1>1, <1>3, <2>1 DEF TaskInv, Absent, Own, Undecided, Terminalizing
  <2> QED
    BY <2>2, <2>3, <2>4 DEF RunInv
<1> QED
  BY <1>4, <1>5, <1>6 DEF Inv

LEMMA ShutdownKeeps == ASSUME TypeInv, Inv, Shutdown \/ ShutdownReturns PROVE Inv'
<1>1. CASE Shutdown
  <2>1. /\ cs.at = "free" /\ cs.holder = "none" /\ ~accepting'
        /\ UNCHANGED <<record, log, token, submission, cs, failed, runFailures, faults>>
    BY <1>1 DEF Shutdown, stores, TypeInv, Held
  <2>2. SubmissionAt' /\ PruneAt' /\ StopInv'
    BY <2>1 DEF Inv, SubmissionAt, PruneAt, StopInv, PruningOne, PrunePoints
  <2>3. ASSUME NEW r \in Runs PROVE RunInv(r)'
    <3>1. /\ RecordInv(r) /\ LogInv(r) /\ TaskInv(r) /\ task[r] \in TaskRecords
      BY TypeParts DEF Inv, RunInv
    <3>2. \/ task'[r] = task[r]
          \/ task[r].at \notin {"none"} \cup Ended \cup Terminalizing /\ task'[r].at = "cancelled"
      BY <1>1, <3>1 DEF Shutdown, Cancellable, TaskRecords
    <3>3. RecordInv(r)'
      BY <2>1, <3>1 DEF RecordInv, Absent
    <3>4. LogInv(r)'
      BY <2>1, <3>1 DEF LogInv, Absent, Own
    <3>5. TaskInv(r)'
      BY <2>1, <3>1, <3>2 DEF TaskInv, Absent, Own, Undecided, Terminalizing
    <3> QED
      BY <3>3, <3>4, <3>5 DEF RunInv
  <2> QED
    BY <2>2, <2>3 DEF Inv
<1>2. CASE ShutdownReturns
  <2>1. /\ shutdown = "gather"
        /\ UNCHANGED <<record, log, token, task, submission, cs, accepting, failed, runFailures, faults>>
    BY <1>2 DEF ShutdownReturns, stores, failStop
  <2>2. SubmissionAt' /\ PruneAt' /\ StopInv'
    BY <2>1 DEF Inv, SubmissionAt, PruneAt, StopInv, Absent, Queued, Own
  <2>3. ASSUME NEW r \in Runs PROVE RunInv(r)'
    BY <2>1 DEF Inv, RunInv, RecordInv, LogInv, TaskInv, Absent, Own
  <2> QED
    BY <2>2, <2>3 DEF Inv
<1> QED
  BY <1>1, <1>2

LEMMA EnvironmentKeeps == ASSUME TypeInv, Inv, Environment PROVE Inv'
<1>1. PICK r \in Runs : RetentionPasses(r) \/ AttachStream(r) \/ DetachStream(r) \/ ForeignProducer(r)
  BY DEF Environment
<1>2. /\ UNCHANGED <<token, task, submission, cs, shutdown, accepting, failed, runFailures>>
  BY <1>1 DEF RetentionPasses, AttachStream, DetachStream, ForeignProducer, failStop
<1>3. RecordInv(r) /\ LogInv(r) /\ TaskInv(r) /\ log[r] \in Logs /\ record[r] \in RunRecords
  BY TypeParts DEF Inv, RunInv
<1>4. CASE RetentionPasses(r)
  <2>1. /\ record[r].status = "terminal" /\ log' = log /\ \A q \in Runs \ {r} : record'[q] = record[q]
        /\ record'[r].status = "terminal" /\ record'[r].outcome = record[r].outcome /\ record'[r].expired
    BY <1>4, TypeParts DEF RetentionPasses, RunRecords
  <2>2. /\ submission[r] = "accepted" /\ (Absent(r) <=> record'[r].status = "absent")
        /\ (Own(r) <=> log'[r].owner = "own")
    BY <1>3, <2>1 DEF RecordInv, Absent, Own
  <2>3. RecordInv(r)'
    BY <1>2, <1>3, <2>1 DEF RecordInv, Absent
  <2>4. LogInv(r)'
    BY <1>2, <1>3, <2>1 DEF LogInv, Absent, Own
  <2>5. TaskInv(r)'
    BY <1>2, <1>3, <2>1 DEF TaskInv, Absent, Own
  <2> QED
    BY <1>2, <2>1, <2>2, <2>3, <2>4, <2>5, OutsideInv DEF RunInv
<1>5. CASE AttachStream(r) \/ DetachStream(r)
  <2>1. /\ record' = record /\ \A q \in Runs \ {r} : log'[q] = log[q]
        /\ log'[r].owner = log[r].owner /\ log'[r].created = log[r].created
        /\ log'[r].outcome = log[r].outcome
    BY <1>5, TypeParts DEF AttachStream, DetachStream, Logs
  <2>2. Own(r)
    BY <1>3, <1>5 DEF AttachStream, DetachStream, Own, LogInv, Logs
  <2>3. /\ (Absent(r) <=> record'[r].status = "absent") /\ (Own(r) <=> log'[r].owner = "own")
    BY <2>1 DEF Absent, Own
  <2>4. RecordInv(r)'
    BY <1>2, <1>3, <2>1 DEF RecordInv, Absent
  <2>5. LogInv(r)'
    BY <1>2, <1>3, <2>1, <2>2 DEF LogInv, Absent, Own
  <2>6. TaskInv(r)'
    BY <1>2, <1>3, <2>1 DEF TaskInv, Absent, Own
  <2> QED
    BY <1>2, <2>1, <2>3, <2>4, <2>5, <2>6, OutsideInv DEF RunInv
<1>6. CASE ForeignProducer(r)
  <2>1. /\ record' = record /\ \A q \in Runs \ {r} : log'[q] = log[q]
        /\ log[r].owner = "none" /\ log'[r].owner = "foreign" /\ log'[r].created = log[r].created
        /\ log'[r].outcome = log[r].outcome /\ log'[r].streams = log[r].streams
    BY <1>6, TypeParts DEF ForeignProducer, Logs
  <2>2. /\ (Absent(r) <=> record'[r].status = "absent") /\ (Own(r) <=> log'[r].owner = "own")
    BY <2>1 DEF Absent, Own
  <2>3. RecordInv(r)'
    BY <1>2, <1>3, <2>1 DEF RecordInv, Absent
  <2>4. LogInv(r)'
    BY <1>2, <1>3, <2>1 DEF LogInv, Absent, Own
  <2>5. TaskInv(r)'
    BY <1>2, <1>3, <2>1 DEF TaskInv, Absent, Own
  <2> QED
    BY <1>2, <2>1, <2>2, <2>3, <2>4, <2>5, OutsideInv DEF RunInv
<1> QED
  BY <1>1, <1>4, <1>5, <1>6

LEMMA StepInv == TypeInv /\ Inv /\ [Next]_vars => Inv'
<1> SUFFICES ASSUME TypeInv, Inv, [Next]_vars PROVE Inv'
  OBVIOUS
<1>1. ASSUME NEW x \in Reply, SectionCall(x) PROVE Inv'
  BY <1>1, CreateKeeps, ProbeKeeps, OpenLogKeeps, EmitCreatedKeeps, DeleteLogKeeps,
     DeleteRecordKeeps,
     RestoreLogKeeps, RestoreCreatedKeeps, PruneListKeeps, PruneLogKeeps, PruneRecordKeeps DEF SectionCall
<1>2. ASSUME NEW b \in BOOLEAN, SectionRead(b) PROVE Inv'
  BY <1>2, CreateReadKeeps, ClassifyKeeps, CommitKeeps, DeleteLogReadKeeps, DeleteRecordReadKeeps,
     VerifyLogGoneKeeps, RestoreEndsKeeps, PruneLogReadKeeps, PruneRecordReadKeeps, PruneVerifyKeeps
     DEF SectionRead
<1>3. ASSUME Section PROVE Inv'
  BY <1>1, <1>2, <1>3, PruneNextKeeps, PruneDoneKeeps DEF Section
<1>4. ASSUME NEW r \in Runs, TaskStep(r) PROVE Inv'
  <2>1. ASSUME NEW x \in TaskReply, TaskCall(r, x) PROVE Inv'
    BY <2>1, MarkRunningKeeps, CompleteKeeps, PublishEmitKeeps, StartRunKeeps DEF TaskCall
  <2> QED
    BY <1>4, <2>1, LookingTaskKeeps DEF TaskStep
<1>5. CASE UNCHANGED vars
  <2>1. /\ SubmissionAt' /\ PruneAt' /\ StopInv'
    BY <1>5 DEF vars, Inv, SubmissionAt, PruneAt, StopInv, Absent, Queued, Own
  <2>2. ASSUME NEW r \in Runs PROVE RunInv(r)'
    BY <1>5 DEF vars, Inv, RunInv, RecordInv, LogInv, TaskInv, Absent, Own
  <2> QED
    BY <2>1, <2>2 DEF Inv
<1> QED
  BY <1>3, <1>4, <1>5, SubmitKeeps, LookingTaskKeeps, TaskPruneKeeps, CancelSubmitKeeps,
     ShutdownKeeps, EnvironmentKeeps DEF Next

LEMMA InvCorrect == Spec => [](TypeInv /\ Inv)
<1>1. Init => TypeInv /\ Inv
  BY InitType, InitInv
<1>2. (TypeInv /\ Inv) /\ [Next]_vars => (TypeInv /\ Inv)'
  BY StepType, StepInv
<1> QED
  BY <1>1, <1>2, PTL DEF Spec

(***************************************************************************)
(* What a step does to the record and the log of one run                   *)
(***************************************************************************)
SameRecord(q) ==
  record'[q].status = record[q].status /\ record'[q].outcome = record[q].outcome
SameLog(q) == (Own(q) <=> log'[q].owner = "own") /\ log'[q].outcome = log[q].outcome

\* The steps of the life cycle, as changes of a record and a log.
Effect(q) ==
  \/ SameRecord(q) /\ SameLog(q)
  \/ /\ SameLog(q) /\ Absent(q)
     /\ record'[q].status = "queued" /\ record'[q].outcome = record[q].outcome
  \/ /\ SameRecord(q) /\ Queued(q) /\ ~Own(q)
     /\ log'[q].owner = "own" /\ log'[q].outcome = log[q].outcome
  \/ /\ SameLog(q) /\ Queued(q) /\ Own(q)
     /\ record'[q].status = "running" /\ record'[q].outcome = record[q].outcome
  \/ /\ SameLog(q) /\ record[q].status = "running" /\ Own(q)
     /\ record'[q].status = "terminal" /\ record'[q].outcome \in Outcomes
  \/ /\ SameRecord(q) /\ record[q].status = "terminal" /\ Own(q) /\ log[q].outcome = NoOutcome
     /\ log'[q].owner = "own" /\ log'[q].outcome = record[q].outcome
  \/ /\ SameRecord(q) /\ Own(q) /\ (Queued(q) \/ log[q].outcome # NoOutcome)
     /\ log'[q].owner # "own" /\ log'[q].outcome = NoOutcome
  \/ /\ SameLog(q) /\ ~Own(q) /\ record[q].status \in {"queued", "terminal"}
     /\ record'[q].status = "absent" /\ record'[q].outcome = NoOutcome

Touched(q) ==
  /\ log[q].owner = "foreign" => log'[q] = log[q]
  /\ log[q].owner = "own" /\ log'[q].owner = "none" => log[q].streams = 0
  /\ token[q] /\ record'[q] # record[q] /\ record'[q].status = "absent"
       => record[q].expired /\ log[q].owner # "own"

StoreStep ==
  \/ record' = record /\ log' = log
  \/ \E q \in Runs : /\ \A r \in Runs \ {q} : record'[r] = record[r] /\ log'[r] = log[r]
                     /\ Effect(q) /\ Touched(q)

LEMMA OpenLogEffect == ASSUME TypeInv, Inv, NEW x \in Reply, OpenLog(x) PROVE StoreStep
<1>1. cs.at = "open_log" /\ cs.at \notin PrunePoints /\ cs.at # "free"
  BY DEF OpenLog, PrunePoints
<1> PICK q \in Runs : q = cs.run
  BY <1>1, SubmitCallFacts
<1>2. /\ submission[q] = "pending" /\ SubmissionAt /\ cs.holder = "submit" /\ ~token[q]
      /\ record[q] \in RunRecords /\ log[q] \in Logs
  BY <1>1, SubmitCallFacts, TypeParts DEF Inv, TypeInv, Held
<1>3. \A r \in Runs \ {q} : record'[r] = record[r] /\ log'[r] = log[r]
  BY TypeParts DEF OpenLog, LogOpened
<1>4. Effect(q)
  BY <1>1, <1>2, TypeParts DEF OpenLog, LogOpened, Effect, SameRecord, SameLog, SubmissionAt,
     Absent, Queued, Own
<1>5. Touched(q)
  BY <1>1, <1>2, TypeParts DEF OpenLog, LogOpened, Touched, SubmissionAt, Absent, Queued, Own
<1> QED
  BY <1>3, <1>4, <1>5 DEF StoreStep

LEMMA EmitCreatedEffect == ASSUME TypeInv, Inv, NEW x \in Reply, EmitCreated(x) PROVE StoreStep
<1>1. cs.at = "emit_created" /\ cs.at \notin PrunePoints /\ cs.at # "free"
  BY DEF EmitCreated, PrunePoints
<1> PICK q \in Runs : q = cs.run
  BY <1>1, SubmitCallFacts
<1>2. /\ submission[q] = "pending" /\ SubmissionAt /\ cs.holder = "submit" /\ ~token[q]
      /\ record[q] \in RunRecords /\ log[q] \in Logs
  BY <1>1, SubmitCallFacts, TypeParts DEF Inv, TypeInv, Held
<1>3. \A r \in Runs \ {q} : record'[r] = record[r] /\ log'[r] = log[r]
  BY TypeParts DEF EmitCreated, LogOpened
<1>4. Effect(q)
  BY <1>1, <1>2, TypeParts DEF EmitCreated, LogOpened, Effect, SameRecord, SameLog, SubmissionAt,
     Absent, Queued, Own
<1>5. Touched(q)
  BY <1>1, <1>2, TypeParts DEF EmitCreated, LogOpened, Touched, SubmissionAt, Absent, Queued, Own
<1> QED
  BY <1>3, <1>4, <1>5 DEF StoreStep

LEMMA DeleteLogEffect == ASSUME TypeInv, Inv, NEW x \in Reply, DeleteLog(x) PROVE StoreStep
<1>1. cs.at = "del_log" /\ cs.at \notin PrunePoints /\ cs.at # "free"
  BY DEF DeleteLog, PrunePoints
<1> PICK q \in Runs : q = cs.run
  BY <1>1, SubmitCallFacts
<1>2. /\ submission[q] = "pending" /\ SubmissionAt /\ cs.holder = "submit" /\ ~token[q]
      /\ record[q] \in RunRecords /\ log[q] \in Logs
  BY <1>1, SubmitCallFacts, TypeParts DEF Inv, TypeInv, Held
<1>3. \A r \in Runs \ {q} : record'[r] = record[r] /\ log'[r] = log[r]
  BY TypeParts DEF DeleteLog, LogDeleted, LogDeletable, NoLog
<1>4. Effect(q)
  BY <1>1, <1>2, TypeParts DEF DeleteLog, LogDeleted, LogDeletable, NoLog, Effect, SameRecord,
     SameLog, SubmissionAt,
     Absent, Queued, Own
<1>5. Touched(q)
  BY <1>1, <1>2, TypeParts DEF DeleteLog, LogDeleted, LogDeletable, NoLog, Touched,
     SubmissionAt, Absent, Queued, Own
<1> QED
  BY <1>3, <1>4, <1>5 DEF StoreStep

LEMMA DeleteRecordEffect ==
  ASSUME TypeInv, Inv, NEW x \in Reply, DeleteRecord(x) PROVE StoreStep
<1>1. cs.at = "del_record" /\ cs.at \notin PrunePoints /\ cs.at # "free"
  BY DEF DeleteRecord, PrunePoints
<1> PICK q \in Runs : q = cs.run
  BY <1>1, SubmitCallFacts
<1>2. /\ submission[q] = "pending" /\ SubmissionAt /\ cs.holder = "submit" /\ ~token[q]
      /\ record[q] \in RunRecords /\ log[q] \in Logs
  BY <1>1, SubmitCallFacts, TypeParts DEF Inv, TypeInv, Held
<1>3. \A r \in Runs \ {q} : record'[r] = record[r] /\ log'[r] = log[r]
  BY TypeParts DEF DeleteRecord, Deleted, NoRecord
<1>4. Effect(q)
  BY <1>1, <1>2, TypeParts DEF DeleteRecord, Deleted, NoRecord, Effect, SameRecord, SameLog,
     SubmissionAt,
     Absent, Queued, Own
<1>5. Touched(q)
  BY <1>1, <1>2, TypeParts DEF DeleteRecord, Deleted, NoRecord, Touched, SubmissionAt, Absent,
     Queued, Own
<1> QED
  BY <1>3, <1>4, <1>5 DEF StoreStep

LEMMA RestoreLogEffect == ASSUME TypeInv, Inv, NEW x \in Reply, RestoreLog(x) PROVE StoreStep
<1>1. cs.at = "restore" /\ cs.at \notin PrunePoints /\ cs.at # "free"
  BY DEF RestoreLog, PrunePoints
<1> PICK q \in Runs : q = cs.run
  BY <1>1, SubmitCallFacts
<1>2. /\ submission[q] = "pending" /\ SubmissionAt /\ cs.holder = "submit" /\ ~token[q]
      /\ record[q] \in RunRecords /\ log[q] \in Logs
  BY <1>1, SubmitCallFacts, TypeParts DEF Inv, TypeInv, Held
<1>3. \A r \in Runs \ {q} : record'[r] = record[r] /\ log'[r] = log[r]
  BY TypeParts DEF RestoreLog, LogOpened
<1>4. Effect(q)
  BY <1>1, <1>2, TypeParts DEF RestoreLog, LogOpened, Effect, SameRecord, SameLog, SubmissionAt,
     Absent, Queued, Own
<1>5. Touched(q)
  BY <1>1, <1>2, TypeParts DEF RestoreLog, LogOpened, Touched, SubmissionAt, Absent, Queued, Own
<1> QED
  BY <1>3, <1>4, <1>5 DEF StoreStep

LEMMA RestoreCreatedEffect ==
  ASSUME TypeInv, Inv, NEW x \in Reply, RestoreCreated(x) PROVE StoreStep
<1>1. cs.at = "restore" /\ cs.at \notin PrunePoints /\ cs.at # "free"
  BY DEF RestoreCreated, PrunePoints
<1> PICK q \in Runs : q = cs.run
  BY <1>1, SubmitCallFacts
<1>2. /\ submission[q] = "pending" /\ SubmissionAt /\ cs.holder = "submit" /\ ~token[q]
      /\ record[q] \in RunRecords /\ log[q] \in Logs
  BY <1>1, SubmitCallFacts, TypeParts DEF Inv, TypeInv, Held
<1>3. \A r \in Runs \ {q} : record'[r] = record[r] /\ log'[r] = log[r]
  BY TypeParts DEF RestoreCreated, LogOpened
<1>4. Effect(q)
  BY <1>1, <1>2, TypeParts DEF RestoreCreated, LogOpened, Effect, SameRecord, SameLog,
     SubmissionAt,
     Absent, Queued, Own
<1>5. Touched(q)
  BY <1>1, <1>2, TypeParts DEF RestoreCreated, LogOpened, Touched, SubmissionAt, Absent,
     Queued, Own
<1> QED
  BY <1>3, <1>4, <1>5 DEF StoreStep

LEMMA CreateEffect == ASSUME TypeInv, Inv, NEW x \in Reply, Create(x) PROVE StoreStep
<1>1. cs.at = "create" /\ cs.at \notin PrunePoints /\ cs.at # "free" /\ log' = log
  BY CreateCases DEF PrunePoints
<1> PICK q \in Runs : q = cs.run
  BY <1>1, SubmitCallFacts
<1>2. Absent(q) /\ (record' = record \/ record' = Created(q))
  BY <1>1, SubmitCallFacts, CreateCases DEF Inv, SubmissionAt
<1>3. CASE record' = Created(q)
  <2>1. /\ \A r \in Runs \ {q} : record'[r] = record[r]
        /\ record'[q].status = "queued" /\ record'[q].outcome = record[q].outcome
    BY <1>3, TypeParts DEF Created, RunRecords
  <2>2. Effect(q) /\ Touched(q)
    BY <1>1, <1>2, <2>1 DEF Effect, Touched, SameLog, Own
  <2> QED
    BY <1>1, <2>1, <2>2 DEF StoreStep
<1> QED
  BY <1>1, <1>2, <1>3 DEF StoreStep

LEMMA PruneLogEffect == ASSUME TypeInv, Inv, NEW x \in Reply, PruneLog(x) PROVE StoreStep
<1>1. cs.at = "prune_log" /\ cs.at \in PruningOne
  BY DEF PruneLog, PruningOne, PrunePoints
<1> PICK q \in Runs : q = cs.cur
  BY <1>1, PruneCallFacts
<1>2. /\ Absent(q) \/ (record[q].expired /\ record[q].status = "terminal")
      /\ PruneAt /\ record[q] \in RunRecords /\ log[q] \in Logs
  BY <1>1, PruneCallFacts, TypeParts DEF Inv
<1>3. \A r \in Runs \ {q} : record'[r] = record[r] /\ log'[r] = log[r]
  BY TypeParts DEF PruneLog, LogDeleted, LogDeletable, NoLog
<1>4. Effect(q)
  BY <1>1, <1>2, TypeParts DEF PruneLog, LogDeleted, LogDeletable, NoLog, Effect, SameRecord,
     SameLog, PruneAt,
     Absent, Queued, Own
<1>5. Touched(q)
  BY <1>1, <1>2, TypeParts DEF PruneLog, LogDeleted, LogDeletable, NoLog, Touched, PruneAt,
     Absent, Queued, Own
<1> QED
  BY <1>3, <1>4, <1>5 DEF StoreStep

LEMMA PruneRecordEffect == ASSUME TypeInv, Inv, NEW x \in Reply, PruneRecord(x) PROVE StoreStep
<1>1. cs.at = "prune_record" /\ cs.at \in PruningOne
  BY DEF PruneRecord, PruningOne, PrunePoints
<1> PICK q \in Runs : q = cs.cur
  BY <1>1, PruneCallFacts
<1>2. /\ Absent(q) \/ (record[q].expired /\ record[q].status = "terminal")
      /\ PruneAt /\ record[q] \in RunRecords /\ log[q] \in Logs
  BY <1>1, PruneCallFacts, TypeParts DEF Inv
<1>3. \A r \in Runs \ {q} : record'[r] = record[r] /\ log'[r] = log[r]
  BY TypeParts DEF PruneRecord, Deleted, NoRecord
<1>4. Effect(q)
  BY <1>1, <1>2, TypeParts DEF PruneRecord, Deleted, NoRecord, Effect, SameRecord, SameLog,
     PruneAt,
     Absent, Queued, Own
<1>5. Touched(q)
  BY <1>1, <1>2, TypeParts DEF PruneRecord, Deleted, NoRecord, Touched, PruneAt, Absent,
     Queued, Own
<1> QED
  BY <1>3, <1>4, <1>5 DEF StoreStep

LEMMA MarkRunningEffect ==
  ASSUME TypeInv, Inv, NEW r \in Runs, NEW x \in TaskReply, MarkRunning(r, x) PROVE StoreStep
<1>1. task[r].at = "mark" /\ log' = log
  BY MarkRunningCases
<1>2. record[r].status = "queued" => Own(r)
  BY <1>1, TaskFacts DEF RunInv, LogInv
<1>3. /\ \A q \in Runs \ {r} : record'[q] = record[q]
      /\ \/ record'[r] = record[r]
         \/ /\ record[r].status = "queued" /\ record'[r].status = "running"
            /\ record'[r].outcome = record[r].outcome
  BY TypeParts DEF MarkRunning, RunRecords
<1>4. Effect(r) /\ Touched(r)
  BY <1>1, <1>2, <1>3 DEF Effect, Touched, SameRecord, SameLog, Queued, Own
<1> QED
  BY <1>1, <1>3, <1>4 DEF StoreStep

LEMMA StartRunEffect ==
  ASSUME TypeInv, Inv, NEW r \in Runs, NEW x \in TaskReply,
         NEW o \in {NoOutcome, "internal_error", "task_timeout"}, StartRun(r, x, o)
  PROVE  StoreStep
<1>1. record' = record /\ (log' = log \/ (Own(r) /\ log' = [log EXCEPT ![r].started = TRUE]))
  BY StartRunCases
<1>2. CASE Own(r) /\ log' = [log EXCEPT ![r].started = TRUE]
  <2>1. /\ \A q \in Runs \ {r} : log'[q] = log[q]
        /\ log'[r].owner = "own" /\ log'[r].outcome = log[r].outcome
    BY <1>2, TypeParts DEF Logs, Own
  <2>2. Effect(r) /\ Touched(r)
    BY <1>1, <1>2, <2>1 DEF Effect, Touched, SameRecord, SameLog, Own
  <2> QED
    BY <1>1, <2>1, <2>2 DEF StoreStep
<1> QED
  BY <1>1, <1>2 DEF StoreStep

LEMMA CompleteEffect ==
  ASSUME TypeInv, Inv, NEW r \in Runs, NEW x \in TaskReply, Complete(r, x) PROVE StoreStep
<1>1. task[r].at = "complete" /\ log' = log
  BY CompleteCases
<1>2. /\ record[r].status = "running" => Own(r)
      /\ task[r].outcome \in Outcomes
  BY <1>1, TaskFacts, TypeParts DEF RunInv, LogInv, TaskInv, Terminalizing, TaskRecords
<1>3. /\ \A q \in Runs \ {r} : record'[q] = record[q]
      /\ \/ record'[r] = record[r]
         \/ /\ record[r].status = "running" /\ record'[r].status = "terminal"
            /\ record'[r].outcome = task[r].outcome
  BY TypeParts DEF Complete, RunRecords
<1>4. Effect(r) /\ Touched(r)
  BY <1>1, <1>2, <1>3 DEF Effect, Touched, SameRecord, SameLog, Own
<1> QED
  BY <1>1, <1>3, <1>4 DEF StoreStep

LEMMA PublishEmitEffect ==
  ASSUME TypeInv, Inv, NEW r \in Runs, NEW x \in TaskReply, PublishEmit(r, x) PROVE StoreStep
<1>1. task[r].at = "publish_emit" /\ record' = record
  BY PublishEmitCases
<1>2. Own(r) => record[r].status = "terminal" /\ record[r].outcome = task[r].outcome
  BY <1>1, TaskFacts DEF RunInv, LogInv, TaskInv
<1>3. /\ \A q \in Runs \ {r} : log'[q] = log[q]
      /\ \/ log'[r] = log[r]
         \/ /\ Own(r) /\ log[r].outcome = NoOutcome /\ log'[r].owner = "own"
            /\ log'[r].outcome = task[r].outcome
  BY TypeParts DEF PublishEmit, Logs, Own
<1>4. Effect(r) /\ Touched(r)
  BY <1>1, <1>2, <1>3 DEF Effect, Touched, SameRecord, SameLog, Own
<1> QED
  BY <1>1, <1>3, <1>4 DEF StoreStep

LEMMA EnvironmentEffect == ASSUME TypeInv, Inv, Environment PROVE StoreStep
<1>1. PICK r \in Runs : RetentionPasses(r) \/ AttachStream(r) \/ DetachStream(r) \/ ForeignProducer(r)
  BY DEF Environment
<1>2. LogInv(r) /\ log[r] \in Logs /\ record[r] \in RunRecords
  BY TypeParts DEF Inv, RunInv
<1>3. CASE RetentionPasses(r)
  <2>1. /\ log' = log /\ \A q \in Runs \ {r} : record'[q] = record[q]
        /\ record[r].status = "terminal" /\ record'[r].status = "terminal"
        /\ record'[r].outcome = record[r].outcome
    BY <1>3, TypeParts DEF RetentionPasses, RunRecords
  <2>2. Effect(r) /\ Touched(r)
    BY <2>1 DEF Effect, Touched, SameRecord, SameLog, Own
  <2> QED
    BY <2>1, <2>2 DEF StoreStep
<1>4. CASE AttachStream(r) \/ DetachStream(r)
  <2>1. /\ record' = record /\ \A q \in Runs \ {r} : log'[q] = log[q]
        /\ log'[r].owner = log[r].owner /\ log'[r].outcome = log[r].outcome
    BY <1>4, TypeParts DEF AttachStream, DetachStream, Logs
  <2>2. Own(r)
    BY <1>2, <1>4 DEF AttachStream, DetachStream, Own, LogInv, Logs
  <2>3. Effect(r) /\ Touched(r)
    BY <2>1, <2>2 DEF Effect, Touched, SameRecord, SameLog, Own
  <2> QED
    BY <2>1, <2>3 DEF StoreStep
<1>5. CASE ForeignProducer(r)
  <2>1. /\ record' = record /\ \A q \in Runs \ {r} : log'[q] = log[q]
        /\ log[r].owner = "none" /\ log'[r].owner = "foreign" /\ log'[r].outcome = log[r].outcome
    BY <1>5, TypeParts DEF ForeignProducer, Logs
  <2>2. Effect(r) /\ Touched(r)
    BY <2>1 DEF Effect, Touched, SameRecord, SameLog, Own
  <2> QED
    BY <2>1, <2>2 DEF StoreStep
<1> QED
  BY <1>1, <1>3, <1>4, <1>5

LEMMA StepEffect == ASSUME TypeInv, Inv, [Next]_vars PROVE StoreStep
<1>1. ASSUME NEW x \in Reply, SectionCall(x) PROVE StoreStep
  <2>1. CASE Probe(x) \/ PruneList(x)
    BY <2>1 DEF Probe, PruneList, stores, StoreStep
  <2> QED
    BY <1>1, <2>1, CreateEffect, OpenLogEffect, EmitCreatedEffect, DeleteLogEffect,
       DeleteRecordEffect,
       RestoreLogEffect, RestoreCreatedEffect, PruneLogEffect, PruneRecordEffect DEF SectionCall
<1>2. ASSUME NEW b \in BOOLEAN, SectionRead(b) PROVE StoreStep
  BY <1>2 DEF SectionRead, CreateRead, Classify, Commit, DeleteLogRead, DeleteRecordRead,
     VerifyLogGone,
     RestoreEnds, PruneLogRead, PruneRecordRead, PruneVerify, stores, StoreStep
<1>3. ASSUME Section PROVE StoreStep
  <2>1. ASSUME PruneDone \/ \E r \in Runs : PruneNext(r) PROVE StoreStep
    BY <2>1 DEF PruneDone, PruneNext, stores, StoreStep
  <2> QED
    BY <1>1, <1>2, <1>3, <2>1 DEF Section
<1>4. ASSUME NEW r \in Runs, TaskStep(r) PROVE StoreStep
  <2>1. ASSUME NEW x \in TaskReply, TaskCall(r, x) PROVE StoreStep
    BY <2>1, MarkRunningEffect, CompleteEffect, PublishEmitEffect, StartRunEffect DEF TaskCall
  <2>2. ASSUME NEW b \in BOOLEAN, TaskRead(r, b) PROVE StoreStep
    BY <2>2 DEF TaskRead, MarkRead, CompleteRead, PublishRead, PublishLast, stores, StoreStep
  <2> QED
    BY <1>4, <2>1, <2>2 DEF TaskStep
<1>5. ASSUME NEW r \in Runs, Submit(r) \/ Acquire(r) \/ TimeoutExpires(r) \/ TaskPrune(r) PROVE StoreStep
  BY <1>5 DEF Submit, Acquire, TimeoutExpires, TaskPrune, stores, StoreStep
<1>6. ASSUME NEW r \in Runs, NEW o \in Results \cup {"internal_error"}, AgentReturns(r, o) PROVE StoreStep
  BY <1>6 DEF AgentReturns, stores, StoreStep
<1>7. CASE CancelSubmit \/ Shutdown \/ ShutdownReturns \/ UNCHANGED vars
  BY <1>7 DEF CancelSubmit, Shutdown, ShutdownReturns, vars, stores, StoreStep
<1> QED
  BY <1>3, <1>4, <1>5, <1>6, <1>7, EnvironmentEffect DEF Next

(***************************************************************************)
(* The theorems                                                            *)
(***************************************************************************)
LEMMA InvWhole == TypeInv /\ Inv => RunsWhole
<1> SUFFICES ASSUME TypeInv, Inv PROVE RunsWhole
  OBVIOUS
<1>1. \A r \in Runs : RecordInv(r) /\ LogInv(r) /\ TaskInv(r) /\ record[r].status \in Statuses
  BY TypeParts DEF Inv, RunInv, RunRecords
<1>2. LogHasRecord
  BY <1>1 DEF LogHasRecord, LogInv, Own, Absent
<1>3. NeverHalfTerminal
  BY <1>1 DEF NeverHalfTerminal, TaskInv, Own
<1>4. AcceptedIsWhole
  BY <1>1 DEF AcceptedIsWhole, LogInv, Own, Statuses
<1>5. RefusedLeavesNothing
  BY <1>1, TypeParts DEF RefusedLeavesNothing, RecordInv, LogInv, Own, Absent
<1>6. PrunableHasToken
  BY <1>1 DEF PrunableHasToken, RecordInv, Absent
<1> QED
  BY <1>2, <1>3, <1>4, <1>5, <1>6 DEF RunsWhole

\* In every state the record, the log and the task of each run agree, whichever
\* store call failed, and whether or not it took effect (RunsWhole).
THEOREM RunsAgree == Spec => []RunsWhole
<1> QED
  BY InvCorrect, InvWhole, PTL

\* No step prunes a run that has not expired or that is being streamed, takes a
\* run in progress away, or touches the log of another producer.
THEOREM NothingElse == Spec => NothingElseTouched
<1>1. TypeInv /\ Inv /\ [Next]_vars =>
        [\A r \in Runs :
           /\ log[r].owner = "foreign" => log'[r] = log[r]
           /\ log[r].owner = "own" /\ log'[r].owner = "none" => log[r].streams = 0
           /\ token[r] /\ record'[r] # record[r] /\ record'[r].status = "absent"
                => record[r].expired /\ log[r].owner # "own"]_vars
  <2> SUFFICES ASSUME TypeInv, Inv, [Next]_vars, NEW r \in Runs PROVE Touched(r)
    BY DEF Touched
  <2>1. StoreStep
    BY StepEffect
  <2>2. CASE record'[r] = record[r] /\ log'[r] = log[r]
    BY <2>2 DEF Touched
  <2> QED
    BY <2>1, <2>2 DEF StoreStep
<1> QED
  BY <1>1, InvCorrect, PTL DEF Spec, NothingElseTouched

(***************************************************************************)
(* After the stop                                                          *)
(***************************************************************************)
StopStep ==
  /\ failed => failed'
  /\ \A r \in Runs : submission[r] = "accepted" => submission'[r] = "accepted"
  /\ failed \/ shutdown # "no" =>
       \A r \in Runs : submission'[r] = "accepted" => submission[r] = "accepted"

LEMMA LeaveAccepts ==
  ASSUME TypeInv, cs.at # "free", NEW result \in Refused, NEW pending \in BOOLEAN,
         Leave(result, pending)
  PROVE  \A r \in Runs : submission'[r] = "accepted" <=> submission[r] = "accepted"
BY LeaveFacts DEF TypeInv, Held, Refused

LEMMA AbortStops == ASSUME TypeInv, cs.at # "free", NEW S, Abort(S) PROVE StopStep
<1>1. failed' /\ Leave("inconsistent", cs.pending) /\ cs.pending \in BOOLEAN /\ "inconsistent" \in Refused
  BY TypeParts DEF Abort, EnterFailStop, Sections, Refused
<1> QED
  BY <1>1, LeaveAccepts DEF StopStep

LEMMA LeaveStops ==
  ASSUME TypeInv, cs.at # "free", NEW result \in Refused, NEW pending \in BOOLEAN,
         Leave(result, pending), failed' = failed
  PROVE  StopStep
BY LeaveAccepts DEF StopStep

LEMMA SectionStops == ASSUME TypeInv, Inv, Section PROVE StopStep
<1>1. ASSUME NEW x \in Reply, SectionCall(x) PROVE StopStep
  <2>1. CASE Create(x)
    <3>1. cs.at # "free" /\ cs.pending \in BOOLEAN /\ failed' = failed /\ "capacity" \in Refused
      BY <2>1, CreateCases DEF Refused
    <3>2. submission' = submission \/ Leave("capacity", cs.pending)
      BY <2>1, CreateCases DEF Stays
    <3> QED
      BY <3>1, <3>2, LeaveStops DEF StopStep
  <2>2. CASE PruneList(x)
    <3>1. cs.at # "free" /\ "cancelled" \in Refused
      BY <2>2 DEF PruneList, Refused
    <3>2. \/ submission' = submission /\ failed' = failed
          \/ Leave("cancelled", TRUE) /\ failed' = failed
          \/ Abort({})
      BY <2>2 DEF PruneList, failStop
    <3>3. CASE submission' = submission /\ failed' = failed
      BY <3>3 DEF StopStep
    <3>4. CASE Leave("cancelled", TRUE) /\ failed' = failed
      BY <3>1, <3>4, LeaveStops
    <3>5. CASE Abort({})
      BY <3>1, <3>5, AbortStops
    <3> QED
      BY <3>2, <3>3, <3>4, <3>5
  <2>3. CASE Probe(x)
    BY <2>3 DEF Probe, EnterFailStop, failStop, StopStep
  <2>4. CASE \/ OpenLog(x) \/ EmitCreated(x) \/ DeleteLog(x) \/ DeleteRecord(x)
            \/ RestoreLog(x) \/ RestoreCreated(x) \/ PruneLog(x) \/ PruneRecord(x)
    <3>1. submission' = submission /\ failed' = failed
      BY <2>4 DEF OpenLog, EmitCreated, DeleteLog, DeleteRecord, RestoreLog, RestoreCreated,
         PruneLog, PruneRecord, failStop
    <3> QED
      BY <3>1 DEF StopStep
  <2> QED
    BY <1>1, <2>1, <2>2, <2>3, <2>4 DEF SectionCall
<1>2. ASSUME NEW b \in BOOLEAN, SectionRead(b) PROVE StopStep
  <2>1. CASE Commit(b)
    <3>1. cs.at = "commit" /\ cs.holder = "submit" /\ failed' = failed
      BY <2>1, CommitCases DEF TypeInv, Held, PrunePoints
    <3>2. shutdown = "no"
      BY <3>1 DEF Inv, StopInv
    <3>3. /\ submission' = submission \/ submission' = [submission EXCEPT ![cs.run] = "accepted"]
          /\ failed => submission' = submission
      BY <2>1 DEF Commit
    <3> QED
      BY <3>1, <3>2, <3>3, TypeParts DEF StopStep
  <2>2. ASSUME \/ CreateRead(b) \/ Classify(b) \/ DeleteLogRead(b) \/ DeleteRecordRead(b)
               \/ VerifyLogGone(b) \/ RestoreEnds(b) \/ PruneLogRead(b) \/ PruneRecordRead(b)
               \/ PruneVerify(b)
        PROVE  StopStep
    <3>1. /\ cs.at # "free" /\ cs.pending \in BOOLEAN /\ cs.result \in Refused
          /\ "failed" \in Refused
      BY <2>2, TypeParts DEF CreateRead, Classify, DeleteLogRead, DeleteRecordRead, VerifyLogGone,
         RestoreEnds, PruneLogRead, PruneRecordRead, PruneVerify, Sections, Failures, Refused
    <3>2. \/ submission' = submission /\ failed' = failed
          \/ (Leave("failed", cs.pending) \/ Leave(cs.result, cs.pending)) /\ failed' = failed
          \/ \E S \in SUBSET Runs : Abort(S)
      <4>1. cs.run \in Runs /\ (cs.at \in PruningOne => cs.cur \in Runs)
        BY <3>1 DEF TypeInv, Held
      <4>2. CASE CreateRead(b) \/ Classify(b) \/ DeleteLogRead(b)
        BY <4>1, <4>2 DEF CreateRead, Classify, DeleteLogRead, failStop
      <4>3. CASE DeleteRecordRead(b) \/ VerifyLogGone(b) \/ RestoreEnds(b)
        BY <4>1, <4>3 DEF DeleteRecordRead, VerifyLogGone, RestoreEnds, failStop
      <4>4. CASE PruneLogRead(b) \/ PruneRecordRead(b) \/ PruneVerify(b)
        BY <4>1, <4>4 DEF PruneLogRead, PruneRecordRead, PruneVerify, failStop, PruningOne,
           PrunePoints
      <4> QED
        BY <2>2, <4>2, <4>3, <4>4
    <3>3. CASE submission' = submission /\ failed' = failed
      BY <3>3 DEF StopStep
    <3>4. CASE (Leave("failed", cs.pending) \/ Leave(cs.result, cs.pending)) /\ failed' = failed
      BY <3>1, <3>4, LeaveStops
    <3>5. ASSUME NEW S \in SUBSET Runs, Abort(S) PROVE StopStep
      BY <3>1, <3>5, AbortStops
    <3> QED
      BY <3>2, <3>3, <3>4, <3>5
  <2> QED
    BY <1>2, <2>1, <2>2 DEF SectionRead
<1>3. ASSUME NEW r \in Runs, PruneNext(r) PROVE StopStep
  <2>1. cs.at # "free" /\ (Abort({r}) \/ (submission' = submission /\ failed' = failed))
    BY <1>3 DEF PruneNext, failStop
  <2> QED
    BY <2>1, AbortStops DEF StopStep
<1>4. CASE PruneDone
  <2>1. cs.at # "free" /\ cs.pending \in BOOLEAN /\ "cancelled" \in Refused /\ failed' = failed
    BY <1>4, TypeParts DEF PruneDone, failStop, Sections, Refused
  <2>2. submission' = submission \/ Leave("cancelled", cs.pending)
    BY <1>4 DEF PruneDone
  <2> QED
    BY <2>1, <2>2, LeaveStops DEF StopStep
<1> QED
  BY <1>1, <1>2, <1>3, <1>4 DEF Section

LEMMA StepStops == ASSUME TypeInv, Inv, [Next]_vars PROVE StopStep
<1>1. ASSUME NEW r \in Runs, Submit(r) PROVE StopStep
  <2>1. failed' = failed /\ (submission' = [submission EXCEPT ![r] = "pending"]
                            \/ \E s \in {"inconsistent", "shutdown"} : submission' = [submission EXCEPT ![r] = s])
    BY <1>1 DEF Submit, failStop
  <2>2. submission[r] = "none"
    BY <1>1 DEF Submit
  <2> QED
    BY <2>1, <2>2, TypeParts DEF StopStep
<1>2. ASSUME NEW r \in Runs, TaskStep(r) PROVE StopStep
  <2>1. submission' = submission /\ (failed => failed')
    BY <1>2 DEF TaskStep, TaskCall, TaskRead, MarkRunning, Complete, PublishEmit, StartRun,
       MarkRead, CompleteRead, PublishRead, PublishLast, TaskFails, EnterFailStop, failStop
  <2> QED
    BY <2>1 DEF StopStep
<1>3. ASSUME \/ CancelSubmit \/ Shutdown \/ ShutdownReturns \/ Environment \/ UNCHANGED vars
             \/ \E r \in Runs : Acquire(r) \/ TimeoutExpires(r) \/ TaskPrune(r)
             \/ \E r \in Runs, o \in Results \cup {"internal_error"} : AgentReturns(r, o)
      PROVE  StopStep
  <2>1. submission' = submission /\ failed' = failed
    BY <1>3 DEF CancelSubmit, Shutdown, ShutdownReturns, Environment, RetentionPasses,
       AttachStream,
       DetachStream, ForeignProducer, vars, Acquire, TimeoutExpires, TaskPrune, AgentReturns, failStop
  <2> QED
    BY <2>1 DEF StopStep
<1> QED
  BY <1>1, <1>2, <1>3, SectionStops DEF Next

\* Fail-stop is final, and neither after it nor once shutdown has begun is a
\* submission accepted, the one that was under way included.
THEOREM StopIsFinal == Spec => NothingAcceptedAfterStop
<1>1. TypeInv /\ Inv /\ [Next]_vars =>
        [/\ failed => failed'
         /\ failed \/ shutdown # "no" =>
              \A r \in Runs : submission'[r] = "accepted" => submission[r] = "accepted"]_vars
  BY StepStops DEF StopStep
<1> QED
  BY <1>1, InvCorrect, PTL DEF Spec, NothingAcceptedAfterStop

(***************************************************************************)
(* The life cycle                                                          *)
(***************************************************************************)
\* The four variables of RunLifecycle, when at most the run q changes.
LEMMA OneRun ==
  ASSUME NEW q \in Runs, \A r \in Runs \ {q} : record'[r] = record[r] /\ log'[r] = log[r]
  PROVE  /\ [r \in Runs |-> record'[r].status]
              = [[r \in Runs |-> record[r].status] EXCEPT ![q] = record'[q].status]
         /\ [r \in Runs |-> record'[r].outcome]
              = [[r \in Runs |-> record[r].outcome] EXCEPT ![q] = record'[q].outcome]
         /\ [r \in Runs |-> log'[r].outcome]
              = [[r \in Runs |-> log[r].outcome] EXCEPT ![q] = log'[q].outcome]
         /\ [r \in Runs |-> log'[r].owner = "own"]
              = [[r \in Runs |-> log[r].owner = "own"] EXCEPT ![q] = (log'[q].owner = "own")]
         /\ record'[q].status = record[q].status =>
              [r \in Runs |-> record'[r].status] = [r \in Runs |-> record[r].status]
         /\ record'[q].outcome = record[q].outcome =>
              [r \in Runs |-> record'[r].outcome] = [r \in Runs |-> record[r].outcome]
         /\ log'[q].outcome = log[q].outcome =>
              [r \in Runs |-> log'[r].outcome] = [r \in Runs |-> log[r].outcome]
         /\ (log'[q].owner = "own" <=> log[q].owner = "own") =>
              [r \in Runs |-> log'[r].owner = "own"] = [r \in Runs |-> log[r].owner = "own"]
OBVIOUS

LEMMA EffectRefines ==
  ASSUME NEW q \in Runs, \A r \in Runs \ {q} : record'[r] = record[r] /\ log'[r] = log[r], Effect(q)
  PROVE  [Lifecycle!Next]_(Lifecycle!vars)
<1>1. CASE SameRecord(q) /\ SameLog(q)
  BY <1>1, OneRun DEF SameRecord, SameLog, Own, Lifecycle!vars
<1>2. CASE /\ SameLog(q) /\ Absent(q)
           /\ record'[q].status = "queued" /\ record'[q].outcome = record[q].outcome
  <2>1. Lifecycle!Enter(q)
    BY <1>2, OneRun DEF SameLog, Own, Absent, Lifecycle!Enter
  <2> QED
    BY <2>1 DEF Lifecycle!Next
<1>3. CASE /\ SameRecord(q) /\ Queued(q) /\ ~Own(q)
           /\ log'[q].owner = "own" /\ log'[q].outcome = log[q].outcome
  <2>1. Lifecycle!OpenLog(q)
    BY <1>3, OneRun DEF SameRecord, Own, Queued, Lifecycle!OpenLog
  <2> QED
    BY <2>1 DEF Lifecycle!Next
<1>4. CASE /\ SameLog(q) /\ Queued(q) /\ Own(q)
           /\ record'[q].status = "running" /\ record'[q].outcome = record[q].outcome
  <2>1. Lifecycle!Start(q)
    BY <1>4, OneRun DEF SameLog, Own, Queued, Lifecycle!Start
  <2> QED
    BY <2>1 DEF Lifecycle!Next
<1>5. CASE /\ SameLog(q) /\ record[q].status = "running" /\ Own(q)
           /\ record'[q].status = "terminal" /\ record'[q].outcome \in Outcomes
  <2>1. Lifecycle!Finish(q)
    BY <1>5, OneRun DEF SameLog, Own, Lifecycle!Finish
  <2> QED
    BY <2>1 DEF Lifecycle!Next
<1>6. CASE /\ SameRecord(q) /\ record[q].status = "terminal" /\ Own(q) /\ log[q].outcome = NoOutcome
           /\ log'[q].owner = "own" /\ log'[q].outcome = record[q].outcome
  <2>1. Lifecycle!Announce(q)
    BY <1>6, OneRun DEF SameRecord, Own, Lifecycle!Announce
  <2> QED
    BY <2>1 DEF Lifecycle!Next
<1>7. CASE /\ SameRecord(q) /\ Own(q) /\ (Queued(q) \/ log[q].outcome # NoOutcome)
           /\ log'[q].owner # "own" /\ log'[q].outcome = NoOutcome
  <2>1. Lifecycle!CloseLog(q)
    BY <1>7, OneRun DEF SameRecord, Own, Queued, Lifecycle!CloseLog
  <2> QED
    BY <2>1 DEF Lifecycle!Next
<1>8. CASE /\ SameLog(q) /\ ~Own(q) /\ record[q].status \in {"queued", "terminal"}
           /\ record'[q].status = "absent" /\ record'[q].outcome = NoOutcome
  <2>1. Lifecycle!Leave(q)
    BY <1>8, OneRun DEF SameLog, Own, Lifecycle!Leave
  <2> QED
    BY <2>1 DEF Lifecycle!Next
<1> QED
  BY <1>1, <1>2, <1>3, <1>4, <1>5, <1>6, <1>7, <1>8 DEF Effect

\* What clients see of a run, in its record and in its log, follows the life
\* cycle of RunLifecycle on every path of submit, _execute, pruning and shutdown.
THEOREM RefinesLifecycle == Spec => ImplementsLifecycle
<1>1. Init => Lifecycle!Init
  <2> SUFFICES ASSUME Init PROVE Lifecycle!Init
    OBVIOUS
  <2>1. \A r \in Runs : /\ record[r].status = "absent" /\ record[r].outcome = NoOutcome
                       /\ log[r].outcome = NoOutcome /\ (log[r].owner = "own" <=> FALSE)
    BY DEF Init, NoRecord, NoLog
  <2> QED
    BY <2>1 DEF Lifecycle!Init
<1>2. TypeInv /\ Inv /\ [Next]_vars => [Lifecycle!Next]_(Lifecycle!vars)
  <2> SUFFICES ASSUME TypeInv, Inv, [Next]_vars PROVE [Lifecycle!Next]_(Lifecycle!vars)
    OBVIOUS
  <2>1. StoreStep
    BY StepEffect
  <2>2. CASE record' = record /\ log' = log
    BY <2>2 DEF Lifecycle!vars
  <2> QED
    BY <2>1, <2>2, EffectRefines DEF StoreStep
<1> QED
  BY <1>1, <1>2, InvCorrect, PTL DEF Spec, ImplementsLifecycle, Lifecycle!Spec

(***************************************************************************)
(* The service does not stop itself without a cause                        *)
(***************************************************************************)
\* The log of a submission that is not accepted was not begun: nobody streams
\* it, and it can be deleted.
NotBegun ==
  \A r \in Runs : submission[r] # "accepted" =>
    log[r].outcome = NoOutcome /\ ~log[r].started /\ log[r].streams = 0

Quiet == faults = 0 /\ ForeignLogs = {}

\* Without failing calls a call is tried twice at most: the cancellation of the
\* submitter takes one attempt, and it comes but once.
FirstTry == cs.tries = 0 \/ (cs.tries = 1 /\ cs.pending)
Unspoilt == cs.tries = 0 /\ cs.pending
CreatePoints ==
  {"create", "create_read", "probe", "open_log", "emit_created", "classify", "commit"}

QuietSection ==
  /\ cs.result = "failed" /\ cs.then # "abort" /\ cs.at # "restore"
  /\ cs.holder = "task" => ~cs.pending
  /\ cs.at \in CreatePoints => cs.tries = 0
  /\ cs.at \in {"del_log", "del_record", "prune_record"} => FirstTry
  /\ cs.at = "del_log_read" /\ Own(cs.run) => Unspoilt
  /\ cs.at = "del_record_read" /\ ~Absent(cs.run) => Unspoilt
  /\ cs.at = "prune_record_read" /\ ~Absent(cs.cur) => Unspoilt

\* Nor is a task ever in doubt about what its calls did.
Early == {"queued", "mark"}
Working == {"start", "agent", "complete"}
Unannounced == Early \cup Working \cup {"publish", "publish_emit"}

QuietTask(r) ==
  /\ task[r].at \notin {"mark_read", "complete_read", "publish_last"}
  /\ task[r].at \in Early => Queued(r)
  /\ task[r].at \in Working => record[r].status = "running"
  /\ task[r].at \in Unannounced => Own(r) /\ log[r].outcome = NoOutcome

Calm == ~failed /\ QuietSection /\ \A r \in Runs : QuietTask(r)

QuietInv == NotBegun /\ (Quiet => Calm)

\* Where a task is that has nothing to do any more, or has not begun.
Settled == {"none", "prune", "pruning"} \cup Ended

LEMMA SettledQuiet == ASSUME NEW r \in Runs, task[r].at \in Settled PROVE QuietTask(r)
BY DEF Settled, Ended, QuietTask, Unannounced, Early, Working

\* A task whose record and log do not change, or that has no need of them.
LEMMA TaskStaysQuiet ==
  ASSUME NEW r \in Runs, QuietTask(r),
         \/ task'[r].at \in Settled
         \/ /\ task'[r].at = task[r].at
            /\ record'[r].status = record[r].status \/ record[r].status = "terminal"
            /\ \/ log'[r].owner = log[r].owner /\ log'[r].outcome = log[r].outcome
               \/ log[r].outcome # NoOutcome
  PROVE  QuietTask(r)'
<1>1. CASE task'[r].at \in Settled
  BY <1>1 DEF Settled, Ended, QuietTask, Unannounced, Early, Working
<1>2. CASE task'[r].at = task[r].at
  BY <1>1, <1>2 DEF QuietTask, Unannounced, Early, Working, Queued, Own
<1> QED
  BY <1>1, <1>2

\* Until it is accepted a run has no task.
LEMMA PendingSettled ==
  ASSUME TypeInv, Inv, NEW r \in Runs, submission[r] # "accepted"
  PROVE  task[r].at \in Settled
BY DEF Inv, RunInv, TaskInv, Settled

\* A call of the section touches the run that is submitted, which has no task,
\* or the one that is pruned, which has none that needs it.
LEMMA CallTasks ==
  ASSUME TypeInv, Inv, \A r \in Runs : QuietTask(r), task' = task, NEW q \in Runs,
         \A r \in Runs \ {q} : record'[r] = record[r] /\ log'[r] = log[r],
         \/ submission[q] # "accepted"
         \/ /\ record'[q].status = record[q].status \/ record[q].status = "terminal"
            /\ log'[q] = log[q] \/ log[q].outcome # NoOutcome
  PROVE  \A r \in Runs : QuietTask(r)'
<1> SUFFICES ASSUME NEW r \in Runs PROVE QuietTask(r)'
  OBVIOUS
<1>1. CASE r # q
  BY <1>1, TaskStaysQuiet
<1>2. CASE r = q /\ submission[q] # "accepted"
  BY <1>2, PendingSettled, TaskStaysQuiet
<1>3. CASE r = q /\ submission[q] = "accepted"
  BY <1>3, TaskStaysQuiet
<1> QED
  BY <1>1, <1>2, <1>3

\* In a quiet step no call fails but by the cancellation of its submitter.
LEMMA QuietCall ==
  ASSUME TypeInv, NEW x \in Reply, Called(x), faults = 0, faults' = 0
  PROVE  /\ x.raised => x.cancelled /\ cs.holder = "submit" /\ ~cs.pending
         /\ ~x.raised => x.applied /\ ~x.cancelled
         /\ x.raised \in BOOLEAN /\ x.applied \in BOOLEAN /\ x.cancelled \in BOOLEAN
BY DEF Called, Charge, Reply

LEMMA QuietCharge ==
  ASSUME NEW bad \in BOOLEAN, Charge(bad), faults = 0, faults' = 0
  PROVE  ~bad
BY DEF Charge

\* No log belongs to somebody else.
LEMMA QuietLogs ==
  ASSUME TypeInv, Quiet
  PROVE  \A r \in Runs : log[r].owner \in {"none", "own"}
BY TypeParts DEF Quiet, ForeignLogs, Logs

\* What is known of the run that is submitted.
LEMMA SubmitterFacts ==
  ASSUME TypeInv, Inv, cs.holder = "submit"
  PROVE  /\ cs.run \in Runs /\ submission[cs.run] = "pending" /\ submission[cs.run] # "accepted"
         /\ record[cs.run].status \in {"absent", "queued"}
BY TypeParts DEF TypeInv, Held, Inv, RunInv, RecordInv, RunRecords, Statuses

\* Outside pruning the section is a submission's.
LEMMA OutsidePruning ==
  ASSUME TypeInv, cs.at # "free", cs.at \notin PrunePoints PROVE cs.holder = "submit"
BY DEF TypeInv, Held

LEMMA CreateCalm ==
  ASSUME TypeInv, Inv, Calm, NEW x \in Reply, Create(x), faults = 0, faults' = 0
  PROVE  Calm'
<1>1. /\ cs.at = "create" /\ Called(x) /\ log' = log /\ failed' = failed /\ cs.pending \in BOOLEAN
  BY CreateCases DEF Create
<1>2. cs.holder = "submit"
  BY <1>1, OutsidePruning DEF PrunePoints
<1>3. submission[cs.run] # "accepted" /\ cs.run \in Runs
  BY <1>2, SubmitterFacts
<1>4. \A r \in Runs \ {cs.run} : record'[r] = record[r]
  BY <1>3 DEF Create, Created
<1>5. QuietSection /\ cs \in Sections /\ cs.tries = 0
  BY <1>1, TypeParts DEF Calm, QuietSection, CreatePoints
<1>6. CASE Leave("capacity", cs.pending)
  <2>1. cs' = Free /\ task' = task
    BY <1>1, <1>2, <1>6, LeaveFacts DEF Refused
  <2>2. \A r \in Runs : QuietTask(r)'
    BY <1>1, <1>3, <1>4, <2>1, CallTasks DEF Calm
  <2>3. QuietSection'
    BY <2>1 DEF Free, QuietSection, CreatePoints
  <2> QED
    BY <1>1, <2>2, <2>3 DEF Calm
<1>7. CASE /\ task' = task
           /\ cs' = [cs EXCEPT !.at = IF x.raised THEN "create_read" ELSE "probe",
                               !.pending = @ \/ x.cancelled]
  <2>1. \A r \in Runs : QuietTask(r)'
    BY <1>1, <1>3, <1>4, <1>7, CallTasks DEF Calm
  <2>2. /\ cs'.at \in {"create_read", "probe"} /\ cs'.result = cs.result /\ cs'.then = cs.then
        /\ cs'.tries = 0 /\ cs'.holder = "submit"
    BY <1>2, <1>5, <1>7 DEF Sections
  <2>3. QuietSection'
    BY <1>5, <2>2 DEF QuietSection, CreatePoints
  <2> QED
    BY <1>1, <2>1, <2>3 DEF Calm
<1> QED
  BY <1>6, <1>7 DEF Create

LEMMA ProbeCalm ==
  ASSUME TypeInv, Inv, Calm, NEW x \in Reply, Probe(x), faults = 0, faults' = 0
  PROVE  Calm'
<1>1. cs.at = "probe" /\ Called(x) /\ record' = record /\ log' = log /\ task' = task
  BY DEF Probe, stores
<1>2. cs.holder = "submit" /\ cs.run \in Runs /\ submission[cs.run] # "accepted"
  BY <1>1, OutsidePruning, SubmitterFacts DEF PrunePoints
<1>3. x.raised => x.cancelled
  BY <1>1, QuietCall
<1>4. failed' = failed
  BY <1>3 DEF Probe, failStop
<1>5. QuietSection /\ cs \in Sections /\ cs.tries = 0
  BY <1>1, TypeParts DEF Calm, QuietSection, CreatePoints
<1>6. /\ cs'.at \in {"del_record", "open_log"} /\ cs'.result = "failed" /\ cs'.then # "abort"
      /\ cs'.tries = 0 /\ cs'.holder = "submit"
  BY <1>2, <1>3, <1>5 DEF Probe, Sections, QuietSection
<1>7. QuietSection'
  BY <1>6 DEF QuietSection, CreatePoints, FirstTry
<1>8. \A r \in Runs : QuietTask(r)'
  BY <1>1, <1>2, CallTasks DEF Calm
<1> QED
  BY <1>4, <1>7, <1>8 DEF Calm

LEMMA OpenLogCalm ==
  ASSUME TypeInv, Inv, Calm, NEW x \in Reply, OpenLog(x), faults = 0, faults' = 0
  PROVE  Calm'
<1>1. cs.at = "open_log" /\ Called(x) /\ record' = record /\ failed' = failed /\ task' = task
  BY DEF OpenLog, failStop
<1>2. cs.holder = "submit" /\ cs.run \in Runs /\ submission[cs.run] # "accepted"
  BY <1>1, OutsidePruning, SubmitterFacts DEF PrunePoints
<1>3. \A r \in Runs \ {cs.run} : log'[r] = log[r]
  BY <1>2 DEF OpenLog, LogOpened
<1>4. QuietSection /\ cs \in Sections /\ cs.tries = 0
  BY <1>1, TypeParts DEF Calm, QuietSection, CreatePoints
<1>5. /\ cs'.at \in {"emit_created", "del_record", "classify"} /\ cs'.result = "failed"
      /\ cs'.then # "abort" /\ cs'.tries = 0 /\ cs'.holder = "submit"
  BY <1>2, <1>4 DEF OpenLog, Sections, QuietSection
<1>6. QuietSection'
  BY <1>5 DEF QuietSection, CreatePoints, FirstTry
<1>7. \A r \in Runs : QuietTask(r)'
  BY <1>1, <1>2, <1>3, CallTasks DEF Calm
<1> QED
  BY <1>1, <1>6, <1>7 DEF Calm

LEMMA EmitCreatedCalm ==
  ASSUME TypeInv, Inv, Calm, NEW x \in Reply, EmitCreated(x), faults = 0, faults' = 0
  PROVE  Calm'
<1>1. cs.at = "emit_created" /\ Called(x) /\ record' = record /\ failed' = failed /\ task' = task
  BY DEF EmitCreated, failStop
<1>2. cs.holder = "submit" /\ cs.run \in Runs /\ submission[cs.run] # "accepted"
  BY <1>1, OutsidePruning, SubmitterFacts DEF PrunePoints
<1>3. \A r \in Runs \ {cs.run} : log'[r] = log[r]
  BY <1>2 DEF EmitCreated
<1>4. QuietSection /\ cs \in Sections /\ cs.tries = 0
  BY <1>1, TypeParts DEF Calm, QuietSection, CreatePoints
<1>5. /\ cs'.at \in {"commit", "del_log"} /\ cs'.result = "failed"
      /\ cs'.then # "abort" /\ cs'.tries = 0 /\ cs'.holder = "submit"
  BY <1>2, <1>4 DEF EmitCreated, Sections, QuietSection
<1>6. QuietSection'
  BY <1>5 DEF QuietSection, CreatePoints, FirstTry
<1>7. \A r \in Runs : QuietTask(r)'
  BY <1>1, <1>2, <1>3, CallTasks DEF Calm
<1> QED
  BY <1>1, <1>6, <1>7 DEF Calm

\* The log of a submission that is rolled back can be deleted, so if the call
\* takes effect it is gone.
LEMMA DeleteLogCalm ==
  ASSUME TypeInv, Inv, Calm, NotBegun, NEW x \in Reply, DeleteLog(x), faults = 0, faults' = 0
  PROVE  Calm'
<1>1. cs.at = "del_log" /\ Called(x) /\ record' = record /\ failed' = failed /\ task' = task
  BY DEF DeleteLog, failStop
<1>2. cs.holder = "submit" /\ cs.run \in Runs /\ submission[cs.run] # "accepted"
  BY <1>1, OutsidePruning, SubmitterFacts DEF PrunePoints
<1>3. \A r \in Runs \ {cs.run} : log'[r] = log[r]
  BY <1>2, TypeParts DEF DeleteLog, LogDeleted
<1>4. QuietSection /\ cs \in Sections /\ FirstTry
  BY <1>1, TypeParts DEF Calm, QuietSection
<1>5. /\ cs'.at \in {"del_record", "del_log_read"} /\ cs'.result = "failed"
      /\ cs'.then # "abort" /\ cs'.holder = "submit" /\ cs'.run = cs.run
      /\ cs'.at = "del_record" => cs'.tries = 0
      /\ cs'.at = "del_log_read" => cs'.tries = cs.tries /\ cs'.pending = (cs.pending \/ x.cancelled)
  BY <1>2, <1>4 DEF DeleteLog, Sections, QuietSection
<1>6. x.applied => log'[cs.run].owner # "own"
  <2>1. Own(cs.run) => LogDeletable(cs.run, TRUE)
    BY <1>2 DEF NotBegun, LogDeletable, Own
  <2> QED
    BY <1>2, <2>1, TypeParts DEF DeleteLog, LogDeleted, NoLog, Own
<1>7. ASSUME log'[cs.run].owner = "own" PROVE cs.tries = 0 /\ x.cancelled
  <2>1. ~x.applied /\ x.cancelled /\ ~cs.pending
    BY <1>1, <1>6, <1>7, QuietCall
  <2> QED
    BY <1>4, <2>1 DEF FirstTry
<1>8. QuietSection'
  BY <1>5, <1>7 DEF QuietSection, CreatePoints, FirstTry, Unspoilt, Own
<1>9. \A r \in Runs : QuietTask(r)'
  BY <1>1, <1>2, <1>3, CallTasks DEF Calm
<1> QED
  BY <1>1, <1>8, <1>9 DEF Calm

LEMMA DeleteRecordCalm ==
  ASSUME TypeInv, Inv, Calm, NEW x \in Reply, DeleteRecord(x), faults = 0, faults' = 0
  PROVE  Calm'
<1>1. cs.at = "del_record" /\ Called(x) /\ log' = log /\ failed' = failed /\ task' = task
  BY DEF DeleteRecord, failStop
<1>2. cs.holder = "submit" /\ cs.run \in Runs /\ submission[cs.run] # "accepted"
      /\ record[cs.run].status \in {"absent", "queued"}
  BY <1>1, OutsidePruning, SubmitterFacts DEF PrunePoints
<1>3. \A r \in Runs \ {cs.run} : record'[r] = record[r]
  BY <1>2 DEF DeleteRecord, Deleted
<1>4. QuietSection /\ cs \in Sections /\ FirstTry
  BY <1>1, TypeParts DEF Calm, QuietSection
<1>5. /\ cs'.at = "del_record_read" /\ cs'.result = "failed" /\ cs'.then # "abort"
      /\ cs'.holder = "submit" /\ cs'.run = cs.run
      /\ cs'.tries = cs.tries /\ cs'.pending = (cs.pending \/ x.cancelled)
  BY <1>2, <1>4 DEF DeleteRecord, Sections, QuietSection
<1>6. x.applied => record'[cs.run].status = "absent"
  BY <1>2, TypeParts DEF DeleteRecord, Deleted, NoRecord
<1>7. ASSUME record'[cs.run].status # "absent" PROVE cs.tries = 0 /\ x.cancelled
  <2>1. ~x.applied /\ x.cancelled /\ ~cs.pending
    BY <1>1, <1>6, <1>7, QuietCall
  <2> QED
    BY <1>4, <2>1 DEF FirstTry
<1>8. QuietSection'
  BY <1>5, <1>7 DEF QuietSection, CreatePoints, Unspoilt, Absent
<1>9. \A r \in Runs : QuietTask(r)'
  BY <1>1, <1>2, <1>3, CallTasks DEF Calm
<1> QED
  BY <1>1, <1>8, <1>9 DEF Calm

LEMMA PruneListCalm ==
  ASSUME TypeInv, Inv, Calm, NEW x \in Reply, PruneList(x), faults = 0, faults' = 0
  PROVE  Calm'
<1>1. cs.at = "list" /\ Called(x) /\ record' = record /\ log' = log
  BY DEF PruneList, stores
<1>2. x.raised => x.cancelled /\ cs.holder = "submit"
  BY <1>1, QuietCall
<1>3. QuietSection /\ cs \in Sections /\ \A r \in Runs : QuietTask(r)
  BY <1>1, TypeParts DEF Calm
<1>4. CASE ~x.raised
  <2>1. /\ cs' = [cs EXCEPT !.at = "next", !.todo = {r \in Runs : record[r].expired}]
        /\ task' = task /\ failed' = failed
    BY <1>4 DEF PruneList, failStop
  <2>2. /\ cs'.at = "next" /\ cs'.result = cs.result /\ cs'.then = cs.then
        /\ cs'.holder = cs.holder /\ cs'.pending = cs.pending
    BY <1>3, <2>1 DEF Sections
  <2>3. QuietSection'
    BY <1>3, <2>2 DEF QuietSection, CreatePoints
  <2>4. \A r \in Runs : QuietTask(r)'
    BY <1>1, <1>3, <2>1, TaskStaysQuiet
  <2> QED
    BY <2>1, <2>3, <2>4 DEF Calm
<1>5. CASE x.raised
  <2>1. Leave("cancelled", TRUE) /\ failed' = failed
    BY <1>2, <1>5 DEF PruneList, failStop
  <2>2. cs' = Free /\ task' = task
    BY <1>1, <1>2, <1>5, <2>1, LeaveFacts DEF Refused
  <2>3. QuietSection'
    BY <2>2 DEF Free, QuietSection, CreatePoints
  <2>4. \A r \in Runs : QuietTask(r)'
    BY <1>1, <1>3, <2>2, TaskStaysQuiet
  <2> QED
    BY <2>1, <2>3, <2>4 DEF Calm
<1> QED
  BY <1>4, <1>5, QuietCall, <1>1

\* The run that is pruned is accepted, and no task of it needs what is deleted.
LEMMA PruneLogCalm ==
  ASSUME TypeInv, Inv, Calm, NEW x \in Reply, PruneLog(x), faults = 0, faults' = 0
  PROVE  Calm'
<1>1. cs.at = "prune_log" /\ Called(x) /\ record' = record /\ failed' = failed /\ task' = task
  BY DEF PruneLog, failStop
<1>2. cs.cur \in Runs
  BY <1>1 DEF TypeInv, Held, PruningOne, PrunePoints
<1>3. \A r \in Runs \ {cs.cur} : log'[r] = log[r]
  BY <1>2, TypeParts DEF PruneLog, LogDeleted
<1>4. log'[cs.cur] = log[cs.cur] \/ log[cs.cur].outcome # NoOutcome
  BY <1>2 DEF PruneLog, LogDeleted, LogDeletable
<1>5. QuietSection /\ cs \in Sections
  BY <1>1, TypeParts DEF Calm
<1>6. /\ cs'.at \in {"prune_record", "prune_log_read"} /\ cs'.result = "failed"
      /\ cs'.then # "abort" /\ cs'.holder = cs.holder
      /\ cs'.at = "prune_record" => cs'.tries = 0
      /\ cs'.pending = (cs.pending \/ x.cancelled)
  BY <1>5 DEF PruneLog, Sections, QuietSection
<1>7. cs.holder = "task" => ~x.cancelled
  BY <1>1, QuietCall
<1>8. QuietSection'
  BY <1>5, <1>6, <1>7 DEF QuietSection, CreatePoints, FirstTry
<1>9. \A r \in Runs : QuietTask(r)'
  BY <1>1, <1>2, <1>3, <1>4, CallTasks DEF Calm
<1> QED
  BY <1>1, <1>8, <1>9 DEF Calm

LEMMA PruneRecordCalm ==
  ASSUME TypeInv, Inv, Calm, NEW x \in Reply, PruneRecord(x), faults = 0, faults' = 0
  PROVE  Calm'
<1>1. cs.at = "prune_record" /\ Called(x) /\ log' = log /\ failed' = failed /\ task' = task
  BY DEF PruneRecord, failStop
<1>2. cs.cur \in Runs /\ (Absent(cs.cur) \/ record[cs.cur].status = "terminal")
  BY <1>1 DEF TypeInv, Held, PruningOne, PrunePoints, Inv, PruneAt, RunInv, RecordInv
<1>3. \A r \in Runs \ {cs.cur} : record'[r] = record[r]
  BY <1>2 DEF PruneRecord, Deleted
<1>4. record'[cs.cur] = record[cs.cur] \/ record[cs.cur].status = "terminal"
  BY <1>2 DEF PruneRecord, Deleted
<1>5. QuietSection /\ cs \in Sections /\ FirstTry
  BY <1>1, TypeParts DEF Calm, QuietSection
<1>6. /\ cs'.at = "prune_record_read" /\ cs'.result = "failed" /\ cs'.cur = cs.cur
      /\ cs'.then # "abort" /\ cs'.holder = cs.holder /\ cs'.tries = cs.tries
      /\ cs'.pending = (cs.pending \/ x.cancelled)
  BY <1>5 DEF PruneRecord, Sections, QuietSection
<1>7. cs.holder = "task" => ~x.cancelled
  BY <1>1, QuietCall
<1>8. x.applied => record'[cs.cur].status = "absent"
  BY <1>2, TypeParts DEF PruneRecord, Deleted, NoRecord, Absent
<1>9. ASSUME record'[cs.cur].status # "absent" PROVE cs.tries = 0 /\ x.cancelled
  <2>1. ~x.applied /\ x.cancelled /\ ~cs.pending
    BY <1>1, <1>8, <1>9, QuietCall
  <2> QED
    BY <1>5, <2>1 DEF FirstTry
<1>10. QuietSection'
  BY <1>5, <1>6, <1>7, <1>9 DEF QuietSection, CreatePoints, Unspoilt, Absent
<1>11. \A r \in Runs : QuietTask(r)'
  BY <1>1, <1>2, <1>3, <1>4, CallTasks DEF Calm
<1> QED
  BY <1>1, <1>10, <1>11 DEF Calm

\* The section goes on after a read.
LEMMA ReadGoesCalm ==
  ASSUME TypeInv, Inv, Calm, record' = record, log' = log, task' = task, failed' = failed,
         cs'.result = "failed", cs'.then # "abort", cs'.holder = cs.holder,
         cs'.pending = cs.pending, cs'.at # "restore",
         cs'.at \notin {"del_log_read", "del_record_read", "prune_record_read"},
         cs'.at \in CreatePoints => cs'.tries = 0,
         cs'.at \in {"del_log", "del_record", "prune_record"} =>
           cs'.tries = 0 \/ (cs'.tries = 1 /\ cs'.pending)
  PROVE  Calm'
<1>1. \A r \in Runs : QuietTask(r)'
  BY TaskStaysQuiet DEF Calm
<1>2. QuietSection'
  BY DEF Calm, QuietSection, FirstTry
<1> QED
  BY <1>1, <1>2 DEF Calm

\* The section is left.
LEMMA LeavesCalm ==
  ASSUME TypeInv, Inv, Calm, cs.at # "free", NEW result \in Refused, NEW pending \in BOOLEAN,
         Leave(result, pending), record' = record, log' = log, failed' = failed
  PROVE  Calm'
<1>1. cs' = Free /\ cs.run \in Runs /\ cs.holder \in {"submit", "task"}
  BY LeaveFacts DEF TypeInv, Held
<1>2. QuietSection'
  BY <1>1 DEF Free, QuietSection, CreatePoints
<1>3. \A r \in Runs : task'[r].at = task[r].at \/ task'[r].at \in Settled
  <2>1. CASE cs.holder = "submit"
    BY <2>1, LeaveFacts
  <2>2. CASE cs.holder = "task"
    <3>1. PICK a \in {"done", "failed"} : task' = [task EXCEPT ![cs.run].at = a]
      BY <2>2, LeaveFacts
    <3> QED
      BY <1>1, <3>1, TypeParts DEF Settled, Ended, TaskRecords
  <2> QED
    BY <1>1, <2>1, <2>2
<1>4. \A r \in Runs : QuietTask(r)'
  BY <1>3, TaskStaysQuiet DEF Calm
<1> QED
  BY <1>2, <1>4 DEF Calm

LEMMA CreateReadCalm ==
  ASSUME TypeInv, Inv, Calm, NEW readable \in BOOLEAN, CreateRead(readable),
         faults = 0, faults' = 0
  PROVE  Calm'
<1>1. /\ cs.at = "create_read" /\ readable /\ record' = record /\ log' = log
      /\ cs.pending \in BOOLEAN /\ cs \in Sections /\ QuietSection
  BY QuietCharge, TypeParts DEF CreateRead, Calm, stores, Sections
<1>2. CASE Leave("failed", cs.pending) /\ failed' = failed
  BY <1>1, <1>2, LeavesCalm DEF Refused
<1>3. CASE /\ cs' = [cs EXCEPT !.at = "del_record", !.then = "undo"]
           /\ task' = task /\ failed' = failed
  <2>1. /\ cs'.at = "del_record" /\ cs'.then = "undo" /\ cs'.tries = 0 /\ cs'.result = "failed"
        /\ cs'.holder = cs.holder /\ cs'.pending = cs.pending
    BY <1>1, <1>3 DEF Sections, QuietSection, CreatePoints
  <2> QED
    BY <1>1, <1>3, <2>1, ReadGoesCalm DEF CreatePoints
<1> QED
  BY <1>1, <1>2, <1>3 DEF CreateRead, failStop

LEMMA ClassifyCalm ==
  ASSUME TypeInv, Inv, Calm, Quiet, NEW readable \in BOOLEAN, Classify(readable), faults' = 0
  PROVE  Calm'
<1>1. /\ cs.at = "classify" /\ readable /\ record' = record /\ log' = log
      /\ cs \in Sections /\ QuietSection
  BY QuietCharge, TypeParts DEF Classify, Calm, stores, Quiet
<1>2. cs.run \in Runs
  BY <1>1, OutsidePruning, SubmitterFacts DEF PrunePoints
<1>3. log[cs.run].owner # "foreign"
  BY <1>2, QuietLogs
<1>4. /\ task' = task /\ failed' = failed
      /\ \/ cs' = [cs EXCEPT !.at = "del_log", !.owned = TRUE]
         \/ cs' = [cs EXCEPT !.at = "del_record"]
  BY <1>1, <1>3 DEF Classify, failStop
<1>5. /\ cs'.at \in {"del_log", "del_record"} /\ cs'.then = cs.then /\ cs'.tries = 0
      /\ cs'.result = "failed" /\ cs'.holder = cs.holder /\ cs'.pending = cs.pending
  BY <1>1, <1>4 DEF Sections, QuietSection, CreatePoints
<1> QED
  BY <1>1, <1>4, <1>5, ReadGoesCalm DEF CreatePoints, QuietSection

LEMMA CommitCalm ==
  ASSUME TypeInv, Inv, Calm, NotBegun, NEW spawned \in BOOLEAN, Commit(spawned),
         faults = 0, faults' = 0
  PROVE  Calm'
<1>1. /\ cs.at = "commit" /\ spawned /\ ~failed /\ record' = record /\ log' = log
      /\ failed' = failed
  BY DEF Commit, Charge, Calm, stores, failStop
<1>2. cs.holder = "submit" /\ cs.run \in Runs /\ submission[cs.run] # "accepted"
  BY <1>1, OutsidePruning, SubmitterFacts DEF PrunePoints
<1>3. cs' = Free /\ task' = [task EXCEPT ![cs.run].at = "queued"]
  BY <1>1 DEF Commit
<1>4. QuietSection'
  BY <1>3 DEF Free, QuietSection, CreatePoints
<1>5. Queued(cs.run) /\ Own(cs.run) /\ log[cs.run].outcome = NoOutcome
  BY <1>1, <1>2 DEF Inv, SubmissionAt, NotBegun
<1>6. ASSUME NEW r \in Runs PROVE QuietTask(r)'
  <2>1. CASE r = cs.run
    <3>1. task'[r].at = "queued"
      BY <1>3, <2>1, TypeParts DEF TaskRecords
    <3> QED
      BY <1>1, <1>5, <2>1, <3>1 DEF QuietTask, Early, Working, Unannounced, Queued, Own
  <2>2. CASE r # cs.run
    BY <1>1, <1>3, <2>2, TaskStaysQuiet, TypeParts DEF Calm
  <2> QED
    BY <2>1, <2>2
<1> QED
  BY <1>1, <1>4, <1>6 DEF Calm

LEMMA DeleteLogReadCalm ==
  ASSUME Attempts >= 2, TypeInv, Inv, Calm, Quiet, NEW readable \in BOOLEAN,
         DeleteLogRead(readable), faults' = 0
  PROVE  Calm'
<1>1. /\ cs.at = "del_log_read" /\ readable /\ record' = record /\ log' = log
      /\ cs \in Sections /\ QuietSection
  BY QuietCharge, TypeParts DEF DeleteLogRead, Calm, stores, Quiet
<1>2. cs.run \in Runs
  BY <1>1, OutsidePruning, SubmitterFacts DEF PrunePoints
<1>3. log[cs.run].owner # "foreign"
  BY <1>2, QuietLogs
<1>4. Own(cs.run) => cs.tries = 0 /\ cs.pending /\ ~LastTry
  BY <1>1, ConfigAssumption DEF QuietSection, Unspoilt, LastTry
<1>5. /\ task' = task /\ failed' = failed
      /\ \/ cs' = [cs EXCEPT !.at = "del_record", !.tries = 0]
         \/ Own(cs.run) /\ cs' = [cs EXCEPT !.at = "del_log", !.tries = @ + 1]
  BY <1>1, <1>3, <1>4 DEF DeleteLogRead, failStop, Goto, Retry, Own
<1>6. /\ cs'.at \in {"del_log", "del_record"} /\ cs'.then = cs.then
      /\ cs'.tries = 0 \/ (cs'.tries = 1 /\ cs'.pending)
      /\ cs'.result = "failed" /\ cs'.holder = cs.holder /\ cs'.pending = cs.pending
  <2>1. CASE cs' = [cs EXCEPT !.at = "del_record", !.tries = 0]
    BY <1>1, <2>1 DEF Sections, QuietSection
  <2>2. CASE Own(cs.run) /\ cs' = [cs EXCEPT !.at = "del_log", !.tries = @ + 1]
    <3>1. cs.pending /\ cs.tries = 0
      BY <1>4, <2>2
    <3>2. cs.tries + 1 = 1
      BY <3>1
    <3>3. cs' = [cs EXCEPT !.at = "del_log", !.tries = 1]
      BY <3>2, <2>2
    <3> QED
      BY <1>1, <3>1, <3>3 DEF Sections, QuietSection
  <2> QED
    BY <1>5, <2>1, <2>2
<1> QED
  BY <1>1, <1>5, <1>6, ReadGoesCalm DEF CreatePoints, QuietSection

LEMMA DeleteRecordReadCalm ==
  ASSUME Attempts >= 2, TypeInv, Inv, Calm, NEW readable \in BOOLEAN,
         DeleteRecordRead(readable), faults = 0, faults' = 0
  PROVE  Calm'
<1>1. /\ cs.at = "del_record_read" /\ readable /\ record' = record /\ log' = log
      /\ cs \in Sections /\ QuietSection /\ cs.pending \in BOOLEAN
  BY QuietCharge, TypeParts DEF DeleteRecordRead, Calm, stores, Sections
<1>2. cs.run \in Runs /\ record[cs.run].status \in {"absent", "queued"}
  BY <1>1, OutsidePruning, SubmitterFacts DEF PrunePoints
<1>3. ~Absent(cs.run) => cs.tries = 0 /\ cs.pending /\ ~LastTry
  BY <1>1, ConfigAssumption DEF QuietSection, Unspoilt, LastTry
<1>4. CASE Leave(cs.result, cs.pending) /\ failed' = failed
  <2>1. cs.result \in Refused
    BY <1>1 DEF QuietSection, Refused
  <2> QED
    BY <1>1, <1>4, <2>1, LeavesCalm
<1>5. CASE /\ task' = task /\ failed' = failed
           /\ \/ cs' = [cs EXCEPT !.at = "verify", !.tries = 0]
              \/ ~Absent(cs.run) /\ cs' = [cs EXCEPT !.at = "del_record", !.tries = @ + 1]
  <2>1. /\ cs'.at \in {"verify", "del_record"} /\ cs'.then = cs.then
        /\ cs'.tries = 0 \/ (cs'.tries = 1 /\ cs'.pending)
        /\ cs'.result = "failed" /\ cs'.holder = cs.holder /\ cs'.pending = cs.pending
    <3>1. CASE cs' = [cs EXCEPT !.at = "verify", !.tries = 0]
      BY <1>1, <3>1 DEF Sections, QuietSection
    <3>2. CASE ~Absent(cs.run) /\ cs' = [cs EXCEPT !.at = "del_record", !.tries = @ + 1]
      <4>1. cs.pending /\ cs.tries = 0
        BY <1>3, <3>2
      <4>2. cs.tries + 1 = 1
        BY <4>1
      <4>3. cs' = [cs EXCEPT !.at = "del_record", !.tries = 1]
        BY <4>2, <3>2
      <4> QED
        BY <1>1, <4>1, <4>3 DEF Sections, QuietSection
    <3> QED
      BY <1>5, <3>1, <3>2
  <2> QED
    BY <1>1, <1>5, <2>1, ReadGoesCalm DEF CreatePoints, QuietSection
<1>6. cs.then # "abort"
  BY <1>1 DEF QuietSection
<1> QED
  BY <1>1, <1>2, <1>3, <1>4, <1>5, <1>6 DEF DeleteRecordRead, failStop, Goto, Retry, Absent

LEMMA VerifyLogGoneCalm ==
  ASSUME TypeInv, Inv, Calm, Quiet, NEW readable \in BOOLEAN, VerifyLogGone(readable), faults' = 0
  PROVE  Calm'
<1>1. /\ cs.at = "verify" /\ readable /\ record' = record /\ log' = log
      /\ cs \in Sections /\ QuietSection /\ cs.pending \in BOOLEAN
  BY QuietCharge, TypeParts DEF VerifyLogGone, Calm, stores, Quiet, Sections
<1>2. cs.holder = "submit" /\ cs.run \in Runs
  BY <1>1, OutsidePruning, SubmitterFacts DEF PrunePoints
<1>3. log[cs.run].owner = "none"
  BY <1>1, <1>2, QuietLogs DEF Inv, SubmissionAt, Own
<1>4. Leave(cs.result, cs.pending) /\ failed' = failed /\ cs.result \in Refused
  BY <1>1, <1>3 DEF VerifyLogGone, failStop, QuietSection, Refused
<1> QED
  BY <1>1, <1>4, LeavesCalm

LEMMA PruneLogReadCalm ==
  ASSUME TypeInv, Inv, Calm, Quiet, NEW readable \in BOOLEAN, PruneLogRead(readable), faults' = 0
  PROVE  Calm'
<1>1. /\ cs.at = "prune_log_read" /\ readable /\ record' = record /\ log' = log
      /\ cs \in Sections /\ QuietSection
  BY QuietCharge, TypeParts DEF PruneLogRead, Calm, stores, Quiet
<1>2. log[cs.cur].owner # "foreign"
  BY <1>1, QuietLogs DEF TypeInv, Held, PruningOne, PrunePoints
<1>3. /\ task' = task /\ failed' = failed
      /\ \/ cs' = [cs EXCEPT !.at = "prune_record", !.tries = 0]
         \/ cs' = [cs EXCEPT !.at = "prune_log", !.tries = @ + 1]
         \/ cs' = [cs EXCEPT !.at = "next", !.tries = 0]
  BY <1>1, <1>2 DEF PruneLogRead, failStop, Goto, Retry
<1>4. /\ cs'.at \in {"prune_record", "prune_log", "next"} /\ cs'.then = cs.then
      /\ cs'.at = "prune_record" => cs'.tries = 0
      /\ cs'.result = "failed" /\ cs'.holder = cs.holder /\ cs'.pending = cs.pending
  BY <1>1, <1>3 DEF Sections, QuietSection
<1> QED
  BY <1>1, <1>3, <1>4, ReadGoesCalm DEF CreatePoints, QuietSection

LEMMA PruneRecordReadCalm ==
  ASSUME Attempts >= 2, TypeInv, Inv, Calm, NEW readable \in BOOLEAN, PruneRecordRead(readable),
         faults = 0, faults' = 0
  PROVE  Calm'
<1>1. /\ cs.at = "prune_record_read" /\ readable /\ record' = record /\ log' = log
      /\ cs \in Sections /\ QuietSection
  BY QuietCharge, TypeParts DEF PruneRecordRead, Calm, stores
<1>2. cs.cur \in Runs /\ (Absent(cs.cur) \/ record[cs.cur].status = "terminal")
  BY <1>1 DEF TypeInv, Held, PruningOne, PrunePoints, Inv, PruneAt, RunInv, RecordInv
<1>3. ~Absent(cs.cur) => cs.tries = 0 /\ cs.pending /\ ~LastTry
  BY <1>1, ConfigAssumption DEF QuietSection, Unspoilt, LastTry
<1>4. /\ task' = task /\ failed' = failed
      /\ \/ cs' = [cs EXCEPT !.at = "prune_verify", !.tries = 0]
         \/ ~Absent(cs.cur) /\ cs' = [cs EXCEPT !.at = "prune_record", !.tries = @ + 1]
  BY <1>1, <1>2, <1>3 DEF PruneRecordRead, failStop, Goto, Retry, Absent
<1>5. /\ cs'.at \in {"prune_record", "prune_verify"} /\ cs'.then = cs.then
      /\ cs'.tries = 0 \/ (cs'.tries = 1 /\ cs'.pending)
      /\ cs'.result = "failed" /\ cs'.holder = cs.holder /\ cs'.pending = cs.pending
  <2>1. CASE cs' = [cs EXCEPT !.at = "prune_verify", !.tries = 0]
    BY <1>1, <2>1 DEF Sections, QuietSection
  <2>2. CASE ~Absent(cs.cur) /\ cs' = [cs EXCEPT !.at = "prune_record", !.tries = @ + 1]
    <3>1. cs.pending /\ cs.tries = 0
      BY <1>3, <2>2
    <3>2. cs.tries + 1 = 1
      BY <3>1
    <3>3. cs' = [cs EXCEPT !.at = "prune_record", !.tries = 1]
      BY <3>2, <2>2
    <3> QED
      BY <1>1, <3>1, <3>3 DEF Sections, QuietSection
  <2> QED
    BY <1>4, <2>1, <2>2
<1> QED
  BY <1>1, <1>4, <1>5, ReadGoesCalm DEF CreatePoints, QuietSection

LEMMA PruneVerifyCalm ==
  ASSUME TypeInv, Inv, Calm, Quiet, NEW readable \in BOOLEAN, PruneVerify(readable), faults' = 0
  PROVE  Calm'
<1>1. /\ cs.at = "prune_verify" /\ readable /\ record' = record /\ log' = log
      /\ cs \in Sections /\ QuietSection
  BY QuietCharge, TypeParts DEF PruneVerify, Calm, stores, Quiet
<1>2. log[cs.cur].owner = "none"
  BY <1>1, QuietLogs DEF TypeInv, Held, PruningOne, PrunePoints, Inv, PruneAt, Own
<1>3. task' = task /\ failed' = failed /\ cs' = [cs EXCEPT !.at = "next", !.tries = 0]
  BY <1>1, <1>2 DEF PruneVerify, failStop, Goto
<1>4. /\ cs'.at = "next" /\ cs'.then = cs.then
      /\ cs'.result = "failed" /\ cs'.holder = cs.holder /\ cs'.pending = cs.pending
  BY <1>1, <1>3 DEF Sections, QuietSection
<1> QED
  BY <1>1, <1>3, <1>4, ReadGoesCalm DEF CreatePoints, QuietSection

LEMMA PruneNextCalm ==
  ASSUME TypeInv, Inv, Calm, NEW r \in Runs, PruneNext(r)
  PROVE  Calm'
<1>1. cs.at = "next" /\ r \in cs.todo /\ record' = record /\ log' = log
      /\ cs \in Sections /\ QuietSection
  BY TypeParts DEF PruneNext, Calm, stores
<1>2. token[r]
  <2>1. record[r].expired
    BY <1>1 DEF Inv, PruneAt
  <2> QED
    BY <2>1 DEF Inv, RunInv, RecordInv, Absent
<1>3. /\ task' = task /\ failed' = failed
      /\ cs' = [cs EXCEPT !.at = "prune_log", !.cur = r, !.todo = @ \ {r}, !.tries = 0]
  BY <1>2 DEF PruneNext, failStop
<1>4. /\ cs'.at = "prune_log" /\ cs'.then = cs.then
      /\ cs'.result = "failed" /\ cs'.holder = cs.holder /\ cs'.pending = cs.pending
  BY <1>1, <1>3 DEF Sections, QuietSection
<1> QED
  BY <1>1, <1>3, <1>4, ReadGoesCalm DEF CreatePoints, QuietSection

LEMMA PruneDoneCalm == ASSUME TypeInv, Inv, Calm, PruneDone PROVE Calm'
<1>1. cs.at = "next" /\ record' = record /\ log' = log /\ failed' = failed
      /\ cs \in Sections /\ QuietSection /\ cs.pending \in BOOLEAN
  BY TypeParts DEF PruneDone, Calm, stores, failStop, Sections
<1>2. CASE Leave("cancelled", cs.pending)
  BY <1>1, <1>2, LeavesCalm DEF Refused
<1>3. CASE task' = task /\ cs' = [cs EXCEPT !.at = "create", !.tries = 0, !.cur = NoRun]
  <2>1. /\ cs'.at = "create" /\ cs'.then = cs.then /\ cs'.tries = 0
        /\ cs'.result = "failed" /\ cs'.holder = cs.holder /\ cs'.pending = cs.pending
    BY <1>1, <1>3 DEF Sections, QuietSection
  <2> QED
    BY <1>1, <1>3, <2>1, ReadGoesCalm DEF QuietSection
<1> QED
  BY <1>2, <1>3 DEF PruneDone

\* No step of the section stops the service.
LEMMA SectionCalm ==
  ASSUME Attempts >= 2, TypeInv, Inv, Calm, Quiet, NotBegun, Section, faults' = 0
  PROVE  Calm'
<1>1. faults = 0 /\ cs.at # "restore"
  BY DEF Quiet, Calm, QuietSection
<1>2. ASSUME NEW x \in Reply, SectionCall(x) PROVE Calm'
  <2>1. ~RestoreLog(x) /\ ~RestoreCreated(x)
    BY <1>1 DEF RestoreLog, RestoreCreated
  <2> QED
    BY <1>1, <1>2, <2>1, CreateCalm, ProbeCalm, OpenLogCalm, EmitCreatedCalm, DeleteLogCalm,
       DeleteRecordCalm, PruneListCalm, PruneLogCalm, PruneRecordCalm DEF SectionCall
<1>3. ASSUME NEW b \in BOOLEAN, SectionRead(b) PROVE Calm'
  <2>1. ~RestoreEnds(b)
    BY <1>1 DEF RestoreEnds
  <2> QED
    BY <1>1, <1>3, <2>1, CreateReadCalm, ClassifyCalm, CommitCalm, DeleteLogReadCalm,
       DeleteRecordReadCalm, VerifyLogGoneCalm, PruneLogReadCalm, PruneRecordReadCalm,
       PruneVerifyCalm DEF SectionRead
<1> QED
  BY <1>2, <1>3, PruneNextCalm, PruneDoneCalm DEF Section

\* A step outside the section.
LEMMA OutsideCalm ==
  ASSUME TypeInv, Calm, cs' = cs, failed' = failed,
         \A r \in Runs : /\ log'[r].owner = "own" => Own(r)
                         /\ record'[r].status # "absent" => ~Absent(r),
         \A r \in Runs : QuietTask(r)'
  PROVE  Calm'
<1>1. /\ cs.at \in {"del_log_read", "del_record_read"} => cs.run \in Runs
      /\ cs.at = "prune_record_read" => cs.cur \in Runs
  BY DEF TypeInv, Held, PruningOne, PrunePoints
<1>2. QuietSection'
  BY <1>1 DEF Calm, QuietSection, FirstTry, Unspoilt, Own, Absent
<1> QED
  BY <1>2 DEF Calm

\* A step of one task: every call of it succeeds, and every read finds what it expects.
LEMMA TaskStepCalm ==
  ASSUME TypeInv, Inv, Calm, NEW r \in Runs, TaskStep(r), faults = 0, faults' = 0
  PROVE  Calm'
<1> DEFINE Good == /\ cs' = cs /\ failed' = failed
                   /\ \A q \in Runs \ {r} : task'[q] = task[q] /\ record'[q] = record[q]
                                              /\ log'[q] = log[q]
                   /\ log'[r].owner = log[r].owner
                   /\ record'[r].status # "absent" => ~Absent(r)
                   /\ QuietTask(r)'
<1>1. Good => Calm'
  <2> SUFFICES ASSUME Good PROVE Calm'
    OBVIOUS
  <2>1. \A q \in Runs : QuietTask(q)'
    BY TaskStaysQuiet DEF Calm
  <2>2. \A q \in Runs : /\ log'[q].owner = "own" => Own(q)
                        /\ record'[q].status # "absent" => ~Absent(q)
    BY DEF Own, Absent
  <2> QED
    BY <2>1, <2>2, OutsideCalm
<1>2. /\ record \in [Runs -> RunRecords] /\ log \in [Runs -> Logs] /\ task \in [Runs -> TaskRecords]
      /\ QuietTask(r)
  BY TypeParts DEF Calm
<1>3. task[r].at \notin {"mark_read", "complete_read", "publish_last"}
  BY <1>2 DEF QuietTask
<1>4. ASSUME NEW x \in TaskReply, MarkRunning(r, x) PROVE Good
  <2>1. task[r].at = "mark" /\ Charge(x.raised) /\ x.raised \in BOOLEAN /\ (x.raised \/ x.applied)
    BY <1>4 DEF MarkRunning, TaskReply, Reply
  <2>2. ~x.raised /\ x.applied /\ Queued(r) /\ Own(r) /\ log[r].outcome = NoOutcome
    BY <1>2, <2>1, QuietCharge DEF QuietTask, Early, Unannounced
  <2>3. record' = [record EXCEPT ![r].status = "running"] /\ TaskTo(r, "start")
    BY <1>4, <2>2 DEF MarkRunning, Queued
  <2>4. cs' = cs /\ failed' = failed /\ log' = log
    BY <1>4 DEF MarkRunning, failStop
  <2>5. /\ task'[r].at = "start" /\ record'[r].status = "running"
        /\ \A q \in Runs \ {r} : task'[q] = task[q] /\ record'[q] = record[q]
    BY <1>2, <2>3 DEF TaskTo, TaskRecords, RunRecords
  <2>6. QuietTask(r)'
    BY <2>2, <2>4, <2>5 DEF QuietTask, Early, Working, Unannounced, Own
  <2> QED
    BY <2>2, <2>4, <2>5, <2>6 DEF Absent, Queued
<1>5. ASSUME NEW x \in TaskReply, NEW o \in {NoOutcome, "internal_error", "task_timeout"},
             StartRun(r, x, o)
      PROVE  Good
  <2>1. /\ task[r].at = "start" /\ record' = record /\ cs' = cs /\ failed' = failed
        /\ log' = log \/ log' = [log EXCEPT ![r].started = TRUE]
        /\ TaskTo(r, "agent") \/ Decide(r, o)
    BY <1>5 DEF StartRun, failStop
  <2>2. record[r].status = "running" /\ Own(r) /\ log[r].outcome = NoOutcome
    BY <1>2, <2>1 DEF QuietTask, Working, Unannounced
  <2>3. /\ log'[r].owner = log[r].owner /\ log'[r].outcome = log[r].outcome
        /\ \A q \in Runs \ {r} : log'[q] = log[q]
    BY <1>2, <2>1 DEF Logs
  <2>4. task'[r].at \in {"agent", "complete"} /\ \A q \in Runs \ {r} : task'[q] = task[q]
    BY <1>2, <2>1 DEF TaskTo, Decide, TaskRecords
  <2>5. QuietTask(r)'
    BY <2>1, <2>2, <2>3, <2>4 DEF QuietTask, Early, Working, Unannounced, Own
  <2> QED
    BY <2>1, <2>2, <2>3, <2>4, <2>5 DEF Absent
<1>6. ASSUME NEW x \in TaskReply, Complete(r, x) PROVE Good
  <2>1. task[r].at = "complete" /\ Charge(x.raised) /\ x.raised \in BOOLEAN /\ (x.raised \/ x.applied)
    BY <1>6 DEF Complete, TaskReply, Reply
  <2>2. /\ ~x.raised /\ x.applied /\ record[r].status = "running" /\ Own(r)
        /\ log[r].outcome = NoOutcome
    BY <1>2, <2>1, QuietCharge DEF QuietTask, Working, Unannounced
  <2>3. /\ record' = [record EXCEPT ![r].status = "terminal", ![r].outcome = task[r].outcome]
        /\ TaskTo(r, "publish")
    BY <1>6, <2>2 DEF Complete
  <2>4. cs' = cs /\ failed' = failed /\ log' = log
    BY <1>6 DEF Complete, failStop
  <2>5. task'[r].at = "publish" /\ \A q \in Runs \ {r} : task'[q] = task[q] /\ record'[q] = record[q]
    BY <1>2, <2>3 DEF TaskTo, TaskRecords, RunRecords
  <2>6. QuietTask(r)'
    BY <2>2, <2>4, <2>5 DEF QuietTask, Early, Working, Unannounced, Own
  <2> QED
    BY <2>2, <2>4, <2>5, <2>6 DEF Absent
<1>7. ASSUME NEW b \in BOOLEAN, PublishRead(r, b) PROVE Good
  <2>1. task[r].at = "publish" /\ b
    BY <1>7, QuietCharge DEF PublishRead
  <2>2. Own(r) /\ log[r].outcome = NoOutcome
    BY <1>2, <2>1 DEF QuietTask, Unannounced
  <2>3. task[r].outcome # NoOutcome
    BY <2>1 DEF Inv, RunInv, TaskInv, Terminalizing
  <2>4. task' = [task EXCEPT ![r].at = "publish_emit"]
    BY <1>7, <2>2, <2>3 DEF PublishRead, Announced, AnnouncedOurs
  <2>5. cs' = cs /\ failed' = failed /\ log' = log /\ record' = record
    BY <1>7 DEF PublishRead, failStop, stores
  <2>6. task'[r].at = "publish_emit" /\ \A q \in Runs \ {r} : task'[q] = task[q]
    BY <1>2, <2>4 DEF TaskRecords
  <2>7. QuietTask(r)'
    BY <2>2, <2>5, <2>6 DEF QuietTask, Early, Working, Unannounced, Own
  <2> QED
    BY <2>5, <2>6, <2>7 DEF Absent
<1>8. ASSUME NEW x \in TaskReply, PublishEmit(r, x) PROVE Good
  <2>1. task[r].at = "publish_emit" /\ Charge(x.raised) /\ x.raised \in BOOLEAN
    BY <1>8 DEF PublishEmit, TaskReply, Reply
  <2>2. ~x.raised /\ Own(r) /\ log[r].outcome = NoOutcome
    BY <1>2, <2>1, QuietCharge DEF QuietTask, Unannounced
  <2>3. TaskTo(r, "prune")
    BY <1>8, <2>2 DEF PublishEmit, Own
  <2>4. /\ cs' = cs /\ failed' = failed /\ record' = record
        /\ log' = log \/ log' = [log EXCEPT ![r].outcome = task[r].outcome]
    BY <1>8 DEF PublishEmit, failStop
  <2>5. log'[r].owner = log[r].owner /\ \A q \in Runs \ {r} : log'[q] = log[q]
    BY <1>2, <2>4 DEF Logs
  <2>6. task'[r].at = "prune" /\ \A q \in Runs \ {r} : task'[q] = task[q]
    BY <1>2, <2>3 DEF TaskTo, TaskRecords
  <2>7. QuietTask(r)'
    BY <2>6 DEF QuietTask, Early, Working, Unannounced
  <2> QED
    BY <2>4, <2>5, <2>6, <2>7 DEF Absent
<1>9. \A b \in BOOLEAN : ~MarkRead(r, b) /\ ~CompleteRead(r, b) /\ ~PublishLast(r, b)
  BY <1>3 DEF MarkRead, CompleteRead, PublishLast
<1> HIDE DEF Good
<1> QED
  BY <1>1, <1>4, <1>5, <1>6, <1>7, <1>8, <1>9 DEF TaskStep, TaskCall, TaskRead

\* The agent, the semaphore and the lock.
LEMMA TaskMovesCalm ==
  ASSUME TypeInv, Inv, Calm, NEW r \in Runs,
         \/ Acquire(r) \/ TimeoutExpires(r) \/ TaskPrune(r)
         \/ \E o \in Results \cup {"internal_error"} : AgentReturns(r, o)
  PROVE  Calm'
<1>1. record' = record /\ log' = log /\ failed' = failed /\ QuietTask(r) /\ task \in [Runs -> TaskRecords]
  BY TypeParts DEF Acquire, TimeoutExpires, TaskPrune, AgentReturns, stores, failStop, Calm
<1>2. ASSUME QuietTask(r)', \A q \in Runs \ {r} : task'[q] = task[q]
      PROVE  \A q \in Runs : QuietTask(q)'
  BY <1>1, <1>2, TaskStaysQuiet DEF Calm
<1>3. ASSUME Acquire(r) PROVE Calm'
  <2>1. /\ task[r].at = "queued" /\ cs' = cs
        /\ task'[r].at = "mark" /\ \A q \in Runs \ {r} : task'[q] = task[q]
    BY <1>1, <1>3 DEF Acquire, TaskTo, TaskRecords
  <2>2. QuietTask(r)'
    BY <1>1, <2>1 DEF QuietTask, Early, Working, Unannounced, Own, Queued
  <2> QED
    BY <1>1, <1>2, <2>1, <2>2, OutsideCalm DEF Own, Absent
<1>4. ASSUME NEW p \in Outcomes, task[r].at = "agent", Decide(r, p), cs' = cs PROVE Calm'
  <2>1. task'[r].at = "complete" /\ \A q \in Runs \ {r} : task'[q] = task[q]
    BY <1>1, <1>4 DEF Decide, TaskRecords
  <2>2. QuietTask(r)'
    BY <1>1, <1>4, <2>1 DEF QuietTask, Early, Working, Unannounced, Own, Queued
  <2> QED
    BY <1>1, <1>2, <1>4, <2>1, <2>2, OutsideCalm DEF Own, Absent
<1>5. ASSUME TaskPrune(r) PROVE Calm'
  <2>1. /\ cs' = [Free EXCEPT !.at = "list", !.holder = "task", !.run = r]
        /\ task'[r].at = "pruning" /\ \A q \in Runs \ {r} : task'[q] = task[q]
    BY <1>1, <1>5 DEF TaskPrune, TaskTo, TaskRecords
  <2>2. QuietTask(r)'
    BY <2>1 DEF QuietTask, Early, Working, Unannounced
  <2>3. QuietSection'
    BY <2>1 DEF Free, QuietSection, CreatePoints
  <2> QED
    BY <1>1, <1>2, <2>1, <2>2, <2>3 DEF Calm
<1> QED
  BY <1>3, <1>4, <1>5, AgentCases

\* Submissions, cancellations, shutdown and the environment.
LEMMA OtherStepsCalm ==
  ASSUME TypeInv, Inv, Calm, ForeignLogs' = {},
         \/ \E r \in Runs : Submit(r)
         \/ CancelSubmit \/ Shutdown \/ ShutdownReturns \/ Environment \/ UNCHANGED vars
  PROVE  Calm'
<1>1. QuietSection /\ ~failed /\ cs \in Sections /\ \A r \in Runs : QuietTask(r)
  BY TypeParts DEF Calm
<1>2. ASSUME NEW r \in Runs, Submit(r) PROVE Calm'
  <2>1. record' = record /\ log' = log /\ task' = task /\ failed' = failed
    BY <1>2 DEF Submit, stores, failStop
  <2>2. CASE cs' = cs
    BY <1>1, <2>1, <2>2, TaskStaysQuiet, OutsideCalm DEF Own, Absent
  <2>3. CASE cs' = [Free EXCEPT !.at = "list", !.holder = "submit", !.run = r]
    <3>1. QuietSection'
      BY <2>3 DEF Free, QuietSection, CreatePoints
    <3> QED
      BY <1>1, <2>1, <3>1, TaskStaysQuiet DEF Calm
  <2> QED
    BY <1>2, <2>2, <2>3 DEF Submit
<1>3. ASSUME CancelSubmit PROVE Calm'
  <2>1. /\ record' = record /\ log' = log /\ task' = task /\ failed' = failed
        /\ cs' = [cs EXCEPT !.pending = TRUE] /\ cs.holder = "submit" /\ ~cs.pending
    BY <1>3 DEF CancelSubmit, stores, failStop
  <2>2. /\ cs'.at = cs.at /\ cs'.holder = "submit" /\ cs'.run = cs.run /\ cs'.cur = cs.cur
        /\ cs'.tries = cs.tries /\ cs'.result = cs.result /\ cs'.then = cs.then /\ cs'.pending
    BY <1>1, <2>1 DEF Sections
  <2>3. QuietSection'
    BY <1>1, <2>1, <2>2 DEF QuietSection, CreatePoints, FirstTry, Unspoilt, Own, Absent
  <2> QED
    BY <1>1, <2>1, <2>3, TaskStaysQuiet DEF Calm
<1>4. ASSUME Shutdown \/ ShutdownReturns PROVE Calm'
  <2>1. record' = record /\ log' = log /\ failed' = failed /\ cs' = cs
    BY <1>4 DEF Shutdown, ShutdownReturns, stores, failStop
  <2>2. \A r \in Runs : task'[r].at = task[r].at \/ task'[r].at \in Settled
    BY <1>4, TypeParts DEF Shutdown, ShutdownReturns, Settled, Ended, TaskRecords
  <2>3. \A r \in Runs : QuietTask(r)'
    BY <1>1, <2>1, <2>2, TaskStaysQuiet
  <2> QED
    BY <2>1, <2>3, OutsideCalm DEF Own, Absent
<1>5. ASSUME NEW r \in Runs,
             RetentionPasses(r) \/ AttachStream(r) \/ DetachStream(r) \/ ForeignProducer(r)
      PROVE  Calm'
  <2>1. cs' = cs /\ failed' = failed /\ task' = task
    BY <1>5 DEF RetentionPasses, AttachStream, DetachStream, ForeignProducer, failStop
  <2>2. ~ForeignProducer(r)
    <3>1. ASSUME ForeignProducer(r) PROVE FALSE
      <4>1. log'[r].owner = "foreign"
        BY <3>1, TypeParts DEF ForeignProducer, Logs
      <4> QED
        BY <4>1 DEF ForeignLogs
    <3> QED
      BY <3>1
  <2>3. \A q \in Runs : /\ record'[q].status = record[q].status
                        /\ log'[q].owner = log[q].owner /\ log'[q].outcome = log[q].outcome
    BY <1>5, <2>2, TypeParts DEF RetentionPasses, AttachStream, DetachStream, RunRecords, Logs
  <2>4. \A q \in Runs : QuietTask(q)'
    BY <1>1, <2>1, <2>3, TaskStaysQuiet
  <2> QED
    BY <2>1, <2>3, <2>4, OutsideCalm DEF Own, Absent
<1>6. ASSUME UNCHANGED vars PROVE Calm'
  BY <1>1, <1>6, TaskStaysQuiet, OutsideCalm DEF vars, Own, Absent
<1> QED
  BY <1>2, <1>3, <1>4, <1>5, <1>6 DEF Environment

\* What has failed has failed: the number of failed calls never shrinks.
LEMMA FaultsGrow == ASSUME TypeInv, [Next]_vars, faults' = 0 PROVE faults = 0
<1>1. faults \in Nat
  BY TypeParts
<1>2. ASSUME NEW bad, Charge(bad) PROVE faults = 0
  BY <1>1, <1>2 DEF Charge
<1>3. ASSUME NEW x \in Reply, SectionCall(x) PROVE faults = 0
  BY <1>2, <1>3 DEF SectionCall, Create, Probe, OpenLog, EmitCreated, DeleteLog, DeleteRecord,
     RestoreLog, RestoreCreated, PruneList, PruneLog, PruneRecord, Called
<1>4. ASSUME NEW b \in BOOLEAN, SectionRead(b) PROVE faults = 0
  BY <1>2, <1>4 DEF SectionRead, CreateRead, Classify, Commit, DeleteLogRead, DeleteRecordRead,
     VerifyLogGone, RestoreEnds, PruneLogRead, PruneRecordRead, PruneVerify
<1>5. ASSUME NEW r \in Runs, TaskStep(r) PROVE faults = 0
  BY <1>2, <1>5 DEF TaskStep, TaskCall, TaskRead, MarkRunning, Complete, PublishEmit, StartRun,
     MarkRead, CompleteRead, PublishRead, PublishLast
<1>6. ASSUME Section PROVE faults = 0
  BY <1>3, <1>4, <1>6 DEF Section, PruneNext, PruneDone
<1>7. CASE faults' = faults
  BY <1>7
<1>8. ASSUME \/ CancelSubmit \/ Shutdown \/ ShutdownReturns \/ Environment \/ UNCHANGED vars
             \/ \E r \in Runs : Submit(r) \/ Acquire(r) \/ TimeoutExpires(r) \/ TaskPrune(r)
             \/ \E r \in Runs, o \in Results \cup {"internal_error"} : AgentReturns(r, o)
      PROVE  faults' = faults
  BY <1>8 DEF CancelSubmit, Shutdown, ShutdownReturns, Environment, RetentionPasses, AttachStream,
     DetachStream, ForeignProducer, vars, Submit, Acquire, TimeoutExpires, TaskPrune, AgentReturns
<1> QED
  BY <1>5, <1>6, <1>7, <1>8 DEF Next

\* Nor does the log of another producer ever go away: a quiet state follows on
\* quiet states only.
LEMMA QuietBefore == ASSUME TypeInv, Inv, [Next]_vars, Quiet' PROVE Quiet
<1>1. faults = 0
  BY FaultsGrow DEF Quiet
<1>2. StoreStep
  BY StepEffect
<1>3. \A r \in Runs : log[r].owner = "foreign" => log'[r] = log[r]
  BY <1>2 DEF StoreStep, Touched
<1> QED
  BY <1>1, <1>3 DEF Quiet, ForeignLogs

\* A log is begun by the task of its run, or by a reader of the run's events.
Untouched(r) ==
  \/ log'[r] = NoLog
  \/ /\ log'[r].outcome = log[r].outcome /\ log'[r].started = log[r].started
     /\ log'[r].streams = log[r].streams

LEMMA UntouchedCalls ==
  ASSUME TypeInv, NEW q \in Runs
  PROVE  /\ log' = log => \A r \in Runs : Untouched(r)
         /\ log' = LogOpened(q) => \A r \in Runs : Untouched(r)
         /\ \A o : log' = [log EXCEPT ![q].owner = o] => \A r \in Runs : Untouched(r)
         /\ \A b : log' = LogDeleted(q, b) => \A r \in Runs : Untouched(r)
         /\ log' = [log EXCEPT ![q].created = TRUE] => \A r \in Runs : Untouched(r)
<1>1. log \in [Runs -> Logs]
  BY TypeParts
<1>2. ASSUME log' = LogOpened(q) PROVE \A r \in Runs : Untouched(r)
  BY <1>1, <1>2 DEF LogOpened, Untouched, Logs
<1>3. ASSUME NEW b, log' = LogDeleted(q, b) PROVE \A r \in Runs : Untouched(r)
  BY <1>1, <1>3 DEF LogDeleted, Untouched
<1>4. ASSUME log' = [log EXCEPT ![q].created = TRUE] PROVE \A r \in Runs : Untouched(r)
  BY <1>1, <1>4 DEF Untouched, Logs
<1>5. ASSUME NEW o, log' = [log EXCEPT ![q].owner = o] PROVE \A r \in Runs : Untouched(r)
  BY <1>1, <1>5 DEF Untouched, Logs
<1> QED
  BY <1>2, <1>3, <1>4, <1>5 DEF Untouched

LEMMA SectionBegins ==
  ASSUME TypeInv, Section PROVE \A r \in Runs : Untouched(r)
<1>1. ASSUME NEW x \in Reply, SectionCall(x) PROVE \A r \in Runs : Untouched(r)
  <2>1. CASE \/ OpenLog(x) \/ EmitCreated(x) \/ DeleteLog(x) \/ RestoreLog(x) \/ RestoreCreated(x)
    <3>1. cs.run \in Runs
      BY <2>1 DEF TypeInv, Held, OpenLog, EmitCreated, DeleteLog, RestoreLog, RestoreCreated
    <3>2. \/ log' = log \/ log' = LogOpened(cs.run) \/ log' = LogDeleted(cs.run, TRUE)
          \/ log' = [log EXCEPT ![cs.run].created = TRUE]
      BY <2>1 DEF OpenLog, EmitCreated, DeleteLog, RestoreLog, RestoreCreated
    <3> QED
      BY <3>1, <3>2, UntouchedCalls
  <2>2. CASE PruneLog(x)
    <3>1. cs.cur \in Runs
      BY <2>2 DEF TypeInv, Held, PruneLog, PruningOne, PrunePoints
    <3>2. log' = log \/ log' = LogDeleted(cs.cur, FALSE)
      BY <2>2 DEF PruneLog
    <3> QED
      BY <3>1, <3>2, UntouchedCalls
  <2>3. CASE Create(x) \/ Probe(x) \/ DeleteRecord(x) \/ PruneList(x) \/ PruneRecord(x)
    <3>1. log' = log
      BY <2>3 DEF Create, Probe, DeleteRecord, PruneList, PruneRecord, stores
    <3> QED
      BY <3>1 DEF Untouched
  <2> QED
    BY <1>1, <2>1, <2>2, <2>3 DEF SectionCall
<1>2. ASSUME \/ PruneDone \/ \E r \in Runs : PruneNext(r)
             \/ \E b \in BOOLEAN : SectionRead(b)
      PROVE  log' = log
  BY <1>2 DEF PruneDone, PruneNext, SectionRead, CreateRead, Classify, Commit, DeleteLogRead,
     DeleteRecordRead, VerifyLogGone, RestoreEnds, PruneLogRead, PruneRecordRead, PruneVerify, stores
<1> QED
  BY <1>1, <1>2 DEF Section, Untouched

LEMMA NotBegunStep == ASSUME TypeInv, Inv, NotBegun, [Next]_vars PROVE NotBegun'
<1>1. \A r \in Runs : submission'[r] # "accepted" => submission[r] # "accepted"
  BY StepStops DEF StopStep
<1>2. ASSUME \A r \in Runs : submission[r] # "accepted" => Untouched(r) PROVE NotBegun'
  BY <1>1, <1>2 DEF NotBegun, Untouched, NoLog
<1>3. ASSUME NEW r \in Runs, TaskStep(r) PROVE NotBegun'
  <2>1. submission[r] = "accepted"
    BY <1>3, TaskFacts DEF TaskStep, TaskCall, TaskRead, MarkRunning, Complete, PublishEmit,
       StartRun,
       MarkRead, CompleteRead, PublishRead, PublishLast
  <2>2. \/ log' = log \/ log' = [log EXCEPT ![r].started = TRUE]
        \/ log' = [log EXCEPT ![r].outcome = task[r].outcome]
    BY <1>3 DEF TaskStep, TaskCall, TaskRead, MarkRunning, Complete, PublishEmit, StartRun,
       MarkRead, CompleteRead, PublishRead, PublishLast, stores
  <2>3. \A q \in Runs \ {r} : log'[q] = log[q]
    BY <2>2, TypeParts
  <2> QED
    BY <1>2, <2>1, <2>3 DEF Untouched
<1>4. ASSUME NEW r \in Runs,
             RetentionPasses(r) \/ AttachStream(r) \/ DetachStream(r) \/ ForeignProducer(r)
      PROVE  NotBegun'
  <2>1. CASE RetentionPasses(r)
    BY <1>2, <2>1 DEF RetentionPasses, Untouched
  <2>2. CASE AttachStream(r) \/ DetachStream(r)
    <3>1. submission[r] = "accepted"
      BY <2>2 DEF AttachStream, DetachStream, NotBegun
    <3>2. \A q \in Runs \ {r} : log'[q] = log[q]
      BY <2>2, TypeParts DEF AttachStream, DetachStream
    <3> QED
      BY <1>2, <3>1, <3>2 DEF Untouched
  <2>3. CASE ForeignProducer(r)
    BY <1>2, <2>3, UntouchedCalls DEF ForeignProducer
  <2> QED
    BY <1>4, <2>1, <2>2, <2>3
<1>5. ASSUME \/ CancelSubmit \/ Shutdown \/ ShutdownReturns \/ UNCHANGED vars
             \/ \E r \in Runs : Submit(r) \/ Acquire(r) \/ TimeoutExpires(r) \/ TaskPrune(r)
             \/ \E r \in Runs, o \in Results \cup {"internal_error"} : AgentReturns(r, o)
      PROVE  NotBegun'
  <2>1. log' = log
    BY <1>5 DEF CancelSubmit, Shutdown, ShutdownReturns, vars, Submit, Acquire, TimeoutExpires,
       TaskPrune, AgentReturns, stores
  <2> QED
    BY <1>2, <2>1 DEF Untouched
<1> QED
  BY <1>2, <1>3, <1>4, <1>5, SectionBegins DEF Next, Environment

LEMMA InitCalm == Init => QuietInv
<1> SUFFICES ASSUME Init PROVE QuietInv
  OBVIOUS
<1>1. NotBegun
  BY DEF Init, NotBegun, NoLog
<1>2. Calm
  BY DEF Init, Calm, QuietSection, CreatePoints, QuietTask, Early, Working, Unannounced,
     NoTask, Free
<1> QED
  BY <1>1, <1>2 DEF QuietInv

LEMMA StepCalm ==
  ASSUME Attempts >= 2 PROVE TypeInv /\ Inv /\ QuietInv /\ [Next]_vars => QuietInv'
<1> SUFFICES ASSUME TypeInv, Inv, QuietInv, [Next]_vars, Quiet' PROVE Calm'
  BY NotBegunStep DEF QuietInv
<1>1. Quiet /\ NotBegun /\ Calm /\ faults = 0 /\ faults' = 0 /\ ForeignLogs' = {}
  BY QuietBefore DEF QuietInv, Quiet
<1>2. CASE Section
  BY <1>1, <1>2, SectionCalm
<1>3. ASSUME NEW r \in Runs, TaskStep(r) PROVE Calm'
  BY <1>1, <1>3, TaskStepCalm
<1>4. ASSUME NEW r \in Runs,
             \/ Acquire(r) \/ TimeoutExpires(r) \/ TaskPrune(r)
             \/ \E o \in Results \cup {"internal_error"} : AgentReturns(r, o)
      PROVE  Calm'
  BY <1>1, <1>4, TaskMovesCalm
<1>5. CASE \/ \E r \in Runs : Submit(r)
           \/ CancelSubmit \/ Shutdown \/ ShutdownReturns \/ Environment \/ UNCHANGED vars
  BY <1>1, <1>5, OtherStepsCalm
<1> QED
  BY <1>2, <1>3, <1>4, <1>5 DEF Next

\* With at least two attempts at a call (the code makes three), the service
\* stops itself only if a store call failed or another producer has a log under
\* one of its ids: open streams, cancelled requests, retention, timeouts and
\* shutdown are never mistaken for an inconsistency, in any interleaving.
THEOREM StopsOnlyForCause == ASSUME Attempts >= 2 PROVE Spec => []NoSpuriousFailStop
<1>1. Init => QuietInv
  BY InitCalm
<1>2. TypeInv /\ Inv /\ QuietInv /\ [Next]_vars => QuietInv'
  BY StepCalm
<1>3. TypeInv /\ QuietInv => NoSpuriousFailStop
  BY TypeParts DEF QuietInv, Quiet, Calm, NoSpuriousFailStop
<1> QED
  BY <1>1, <1>2, <1>3, InvCorrect, PTL DEF Spec
=============================================================================
