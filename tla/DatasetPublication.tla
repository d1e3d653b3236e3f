--------------------------- MODULE DatasetPublication ---------------------------
(***************************************************************************)
(* Generation, loading and verification of the fixed dataset               *)
(* (data_generation/pipeline.py, loader.py, writer.py and cli.py).         *)
(*                                                                         *)
(* A process of governed-data runs one job: "generate" builds a snapshot   *)
(* in a private staging directory, loads it into the database in one       *)
(* transaction and publishes the files one by one with a backup to roll    *)
(* back to; "verify" reads the published evidence, rebuilds and reloads    *)
(* the snapshot and compares.  A file or a table is abstracted to the      *)
(* configuration version it was generated from: generation is              *)
(* deterministic, so equal versions are equal bytes.                       *)
(*                                                                         *)
(* Nothing locks the output root.  A process can be interrupted (ctrl-C)   *)
(* or killed at any step; only an OSError of a file replacement is rolled  *)
(* back.                                                                   *)
(***************************************************************************)
EXTENDS Naturals, Sequences, FiniteSets

CONSTANTS Procs,           \* processes of the command line tool
          TableLoadOrder,  \* TABLE_LOAD_ORDER, a sequence of table names
          Versions,        \* versions of the generator and its configuration
          MaxJobs,         \* bound: jobs started
          MaxFaults        \* bound: OSErrors, interruptions and configuration changes

Evidence == <<"anomaly_manifest", "source_csv_digests", "dataset_manifest">>

\* _PUBLISHED_ARTIFACTS: the CSV of each table, then the evidence, manifest last.
PublishedArtifacts == TableLoadOrder \o Evidence

Tables == {TableLoadOrder[i] : i \in DOMAIN TableLoadOrder}
Artifacts == {PublishedArtifacts[i] : i \in DOMAIN PublishedArtifacts}
Artifact(i) == PublishedArtifacts[i]
LastArtifact == Len(PublishedArtifacts)

Absent == "absent"           \* no file at that name
Directory == "directory"     \* a user's directory: exists and is not a file

ASSUME DatasetAssumption ==
    /\ MaxJobs \in Nat /\ MaxFaults \in Nat
    /\ Versions # {} /\ "nobody" \notin Procs
    /\ TableLoadOrder \in Seq(STRING) /\ TableLoadOrder # <<>>
    /\ {Absent, Directory} \cap Versions = {}
    /\ Tables \cap {Evidence[i] : i \in 1 .. 3} = {}

Outcomes == {"none", "succeeded", "failed", "publish_error", "rollback_failed",
             "evidence_invalid", "mismatch", "interrupted"}

VARIABLES version,  \* the version in the checkout: what a new job generates
          root,     \* artifact -> version of the published file
          db,       \* table -> committed version
          txn,      \* the open loading transaction: its process and table contents
          proc,     \* per process, its job and where it is
          torn,     \* history: a publication of this root ended half-way
          jobs, faults

vars == <<version, root, db, txn, proc, torn, jobs, faults>>

Idle(outcome) ==
    [pc |-> "idle", job |-> "none", ver |-> Absent, next |-> 1, outcome |-> outcome,
     prior |-> [a \in Artifacts |-> Absent], read |-> [a \in Artifacts |-> Absent],
     before |-> [a \in Artifacts |-> Absent], alone |-> TRUE]

NoTxn == [by |-> "nobody", content |-> [t \in Tables |-> Absent]]

IsFile(content) == content \in Versions

\* The published names are free, or a user keeps a directory at one of them.
Init ==
    /\ version \in Versions
    /\ root \in {[a \in Artifacts |-> IF a \in D THEN Directory ELSE Absent] :
                    D \in {{}, {Artifact(LastArtifact)}}}
    /\ db = [t \in Tables |-> Absent]
    /\ txn = NoTxn
    /\ proc = [p \in Procs |-> Idle("none")]
    /\ torn = FALSE
    /\ jobs = 0 /\ faults = 0

At(p, pc) == proc[p].pc = pc
Ends(p, outcome) == proc' = [proc EXCEPT ![p] = Idle(outcome)]
Goes(p, pc) == proc' = [proc EXCEPT ![p].pc = pc]
Fault == faults < MaxFaults /\ faults' = faults + 1

(***************************************************************************)
(* The two commands                                                        *)
(***************************************************************************)
\* main ... _generate: the configuration in the checkout is what is generated.
StartGenerate(p) ==
    /\ At(p, "idle") /\ jobs < MaxJobs
    /\ jobs' = jobs + 1
    /\ proc' = [proc EXCEPT ![p] = [Idle("none") EXCEPT
                    !.pc = "stage", !.job = "generate", !.ver = version]]
    /\ UNCHANGED <<version, root, db, txn, torn, faults>>

\* main ... _verify: without a manifest there is nothing to verify.
StartVerify(p) ==
    /\ At(p, "idle") /\ jobs < MaxJobs
    /\ jobs' = jobs + 1
    /\ IF IsFile(root["dataset_manifest"])
       THEN proc' = [proc EXCEPT ![p] = [Idle("none") EXCEPT
                        !.pc = "evidence", !.job = "verify"]]
       ELSE Ends(p, "evidence_invalid")
    /\ UNCHANGED <<version, root, db, txn, torn, faults>>

\* _load_dataset_manifest, then the anomalies, then the source digests: one
\* file at a time, while another process may be publishing.
EvidenceOrder == <<"dataset_manifest", "anomaly_manifest", "source_csv_digests">>

LoadEvidence(p) ==
    LET a == EvidenceOrder[proc[p].next]
        last == proc[p].next = 3
    IN  /\ At(p, "evidence")
        /\ IF ~IsFile(root[a]) THEN Ends(p, "evidence_invalid")
           ELSE proc' = [proc EXCEPT
                    ![p].read[a] = root[a],
                    ![p].next = IF last THEN 1 ELSE @ + 1,
                    ![p].pc = IF last THEN "stage" ELSE "evidence",
                    ![p].ver = IF last THEN version ELSE @]
        /\ UNCHANGED <<version, root, db, txn, torn, jobs, faults>>

(***************************************************************************)
(* _generate_and_load_staged: private files, then one transaction          *)
(***************************************************************************)
\* The CSVs and the first evidence files, in a private directory.
StageFiles(p) ==
    /\ At(p, "stage")
    /\ Goes(p, "connect")
    /\ UNCHANGED <<version, root, db, txn, torn, jobs, faults>>

\* load_csvs: the reset truncates every table, whose lock keeps other
\* loaders waiting until this transaction ends.
ResetTables(p) ==
    /\ At(p, "connect") /\ txn = NoTxn
    /\ txn' = [by |-> p, content |-> [t \in Tables |-> Absent]]
    /\ proc' = [proc EXCEPT ![p].pc = "copy", ![p].next = 1]
    /\ UNCHANGED <<version, root, db, torn, jobs, faults>>

\* _copy_from_csv of the next table, with the header it must have.
CopyTable(p) ==
    LET t == TableLoadOrder[proc[p].next]
    IN  /\ At(p, "copy") /\ txn.by = p
        /\ txn' = [txn EXCEPT !.content[t] = proc[p].ver]
        /\ proc' = [proc EXCEPT
                ![p].next = IF @ = Len(TableLoadOrder) THEN 1 ELSE @ + 1,
                ![p].pc = IF proc[p].next = Len(TableLoadOrder) THEN "commit" ELSE "copy"]
        /\ UNCHANGED <<version, root, db, torn, jobs, faults>>

\* Identities verified and digests taken inside the transaction, which the end
\* of the with block commits; then the staged manifest is written.
CommitLoad(p) ==
    /\ At(p, "commit") /\ txn.by = p
    /\ db' = txn.content
    /\ txn' = NoTxn
    /\ Goes(p, IF proc[p].job = "generate" THEN "backup" ELSE "compare")
    /\ UNCHANGED <<version, root, torn, jobs, faults>>

\* Any exception before the publication (of a verify, in its private one too):
\* the transaction is rolled back and the temporary directories are removed;
\* main reports a failed operation.
AbandonTxn(p) == txn' = IF txn.by = p THEN NoTxn ELSE txn

JobFails(p) ==
    /\ proc[p].pc \in {"stage", "connect", "copy", "commit", "compare"}
    /\ Fault
    /\ AbandonTxn(p)
    /\ Ends(p, "failed")
    /\ UNCHANGED <<version, root, db, torn, jobs>>

(***************************************************************************)
(* _publish_staged_snapshot                                                *)
(***************************************************************************)
Publishing(q) == proc[q].pc \in {"backup", "publish", "restore"}

\* _backup_known_artifacts, one artifact: a copy and whether it existed; a
\* target that is not a regular file stops the publication.
BackupArtifact(p) ==
    LET a == Artifact(proc[p].next)
        first == proc[p].next = 1
        last == proc[p].next = LastArtifact
    IN  /\ At(p, "backup")
        /\ IF root[a] = Directory THEN Ends(p, "failed")
           ELSE proc' = [proc EXCEPT
                    ![p].prior[a] = root[a],
                    ![p].before = IF first THEN root ELSE @,
                    ![p].alone = IF first THEN TRUE ELSE @,
                    ![p].next = IF last THEN 1 ELSE @ + 1,
                    ![p].pc = IF last THEN "publish" ELSE "backup"]
        /\ UNCHANGED <<version, root, db, txn, torn, jobs, faults>>

\* A write to the shared root is seen by every other job that is under way.
WriteRoot(p, a, content, progress) ==
    /\ root' = [root EXCEPT ![a] = content]
    /\ proc' = [q \in Procs |-> IF q = p THEN progress
                                ELSE [proc[q] EXCEPT !.alone = At(q, "idle")]]

\* _replace_file of the next staged artifact; after the last one the call
\* returns and the process reports the manifest.
ReplaceArtifact(p) ==
    LET last == proc[p].next = LastArtifact
    IN  /\ At(p, "publish")
        /\ WriteRoot(p, Artifact(proc[p].next), proc[p].ver,
               IF last THEN Idle("succeeded") ELSE [proc[p] EXCEPT !.next = @ + 1])
        /\ torn' = IF last THEN ~proc[p].alone ELSE torn
        /\ UNCHANGED <<version, db, txn, jobs, faults>>

\* A broken form of ReplaceFails: the rollback misses the first artifact.
ReplaceFailsOffByOne(p) ==
    /\ At(p, "publish") /\ Fault
    /\ proc' = [proc EXCEPT ![p].pc = "restore", ![p].next = 2]
    /\ UNCHANGED <<version, root, db, txn, torn, jobs>>

\* The replacement raises OSError: the rollback begins.
ReplaceFails(p) ==
    /\ At(p, "publish") /\ Fault
    /\ proc' = [proc EXCEPT ![p].pc = "restore", ![p].next = 1]
    /\ UNCHANGED <<version, root, db, txn, torn, jobs>>

\* A broken form of RestoreArtifact: what did not exist before is not unlinked.
RestoreWithoutUnlink(p) ==
    LET a == Artifact(proc[p].next)
        last == proc[p].next = LastArtifact
    IN  /\ At(p, "restore")
        /\ WriteRoot(p, a, IF IsFile(proc[p].prior[a]) THEN proc[p].prior[a] ELSE root[a],
               IF last THEN Idle("publish_error") ELSE [proc[p] EXCEPT !.next = @ + 1])
        /\ torn' = IF last THEN torn \/ ~proc[p].alone ELSE torn
        /\ UNCHANGED <<version, db, txn, jobs, faults>>

\* _restore_known_artifacts, one artifact: the backup replaces the target, or
\* a target that did not exist is unlinked; then the error is raised again.
RestoreArtifact(p) ==
    LET a == Artifact(proc[p].next)
        last == proc[p].next = LastArtifact
    IN  /\ At(p, "restore")
        /\ WriteRoot(p, a, proc[p].prior[a],
               IF last THEN Idle("publish_error") ELSE [proc[p] EXCEPT !.next = @ + 1])
        /\ torn' = IF last THEN torn \/ ~proc[p].alone ELSE torn
        /\ UNCHANGED <<version, db, txn, jobs, faults>>

\* An OSError of the rollback itself: "publication rollback failed".
RestoreFails(p) ==
    /\ At(p, "restore") /\ Fault
    /\ Ends(p, "rollback_failed")
    /\ torn' = TRUE
    /\ UNCHANGED <<version, root, db, txn, jobs>>

(***************************************************************************)
(* _verify, after its own generation under a private root                  *)
(***************************************************************************)
\* A broken form of EvidenceAgrees: that the three are of one version.
EvidenceConsistent(p) ==
    \A i, j \in 1 .. 3 : proc[p].read[Evidence[i]] = proc[p].read[Evidence[j]]

\* _compare_manifests and the two evidence comparisons.
EvidenceAgrees(p) ==
    \A i \in 1 .. 3 : proc[p].read[Evidence[i]] = proc[p].ver

Compare(p) ==
    /\ At(p, "compare")
    /\ Ends(p, IF EvidenceAgrees(p) THEN "succeeded" ELSE "mismatch")
    /\ UNCHANGED <<version, root, db, txn, torn, jobs, faults>>

(***************************************************************************)
(* The environment                                                         *)
(***************************************************************************)
\* ctrl-C, which no handler of the publication catches, or a kill.
Interrupted(p) ==
    /\ ~At(p, "idle") /\ Fault
    /\ AbandonTxn(p)
    /\ Ends(p, "interrupted")
    /\ torn' = (torn \/ proc[p].pc \in {"publish", "restore"})
    /\ UNCHANGED <<version, root, db, jobs>>

\* Another version of the generator or its configuration is checked out.
CheckOut(v) ==
    /\ v # version /\ Fault
    /\ version' = v
    /\ UNCHANGED <<root, db, txn, proc, torn, jobs>>

AllJobsDone ==
    /\ jobs = MaxJobs /\ \A p \in Procs : At(p, "idle")
    /\ UNCHANGED vars

Job(p) ==
    \/ StartGenerate(p) \/ StartVerify(p) \/ LoadEvidence(p)
    \/ StageFiles(p) \/ ResetTables(p) \/ CopyTable(p) \/ CommitLoad(p) \/ JobFails(p)
    \/ BackupArtifact(p) \/ ReplaceArtifact(p) \/ ReplaceFails(p)
    \/ RestoreArtifact(p) \/ RestoreFails(p) \/ Compare(p) \/ Interrupted(p)

Next == (\E p \in Procs : Job(p)) \/ (\E v \in Versions : CheckOut(v)) \/ AllJobsDone

Spec == Init /\ [][Next]_vars

(***************************************************************************)
(* Properties                                                              *)
(***************************************************************************)
ProcStates ==
    [pc : {"idle", "stage", "evidence", "connect", "copy", "commit", "backup",
           "publish", "restore", "compare"},
     job : {"none", "generate", "verify"}, ver : Versions \cup {Absent},
     next : 1 .. LastArtifact, outcome : Outcomes,
     prior : [Artifacts -> Versions \cup {Absent}],
     read : [Artifacts -> Versions \cup {Absent}],
     before : [Artifacts -> Versions \cup {Absent, Directory}], alone : BOOLEAN]

\* Types of every variable (pipeline.py, loader.py and cli.py).
TypeOK ==
    /\ version \in Versions
    /\ root \in [Artifacts -> Versions \cup {Absent, Directory}]
    /\ db \in [Tables -> Versions \cup {Absent}]
    /\ txn \in [by : Procs \cup {"nobody"}, content : [Tables -> Versions \cup {Absent}]]
    /\ proc \in [Procs -> ProcStates]
    /\ torn \in BOOLEAN /\ jobs \in 0 .. MaxJobs /\ faults \in 0 .. MaxFaults

Quiet == \A p \in Procs : ~Publishing(p)
OneVersion(S, content) == \A a, b \in S : content[a] = content[b]

\* Between publications the published files are all of one version, or all
\* absent, unless a publication was interrupted, overlapped another or failed
\* to roll back since the last one that succeeded undisturbed; and the twelve
\* tables are always of one version, whatever fails in the middle of a load
\* (_publish_staged_snapshot, load_csvs).
SnapshotWhole ==
    /\ Quiet /\ ~torn /\ root["dataset_manifest"] # Directory => OneVersion(Artifacts, root)
    /\ OneVersion(Tables, db)

\* A publication that re-raises the error of a replacement has put back every
\* file as it was before the call, whichever replacement failed, so long as no
\* other process wrote in between (_restore_known_artifacts).
RolledBackExactly ==
    [][\A p \in Procs :
         proc[p].pc = "restore" /\ proc'[p].outcome = "publish_error" /\ proc[p].alone
           => root' = proc[p].before]_vars

\* A verification that succeeds has seen a published snapshot that is whole
\* and of the verified version, CSVs included although it never reads them,
\* unless an earlier publication was torn or one ran meanwhile (_verify).
VerifiedTruthful ==
    [][\A p \in Procs :
         (/\ proc[p].job = "verify" /\ proc'[p].outcome = "succeeded"
          /\ proc[p].alone /\ ~torn /\ Quiet)
           => \A a \in Artifacts : root[a] = proc[p].ver]_vars
=============================================================================
