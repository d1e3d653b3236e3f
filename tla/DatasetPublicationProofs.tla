------------------------ MODULE DatasetPublicationProofs ------------------------
(***************************************************************************)
(* Theorems about DatasetPublication, for all processes, tables, versions  *)
(* and bounds: what is published or loaded is of one version, a rollback   *)
(* is exact, and a verification that succeeds is about what is published.  *)
(***************************************************************************)
EXTENDS DatasetPublication, SequenceTheorems, TLAPS

Manifest == "dataset_manifest"

(***************************************************************************)
(* The published names                                                     *)
(***************************************************************************)
\* The tables come first, then the three evidence files.
LEMMA ArtifactFacts ==
    /\ LastArtifact \in Nat /\ LastArtifact >= 4
    /\ Len(TableLoadOrder) \in Nat /\ Len(TableLoadOrder) >= 1
    /\ Len(TableLoadOrder) < LastArtifact
    /\ Artifacts = {Artifact(i) : i \in 1 .. LastArtifact}
    /\ Tables = {TableLoadOrder[i] : i \in 1 .. Len(TableLoadOrder)}
    /\ {Evidence[i] : i \in 1 .. 3} \subseteq Artifacts
    /\ Manifest \in Artifacts /\ Artifact(LastArtifact) = Manifest
<1> DEFINE Evidences == {"anomaly_manifest", "source_csv_digests", "dataset_manifest"}
           AllNames == STRING \union Evidences
<1>1. TableLoadOrder \in Seq(AllNames) /\ TableLoadOrder # <<>>
  BY DatasetAssumption, SeqMonotonic
<1>2. "anomaly_manifest" \in AllNames /\ "source_csv_digests" \in AllNames
      /\ "dataset_manifest" \in AllNames
  OBVIOUS
<1> HIDE DEF AllNames
<1>3. Evidence \in Seq(AllNames) /\ Len(Evidence) = 3
  BY <1>2 DEF Evidence
<1>4. /\ Len(TableLoadOrder) \in Nat /\ Len(TableLoadOrder) >= 1
      /\ DOMAIN TableLoadOrder = 1 .. Len(TableLoadOrder)
  BY <1>1
<1>5. /\ PublishedArtifacts \in Seq(AllNames)
      /\ Len(PublishedArtifacts) = Len(TableLoadOrder) + 3
      /\ \A i \in 1 .. Len(TableLoadOrder) + 3 :
           PublishedArtifacts[i] = IF i <= Len(TableLoadOrder) THEN TableLoadOrder[i]
                                   ELSE Evidence[i - Len(TableLoadOrder)]
  <2>1. /\ PublishedArtifacts \in Seq(AllNames)
        /\ Len(PublishedArtifacts) = Len(TableLoadOrder) + Len(Evidence)
        /\ \A i \in 1 .. Len(TableLoadOrder) + Len(Evidence) :
             PublishedArtifacts[i] = IF i <= Len(TableLoadOrder) THEN TableLoadOrder[i]
                                     ELSE Evidence[i - Len(TableLoadOrder)]
    BY <1>1, <1>3, ConcatProperties, Zenon DEF PublishedArtifacts
  <2> QED
    BY <1>3, <2>1
<1>6. DOMAIN PublishedArtifacts = 1 .. Len(PublishedArtifacts)
  BY <1>5
<1>7. \A i \in 1 .. 3 : Evidence[i] \in Artifacts
  <2> TAKE i \in 1 .. 3
  <2> DEFINE j == Len(TableLoadOrder) + i
  <2>1. j \in 1 .. Len(TableLoadOrder) + 3 /\ ~(j <= Len(TableLoadOrder))
        /\ j - Len(TableLoadOrder) = i
    BY <1>4
  <2>2. PublishedArtifacts[j] = Evidence[i] /\ j \in DOMAIN PublishedArtifacts
    BY <1>4, <1>5, <1>6, <2>1
  <2> QED
    BY <2>2 DEF Artifacts
<1>8. Manifest = Evidence[3]
  BY DEF Manifest, Evidence
<1>9. PublishedArtifacts[Len(TableLoadOrder) + 3] = Evidence[3]
  BY <1>4, <1>5
<1> QED
  BY <1>4, <1>5, <1>6, <1>7, <1>8, <1>9 DEF LastArtifact, Artifacts, Artifact, Tables

(***************************************************************************)
(* Types and progress                                                      *)
(***************************************************************************)
\* Where in its tables, evidence or artifacts a job can be.
Progress(p) ==
    /\ At(p, "copy") => proc[p].next \in 1 .. Len(TableLoadOrder)
    /\ At(p, "evidence") => proc[p].next \in 1 .. 3
    /\ At(p, "commit") => proc[p].next = 1
    /\ proc[p].pc \notin {"idle", "evidence"} => proc[p].ver \in Versions

\* Which job a location belongs to.
JobOf(p) ==
    /\ Publishing(p) => proc[p].job = "generate"
    /\ proc[p].pc = "compare" => proc[p].job = "verify"
    /\ proc[p].pc = "evidence" => proc[p].job = "verify"
    /\ At(p, "idle") => proc[p].job = "none"
    /\ ~At(p, "idle") => proc[p].job # "none" /\ proc[p].outcome = "none"

TypeInv == TypeOK /\ \A p \in Procs : Progress(p) /\ JobOf(p)

\* A process that has ended, or has not begun, is of the right type.
LEMMA IdleType ==
    ASSUME NEW o \in Outcomes PROVE Idle(o) \in ProcStates
BY ArtifactFacts DEF Idle, ProcStates

\* A step that gives one process a state that fits keeps types and progress.
LEMMA OneProcess ==
    ASSUME TypeInv, NEW p \in Procs, NEW r \in ProcStates,
           proc' = [proc EXCEPT ![p] = r],
           Progress(p)', JobOf(p)'
    PROVE  proc' \in [Procs -> ProcStates] /\ \A q \in Procs : Progress(q)' /\ JobOf(q)'
BY DEF TypeInv, TypeOK, Progress, JobOf, At, Publishing

\* So does a step that ends its job.
LEMMA EndKeepsType ==
    ASSUME TypeInv, NEW p \in Procs, NEW o \in Outcomes, Ends(p, o)
    PROVE  proc' \in [Procs -> ProcStates] /\ \A q \in Procs : Progress(q)' /\ JobOf(q)'
<1>1. Idle(o) \in ProcStates
  BY IdleType
<1>2. proc'[p].pc = "idle" /\ proc'[p].job = "none"
  BY DEF Ends, TypeInv, TypeOK, Idle
<1>3. Progress(p)' /\ JobOf(p)'
  BY <1>2 DEF Progress, JobOf, At, Publishing
<1> QED
  BY <1>1, <1>3, OneProcess DEF Ends

\* So does a write to the published root, which others only take note of.
LEMMA WriteKeepsType ==
    ASSUME TypeInv, NEW p \in Procs, NEW a \in Artifacts,
           NEW c \in Versions \cup {Absent, Directory}, NEW r \in ProcStates,
           WriteRoot(p, a, c, r), Progress(p)', JobOf(p)'
    PROVE  /\ root' \in [Artifacts -> Versions \cup {Absent, Directory}]
           /\ proc' \in [Procs -> ProcStates]
           /\ \A q \in Procs : Progress(q)' /\ JobOf(q)'
<1>1. root' \in [Artifacts -> Versions \cup {Absent, Directory}]
  BY DEF WriteRoot, TypeInv, TypeOK
<1>2. ASSUME NEW q \in Procs, q # p
      PROVE  /\ proc'[q] = [proc[q] EXCEPT !.alone = At(q, "idle")]
             /\ proc[q] \in ProcStates
  BY <1>2 DEF WriteRoot, TypeInv, TypeOK
<1>3. ASSUME NEW q \in Procs, q # p
      PROVE  proc'[q] \in ProcStates /\ Progress(q)' /\ JobOf(q)'
  <2> DEFINE b == At(q, "idle")
  <2>1. b \in BOOLEAN /\ proc'[q] = [proc[q] EXCEPT !.alone = b] /\ proc[q] \in ProcStates
    BY <1>2, <1>3 DEF At
  <2> HIDE DEF b
  <2>2. proc'[q] \in ProcStates /\ proc'[q].pc = proc[q].pc /\ proc'[q].job = proc[q].job
        /\ proc'[q].next = proc[q].next /\ proc'[q].ver = proc[q].ver
        /\ proc'[q].outcome = proc[q].outcome
    BY <2>1 DEF ProcStates
  <2>3. Progress(q) /\ JobOf(q)
    BY DEF TypeInv
  <2> QED
    BY <2>2, <2>3 DEF Progress, JobOf, At, Publishing
<1>4. proc'[p] = r /\ proc' = [q \in Procs |-> proc'[q]]
  BY DEF WriteRoot
<1> QED
  BY <1>1, <1>3, <1>4

\* What starts a job.
LEMMA StartType ==
    ASSUME TypeInv, NEW p \in Procs, StartGenerate(p) \/ StartVerify(p) PROVE TypeInv'
<1>1. Idle("none") \in ProcStates /\ Idle("none").pc = "idle" /\ Idle("none").next = 1
      /\ Idle("none").outcome = "none"
  BY IdleType DEF Outcomes, Idle
<1>2. CASE StartGenerate(p)
  <2> DEFINE r == [Idle("none") EXCEPT !.pc = "stage", !.job = "generate", !.ver = version]
  <2>1. r \in ProcStates /\ r.pc = "stage" /\ r.job = "generate" /\ r.ver \in Versions
        /\ r.outcome = "none"
    BY <1>1, <1>2 DEF StartGenerate, TypeInv, TypeOK, ProcStates
  <2>2. proc' = [proc EXCEPT ![p] = r]
    BY <1>2 DEF StartGenerate
  <2> HIDE DEF r
  <2>3. Progress(p)' /\ JobOf(p)'
    BY <2>1, <2>2 DEF TypeInv, TypeOK, Progress, JobOf, At, Publishing
  <2>4. proc' \in [Procs -> ProcStates] /\ \A q \in Procs : Progress(q)' /\ JobOf(q)'
    BY <2>1, <2>2, <2>3, OneProcess
  <2> QED
    BY <1>2, <2>4, DatasetAssumption DEF TypeInv, TypeOK, StartGenerate
<1>3. CASE StartVerify(p) /\ IsFile(root["dataset_manifest"])
  <2> DEFINE r == [Idle("none") EXCEPT !.pc = "evidence", !.job = "verify"]
  <2>1. r \in ProcStates /\ r.pc = "evidence" /\ r.job = "verify" /\ r.next = 1
        /\ r.outcome = "none"
    BY <1>1 DEF ProcStates
  <2>2. proc' = [proc EXCEPT ![p] = r]
    BY <1>3 DEF StartVerify
  <2> HIDE DEF r
  <2>3. Progress(p)' /\ JobOf(p)'
    BY <2>1, <2>2 DEF TypeInv, TypeOK, Progress, JobOf, At, Publishing
  <2>4. proc' \in [Procs -> ProcStates] /\ \A q \in Procs : Progress(q)' /\ JobOf(q)'
    BY <2>1, <2>2, <2>3, OneProcess
  <2> QED
    BY <1>3, <2>4, DatasetAssumption DEF TypeInv, TypeOK, StartVerify
<1>4. CASE StartVerify(p) /\ ~IsFile(root["dataset_manifest"])
  <2>1. Ends(p, "evidence_invalid") /\ "evidence_invalid" \in Outcomes
    BY <1>4 DEF StartVerify, Outcomes
  <2>2. proc' \in [Procs -> ProcStates] /\ \A q \in Procs : Progress(q)' /\ JobOf(q)'
    BY <2>1, EndKeepsType
  <2> QED
    BY <1>4, <2>2, DatasetAssumption DEF TypeInv, TypeOK, StartVerify
<1> QED
  BY <1>2, <1>3, <1>4

\* What reads the published evidence.
LEMMA EvidenceType ==
    ASSUME TypeInv, NEW p \in Procs, LoadEvidence(p) PROVE TypeInv'
<1> DEFINE a == EvidenceOrder[proc[p].next]
           last == proc[p].next = 3
           r == [proc[p] EXCEPT !.read[a] = root[a],
                     !.next = IF last THEN 1 ELSE @ + 1,
                     !.pc = IF last THEN "stage" ELSE "evidence",
                     !.ver = IF last THEN version ELSE @]
<1>1. proc[p] \in ProcStates /\ proc[p].pc = "evidence" /\ proc[p].next \in 1 .. 3
      /\ proc[p].job = "verify" /\ proc[p].outcome = "none"
  BY DEF LoadEvidence, TypeInv, TypeOK, Progress, JobOf, At
<1>2. a \in Artifacts
  <2>1. Evidence[1] \in Artifacts /\ Evidence[2] \in Artifacts /\ Evidence[3] \in Artifacts
    BY ArtifactFacts
  <2>2. proc[p].next = 1 \/ proc[p].next = 2 \/ proc[p].next = 3
    BY <1>1
  <2> QED
    BY <2>1, <2>2 DEF EvidenceOrder, Evidence
<1>3. CASE ~IsFile(root[a])
  <2>1. Ends(p, "evidence_invalid") /\ "evidence_invalid" \in Outcomes
    BY <1>3 DEF LoadEvidence, Outcomes
  <2>2. proc' \in [Procs -> ProcStates] /\ \A q \in Procs : Progress(q)' /\ JobOf(q)'
    BY <2>1, EndKeepsType
  <2> QED
    BY <2>2 DEF TypeInv, TypeOK, LoadEvidence
<1>4. CASE IsFile(root[a])
  <2>1. proc' = [proc EXCEPT ![p] = r]
    BY <1>4 DEF LoadEvidence, TypeInv, TypeOK
  <2>2. r \in ProcStates /\ r.job = "verify" /\ r.outcome = "none"
        /\ ((r.pc = "evidence" /\ r.next \in 1 .. 3) \/ (r.pc = "stage" /\ r.ver \in Versions))
    <3> DEFINE reads == [proc[p].read EXCEPT ![a] = root[a]]
               at == IF last THEN "stage" ELSE "evidence"
               nxt == IF last THEN 1 ELSE proc[p].next + 1
               v == IF last THEN version ELSE proc[p].ver
    <3>1. reads \in [Artifacts -> Versions \cup {Absent}]
      BY <1>1, <1>2, <1>4 DEF ProcStates, IsFile
    <3>2. /\ (at = "evidence" /\ nxt \in 1 .. 3) \/ (at = "stage" /\ v \in Versions)
          /\ nxt \in 1 .. LastArtifact /\ v \in Versions \cup {Absent}
      BY <1>1, ArtifactFacts DEF TypeInv, TypeOK, ProcStates
    <3>3. r = [proc[p] EXCEPT !.read = reads, !.next = nxt, !.pc = at, !.ver = v]
      BY <1>1 DEF ProcStates
    <3> HIDE DEF reads, at, nxt, v, r
    <3> QED
      BY <1>1, <3>1, <3>2, <3>3 DEF ProcStates
  <2> HIDE DEF r
  <2>3. Progress(p)' /\ JobOf(p)'
    BY <2>1, <2>2 DEF TypeInv, TypeOK, Progress, JobOf, At, Publishing
  <2>4. proc' \in [Procs -> ProcStates] /\ \A q \in Procs : Progress(q)' /\ JobOf(q)'
    BY <2>1, <2>2, <2>3, OneProcess
  <2> QED
    BY <2>4 DEF TypeInv, TypeOK, LoadEvidence
<1> QED
  BY <1>3, <1>4

\* What generates, loads and compares in private.
LEMMA LoadType ==
    ASSUME TypeInv, NEW p \in Procs,
           StageFiles(p) \/ ResetTables(p) \/ CopyTable(p) \/ CommitLoad(p) \/ JobFails(p)
             \/ Compare(p)
    PROVE  TypeInv'
<1>1. /\ proc[p] \in ProcStates /\ proc \in [Procs -> ProcStates]
      /\ Progress(p) /\ JobOf(p)
      /\ txn \in [by : Procs \cup {"nobody"}, content : [Tables -> Versions \cup {Absent}]]
  BY DEF TypeInv, TypeOK
<1>2. NoTxn \in [by : Procs \cup {"nobody"}, content : [Tables -> Versions \cup {Absent}]]
  BY DEF NoTxn
<1>3. CASE StageFiles(p)
  <2> DEFINE r == [proc[p] EXCEPT !.pc = "connect"]
  <2>1. proc' = [proc EXCEPT ![p] = r]
    BY <1>1, <1>3 DEF StageFiles, Goes
  <2>2. r \in ProcStates /\ Progress(p)' /\ JobOf(p)'
    BY <1>1, <1>3, <2>1 DEF StageFiles, ProcStates, Progress, JobOf, At, Publishing
  <2> HIDE DEF r
  <2> QED
    BY <1>3, <2>1, <2>2, OneProcess DEF StageFiles, TypeInv, TypeOK
<1>4. CASE ResetTables(p)
  <2> DEFINE r == [proc[p] EXCEPT !.pc = "copy", !.next = 1]
  <2>1. proc' = [proc EXCEPT ![p] = r]
    BY <1>1, <1>4 DEF ResetTables
  <2>2. 1 \in 1 .. LastArtifact /\ 1 \in 1 .. Len(TableLoadOrder)
    BY ArtifactFacts
  <2>8. r = [proc[p] EXCEPT !.pc = "copy", !.next = 1]
    OBVIOUS
  <2> HIDE DEF r
  <2>4. /\ r \in ProcStates /\ r.pc = "copy" /\ r.next = 1 /\ r.job = proc[p].job
        /\ r.ver = proc[p].ver /\ r.outcome = proc[p].outcome
    BY <1>1, <2>2, <2>8 DEF ProcStates
  <2>5. Progress(p)' /\ JobOf(p)'
    BY <1>1, <1>4, <2>1, <2>2, <2>4 DEF ResetTables, Progress, JobOf, At, Publishing
  <2>3. txn' \in [by : Procs \cup {"nobody"}, content : [Tables -> Versions \cup {Absent}]]
    BY <1>4 DEF ResetTables
  <2> QED
    BY <1>4, <2>1, <2>3, <2>4, <2>5, OneProcess DEF ResetTables, TypeInv, TypeOK
<1>5. CASE CopyTable(p)
  <2> DEFINE last == proc[p].next = Len(TableLoadOrder)
             nxt == IF last THEN 1 ELSE proc[p].next + 1
             at == IF last THEN "commit" ELSE "copy"
             r == [proc[p] EXCEPT !.pc = at, !.next = nxt]
             t == TableLoadOrder[proc[p].next]
  <2>1. proc' = [proc EXCEPT ![p] = r]
    BY <1>1, <1>5 DEF CopyTable
  <2>2. proc[p].next \in 1 .. Len(TableLoadOrder) /\ proc[p].ver \in Versions
    BY <1>1, <1>5 DEF CopyTable, Progress, At
  <2>3. /\ nxt \in 1 .. Len(TableLoadOrder) /\ nxt \in 1 .. LastArtifact
        /\ (at = "commit" /\ nxt = 1) \/ at = "copy"
    BY <2>2, ArtifactFacts
  <2>7. at \in {"copy", "commit"}
    OBVIOUS
  <2>8. r = [proc[p] EXCEPT !.pc = at, !.next = nxt]
    OBVIOUS
  <2> HIDE DEF nxt, at, r
  <2>6. /\ r \in ProcStates /\ r.pc = at /\ r.next = nxt /\ r.job = proc[p].job
        /\ r.ver = proc[p].ver /\ r.outcome = proc[p].outcome
    BY <1>1, <2>3, <2>7, <2>8 DEF ProcStates
  <2>4. r \in ProcStates /\ Progress(p)' /\ JobOf(p)'
    BY <1>1, <1>5, <2>1, <2>2, <2>3, <2>6 DEF CopyTable, Progress, JobOf, At, Publishing
  <2>5. txn' \in [by : Procs \cup {"nobody"}, content : [Tables -> Versions \cup {Absent}]]
    BY <1>1, <1>5, <2>2 DEF CopyTable
  <2> QED
    BY <1>5, <2>1, <2>4, <2>5, OneProcess DEF CopyTable, TypeInv, TypeOK
<1>6. CASE CommitLoad(p)
  <2> DEFINE at == IF proc[p].job = "generate" THEN "backup" ELSE "compare"
             r == [proc[p] EXCEPT !.pc = at]
  <2>1. proc' = [proc EXCEPT ![p] = r]
    BY <1>1, <1>6 DEF CommitLoad, Goes
  <2>2. /\ at \in {"backup", "compare"}
        /\ at = "backup" => proc[p].job = "generate"
        /\ at = "compare" => proc[p].job = "verify"
        /\ proc[p].job # "none" /\ proc[p].outcome = "none" /\ proc[p].ver \in Versions
    BY <1>1, <1>6 DEF CommitLoad, ProcStates, Progress, JobOf, At
  <2> HIDE DEF at
  <2>3. r \in ProcStates /\ Progress(p)' /\ JobOf(p)'
    BY <1>1, <2>1, <2>2 DEF ProcStates, Progress, JobOf, At, Publishing
  <2> HIDE DEF r
  <2> QED
    BY <1>1, <1>2, <1>6, <2>1, <2>3, OneProcess DEF CommitLoad, TypeInv, TypeOK
<1>7. CASE JobFails(p)
  <2>1. Ends(p, "failed") /\ "failed" \in Outcomes
    BY <1>7 DEF JobFails, Outcomes
  <2>2. proc' \in [Procs -> ProcStates] /\ \A q \in Procs : Progress(q)' /\ JobOf(q)'
    BY <2>1, EndKeepsType
  <2>3. txn' \in [by : Procs \cup {"nobody"}, content : [Tables -> Versions \cup {Absent}]]
    BY <1>1, <1>2, <1>7 DEF JobFails, AbandonTxn
  <2> QED
    BY <1>7, <2>2, <2>3, DatasetAssumption DEF JobFails, Fault, TypeInv, TypeOK
<1>8. CASE Compare(p)
  <2> DEFINE o == IF EvidenceAgrees(p) THEN "succeeded" ELSE "mismatch"
  <2>1. Ends(p, o) /\ o \in Outcomes
    BY <1>8 DEF Compare, Outcomes
  <2> HIDE DEF o
  <2>2. proc' \in [Procs -> ProcStates] /\ \A q \in Procs : Progress(q)' /\ JobOf(q)'
    BY <2>1, EndKeepsType
  <2> QED
    BY <1>8, <2>2 DEF Compare, TypeInv, TypeOK
<1> QED
  BY <1>3, <1>4, <1>5, <1>6, <1>7, <1>8

\* What publishes or rolls back.
LEMMA PublishType ==
    ASSUME TypeInv, NEW p \in Procs,
           BackupArtifact(p) \/ ReplaceArtifact(p) \/ ReplaceFails(p)
             \/ RestoreArtifact(p) \/ RestoreFails(p) \/ Interrupted(p)
    PROVE  TypeInv'
<1> DEFINE a == Artifact(proc[p].next)
           last == proc[p].next = LastArtifact
           more == [proc[p] EXCEPT !.next = @ + 1]
<1>1. /\ proc[p] \in ProcStates /\ proc \in [Procs -> ProcStates]
      /\ Progress(p) /\ JobOf(p)
      /\ txn \in [by : Procs \cup {"nobody"}, content : [Tables -> Versions \cup {Absent}]]
      /\ root \in [Artifacts -> Versions \cup {Absent, Directory}]
  BY DEF TypeInv, TypeOK
<1>2. NoTxn \in [by : Procs \cup {"nobody"}, content : [Tables -> Versions \cup {Absent}]]
  BY DEF NoTxn
<1>3. a \in Artifacts /\ (~last => more \in ProcStates)
  <2>1. proc[p].next \in 1 .. LastArtifact
    BY <1>1 DEF ProcStates
  <2>2. a \in Artifacts
    BY <2>1, ArtifactFacts
  <2>3. ASSUME ~last PROVE more \in ProcStates
    <3>1. proc[p].next + 1 \in 1 .. LastArtifact
      BY <2>1, <2>3, ArtifactFacts
    <3> QED
      BY <1>1, <3>1 DEF ProcStates
  <2> QED
    BY <2>2, <2>3
<1>4. CASE BackupArtifact(p) /\ root[a] = Directory
  <2>1. Ends(p, "failed") /\ "failed" \in Outcomes
    BY <1>4 DEF BackupArtifact, Outcomes
  <2>2. proc' \in [Procs -> ProcStates] /\ \A q \in Procs : Progress(q)' /\ JobOf(q)'
    BY <2>1, EndKeepsType
  <2> QED
    BY <1>4, <2>2 DEF BackupArtifact, TypeInv, TypeOK
<1>5. CASE BackupArtifact(p) /\ root[a] # Directory
  <2> DEFINE first == proc[p].next = 1
             pri == [proc[p].prior EXCEPT ![a] = root[a]]
             bef == IF first THEN root ELSE proc[p].before
             al == IF first THEN TRUE ELSE proc[p].alone
             nxt == IF last THEN 1 ELSE proc[p].next + 1
             at == IF last THEN "publish" ELSE "backup"
             r == [proc[p] EXCEPT !.prior = pri, !.before = bef, !.alone = al,
                                  !.next = nxt, !.pc = at]
  <2>1. proc' = [proc EXCEPT ![p] = r]
    BY <1>1, <1>5 DEF BackupArtifact, ProcStates
  <2>2. /\ pri \in [Artifacts -> Versions \cup {Absent}]
        /\ bef \in [Artifacts -> Versions \cup {Absent, Directory}]
        /\ al \in BOOLEAN
    BY <1>1, <1>3, <1>5 DEF ProcStates
  <2>3. nxt \in 1 .. LastArtifact /\ at \in {"publish", "backup"}
    BY <1>1, ArtifactFacts DEF ProcStates
  <2> HIDE DEF pri, bef, al, nxt, at
  <2>4. r \in ProcStates /\ Progress(p)' /\ JobOf(p)'
    BY <1>1, <1>5, <2>1, <2>2, <2>3
       DEF BackupArtifact, ProcStates, Progress, JobOf, At, Publishing
  <2> HIDE DEF r
  <2> QED
    BY <1>5, <2>1, <2>4, OneProcess DEF BackupArtifact, TypeInv, TypeOK
<1>6. CASE ReplaceArtifact(p)
  <2> DEFINE r == IF last THEN Idle("succeeded") ELSE more
  <2>1. WriteRoot(p, a, proc[p].ver, r)
    BY <1>6 DEF ReplaceArtifact
  <2>2. Idle("succeeded") \in ProcStates /\ Idle("succeeded").pc = "idle"
        /\ Idle("succeeded").job = "none"
    BY IdleType DEF Outcomes, Idle
  <2>3. r \in ProcStates /\ proc'[p] = r
    BY <1>3, <2>1, <2>2 DEF WriteRoot
  <2>4. \/ r.pc = "idle" /\ r.job = "none"
        \/ /\ r.pc = "publish" /\ r.ver = proc[p].ver
           /\ r.job = proc[p].job /\ r.outcome = proc[p].outcome
    BY <1>1, <1>6, <2>2 DEF ReplaceArtifact, At, ProcStates
  <2> HIDE DEF r
  <2>5. Progress(p)' /\ JobOf(p)' /\ proc[p].ver \in Versions
    BY <1>1, <1>6, <2>3, <2>4 DEF ReplaceArtifact, Progress, JobOf, At, Publishing
  <2> HIDE DEF a
  <2>6. /\ root' \in [Artifacts -> Versions \cup {Absent, Directory}]
        /\ proc' \in [Procs -> ProcStates]
        /\ \A q \in Procs : Progress(q)' /\ JobOf(q)'
    BY <1>3, <2>1, <2>3, <2>5, WriteKeepsType
  <2>7. torn' \in BOOLEAN
    BY <1>6 DEF ReplaceArtifact, TypeInv, TypeOK
  <2> QED
    BY <1>6, <2>6, <2>7 DEF ReplaceArtifact, TypeInv, TypeOK
<1>7. CASE ReplaceFails(p)
  <2> DEFINE r == [proc[p] EXCEPT !.pc = "restore", !.next = 1]
  <2>1. proc' = [proc EXCEPT ![p] = r]
    BY <1>1, <1>7 DEF ReplaceFails
  <2>2. 1 \in 1 .. LastArtifact
    BY ArtifactFacts
  <2>8. r = [proc[p] EXCEPT !.pc = "restore", !.next = 1]
    OBVIOUS
  <2> HIDE DEF r
  <2>3. /\ r \in ProcStates /\ r.pc = "restore" /\ r.next = 1 /\ r.job = proc[p].job
        /\ r.ver = proc[p].ver /\ r.outcome = proc[p].outcome
    BY <1>1, <2>2, <2>8 DEF ProcStates
  <2>4. Progress(p)' /\ JobOf(p)'
    BY <1>1, <1>7, <2>1, <2>3 DEF ReplaceFails, Progress, JobOf, At, Publishing
  <2> QED
    <3>1. proc' \in [Procs -> ProcStates] /\ \A q \in Procs : Progress(q)' /\ JobOf(q)'
      BY <2>1, <2>3, <2>4, OneProcess
    <3> QED
      BY <1>7, <3>1, DatasetAssumption DEF ReplaceFails, Fault, TypeInv, TypeOK
<1>8. CASE RestoreArtifact(p)
  <2> DEFINE r == IF last THEN Idle("publish_error") ELSE more
             c == proc[p].prior[a]
  <2>1. WriteRoot(p, a, c, r)
    BY <1>8 DEF RestoreArtifact
  <2>2. Idle("publish_error") \in ProcStates /\ Idle("publish_error").pc = "idle"
        /\ Idle("publish_error").job = "none"
    BY IdleType DEF Outcomes, Idle
  <2>3. r \in ProcStates /\ proc'[p] = r
    BY <1>3, <2>1, <2>2 DEF WriteRoot
  <2>4. \/ r.pc = "idle" /\ r.job = "none"
        \/ /\ r.pc = "restore" /\ r.ver = proc[p].ver
           /\ r.job = proc[p].job /\ r.outcome = proc[p].outcome
    BY <1>1, <1>8, <2>2 DEF RestoreArtifact, At, ProcStates
  <2>5. c \in Versions \cup {Absent, Directory}
    BY <1>1, <1>3 DEF ProcStates
  <2> HIDE DEF r, c
  <2>6. Progress(p)' /\ JobOf(p)'
    BY <1>1, <1>8, <2>3, <2>4 DEF RestoreArtifact, Progress, JobOf, At, Publishing
  <2> HIDE DEF a
  <2>7. /\ root' \in [Artifacts -> Versions \cup {Absent, Directory}]
        /\ proc' \in [Procs -> ProcStates]
        /\ \A q \in Procs : Progress(q)' /\ JobOf(q)'
    BY <1>3, <2>1, <2>3, <2>5, <2>6, WriteKeepsType
  <2>8. torn' \in BOOLEAN
    BY <1>8 DEF RestoreArtifact, TypeInv, TypeOK
  <2> QED
    BY <1>8, <2>7, <2>8 DEF RestoreArtifact, TypeInv, TypeOK
<1>9. CASE RestoreFails(p)
  <2>1. Ends(p, "rollback_failed") /\ "rollback_failed" \in Outcomes
    BY <1>9 DEF RestoreFails, Outcomes
  <2>2. proc' \in [Procs -> ProcStates] /\ \A q \in Procs : Progress(q)' /\ JobOf(q)'
    BY <2>1, EndKeepsType
  <2> QED
    BY <1>9, <2>2, DatasetAssumption DEF RestoreFails, Fault, TypeInv, TypeOK
<1>10. CASE Interrupted(p)
  <2>1. Ends(p, "interrupted") /\ "interrupted" \in Outcomes
    BY <1>10 DEF Interrupted, Outcomes
  <2>2. proc' \in [Procs -> ProcStates] /\ \A q \in Procs : Progress(q)' /\ JobOf(q)'
    BY <2>1, EndKeepsType
  <2>3. txn' \in [by : Procs \cup {"nobody"}, content : [Tables -> Versions \cup {Absent}]]
    BY <1>1, <1>2, <1>10 DEF Interrupted, AbandonTxn
  <2>4. torn' \in BOOLEAN
    BY <1>10 DEF Interrupted, TypeInv, TypeOK
  <2> QED
    BY <1>10, <2>2, <2>3, <2>4, DatasetAssumption DEF Interrupted, Fault, TypeInv, TypeOK
<1> QED
  BY <1>4, <1>5, <1>6, <1>7, <1>8, <1>9, <1>10

\* Types hold at first.
LEMMA InitType == Init => TypeInv
<1> SUFFICES ASSUME Init PROVE TypeInv
  OBVIOUS
<1>1. Idle("none") \in ProcStates /\ Idle("none").pc = "idle" /\ Idle("none").job = "none"
  BY IdleType DEF Outcomes, Idle
<1>2. root \in [Artifacts -> Versions \cup {Absent, Directory}]
  BY DEF Init
<1>3. txn \in [by : Procs \cup {"nobody"}, content : [Tables -> Versions \cup {Absent}]]
  BY DEF Init, NoTxn
<1>4. \A p \in Procs : proc[p] = Idle("none")
  BY DEF Init
<1>5. \A p \in Procs : Progress(p) /\ JobOf(p)
  BY <1>1, <1>4 DEF Progress, JobOf, At, Publishing
<1> QED
  <2>1. /\ version \in Versions /\ db \in [Tables -> Versions \cup {Absent}]
        /\ torn \in BOOLEAN /\ jobs \in 0 .. MaxJobs /\ faults \in 0 .. MaxFaults
    <3>1. version \in Versions /\ db = [t \in Tables |-> Absent]
      BY DEF Init
    <3>2. torn = FALSE /\ jobs = 0 /\ faults = 0
      BY DEF Init
    <3>3. MaxJobs \in Nat /\ MaxFaults \in Nat
      BY DatasetAssumption, Zenon
    <3>4. db \in [Tables -> Versions \cup {Absent}]
      BY <3>1
    <3>5. jobs \in 0 .. MaxJobs /\ faults \in 0 .. MaxFaults
      BY <3>2, <3>3
    <3>6. torn \in BOOLEAN
      BY <3>2
    <3> QED
      BY <3>1, <3>4, <3>5, <3>6
  <2>2. proc = [p \in Procs |-> Idle("none")]
    BY DEF Init
  <2>3. proc \in [Procs -> ProcStates]
    BY <1>1, <2>2
  <2> QED
    BY <1>2, <1>3, <1>5, <2>1, <2>3 DEF TypeInv, TypeOK

\* Every step keeps them.
LEMMA StepType == TypeInv /\ [Next]_vars => TypeInv'
<1> SUFFICES ASSUME TypeInv, [Next]_vars PROVE TypeInv'
  OBVIOUS
<1>1. ASSUME NEW p \in Procs, Job(p) PROVE TypeInv'
  BY <1>1, StartType, EvidenceType, LoadType, PublishType DEF Job
<1>2. ASSUME NEW v \in Versions, CheckOut(v) PROVE TypeInv'
  BY <1>2, DatasetAssumption DEF CheckOut, Fault, TypeInv, TypeOK, Progress, JobOf, At, Publishing
<1>3. ASSUME AllJobsDone \/ UNCHANGED vars PROVE TypeInv'
  BY <1>3 DEF AllJobsDone, vars, TypeInv, TypeOK, Progress, JobOf, At, Publishing
<1> QED
  BY <1>1, <1>2, <1>3 DEF Next

\* Every state of every run is of the right types, and every job is where its
\* kind allows (pipeline.py, loader.py).
THEOREM TypeCorrect == Spec => []TypeInv
<1> QED
  BY InitType, StepType, PTL DEF Spec

(***************************************************************************)
(* The tables                                                              *)
(***************************************************************************)
\* What the open transaction of a loader holds so far.
Loaded(p) ==
    txn.by = p =>
      /\ At(p, "copy") =>
           \A i \in 1 .. proc[p].next - 1 : txn.content[TableLoadOrder[i]] = proc[p].ver
      /\ At(p, "commit") => \A t \in Tables : txn.content[t] = proc[p].ver

LoadInv == OneVersion(Tables, db) /\ \A p \in Procs : Loaded(p)

\* A job whose state alone is replaced disturbs no other.
LEMMA OneUndisturbed ==
    ASSUME TypeInv, NEW p \in Procs, NEW r, proc' = [proc EXCEPT ![p] = r]
    PROVE  /\ \A q \in Procs \ {p} : proc'[q] = proc[q]
           /\ proc'[p] = r
BY DEF TypeInv, TypeOK

\* A step that leaves the tables alone, in a process that is not loading after it.
LEMMA LoadFrame ==
    ASSUME TypeInv, LoadInv, NEW p \in Procs,
           db' = db, txn' \in {txn, NoTxn}, proc'[p].pc \notin {"copy", "commit"},
           \A q \in Procs \ {p} : /\ proc'[q].pc = proc[q].pc /\ proc'[q].ver = proc[q].ver
                                  /\ proc'[q].next = proc[q].next
    PROVE  LoadInv'
<1>1. \A q \in Procs : NoTxn.by # q
  BY DatasetAssumption DEF NoTxn
<1>2. ASSUME NEW q \in Procs PROVE Loaded(q)'
  BY <1>1, <1>2 DEF LoadInv, Loaded, At
<1> QED
  BY <1>2 DEF LoadInv, OneVersion

\* Every step keeps what is loaded of one version.
LEMMA LoadStep ==
    ASSUME TypeInv, LoadInv, NEW p \in Procs, Job(p) PROVE LoadInv'
<1>0. proc[p] \in ProcStates /\ proc \in [Procs -> ProcStates] /\ Progress(p)
      /\ txn \in [by : Procs \cup {"nobody"}, content : [Tables -> Versions \cup {Absent}]]
  BY DEF TypeInv, TypeOK
<1>1. CASE \/ StartGenerate(p) \/ StartVerify(p) \/ LoadEvidence(p) \/ StageFiles(p)
           \/ JobFails(p) \/ BackupArtifact(p) \/ ReplaceFails(p) \/ RestoreFails(p)
           \/ Compare(p) \/ Interrupted(p)
  <2>1. db' = db /\ txn' \in {txn, NoTxn}
    BY <1>1 DEF StartGenerate, StartVerify, LoadEvidence, StageFiles, JobFails, BackupArtifact,
                ReplaceFails, RestoreFails, Compare, Interrupted, AbandonTxn
  <2>2. \E r : proc' = [proc EXCEPT ![p] = r] /\ r.pc \notin {"copy", "commit"}
    <3>1. \A o : Idle(o).pc = "idle"
      BY DEF Idle
    <3>2. ASSUME NEW o, Ends(p, o)
          PROVE \E r : proc' = [proc EXCEPT ![p] = r] /\ r.pc \notin {"copy", "commit"}
      <4>1. proc' = [proc EXCEPT ![p] = Idle(o)]
        BY <3>2 DEF Ends
      <4> QED
        BY <3>1, <4>1
    <3>3. CASE JobFails(p) \/ RestoreFails(p) \/ Compare(p) \/ Interrupted(p)
      BY <3>2, <3>3 DEF JobFails, RestoreFails, Compare, Interrupted
    <3>4. CASE StartGenerate(p)
      <4> DEFINE r == [Idle("none") EXCEPT !.pc = "stage", !.job = "generate", !.ver = version]
      <4>1. r.pc = "stage"
        BY DEF Idle
      <4>2. proc' = [proc EXCEPT ![p] = r]
        BY <3>4 DEF StartGenerate
      <4> HIDE DEF r
      <4> QED
        BY <4>1, <4>2
    <3>5. CASE StartVerify(p)
      <4> DEFINE r == [Idle("none") EXCEPT !.pc = "evidence", !.job = "verify"]
      <4>1. r.pc = "evidence"
        BY DEF Idle
      <4>2. proc' = [proc EXCEPT ![p] = r] \/ Ends(p, "evidence_invalid")
        BY <3>5 DEF StartVerify
      <4> HIDE DEF r
      <4> QED
        BY <3>2, <4>1, <4>2
    <3>6. CASE LoadEvidence(p)
      <4>1. CASE ~IsFile(root[EvidenceOrder[proc[p].next]])
        BY <3>2, <3>6, <4>1 DEF LoadEvidence
      <4>2. CASE IsFile(root[EvidenceOrder[proc[p].next]])
        <5>1. proc' = [proc EXCEPT ![p] = proc'[p]]
              /\ proc'[p].pc \in {"stage", "evidence"}
          BY <1>0, <3>6, <4>2 DEF LoadEvidence, ProcStates
        <5> QED
          BY <5>1
      <4> QED
        BY <4>1, <4>2
    <3>7. CASE StageFiles(p)
      <4>1. proc' = [proc EXCEPT ![p] = proc'[p]] /\ proc'[p].pc = "connect"
        BY <1>0, <3>7 DEF StageFiles, Goes, ProcStates
      <4> QED
        BY <4>1
    <3>8. CASE BackupArtifact(p)
      <4>1. CASE root[Artifact(proc[p].next)] = Directory
        BY <3>2, <3>8, <4>1 DEF BackupArtifact
      <4>2. CASE root[Artifact(proc[p].next)] # Directory
        <5>1. proc' = [proc EXCEPT ![p] = proc'[p]]
              /\ proc'[p].pc \in {"publish", "backup"}
          BY <1>0, <3>8, <4>2 DEF BackupArtifact, ProcStates
        <5> QED
          BY <5>1
      <4> QED
        BY <4>1, <4>2
    <3>9. CASE ReplaceFails(p)
      <4>1. proc' = [proc EXCEPT ![p] = proc'[p]] /\ proc'[p].pc = "restore"
        BY <1>0, <3>9 DEF ReplaceFails, ProcStates
      <4> QED
        BY <4>1
    <3> QED
      BY <1>1, <3>3, <3>4, <3>5, <3>6, <3>7, <3>8, <3>9
  <2>3. PICK r : proc' = [proc EXCEPT ![p] = r] /\ r.pc \notin {"copy", "commit"}
    BY <2>2
  <2>4. (\A q \in Procs \ {p} : proc'[q] = proc[q]) /\ proc'[p] = r
    BY <2>3, OneUndisturbed
  <2> QED
    BY <2>1, <2>3, <2>4, LoadFrame
<1>2. CASE ReplaceArtifact(p) \/ RestoreArtifact(p)
  <2>1. PICK a, c, r : WriteRoot(p, a, c, r) /\ r.pc \notin {"copy", "commit"}
    <3>1. Idle("succeeded").pc = "idle" /\ Idle("publish_error").pc = "idle"
      BY DEF Idle
    <3>2. proc[p].pc \in {"publish", "restore"}
      BY <1>2 DEF ReplaceArtifact, RestoreArtifact, At
    <3>3. [proc[p] EXCEPT !.next = @ + 1].pc = proc[p].pc
      BY <1>0 DEF ProcStates
    <3>4. CASE ReplaceArtifact(p)
      <4> DEFINE r == IF proc[p].next = LastArtifact THEN Idle("succeeded")
                      ELSE [proc[p] EXCEPT !.next = @ + 1]
      <4>1. WriteRoot(p, Artifact(proc[p].next), proc[p].ver, r)
        BY <3>4 DEF ReplaceArtifact
      <4>2. r.pc \notin {"copy", "commit"}
        BY <3>1, <3>2, <3>3
      <4> QED
        BY <4>1, <4>2
    <3>5. CASE RestoreArtifact(p)
      <4> DEFINE r == IF proc[p].next = LastArtifact THEN Idle("publish_error")
                      ELSE [proc[p] EXCEPT !.next = @ + 1]
      <4>1. WriteRoot(p, Artifact(proc[p].next), proc[p].prior[Artifact(proc[p].next)], r)
        BY <3>5 DEF RestoreArtifact
      <4>2. r.pc \notin {"copy", "commit"}
        BY <3>1, <3>2, <3>3
      <4> QED
        BY <4>1, <4>2
    <3> QED
      BY <1>2, <3>4, <3>5
  <2>2. proc'[p] = r
    BY <2>1 DEF WriteRoot
  <2>3. ASSUME NEW q \in Procs \ {p}
        PROVE /\ proc'[q].pc = proc[q].pc /\ proc'[q].ver = proc[q].ver
              /\ proc'[q].next = proc[q].next
    <3>1. proc'[q] = [proc[q] EXCEPT !.alone = At(q, "idle")] /\ proc[q] \in ProcStates
      BY <1>0, <2>1 DEF WriteRoot
    <3> QED
      BY <3>1 DEF ProcStates
  <2>4. db' = db /\ txn' = txn
    BY <1>2 DEF ReplaceArtifact, RestoreArtifact
  <2> QED
    BY <2>1, <2>2, <2>3, <2>4, LoadFrame
<1>3. CASE ResetTables(p)
  <2>1. proc'[p].pc = "copy" /\ proc'[p].next = 1 /\ txn'.by = p
        /\ \A q \in Procs \ {p} : proc'[q] = proc[q]
    BY <1>0, <1>3 DEF ResetTables, ProcStates
  <2>2. ASSUME NEW q \in Procs PROVE Loaded(q)'
    BY <2>1 DEF Loaded, At
  <2> QED
    BY <1>3, <2>2 DEF ResetTables, LoadInv, OneVersion
<1>4. CASE CopyTable(p)
  <2> DEFINE n == proc[p].next
             t == TableLoadOrder[n]
  <2>1. /\ proc[p].pc = "copy" /\ txn.by = p /\ txn'.by = p
        /\ txn' = [txn EXCEPT !.content = [txn.content EXCEPT ![t] = proc[p].ver]]
        /\ db' = db
    BY <1>0, <1>4 DEF CopyTable, At
  <2>2. /\ proc'[p].ver = proc[p].ver
        /\ IF n = Len(TableLoadOrder) THEN proc'[p].pc = "commit"
           ELSE proc'[p].pc = "copy" /\ proc'[p].next = n + 1
    BY <1>0, <1>4 DEF CopyTable, ProcStates
  <2>3. n \in 1 .. Len(TableLoadOrder)
    BY <1>0, <2>1 DEF Progress, At
  <2>4. \A u \in Tables : txn'.content[u] = IF u = t THEN proc[p].ver ELSE txn.content[u]
    BY <1>0, <2>1
  <2>5. \A i \in 1 .. n - 1 : txn.content[TableLoadOrder[i]] = proc[p].ver
    BY <2>1 DEF LoadInv, Loaded, At
  <2>6. \A i \in 1 .. Len(TableLoadOrder) : TableLoadOrder[i] \in Tables
    BY ArtifactFacts
  <2>7. \A i \in 1 .. n : txn'.content[TableLoadOrder[i]] = proc[p].ver
    <3> TAKE i \in 1 .. n
    <3>1. i \in 1 .. Len(TableLoadOrder)
      BY <2>3, ArtifactFacts
    <3>2. TableLoadOrder[i] \in Tables
      BY <2>6, <3>1
    <3>3. CASE i = n
      BY <2>4, <3>2, <3>3
    <3>4. CASE i # n
      <4>1. i \in 1 .. n - 1
        BY <2>3, <3>4, ArtifactFacts
      <4>2. txn.content[TableLoadOrder[i]] = proc[p].ver
        BY <2>5, <4>1
      <4> HIDE DEF t
      <4> QED
        BY <2>4, <3>2, <4>2
    <3> QED
      BY <3>3, <3>4
  <2>8. Loaded(p)'
    <3>1. CASE n = Len(TableLoadOrder)
      <4>1. \A u \in Tables : txn'.content[u] = proc[p].ver
        BY <2>7, <3>1, ArtifactFacts
      <4> QED
        BY <2>2, <3>1, <4>1 DEF Loaded, At
    <3>2. CASE n # Len(TableLoadOrder)
      <4>1. proc'[p].pc = "copy" /\ proc'[p].next - 1 = n
        BY <2>2, <2>3, <3>2, ArtifactFacts
      <4> QED
        BY <2>2, <2>7, <4>1 DEF Loaded, At
    <3> QED
      BY <3>1, <3>2
  <2>9. ASSUME NEW q \in Procs, q # p PROVE Loaded(q)'
    BY <2>1, <2>9 DEF Loaded
  <2> QED
    BY <2>1, <2>8, <2>9 DEF LoadInv, OneVersion
<1>5. CASE CommitLoad(p)
  <2>1. /\ proc[p].pc = "commit" /\ txn.by = p /\ db' = txn.content /\ txn' = NoTxn
    BY <1>5 DEF CommitLoad, At
  <2>2. \A u \in Tables : txn.content[u] = proc[p].ver
    BY <2>1 DEF LoadInv, Loaded, At
  <2>3. ASSUME NEW q \in Procs PROVE Loaded(q)'
    BY <2>1, DatasetAssumption DEF Loaded, NoTxn
  <2> QED
    BY <2>1, <2>2, <2>3 DEF LoadInv, OneVersion
<1> QED
  BY <1>1, <1>2, <1>3, <1>4, <1>5 DEF Job

\* The twelve tables are of one version in every committed state, however loads
\* are interleaved, fail or are interrupted (load_csvs in loader.py).
THEOREM LoadCorrect == Spec => []LoadInv
<1>1. Init => LoadInv
  <2> SUFFICES ASSUME Init PROVE LoadInv
    OBVIOUS
  <2>1. db = [t \in Tables |-> Absent] /\ txn = NoTxn
    BY DEF Init
  <2>2. \A q \in Procs : NoTxn.by # q
    <3>1. "nobody" \notin Procs
      BY DatasetAssumption, Zenon
    <3>2. NoTxn.by = "nobody"
      BY DEF NoTxn
    <3> QED
      BY <3>1, <3>2
  <2>3. OneVersion(Tables, db)
    BY <2>1 DEF OneVersion
  <2>4. \A q \in Procs : Loaded(q)
    BY <2>1, <2>2 DEF Loaded
  <2> QED
    BY <2>3, <2>4 DEF LoadInv
<1>2. TypeInv /\ LoadInv /\ [Next]_vars => LoadInv'
  <2> SUFFICES ASSUME TypeInv, LoadInv, [Next]_vars PROVE LoadInv'
    OBVIOUS
  <2>1. ASSUME NEW v \in Versions, CheckOut(v) PROVE LoadInv'
    BY <2>1 DEF CheckOut, LoadInv, Loaded, OneVersion, At
  <2>2. ASSUME AllJobsDone \/ UNCHANGED vars PROVE LoadInv'
    BY <2>2 DEF AllJobsDone, vars, LoadInv, Loaded, OneVersion, At
  <2> QED
    BY <2>1, <2>2, LoadStep DEF Next
<1> QED
  BY <1>1, <1>2, TypeCorrect, PTL DEF Spec

(***************************************************************************)
(* The published files                                                     *)
(***************************************************************************)
\* The artifacts a pass over the root has dealt with.
Written(p) == {Artifact(i) : i \in 1 .. proc[p].next - 1}

\* A process that may have left the root in a mixture.
Dirty(q) == At(q, "restore") \/ (At(q, "publish") /\ proc[q].next > 1)

\* A process whose "before" is that of its publication.
Based(p) == Publishing(p) /\ (At(p, "backup") => proc[p].next > 1)

\* How the root relates to what the only process that publishes has seen.
RootInv(p) ==
    Based(p) /\ proc[p].alone =>
      /\ At(p, "backup") =>
           /\ \A a \in Artifacts : root[a] = proc[p].before[a]
           /\ \A a \in Written(p) : proc[p].prior[a] = proc[p].before[a]
      /\ At(p, "publish") =>
           /\ \A a \in Artifacts : proc[p].prior[a] = proc[p].before[a]
           /\ \A a \in Artifacts :
                root[a] = IF a \in Written(p) THEN proc[p].ver ELSE proc[p].before[a]
      /\ At(p, "restore") =>
           /\ \A a \in Artifacts : proc[p].prior[a] = proc[p].before[a]
           /\ \A a \in Written(p) : root[a] = proc[p].before[a]

Whole(content) == content[Manifest] # Directory => OneVersion(Artifacts, content)

\* What a publication that nobody disturbed began from was whole.
BaseInv(p) ==
    Based(p) /\ proc[p].alone /\ ~torn /\ (\A q \in Procs \ {p} : ~Dirty(q))
      => Whole(proc[p].before)

QuietInv == ~torn /\ (\A q \in Procs : ~Dirty(q)) => Whole(root)

\* What a verification that nobody disturbed has read is what is there.
VerifyInv(p) ==
    proc[p].job = "verify" /\ proc[p].alone =>
      \A i \in 1 .. (IF At(p, "evidence") THEN proc[p].next - 1 ELSE 3) :
         proc[p].read[EvidenceOrder[i]] = root[EvidenceOrder[i]]

PubInv == QuietInv /\ \A p \in Procs : RootInv(p) /\ BaseInv(p) /\ VerifyInv(p)

\* A step of one process that leaves the root alone and does not leave a
\* mixture behind unnoticed.
LEMMA PubFrame ==
    ASSUME TypeInv, PubInv, NEW p \in Procs,
           root' = root, torn => torn', \A q \in Procs \ {p} : proc'[q] = proc[q],
           ~Based(p)', Dirty(p) => torn', VerifyInv(p)'
    PROVE  PubInv'
<1>1. ASSUME NEW q \in Procs, q # p
      PROVE (Dirty(q)' <=> Dirty(q)) /\ (Based(q)' <=> Based(q)) /\ Written(q)' = Written(q)
  BY <1>1 DEF Dirty, Based, Publishing, At, Written
<1>2. QuietInv'
  <2> SUFFICES ASSUME ~torn', \A q \in Procs : ~Dirty(q)' PROVE Whole(root')
    BY DEF QuietInv, Whole
  <2>1. ~torn /\ \A q \in Procs : ~Dirty(q)
    BY <1>1
  <2> QED
    BY <2>1 DEF PubInv, QuietInv
<1>3. ASSUME NEW q \in Procs PROVE RootInv(q)'
  <2>1. CASE q = p
    BY <2>1 DEF RootInv
  <2>2. CASE q # p
    BY <1>1, <2>2 DEF PubInv, RootInv, At
  <2> QED
    BY <2>1, <2>2
<1>4. ASSUME NEW q \in Procs PROVE BaseInv(q)'
  <2>1. CASE q = p
    BY <2>1 DEF BaseInv
  <2>2. CASE q # p
    <3> SUFFICES ASSUME Based(q)', proc'[q].alone, ~torn', \A r \in Procs \ {q} : ~Dirty(r)'
                 PROVE Whole(proc'[q].before)
      BY DEF BaseInv, Whole
    <3>1. ~torn /\ \A r \in Procs \ {q} : ~Dirty(r)
      BY <1>1
    <3>2. proc'[q] = proc[q] /\ Based(q)
      BY <1>1, <2>2
    <3> QED
      BY <3>1, <3>2 DEF PubInv, BaseInv
  <2> QED
    BY <2>1, <2>2
<1>5. ASSUME NEW q \in Procs PROVE VerifyInv(q)'
  BY <1>5 DEF PubInv, VerifyInv, At
<1> QED
  BY <1>2, <1>3, <1>4, <1>5 DEF PubInv

\* A job that has ended is not publishing and verifies nothing.
LEMMA EndPub ==
    ASSUME TypeInv, PubInv, NEW p \in Procs, NEW o, Ends(p, o),
           root' = root, torn => torn', Dirty(p) => torn'
    PROVE  PubInv'
<1>1. proc'[p] = Idle(o) /\ \A q \in Procs \ {p} : proc'[q] = proc[q]
  BY DEF Ends, TypeInv, TypeOK
<1>2. proc'[p].pc = "idle" /\ proc'[p].job = "none"
  BY <1>1 DEF Idle
<1>3. ~Based(p)' /\ VerifyInv(p)'
  BY <1>2 DEF Based, Publishing, VerifyInv
<1> QED
  BY <1>1, <1>3, PubFrame

\* Starting, staging, loading and comparing.
LEMMA PrivatePub ==
    ASSUME TypeInv, PubInv, NEW p \in Procs,
           \/ StartGenerate(p) \/ StartVerify(p) \/ LoadEvidence(p) \/ StageFiles(p)
           \/ ResetTables(p) \/ CopyTable(p) \/ CommitLoad(p) \/ JobFails(p) \/ Compare(p)
    PROVE  PubInv'
<1>1. /\ proc[p] \in ProcStates /\ proc \in [Procs -> ProcStates]
      /\ Progress(p) /\ JobOf(p) /\ VerifyInv(p)
  BY DEF TypeInv, TypeOK, PubInv
<1>2. /\ root' = root /\ torn' = torn
      /\ proc[p].pc \in {"idle", "evidence", "stage", "connect", "copy", "commit", "compare"}
  BY DEF StartGenerate, StartVerify, LoadEvidence, StageFiles, ResetTables, CopyTable,
         CommitLoad, JobFails, Compare, At
<1>3. ~Dirty(p)
  BY <1>2 DEF Dirty, At
<1>4. ASSUME NEW o, Ends(p, o) PROVE PubInv'
  BY <1>2, <1>3, <1>4, EndPub
<1>5. CASE JobFails(p) \/ Compare(p)
  BY <1>4, <1>5 DEF JobFails, Compare
<1>6. CASE StartGenerate(p)
  <2> DEFINE r == [Idle("none") EXCEPT !.pc = "stage", !.job = "generate", !.ver = version]
  <2>1. r.pc = "stage" /\ r.job = "generate"
    BY DEF Idle
  <2>2. proc' = [proc EXCEPT ![p] = r]
    BY <1>6 DEF StartGenerate
  <2> HIDE DEF r
  <2>3. proc'[p] = r /\ \A q \in Procs \ {p} : proc'[q] = proc[q]
    BY <1>1, <2>2
  <2>4. ~Based(p)' /\ VerifyInv(p)'
    BY <2>1, <2>3 DEF Based, Publishing, VerifyInv
  <2> QED
    BY <1>2, <1>3, <2>3, <2>4, PubFrame
<1>7. CASE StartVerify(p)
  <2> DEFINE r == [Idle("none") EXCEPT !.pc = "evidence", !.job = "verify"]
  <2>1. r.pc = "evidence" /\ r.next = 1
    BY DEF Idle
  <2>2. proc' = [proc EXCEPT ![p] = r] \/ Ends(p, "evidence_invalid")
    BY <1>7 DEF StartVerify
  <2> HIDE DEF r
  <2>3. CASE proc' = [proc EXCEPT ![p] = r]
    <3>1. proc'[p] = r /\ \A q \in Procs \ {p} : proc'[q] = proc[q]
      BY <1>1, <2>3
    <3>2. ~Based(p)' /\ VerifyInv(p)'
      BY <2>1, <3>1 DEF Based, Publishing, VerifyInv, At
    <3> QED
      BY <1>2, <1>3, <3>1, <3>2, PubFrame
  <2> QED
    BY <1>4, <2>2, <2>3
<1>8. CASE LoadEvidence(p)
  <2> DEFINE n == proc[p].next
             a == EvidenceOrder[n]
  <2>1. CASE ~IsFile(root[a])
    BY <1>4, <1>8, <2>1 DEF LoadEvidence
  <2>2. CASE IsFile(root[a])
    <3>1. n \in 1 .. 3 /\ proc[p].pc = "evidence"
      BY <1>1, <1>8 DEF LoadEvidence, Progress, At
    <3>2. /\ proc'[p].read = [proc[p].read EXCEPT ![a] = root[a]]
          /\ proc'[p].job = proc[p].job /\ proc'[p].alone = proc[p].alone
          /\ IF n = 3 THEN proc'[p].pc = "stage"
             ELSE proc'[p].pc = "evidence" /\ proc'[p].next = n + 1
          /\ \A q \in Procs \ {p} : proc'[q] = proc[q]
      BY <1>1, <1>8, <2>2 DEF LoadEvidence, ProcStates
    <3>3. ~Based(p)'
      BY <3>2 DEF Based, Publishing
    <3>4. \A i \in 1 .. 3 : EvidenceOrder[i] \in Artifacts
      <4>1. Evidence[1] \in Artifacts /\ Evidence[2] \in Artifacts /\ Evidence[3] \in Artifacts
        BY ArtifactFacts
      <4>2. EvidenceOrder[1] \in Artifacts /\ EvidenceOrder[2] \in Artifacts
            /\ EvidenceOrder[3] \in Artifacts
        BY <4>1 DEF EvidenceOrder, Evidence
      <4> QED
        BY <4>2
    <3>5. VerifyInv(p)'
      <4> SUFFICES ASSUME proc'[p].job = "verify", proc'[p].alone,
                          NEW i \in 1 .. (IF proc'[p].pc = "evidence" THEN proc'[p].next - 1 ELSE 3)
                   PROVE proc'[p].read[EvidenceOrder[i]] = root'[EvidenceOrder[i]]
        BY DEF VerifyInv, At
      <4>1. i \in 1 .. n
        BY <3>1, <3>2
      <4>2. EvidenceOrder[i] \in Artifacts /\ proc[p].read \in [Artifacts -> Versions \cup {Absent}]
        <5>1. i \in 1 .. 3
          BY <3>1, <4>1
        <5> QED
          BY <1>1, <3>4, <5>1 DEF ProcStates
      <4>3. CASE i = n
        BY <1>2, <3>2, <4>2, <4>3
      <4>4. CASE i # n
        <5>1. i \in 1 .. n - 1
          BY <3>1, <4>1, <4>4
        <5>2. proc[p].read[EvidenceOrder[i]] = root[EvidenceOrder[i]]
          BY <1>1, <3>1, <3>2, <5>1 DEF VerifyInv, At
        <5> HIDE DEF a
        <5>3. CASE EvidenceOrder[i] = a
          BY <1>2, <3>2, <4>2, <5>3
        <5>4. CASE EvidenceOrder[i] # a
          BY <1>2, <3>2, <4>2, <5>2, <5>4
        <5> QED
          BY <5>3, <5>4
      <4> QED
        BY <4>3, <4>4
    <3> QED
      BY <1>2, <1>3, <3>2, <3>3, <3>5, PubFrame
  <2> QED
    BY <2>1, <2>2
<1>9. CASE StageFiles(p) \/ ResetTables(p) \/ CopyTable(p) \/ CommitLoad(p)
  <2>1. /\ proc'[p].read = proc[p].read /\ proc'[p].job = proc[p].job
        /\ proc'[p].alone = proc[p].alone /\ proc[p].pc # "evidence"
        /\ \A q \in Procs \ {p} : proc'[q] = proc[q]
    BY <1>1, <1>9 DEF StageFiles, ResetTables, CopyTable, CommitLoad, Goes, At, ProcStates
  <2>2. /\ proc'[p].pc \in {"connect", "copy", "commit", "backup", "compare"}
        /\ proc'[p].pc = "backup" => proc'[p].next = 1
    <3>1. CASE StageFiles(p)
      BY <1>1, <3>1 DEF StageFiles, Goes, ProcStates
    <3>2. CASE ResetTables(p)
      BY <1>1, <3>2 DEF ResetTables, ProcStates
    <3>3. CASE CopyTable(p)
      BY <1>1, <3>3 DEF CopyTable, ProcStates
    <3>4. CASE CommitLoad(p)
      BY <1>1, <3>4 DEF CommitLoad, Goes, ProcStates, Progress, At
    <3> QED
      BY <1>9, <3>1, <3>2, <3>3, <3>4
  <2>3. ~Based(p)'
    BY <2>2 DEF Based, Publishing, At
  <2>4. VerifyInv(p)'
    BY <1>1, <1>2, <2>1, <2>2 DEF VerifyInv, At
  <2> QED
    BY <1>2, <1>3, <2>1, <2>3, <2>4, PubFrame
<1> QED
  BY <1>5, <1>6, <1>7, <1>8, <1>9

\* Backing up, and the failure of a replacement: the root is only looked at.
LEMMA BackupPub ==
    ASSUME TypeInv, PubInv, NEW p \in Procs, BackupArtifact(p) PROVE PubInv'
<1> DEFINE n == proc[p].next
           a == Artifact(n)
<1>1. /\ proc[p] \in ProcStates /\ proc \in [Procs -> ProcStates]
      /\ root \in [Artifacts -> Versions \cup {Absent, Directory}]
      /\ JobOf(p) /\ RootInv(p) /\ BaseInv(p)
  BY DEF TypeInv, TypeOK, PubInv
<1>2. root' = root /\ torn' = torn /\ proc[p].pc = "backup"
  BY DEF BackupArtifact, At
<1>3. ~Dirty(p)
  BY <1>2 DEF Dirty, At
<1>4. CASE root[a] = Directory
  BY <1>2, <1>3, <1>4, EndPub DEF BackupArtifact
<1>5. CASE root[a] # Directory
  <2>1. /\ proc'[p].prior = [proc[p].prior EXCEPT ![a] = root[a]]
        /\ proc'[p].before = IF n = 1 THEN root ELSE proc[p].before
        /\ n # 1 => proc'[p].alone = proc[p].alone
        /\ proc'[p].job = proc[p].job
        /\ IF n = LastArtifact THEN proc'[p].pc = "publish" /\ proc'[p].next = 1
           ELSE proc'[p].pc = "backup" /\ proc'[p].next = n + 1
        /\ \A q \in Procs \ {p} : proc'[q] = proc[q]
    BY <1>1, <1>5 DEF BackupArtifact, ProcStates
  <2>2. n \in 1 .. LastArtifact /\ proc[p].prior \in [Artifacts -> Versions \cup {Absent}]
    BY <1>1 DEF ProcStates
  <2>3. \A q \in Procs : Dirty(q)' <=> Dirty(q)
    BY <1>2, <2>1 DEF Dirty, At
  <2>4. QuietInv'
    BY <1>2, <2>3 DEF PubInv, QuietInv, Whole
  <2>5. BaseInv(p)'
    <3> SUFFICES ASSUME proc'[p].alone, ~torn, \A q \in Procs \ {p} : ~Dirty(q)
                 PROVE  Whole(proc'[p].before)
      BY <1>2, <2>3 DEF BaseInv, Whole
    <3>1. CASE n = 1
      <4>1. \A q \in Procs : ~Dirty(q)
        BY <1>3
      <4>2. Whole(root)
        BY <4>1 DEF PubInv, QuietInv
      <4> QED
        BY <2>1, <3>1, <4>2
    <3>2. CASE n # 1
      <4>1. Based(p)
        BY <1>2, <2>2, <3>2, ArtifactFacts DEF Based, Publishing, At
      <4>2. proc[p].alone
        BY <2>1, <3>2
      <4>3. Whole(proc[p].before)
        BY <1>1, <4>1, <4>2 DEF BaseInv
      <4> QED
        BY <2>1, <3>2, <4>3
    <3> QED
      BY <3>1, <3>2
  <2>6. RootInv(p)'
    <3> SUFFICES ASSUME proc'[p].alone PROVE RootInv(p)'
      BY DEF RootInv
    <3>1. \A b \in Artifacts : root[b] = proc'[p].before[b]
      <4>1. CASE n = 1
        BY <2>1, <4>1
      <4>2. CASE n # 1
        <5>1. n > 1
          BY <2>2, <4>2, ArtifactFacts
        <5>2. Based(p) /\ proc[p].alone
          BY <1>2, <2>1, <4>2, <5>1 DEF Based, Publishing, At
        <5>3. proc'[p].before = proc[p].before
          BY <2>1, <4>2
        <5> QED
          BY <1>1, <1>2, <5>2, <5>3 DEF RootInv, At
      <4> QED
        BY <4>1, <4>2
    <3>2. \A i \in 1 .. n : proc'[p].prior[Artifact(i)] = proc'[p].before[Artifact(i)]
      <4> TAKE i \in 1 .. n
      <4>1. Artifact(i) \in Artifacts
        BY <2>2, ArtifactFacts
      <4>2. CASE Artifact(i) = a
        BY <2>1, <2>2, <3>1, <4>1, <4>2
      <4>3. CASE Artifact(i) # a
        <5>1. i \in 1 .. n - 1 /\ n > 1 /\ n # 1
          BY <2>2, <4>3, ArtifactFacts
        <5>2. Artifact(i) \in Written(p) /\ Based(p) /\ proc[p].alone
          BY <1>2, <2>1, <5>1 DEF Written, Based, Publishing, At
        <5>3. proc[p].prior[Artifact(i)] = proc[p].before[Artifact(i)]
          BY <1>1, <1>2, <5>2 DEF RootInv, At
        <5>4. proc'[p].before = proc[p].before
          BY <2>1, <5>1
        <5> HIDE DEF a
        <5> QED
          BY <2>1, <2>2, <4>1, <4>3, <5>3, <5>4
      <4> QED
        BY <4>2, <4>3
    <3>3. CASE n = LastArtifact
      <4>1. proc'[p].pc = "publish" /\ proc'[p].next = 1
        BY <2>1, <3>3
      <4>2. Written(p)' = {}
        BY <4>1 DEF Written
      <4>3. \A b \in Artifacts : proc'[p].prior[b] = proc'[p].before[b]
        BY <3>2, <3>3, ArtifactFacts
      <4> QED
        BY <1>2, <3>1, <4>1, <4>2, <4>3 DEF RootInv, At
    <3>4. CASE n # LastArtifact
      <4>1. proc'[p].pc = "backup" /\ proc'[p].next - 1 = n
        <5>1. proc'[p].pc = "backup" /\ proc'[p].next = n + 1
          BY <2>1, <3>4
        <5>2. n \in Nat
          BY <2>2, ArtifactFacts
        <5> HIDE DEF n
        <5> QED
          BY <5>1, <5>2
      <4>2. Written(p)' = {Artifact(i) : i \in 1 .. n}
        BY <4>1 DEF Written
      <4>3. \A b \in Written(p)' : proc'[p].prior[b] = proc'[p].before[b]
        BY <3>2, <4>2
      <4> QED
        BY <1>2, <3>1, <4>1, <4>3 DEF RootInv, At
    <3> QED
      BY <3>3, <3>4
  <2>7. VerifyInv(p)'
    BY <1>1, <1>2, <2>1 DEF VerifyInv, JobOf, Publishing
  <2>8. ASSUME NEW q \in Procs, q # p PROVE RootInv(q)' /\ BaseInv(q)' /\ VerifyInv(q)'
    <3>1. proc'[q] = proc[q] /\ (Based(q)' <=> Based(q)) /\ Written(q)' = Written(q)
      BY <2>1, <2>8 DEF Based, Publishing, At, Written
    <3>2. RootInv(q) /\ BaseInv(q) /\ VerifyInv(q)
      BY DEF PubInv
    <3>3. RootInv(q)'
      BY <1>2, <3>1, <3>2 DEF RootInv, At
    <3>4. BaseInv(q)'
      BY <1>2, <2>3, <3>1, <3>2 DEF BaseInv, Whole
    <3>5. VerifyInv(q)'
      BY <1>2, <3>1, <3>2 DEF VerifyInv, At
    <3> QED
      BY <3>3, <3>4, <3>5
  <2> QED
    BY <2>4, <2>5, <2>6, <2>7, <2>8 DEF PubInv
<1> QED
  BY <1>4, <1>5

\* The rollback starts from the backups.
LEMMA ReplaceFailsPub ==
    ASSUME TypeInv, PubInv, NEW p \in Procs, ReplaceFails(p) PROVE PubInv'
<1>1. /\ proc[p] \in ProcStates /\ proc \in [Procs -> ProcStates]
      /\ JobOf(p) /\ RootInv(p) /\ BaseInv(p)
  BY DEF TypeInv, TypeOK, PubInv
<1>2. root' = root /\ torn' = torn /\ proc[p].pc = "publish"
  BY DEF ReplaceFails, At
<1>3. /\ proc'[p].pc = "restore" /\ proc'[p].next = 1 /\ proc'[p].prior = proc[p].prior
      /\ proc'[p].before = proc[p].before /\ proc'[p].alone = proc[p].alone
      /\ proc'[p].job = proc[p].job
      /\ \A q \in Procs \ {p} : proc'[q] = proc[q]
  BY <1>1 DEF ReplaceFails, ProcStates
<1>4. Dirty(p)' /\ Based(p) /\ Written(p)' = {}
  BY <1>2, <1>3 DEF Dirty, Based, Publishing, At, Written
<1>5. QuietInv'
  BY <1>4 DEF QuietInv
<1>6. RootInv(p)'
  BY <1>1, <1>2, <1>3, <1>4 DEF RootInv, At
<1>7. BaseInv(p)'
  <2>1. \A q \in Procs \ {p} : Dirty(q)' <=> Dirty(q)
    BY <1>3 DEF Dirty, At
  <2> QED
    BY <1>1, <1>2, <1>3, <1>4, <2>1 DEF BaseInv, Whole
<1>8. VerifyInv(p)'
  BY <1>1, <1>2, <1>3 DEF VerifyInv, JobOf, Publishing
<1>9. ASSUME NEW q \in Procs, q # p PROVE RootInv(q)' /\ BaseInv(q)' /\ VerifyInv(q)'
  <2>1. proc'[q] = proc[q] /\ (Based(q)' <=> Based(q)) /\ Written(q)' = Written(q)
    BY <1>3, <1>9 DEF Based, Publishing, At, Written
  <2>2. RootInv(q) /\ VerifyInv(q)
    BY DEF PubInv
  <2>3. RootInv(q)' /\ VerifyInv(q)'
    BY <1>2, <2>1, <2>2 DEF RootInv, VerifyInv, At
  <2>4. BaseInv(q)'
    BY <1>4, <1>9 DEF BaseInv
  <2> QED
    BY <2>3, <2>4
<1> QED
  BY <1>5, <1>6, <1>7, <1>8, <1>9 DEF PubInv

\* A write to the root: every other job that is under way is no longer alone,
\* so only the writer's own part of the invariant is left to show.
LEMMA WritePub ==
    ASSUME TypeInv, PubInv, NEW p \in Procs, NEW a, NEW c, NEW r, WriteRoot(p, a, c, r),
           ~torn' /\ (\A q \in Procs : ~Dirty(q)') => Whole(root'),
           RootInv(p)', BaseInv(p)', VerifyInv(p)'
    PROVE  PubInv'
<1>1. QuietInv'
  BY DEF QuietInv, Whole
<1>2. ASSUME NEW q \in Procs, q # p PROVE RootInv(q)' /\ BaseInv(q)' /\ VerifyInv(q)'
  <2> DEFINE b == At(q, "idle")
  <2>1. proc[q] \in ProcStates /\ JobOf(q) /\ b \in BOOLEAN
    BY DEF TypeInv, TypeOK, At
  <2>2. proc'[q] = [proc[q] EXCEPT !.alone = b]
    BY <1>2 DEF WriteRoot
  <2> HIDE DEF b
  <2>3. proc'[q].pc = proc[q].pc /\ proc'[q].job = proc[q].job /\ proc'[q].alone = b
    BY <2>1, <2>2 DEF ProcStates
  <2>4. CASE proc[q].pc = "idle"
    BY <2>1, <2>3, <2>4 DEF RootInv, BaseInv, VerifyInv, Based, Publishing, JobOf, At
  <2>5. CASE proc[q].pc # "idle"
    <3>1. ~proc'[q].alone
      BY <2>3, <2>5 DEF b, At
    <3> QED
      BY <3>1 DEF RootInv, BaseInv, VerifyInv
  <2> QED
    BY <2>4, <2>5
<1> QED
  BY <1>1, <1>2 DEF PubInv

\* What others are after a write.
LEMMA WriteOthers ==
    ASSUME TypeInv, NEW p \in Procs, NEW a \in Artifacts, NEW c, NEW r, WriteRoot(p, a, c, r)
    PROVE  /\ proc'[p] = r
           /\ \A b \in Artifacts : root'[b] = IF b = a THEN c ELSE root[b]
           /\ \A q \in Procs \ {p} : Dirty(q)' <=> Dirty(q)
<1>1. ASSUME NEW q \in Procs \ {p} PROVE Dirty(q)' <=> Dirty(q)
  <2> DEFINE b == At(q, "idle")
  <2>1. proc[q] \in ProcStates
    BY DEF TypeInv, TypeOK
  <2>2. proc'[q] = [proc[q] EXCEPT !.alone = b]
    BY DEF WriteRoot
  <2> HIDE DEF b
  <2>3. proc'[q].pc = proc[q].pc /\ proc'[q].next = proc[q].next
    BY <2>1, <2>2 DEF ProcStates
  <2> QED
    BY <2>3 DEF Dirty, At
<1>2. proc'[p] = r
  BY DEF WriteRoot
<1>3. \A b \in Artifacts : root'[b] = IF b = a THEN c ELSE root[b]
  BY DEF WriteRoot, TypeInv, TypeOK
<1> QED
  BY <1>1, <1>2, <1>3

\* Replacing an artifact: those written so far are of the new version.
LEMMA ReplacePub ==
    ASSUME TypeInv, PubInv, NEW p \in Procs, ReplaceArtifact(p) PROVE PubInv'
<1> DEFINE n == proc[p].next
           a == Artifact(n)
           c == proc[p].ver
           r == IF n = LastArtifact THEN Idle("succeeded") ELSE [proc[p] EXCEPT !.next = @ + 1]
<1>1. /\ proc[p] \in ProcStates /\ JobOf(p) /\ RootInv(p) /\ BaseInv(p)
  BY DEF TypeInv, TypeOK, PubInv
<1>2. n \in 1 .. LastArtifact /\ n \in Nat
  BY <1>1 DEF ProcStates
<1>3. a \in Artifacts
  BY <1>2, ArtifactFacts
<1>4. WriteRoot(p, a, c, r) /\ proc[p].pc = "publish"
      /\ (n = LastArtifact => torn' = ~proc[p].alone) /\ (n # LastArtifact => torn' = torn)
  BY DEF ReplaceArtifact, At
<1>5. CASE n # LastArtifact
  <2>1. /\ r.pc = "publish" /\ r.next = n + 1 /\ r.job = proc[p].job /\ r.ver = proc[p].ver
        /\ r.prior = proc[p].prior /\ r.before = proc[p].before /\ r.alone = proc[p].alone
    BY <1>1, <1>4, <1>5 DEF ProcStates
  <2> HIDE DEF r, c, a
  <2>2. /\ proc'[p] = r
        /\ \A b \in Artifacts : root'[b] = IF b = a THEN c ELSE root[b]
        /\ \A q \in Procs \ {p} : Dirty(q)' <=> Dirty(q)
    BY <1>3, <1>4, WriteOthers
  <2>3. Dirty(p)' /\ Based(p)
    BY <1>2, <1>4, <2>1, <2>2 DEF Dirty, Based, Publishing, At
  <2>4. VerifyInv(p)'
    BY <1>1, <1>4, <2>1, <2>2 DEF VerifyInv, JobOf, Publishing
  <2>5. BaseInv(p)'
    BY <1>1, <1>4, <1>5, <2>1, <2>2, <2>3 DEF BaseInv, Whole
  <2>6. RootInv(p)'
    <3> SUFFICES ASSUME proc[p].alone PROVE RootInv(p)'
      BY <2>1, <2>2 DEF RootInv
    <3>1. /\ \A b \in Artifacts : proc[p].prior[b] = proc[p].before[b]
          /\ \A b \in Artifacts :
               root[b] = IF b \in Written(p) THEN c ELSE proc[p].before[b]
      BY <1>1, <1>4, <2>3 DEF RootInv, At, c
    <3>2. Written(p)' = Written(p) \cup {a}
      <4>1. Written(p)' = {Artifact(i) : i \in 1 .. n}
        <5>1. proc'[p].next - 1 = n
          BY <1>2, <2>1, <2>2
        <5> QED
          BY <5>1 DEF Written
      <4>2. 1 .. n = (1 .. n - 1) \cup {n}
        BY <1>2
      <4> QED
        BY <4>1, <4>2 DEF Written, a
    <3>3. \A b \in Artifacts :
             root'[b] = IF b \in Written(p)' THEN c ELSE proc[p].before[b]
      BY <2>2, <3>1, <3>2
    <3> QED
      BY <1>4, <2>1, <2>2, <3>1, <3>3 DEF RootInv, At, c
  <2>7. ~torn' /\ (\A q \in Procs : ~Dirty(q)') => Whole(root')
    BY <2>3
  <2> QED
    BY <1>4, <2>4, <2>5, <2>6, <2>7, WritePub
<1>6. CASE n = LastArtifact
  <2>1. r.pc = "idle" /\ r.job = "none"
    BY <1>6 DEF Idle
  <2> HIDE DEF r, c, a
  <2>2. /\ proc'[p] = r
        /\ \A b \in Artifacts : root'[b] = IF b = a THEN c ELSE root[b]
    BY <1>3, <1>4, WriteOthers
  <2>3. RootInv(p)' /\ BaseInv(p)' /\ VerifyInv(p)'
    BY <2>1, <2>2 DEF RootInv, BaseInv, VerifyInv, Based, Publishing
  <2>4. ASSUME ~torn' PROVE Whole(root')
    <3>1. proc[p].alone /\ Based(p)
      BY <1>4, <1>6, <2>4 DEF Based, Publishing, At
    <3>2. \A b \in Written(p) : b \in Artifacts => root[b] = c
      BY <1>1, <1>4, <3>1 DEF RootInv, At, c
    <3>3. \A b \in Artifacts : b = a \/ b \in Written(p)
      <4> TAKE b \in Artifacts
      <4>1. PICK i \in 1 .. LastArtifact : b = Artifact(i)
        BY ArtifactFacts
      <4>2. CASE i = n
        BY <4>1, <4>2 DEF a
      <4>3. CASE i # n
        <5>1. i \in 1 .. n - 1
          BY <1>2, <1>6, <4>3, ArtifactFacts
        <5> QED
          BY <4>1, <5>1 DEF Written
      <4> QED
        BY <4>2, <4>3
    <3>4. \A b \in Artifacts : root'[b] = c
      BY <2>2, <3>2, <3>3
    <3> QED
      BY <3>4 DEF Whole, OneVersion
  <2> QED
    BY <1>4, <2>3, <2>4, WritePub
<1> QED
  BY <1>5, <1>6

\* Restoring an artifact: those dealt with are what they were before.
LEMMA RestorePub ==
    ASSUME TypeInv, PubInv, NEW p \in Procs, RestoreArtifact(p) PROVE PubInv'
<1> DEFINE n == proc[p].next
           a == Artifact(n)
           c == proc[p].prior[a]
           r == IF n = LastArtifact THEN Idle("publish_error")
                ELSE [proc[p] EXCEPT !.next = @ + 1]
<1>1. /\ proc[p] \in ProcStates /\ JobOf(p) /\ RootInv(p) /\ BaseInv(p)
  BY DEF TypeInv, TypeOK, PubInv
<1>2. n \in 1 .. LastArtifact /\ n \in Nat
  BY <1>1 DEF ProcStates
<1>3. a \in Artifacts
  BY <1>2, ArtifactFacts
<1>4. WriteRoot(p, a, c, r) /\ proc[p].pc = "restore"
      /\ (n = LastArtifact => torn' = (torn \/ ~proc[p].alone))
      /\ (n # LastArtifact => torn' = torn)
  BY DEF RestoreArtifact, At
<1>5. Based(p)
  BY <1>4 DEF Based, Publishing, At
<1>6. ASSUME proc[p].alone
      PROVE  /\ \A b \in Artifacts : proc[p].prior[b] = proc[p].before[b]
             /\ \A b \in Written(p) : root[b] = proc[p].before[b]
  BY <1>1, <1>4, <1>5, <1>6 DEF RootInv, At
<1>7. CASE n # LastArtifact
  <2>1. /\ r.pc = "restore" /\ r.next = n + 1 /\ r.job = proc[p].job
        /\ r.prior = proc[p].prior /\ r.before = proc[p].before /\ r.alone = proc[p].alone
    BY <1>1, <1>4, <1>7 DEF ProcStates
  <2> HIDE DEF r, c, a
  <2>2. /\ proc'[p] = r
        /\ \A b \in Artifacts : root'[b] = IF b = a THEN c ELSE root[b]
        /\ \A q \in Procs \ {p} : Dirty(q)' <=> Dirty(q)
    BY <1>3, <1>4, WriteOthers
  <2>3. Dirty(p)'
    BY <2>1, <2>2 DEF Dirty, At
  <2>4. VerifyInv(p)'
    BY <1>1, <1>4, <2>1, <2>2 DEF VerifyInv, JobOf, Publishing
  <2>5. BaseInv(p)'
    BY <1>1, <1>4, <1>5, <1>7, <2>1, <2>2 DEF BaseInv, Whole
  <2>6. RootInv(p)'
    <3> SUFFICES ASSUME proc[p].alone PROVE RootInv(p)'
      BY <2>1, <2>2 DEF RootInv
    <3>1. \A i \in 1 .. n : root'[Artifact(i)] = proc[p].before[Artifact(i)]
      <4> TAKE i \in 1 .. n
      <4>1. Artifact(i) \in Artifacts
        <5>1. i \in 1 .. LastArtifact
          BY <1>2, ArtifactFacts
        <5> QED
          BY <5>1, ArtifactFacts
      <4>2. CASE Artifact(i) = a
        BY <1>3, <1>6, <2>2, <4>2 DEF c
      <4>3. CASE Artifact(i) # a
        <5>1. i \in 1 .. n - 1
          BY <1>2, <4>3 DEF a
        <5>2. Artifact(i) \in Written(p)
          BY <5>1 DEF Written
        <5> QED
          BY <1>6, <2>2, <4>1, <4>3, <5>2
      <4> QED
        BY <4>2, <4>3
    <3>2. Written(p)' = {Artifact(i) : i \in 1 .. n}
      <4>1. proc'[p].next - 1 = n
        BY <1>2, <2>1, <2>2
      <4> QED
        BY <4>1 DEF Written
    <3>3. \A b \in Written(p)' : root'[b] = proc[p].before[b]
      BY <3>1, <3>2
    <3> QED
      BY <1>6, <2>1, <2>2, <3>3 DEF RootInv, At
  <2>7. ~torn' /\ (\A q \in Procs : ~Dirty(q)') => Whole(root')
    BY <2>3
  <2> QED
    BY <1>4, <2>4, <2>5, <2>6, <2>7, WritePub
<1>8. CASE n = LastArtifact
  <2>1. r.pc = "idle" /\ r.job = "none"
    BY <1>8 DEF Idle
  <2> HIDE DEF r, c, a
  <2>2. /\ proc'[p] = r
        /\ \A b \in Artifacts : root'[b] = IF b = a THEN c ELSE root[b]
        /\ \A q \in Procs \ {p} : Dirty(q)' <=> Dirty(q)
    BY <1>3, <1>4, WriteOthers
  <2>3. RootInv(p)' /\ BaseInv(p)' /\ VerifyInv(p)'
    BY <2>1, <2>2 DEF RootInv, BaseInv, VerifyInv, Based, Publishing
  <2>4. ASSUME ~torn', \A q \in Procs : ~Dirty(q)' PROVE Whole(root')
    <3>1. proc[p].alone /\ ~torn
      BY <1>4, <1>8, <2>4
    <3>2. Whole(proc[p].before)
      BY <1>1, <1>5, <2>2, <2>4, <3>1 DEF BaseInv
    <3>3. \A b \in Artifacts : b = a \/ b \in Written(p)
      <4> TAKE b \in Artifacts
      <4>1. PICK i \in 1 .. LastArtifact : b = Artifact(i)
        BY ArtifactFacts
      <4>2. CASE i = n
        BY <4>1, <4>2 DEF a
      <4>3. CASE i # n
        <5>1. i \in 1 .. n - 1
          BY <1>2, <1>8, <4>3, ArtifactFacts
        <5> QED
          BY <4>1, <5>1 DEF Written
      <4> QED
        BY <4>2, <4>3
    <3>4. \A b \in Artifacts : root'[b] = proc[p].before[b]
      BY <1>3, <1>6, <2>2, <3>1, <3>3 DEF c
    <3> QED
      BY <3>2, <3>4, ArtifactFacts DEF Whole, OneVersion
  <2> QED
    BY <1>4, <2>3, <2>4, WritePub
<1> QED
  BY <1>7, <1>8

\* At first nothing is published.
LEMMA InitPub == Init => PubInv
<1> SUFFICES ASSUME Init PROVE PubInv
  OBVIOUS
<1>1. \A p \in Procs : proc[p] = Idle("none")
  BY DEF Init
<1>2. Idle("none").pc = "idle" /\ Idle("none").job = "none"
  BY DEF Idle
<1>3. \A p \in Procs : RootInv(p) /\ BaseInv(p) /\ VerifyInv(p)
  BY <1>1, <1>2 DEF RootInv, BaseInv, VerifyInv, Based, Publishing
<1>4. Whole(root)
  <2>1. PICK D \in {{}, {Artifact(LastArtifact)}} :
          root = [a \in Artifacts |-> IF a \in D THEN Directory ELSE Absent]
    BY DEF Init
  <2>2. CASE D = {}
    BY <2>1, <2>2 DEF Whole, OneVersion
  <2>3. CASE D = {Artifact(LastArtifact)}
    <3>1. root[Manifest] = Directory
      BY <2>1, <2>3, ArtifactFacts
    <3> QED
      BY <3>1 DEF Whole
  <2> QED
    BY <2>1, <2>2, <2>3
<1> QED
  BY <1>3, <1>4 DEF PubInv, QuietInv

\* Every step keeps the invariant of the publication.
LEMMA StepPub == TypeInv /\ PubInv /\ [Next]_vars => PubInv'
<1> SUFFICES ASSUME TypeInv, PubInv, [Next]_vars PROVE PubInv'
  OBVIOUS
<1>1. ASSUME NEW p \in Procs, Job(p) PROVE PubInv'
  <2>1. CASE RestoreFails(p)
    BY <2>1, EndPub DEF RestoreFails
  <2>2. CASE Interrupted(p)
    <3>1. /\ Ends(p, "interrupted") /\ root' = root
          /\ torn' = (torn \/ proc[p].pc \in {"publish", "restore"})
      BY <2>2 DEF Interrupted
    <3>2. Dirty(p) => torn'
      BY <3>1 DEF Dirty, At
    <3>3. torn => torn'
      BY <3>1
    <3> QED
      BY <3>1, <3>2, <3>3, EndPub
  <2> QED
    BY <1>1, <2>1, <2>2, PrivatePub, BackupPub, ReplacePub, ReplaceFailsPub, RestorePub DEF Job
<1>2. ASSUME root' = root, proc' = proc, torn' = torn PROVE PubInv'
  <2>1. /\ \A q \in Procs : Dirty(q)' <=> Dirty(q)
        /\ \A q \in Procs : (Based(q)' <=> Based(q)) /\ Written(q)' = Written(q)
    BY <1>2 DEF Dirty, Based, Publishing, At, Written
  <2>2. QuietInv'
    BY <1>2, <2>1 DEF PubInv, QuietInv, Whole
  <2>3. ASSUME NEW q \in Procs PROVE RootInv(q)' /\ VerifyInv(q)'
    BY <1>2, <2>1 DEF PubInv, RootInv, VerifyInv, At
  <2>4. ASSUME NEW q \in Procs PROVE BaseInv(q)'
    BY <1>2, <2>1 DEF PubInv, BaseInv, Whole
  <2> QED
    BY <2>2, <2>3, <2>4 DEF PubInv
<1>3. ASSUME NEW v \in Versions, CheckOut(v) PROVE PubInv'
  BY <1>2, <1>3 DEF CheckOut
<1>4. ASSUME AllJobsDone \/ UNCHANGED vars PROVE PubInv'
  BY <1>2, <1>4 DEF AllJobsDone, vars
<1> QED
  BY <1>1, <1>3, <1>4 DEF Next

\* The invariant of the publication holds in every run.
LEMMA PubCorrect == Spec => []PubInv
<1> QED
  BY InitPub, StepPub, TypeCorrect, PTL DEF Spec

\* Between publications what is published is whole, or the history says what
\* tore it; the tables always are (_publish_staged_snapshot, load_csvs).
THEOREM SnapshotsWhole == Spec => []SnapshotWhole
<1>1. PubInv /\ LoadInv => SnapshotWhole
  <2> SUFFICES ASSUME PubInv, LoadInv PROVE SnapshotWhole
    OBVIOUS
  <2>1. ASSUME Quiet, ~torn, root["dataset_manifest"] # Directory
        PROVE OneVersion(Artifacts, root)
    <3>1. \A q \in Procs : ~Dirty(q)
      BY <2>1 DEF Quiet, Publishing, Dirty, At
    <3> QED
      BY <2>1, <3>1 DEF PubInv, QuietInv, Whole, Manifest
  <2> QED
    BY <2>1 DEF SnapshotWhole, LoadInv
<1> QED
  BY <1>1, PubCorrect, LoadCorrect, PTL

\* A job under way has no outcome yet: only its own last step gives it one.
LEMMA OutcomeByOwner ==
    ASSUME TypeInv, NEW p \in Procs, ~At(p, "idle"), [Next]_vars, NEW o, o # "none",
           proc'[p].outcome = o
    PROVE  Job(p)
<1>1. proc[p].outcome = "none" /\ proc[p] \in ProcStates
  BY DEF TypeInv, TypeOK, JobOf
<1>2. ASSUME proc' = proc PROVE FALSE
  BY <1>1, <1>2
<1>3. ASSUME NEW q \in Procs, Job(q), q # p PROVE FALSE
  <2>1. proc'[p] = proc[p] \/ proc'[p] = [proc[p] EXCEPT !.alone = At(p, "idle")]
    BY <1>3 DEF Job, StartGenerate, StartVerify, LoadEvidence, StageFiles, ResetTables, CopyTable,
                CommitLoad, JobFails, BackupArtifact, ReplaceArtifact, ReplaceFails,
                RestoreArtifact, RestoreFails, Compare, Interrupted, Ends, Goes, WriteRoot,
                TypeInv, TypeOK
  <2> DEFINE b == At(p, "idle")
  <2> HIDE DEF b
  <2>2. [proc[p] EXCEPT !.alone = b].outcome = proc[p].outcome
    BY <1>1 DEF ProcStates
  <2> QED
    BY <1>1, <2>1, <2>2 DEF b
<1> QED
  BY <1>2, <1>3 DEF Next, CheckOut, AllJobsDone, vars

\* A publication that re-raises the error of a replacement has put every file
\* back, whichever replacement failed (_restore_known_artifacts).
THEOREM RollbackExact == Spec => RolledBackExactly
<1> DEFINE Exact == \A p \in Procs :
             proc[p].pc = "restore" /\ proc'[p].outcome = "publish_error" /\ proc[p].alone
               => root' = proc[p].before
<1>1. TypeInv /\ PubInv /\ [Next]_vars => [Exact]_vars
  <2> SUFFICES ASSUME TypeInv, PubInv, [Next]_vars, NEW p \in Procs,
                      proc[p].pc = "restore", proc'[p].outcome = "publish_error", proc[p].alone
               PROVE  root' = proc[p].before
    OBVIOUS
  <2> DEFINE n == proc[p].next
             a == Artifact(n)
  <2>1. Job(p)
    BY OutcomeByOwner DEF At
  <2>2. /\ proc[p] \in ProcStates /\ proc \in [Procs -> ProcStates] /\ RootInv(p)
        /\ proc[p].outcome = "none"
        /\ root \in [Artifacts -> Versions \cup {Absent, Directory}]
    BY DEF TypeInv, TypeOK, PubInv, JobOf, At
  <2>3. RestoreArtifact(p)
    <3>1. \A o : Idle(o).outcome = o
      BY DEF Idle
    <3>2. \A o : Ends(p, o) => proc'[p].outcome = o
      BY <2>2, <3>1 DEF Ends
    <3>3. RestoreArtifact(p) \/ RestoreFails(p) \/ Interrupted(p)
      BY <2>1 DEF Job, StartGenerate, StartVerify, LoadEvidence, StageFiles, ResetTables,
                  CopyTable, CommitLoad, JobFails, BackupArtifact, ReplaceArtifact, ReplaceFails,
                  Compare, At
    <3>4. ~RestoreFails(p) /\ ~Interrupted(p)
      BY <3>2 DEF RestoreFails, Interrupted
    <3> QED
      BY <3>3, <3>4
  <2>4. n = LastArtifact /\ n \in Nat
    <3>1. n \in Nat
      BY <2>2 DEF ProcStates
    <3>2. ASSUME n # LastArtifact PROVE FALSE
      <4>1. proc'[p] = [proc[p] EXCEPT !.next = @ + 1]
        BY <2>3, <3>2 DEF RestoreArtifact, WriteRoot
      <4>2. proc'[p].outcome = proc[p].outcome
        BY <2>2, <4>1 DEF ProcStates
      <4> QED
        BY <2>2, <4>2
    <3> QED
      BY <3>1, <3>2
  <2>5. root' = [root EXCEPT ![a] = proc[p].prior[a]]
    BY <2>3 DEF RestoreArtifact, WriteRoot
  <2>6. /\ \A b \in Artifacts : proc[p].prior[b] = proc[p].before[b]
        /\ \A b \in Written(p) : root[b] = proc[p].before[b]
    BY <2>2 DEF RootInv, Based, Publishing, At
  <2>7. \A b \in Artifacts : b = a \/ b \in Written(p)
    <3> TAKE b \in Artifacts
    <3>1. PICK i \in 1 .. LastArtifact : b = Artifact(i)
      BY ArtifactFacts
    <3>2. CASE i = n
      BY <3>1, <3>2
    <3>3. CASE i # n
      <4>1. i \in 1 .. n - 1
        BY <2>4, <3>3, ArtifactFacts
      <4> QED
        BY <3>1, <4>1 DEF Written
    <3> QED
      BY <3>2, <3>3
  <2>8. proc[p].before \in [Artifacts -> Versions \cup {Absent, Directory}]
    BY <2>2 DEF ProcStates
  <2>9. root' \in [Artifacts -> Versions \cup {Absent, Directory}]
    <3>1. TypeInv'
      BY StepType
    <3> QED
      BY <3>1 DEF TypeInv, TypeOK
  <2> HIDE DEF a
  <2>10. \A b \in Artifacts : root'[b] = proc[p].before[b]
    BY <2>2, <2>5, <2>6, <2>7
  <2> QED
    BY <2>8, <2>9, <2>10
<1> QED
  BY <1>1, TypeCorrect, PubCorrect, PTL DEF Spec, RolledBackExactly

\* A verification that succeeds speaks of everything that is published, the
\* files it does not read included (_verify, _compare_manifests).
THEOREM VerificationHolds == Spec => VerifiedTruthful
<1> DEFINE Truthful == \A p \in Procs :
             (/\ proc[p].job = "verify" /\ proc'[p].outcome = "succeeded"
              /\ proc[p].alone /\ ~torn /\ Quiet)
               => \A a \in Artifacts : root[a] = proc[p].ver
<1>1. TypeInv /\ PubInv /\ [Next]_vars => [Truthful]_vars
  <2> SUFFICES ASSUME TypeInv, PubInv, [Next]_vars, NEW p \in Procs,
                      proc[p].job = "verify", proc'[p].outcome = "succeeded",
                      proc[p].alone, ~torn, Quiet
               PROVE  \A a \in Artifacts : root[a] = proc[p].ver
    OBVIOUS
  <2>1. /\ proc[p] \in ProcStates /\ proc \in [Procs -> ProcStates] /\ VerifyInv(p)
        /\ JobOf(p) /\ Progress(p)
        /\ proc[p].outcome = "none" /\ ~At(p, "idle")
    BY DEF TypeInv, TypeOK, PubInv, JobOf, At
  <2>2. Job(p)
    BY <2>1, OutcomeByOwner
  <2>3. Compare(p) /\ EvidenceAgrees(p)
    <3>1. \A o : Idle(o).outcome = o
      BY DEF Idle
    <3>2. \A o : Ends(p, o) => proc'[p].outcome = o
      BY <2>1, <3>1 DEF Ends
    <3>3. ~StartGenerate(p) /\ ~StartVerify(p)
      BY <2>1 DEF StartGenerate, StartVerify
    <3>4. ~BackupArtifact(p) /\ ~ReplaceArtifact(p) /\ ~ReplaceFails(p)
          /\ ~RestoreArtifact(p) /\ ~RestoreFails(p)
      BY <2>1 DEF BackupArtifact, ReplaceArtifact, ReplaceFails, RestoreArtifact, RestoreFails,
                  JobOf, Publishing, At
    <3>5. ~JobFails(p) /\ ~Interrupted(p)
      BY <3>2 DEF JobFails, Interrupted
    <3>6. ~LoadEvidence(p)
      <4>1. CASE ~IsFile(root[EvidenceOrder[proc[p].next]])
        BY <3>2, <4>1 DEF LoadEvidence
      <4>2. CASE IsFile(root[EvidenceOrder[proc[p].next]])
        <5>1. LoadEvidence(p) => proc'[p].outcome = proc[p].outcome
          BY <2>1, <4>2 DEF LoadEvidence, ProcStates
        <5> QED
          BY <2>1, <5>1
      <4> QED
        BY <4>1, <4>2
    <3>7. StageFiles(p) \/ ResetTables(p) \/ CopyTable(p) \/ CommitLoad(p)
            => proc'[p].outcome = proc[p].outcome
      BY <2>1 DEF StageFiles, ResetTables, CopyTable, CommitLoad, Goes, ProcStates
    <3>8. Compare(p)
      BY <2>1, <2>2, <3>3, <3>4, <3>5, <3>6, <3>7 DEF Job
    <3>9. EvidenceAgrees(p)
      <4>1. ~EvidenceAgrees(p) => Ends(p, "mismatch")
        BY <3>8 DEF Compare
      <4> QED
        BY <3>2, <4>1
    <3> QED
      BY <3>8, <3>9
  <2>4. proc[p].pc = "compare" /\ proc[p].ver \in Versions
    BY <2>1, <2>3 DEF Compare, Progress, At
  <2>5. root[Manifest] = proc[p].ver
    <3>1. proc[p].read[EvidenceOrder[1]] = root[EvidenceOrder[1]]
      BY <2>1, <2>4 DEF VerifyInv, At
    <3>2. proc[p].read[Evidence[3]] = proc[p].ver
      BY <2>3 DEF EvidenceAgrees
    <3>3. EvidenceOrder[1] = Manifest /\ Evidence[3] = Manifest
      BY DEF EvidenceOrder, Evidence, Manifest
    <3> QED
      BY <3>1, <3>2, <3>3
  <2>6. root[Manifest] # Directory
    <3>1. Directory \notin Versions
      BY DatasetAssumption
    <3> QED
      BY <2>4, <2>5, <3>1
  <2>7. \A q \in Procs : ~Dirty(q)
    BY DEF Quiet, Publishing, Dirty, At
  <2>8. OneVersion(Artifacts, root)
    BY <2>6, <2>7 DEF PubInv, QuietInv, Whole
  <2> QED
    BY <2>5, <2>8, ArtifactFacts DEF OneVersion
<1> QED
  BY <1>1, TypeCorrect, PubCorrect, PTL DEF Spec, VerifiedTruthful
=============================================================================
