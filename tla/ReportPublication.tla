--------------------------- MODULE ReportPublication ---------------------------
(***************************************************************************)
(* Publication of evaluation reports (evals/reporting.py,                  *)
(* evals/week2_reporting.py and evals/week3/reporting.py).                 *)
(*                                                                         *)
(* A publisher builds a report in a staging directory and renames it, with *)
(* a rename that never replaces, to the final name.  The three harnesses   *)
(* differ in how they own the staging directory: the baseline has a unique *)
(* name, week 2 reserves a fixed name and compares inodes, week 3 reserves *)
(* it and keeps descriptors, validates the inventory before and after the  *)
(* rename, and moves foreign content aside rather than delete it.          *)
(*                                                                         *)
(* Publishers share one directory and one final name.  Somebody else (a    *)
(* user, another program) may add, replace, remove or move entries between *)
(* any two of their steps; a check and the system call it guards are one   *)
(* step.  Any step may fail, be interrupted, or be the last of its process.*)
(***************************************************************************)
EXTENDS Naturals, Sequences, FiniteSets

CONSTANTS Procs,       \* publishers
          Nobody,      \* no directory at a name
          Foreign,     \* the directory of somebody else
          Kinds,       \* harnesses: a subset of {"baseline", "week2", "week3"}
          Parts,       \* the report's entries, in the order they are written
          MaxForeign,  \* bound: interventions of somebody else
          MaxFaults    \* bound: failing system calls, interruptions and kills

ASSUME PublicationAssumption ==
    /\ {Nobody, Foreign} \cap Procs = {} /\ Nobody # Foreign
    /\ Kinds \subseteq {"baseline", "week2", "week3"}
    /\ IsFiniteSet(Procs)
    /\ Parts \in Seq(STRING) /\ Parts # <<>>
    /\ "extra" \notin {Parts[i] : i \in DOMAIN Parts}     \* no entry of the report's
    /\ MaxForeign \in Nat /\ MaxFaults \in Nat

Dirs == Procs \cup {Foreign}
Entries == {Parts[i] : i \in DOMAIN Parts} \cup {"extra"}
CleanOrder == Parts \o <<"extra">>

Final == <<"final", Nobody>>
Aside == <<"aside", Nobody>>          \* wherever somebody else moves a directory
Quarantine(p) == <<".week3-foreign", p>>
Names == {Final, Aside, <<"staging", Nobody>>}
           \cup {<<"staging", p>> : p \in Procs} \cup {Quarantine(p) : p \in Procs}

VARIABLES kind,      \* the harness whose reports these are
          names,     \* name -> directory in the mode directory
          content,   \* directory -> entry -> "none" | "own" | "foreign"
          proc,      \* publisher -> where it is
          rescued,   \* foreign files moved out of a staging directory
          made,      \* foreign files ever made
          tampered,  \* what somebody else has done to which directory
          foreigns, faults

vars == <<kind, names, content, proc, rescued, made, tampered, foreigns, faults>>

\* A unique staging name for the baseline, one reservation for the others.
StagingName(p) == IF kind = "baseline" THEN <<"staging", p>> ELSE <<"staging", Nobody>>

Empty == [x \in Entries |-> "none"]
Whole == [x \in Entries |-> IF x = "extra" THEN "none" ELSE "own"]

Init ==
    /\ kind \in Kinds
    /\ names = [n \in Names |-> Nobody]
    /\ content = [d \in Dirs |-> Empty]
    /\ proc = [p \in Procs |-> [pc |-> "idle", next |-> 1]]
    /\ rescued = 0 /\ made = 0 /\ tampered = {}
    /\ foreigns = 0 /\ faults = 0

Ended == {"done", "refused", "failed", "dirty", "interrupted", "crashed"}
At(p, pc) == proc[p].pc = pc
Go(p, pc) == proc' = [proc EXCEPT ![p] = [pc |-> pc, next |-> 1]]
Fault == faults < MaxFaults /\ faults' = faults + 1
Disk == <<names, content>>
Ghost == <<kind, rescued, made, tampered, foreigns>>

Linked(d) == \E n \in Names : names[n] = d

\* Where a publisher goes when a step of it raises: nothing of a baseline or a
\* week 2 report is looked for except under its staging name; week 3 gives the
\* name of an unverified reservation up and withdraws an unverified report.
Fail(p) ==
    Go(p, CASE kind # "week3" -> "rmtree"
            [] kind = "week3" /\ At(p, "verify") -> "release"
            [] kind = "week3" /\ At(p, "confirm") -> "quarantine"
            [] OTHER -> "clean")

(***************************************************************************)
(* Reservation: reserve_week2_report, reserve_week3_report                 *)
(***************************************************************************)
Begin(p) ==
    /\ At(p, "idle")
    /\ Go(p, IF kind = "week3" THEN "probe" ELSE "mkdir")
    /\ UNCHANGED <<Disk, Ghost, faults>>

\* Week 3 looks at both names first.
ProbeNames(p) ==
    /\ At(p, "probe")
    /\ Go(p, IF names[Final] = Nobody /\ names[StagingName(p)] = Nobody
             THEN "mkdir" ELSE "refused")
    /\ UNCHANGED <<Disk, Ghost, faults>>

AfterMkdir == CASE kind = "baseline" -> "write" [] kind = "week2" -> "check_final"
                [] kind = "week3" -> "verify"

\* mkdir of the staging directory fails on whatever has the name.
MakeStaging(p) ==
    /\ At(p, "mkdir")
    /\ IF names[StagingName(p)] # Nobody THEN Go(p, "refused") /\ UNCHANGED names
       ELSE Go(p, AfterMkdir) /\ names' = [names EXCEPT ![StagingName(p)] = p]
    /\ UNCHANGED <<content, Ghost, faults>>

\* Week 3: the name must lead to the descriptor's directory.
VerifyStaging(p) ==
    /\ At(p, "verify")
    /\ IF names[StagingName(p)] = p THEN Go(p, "reserved") ELSE Fail(p)
    /\ UNCHANGED <<Disk, Ghost, faults>>

\* Otherwise rmdir takes whatever has the name, if it is empty.
ReleaseName(p) ==
    LET d == names[StagingName(p)]
    IN  /\ At(p, "release")
        /\ IF d # Nobody /\ content[d] # Empty THEN Go(p, "dirty") /\ UNCHANGED names
           ELSE Go(p, "failed") /\ names' = [names EXCEPT ![StagingName(p)] = Nobody]
        /\ UNCHANGED <<content, Ghost, faults>>

\* Week 2: the final name must be free before and after the probe of an
\* atomic rename, whose own files have unique names.
CheckFinal(p) ==
    /\ proc[p].pc \in {"check_final", "recheck_final"}
    /\ IF names[Final] # Nobody THEN Fail(p)
       ELSE Go(p, IF At(p, "check_final") THEN "recheck_final" ELSE "reserved")
    /\ UNCHANGED <<Disk, Ghost, faults>>

(***************************************************************************)
(* The cases run between reservation and writing                           *)
(***************************************************************************)
StartWriting(p) ==
    /\ At(p, "reserved")
    /\ Go(p, "validate")
    /\ UNCHANGED <<Disk, Ghost, faults>>

\* _validate_reservation and _validate_owned: the reservation is still there.
Validate(p) ==
    /\ At(p, "validate")
    /\ IF names[StagingName(p)] = p
          /\ (kind = "week2" => names[Final] = Nobody /\ content[p] = Empty)
       THEN Go(p, "write") ELSE Fail(p)
    /\ UNCHANGED <<Disk, Ghost, faults>>

\* One entry: by descriptor and exclusively in week 3, by path and over another
\* file before; the first part is a directory, and mkdir is exclusive.
WritePart(p) ==
    LET x == Parts[proc[p].next]
        d == IF kind = "week3" THEN p ELSE names[StagingName(p)]
        taken == \/ ~Linked(d) \/ d = Nobody
                 \/ content[d][x] # "none" /\ (kind = "week3" \/ proc[p].next = 1)
        last == proc[p].next = Len(Parts)
    IN  /\ At(p, "write")
        /\ IF taken THEN Fail(p) /\ UNCHANGED content
           ELSE /\ content' = [content EXCEPT ![d][x] = "own"]
                /\ proc' = [proc EXCEPT ![p] =
                       [pc |-> IF ~last THEN "write"
                               ELSE IF kind = "week3" THEN "inventory" ELSE "rename",
                        next |-> IF last THEN 1 ELSE @.next + 1]]
        /\ UNCHANGED <<names, Ghost, faults>>

\* _validate_inventory, then _validate_owned again in _publish_owned.
ValidateInventory(p) ==
    /\ At(p, "inventory")
    /\ IF names[StagingName(p)] = p /\ content[p] = Whole THEN Go(p, "bind") ELSE Fail(p)
    /\ UNCHANGED <<Disk, Ghost, faults>>

ValidateOwned(p) ==
    /\ At(p, "bind")
    /\ IF names[StagingName(p)] = p THEN Go(p, "rename") ELSE Fail(p)
    /\ UNCHANGED <<Disk, Ghost, faults>>

(***************************************************************************)
(* Publication                                                             *)
(***************************************************************************)
\* The primitives refuse a missing source and a target of any type
\* (renamex_np, renameat2, MoveFileEx; no other platform publishes).
RenameRefused(p) == names[StagingName(p)] = Nobody \/ names[Final] # Nobody

\* A rename that replaces, as os.rename does with an empty target.
RenameOver(p) ==
    LET d == names[StagingName(p)]
    IN  /\ At(p, "rename")
        /\ IF d = Nobody THEN Fail(p) /\ UNCHANGED names
           ELSE /\ names' = [names EXCEPT ![StagingName(p)] = Nobody, ![Final] = d]
                /\ Go(p, IF kind = "baseline" THEN "done" ELSE "confirm")
        /\ UNCHANGED <<content, Ghost, faults>>

\* _publish_staged_directory and _native_rename_between_no_replace: whatever
\* the staging name leads to gets the final name, if that is free.
RenameNoReplace(p) ==
    LET d == names[StagingName(p)]
    IN  /\ At(p, "rename")
        /\ IF RenameRefused(p) THEN Fail(p) /\ UNCHANGED names
           ELSE /\ names' = [names EXCEPT ![StagingName(p)] = Nobody, ![Final] = d]
                /\ Go(p, IF kind = "baseline" THEN "done" ELSE "confirm")
        /\ UNCHANGED <<content, Ghost, faults>>

\* A broken confirmation that trusts the rename.
ConfirmTrusting(p) ==
    /\ At(p, "confirm")
    /\ Go(p, "done")
    /\ UNCHANGED <<Disk, Ghost, faults>>

\* Week 2 compares the final inode and wants the staging name free; week 3
\* validates identity and inventory, syncs, and validates once more.
Confirm(p) ==
    /\ At(p, "confirm")
    /\ IF kind = "week2"
       THEN IF names[StagingName(p)] = Nobody /\ names[Final] = p THEN Go(p, "done") ELSE Fail(p)
       ELSE IF names[Final] = p /\ content[p] = Whole THEN Go(p, "synced") ELSE Fail(p)
    /\ UNCHANGED <<Disk, Ghost, faults>>

ConfirmAgain(p) ==
    /\ At(p, "synced")
    /\ IF names[Final] = p /\ content[p] = Whole THEN Go(p, "done") ELSE Fail(p)
    /\ UNCHANGED <<Disk, Ghost, faults>>

(***************************************************************************)
(* Cleaning up after a failure                                             *)
(***************************************************************************)
\* _find_owned_name: by identity, under whatever name.
NamesOf(p) == {n \in Names : names[n] = p}

MovedToQuarantine(p) ==
    [n \in Names |-> IF n = Quarantine(p) THEN p
                     ELSE IF names[n] = p THEN Nobody ELSE names[n]]

\* _quarantine_final: the published directory did not validate.
QuarantineFinal(p) ==
    /\ At(p, "quarantine")
    /\ names' = IF NamesOf(p) = {} THEN names ELSE MovedToQuarantine(p)
    /\ Go(p, "clean")
    /\ UNCHANGED <<content, Ghost, faults>>

\* A broken cleanup that deletes every entry.
DeleteEntry(p) ==
    LET x == CleanOrder[proc[p].next]
        last == proc[p].next = Len(CleanOrder)
    IN  /\ At(p, "clean")
        /\ NamesOf(p) # {}
        /\ content' = [content EXCEPT ![p][x] = "none"]
        /\ proc' = [proc EXCEPT ![p] = [pc |-> IF last THEN "rmdir" ELSE "clean",
                                        next |-> IF last THEN 1 ELSE @.next + 1]]
        /\ UNCHANGED <<names, Ghost, faults>>

\* _validate_opened_binding: an entry that is not the very file that was
\* written, unchanged, is not unlinked.
NotOurs(p, x) == content[p][x] = "foreign"

\* _remove_owned, one entry: a file of ours is unlinked if it is unchanged,
\* anything else is moved out.
CleanEntry(p) ==
    LET x == CleanOrder[proc[p].next]
        last == proc[p].next = Len(CleanOrder)
    IN  /\ At(p, "clean")
        /\ IF NamesOf(p) = {} THEN Go(p, "failed") /\ UNCHANGED <<content, rescued>>
           ELSE /\ content' = [content EXCEPT ![p][x] = "none"]
                /\ rescued' = rescued + (IF NotOurs(p, x) THEN 1 ELSE 0)
                /\ proc' = [proc EXCEPT ![p] = [pc |-> IF last THEN "rmdir" ELSE "clean",
                                                next |-> IF last THEN 1 ELSE @.next + 1]]
        /\ UNCHANGED <<names, kind, made, tampered, foreigns, faults>>

\* _rmdir_bound_directory, or _quarantine_owned_root for what has appeared.
RemoveRoot(p) ==
    /\ At(p, "rmdir")
    /\ names' = IF NamesOf(p) = {} THEN names
                ELSE IF content[p] = Empty
                THEN [n \in Names |-> IF names[n] = p THEN Nobody ELSE names[n]]
                ELSE MovedToQuarantine(p)
    /\ Go(p, "failed")
    /\ UNCHANGED <<content, Ghost, faults>>

\* A broken _remove_owned_path that forgets the staging directory.
ForgetTree(p) ==
    /\ At(p, "rmtree")
    /\ Go(p, "failed")
    /\ UNCHANGED <<Disk, Ghost, faults>>

\* _remove_owned_path and _clean_owned_staging: the tree under the staging
\* name, for week 2 only if it is the inode that was reserved.
RemoveTree(p) ==
    LET d == names[StagingName(p)]
        ours == d # Nobody /\ (kind = "week2" => d = p)
    IN  /\ At(p, "rmtree")
        /\ names' = IF ours THEN [names EXCEPT ![StagingName(p)] = Nobody] ELSE names
        /\ content' = IF ours THEN [content EXCEPT ![d] = Empty] ELSE content
        /\ Go(p, "failed")
        /\ UNCHANGED <<Ghost, faults>>

(***************************************************************************)
(* Failures                                                                *)
(***************************************************************************)
Owning(p) == proc[p].pc \notin {"idle", "probe", "mkdir"} \cup Ended
Cleaning(p) == proc[p].pc \in {"release", "clean", "rmdir", "rmtree", "quarantine"}

\* A system call raises OSError, or the report does not validate.
StepFails(p) ==
    /\ Owning(p) /\ ~Cleaning(p) /\ Fault
    /\ Fail(p)
    /\ UNCHANGED <<Disk, Ghost>>

\* The cleanup meets an OSError of its own, which is suppressed; a report that
\* could not be moved away is still removed.
CleanupFails(p) ==
    /\ Cleaning(p) /\ Fault
    /\ Go(p, IF At(p, "quarantine") THEN "clean" ELSE "dirty")
    /\ UNCHANGED <<Disk, Ghost>>

\* KeyboardInterrupt or cancellation: caught as BaseException except by the
\* baseline, which leaves its staging directory.
Interrupt(p) ==
    /\ Owning(p) /\ ~Cleaning(p) /\ Fault
    /\ IF kind = "baseline" THEN Go(p, "interrupted") ELSE Fail(p)
    /\ UNCHANGED <<Disk, Ghost>>

Kill(p) ==
    /\ proc[p].pc \notin {"idle"} \cup Ended /\ Fault
    /\ Go(p, "crashed")
    /\ UNCHANGED <<Disk, Ghost>>

(***************************************************************************)
(* Somebody else                                                           *)
(***************************************************************************)
Intervene == foreigns < MaxForeign /\ foreigns' = foreigns + 1

\* A file is put into a directory, over what may be there.
AddFile(d, x) ==
    /\ Linked(d) /\ content[d][x] # "foreign" /\ Intervene
    /\ content' = [content EXCEPT ![d][x] = "foreign"]
    /\ made' = made + 1
    /\ tampered' = tampered \cup {<<d, "changed">>}
    /\ UNCHANGED <<kind, names, proc, rescued, faults>>

RemoveFile(d, x) ==
    /\ Linked(d) /\ content[d][x] = "own" /\ Intervene
    /\ content' = [content EXCEPT ![d][x] = "none"]
    /\ tampered' = tampered \cup {<<d, "changed">>}
    /\ UNCHANGED <<kind, names, proc, rescued, made, faults>>

MoveAside(n) ==
    /\ names[n] # Nobody /\ n # Aside /\ names[Aside] = Nobody /\ Intervene
    /\ names' = [names EXCEPT ![Aside] = names[n], ![n] = Nobody]
    /\ tampered' = tampered \cup {<<names[n], "moved">>}
    /\ UNCHANGED <<kind, content, proc, rescued, made, faults>>

\* A directory with a file in it takes a free name.
PutDirectory(n) ==
    /\ names[n] = Nobody /\ ~Linked(Foreign) /\ content[Foreign] = Empty /\ Intervene
    /\ names' = [names EXCEPT ![n] = Foreign]
    /\ content' = [content EXCEPT ![Foreign]["extra"] = "foreign"]
    /\ made' = made + 1
    /\ UNCHANGED <<kind, proc, rescued, tampered, faults>>

SomebodyElse ==
    \/ \E d \in Dirs, x \in Entries : AddFile(d, x) \/ RemoveFile(d, x)
    \/ \E n \in Names : MoveAside(n)
    \/ \E n \in {Final, <<"staging", Nobody>>} : PutDirectory(n)

AllEnded ==
    /\ \A p \in Procs : proc[p].pc \in Ended
    /\ UNCHANGED vars

Publisher(p) ==
    \/ Begin(p) \/ ProbeNames(p) \/ MakeStaging(p) \/ VerifyStaging(p) \/ ReleaseName(p)
    \/ CheckFinal(p)
    \/ StartWriting(p) \/ Validate(p) \/ WritePart(p) \/ ValidateInventory(p)
    \/ ValidateOwned(p) \/ RenameNoReplace(p) \/ Confirm(p) \/ ConfirmAgain(p)
    \/ QuarantineFinal(p) \/ CleanEntry(p) \/ RemoveRoot(p) \/ RemoveTree(p)
    \/ StepFails(p) \/ CleanupFails(p) \/ Interrupt(p) \/ Kill(p)

Next == (\E p \in Procs : Publisher(p)) \/ SomebodyElse \/ AllEnded

Spec == Init /\ [][Next]_vars

(***************************************************************************)
(* Properties                                                              *)
(***************************************************************************)
Places == {"idle", "probe", "mkdir", "check_final", "recheck_final", "verify", "reserved",
           "validate", "write", "inventory", "bind", "rename", "confirm", "synced",
           "release", "quarantine", "clean", "rmdir", "rmtree"} \cup Ended
ProcStates == [pc : Places, next : 1 .. Len(CleanOrder)]
Contents == [Dirs -> [Entries -> {"none", "own", "foreign"}]]

\* Types of every variable (evals/reporting.py, evals/week3/reporting.py).
TypeOK ==
    /\ kind \in Kinds
    /\ names \in [Names -> Dirs \cup {Nobody}]
    /\ content \in Contents
    /\ proc \in [Procs -> ProcStates]
    /\ rescued \in Nat /\ made \in Nat /\ tampered \subseteq Dirs \X {"moved", "changed"}
    /\ foreigns \in 0 .. MaxForeign /\ faults \in 0 .. MaxFaults

Changed(p) == <<p, "changed">> \in tampered
ReservationMoved == \E p \in Procs : <<p, "moved">> \in tampered

\* A published report is never replaced: what has the final name keeps it
\* until its own publisher withdraws it, which a publisher that has returned
\* does not, or somebody else moves it ("never-overwritten", reporting.py:264).
NeverOverwritten ==
    [][names[Final] # Nobody /\ names'[Final] # names[Final] =>
         \/ foreigns' # foreigns
         \/ names[Final] \in Procs /\ proc[names[Final]].pc # "done"
              /\ proc' # proc /\ names'[Final] = Nobody]_vars

\* A report is complete from the moment it has the final name, unless somebody
\* else changed or moved what a publisher had staged; and a week 2 or week 3
\* publisher that returns has its own directory there, in week 3 with exactly
\* its own files in it.
PublishedWhole ==
    [][\A p \in Procs :
         /\ (names'[Final] = p /\ names[Final] # p /\ ~ReservationMoved /\ ~Changed(p))
              => content'[p] = Whole
         /\ (proc'[p].pc = "done" /\ proc[p].pc # "done" /\ kind # "baseline")
              => names'[Final] = p
         /\ (proc'[p].pc = "done" /\ kind = "week3" /\ proc[p].pc # "done")
              => content'[p] = Whole]_vars

\* A publisher that reports a failure it could clean up after leaves no
\* reservation behind, and in week 3 no report either, even one that had the
\* final name already or was changed; in week 2 only a whole report, if it
\* failed after the rename.  (A directory that was moved can be mistaken for
\* another publisher's between a check and the rename.)
FailureLeavesNothing ==
    [][\A p \in Procs : proc'[p].pc = "failed" /\ proc[p].pc # "failed" =>
         /\ names'[StagingName(p)] # p
         /\ names'[Final] = p =>
              \/ ReservationMoved
              \/ kind = "week2" /\ (content'[p] = Whole \/ Changed(p))]_vars

\* Week 3 never deletes a file it did not write: it is still where it was put,
\* or moved to the quarantine with its directory or alone.
ForeignKept ==
    kind = "week3" =>
      made = rescued + Cardinality({e \in Dirs \X Entries : content[e[1]][e[2]] = "foreign"})
=============================================================================
