------------------------ MODULE ReportPublicationProofs ------------------------
(***************************************************************************)
(* Theorems about ReportPublication, for all publishers, harnesses, report *)
(* entries and bounds: a published report is not overwritten, week 3       *)
(* deletes no file it did not write, what is published is whole, and a     *)
(* failure leaves nothing, whatever somebody else does between two steps   *)
(* of a publisher.                                                         *)
(***************************************************************************)
EXTENDS ReportPublication, SequenceTheorems, FiniteSetTheorems, TLAPS

(***************************************************************************)
(* Names and entries                                                       *)
(***************************************************************************)
\* The final name is neither a staging name nor a quarantine's.
LEMMA NameFacts ==
    /\ Final \in Names /\ Aside \in Names
    /\ \A p \in Procs : /\ StagingName(p) \in Names /\ StagingName(p) # Final
                         /\ Quarantine(p) \in Names /\ Quarantine(p) # Final
BY DEF Names, Final, Aside, StagingName, Quarantine

\* The order of the cleanup covers the parts and what may have been added.
LEMMA PartFacts ==
    /\ Len(Parts) \in Nat /\ Len(Parts) >= 1 /\ Len(CleanOrder) = Len(Parts) + 1
    /\ \A i \in 1 .. Len(Parts) : Parts[i] \in Entries
    /\ \A i \in 1 .. Len(Parts) + 1 : CleanOrder[i] \in Entries
    /\ IsFiniteSet(Dirs \X Entries)
<1> DEFINE Strings == STRING \cup {"extra"}
<1>1. Parts \in Seq(Strings) /\ Parts # <<>>
  BY PublicationAssumption, SeqMonotonic
<1>2. <<"extra">> \in Seq(Strings) /\ Len(<<"extra">>) = 1
  OBVIOUS
<1> HIDE DEF Strings
<1>3. /\ Len(Parts) \in Nat /\ Len(Parts) >= 1 /\ DOMAIN Parts = 1 .. Len(Parts)
  BY <1>1
<1>4. /\ Len(CleanOrder) = Len(Parts) + Len(<<"extra">>)
      /\ \A i \in 1 .. Len(Parts) + Len(<<"extra">>) :
           CleanOrder[i] = IF i <= Len(Parts) THEN Parts[i] ELSE <<"extra">>[i - Len(Parts)]
  BY <1>1, <1>2, ConcatProperties, Zenon DEF CleanOrder
<1>5. \A i \in 1 .. Len(Parts) : Parts[i] \in Entries
  BY <1>3 DEF Entries
<1>6. ASSUME NEW i \in 1 .. Len(Parts) + 1 PROVE CleanOrder[i] \in Entries
  <2>1. CASE i <= Len(Parts)
    BY <1>2, <1>3, <1>4, <1>5, <2>1
  <2>2. CASE i = Len(Parts) + 1
    <3>1. CleanOrder[i] = <<"extra">>[1]
      BY <1>2, <1>3, <1>4, <2>2
    <3>2. CleanOrder[i] = "extra"
      BY <3>1
    <3> QED
      BY <3>2 DEF Entries
  <2> QED
    BY <1>3, <2>1, <2>2
<1>7. IsFiniteSet(Entries)
  <2> DEFINE R == {Parts[i] : i \in DOMAIN Parts}
  <2>1. Parts \in Surjection(1 .. Len(Parts), R)
    BY <1>1, <1>3 DEF Surjection
  <2>2. IsFiniteSet(1 .. Len(Parts))
    BY <1>3, FS_Interval
  <2>3. IsFiniteSet(R)
    BY <2>1, <2>2, FS_Surjection
  <2> HIDE DEF R
  <2>4. IsFiniteSet(R \cup {"extra"})
    BY <2>3, FS_AddElement
  <2> QED
    BY <2>4 DEF Entries, R
<1>8. IsFiniteSet(Dirs)
  BY PublicationAssumption, FS_AddElement DEF Dirs
<1>9. IsFiniteSet(Dirs \X Entries)
  BY <1>7, <1>8, FS_Product
<1> QED
  BY <1>2, <1>3, <1>4, <1>5, <1>6, <1>9

(***************************************************************************)
(* Types and progress                                                      *)
(***************************************************************************)
\* Where in the report's parts a writer is; and week 3 never removes a tree.
Progress(p) ==
    /\ proc[p].pc = "write" => proc[p].next \in 1 .. Len(Parts)
    /\ kind = "week3" => proc[p].pc # "rmtree"

TypeInv ==
    /\ kind \in Kinds
    /\ names \in [Names -> Dirs \cup {Nobody}]
    /\ content \in Contents
    /\ proc \in [Procs -> ProcStates]
    /\ rescued \in Nat /\ made \in Nat /\ foreigns \in Nat
    /\ \A p \in Procs : Progress(p)

\* A step that moves one publisher keeps the types of the publishers.
LEMMA GoType ==
    ASSUME TypeInv, NEW p \in Procs, NEW pc \in Places, Go(p, pc),
           kind' = kind, kind = "week3" => pc # "rmtree"
    PROVE  proc' \in [Procs -> ProcStates] /\ \A q \in Procs : Progress(q)'
<1>1. 1 \in 1 .. Len(CleanOrder) /\ 1 \in 1 .. Len(Parts)
  BY PartFacts
<1>2. proc' = [proc EXCEPT ![p] = [pc |-> pc, next |-> 1]]
  BY DEF Go
<1>3. [pc |-> pc, next |-> 1] \in ProcStates
  BY <1>1 DEF ProcStates
<1> QED
  BY <1>1, <1>2, <1>3 DEF TypeInv, Progress

\* Where a publisher goes when a step raises.
LEMMA FailWhere ==
    ASSUME NEW p \in Procs, Fail(p)
    PROVE  \/ kind # "week3" /\ Go(p, "rmtree")
           \/ kind = "week3" /\ At(p, "verify") /\ Go(p, "release")
           \/ kind = "week3" /\ At(p, "confirm") /\ Go(p, "quarantine")
           \/ kind = "week3" /\ ~At(p, "verify") /\ ~At(p, "confirm") /\ Go(p, "clean")
<1>1. At(p, "verify") => ~At(p, "confirm")
  BY DEF At
<1>2. CASE kind # "week3"
  BY <1>2 DEF Fail
<1>3. CASE kind = "week3" /\ At(p, "verify")
  BY <1>3 DEF Fail
<1>4. CASE kind = "week3" /\ At(p, "confirm")
  BY <1>1, <1>4 DEF Fail
<1>5. CASE kind = "week3" /\ ~At(p, "verify") /\ ~At(p, "confirm")
  BY <1>5 DEF Fail
<1> QED
  BY <1>2, <1>3, <1>4, <1>5

LEMMA FailGoes ==
    ASSUME NEW p \in Procs, Fail(p)
    PROVE  \E pc \in Places : Go(p, pc) /\ (kind = "week3" => pc # "rmtree")
<1>1. {"rmtree", "release", "quarantine", "clean"} \subseteq Places
  BY DEF Places
<1>2. \E pc \in {"rmtree", "release", "quarantine", "clean"} :
         Go(p, pc) /\ (kind = "week3" => pc # "rmtree")
  BY FailWhere
<1> QED
  BY <1>1, <1>2

\* No other place has a cleanup of its own.
LEMMA FailElsewhere ==
    ASSUME NEW p \in Procs, Fail(p), proc[p].pc \notin {"verify", "confirm"}
    PROVE  \E pc \in {"clean", "rmtree"} : Go(p, pc)
BY FailWhere DEF At

\* The steps that only look.
Looks(p) ==
    \/ Begin(p) \/ ProbeNames(p) \/ VerifyStaging(p) \/ CheckFinal(p) \/ StartWriting(p)
    \/ Validate(p) \/ ValidateInventory(p) \/ ValidateOwned(p) \/ Confirm(p) \/ ConfirmAgain(p)
    \/ StepFails(p) \/ CleanupFails(p) \/ Interrupt(p) \/ Kill(p)

\* They move one publisher and leave the directories alone.
LEMMA LooksGoes ==
    ASSUME TypeInv, NEW p \in Procs, Looks(p)
    PROVE  /\ UNCHANGED <<Disk, Ghost>>
           /\ \E pc \in Places : Go(p, pc) /\ (kind = "week3" => pc # "rmtree")
<1> DEFINE Moved == \E pc \in Places : Go(p, pc) /\ (kind = "week3" => pc # "rmtree")
<1>1. UNCHANGED <<Disk, Ghost>>
  BY DEF Looks, Begin, ProbeNames, VerifyStaging, CheckFinal, StartWriting, Validate,
         ValidateInventory, ValidateOwned, Confirm, ConfirmAgain, StepFails, CleanupFails,
         Interrupt, Kill
<1>2. ASSUME NEW pc \in Places \ {"rmtree"}, Go(p, pc) PROVE Moved
  BY <1>2
<1>3. Fail(p) => Moved
  BY FailGoes
<1> HIDE DEF Moved
<1>4. \A pc \in Places \ {"rmtree"} : Go(p, pc) => Moved
  BY <1>2
<1>5. {"probe", "mkdir", "refused", "reserved", "recheck_final", "validate", "write",
       "bind", "rename", "done", "synced", "clean", "dirty", "interrupted", "crashed"}
        \subseteq Places \ {"rmtree"}
  BY DEF Places, Ended
<1>6. Moved
  <2>1. CASE Begin(p) \/ ProbeNames(p) \/ VerifyStaging(p)
    BY <1>3, <1>4, <1>5, <2>1 DEF Begin, ProbeNames, VerifyStaging
  <2>2. CASE CheckFinal(p)
    BY <1>3, <1>4, <1>5, <2>2 DEF CheckFinal
  <2>3. CASE StartWriting(p) \/ Validate(p)
    BY <1>3, <1>4, <1>5, <2>3 DEF StartWriting, Validate
  <2>4. CASE ValidateInventory(p) \/ ValidateOwned(p)
    BY <1>3, <1>4, <1>5, <2>4 DEF ValidateInventory, ValidateOwned
  <2>5. CASE Confirm(p) \/ ConfirmAgain(p)
    BY <1>3, <1>4, <1>5, <2>5 DEF Confirm, ConfirmAgain
  <2>6. CASE StepFails(p) \/ CleanupFails(p) \/ Interrupt(p) \/ Kill(p)
    BY <1>3, <1>4, <1>5, <2>6 DEF StepFails, CleanupFails, Interrupt, Kill
  <2> QED
    BY <2>1, <2>2, <2>3, <2>4, <2>5, <2>6 DEF Looks
<1> QED
  BY <1>1, <1>6 DEF Moved

\* The steps that change a name.
LEMMA RenamesType ==
    ASSUME TypeInv, NEW p \in Procs,
           \/ MakeStaging(p) \/ ReleaseName(p) \/ RenameNoReplace(p)
           \/ QuarantineFinal(p) \/ RemoveRoot(p)
    PROVE  TypeInv'
<1>1. p \in Dirs /\ names \in [Names -> Dirs \cup {Nobody}] /\ StagingName(p) \in Names
      /\ Final \in Names
  BY NameFacts DEF Dirs, TypeInv
<1>2. MovedToQuarantine(p) \in [Names -> Dirs \cup {Nobody}]
  BY <1>1 DEF MovedToQuarantine
<1>3. UNCHANGED <<content, Ghost>>
  BY DEF MakeStaging, ReleaseName, RenameNoReplace, QuarantineFinal, RemoveRoot
<1>4. names' \in [Names -> Dirs \cup {Nobody}]
  BY <1>1, <1>2 DEF MakeStaging, ReleaseName, RenameNoReplace, QuarantineFinal, RemoveRoot
<1>5. \E pc \in Places : Go(p, pc) /\ (kind = "week3" => pc # "rmtree")
  <2> DEFINE Moved == \E pc \in Places : Go(p, pc) /\ (kind = "week3" => pc # "rmtree")
  <2>1. ASSUME NEW pc \in Places \ {"rmtree"}, Go(p, pc) PROVE Moved
    BY <2>1
  <2>2. Fail(p) => Moved
    BY FailGoes
  <2> HIDE DEF Moved
  <2>3. {"refused", "write", "check_final", "verify", "done", "confirm", "clean", "failed",
         "dirty"}
          \subseteq Places \ {"rmtree"}
    BY DEF Places, Ended
  <2>4. AfterMkdir \in Places \ {"rmtree"}
    BY <2>3, PublicationAssumption DEF AfterMkdir, TypeInv
  <2>5. \A pc \in Places \ {"rmtree"} : Go(p, pc) => Moved
    BY <2>1
  <2>6. Moved
    <3>1. CASE MakeStaging(p)
      BY <2>3, <2>4, <2>5, <3>1 DEF MakeStaging
    <3>2. CASE RenameNoReplace(p)
      BY <2>2, <2>3, <2>5, <3>2 DEF RenameNoReplace
    <3>3. CASE ReleaseName(p) \/ QuarantineFinal(p) \/ RemoveRoot(p)
      BY <2>3, <2>5, <3>3 DEF ReleaseName, QuarantineFinal, RemoveRoot
    <3> QED
      BY <3>1, <3>2, <3>3
  <2> QED
    BY <2>6 DEF Moved
<1>6. proc' \in [Procs -> ProcStates] /\ \A q \in Procs : Progress(q)'
  BY <1>3, <1>5, GoType DEF Ghost
<1> QED
  BY <1>3, <1>4, <1>6 DEF TypeInv, Ghost

\* One entry of one directory.
LEMMA EntryType ==
    ASSUME TypeInv, NEW d \in Dirs, NEW x \in Entries, NEW v \in {"none", "own", "foreign"},
           content' = [content EXCEPT ![d][x] = v]
    PROVE  /\ content' \in Contents
           /\ \A e \in Dirs, y \in Entries :
                content'[e][y] = IF e = d /\ y = x THEN v ELSE content[e][y]
<1>1. content \in [Dirs -> [Entries -> {"none", "own", "foreign"}]]
  BY DEF TypeInv, Contents
<1>2. content' = [content EXCEPT ![d] = [content[d] EXCEPT ![x] = v]]
  OBVIOUS
<1>3. [content[d] EXCEPT ![x] = v] \in [Entries -> {"none", "own", "foreign"}]
  BY <1>1
<1> QED
  BY <1>1, <1>2, <1>3 DEF Contents

\* Writing one part.
LEMMA WriteType ==
    ASSUME TypeInv, NEW p \in Procs, WritePart(p)
    PROVE  /\ TypeInv' /\ UNCHANGED <<names, Ghost>>
           /\ \/ content' = content
              \/ \E d \in Dirs, x \in Entries :
                   /\ kind = "week3" => content[d][x] = "none"
                   /\ content' = [content EXCEPT ![d][x] = "own"]
<1> DEFINE n == proc[p].next
           x == Parts[n]
           d == IF kind = "week3" THEN p ELSE names[StagingName(p)]
           taken == \/ ~Linked(d) \/ d = Nobody
                    \/ content[d][x] # "none" /\ (kind = "week3" \/ n = 1)
           last == n = Len(Parts)
           at == IF ~last THEN "write" ELSE IF kind = "week3" THEN "inventory" ELSE "rename"
           nxt == IF last THEN 1 ELSE n + 1
<1>1. /\ proc[p] \in ProcStates /\ proc \in [Procs -> ProcStates] /\ Progress(p)
      /\ proc[p].pc = "write" /\ UNCHANGED <<names, Ghost, faults>>
  BY DEF TypeInv, WritePart, At
<1>2. n \in 1 .. Len(Parts)
  BY <1>1 DEF Progress
<1>3. x \in Entries
  BY <1>2, PartFacts
<1>4. CASE taken
  <2>1. Fail(p) /\ content' = content
    BY <1>4 DEF WritePart
  <2>2. proc' \in [Procs -> ProcStates] /\ \A q \in Procs : Progress(q)'
    <3>1. PICK pc \in Places : Go(p, pc) /\ (kind = "week3" => pc # "rmtree")
      BY <2>1, FailGoes
    <3> QED
      BY <1>1, <3>1, GoType DEF Ghost
  <2> QED
    BY <1>1, <2>1, <2>2 DEF TypeInv, Ghost
<1>5. CASE ~taken
  <2>1. d \in Dirs
    <3>1. StagingName(p) \in Names /\ names \in [Names -> Dirs \cup {Nobody}] /\ p \in Dirs
      BY NameFacts DEF TypeInv, Dirs
    <3> QED
      BY <1>5, <3>1
  <2>2. /\ content' = [content EXCEPT ![d][x] = "own"]
        /\ kind = "week3" => content[d][x] = "none"
    BY <1>5 DEF WritePart
  <2>3. content' \in Contents
    BY <1>3, <2>1, <2>2, EntryType
  <2>4. proc' = [proc EXCEPT ![p] = [pc |-> at, next |-> nxt]]
    BY <1>1, <1>5 DEF WritePart
  <2>5. /\ at \in Places /\ at # "rmtree"
        /\ nxt \in 1 .. Len(Parts) /\ nxt \in 1 .. Len(CleanOrder)
    BY <1>2, PartFacts DEF Places
  <2> HIDE DEF at, nxt
  <2>6. [pc |-> at, next |-> nxt] \in ProcStates
    BY <2>5 DEF ProcStates
  <2>7. proc' \in [Procs -> ProcStates] /\ \A q \in Procs : Progress(q)'
    BY <1>1, <2>4, <2>5, <2>6 DEF TypeInv, Progress, Ghost
  <2> HIDE DEF d, x
  <2> QED
    BY <1>1, <1>3, <2>1, <2>2, <2>3, <2>7 DEF TypeInv, Ghost
<1> QED
  BY <1>4, <1>5

\* Cleaning one entry up.
LEMMA CleanType ==
    ASSUME TypeInv, NEW p \in Procs, CleanEntry(p)
    PROVE  /\ TypeInv' /\ UNCHANGED <<names, made, kind, foreigns>>
           /\ \/ UNCHANGED <<content, rescued>>
              \/ \E x \in Entries :
                   /\ content' = [content EXCEPT ![p][x] = "none"]
                   /\ rescued' = rescued + (IF content[p][x] = "foreign" THEN 1 ELSE 0)
<1> DEFINE n == proc[p].next
           x == CleanOrder[n]
           last == n = Len(CleanOrder)
           at == IF last THEN "rmdir" ELSE "clean"
           nxt == IF last THEN 1 ELSE n + 1
<1>1. /\ proc[p] \in ProcStates /\ proc \in [Procs -> ProcStates] /\ p \in Dirs
      /\ UNCHANGED <<names, kind, made, tampered, foreigns, faults>>
  BY DEF TypeInv, CleanEntry, Dirs
<1>2. n \in 1 .. Len(CleanOrder) /\ n \in Nat
  BY <1>1, PartFacts DEF ProcStates
<1>3. x \in Entries
  BY <1>2, PartFacts
<1>4. CASE NamesOf(p) = {}
  <2>1. Go(p, "failed") /\ UNCHANGED <<content, rescued>> /\ "failed" \in Places
    BY <1>4 DEF CleanEntry, Places, Ended
  <2>2. proc' \in [Procs -> ProcStates] /\ \A q \in Procs : Progress(q)'
    BY <1>1, <2>1, GoType
  <2> QED
    BY <1>1, <2>1, <2>2 DEF TypeInv
<1>5. CASE NamesOf(p) # {}
  <2>1. /\ content' = [content EXCEPT ![p][x] = "none"]
        /\ rescued' = rescued + (IF content[p][x] = "foreign" THEN 1 ELSE 0)
    BY <1>5 DEF CleanEntry, NotOurs
  <2>2. proc' = [proc EXCEPT ![p] = [pc |-> at, next |-> nxt]]
    BY <1>1, <1>5 DEF CleanEntry
  <2>3. /\ at \in {"rmdir", "clean"} /\ at \in Places /\ nxt \in 1 .. Len(CleanOrder)
    BY <1>2, PartFacts DEF Places
  <2> HIDE DEF at, nxt
  <2>4. [pc |-> at, next |-> nxt] \in ProcStates
    BY <2>3 DEF ProcStates
  <2>5. proc' \in [Procs -> ProcStates] /\ \A q \in Procs : Progress(q)'
    BY <1>1, <2>2, <2>3, <2>4 DEF TypeInv, Progress
  <2> HIDE DEF x
  <2>6. content' \in Contents
    BY <1>1, <1>3, <2>1, EntryType
  <2>7. rescued' \in Nat
    BY <2>1 DEF TypeInv
  <2> QED
    BY <1>1, <1>3, <2>1, <2>5, <2>6, <2>7 DEF TypeInv
<1> QED
  BY <1>4, <1>5

\* Removing the tree of a baseline or week 2 reservation.
LEMMA TreeType ==
    ASSUME TypeInv, NEW p \in Procs, RemoveTree(p)
    PROVE  TypeInv' /\ kind # "week3" /\ names'[Final] = names[Final]
<1> DEFINE d == names[StagingName(p)]
           ours == d # Nobody /\ (kind = "week2" => d = p)
<1>1. kind # "week3" /\ UNCHANGED Ghost
  BY DEF RemoveTree, TypeInv, Progress, At
<1>2. /\ StagingName(p) \in Names /\ StagingName(p) # Final /\ Final \in Names
      /\ names \in [Names -> Dirs \cup {Nobody}]
  BY NameFacts DEF TypeInv
<1>3. names' \in [Names -> Dirs \cup {Nobody}] /\ names'[Final] = names[Final]
  BY <1>2 DEF RemoveTree
<1>4. content' \in Contents
  <2>1. Empty \in [Entries -> {"none", "own", "foreign"}]
    BY DEF Empty
  <2>2. ours => d \in Dirs
    BY <1>2
  <2> QED
    BY <2>1, <2>2 DEF RemoveTree, TypeInv, Contents
<1>5. Go(p, "failed") /\ "failed" \in Places
  BY DEF RemoveTree, Places, Ended
<1>6. proc' \in [Procs -> ProcStates] /\ \A q \in Procs : Progress(q)'
  BY <1>1, <1>5, GoType DEF Ghost
<1> QED
  BY <1>1, <1>3, <1>4, <1>6 DEF TypeInv, Ghost

\* What somebody else does.
LEMMA ElseType ==
    ASSUME TypeInv, SomebodyElse
    PROVE  /\ TypeInv' /\ foreigns' # foreigns /\ UNCHANGED <<kind, proc, rescued>>
           /\ \/ UNCHANGED <<content, made>>
              \/ \E d \in Dirs, x \in Entries :
                   /\ content[d][x] = "own" /\ made' = made
                   /\ content' = [content EXCEPT ![d][x] = "none"]
              \/ \E d \in Dirs, x \in Entries :
                   /\ content[d][x] # "foreign" /\ made' = made + 1
                   /\ content' = [content EXCEPT ![d][x] = "foreign"]
<1>1. /\ foreigns' = foreigns + 1 /\ UNCHANGED <<kind, proc, rescued>>
  BY DEF SomebodyElse, AddFile, RemoveFile, MoveAside, PutDirectory, Intervene
<1>2. foreigns' \in Nat /\ foreigns' # foreigns
  BY <1>1 DEF TypeInv
<1>3. \A q \in Procs : Progress(q)'
  BY <1>1 DEF TypeInv, Progress
<1>4. ASSUME NEW d \in Dirs, NEW x \in Entries, AddFile(d, x)
      PROVE  /\ content[d][x] # "foreign" /\ made' = made + 1 /\ names' = names
             /\ content' = [content EXCEPT ![d][x] = "foreign"] /\ content' \in Contents
  BY <1>4, EntryType DEF AddFile
<1>5. ASSUME NEW d \in Dirs, NEW x \in Entries, RemoveFile(d, x)
      PROVE  /\ content[d][x] = "own" /\ made' = made /\ names' = names
             /\ content' = [content EXCEPT ![d][x] = "none"] /\ content' \in Contents
  BY <1>5, EntryType DEF RemoveFile
<1>6. ASSUME NEW m \in Names, MoveAside(m)
      PROVE  UNCHANGED <<content, made>> /\ names' \in [Names -> Dirs \cup {Nobody}]
  BY <1>6, NameFacts DEF MoveAside, TypeInv
<1>7. ASSUME NEW m \in {Final, <<"staging", Nobody>>}, PutDirectory(m)
      PROVE  /\ content[Foreign]["extra"] # "foreign" /\ made' = made + 1
             /\ content' = [content EXCEPT ![Foreign]["extra"] = "foreign"]
             /\ content' \in Contents /\ names' \in [Names -> Dirs \cup {Nobody}]
             /\ Foreign \in Dirs /\ "extra" \in Entries
  <2>1. Foreign \in Dirs /\ "extra" \in Entries /\ m \in Names
    BY DEF Dirs, Entries, Names
  <2>2. /\ content' = [content EXCEPT ![Foreign]["extra"] = "foreign"] /\ made' = made + 1
        /\ content[Foreign] = Empty /\ names' = [names EXCEPT ![m] = Foreign]
    BY <1>7 DEF PutDirectory
  <2>3. content[Foreign]["extra"] # "foreign"
    BY <2>1, <2>2 DEF Empty
  <2>4. content' \in Contents
    BY <2>1, <2>2, EntryType
  <2>5. names' \in [Names -> Dirs \cup {Nobody}]
    BY <2>1, <2>2 DEF TypeInv
  <2> QED
    BY <2>1, <2>2, <2>3, <2>4, <2>5
<1>8. CASE \E d \in Dirs, x \in Entries : AddFile(d, x)
  <2>1. PICK d \in Dirs, x \in Entries : AddFile(d, x)
    BY <1>8
  <2> QED
    BY <1>1, <1>2, <1>3, <1>4, <2>1 DEF TypeInv
<1>9. CASE \E d \in Dirs, x \in Entries : RemoveFile(d, x)
  <2>1. PICK d \in Dirs, x \in Entries : RemoveFile(d, x)
    BY <1>9
  <2> QED
    BY <1>1, <1>2, <1>3, <1>5, <2>1 DEF TypeInv
<1>10. CASE \E m \in Names : MoveAside(m)
  BY <1>1, <1>2, <1>3, <1>6, <1>10 DEF TypeInv
<1>11. CASE \E m \in {Final, <<"staging", Nobody>>} : PutDirectory(m)
  <2>1. PICK m \in {Final, <<"staging", Nobody>>} : PutDirectory(m)
    BY <1>11
  <2>2. /\ content[Foreign]["extra"] # "foreign" /\ made' = made + 1
        /\ content' = [content EXCEPT ![Foreign]["extra"] = "foreign"]
        /\ content' \in Contents /\ names' \in [Names -> Dirs \cup {Nobody}]
        /\ Foreign \in Dirs /\ "extra" \in Entries
    BY <1>7, <2>1
  <2>3. TypeInv'
    BY <1>1, <1>2, <1>3, <2>2 DEF TypeInv
  <2> QED
    BY <1>1, <1>2, <2>2, <2>3
<1> QED
  BY <1>8, <1>9, <1>10, <1>11 DEF SomebodyElse

\* Types hold at first.
LEMMA InitType == Init => TypeInv
<1> SUFFICES ASSUME Init PROVE TypeInv
  OBVIOUS
<1>1. Empty \in [Entries -> {"none", "own", "foreign"}]
  BY DEF Empty
<1>2. [pc |-> "idle", next |-> 1] \in ProcStates
  BY PartFacts DEF ProcStates, Places
<1>3. proc \in [Procs -> ProcStates]
  BY <1>2 DEF Init
<1>4. \A p \in Procs : Progress(p)
  BY DEF Init, Progress
<1>5. content \in Contents
  BY <1>1 DEF Init, Contents
<1> QED
  BY <1>3, <1>4, <1>5 DEF Init, TypeInv

\* Every step keeps them.
LEMMA StepType == TypeInv /\ [Next]_vars => TypeInv'
<1> SUFFICES ASSUME TypeInv, [Next]_vars PROVE TypeInv'
  OBVIOUS
<1>1. ASSUME NEW p \in Procs, Looks(p) PROVE TypeInv'
  <2>1. UNCHANGED <<Disk, Ghost>>
    BY <1>1, LooksGoes
  <2>2. PICK pc \in Places : Go(p, pc) /\ (kind = "week3" => pc # "rmtree")
    BY <1>1, LooksGoes
  <2>3. proc' \in [Procs -> ProcStates] /\ \A q \in Procs : Progress(q)'
    BY <2>1, <2>2, GoType DEF Ghost
  <2> QED
    BY <2>1, <2>3 DEF TypeInv, Disk, Ghost
<1>2. ASSUME NEW p \in Procs, Publisher(p) PROVE TypeInv'
  BY <1>1, <1>2, RenamesType, WriteType, CleanType, TreeType DEF Publisher, Looks
<1>3. SomebodyElse => TypeInv'
  BY ElseType
<1>4. ASSUME AllEnded \/ UNCHANGED vars PROVE TypeInv'
  BY <1>4 DEF AllEnded, vars, TypeInv, Progress
<1> QED
  BY <1>2, <1>3, <1>4 DEF Next

\* They hold throughout.
LEMMA TypeInvHolds == Spec => []TypeInv
<1> QED
  BY InitType, StepType, PTL DEF Spec

\* The history and the two bounds.
BoundInv ==
    /\ tampered \subseteq Dirs \X {"moved", "changed"}
    /\ foreigns \in 0 .. MaxForeign /\ faults \in 0 .. MaxFaults

\* Every state of every run is of the right types (reporting.py, evals/week3/reporting.py).
THEOREM TypeCorrect == Spec => []TypeOK
<1>1. Init => BoundInv
  BY PublicationAssumption DEF Init, BoundInv
<1>2. TypeInv /\ BoundInv /\ [Next]_vars => BoundInv'
  <2> SUFFICES ASSUME TypeInv, BoundInv, [Next]_vars PROVE BoundInv'
    OBVIOUS
  <2>1. ASSUME NEW p \in Procs, Publisher(p) PROVE BoundInv'
    <3>1. UNCHANGED <<tampered, foreigns>>
      BY <2>1 DEF Publisher, Begin, ProbeNames, MakeStaging, VerifyStaging, ReleaseName, CheckFinal,
                  StartWriting, Validate, WritePart, ValidateInventory, ValidateOwned,
                  RenameNoReplace, Confirm, ConfirmAgain, QuarantineFinal, CleanEntry,
                  RemoveRoot, RemoveTree, StepFails, CleanupFails, Interrupt, Kill, Ghost
    <3>2. faults' = faults \/ Fault
      BY <2>1 DEF Publisher, Begin, ProbeNames, MakeStaging, VerifyStaging, ReleaseName, CheckFinal,
                  StartWriting, Validate, WritePart, ValidateInventory, ValidateOwned,
                  RenameNoReplace, Confirm, ConfirmAgain, QuarantineFinal, CleanEntry,
                  RemoveRoot, RemoveTree, StepFails, CleanupFails, Interrupt, Kill
    <3>3. faults' \in 0 .. MaxFaults
      BY <3>2, PublicationAssumption DEF Fault, BoundInv
    <3> QED
      BY <3>1, <3>3 DEF BoundInv
  <2>2. ASSUME SomebodyElse PROVE BoundInv'
    <3>1. faults' = faults /\ Intervene
      BY <2>2 DEF SomebodyElse, AddFile, RemoveFile, MoveAside, PutDirectory
    <3>2. foreigns' \in 0 .. MaxForeign
      BY <3>1, PublicationAssumption DEF Intervene, BoundInv
    <3>3. tampered' \subseteq Dirs \X {"moved", "changed"}
      BY <2>2 DEF SomebodyElse, AddFile, RemoveFile, MoveAside, PutDirectory, TypeInv, BoundInv
    <3> QED
      BY <3>1, <3>2, <3>3 DEF BoundInv
  <2>3. ASSUME AllEnded \/ UNCHANGED vars PROVE BoundInv'
    BY <2>3 DEF AllEnded, vars, BoundInv
  <2> QED
    BY <2>1, <2>2, <2>3 DEF Next
<1>3. TypeInv /\ BoundInv => TypeOK
  BY DEF TypeInv, BoundInv, TypeOK
<1> QED
  BY <1>1, <1>2, <1>3, TypeInvHolds, PTL DEF Spec

(***************************************************************************)
(* A published report is not overwritten                                   *)
(***************************************************************************)
\* What has the final name keeps it until its own publisher withdraws it or
\* somebody else moves it (_publish_staged_directory, "never-overwritten").
THEOREM NotOverwritten == Spec => NeverOverwritten
<1> DEFINE Kept == names[Final] # Nobody /\ names'[Final] # names[Final] =>
         \/ foreigns' # foreigns
         \/ names[Final] \in Procs /\ proc[names[Final]].pc # "done"
              /\ proc' # proc /\ names'[Final] = Nobody
<1>1. TypeInv /\ [Next]_vars => [Kept]_vars
  <2> SUFFICES ASSUME TypeInv, [Next]_vars, names[Final] # Nobody, names'[Final] # names[Final],
                      foreigns' = foreigns
               PROVE  names[Final] \in Procs /\ proc[names[Final]].pc # "done"
                        /\ proc' # proc /\ names'[Final] = Nobody
    OBVIOUS
  <2>1. names \in [Names -> Dirs \cup {Nobody}] /\ Final \in Names
    BY NameFacts DEF TypeInv
  <2>2. ASSUME NEW p \in Procs, Publisher(p) PROVE QuarantineFinal(p) \/ RemoveRoot(p)
    <3>1. StagingName(p) \in Names /\ StagingName(p) # Final
      BY NameFacts
    <3>2. ~Looks(p)
      BY LooksGoes DEF Disk
    <3>3. ~MakeStaging(p) /\ ~ReleaseName(p)
      BY <2>1, <3>1 DEF MakeStaging, ReleaseName
    <3>4. ~RenameNoReplace(p)
      BY <2>1, <3>1 DEF RenameNoReplace, RenameRefused
    <3>5. ~WritePart(p) /\ ~CleanEntry(p) /\ ~RemoveTree(p)
      BY WriteType, CleanType, TreeType
    <3> QED
      BY <2>2, <3>2, <3>3, <3>4, <3>5 DEF Publisher, Looks
  <2>3. ASSUME NEW p \in Procs, QuarantineFinal(p) \/ RemoveRoot(p)
        PROVE  names[Final] \in Procs /\ proc[names[Final]].pc # "done"
                 /\ proc' # proc /\ names'[Final] = Nobody
    <3>1. Quarantine(p) # Final
      BY NameFacts
    <3>2. names' = MovedToQuarantine(p)
            \/ names' = [n \in Names |-> IF names[n] = p THEN Nobody ELSE names[n]]
      BY <2>3 DEF QuarantineFinal, RemoveRoot
    <3>3. names[Final] = p /\ names'[Final] = Nobody
      BY <2>1, <3>1, <3>2 DEF MovedToQuarantine
    <3>4. proc[p].pc \in {"quarantine", "rmdir"}
      BY <2>3 DEF QuarantineFinal, RemoveRoot, At
    <3>5. Go(p, "clean") \/ Go(p, "failed")
      BY <2>3 DEF QuarantineFinal, RemoveRoot
    <3>6. proc'[p].pc \in {"clean", "failed"}
      BY <3>5 DEF Go, TypeInv
    <3> QED
      BY <3>3, <3>4, <3>6
  <2>4. ~SomebodyElse
    BY ElseType
  <2>5. ~AllEnded /\ ~UNCHANGED vars
    BY DEF AllEnded, vars
  <2> QED
    BY <2>2, <2>3, <2>4, <2>5 DEF Next
<1> QED
  BY <1>1, TypeInvHolds, PTL DEF Spec, NeverOverwritten

(***************************************************************************)
(* Week 3 keeps what is not its own                                        *)
(***************************************************************************)
\* The files of somebody else that are in a directory.
ForeignFiles(c) == {e \in Dirs \X Entries : c[e[1]][e[2]] = "foreign"}

\* There are finitely many.
LEMMA ForeignFinite ==
    ASSUME NEW c
    PROVE  IsFiniteSet(ForeignFiles(c)) /\ Cardinality(ForeignFiles(c)) \in Nat
<1>1. ForeignFiles(c) \in SUBSET (Dirs \X Entries)
  BY DEF ForeignFiles
<1>2. IsFiniteSet(ForeignFiles(c))
  BY <1>1, PartFacts, FS_Subset
<1> QED
  BY <1>2, FS_CardinalityType

\* A change of one entry changes the number by at most that entry.
LEMMA OneEntryCounts ==
    ASSUME TypeInv, NEW d \in Dirs, NEW x \in Entries, NEW v \in {"none", "own", "foreign"},
           content' = [content EXCEPT ![d][x] = v]
    PROVE  Cardinality(ForeignFiles(content')) =
             Cardinality(ForeignFiles(content))
               + (IF v = "foreign" /\ content[d][x] # "foreign" THEN 1 ELSE 0)
               - (IF v # "foreign" /\ content[d][x] = "foreign" THEN 1 ELSE 0)
<1> DEFINE F == ForeignFiles(content)
           G == ForeignFiles(content')
           e == <<d, x>>
<1>1. \A a \in Dirs, y \in Entries :
         content'[a][y] = IF a = d /\ y = x THEN v ELSE content[a][y]
  BY DEF TypeInv, Contents
<1>2. e \in Dirs \X Entries
  OBVIOUS
<1>3. \A f \in Dirs \X Entries :
         content'[f[1]][f[2]] = IF f = e THEN v ELSE content[f[1]][f[2]]
  BY <1>1
<1>4. e \in F <=> content[d][x] = "foreign"
  BY <1>2 DEF ForeignFiles
<1>5. IsFiniteSet(F) /\ Cardinality(F) \in Nat
  BY ForeignFinite
<1>6. CASE v = "foreign"
  <2>1. G = F \cup {e}
    BY <1>2, <1>3, <1>6 DEF ForeignFiles
  <2>2. Cardinality(F \cup {e}) = IF e \in F THEN Cardinality(F) ELSE Cardinality(F) + 1
    BY <1>5, FS_AddElement
  <2>3. Cardinality(G) = IF e \in F THEN Cardinality(F) ELSE Cardinality(F) + 1
    BY <2>1, <2>2
  <2> HIDE DEF F, G, e
  <2>4. Cardinality(G) = Cardinality(F)
               + (IF v = "foreign" /\ content[d][x] # "foreign" THEN 1 ELSE 0)
               - (IF v # "foreign" /\ content[d][x] = "foreign" THEN 1 ELSE 0)
    BY <1>4, <1>5, <1>6, <2>3
  <2> QED
    BY <2>4 DEF F, G
<1>7. CASE v # "foreign"
  <2>1. G = F \ {e}
    BY <1>2, <1>3, <1>7 DEF ForeignFiles
  <2>2. Cardinality(F \ {e}) = IF e \in F THEN Cardinality(F) - 1 ELSE Cardinality(F)
    BY <1>5, FS_RemoveElement
  <2>3. Cardinality(G) = IF e \in F THEN Cardinality(F) - 1 ELSE Cardinality(F)
    BY <2>1, <2>2
  <2> HIDE DEF F, G, e
  <2>4. Cardinality(G) = Cardinality(F)
               + (IF v = "foreign" /\ content[d][x] # "foreign" THEN 1 ELSE 0)
               - (IF v # "foreign" /\ content[d][x] = "foreign" THEN 1 ELSE 0)
    BY <1>4, <1>5, <1>7, <2>3
  <2> QED
    BY <2>4 DEF F, G
<1> QED
  BY <1>6, <1>7

\* Week 3 deletes no file it did not write: each is where it was put or was
\* moved out with the directory or alone (_remove_owned, _quarantine_owned_root).
THEOREM ForeignNeverDeleted == Spec => []ForeignKept
<1> DEFINE Count == Cardinality(ForeignFiles(content))
<1>0. ForeignKept <=> (kind = "week3" => made = rescued + Count)
  BY DEF ForeignKept, ForeignFiles
<1>1. Init => ForeignKept
  <2> SUFFICES ASSUME Init PROVE ForeignKept
    OBVIOUS
  <2>1. ForeignFiles(content) = {}
    BY DEF Init, Empty, ForeignFiles
  <2>2. Cardinality(ForeignFiles(content)) = 0
    BY <2>1, FS_EmptySet
  <2>3. made = 0 /\ rescued = 0
    BY DEF Init
  <2> QED
    BY <2>2, <2>3 DEF ForeignKept, ForeignFiles
<1>2. TypeInv /\ ForeignKept /\ [Next]_vars => ForeignKept'
  <2> SUFFICES ASSUME TypeInv, ForeignKept, [Next]_vars, kind = "week3", kind' = kind
               PROVE  made' = rescued' + Count'
    <3>1. TypeInv /\ [Next]_vars => kind' = kind
      <4> SUFFICES ASSUME TypeInv, [Next]_vars PROVE kind' = kind
        OBVIOUS
      <4>1. ASSUME NEW p \in Procs, Publisher(p) PROVE kind' = kind
        BY <4>1 DEF Publisher, Begin, ProbeNames, MakeStaging, VerifyStaging, ReleaseName, CheckFinal,
                    StartWriting, Validate, WritePart, ValidateInventory, ValidateOwned,
                    RenameNoReplace, Confirm, ConfirmAgain, QuarantineFinal, CleanEntry,
                    RemoveRoot, RemoveTree, StepFails, CleanupFails, Interrupt, Kill, Ghost
      <4> QED
        BY <4>1, ElseType DEF Next, AllEnded, vars
    <3>2. ForeignKept' <=> (kind' = "week3" => made' = rescued' + Count')
      BY DEF ForeignKept, ForeignFiles
    <3> QED
      BY <3>1, <3>2
  <2>0. kind = "week3"
    OBVIOUS
  <2>1. /\ made = rescued + Count /\ made \in Nat /\ rescued \in Nat
        /\ Count \in Nat
    BY <1>0, ForeignFinite DEF TypeInv
  <2>2. ASSUME UNCHANGED <<content, made, rescued>> PROVE made' = rescued' + Count'
    BY <2>1, <2>2
  <2>3. ASSUME NEW d \in Dirs, NEW x \in Entries, NEW v \in {"none", "own", "foreign"},
               content' = [content EXCEPT ![d][x] = v],
               made' = made + (IF v = "foreign" /\ content[d][x] # "foreign" THEN 1 ELSE 0),
               rescued' = rescued + (IF v # "foreign" /\ content[d][x] = "foreign" THEN 1 ELSE 0)
        PROVE  made' = rescued' + Count'
    <3>1. Count' = Count + (IF v = "foreign" /\ content[d][x] # "foreign" THEN 1 ELSE 0)
                     - (IF v # "foreign" /\ content[d][x] = "foreign" THEN 1 ELSE 0)
      BY <2>3, OneEntryCounts
    <3> HIDE DEF Count
    <3> QED
      BY <2>1, <2>3, <3>1
  <2>4. ASSUME NEW p \in Procs, Publisher(p) PROVE made' = rescued' + Count'
    <3>1. CASE Looks(p)
      BY <2>2, <3>1, LooksGoes DEF Disk, Ghost
    <3>2. CASE \/ MakeStaging(p) \/ ReleaseName(p) \/ RenameNoReplace(p)
               \/ QuarantineFinal(p) \/ RemoveRoot(p)
      <4>1. UNCHANGED <<content, made, rescued>>
        BY <3>2 DEF MakeStaging, ReleaseName, RenameNoReplace, QuarantineFinal, RemoveRoot, Ghost
      <4> QED
        BY <2>2, <4>1
    <3>3. CASE WritePart(p)
      <4>1. made' = made /\ rescued' = rescued
        BY <3>3, WriteType DEF Ghost
      <4>2. CASE content' = content
        BY <2>2, <4>1, <4>2
      <4>3. CASE \E d \in Dirs, x \in Entries :
                   /\ kind = "week3" => content[d][x] = "none"
                   /\ content' = [content EXCEPT ![d][x] = "own"]
        <5>1. PICK d \in Dirs, x \in Entries :
                   content[d][x] = "none" /\ content' = [content EXCEPT ![d][x] = "own"]
          BY <2>0, <4>3
        <5>2. rescued' = rescued + (IF "own" # "foreign" /\ content[d][x] = "foreign" THEN 1 ELSE 0)
          BY <2>1, <4>1, <5>1
        <5>3. made' = made + (IF "own" = "foreign" /\ content[d][x] # "foreign" THEN 1 ELSE 0)
          BY <2>1, <4>1
        <5> QED
          BY <2>3, <5>1, <5>2, <5>3
      <4> QED
        BY <3>3, <4>2, <4>3, WriteType
    <3>4. CASE CleanEntry(p)
      <4>1. CASE UNCHANGED <<content, rescued>>
        BY <2>2, <3>4, <4>1, CleanType
      <4>2. CASE \E x \in Entries :
                   /\ content' = [content EXCEPT ![p][x] = "none"]
                   /\ rescued' = rescued + (IF content[p][x] = "foreign" THEN 1 ELSE 0)
        <5>1. PICK x \in Entries :
                   /\ content' = [content EXCEPT ![p][x] = "none"]
                   /\ rescued' = rescued + (IF content[p][x] = "foreign" THEN 1 ELSE 0)
          BY <4>2
        <5>2. made' = made + (IF "none" = "foreign" /\ content[p][x] # "foreign" THEN 1 ELSE 0)
          BY <2>1, <3>4, CleanType
        <5>3. rescued' = rescued + (IF "none" # "foreign" /\ content[p][x] = "foreign" THEN 1 ELSE 0)
          BY <5>1
        <5>4. p \in Dirs
          BY DEF Dirs
        <5> QED
          BY <2>3, <5>1, <5>2, <5>3, <5>4
      <4> QED
        BY <3>4, <4>1, <4>2, CleanType
    <3>5. ~RemoveTree(p)
      BY TreeType
    <3> QED
      BY <2>4, <3>1, <3>2, <3>3, <3>4, <3>5 DEF Publisher, Looks
  <2>5. ASSUME SomebodyElse PROVE made' = rescued' + Count'
    <3>1. rescued' = rescued
      BY <2>5, ElseType
    <3>2. CASE UNCHANGED <<content, made>>
      BY <2>2, <3>1, <3>2
    <3>3. CASE \E d \in Dirs, x \in Entries :
                 /\ content[d][x] = "own" /\ made' = made
                 /\ content' = [content EXCEPT ![d][x] = "none"]
      <4>1. PICK d \in Dirs, x \in Entries :
                 /\ content[d][x] = "own" /\ made' = made
                 /\ content' = [content EXCEPT ![d][x] = "none"]
        BY <3>3
      <4>2. made' = made + (IF "none" = "foreign" /\ content[d][x] # "foreign" THEN 1 ELSE 0)
        BY <2>1, <4>1
      <4>3. rescued' = rescued + (IF "none" # "foreign" /\ content[d][x] = "foreign" THEN 1 ELSE 0)
        BY <2>1, <3>1, <4>1
      <4> QED
        BY <2>3, <4>1, <4>2, <4>3
    <3>4. CASE \E d \in Dirs, x \in Entries :
                 /\ content[d][x] # "foreign" /\ made' = made + 1
                 /\ content' = [content EXCEPT ![d][x] = "foreign"]
      <4>1. PICK d \in Dirs, x \in Entries :
                 /\ content[d][x] # "foreign" /\ made' = made + 1
                 /\ content' = [content EXCEPT ![d][x] = "foreign"]
        BY <3>4
      <4>2. rescued' = rescued
              + (IF "foreign" # "foreign" /\ content[d][x] = "foreign" THEN 1 ELSE 0)
        BY <2>1, <3>1
      <4>3. made' = made + (IF "foreign" = "foreign" /\ content[d][x] # "foreign" THEN 1 ELSE 0)
        BY <4>1
      <4> QED
        BY <2>3, <4>1, <4>2, <4>3
    <3> QED
      BY <2>5, <3>2, <3>3, <3>4, ElseType
  <2>6. CASE AllEnded \/ UNCHANGED vars
    BY <2>2, <2>6 DEF AllEnded, vars
  <2> QED
    BY <2>4, <2>5, <2>6 DEF Next
<1> QED
  BY <1>1, <1>2, TypeInvHolds, PTL DEF Spec

(***************************************************************************)
(* What is published is whole, and a failure leaves nothing                *)
(***************************************************************************)
NoReport == {"idle", "probe", "mkdir"}
Reserved == {"check_final", "recheck_final", "verify", "reserved", "validate"}
Staged == Reserved \cup {"release", "write", "inventory", "bind", "rename"}
Built == {"inventory", "bind", "rename", "confirm", "synced"}

\* A report before its part n is written.
Written(n) == [x \in Entries |-> IF \E i \in 1 .. n - 1 : Parts[i] = x THEN "own" ELSE "none"]

\* A publisher's directory has no name before mkdir, the staging name until the
\* rename and the final one after it; a cleanup by path finds it under the
\* first, or in week 2 whole under the second.
Named(p) ==
    /\ proc[p].pc \in NoReport => \A n \in Names : names[n] # p
    /\ proc[p].pc \in Staged => names[StagingName(p)] = p
    /\ proc[p].pc \in {"confirm", "synced"} => kind # "baseline" /\ names[Final] = p
    /\ proc[p].pc = "rmtree" =>
         \/ names[StagingName(p)] = p
         \/ kind = "week2" /\ names[Final] = p /\ (Changed(p) \/ content[p] = Whole)

\* It has in it what its publisher has written so far.
Filled(p) ==
    \/ Changed(p)
    \/ /\ proc[p].pc \in NoReport \cup Reserved => content[p] = Empty
       /\ proc[p].pc = "write" => content[p] = Written(proc[p].next)
       /\ proc[p].pc \in Built => content[p] = Whole

OneName == \A m, n \in Names : names[m] = names[n] /\ names[m] \in Procs => m = n

\* Unless somebody else moved a publisher's directory.
PlaceInv == ReservationMoved \/ (OneName /\ \A p \in Procs : Named(p) /\ Filled(p))

\* Nothing is written before the first part, and after the last one the report
\* is whole.
LEMMA WrittenFacts ==
    /\ Written(1) = Empty
    /\ Written(Len(Parts) + 1) = Whole
    /\ \A n \in 1 .. Len(Parts), c \in [Entries -> {"none", "own", "foreign"}] :
         c = Written(n) => [c EXCEPT ![Parts[n]] = "own"] = Written(n + 1)
<1>1. Written(1) = Empty
  BY DEF Written, Empty
<1>2. Written(Len(Parts) + 1) = Whole
  <2>1. Len(Parts) \in Nat /\ DOMAIN Parts = 1 .. Len(Parts)
    BY PartFacts, PublicationAssumption
  <2>2. \A x \in Entries : x = "extra" <=> ~\E i \in 1 .. Len(Parts) : Parts[i] = x
    BY <2>1, PublicationAssumption DEF Entries
  <2>3. \A x \in Entries :
           (\E i \in 1 .. (Len(Parts) + 1) - 1 : Parts[i] = x) <=> x # "extra"
    BY <2>1, <2>2
  <2> QED
    BY <2>3 DEF Written, Whole
<1>3. ASSUME NEW n \in 1 .. Len(Parts), NEW c \in [Entries -> {"none", "own", "foreign"}],
             c = Written(n)
      PROVE  [c EXCEPT ![Parts[n]] = "own"] = Written(n + 1)
  <2>1. n \in Nat /\ Parts[n] \in Entries
    BY PartFacts
  <2>2. \A i : i \in 1 .. (n + 1) - 1 <=> i \in 1 .. n - 1 \/ i = n
    BY <2>1
  <2>3. \A x \in Entries : [c EXCEPT ![Parts[n]] = "own"][x] = Written(n + 1)[x]
    BY <1>3, <2>1, <2>2 DEF Written
  <2> QED
    BY <2>1, <2>3, <1>3 DEF Written
<1> QED
  BY <1>1, <1>2, <1>3

\* What may have changed for a publisher that stays where it is.
Stays(q) ==
    /\ proc'[q] = proc[q]
    /\ content'[q] = content[q] \/ Changed(q)'
    /\ \A n \in Names : names'[n] = q => names[n] = q
    /\ \A n \in {StagingName(q), Final} : names[n] = q => names'[n] = q

\* It is still in its place.
LEMMA StaysPlaced ==
    ASSUME TypeInv, NEW q \in Procs, Named(q), Filled(q), Stays(q), kind' = kind,
           tampered \subseteq tampered'
    PROVE  Named(q)' /\ Filled(q)'
<1>1. Changed(q) => Changed(q)'
  BY DEF Changed
<1>2. StagingName(q)' = StagingName(q) /\ StagingName(q) \in Names /\ Final \in Names
  BY NameFacts DEF StagingName
<1>3. Named(q)'
  BY <1>1, <1>2 DEF Stays, Named
<1>4. Filled(q)'
  BY <1>1 DEF Stays, Filled
<1> QED
  BY <1>3, <1>4

\* A step of one publisher that names no directory of another.
LEMMA OthersPlaced ==
    ASSUME TypeInv, ~ReservationMoved, PlaceInv, NEW p \in Procs, kind' = kind,
           tampered' = tampered, OneName',
           \A q \in Procs \ {p} : Stays(q), Named(p)', Filled(p)'
    PROVE  PlaceInv'
<1>1. \A q \in Procs \ {p} : Named(q)' /\ Filled(q)'
  BY StaysPlaced DEF PlaceInv
<1> QED
  BY <1>1 DEF PlaceInv

\* Somebody else's step.
LEMMA ElsePlaced ==
    ASSUME TypeInv, PlaceInv, ~ReservationMoved, SomebodyElse
    PROVE  PlaceInv'
<1>1. kind' = kind /\ proc' = proc /\ tampered \subseteq tampered'
  BY DEF SomebodyElse, AddFile, RemoveFile, MoveAside, PutDirectory
<1>2. OneName /\ \A q \in Procs : Named(q) /\ Filled(q)
  BY DEF PlaceInv
<1>3. /\ names \in [Names -> Dirs \cup {Nobody}] /\ content \in Contents
      /\ Foreign \notin Procs /\ Nobody \notin Procs
  BY PublicationAssumption DEF TypeInv
<1>4. ASSUME OneName', \A q \in Procs : Stays(q) PROVE PlaceInv'
  BY <1>1, <1>2, <1>4, StaysPlaced DEF PlaceInv
<1>5. ASSUME NEW d \in Dirs, NEW x \in Entries, AddFile(d, x) \/ RemoveFile(d, x)
      PROVE  PlaceInv'
  <2>1. names' = names /\ Changed(d)'
    BY <1>5 DEF AddFile, RemoveFile, Changed
  <2>2. \A q \in Dirs \ {d} : content'[q] = content[q]
    BY <1>3, <1>5 DEF AddFile, RemoveFile, Contents
  <2>3. \A q \in Procs : Stays(q)
    BY <1>1, <2>1, <2>2 DEF Stays, Dirs
  <2>4. OneName'
    BY <1>2, <2>1 DEF OneName
  <2> QED
    BY <1>4, <2>3, <2>4
<1>6. ASSUME NEW n \in Names, MoveAside(n) PROVE PlaceInv'
  <2>1. CASE names[n] \in Procs
    BY <1>6, <2>1 DEF MoveAside, PlaceInv, ReservationMoved
  <2>2. CASE names[n] \notin Procs
    <3>1. content' = content /\ names' = [names EXCEPT ![Aside] = names[n], ![n] = Nobody]
          /\ names[Aside] = Nobody
      BY <1>6 DEF MoveAside
    <3>2. \A m \in Names, q \in Procs : names'[m] = q <=> names[m] = q
      BY <1>3, <2>2, <3>1, NameFacts
    <3>3. \A q \in Procs : Stays(q)
      BY <1>1, <3>1, <3>2, NameFacts DEF Stays
    <3>4. OneName'
      BY <1>2, <1>3, <3>2 DEF OneName
    <3> QED
      BY <1>4, <3>3, <3>4
  <2> QED
    BY <2>1, <2>2
<1>7. ASSUME NEW n \in {Final, <<"staging", Nobody>>}, PutDirectory(n) PROVE PlaceInv'
  <2>1. n \in Names
    BY DEF Names
  <2>2. /\ names' = [names EXCEPT ![n] = Foreign] /\ names[n] = Nobody
        /\ content' = [content EXCEPT ![Foreign]["extra"] = "foreign"]
    BY <1>7 DEF PutDirectory
  <2>3. \A m \in Names, q \in Procs : names'[m] = q <=> names[m] = q
    BY <1>3, <2>1, <2>2
  <2>4. \A q \in Procs : content'[q] = content[q]
    BY <1>3, <2>2 DEF Contents, Dirs
  <2>5. \A q \in Procs : Stays(q)
    BY <1>1, <2>3, <2>4, NameFacts DEF Stays
  <2>6. OneName'
    BY <1>2, <1>3, <2>3 DEF OneName
  <2> QED
    BY <1>4, <2>5, <2>6
<1> QED
  BY <1>5, <1>6, <1>7 DEF SomebodyElse

\* A step that only looks leaves its publisher in its place.
LEMMA LooksPlaced ==
    ASSUME TypeInv, ~ReservationMoved, PlaceInv, NEW p \in Procs, Looks(p)
    PROVE  PlaceInv'
<1>1. UNCHANGED <<names, content, kind, tampered>> /\ \E pc \in Places : Go(p, pc)
  BY LooksGoes DEF Disk, Ghost
<1>2. OneName /\ Named(p) /\ Filled(p)
  BY DEF PlaceInv
<1>3. \A q \in Procs \ {p} : Stays(q)
  <2>1. \A q \in Procs \ {p} : proc'[q] = proc[q]
    BY <1>1 DEF Go, TypeInv
  <2> QED
    BY <1>1, <2>1 DEF Stays
<1>4. UNCHANGED <<StagingName(p), Changed(p), OneName>>
  BY <1>1 DEF StagingName, Changed, OneName
<1>5. ASSUME NEW pc, Go(p, pc) PROVE proc'[p].pc = pc /\ proc'[p].next = 1
  BY <1>5 DEF Go, TypeInv
<1>6. ASSUME NEW pc, Go(p, pc),
             pc \in NoReport => \A n \in Names : names[n] # p,
             pc \in Staged => names[StagingName(p)] = p,
             pc \in {"confirm", "synced"} => kind # "baseline" /\ names[Final] = p,
             pc = "rmtree" =>
               \/ names[StagingName(p)] = p
               \/ kind = "week2" /\ names[Final] = p /\ (Changed(p) \/ content[p] = Whole),
             Changed(p) \/
               /\ pc \in NoReport \cup Reserved \cup {"write"} => content[p] = Empty
               /\ pc \in Built => content[p] = Whole
      PROVE  Named(p)' /\ Filled(p)'
  <2>1. proc'[p].pc = pc /\ proc'[p].next = 1
    BY <1>5, <1>6
  <2>2. "write" \notin NoReport \cup Reserved \cup Built
    BY DEF NoReport, Reserved, Built
  <2>3. Named(p)'
    BY <1>1, <1>4, <1>6, <2>1 DEF Named
  <2>4. Filled(p)'
    BY <1>1, <1>4, <1>6, <2>1, WrittenFacts DEF Filled
  <2> QED
    BY <2>3, <2>4
<1>7. ASSUME Fail(p), proc[p].pc \in Staged \cup {"confirm", "synced"}
      PROVE  Named(p)' /\ Filled(p)'
  <2>1. CASE kind = "week3"
    <3>1. CASE At(p, "verify") /\ Go(p, "release")
      <4>1. names[StagingName(p)] = p
        BY <1>2, <3>1 DEF Named, At, Staged, Reserved
      <4> QED
        BY <1>6, <3>1, <4>1 DEF NoReport, Reserved, Staged, Built
    <3>2. CASE Go(p, "quarantine") \/ Go(p, "clean")
      BY <1>6, <3>2 DEF NoReport, Reserved, Staged, Built
    <3> QED
      BY <1>7, <2>1, <3>1, <3>2, FailWhere
  <2>2. CASE kind # "week3"
    <3>1. Go(p, "rmtree") /\ kind \in {"baseline", "week2"}
      BY <1>7, <2>2, FailWhere, PublicationAssumption DEF TypeInv
    <3>2. \/ names[StagingName(p)] = p
          \/ kind = "week2" /\ names[Final] = p /\ (Changed(p) \/ content[p] = Whole)
      BY <1>2, <1>7, <3>1 DEF Named, Filled, Built
    <3> QED
      BY <1>6, <3>1, <3>2 DEF NoReport, Reserved, Staged, Built
  <2> QED
    BY <2>1, <2>2
<1>8. Named(p)' /\ Filled(p)'
  <2>1. CASE Begin(p)
    BY <1>2, <1>6, <2>1 DEF Begin, At, Named, Filled, NoReport, Reserved, Staged, Built
  <2>2. CASE ProbeNames(p)
    BY <1>2, <1>6, <2>2 DEF ProbeNames, At, Named, Filled, NoReport, Reserved, Staged, Built
  <2>3. CASE VerifyStaging(p)
    <3>1. proc[p].pc = "verify" /\ (Fail(p) \/ Go(p, "reserved"))
      BY <2>3 DEF VerifyStaging, At
    <3>2. proc[p].pc \in Staged /\ proc[p].pc \in Reserved
      BY <3>1 DEF Staged, Reserved
    <3>3. names[StagingName(p)] = p /\ (Changed(p) \/ content[p] = Empty)
      BY <1>2, <3>2 DEF Named, Filled
    <3> QED
      BY <1>6, <1>7, <3>1, <3>2, <3>3 DEF NoReport, Reserved, Staged, Built
  <2>4. CASE CheckFinal(p)
    <3>1. proc[p].pc \in {"check_final", "recheck_final"}
      BY <2>4 DEF CheckFinal
    <3>2. proc[p].pc \in Staged /\ proc[p].pc \in Reserved
      BY <3>1 DEF Staged, Reserved
    <3>3. Fail(p) \/ Go(p, "recheck_final") \/ Go(p, "reserved")
      BY <2>4 DEF CheckFinal
    <3>4. names[StagingName(p)] = p /\ (Changed(p) \/ content[p] = Empty)
      BY <1>2, <3>2 DEF Named, Filled
    <3> QED
      BY <1>6, <1>7, <3>2, <3>3, <3>4 DEF NoReport, Reserved, Staged, Built
  <2>5. CASE StartWriting(p) \/ Validate(p)
    <3>1. proc[p].pc \in {"reserved", "validate"} /\ (Fail(p) \/ Go(p, "validate") \/ Go(p, "write"))
      BY <2>5 DEF StartWriting, Validate, At
    <3>2. proc[p].pc \in Staged /\ proc[p].pc \in Reserved
      BY <3>1 DEF Staged, Reserved
    <3>3. names[StagingName(p)] = p /\ (Changed(p) \/ content[p] = Empty)
      BY <1>2, <3>2 DEF Named, Filled
    <3> QED
      BY <1>6, <1>7, <3>1, <3>2, <3>3 DEF NoReport, Reserved, Staged, Built
  <2>6. CASE ValidateInventory(p) \/ ValidateOwned(p)
    <3>1. proc[p].pc \in {"inventory", "bind"} /\ (Fail(p) \/ Go(p, "bind") \/ Go(p, "rename"))
      BY <2>6 DEF ValidateInventory, ValidateOwned, At
    <3>2. proc[p].pc \in Staged /\ proc[p].pc \in Built
      BY <3>1 DEF Staged, Built
    <3>3. names[StagingName(p)] = p /\ (Changed(p) \/ content[p] = Whole)
      BY <1>2, <3>2 DEF Named, Filled
    <3> QED
      BY <1>6, <1>7, <3>1, <3>2, <3>3 DEF NoReport, Reserved, Staged, Built
  <2>7. CASE Confirm(p) \/ ConfirmAgain(p)
    <3>1. /\ proc[p].pc \in {"confirm", "synced"}
          /\ Fail(p) \/ Go(p, "done") \/ Go(p, "synced")
      BY <2>7 DEF Confirm, ConfirmAgain, At
    <3>2. proc[p].pc \in Built
      BY <3>1 DEF Built
    <3>3. names[Final] = p /\ (Changed(p) \/ content[p] = Whole) /\ kind # "baseline"
      BY <1>2, <3>1, <3>2 DEF Named, Filled
    <3> QED
      BY <1>6, <1>7, <3>1, <3>3 DEF NoReport, Reserved, Staged, Built
  <2>8. CASE StepFails(p) \/ CleanupFails(p) \/ Interrupt(p) \/ Kill(p)
    <3>1. CASE Go(p, "clean") \/ Go(p, "dirty") \/ Go(p, "interrupted") \/ Go(p, "crashed")
      BY <1>6, <3>1 DEF NoReport, Reserved, Staged, Built
    <3>2. CASE Fail(p) /\ Owning(p) /\ ~Cleaning(p)
      <4>1. proc[p].pc \in Places
        BY DEF TypeInv, ProcStates
      <4>2. proc[p].pc \in Staged \cup {"confirm", "synced"}
        BY <3>2, <4>1 DEF Owning, Cleaning, Places, Ended, Staged, Reserved
      <4> QED
        BY <1>7, <3>2, <4>2
    <3> QED
      BY <2>8, <3>1, <3>2 DEF StepFails, CleanupFails, Interrupt, Kill
  <2> QED
    BY <2>1, <2>2, <2>3, <2>4, <2>5, <2>6, <2>7, <2>8 DEF Looks
<1>9. OneName'
  BY <1>2, <1>4
<1> QED
  BY <1>1, <1>3, <1>8, <1>9, OthersPlaced

\* mkdir and the rename give the publisher's own directory its name.
LEMMA NamingPlaced ==
    ASSUME TypeInv, ~ReservationMoved, PlaceInv, NEW p \in Procs,
           MakeStaging(p) \/ RenameNoReplace(p)
    PROVE  PlaceInv'
<1>1. UNCHANGED <<content, kind, tampered>>
  BY DEF MakeStaging, RenameNoReplace, Ghost
<1>2. OneName /\ Named(p) /\ Filled(p) /\ \A q \in Procs : Named(q)
  BY DEF PlaceInv
<1>3. /\ names \in [Names -> Dirs \cup {Nobody}] /\ Nobody \notin Procs
      /\ StagingName(p) \in Names /\ StagingName(p) # Final /\ Final \in Names
  BY NameFacts, PublicationAssumption DEF TypeInv
<1>4. UNCHANGED <<StagingName(p), Changed(p)>>
  BY <1>1 DEF StagingName, Changed
<1>5. ASSUME NEW pc, Go(p, pc)
      PROVE  proc'[p].pc = pc /\ proc'[p].next = 1 /\ \A q \in Procs \ {p} : proc'[q] = proc[q]
  BY <1>5 DEF Go, TypeInv
<1>6. CASE MakeStaging(p)
  <2>1. proc[p].pc = "mkdir"
    BY <1>6 DEF MakeStaging, At
  <2>2. (\A n \in Names : names[n] # p) /\ (Changed(p) \/ content[p] = Empty)
    BY <1>2, <2>1 DEF Named, Filled, NoReport
  <2>3. CASE Go(p, "refused") /\ names' = names
    <3>1. \A q \in Procs \ {p} : Stays(q)
      BY <1>1, <1>5, <2>3 DEF Stays
    <3>2. Named(p)' /\ Filled(p)'
      BY <1>5, <2>3 DEF Named, Filled, NoReport, Reserved, Staged, Built
    <3>3. OneName'
      BY <1>2, <2>3 DEF OneName
    <3> QED
      BY <1>1, <3>1, <3>2, <3>3, OthersPlaced
  <2>4. CASE /\ names[StagingName(p)] = Nobody /\ Go(p, AfterMkdir)
             /\ names' = [names EXCEPT ![StagingName(p)] = p]
    <3>1. AfterMkdir \in {"write", "check_final", "verify"}
      BY PublicationAssumption DEF AfterMkdir, TypeInv
    <3>2. \A q \in Procs \ {p} : Stays(q)
      BY <1>1, <1>3, <1>5, <2>4 DEF Stays
    <3>3. names'[StagingName(p)'] = p
      BY <1>3, <1>4, <2>4
    <3>4. proc'[p].pc = AfterMkdir /\ proc'[p].next = 1
      BY <1>5, <2>4
    <3>5. Named(p)'
      BY <3>1, <3>3, <3>4 DEF Named, NoReport
    <3>6. Filled(p)'
      BY <1>1, <1>4, <2>2, <3>1, <3>4, WrittenFacts DEF Filled, NoReport, Reserved, Built
    <3>7. OneName'
      BY <1>2, <1>3, <2>2, <2>4 DEF OneName
    <3> QED
      BY <1>1, <3>2, <3>5, <3>6, <3>7, OthersPlaced
  <2> QED
    BY <1>6, <2>3, <2>4 DEF MakeStaging
<1>7. CASE RenameNoReplace(p)
  <2>1. proc[p].pc = "rename"
    BY <1>7 DEF RenameNoReplace, At
  <2>2. names[StagingName(p)] = p /\ (Changed(p) \/ content[p] = Whole)
    BY <1>2, <2>1 DEF Named, Filled, Staged, Built
  <2>3. CASE Fail(p) /\ names' = names
    <3>1. \E pc \in {"clean", "rmtree"} : Go(p, pc)
      BY <2>1, <2>3, FailElsewhere
    <3>2. PICK pc \in {"clean", "rmtree"} : Go(p, pc)
      BY <3>1
    <3>3. proc'[p].pc \in {"clean", "rmtree"} /\ \A q \in Procs \ {p} : proc'[q] = proc[q]
      BY <1>5, <3>2
    <3>4. \A q \in Procs \ {p} : Stays(q)
      BY <1>1, <2>3, <3>3 DEF Stays
    <3>5. Named(p)'
      BY <1>4, <2>2, <2>3, <3>3 DEF Named, NoReport, Reserved, Staged
    <3>6. Filled(p)'
      BY <3>3 DEF Filled, NoReport, Reserved, Built
    <3>7. OneName'
      BY <1>2, <2>3 DEF OneName
    <3> QED
      BY <1>1, <3>4, <3>5, <3>6, <3>7, OthersPlaced
  <2>4. CASE /\ names[Final] = Nobody
             /\ names' = [names EXCEPT ![StagingName(p)] = Nobody, ![Final] = p]
             /\ Go(p, IF kind = "baseline" THEN "done" ELSE "confirm")
    <3>1. /\ proc'[p].pc = IF kind = "baseline" THEN "done" ELSE "confirm"
          /\ \A q \in Procs \ {p} : proc'[q] = proc[q]
      BY <1>5, <2>4
    <3>2. \A n \in Names : names'[n] = IF n = Final THEN p ELSE
                                        IF n = StagingName(p) THEN Nobody ELSE names[n]
      BY <1>3, <2>4
    <3>3. ASSUME NEW q \in Procs \ {p} PROVE Stays(q)
      BY <1>1, <1>3, <2>2, <2>4, <3>1, <3>2, NameFacts DEF Stays
    <3>4. Named(p)'
      BY <1>1, <1>3, <3>1, <3>2 DEF Named, NoReport, Reserved, Staged
    <3>5. Filled(p)'
      BY <1>1, <1>4, <2>2, <3>1 DEF Filled, NoReport, Reserved, Built
    <3>6. OneName'
      BY <1>2, <1>3, <2>2, <3>2 DEF OneName
    <3> QED
      BY <1>1, <3>3, <3>4, <3>5, <3>6, OthersPlaced
  <2> QED
    BY <1>7, <2>2, <2>3, <2>4 DEF RenameNoReplace, RenameRefused
<1> QED
  BY <1>6, <1>7

\* A part is written into the publisher's own directory.
LEMMA WritingPlaced ==
    ASSUME TypeInv, ~ReservationMoved, PlaceInv, NEW p \in Procs, WritePart(p)
    PROVE  PlaceInv'
<1> DEFINE n == proc[p].next
           last == n = Len(Parts)
           at == IF ~last THEN "write" ELSE IF kind = "week3" THEN "inventory" ELSE "rename"
           nxt == IF last THEN 1 ELSE n + 1
<1>1. UNCHANGED <<names, kind, tampered>> /\ proc[p].pc = "write" /\ p \in Dirs /\ p # Nobody
  BY PublicationAssumption DEF WritePart, Ghost, At, Dirs
<1>2. OneName /\ Named(p) /\ Filled(p)
  BY DEF PlaceInv
<1>3. names[StagingName(p)] = p /\ (Changed(p) \/ content[p] = Written(n))
  BY <1>1, <1>2 DEF Named, Filled, Staged
<1>4. n \in 1 .. Len(Parts) /\ Len(Parts) \in Nat
  BY <1>1, PartFacts DEF TypeInv, Progress
<1>5. UNCHANGED <<StagingName(p), Changed(p), OneName>>
  BY <1>1 DEF StagingName, Changed, OneName
<1>6. CASE Fail(p) /\ content' = content
  <2>1. PICK pc \in {"clean", "rmtree"} : Go(p, pc)
    BY <1>1, <1>6, FailElsewhere
  <2>2. proc'[p].pc \in {"clean", "rmtree"} /\ \A q \in Procs \ {p} : proc'[q] = proc[q]
    BY <2>1 DEF Go, TypeInv
  <2>3. \A q \in Procs \ {p} : Stays(q)
    BY <1>1, <1>6, <2>2 DEF Stays
  <2>4. Named(p)'
    BY <1>1, <1>3, <1>5, <2>2 DEF Named, NoReport, Reserved, Staged
  <2>5. Filled(p)'
    BY <2>2 DEF Filled, NoReport, Reserved, Built
  <2> QED
    BY <1>1, <1>2, <1>5, <2>3, <2>4, <2>5, OthersPlaced
<1>7. CASE /\ content' = [content EXCEPT ![p][Parts[n]] = "own"]
           /\ proc' = [proc EXCEPT ![p] = [pc |-> at, next |-> nxt]]
  <2>1. /\ proc'[p].pc = at /\ proc'[p].next = nxt
        /\ \A q \in Procs \ {p} : proc'[q] = proc[q]
    <3> HIDE DEF at, nxt
    <3> QED
      BY <1>7 DEF TypeInv
  <2>2. /\ content[p] \in [Entries -> {"none", "own", "foreign"}]
        /\ content'[p] = [content[p] EXCEPT ![Parts[n]] = "own"]
        /\ \A d \in Dirs \ {p} : content'[d] = content[d]
    BY <1>1, <1>7 DEF TypeInv, Contents
  <2>3. \A q \in Procs \ {p} : Stays(q)
    BY <1>1, <2>1, <2>2 DEF Stays, Dirs
  <2>4. at \in {"write", "inventory", "rename"}
    OBVIOUS
  <2>5. Named(p)'
    <3> HIDE DEF at, nxt
    <3> QED
      BY <1>1, <1>3, <1>5, <2>1, <2>4 DEF Named, NoReport, Reserved, Staged
  <2>6. Changed(p) \/ content'[p] = Written(n + 1)
    BY <1>3, <1>4, <2>2, WrittenFacts
  <2>7. Filled(p)'
    <3>1. CASE last
      <4>1. proc'[p].pc \in {"inventory", "rename"}
        BY <2>1, <3>1
      <4>2. Changed(p) \/ content'[p] = Whole
        BY <2>6, <3>1, WrittenFacts
      <4> QED
        BY <1>5, <4>1, <4>2 DEF Filled, NoReport, Reserved, Built
    <3>2. CASE ~last
      <4>1. proc'[p].pc = "write" /\ proc'[p].next = n + 1
        BY <2>1, <3>2
      <4>2. Changed(p)' \/ content'[p] = Written(proc'[p].next)
        BY <1>5, <2>6, <4>1
      <4>3. "write" \notin NoReport \cup Reserved \cup Built
        BY DEF NoReport, Reserved, Built
      <4>4. Written(proc[p].next)' = Written(proc'[p].next)
        BY DEF Written
      <4> QED
        BY <4>1, <4>2, <4>3, <4>4 DEF Filled
    <3> QED
      BY <3>1, <3>2
  <2> HIDE DEF at, nxt
  <2> QED
    BY <1>1, <1>2, <1>5, <2>3, <2>5, <2>7, OthersPlaced
<1>8. \/ Fail(p) /\ content' = content
      \/ /\ content' = [content EXCEPT ![p][Parts[n]] = "own"]
         /\ proc' = [proc EXCEPT ![p] = [pc |-> at, next |-> nxt]]
  BY <1>1, <1>3 DEF WritePart, TypeInv
<1> QED
  BY <1>6, <1>7, <1>8

\* A cleanup takes the publisher's own directory.
LEMMA CleaningPlaced ==
    ASSUME TypeInv, ~ReservationMoved, PlaceInv, NEW p \in Procs,
           \/ ReleaseName(p) \/ QuarantineFinal(p) \/ CleanEntry(p)
           \/ RemoveRoot(p) \/ RemoveTree(p)
    PROVE  PlaceInv'
<1>1. UNCHANGED <<kind, tampered>>
  BY DEF ReleaseName, QuarantineFinal, CleanEntry, RemoveRoot, RemoveTree, Ghost
<1>2. OneName /\ Named(p)
  BY DEF PlaceInv
<1>3. /\ names \in [Names -> Dirs \cup {Nobody}] /\ content \in Contents /\ p \in Dirs
      /\ Nobody \notin Procs /\ Final \in Names
      /\ \A q \in Procs : StagingName(q) \in Names /\ StagingName(q) # Quarantine(p)
      /\ Quarantine(p) \in Names /\ Final # Quarantine(p)
  BY NameFacts, PublicationAssumption DEF TypeInv, Dirs, StagingName, Quarantine
<1>4. proc'[p].pc \in {"clean", "rmdir", "failed", "dirty"} /\ \A q \in Procs \ {p} : proc'[q] = proc[q]
  <2>1. CASE \E pc \in {"clean", "failed", "dirty"} : Go(p, pc)
    BY <2>1 DEF Go, TypeInv
  <2>2. CASE CleanEntry(p) /\ ~Go(p, "failed")
    <3>1. \E pc \in {"clean", "rmdir"}, n \in Nat : proc' = [proc EXCEPT ![p] = [pc |-> pc, next |-> n]]
      <4>1. proc[p].next \in Nat
        BY PartFacts DEF TypeInv, ProcStates
      <4> QED
        BY <2>2, <4>1 DEF CleanEntry, TypeInv
    <3> QED
      BY <3>1 DEF TypeInv
  <2> QED
    BY <2>1, <2>2 DEF ReleaseName, QuarantineFinal, CleanEntry, RemoveRoot, RemoveTree
<1>5. Named(p)' /\ Filled(p)'
  BY <1>4 DEF Named, Filled, NoReport, Reserved, Staged, Built
<1>6. ASSUME \A d \in Dirs \ {p} : content'[d] = content[d],
             \A q \in Procs \ {p}, n \in Names : names'[n] = q => names[n] = q,
             \A q \in Procs \ {p} : \A n \in {StagingName(q), Final} :
                names[n] = q => names'[n] = q,
             OneName'
      PROVE  PlaceInv'
  <2>1. \A q \in Procs \ {p} : Stays(q)
    BY <1>4, <1>6 DEF Stays, Dirs
  <2> QED
    BY <1>1, <1>5, <1>6, <2>1, OthersPlaced
<1>7. CASE names' = names
  <2>1. \A d \in Dirs \ {p} : content'[d] = content[d]
    BY <1>3, <1>7, TreeType DEF ReleaseName, QuarantineFinal, CleanEntry, RemoveRoot, RemoveTree, Contents
  <2>2. OneName'
    BY <1>2, <1>7 DEF OneName
  <2> QED
    BY <1>6, <1>7, <2>1, <2>2
<1>8. CASE QuarantineFinal(p) \/ RemoveRoot(p)
  <2>1. content' = content
    BY <1>8 DEF QuarantineFinal, RemoveRoot
  <2>2. CASE names' = MovedToQuarantine(p)
    <3>1. \A n \in Names : names'[n] = IF n = Quarantine(p) THEN p
                                       ELSE IF names[n] = p THEN Nobody ELSE names[n]
      BY <2>2 DEF MovedToQuarantine
    <3>2. OneName'
      BY <1>2, <1>3, <3>1 DEF OneName
    <3> QED
      BY <1>3, <1>6, <2>1, <3>1, <3>2
  <2>3. CASE names' = [n \in Names |-> IF names[n] = p THEN Nobody ELSE names[n]]
    <3>1. OneName'
      BY <1>2, <1>3, <2>3 DEF OneName
    <3> QED
      BY <1>3, <1>6, <2>1, <2>3, <3>1
  <2> QED
    BY <1>7, <1>8, <2>2, <2>3 DEF QuarantineFinal, RemoveRoot
<1>9. CASE CleanEntry(p)
  BY <1>7, <1>9 DEF CleanEntry
<1>10. CASE RemoveTree(p) /\ names' # names
  <2>1. /\ proc[p].pc = "rmtree" /\ names[StagingName(p)] # Nobody
        /\ kind = "week2" => names[StagingName(p)] = p
    BY <1>10 DEF RemoveTree, At
  <2>2. names[StagingName(p)] = p
    BY <1>2, <2>1 DEF Named
  <2>3. /\ names' = [names EXCEPT ![StagingName(p)] = Nobody]
        /\ content' = [content EXCEPT ![p] = Empty]
    BY <1>10, <2>2 DEF RemoveTree
  <2>4. \A n \in Names : names'[n] = IF n = StagingName(p) THEN Nobody ELSE names[n]
    BY <1>3, <2>3
  <2>5. OneName'
    BY <1>2, <1>3, <2>4 DEF OneName
  <2>6. \A d \in Dirs \ {p} : content'[d] = content[d]
    BY <1>3, <2>3 DEF Contents
  <2> QED
    BY <1>3, <1>6, <2>2, <2>4, <2>5, <2>6
<1>11. CASE ReleaseName(p) /\ names' # names
  <2>1. proc[p].pc = "release" /\ content' = content
    BY <1>11 DEF ReleaseName, At
  <2>2. names[StagingName(p)] = p
    BY <1>2, <2>1 DEF Named, Staged
  <2>3. names' = [names EXCEPT ![StagingName(p)] = Nobody]
    BY <1>11 DEF ReleaseName
  <2>4. \A n \in Names : names'[n] = IF n = StagingName(p) THEN Nobody ELSE names[n]
    BY <1>3, <2>3
  <2>5. OneName'
    BY <1>2, <1>3, <2>4 DEF OneName
  <2> QED
    BY <1>3, <1>6, <2>1, <2>2, <2>4, <2>5
<1> QED
  BY <1>7, <1>8, <1>9, <1>10, <1>11

\* A directory that was moved stays marked as moved.
LEMMA MovedStays == [Next]_vars => tampered \subseteq tampered'
<1>1. ASSUME NEW p \in Procs, Publisher(p) PROVE tampered' = tampered
  BY <1>1 DEF Publisher, Begin, ProbeNames, MakeStaging, VerifyStaging, ReleaseName, CheckFinal,
              StartWriting, Validate, WritePart, ValidateInventory, ValidateOwned,
              RenameNoReplace, Confirm, ConfirmAgain, QuarantineFinal, CleanEntry,
              RemoveRoot, RemoveTree, StepFails, CleanupFails, Interrupt, Kill, Ghost
<1>2. SomebodyElse => tampered \subseteq tampered'
  BY DEF SomebodyElse, AddFile, RemoveFile, MoveAside, PutDirectory
<1> QED
  BY <1>1, <1>2 DEF Next, AllEnded, vars

\* Unless somebody else moved it, a publisher's directory is where its publisher
\* takes it to be, with what it has written so far (reporting.py,
\* week2_reporting.py, evals/week3/reporting.py).
LEMMA PlaceHolds == Spec => []PlaceInv
<1>1. Init => PlaceInv
  <2> SUFFICES ASSUME Init PROVE OneName /\ \A p \in Procs : Named(p) /\ Filled(p)
    BY DEF PlaceInv
  <2>1. \A n \in Names : names[n] = Nobody /\ Nobody \notin Procs
    BY PublicationAssumption DEF Init
  <2>2. \A p \in Procs : proc[p].pc = "idle" /\ content[p] = Empty
    BY DEF Init, Dirs
  <2> QED
    BY <2>1, <2>2 DEF OneName, Named, Filled, NoReport, Reserved, Staged, Built
<1>2. TypeInv /\ PlaceInv /\ [Next]_vars => PlaceInv'
  <2> SUFFICES ASSUME TypeInv, PlaceInv, [Next]_vars PROVE PlaceInv'
    OBVIOUS
  <2>1. CASE ReservationMoved
    BY <2>1, MovedStays DEF ReservationMoved, PlaceInv
  <2>2. CASE ~ReservationMoved
    <3>1. ASSUME NEW p \in Procs, Publisher(p) PROVE PlaceInv'
      <4>1. \/ Looks(p) \/ MakeStaging(p) \/ RenameNoReplace(p) \/ WritePart(p)
            \/ ReleaseName(p) \/ QuarantineFinal(p) \/ CleanEntry(p) \/ RemoveRoot(p) \/ RemoveTree(p)
        BY <3>1 DEF Publisher, Looks
      <4> QED
        BY <2>2, <4>1, LooksPlaced, NamingPlaced, WritingPlaced, CleaningPlaced
    <3>2. SomebodyElse => PlaceInv'
      BY <2>2, ElsePlaced
    <3>3. CASE AllEnded \/ UNCHANGED vars
      BY <3>3 DEF AllEnded, vars, PlaceInv, ReservationMoved, OneName, Named, Filled, Changed,
                  StagingName, Written
    <3> QED
      BY <3>1, <3>2, <3>3 DEF Next
  <2> QED
    BY <2>1, <2>2
<1> QED
  BY <1>1, <1>2, TypeInvHolds, PTL DEF Spec

\* What a publisher does in a step that nobody else takes.
LEMMA OneStep ==
    ASSUME TypeInv, [Next]_vars, NEW p \in Procs, proc'[p].pc # proc[p].pc
    PROVE  Publisher(p)
<1>1. ~SomebodyElse
  BY ElseType
<1>2. ~AllEnded /\ ~UNCHANGED vars
  BY DEF AllEnded, vars
<1>3. PICK q \in Procs : Publisher(q)
  BY <1>1, <1>2 DEF Next
<1>4. ASSUME q # p PROVE FALSE
  <2>1. CASE \E pc \in Places : Go(q, pc)
    BY <1>4, <2>1 DEF Go, TypeInv
  <2>2. CASE WritePart(q) /\ ~Fail(q)
    BY <1>4, <2>2 DEF WritePart, TypeInv
  <2>3. CASE CleanEntry(q) /\ ~Go(q, "failed")
    BY <1>4, <2>3 DEF CleanEntry, TypeInv
  <2>4. Fail(q) \/ Go(q, "failed") => \E pc \in Places : Go(q, pc)
    BY FailGoes DEF Places, Ended
  <2>5. CASE Looks(q)
    BY <2>1, <2>5, LooksGoes
  <2>6. CASE MakeStaging(q) \/ RenameNoReplace(q)
    <3>1. AfterMkdir \in Places
      BY PublicationAssumption DEF AfterMkdir, Places, TypeInv
    <3>2. {"refused", "done", "confirm"} \subseteq Places
      BY DEF Places, Ended
    <3> QED
      BY <2>1, <2>4, <2>6, <3>1, <3>2 DEF MakeStaging, RenameNoReplace
  <2>7. CASE ReleaseName(q) \/ QuarantineFinal(q) \/ RemoveRoot(q) \/ RemoveTree(q)
    <3>1. "clean" \in Places /\ "dirty" \in Places
      BY DEF Places, Ended
    <3> QED
      BY <2>1, <2>4, <2>7, <3>1 DEF ReleaseName, QuarantineFinal, RemoveRoot, RemoveTree
  <2> QED
    BY <1>3, <2>1, <2>2, <2>3, <2>4, <2>5, <2>6, <2>7 DEF Publisher, Looks
<1> QED
  BY <1>3, <1>4

\* A report is complete from the moment it has the final name, and a week 2 or
\* week 3 publisher that returns has its own directory there, in week 3 with
\* exactly its own files in it (_publish_staged_directory, _confirm_published).
THEOREM PublishedIsWhole == Spec => PublishedWhole
<1> DEFINE Holds == \A p \in Procs :
         /\ (names'[Final] = p /\ names[Final] # p /\ ~ReservationMoved /\ ~Changed(p))
              => content'[p] = Whole
         /\ (proc'[p].pc = "done" /\ proc[p].pc # "done" /\ kind # "baseline")
              => names'[Final] = p
         /\ (proc'[p].pc = "done" /\ kind = "week3" /\ proc[p].pc # "done")
              => content'[p] = Whole
<1>1. TypeInv /\ PlaceInv /\ [Next]_vars => [Holds]_vars
  <2> SUFFICES ASSUME TypeInv, PlaceInv, [Next]_vars, NEW p \in Procs
               PROVE  /\ (names'[Final] = p /\ names[Final] # p
                            /\ ~ReservationMoved /\ ~Changed(p)) => content'[p] = Whole
                      /\ (proc'[p].pc = "done" /\ proc[p].pc # "done" /\ kind # "baseline")
                           => names'[Final] = p
                      /\ (proc'[p].pc = "done" /\ kind = "week3" /\ proc[p].pc # "done")
                           => content'[p] = Whole
    OBVIOUS
  <2>1. ASSUME names'[Final] = p, names[Final] # p, ~ReservationMoved, ~Changed(p)
        PROVE  content'[p] = Whole
    <3>1. ~UNCHANGED names
      BY <2>1
    <3>2. ~SomebodyElse
      <4>1. names \in [Names -> Dirs \cup {Nobody}] /\ Final \in Names /\ Final # Aside
            /\ Foreign \notin Procs /\ Nobody \notin Procs /\ <<"staging", Nobody>> \in Names
        BY NameFacts, PublicationAssumption DEF TypeInv, Final, Aside, Names
      <4>2. ASSUME NEW n \in Names PROVE ~MoveAside(n)
        BY <2>1, <4>1, <4>2 DEF MoveAside
      <4>3. ASSUME NEW n \in {Final, <<"staging", Nobody>>} PROVE ~PutDirectory(n)
        BY <2>1, <4>1, <4>3 DEF PutDirectory
      <4>4. ASSUME NEW d \in Dirs, NEW x \in Entries PROVE ~AddFile(d, x) /\ ~RemoveFile(d, x)
        BY <3>1 DEF AddFile, RemoveFile
      <4> QED
        BY <4>2, <4>3, <4>4 DEF SomebodyElse
    <3>3. PICK q \in Procs : Publisher(q)
      BY <3>1, <3>2 DEF Next, AllEnded, vars
    <3>4. /\ names \in [Names -> Dirs \cup {Nobody}] /\ Final \in Names /\ Nobody \notin Procs
          /\ StagingName(q) \in Names /\ StagingName(q) # Final /\ Quarantine(q) # Final
      BY NameFacts, PublicationAssumption DEF TypeInv
    <3>5. ~Looks(q) /\ ~WritePart(q) /\ ~CleanEntry(q)
      BY <3>1, LooksGoes, WriteType, CleanType DEF Disk
    <3>6. ~MakeStaging(q) /\ ~ReleaseName(q)
      BY <2>1, <3>4 DEF MakeStaging, ReleaseName
    <3>7. ~QuarantineFinal(q) /\ ~RemoveRoot(q)
      BY <2>1, <3>4 DEF QuarantineFinal, RemoveRoot, MovedToQuarantine
    <3>8. ~RemoveTree(q)
      BY <2>1, TreeType
    <3>9. RenameNoReplace(q)
      BY <3>3, <3>5, <3>6, <3>7, <3>8 DEF Publisher, Looks
    <3>10. names[StagingName(q)] = q /\ (Changed(q) \/ content[q] = Whole)
      BY <2>1, <3>9 DEF RenameNoReplace, At, PlaceInv, Named, Filled, Staged, Built
    <3>11. q = p
      BY <2>1, <3>4, <3>9, <3>10 DEF RenameNoReplace
    <3> QED
      BY <2>1, <3>9, <3>10, <3>11 DEF RenameNoReplace
  <2>2. ASSUME proc'[p].pc = "done", proc[p].pc # "done"
        PROVE  /\ kind # "baseline" => names'[Final] = p
               /\ kind = "week3" => content'[p] = Whole
    <3>1. Publisher(p)
      BY <2>2, OneStep
    <3>2. ASSUME NEW pc, Go(p, pc) PROVE pc = "done"
      BY <2>2, <3>2 DEF Go, TypeInv
    <3>3. ~Fail(p)
      BY <3>2, FailWhere
    <3>4. Confirm(p) \/ ConfirmAgain(p) \/ (RenameNoReplace(p) /\ kind = "baseline")
      <4>1. ~Begin(p) /\ ~ProbeNames(p) /\ ~VerifyStaging(p) /\ ~CheckFinal(p) /\ ~StartWriting(p)
        BY <3>2, <3>3 DEF Begin, ProbeNames, VerifyStaging, CheckFinal, StartWriting
      <4>2. ~Validate(p) /\ ~ValidateInventory(p) /\ ~ValidateOwned(p)
        BY <3>2, <3>3 DEF Validate, ValidateInventory, ValidateOwned
      <4>3. ~StepFails(p) /\ ~CleanupFails(p) /\ ~Interrupt(p) /\ ~Kill(p)
        BY <3>2, <3>3 DEF StepFails, CleanupFails, Interrupt, Kill
      <4>4. ~ReleaseName(p) /\ ~QuarantineFinal(p) /\ ~RemoveRoot(p) /\ ~RemoveTree(p)
        BY <3>2 DEF ReleaseName, QuarantineFinal, RemoveRoot, RemoveTree
      <4>5. ~MakeStaging(p)
        <5>1. AfterMkdir # "done"
          BY PublicationAssumption DEF AfterMkdir, TypeInv
        <5> QED
          BY <3>2, <5>1 DEF MakeStaging
      <4>6. ~WritePart(p)
        BY <2>2, <3>3 DEF WritePart, TypeInv
      <4>7. ~CleanEntry(p)
        BY <2>2, <3>2 DEF CleanEntry, TypeInv
      <4>8. RenameNoReplace(p) => kind = "baseline"
        BY <3>2, <3>3 DEF RenameNoReplace
      <4> QED
        BY <3>1, <4>1, <4>2, <4>3, <4>4, <4>5, <4>6, <4>7, <4>8 DEF Publisher
    <3>5. CASE Confirm(p)
      BY <3>2, <3>3, <3>5 DEF Confirm, Disk
    <3>6. CASE ConfirmAgain(p)
      BY <3>2, <3>3, <3>6 DEF ConfirmAgain, Disk
    <3> QED
      BY <3>4, <3>5, <3>6
  <2> QED
    BY <2>1, <2>2
<1> QED
  BY <1>1, TypeInvHolds, PlaceHolds, PTL DEF Spec, PublishedWhole

\* A publisher that reports a failure it could clean up after leaves no
\* reservation behind, and in week 3 no report either (_remove_owned_path,
\* _clean_owned_staging, _remove_owned).
THEOREM FailureIsClean == Spec => FailureLeavesNothing
<1> DEFINE Holds == \A p \in Procs : proc'[p].pc = "failed" /\ proc[p].pc # "failed" =>
         /\ names'[StagingName(p)] # p
         /\ names'[Final] = p =>
              \/ ReservationMoved
              \/ kind = "week2" /\ (content'[p] = Whole \/ Changed(p))
<1>1. TypeInv /\ PlaceInv /\ [Next]_vars => [Holds]_vars
  <2> SUFFICES ASSUME TypeInv, PlaceInv, [Next]_vars, NEW p \in Procs,
                      proc'[p].pc = "failed", proc[p].pc # "failed"
               PROVE  /\ names'[StagingName(p)] # p
                      /\ names'[Final] = p =>
                           \/ ReservationMoved
                           \/ kind = "week2" /\ (content'[p] = Whole \/ Changed(p))
    OBVIOUS
  <2>1. Publisher(p)
    BY OneStep
  <2>2. ASSUME NEW pc, Go(p, pc) PROVE pc = "failed"
    BY <2>2 DEF Go, TypeInv
  <2>3. ~Fail(p)
    BY <2>2, FailWhere
  <2>4. /\ names \in [Names -> Dirs \cup {Nobody}] /\ Nobody \notin Procs
        /\ Final \in Names /\ StagingName(p) \in Names /\ StagingName(p) # Final
        /\ Quarantine(p) # Final /\ Quarantine(p) # StagingName(p)
    BY NameFacts, PublicationAssumption DEF TypeInv, StagingName, Quarantine
  <2>5. ReleaseName(p) \/ CleanEntry(p) \/ RemoveRoot(p) \/ RemoveTree(p)
    <3>1. ~Begin(p) /\ ~ProbeNames(p) /\ ~VerifyStaging(p) /\ ~CheckFinal(p) /\ ~StartWriting(p)
      BY <2>2, <2>3 DEF Begin, ProbeNames, VerifyStaging, CheckFinal, StartWriting
    <3>2. ~Validate(p) /\ ~ValidateInventory(p) /\ ~ValidateOwned(p) /\ ~Confirm(p)
          /\ ~ConfirmAgain(p)
      BY <2>2, <2>3 DEF Validate, ValidateInventory, ValidateOwned, Confirm, ConfirmAgain
    <3>3. ~StepFails(p) /\ ~CleanupFails(p) /\ ~Interrupt(p) /\ ~Kill(p)
      BY <2>2, <2>3 DEF StepFails, CleanupFails, Interrupt, Kill
    <3>4. ~QuarantineFinal(p) /\ ~RenameNoReplace(p)
      BY <2>2, <2>3 DEF QuarantineFinal, RenameNoReplace
    <3>5. ~MakeStaging(p)
      <4>1. AfterMkdir # "failed"
        BY PublicationAssumption DEF AfterMkdir, TypeInv
      <4> QED
        BY <2>2, <4>1 DEF MakeStaging
    <3>6. ~WritePart(p)
      BY <2>3 DEF WritePart, TypeInv
    <3> QED
      BY <2>1, <3>1, <3>2, <3>3, <3>4, <3>5, <3>6 DEF Publisher
  <2>6. CASE ReleaseName(p)
    <3>1. names' = [names EXCEPT ![StagingName(p)] = Nobody] /\ proc[p].pc = "release"
      BY <2>2, <2>6 DEF ReleaseName, At
    <3>2. names'[StagingName(p)] # p /\ names'[Final] = names[Final]
      BY <2>4, <3>1
    <3>3. names[Final] = p => ReservationMoved
      BY <2>4, <3>1 DEF PlaceInv, OneName, Named, Staged
    <3> QED
      BY <3>2, <3>3
  <2>7. CASE CleanEntry(p)
    <3>1. NamesOf(p) = {} /\ names' = names
      BY <2>7 DEF CleanEntry, TypeInv
    <3> QED
      BY <2>4, <3>1 DEF NamesOf
  <2>8. CASE RemoveRoot(p)
    <3>1. CASE NamesOf(p) = {} /\ names' = names
      BY <2>4, <3>1 DEF NamesOf
    <3>2. CASE names' = [n \in Names |-> IF names[n] = p THEN Nobody ELSE names[n]]
      BY <2>4, <3>2
    <3>3. CASE names' = MovedToQuarantine(p)
      BY <2>4, <3>3 DEF MovedToQuarantine
    <3> QED
      BY <2>8, <3>1, <3>2, <3>3 DEF RemoveRoot
  <2>9. CASE RemoveTree(p)
    <3> DEFINE d == names[StagingName(p)]
               ours == d # Nobody /\ (kind = "week2" => d = p)
    <3>1. /\ names' = IF ours THEN [names EXCEPT ![StagingName(p)] = Nobody] ELSE names
          /\ content' = IF ours THEN [content EXCEPT ![d] = Empty] ELSE content
          /\ proc[p].pc = "rmtree"
      BY <2>9 DEF RemoveTree, At
    <3>2. names'[StagingName(p)] # p
      BY <2>4, <3>1
    <3>3. names'[Final] = names[Final]
      BY <2>4, <3>1
    <3>4. ASSUME names[Final] = p, ~ReservationMoved
          PROVE  kind = "week2" /\ (content'[p] = Whole \/ Changed(p))
      <4>1. OneName /\ Named(p)
        BY <3>4 DEF PlaceInv
      <4>2. d # p
        BY <2>4, <3>4, <4>1 DEF OneName
      <4>3. kind = "week2" /\ (Changed(p) \/ content[p] = Whole)
        BY <3>1, <4>1, <4>2 DEF Named
      <4>4. content' = content
        BY <3>1, <4>2, <4>3
      <4> QED
        BY <4>3, <4>4
    <3> QED
      BY <3>2, <3>3, <3>4
  <2> QED
    BY <2>5, <2>6, <2>7, <2>8, <2>9
<1> QED
  BY <1>1, TypeInvHolds, PlaceHolds, PTL DEF Spec, FailureLeavesNothing
=============================================================================
