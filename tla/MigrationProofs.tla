--------------------------- MODULE MigrationProofs --------------------------
(* The migration for any files, number of edits, applies, errors and kills:  *)
(* no edit is lost, receipts stay true, and status agrees with cleanup up to *)
(* edits that both sides got.                                                *)
EXTENDS Migration, TLAPS

-----------------------------------------------------------------------------
(* The inductive invariant.                                                  *)

Applying(S) == job # NoJob /\ job.cmd = "apply" /\ job.at \in S
Activating == Transaction \ {"data"}
\* The steps of an apply after the executor.
Done == {"activated", "check", "receipt", "complete"}

Pending(r) == journal[r] \in Activating

Known(files) ==
    \A f \in Files : files[f] # NoFile => files[f] # {} /\ files[f] \subseteq 0..edits
EditsKnown ==
    /\ Known(legacy) /\ Known(canon)
    /\ \A r \in Run : Known(staged[r]) /\ Known(before[r])
    /\ \A f \in Files : kept[f] \subseteq 0..edits
    /\ \E f \in Files : kept[f] # {}

Within(a, b) == \A f \in Present(a) : b[f] # NoFile /\ a[f] \subseteq b[f]

\* The run may still replace data that are not empty.
Replaces(r) ==
    before[r] # Empty /\ (journal[r] = "data" \/ (Applying({"activate"}) /\ job.run = r))

NothingActive ==
    /\ \A s \in Run : Pending(s) => staged[s] = Empty
    /\ receipt # NoReceipt => receipt.source = Empty

KeptInLegacy(files) == \A f \in Files : kept[f] \cap Holds(files, f) \subseteq Holds(legacy, f)

ReplacedStands ==
    /\ \A r \in Run : Replaces(r) =>
        /\ Within(before[r], canon)
        /\ NothingActive
        /\ job # NoJob /\ job.cmd = "apply" => job.run = r /\ job.at \in {"activate", "data"}
        /\ \A s \in Run : Replaces(s) => s = r
        /\ hasty = "no" => KeptInLegacy(before[r])
    /\ Applying({"stage", "copy"}) =>
        /\ NothingActive
        /\ \A r \in Run : ~Replaces(r)
        /\ hasty = "no" => KeptInLegacy(canon)

ShellsAreEmpty ==
    /\ dataRoot = "absent" => canon = Empty
    /\ manifest => dataRoot = "bound"
    /\ Applying({"config", "manifest"}) => dataRoot = "bound"
    /\ ~manifest => \A r \in Run : before[r] = Empty
    /\ ~manifest /\ Applying({"stage", "copy"}) => canon = Empty

JobsAreJournaled ==
    /\ \A r \in Run : r > runs => journal[r] = "absent"
    /\ job # NoJob /\ job.cmd # "cleanup" => job.run <= runs
    /\ \A at \in Transaction : Executing(at) => journal[job.run] = at
    /\ Applying({"stage", "copy", "activate"}) => journal[job.run] = "absent"
    /\ Applying(Done) =>
            journal[job.run] = "committed"
    /\ job # NoJob /\ job.cmd = "apply" /\ job.at \notin {"stage", "copy"} =>
            staged[job.run] = job.source

OneIsActive ==
    /\ \A r \in Run : Pending(r) => Within(staged[r], canon)
    /\ \A r, s \in Run :
            Pending(r) /\ Pending(s) /\ staged[r] # Empty /\ staged[s] # Empty => r = s
    /\ Applying(Activating) =>
            \A r \in Run \ {job.run} : Pending(r) => staged[r] = Empty
    /\ Applying(Done) =>
            \A r \in Run : Pending(r) => staged[r] = Empty
    /\ receipt # NoReceipt /\ receipt.source # Empty =>
            \A r \in Run : Pending(r) => staged[r] = Empty

ReceiptsAreCommitted ==
    /\ receipt # NoReceipt =>
        /\ receipt.target = receipt.source
        /\ \E r \in Run : receipt.source = staged[r] /\ journal[r] = "committed"
    /\ Applying({"receipt"}) => Within(job.source, canon)
    /\ ReceiptIsTrue

NothingIsLost ==
    /\ EditsSurvive
    /\ hasty = "no" => \A r \in Run : Pending(r) => KeptInLegacy(staged[r])
    /\ Cleaning /\ hasty # "undone" => \A f \in Files : kept[f] \subseteq Holds(canon, f)
    /\ Cleaning /\ hasty = "no" => receipt # NoReceipt

SomethingMigrated ==
    hasty # "undone" =>
        /\ job # NoJob /\ job.cmd = "apply" => job.source # Empty
        /\ receipt # NoReceipt => receipt.source # Empty

IInv ==
    /\ TypeOK /\ EditsKnown /\ ReplacedStands /\ ShellsAreEmpty /\ JobsAreJournaled
    /\ OneIsActive /\ ReceiptsAreCommitted /\ NothingIsLost /\ SomethingMigrated

-----------------------------------------------------------------------------
(* Contents.                                                                 *)

LEMMA NoFileIsNoSet == \A c \in SUBSET Edits : c # NoFile
BY NothingAssumption

LEMMA HoldsType ==
    ASSUME NEW files \in Inventory, NEW f \in Files
    PROVE  Holds(files, f) \in SUBSET Edits
BY DEF Inventory, Content, Holds

\* An edit adds itself to one file.
LEMMA WithEdit ==
    ASSUME NEW files \in Inventory, NEW f \in Files, NEW e \in Edits
    PROVE  /\ With(files, f, e) \in Inventory
           /\ With(files, f, e)[f] = Holds(files, f) \cup {e}
           /\ With(files, f, e)[f] # NoFile
           /\ \A g \in Files \ {f} : With(files, f, e)[g] = files[g]
           /\ \A g \in Files : Holds(With(files, f, e), g) =
                    Holds(files, g) \cup (IF g = f THEN {e} ELSE {})
<1>1. With(files, f, e) = [files EXCEPT ![f] = Holds(files, f) \cup {e}]
  BY DEF With, Holds, Inventory
<1>2. Holds(files, f) \cup {e} \in SUBSET Edits
  BY HoldsType
<1>3. Holds(files, f) \cup {e} # NoFile
  BY <1>2, NoFileIsNoSet
<1>4. /\ With(files, f, e) \in Inventory
      /\ With(files, f, e)[f] = Holds(files, f) \cup {e}
      /\ \A g \in Files \ {f} : With(files, f, e)[g] = files[g]
  BY <1>1, <1>2 DEF Inventory, Content
<1>5. QED
  BY <1>3, <1>4 DEF Holds

\* The history of edits that nothing may lose is an inventory without holes.
LEMMA KeptEdit ==
    ASSUME kept \in [Files -> SUBSET Edits], NEW f \in Files, NEW e \in Edits
    PROVE  /\ With(kept, f, e) \in [Files -> SUBSET Edits]
           /\ With(kept, f, e)[f] = kept[f] \cup {e}
           /\ \A g \in Files \ {f} : With(kept, f, e)[g] = kept[g]
<1>1. kept[f] # NoFile
  BY NoFileIsNoSet
<1>2. QED
  BY <1>1 DEF With, Holds

\* An edit of one side, new or made on the other before.
Edit(f) == EditLegacy(f) \/ WriteCanonical(f) \/ Reconcile(f)

LEMMA EditFrame ==
    ASSUME NEW f \in Files, Edit(f)
    PROVE  UNCHANGED <<legacyConfig, dataRoot, configDir, manifest, phase, journal, staged,
                       before, receipt, job, runs, faults, kills, hasty>>
BY DEF Edit, EditLegacy, WriteCanonical, Reconcile, ChangeLegacy, ChangeCanonical, records

-----------------------------------------------------------------------------
(* Types.                                                                    *)

ApplyJob ==
    [cmd : {"apply"}, at : {"stage", "copy", "check", "activate", "activated", "receipt",
                            "complete"} \cup Transaction,
     run : Run, source : Inventory, left : SUBSET Files]
RecoverJob == [cmd : {"recover"}, at : Transaction, run : Run]
CleanupJob == [cmd : {"cleanup"}, at : {"remove"}]

LEMMA JobKinds ==
    ASSUME job \in Job \cup {NoJob}, job # NoJob
    PROVE  /\ job.cmd = "apply" => job \in ApplyJob
           /\ job.cmd = "recover" => job \in RecoverJob
           /\ job.cmd = "cleanup" => job \in CleanupJob
BY DEF Job, ApplyJob, RecoverJob, CleanupJob

LEMMA EmptyType == Empty \in Inventory
BY DEF Empty, Inventory, Content

LEMMA InitType == Init => TypeOK
<1> SUFFICES ASSUME Init PROVE TypeOK
  OBVIOUS
<1>1. legacy \in Inventory /\ kept \in [Files -> SUBSET Edits]
  <2>1. PICK fs \in SUBSET Files : legacy = [f \in Files |-> IF f \in fs THEN {0} ELSE NoFile]
    BY DEF Init
  <2>2. {0} \in SUBSET Edits
    BY MigrationAssumption DEF Edits
  <2>3. legacy \in Inventory
    BY <2>1, <2>2 DEF Inventory, Content
  <2>4. \A f \in Files : (IF legacy[f] = NoFile THEN {} ELSE legacy[f]) \in SUBSET Edits
    BY <2>1, <2>2
  <2>5. QED
    BY <2>3, <2>4 DEF Init
<1>2. QED
  BY <1>1, EmptyType DEF Init, TypeOK, Phases, Journal

LEMMA TypeStep == TypeOK /\ Next => TypeOK'
<1> SUFFICES ASSUME TypeOK, Next PROVE TypeOK'
  OBVIOUS
<1> USE DEF TypeOK
<1>1. CASE BeginApply
  <2>1. runs + 1 \in Run /\ Present(legacy) \in SUBSET Files
    BY <1>1, MigrationAssumption DEF BeginApply, Run, Present
  <2>2. job' \in Job
    BY <1>1, <2>1 DEF BeginApply, Job
  <2>3. QED
    BY <1>1, <2>2 DEF BeginApply, data, records, history
<1>2. CASE Stage \/ StartExecutor \/ Activated \/ VerifyTarget \/ CheckCopy
  <2>1. job \in ApplyJob
    BY <1>2, JobKinds DEF Stage, StartExecutor, Activated, VerifyTarget, CheckCopy, ApplyStep
  <2>2. job' \in Job
    BY <1>2, <2>1 DEF Stage, StartExecutor, Activated, VerifyTarget, CheckCopy, ApplyStep,
                      ApplyJob, Job, Transaction
  <2>3. QED
    BY <1>2, <2>1, <2>2 DEF Stage, StartExecutor, Activated, VerifyTarget, CheckCopy, ApplyStep,
        ApplyJob, data, counters, history, Phases, Journal, Transaction
<1>3. CASE WriteReceipt
  <2>1. job \in ApplyJob
    BY <1>3, JobKinds DEF WriteReceipt, ApplyStep
  <2>2. job' \in Job /\ receipt' \in [source : Inventory, target : Inventory]
    BY <1>3, <2>1 DEF WriteReceipt, ApplyStep, ApplyJob, Job
  <2>3. QED
    BY <1>3, <2>2 DEF WriteReceipt, ApplyStep, data, counters, history, Phases
<1>4. ASSUME NEW f \in Files, CopyFile(f) PROVE TypeOK'
  <2>1. job \in ApplyJob
    BY <1>4, JobKinds DEF CopyFile
  <2>2. job' \in Job
    BY <1>4, <2>1 DEF CopyFile, ApplyJob, Job
  <2>3. staged' \in [Run -> Inventory]
    BY <1>4, <2>1 DEF CopyFile, ApplyJob, Inventory
  <2>4. QED
    BY <1>4, <2>2, <2>3 DEF CopyFile, data, counters, history
<1>5. CASE ActivateData \/ ActivateConfig \/ SwitchManifest
  <2>1. job \in ApplyJob \/ job \in RecoverJob
    BY <1>5, JobKinds DEF ActivateData, ActivateConfig, SwitchManifest, Executing
  <2>2. PICK to \in Transaction : NextPhase(to)
    BY <1>5 DEF ActivateData, ActivateConfig, SwitchManifest, Transaction
  <2>3. job' \in Job
    BY <2>1, <2>2 DEF NextPhase, ApplyJob, RecoverJob, Job
  <2>4. journal' \in [Run -> Journal]
    BY <2>1, <2>2 DEF NextPhase, ApplyJob, RecoverJob, Journal
  <2>5. QED
    BY <1>5, <2>1, <2>3, <2>4 DEF ActivateData, ActivateConfig, SwitchManifest, executorRest,
        Undoes, counters, history, ApplyJob, RecoverJob
<1>6. CASE Finalize
  <2>1. job \in ApplyJob \/ job \in RecoverJob
    BY <1>6, JobKinds DEF Finalize, Executing
  <2>2. job' \in Job \cup {NoJob}
    BY <1>6, <2>1, JobKinds DEF Finalize, ApplyJob, Job, Executing
  <2>3. QED
    BY <1>6, <2>1, <2>2 DEF Finalize, executorRest, counters, history, Journal
<1>7. CASE ExecutorFails \/ Complete \/ ApplyFails \/ Initialize \/ Kill
  BY <1>7 DEF ExecutorFails, Complete, ApplyFails, Initialize, Kill, data, records, counters,
              history, Phases
<1>8. ASSUME NEW r \in Run, Resume(r) \/ Rollback(r) PROVE TypeOK'
  <2>1. CASE Resume(r)
    <3>1. job' \in Job
      BY <2>1 DEF Resume, Recoverable, Job
    <3>2. QED
      BY <2>1, <3>1 DEF Resume, data, records, counters, history
  <2>2. CASE Rollback(r)
    BY <2>2 DEF Rollback, Undoes, Journal, counters
  <2>3. QED
    BY <1>8, <2>1, <2>2
<1>9. CASE BeginCleanup
  <2>1. job' \in Job
    BY <1>9 DEF BeginCleanup, Job
  <2>2. QED
    BY <1>9, <2>1 DEF BeginCleanup, data, records, counters
<1>10. CASE RemoveConfig
  BY <1>10 DEF RemoveConfig, records, counters, history
<1>11. ASSUME NEW f \in Files, RemoveFile(f) PROVE TypeOK'
  <2>1. legacy' \in Inventory
    BY <1>11 DEF RemoveFile, Inventory, Content
  <2>2. QED
    BY <1>11, <2>1 DEF RemoveFile, records, counters, history
<1>12. ASSUME NEW f \in Files, Edit(f) PROVE TypeOK'
  <2>1. PICK e \in Edits : ChangeLegacy(f, e) \/ ChangeCanonical(f, e)
    <3>1. CASE EditLegacy(f) \/ WriteCanonical(f)
      <4>1. edits' \in Edits
        BY <3>1, MigrationAssumption DEF EditLegacy, WriteCanonical, NewEdit, Edits
      <4>2. QED
        BY <3>1, <4>1 DEF EditLegacy, WriteCanonical
    <3>2. CASE Reconcile(f)
      BY <3>2, HoldsType DEF Reconcile
    <3>3. QED
      BY <1>12, <3>1, <3>2 DEF Edit
  <2>2. kept' \in [Files -> SUBSET Edits]
    BY <2>1, KeptEdit DEF ChangeLegacy, ChangeCanonical
  <2>3. legacy' \in Inventory /\ canon' \in Inventory
    BY <2>1, WithEdit DEF ChangeLegacy, ChangeCanonical
  <2>4. edits' \in Nat
    BY <1>12 DEF Edit, EditLegacy, WriteCanonical, Reconcile, NewEdit
  <2>5. QED
    BY <1>12, <2>2, <2>3, <2>4, EditFrame
<1>13. QED
  BY <1>1, <1>2, <1>3, <1>4, <1>5, <1>6, <1>7, <1>8, <1>9, <1>10, <1>11, <1>12
     DEF Next, Edit

-----------------------------------------------------------------------------
(* The steps, by what they do to the files.                                  *)

contents == <<legacy, canon, staged, before, kept, edits>>

\* Steps that write no file of either side, other than the begin of an apply.
Bookkeeping ==
    \/ Stage \/ StartExecutor \/ ActivateConfig \/ SwitchManifest \/ Finalize
    \/ ExecutorFails \/ Activated \/ VerifyTarget \/ WriteReceipt \/ Complete \/ ApplyFails
    \/ (\E r \in Run : Resume(r)) \/ BeginCleanup \/ RemoveConfig \/ Initialize \/ Kill

LEMMA StepKinds ==
    Next <=> \/ BeginApply \/ Bookkeeping
             \/ (\E f \in Files : CopyFile(f)) \/ CheckCopy \/ ActivateData
             \/ (\E r \in Run : Rollback(r))
             \/ (\E f \in Files : RemoveFile(f) \/ Edit(f))
BY DEF Next, Bookkeeping, Edit

LEMMA BookkeepingContents == BeginApply \/ Bookkeeping => UNCHANGED contents
BY DEF BeginApply, Bookkeeping, Stage, StartExecutor, ActivateConfig, SwitchManifest, Finalize,
       ExecutorFails, Activated, VerifyTarget, WriteReceipt, Complete, ApplyFails, Resume,
       BeginCleanup, RemoveConfig, Initialize, Kill, ApplyStep, executorRest, data, records,
       counters, history, contents

\* Only the begin of an apply makes a job that is still to copy.
LEMMA StillCopying ==
    ASSUME TypeOK, Next, ~BeginApply, Applying({"stage", "copy"})'
    PROVE  Applying({"stage", "copy"})
<1>1. job' # NoJob /\ job'.cmd = "apply" /\ job'.at \in {"stage", "copy"}
  BY DEF Applying
<1>2. CASE Bookkeeping
  <2>1. CASE job' = job
    BY <1>1, <2>1 DEF Applying
  <2>2. CASE Stage
    BY <2>2 DEF Stage, ApplyStep, Applying
  <2>3. ASSUME NEW to, job' = [job EXCEPT !.at = to], to \notin {"stage", "copy"},
               job # NoJob
        PROVE  FALSE
    BY <1>1, <2>3, JobKinds DEF TypeOK, ApplyJob, RecoverJob, CleanupJob, Job
  <2>4. CASE StartExecutor \/ ActivateConfig \/ SwitchManifest \/ Activated \/ VerifyTarget
             \/ WriteReceipt
    BY <2>3, <2>4 DEF StartExecutor, ActivateConfig, SwitchManifest, Activated, VerifyTarget,
                      WriteReceipt, ApplyStep, NextPhase, Executing
  <2>5. CASE Finalize
    BY <1>1, <2>3, <2>5 DEF Finalize, Executing
  <2>6. QED
    BY <1>1, <1>2, <2>1, <2>2, <2>4, <2>5 DEF Bookkeeping, ExecutorFails, Complete, ApplyFails,
        Resume, BeginCleanup, RemoveConfig, Initialize, Kill
<1>3. ASSUME NEW f \in Files, CopyFile(f) PROVE Applying({"stage", "copy"})
  BY <1>3 DEF CopyFile, Applying
<1>4. CASE CheckCopy
  BY <1>4 DEF CheckCopy, ApplyStep, Applying
<1>5. CASE ActivateData
  <2>1. job \in ApplyJob \/ job \in RecoverJob
    BY <1>5, JobKinds DEF ActivateData, Executing, TypeOK
  <2>2. job'.at = "config"
    BY <1>5, <2>1 DEF ActivateData, NextPhase, ApplyJob, RecoverJob
  <2>3. QED
    BY <1>1, <2>2
<1>6. CASE (\E r \in Run : Rollback(r))
           \/ (\E f \in Files : RemoveFile(f) \/ Edit(f))
  BY <1>6, EditFrame DEF Rollback, RemoveFile, Applying
<1>7. QED
  BY <1>2, <1>3, <1>4, <1>5, <1>6, StepKinds

-----------------------------------------------------------------------------
(* Edits are new, or known of the other side.                                *)

LEMMA HoldsKnown ==
    ASSUME NEW files, Known(files), NEW f \in Files
    PROVE  Holds(files, f) \subseteq 0..edits
BY DEF Known, Holds

\* No file has the edit yet.
Fresh(e) ==
    \A f \in Files :
        /\ e \notin Holds(legacy, f) /\ e \notin Holds(canon, f) /\ e \notin kept[f]
        /\ \A r \in Run : e \notin Holds(staged[r], f) /\ e \notin Holds(before[r], f)

\* An edit that one side gets is new, or the other side has it.
LEMMA EditKinds ==
    ASSUME TypeOK, EditsKnown, NEW f \in Files, Edit(f)
    PROVE  \E e \in Edits :
                /\ edits' \in Nat /\ edits <= edits' /\ e \in 0..edits'
                /\ \/ ChangeLegacy(f, e) /\ (Fresh(e) \/ e \in Holds(canon, f))
                   \/ ChangeCanonical(f, e) /\ (Fresh(e) \/ e \in Holds(legacy, f))
<1>1. edits \in Nat
  BY DEF TypeOK
<1>2. CASE EditLegacy(f) \/ WriteCanonical(f)
  <2>1. edits' = edits + 1 /\ edits' \in Edits /\ edits' \notin 0..edits
    BY <1>1, <1>2, MigrationAssumption DEF EditLegacy, WriteCanonical, NewEdit, Edits
  <2>2. Fresh(edits')
    BY <2>1, HoldsKnown DEF EditsKnown, Fresh
  <2>3. ChangeLegacy(f, edits') \/ ChangeCanonical(f, edits')
    BY <1>2 DEF EditLegacy, WriteCanonical
  <2>4. QED
    BY <1>1, <2>1, <2>2, <2>3
<1>3. CASE Reconcile(f)
  <2>1. edits' = edits
    BY <1>3 DEF Reconcile
  <2>2. Holds(legacy, f) \subseteq 0..edits /\ Holds(canon, f) \subseteq 0..edits
    BY HoldsKnown DEF EditsKnown
  <2>3. Holds(legacy, f) \subseteq Edits /\ Holds(canon, f) \subseteq Edits
    BY HoldsType DEF TypeOK
  <2>4. CASE \E e \in Holds(canon, f) \ Holds(legacy, f) : ChangeLegacy(f, e)
    BY <1>1, <2>1, <2>2, <2>3, <2>4
  <2>5. CASE \E e \in Holds(legacy, f) \ Holds(canon, f) : ChangeCanonical(f, e)
    BY <1>1, <2>1, <2>2, <2>3, <2>5
  <2>6. QED
    BY <1>3, <2>4, <2>5 DEF Reconcile
<1>4. QED
  BY <1>2, <1>3 DEF Edit

LEMMA EditEffect ==
    ASSUME TypeOK, EditsKnown, NEW f \in Files, Edit(f)
    PROVE  \E e \in Edits :
            /\ \A g \in Files : /\ Holds(legacy, g) \subseteq Holds(legacy', g)
                                /\ Holds(canon, g) \subseteq Holds(canon', g)
                                /\ kept'[g] \subseteq kept[g] \cup (IF g = f THEN {e} ELSE {})
            /\ \/ /\ canon' = canon /\ e \in Holds(legacy', f)
                  /\ Cleaning => kept' = kept
               \/ /\ legacy' = legacy /\ e \in Holds(canon', f)
                  /\ Fresh(e) \/ e \in Holds(legacy, f)
                  /\ \A g \in Files :
                        Holds(canon', g) = Holds(canon, g) \cup (IF g = f THEN {e} ELSE {})
                  /\ Adopting => kept' = kept
<1>1. PICK e \in Edits :
          \/ ChangeLegacy(f, e)
          \/ ChangeCanonical(f, e) /\ (Fresh(e) \/ e \in Holds(legacy, f))
  BY EditKinds
<1>2. \A g \in Files : kept'[g] \subseteq kept[g] \cup (IF g = f THEN {e} ELSE {})
  <2>1. kept' = kept \/ kept' = With(kept, f, e)
    BY <1>1 DEF ChangeLegacy, ChangeCanonical
  <2>2. QED
    BY <2>1, KeptEdit DEF TypeOK
<1>3. CASE ChangeLegacy(f, e)
  <2>1. legacy' = With(legacy, f, e) /\ canon' = canon /\ (Cleaning => kept' = kept)
    BY <1>3 DEF ChangeLegacy
  <2>2. \A g \in Files : Holds(legacy', g) = Holds(legacy, g) \cup (IF g = f THEN {e} ELSE {})
    BY <2>1, WithEdit DEF TypeOK
  <2>3. QED
    BY <1>2, <2>1, <2>2
<1>4. CASE ChangeCanonical(f, e) /\ (Fresh(e) \/ e \in Holds(legacy, f))
  <2>1. canon' = With(canon, f, e) /\ legacy' = legacy /\ (Adopting => kept' = kept)
    BY <1>4 DEF ChangeCanonical
  <2>2. \A g \in Files : Holds(canon', g) = Holds(canon, g) \cup (IF g = f THEN {e} ELSE {})
    BY <2>1, WithEdit DEF TypeOK
  <2>3. QED
    BY <1>2, <1>4, <2>1, <2>2
<1>5. QED
  BY <1>1, <1>3, <1>4

LEMMA KnownInit == Init => EditsKnown
<1> SUFFICES ASSUME Init PROVE EditsKnown
  OBVIOUS
<1>1. PICK fs \in (SUBSET Files) \ {{}} :
          legacy = [f \in Files |-> IF f \in fs THEN {0} ELSE NoFile]
  BY DEF Init
<1>2. {0} # NoFile
  BY NoFileIsNoSet, MigrationAssumption DEF Edits
<1>3. Known(legacy) /\ Known(Empty)
  BY <1>1 DEF Init, Known, Empty
<1>4. \A f \in Files : kept[f] = IF f \in fs THEN {0} ELSE {}
  BY <1>1, <1>2 DEF Init
<1>5. \E f \in Files : kept[f] # {}
  BY <1>4
<1>6. QED
  BY <1>3, <1>4, <1>5 DEF Init, EditsKnown

LEMMA KnownStep == TypeOK /\ EditsKnown /\ Next => EditsKnown'
<1> SUFFICES ASSUME TypeOK, EditsKnown, Next PROVE EditsKnown'
  OBVIOUS
<1>1. CASE BeginApply \/ Bookkeeping
  BY <1>1, BookkeepingContents DEF contents, EditsKnown, Known
<1>2. ASSUME NEW f \in Files, CopyFile(f) PROVE EditsKnown'
  <2>1. job \in ApplyJob
    BY <1>2, JobKinds DEF CopyFile, TypeOK
  <2>2. \A r \in Run, g \in Files : staged'[r][g] = staged[r][g] \/ staged'[r][g] = legacy[g]
    BY <1>2, <2>1 DEF CopyFile, TypeOK, ApplyJob, Inventory
  <2>3. \A r \in Run : Known(staged'[r])
    BY <2>2 DEF EditsKnown, Known
  <2>4. QED
    BY <1>2, <2>3 DEF CopyFile, data, counters, history, EditsKnown, Known
<1>3. CASE CheckCopy
  <2>1. \A r \in Run : before'[r] = before[r] \/ before'[r] = canon
    BY <1>3 DEF CheckCopy, TypeOK
  <2>2. \A r \in Run : Known(before'[r])
    BY <2>1 DEF EditsKnown
  <2>3. QED
    BY <1>3, <2>2 DEF CheckCopy, ApplyStep, data, counters, history, EditsKnown, Known
<1>4. CASE ActivateData
  <2>1. job.run \in Run
    BY <1>4, JobKinds DEF ActivateData, Executing, TypeOK, ApplyJob, RecoverJob
  <2>2. QED
    BY <1>4, <2>1 DEF ActivateData, executorRest, counters, history, EditsKnown, Known
<1>5. ASSUME NEW r \in Run, Rollback(r) PROVE EditsKnown'
  BY <1>5 DEF Rollback, counters, EditsKnown, Known
<1>6. ASSUME NEW f \in Files, RemoveFile(f) PROVE EditsKnown'
  <2>1. \A g \in Files : legacy'[g] = legacy[g] \/ legacy'[g] = NoFile
    BY <1>6 DEF RemoveFile, TypeOK, Inventory
  <2>2. QED
    BY <1>6, <2>1 DEF RemoveFile, records, counters, history, EditsKnown, Known
<1>7. ASSUME NEW f \in Files, Edit(f) PROVE EditsKnown'
  <2>1. PICK e \in Edits : /\ edits' \in Nat /\ edits <= edits' /\ e \in 0..edits'
                           /\ ChangeLegacy(f, e) \/ ChangeCanonical(f, e)
    BY <1>7, EditKinds
  <2>2. ASSUME NEW files, Known(files)
        PROVE  \A g \in Files : files[g] # NoFile => files[g] # {} /\ files[g] \subseteq 0..edits'
    BY <2>1, <2>2 DEF Known, TypeOK
  <2>3. ASSUME NEW files \in Inventory, Known(files)
        PROVE  \A g \in Files : With(files, f, e)[g] # NoFile =>
                    /\ With(files, f, e)[g] # {}
                    /\ With(files, f, e)[g] \subseteq 0..edits'
    <3>1. Holds(files, f) \subseteq 0..edits'
      BY <2>2, <2>3 DEF Holds
    <3>2. With(files, f, e)[f] \subseteq 0..edits' /\ With(files, f, e)[f] # {}
      BY <2>1, <2>3, <3>1, WithEdit
    <3>3. \A g \in Files \ {f} : With(files, f, e)[g] = files[g]
      BY <2>1, <2>3, WithEdit
    <3>4. QED
      BY <2>2, <2>3, <3>2, <3>3
  <2>4. Known(legacy)' /\ Known(canon)'
    BY <2>1, <2>2, <2>3 DEF ChangeLegacy, ChangeCanonical, EditsKnown, Known, TypeOK
  <2>5. \A r \in Run : Known(staged[r])' /\ Known(before[r])'
    BY <1>7, <2>2, EditFrame DEF EditsKnown, Known
  <2>6. \A g \in Files : kept'[g] \subseteq 0..edits' /\ kept[g] \subseteq kept'[g]
    <3>1. kept' = kept \/ kept' = With(kept, f, e)
      BY <2>1 DEF ChangeLegacy, ChangeCanonical
    <3>2. kept \in [Files -> SUBSET Edits] /\ \A g \in Files : kept[g] \subseteq 0..edits'
      BY <2>1 DEF EditsKnown, TypeOK
    <3>3. QED
      BY <2>1, <3>1, <3>2, KeptEdit
  <2>7. QED
    BY <2>4, <2>5, <2>6 DEF EditsKnown
<1>8. QED
  BY <1>1, <1>2, <1>3, <1>4, <1>5, <1>6, <1>7, StepKinds

-----------------------------------------------------------------------------
(* Where no canonical project is, there is nothing to replace.               *)

LEMMA ShellInit == Init => ShellsAreEmpty
BY DEF Init, ShellsAreEmpty, Applying

\* No apply begins over canonical files.
LEMMA BeginsEmpty ==
    ASSUME TypeOK, ShellsAreEmpty, BeginApply
    PROVE  canon = Empty
BY DEF BeginApply, Plannable, Preflight, DataState, ShellsAreEmpty

LEMMA ShellStep ==
    TypeOK /\ ShellsAreEmpty /\ Next => ShellsAreEmpty'
<1> SUFFICES ASSUME TypeOK, ShellsAreEmpty, Next PROVE ShellsAreEmpty'
  OBVIOUS
<1>0. ASSUME UNCHANGED <<dataRoot, canon, manifest, before, job>> PROVE ShellsAreEmpty'
  BY <1>0 DEF ShellsAreEmpty, Applying
<1>00. ASSUME UNCHANGED <<dataRoot, canon, manifest, before>>, job' = NoJob
       PROVE  ShellsAreEmpty'
  BY <1>00 DEF ShellsAreEmpty, Applying
<1>1. CASE BeginApply
  BY <1>1, BeginsEmpty DEF BeginApply, data, records, ShellsAreEmpty, Applying
<1>2. CASE Stage \/ StartExecutor \/ Activated \/ VerifyTarget \/ WriteReceipt
  <2>1. job \in ApplyJob
    BY <1>2, JobKinds DEF Stage, StartExecutor, Activated, VerifyTarget, WriteReceipt,
                          ApplyStep, TypeOK
  <2>2. /\ UNCHANGED <<dataRoot, canon, manifest, before>>
        /\ job'.at \notin {"config", "manifest"}
        /\ job'.at \in {"stage", "copy"} => Applying({"stage", "copy"})
    BY <1>2, <2>1 DEF Stage, StartExecutor, Activated, VerifyTarget, WriteReceipt, ApplyStep,
                      ApplyJob, data, Applying
  <2>3. QED
    BY <2>2 DEF ShellsAreEmpty, Applying
<1>3. CASE CheckCopy
  <2>1. job \in ApplyJob /\ Applying({"stage", "copy"})
    BY <1>3, JobKinds DEF CheckCopy, ApplyStep, TypeOK, Applying
  <2>2. job'.at = "activate" /\ \A r \in Run : before'[r] = before[r] \/ before'[r] = canon
    BY <1>3, <2>1 DEF CheckCopy, ApplyStep, ApplyJob, TypeOK
  <2>3. QED
    BY <1>3, <2>1, <2>2 DEF CheckCopy, data, ShellsAreEmpty, Applying
<1>4. CASE ActivateData \/ ActivateConfig \/ SwitchManifest
  <2>1. job \in ApplyJob \/ job \in RecoverJob
    BY <1>4, JobKinds DEF ActivateData, ActivateConfig, SwitchManifest, Executing, TypeOK
  <2>2. job'.at \notin {"stage", "copy"} /\ job'.cmd = job.cmd
    BY <1>4, <2>1 DEF ActivateData, ActivateConfig, SwitchManifest, NextPhase, ApplyJob, RecoverJob
  <2>3. CASE ActivateData
    BY <2>2, <2>3 DEF ActivateData, executorRest, ShellsAreEmpty, Applying
  <2>4. CASE ActivateConfig
    <3>1. job.cmd = "apply" => dataRoot = "bound"
      BY <2>4 DEF ActivateConfig, Executing, ShellsAreEmpty, Applying
    <3>2. QED
      BY <2>2, <2>4, <3>1 DEF ActivateConfig, executorRest, ShellsAreEmpty, Applying
  <2>5. CASE SwitchManifest
    <3>1. dataRoot = "bound"
      BY <2>5 DEF SwitchManifest, Executing, ShellsAreEmpty, Applying
    <3>2. QED
      BY <2>2, <2>5, <3>1 DEF SwitchManifest, executorRest, ShellsAreEmpty, Applying
  <2>6. QED
    BY <1>4, <2>3, <2>4, <2>5
<1>5. CASE Finalize
  <2>1. CASE job.cmd = "apply"
    <3>1. job \in ApplyJob
      BY <1>5, <2>1, JobKinds DEF Finalize, Executing, TypeOK
    <3>2. job'.at = "activated" /\ UNCHANGED <<dataRoot, canon, manifest, before>>
      BY <1>5, <2>1, <3>1 DEF Finalize, ApplyJob, executorRest
    <3>3. QED
      BY <3>2 DEF ShellsAreEmpty, Applying
  <2>2. CASE job.cmd # "apply"
    BY <1>00, <1>5, <2>2 DEF Finalize, executorRest
  <2>3. QED
    BY <2>1, <2>2
<1>6. CASE ExecutorFails \/ Complete \/ ApplyFails \/ Kill
  BY <1>00, <1>6 DEF ExecutorFails, Complete, ApplyFails, Kill, data, records
<1>7. CASE RemoveConfig
  BY <1>00, <1>7 DEF RemoveConfig, records
<1>8. ASSUME NEW f \in Files, CopyFile(f) PROVE ShellsAreEmpty'
  BY <1>8 DEF CopyFile, data, ShellsAreEmpty, Applying, TypeOK, Job
<1>9. ASSUME NEW r \in Run, Resume(r) PROVE ShellsAreEmpty'
  BY <1>9 DEF Resume, data, records, ShellsAreEmpty, Applying
<1>10. ASSUME NEW r \in Run, Rollback(r) PROVE ShellsAreEmpty'
  BY <1>10 DEF Rollback, Recoverable, ShellsAreEmpty, Applying
<1>11. CASE BeginCleanup
  BY <1>11 DEF BeginCleanup, data, records, ShellsAreEmpty, Applying
<1>12. CASE Initialize
  BY <1>12 DEF Initialize, records, ShellsAreEmpty, Applying
<1>13. ASSUME NEW f \in Files, RemoveFile(f) PROVE ShellsAreEmpty'
  BY <1>0, <1>13 DEF RemoveFile, records
<1>14. ASSUME NEW f \in Files, Edit(f) PROVE ShellsAreEmpty'
  <2>1. canon' = canon \/ (manifest /\ dataRoot = "bound")
    BY <1>14 DEF Edit, EditLegacy, WriteCanonical, Reconcile, ChangeLegacy, ChangeCanonical,
                 LayoutValid
  <2>2. QED
    BY <1>14, <2>1, EditFrame DEF ShellsAreEmpty, Applying
<1>15. QED
  BY <1>1, <1>2, <1>3, <1>4, <1>5, <1>6, <1>7, <1>8, <1>9, <1>10, <1>11, <1>12, <1>13, <1>14
     DEF Next, Edit

-----------------------------------------------------------------------------
(* The journal says how far a job is.                                        *)

LEMMA JobsInit == Init => JobsAreJournaled
BY DEF Init, JobsAreJournaled, Applying, Executing, Done

LEMMA JobsStep == TypeOK /\ JobsAreJournaled /\ Next => JobsAreJournaled'
<1> SUFFICES ASSUME TypeOK, JobsAreJournaled, Next PROVE JobsAreJournaled'
  OBVIOUS
<1>0. ASSUME UNCHANGED <<runs, journal, staged>>, job' = NoJob \/ job' = job
      PROVE  JobsAreJournaled'
  BY <1>0 DEF JobsAreJournaled, Applying, Executing, Done
<1>1. CASE BeginApply
  <2>1. runs + 1 \in Run /\ journal[runs + 1] = "absent" /\ runs \in Nat
    BY <1>1, MigrationAssumption DEF BeginApply, Run, TypeOK, JobsAreJournaled
  <2>2. \A r \in Run : r > runs + 1 => r > runs
    BY <2>1 DEF Run
  <2>3. QED
    BY <1>1, <2>1, <2>2 DEF BeginApply, records, JobsAreJournaled, Applying, Executing,
                            Transaction, Done
<1>2. CASE Stage \/ StartExecutor \/ Activated \/ VerifyTarget \/ WriteReceipt \/ CheckCopy
  <2>1. job \in ApplyJob
    BY <1>2, JobKinds DEF Stage, StartExecutor, Activated, VerifyTarget, WriteReceipt, CheckCopy,
                          ApplyStep, TypeOK
  <2>2. job.run <= runs /\ job.run \in Run /\ runs \in Nat
    <3>1. job # NoJob
      BY <2>1, NothingAssumption DEF Job, ApplyJob
    <3>2. QED
      BY <2>1, <3>1 DEF JobsAreJournaled, ApplyJob, TypeOK
  <2>3. CASE StartExecutor
    BY <2>1, <2>2, <2>3 DEF StartExecutor, ApplyStep, ApplyJob, counters, JobsAreJournaled,
        Applying, Executing, TypeOK, Done, Transaction, Run
  <2>4. CASE CheckCopy
    BY <2>1, <2>2, <2>4 DEF CheckCopy, ApplyStep, ApplyJob, counters, data, JobsAreJournaled,
        Applying, Executing, Done, Unchanged, Transaction
  <2>5. CASE Stage
    BY <2>1, <2>2, <2>5 DEF Stage, ApplyStep, ApplyJob, counters, JobsAreJournaled,
        Applying, Executing, Transaction, Done
  <2>6. CASE Activated \/ VerifyTarget \/ WriteReceipt
    BY <2>1, <2>2, <2>6 DEF Activated, VerifyTarget, WriteReceipt, ApplyStep, ApplyJob, counters,
        JobsAreJournaled, Applying, Executing, Transaction, Done
  <2>7. QED
    BY <1>2, <2>3, <2>4, <2>5, <2>6
<1>3. CASE ActivateData \/ ActivateConfig \/ SwitchManifest
  <2>1. job \in ApplyJob \/ job \in RecoverJob
    BY <1>3, JobKinds DEF ActivateData, ActivateConfig, SwitchManifest, Executing, TypeOK
  <2>2. job.run <= runs /\ job.run \in Run /\ runs \in Nat
    <3>1. job # NoJob
      BY <2>1, NothingAssumption DEF Job, ApplyJob, RecoverJob
    <3>2. QED
      BY <2>1, <3>1 DEF JobsAreJournaled, ApplyJob, RecoverJob, TypeOK
  <2>3. PICK to \in Transaction : NextPhase(to)
    BY <1>3 DEF ActivateData, ActivateConfig, SwitchManifest, Transaction
  <2>4. job'.at = to /\ job'.run = job.run /\ job'.cmd = job.cmd /\ job' # NoJob
        /\ (job.cmd = "apply" => job'.source = job.source)
    <3>1. job' \in Job
      BY <2>1, <2>3 DEF NextPhase, ApplyJob, RecoverJob, Job
    <3>2. QED
      BY <2>1, <2>3, <3>1, NothingAssumption DEF NextPhase, ApplyJob, RecoverJob
  <2>5. journal'[job.run] = to /\ \A r \in Run : r # job.run => journal'[r] = journal[r]
    BY <2>2, <2>3 DEF NextPhase, TypeOK
  <2>6. UNCHANGED <<runs, staged>> /\ job # NoJob /\ job.at \in Transaction
    BY <1>3 DEF ActivateData, ActivateConfig, SwitchManifest, executorRest, counters, Executing,
                Transaction
  <2>7. \A r \in Run : r > runs => journal'[r] = "absent"
    BY <2>2, <2>5 DEF JobsAreJournaled, Run
  <2>8. job.cmd = "apply" => staged[job.run] = job.source
    BY <2>6 DEF JobsAreJournaled, Transaction
  <2>9. QED
    BY <2>2, <2>4, <2>5, <2>6, <2>7, <2>8
       DEF JobsAreJournaled, Applying, Executing, Transaction, Done
<1>4. CASE Finalize
  <2>1. job \in ApplyJob \/ job \in RecoverJob
    BY <1>4, JobKinds DEF Finalize, Executing, TypeOK
  <2>2. job.run <= runs /\ job.run \in Run /\ runs \in Nat /\ job # NoJob /\ job.at = "finalize"
    BY <1>4, <2>1 DEF JobsAreJournaled, ApplyJob, RecoverJob, TypeOK, Finalize, Executing
  <2>3. UNCHANGED <<runs, staged>> /\ journal'[job.run] = "committed"
        /\ \A r \in Run : r # job.run => journal'[r] = journal[r]
    BY <1>4, <2>2 DEF Finalize, executorRest, counters, TypeOK
  <2>4. \A r \in Run : r > runs => journal'[r] = "absent"
    BY <2>2, <2>3 DEF JobsAreJournaled, Run
  <2>5. CASE job.cmd = "apply"
    <3>1. job \in ApplyJob
      BY <2>2, <2>5, JobKinds DEF TypeOK
    <3>2. job'.at = "activated" /\ job'.run = job.run /\ job'.source = job.source
          /\ job'.cmd = "apply"
      BY <1>4, <2>5, <3>1 DEF Finalize, ApplyJob
    <3>3. staged[job.run] = job.source
      BY <2>2, <2>5 DEF JobsAreJournaled
    <3>4. QED
      BY <2>2, <2>3, <2>4, <3>2, <3>3 DEF JobsAreJournaled, Applying, Executing, Transaction, Done
  <2>6. CASE job.cmd # "apply"
    <3>1. job' = NoJob
      BY <1>4, <2>6 DEF Finalize
    <3>2. QED
      BY <2>3, <2>4, <3>1 DEF JobsAreJournaled, Applying, Executing, Done
  <2>7. QED
    BY <2>5, <2>6
<1>5. CASE ExecutorFails \/ Complete \/ ApplyFails \/ Kill \/ RemoveConfig \/ Initialize
  BY <1>0, <1>5 DEF ExecutorFails, Complete, ApplyFails, Kill, RemoveConfig, Initialize, data,
                    records, counters
<1>6. ASSUME NEW f \in Files, CopyFile(f) PROVE JobsAreJournaled'
  <2>1. job \in ApplyJob /\ job.run \in Run
    BY <1>6, JobKinds DEF CopyFile, TypeOK, ApplyJob
  <2>2. job'.at = "copy" /\ job'.run = job.run /\ job'.cmd = "apply" /\ journal' = journal
        /\ runs' = runs
    BY <1>6, <2>1 DEF CopyFile, ApplyJob, counters
  <2>3. journal[job.run] = "absent" /\ job.run <= runs
    BY <1>6 DEF CopyFile, JobsAreJournaled, Applying
  <2>4. QED
    BY <2>2, <2>3 DEF JobsAreJournaled, Applying, Executing, Transaction, Done
<1>7. ASSUME NEW r \in Run, Resume(r) PROVE JobsAreJournaled'
  <2>1. r <= runs
    BY <1>7 DEF Resume, Recoverable, JobsAreJournaled, Transaction, TypeOK, Run
  <2>2. QED
    BY <1>7, <2>1 DEF Resume, records, counters, JobsAreJournaled, Applying, Executing, Done
<1>8. ASSUME NEW r \in Run, Rollback(r) PROVE JobsAreJournaled'
  <2>1. ~(r > runs)
    BY <1>8 DEF Rollback, Recoverable, JobsAreJournaled, Transaction
  <2>2. QED
    BY <1>8, <2>1 DEF Rollback, Recoverable, counters, JobsAreJournaled, Applying, Executing,
                      TypeOK, Done
<1>9. CASE BeginCleanup
  BY <1>9 DEF BeginCleanup, records, counters, JobsAreJournaled, Applying, Executing, Done
<1>10. ASSUME NEW f \in Files, RemoveFile(f) \/ Edit(f) PROVE JobsAreJournaled'
  BY <1>0, <1>10, EditFrame DEF RemoveFile, records, counters
<1>11. QED
  BY <1>1, <1>2, <1>3, <1>4, <1>5, <1>6, <1>7, <1>8, <1>9, <1>10 DEF Next, Edit

-----------------------------------------------------------------------------
(* At most one activation that is not finished has data.                     *)

LEMMA WithinNothing == \A b : Within(Empty, b)
BY DEF Within, Present, Empty

LEMMA SomeFile ==
    ASSUME NEW a \in Inventory, a # Empty
    PROVE  \E f \in Files : a[f] # NoFile
BY DEF Empty, Inventory

LEMMA WithinSomething ==
    ASSUME NEW a \in Inventory, a # Empty, NEW b, Within(a, b)
    PROVE  b # Empty
BY SomeFile DEF Within, Present, Empty

LEMMA WithinEmpty ==
    ASSUME NEW a \in Inventory, Within(a, Empty)
    PROVE  a = Empty
BY WithinSomething

\* An edit takes nothing away from the canonical files.
LEMMA EditGrows ==
    ASSUME TypeOK, EditsKnown, NEW f \in Files, Edit(f)
    PROVE  \A g \in Files : canon[g] # NoFile => canon'[g] # NoFile /\ canon[g] \subseteq canon'[g]
<1>1. PICK e \in Edits : ChangeLegacy(f, e) \/ ChangeCanonical(f, e)
  BY EditKinds
<1>2. canon' = canon \/ canon' = With(canon, f, e)
  BY <1>1 DEF ChangeLegacy, ChangeCanonical
<1>3. QED
  BY <1>2, WithEdit DEF TypeOK, Holds

LEMMA ActiveInit == Init => OneIsActive
BY DEF Init, OneIsActive, Pending, Applying, Activating, Transaction

\* No activation is taken up behind a receipt, unless of a migration of nothing.
LEMMA ActivateBehind ==
    ASSUME TypeOK, JobsAreJournaled, ReplacedStands, ReceiptsAreCommitted, ActivateData,
           receipt # NoReceipt
    PROVE  receipt.source = Empty
<1>1. job.run \in Run /\ canon = before[job.run] /\ journal[job.run] = "data"
  BY JobKinds DEF ActivateData, Executing, AsPlanned, TypeOK, ApplyJob, RecoverJob,
                  JobsAreJournaled, Transaction
<1>2. CASE before[job.run] # Empty
  BY <1>1, <1>2 DEF ReplacedStands, Replaces, NothingActive
<1>3. CASE before[job.run] = Empty
  <2>1. receipt.source \in Inventory
    BY DEF TypeOK
  <2>2. Within(receipt.source, Empty)
    BY <1>1, <1>3 DEF ReceiptsAreCommitted, ReceiptIsTrue, Within
  <2>3. QED
    BY <2>1, <2>2, WithinEmpty
<1>4. QED
  BY <1>2, <1>3

\* Nor is one taken back.
LEMMA RollbackBehind ==
    ASSUME TypeOK, OneIsActive, ReceiptsAreCommitted, NEW r \in Run, Rollback(r),
           journal[r] # "data", receipt # NoReceipt
    PROVE  receipt.source = Empty
<1> SUFFICES ASSUME receipt.source # Empty PROVE FALSE
  OBVIOUS
<1>1. Pending(r) /\ canon = staged[r]
  BY DEF Rollback, Recoverable, Pending, Activating
<1>2. canon = Empty
  BY <1>1 DEF OneIsActive
<1>3. receipt.source \in Inventory
  BY DEF TypeOK
<1>4. Within(receipt.source, canon)
  BY DEF ReceiptsAreCommitted, ReceiptIsTrue, Within
<1>5. QED
  BY <1>2, <1>3, <1>4, WithinSomething

LEMMA ActiveFrame ==
    ASSUME OneIsActive,
           \A r \in Run : Pending(r)' => Pending(r) /\ staged'[r] = staged[r],
           \A f \in Files : canon[f] # NoFile => canon'[f] # NoFile /\ canon[f] \subseteq canon'[f],
           receipt' = receipt,
           Applying(Activating)' => Applying(Activating) /\ job'.run = job.run,
           Applying(Done)' => Applying(Done)
    PROVE  OneIsActive'
<1>1. \A r \in Run : Pending(r)' => Within(staged'[r], canon')
  <2> SUFFICES ASSUME NEW r \in Run, Pending(r)' PROVE Within(staged'[r], canon')
    OBVIOUS
  <2>1. Within(staged[r], canon) /\ staged'[r] = staged[r]
    BY DEF OneIsActive
  <2>2. QED
    BY <2>1 DEF Within, Present
<1>2. QED
  BY <1>1 DEF OneIsActive, Within, Present

LEMMA ActiveStep ==
    ASSUME TypeOK, EditsKnown, ReplacedStands, JobsAreJournaled, OneIsActive,
           ReceiptsAreCommitted, Next
    PROVE  OneIsActive'
<1>0. ASSUME UNCHANGED <<journal, staged, canon, receipt>>,
             job' = NoJob \/ job' = job \/ job'.cmd # "apply"
                \/ job'.at \notin Activating \cup Done
      PROVE  OneIsActive'
  <2>1. Applying(Activating)' => Applying(Activating) /\ job'.run = job.run
    BY <1>0 DEF Applying
  <2>2. Applying(Done)' => Applying(Done)
    BY <1>0 DEF Applying
  <2>3. \A r \in Run : Pending(r)' => Pending(r)
    BY <1>0 DEF Pending
  <2>4. QED
    BY <1>0, <2>1, <2>2, <2>3, ActiveFrame
<1>1. CASE BeginApply \/ Stage \/ CheckCopy \/ BeginCleanup
  <2>1. job' # NoJob /\ job'.cmd = "apply" => job'.at \in {"stage", "copy", "activate"}
    BY <1>1 DEF BeginApply, Stage, CheckCopy, BeginCleanup, ApplyStep, TypeOK, Job
  <2>2. QED
    BY <1>0, <1>1, <2>1 DEF BeginApply, Stage, CheckCopy, BeginCleanup, ApplyStep, data, records,
        Activating, Transaction, Done
<1>2. CASE StartExecutor
  <2>1. job \in ApplyJob
    BY <1>2, JobKinds DEF StartExecutor, ApplyStep, TypeOK
  <2>2. job'.at = "data"
    BY <1>2, <2>1 DEF StartExecutor, ApplyStep, ApplyJob
  <2>3. \A r \in Run : Pending(r)' => Pending(r) /\ staged'[r] = staged[r]
    BY <1>2, <2>1 DEF StartExecutor, Pending, ApplyJob, TypeOK, Activating
  <2>4. QED
    BY <1>2, <2>2, <2>3, ActiveFrame DEF StartExecutor, data, Applying, Activating, Done
<1>3. CASE ActivateData
  <2>1. job.run \in Run /\ canon = before[job.run] /\ canon' = staged[job.run] /\ job # NoJob
        /\ (job \in ApplyJob \/ job \in RecoverJob)
    BY <1>3, JobKinds DEF ActivateData, Executing, AsPlanned, TypeOK, ApplyJob, RecoverJob
  <2>2. /\ UNCHANGED <<staged, receipt>> /\ job'.run = job.run /\ job'.at = "config"
        /\ \A r \in Run \ {job.run} : journal'[r] = journal[r]
    BY <1>3, <2>1 DEF ActivateData, NextPhase, executorRest, TypeOK, ApplyJob, RecoverJob
  <2>3. \A r \in Run \ {job.run} : Pending(r) => staged[r] = Empty
    <3>1. journal[job.run] = "data"
      BY <1>3, <2>1 DEF JobsAreJournaled, ActivateData, Executing, Transaction
    <3>2. CASE before[job.run] # Empty
      BY <2>1, <3>1, <3>2 DEF ReplacedStands, Replaces, NothingActive
    <3>3. CASE before[job.run] = Empty
      <4> SUFFICES ASSUME NEW r \in Run, Pending(r) PROVE staged[r] = Empty
        OBVIOUS
      <4>1. Within(staged[r], Empty) /\ staged[r] \in Inventory
        BY <2>1, <3>3 DEF OneIsActive, TypeOK
      <4>2. QED
        BY <4>1, WithinEmpty
    <3>4. QED
      BY <3>2, <3>3
  <2>4. receipt # NoReceipt => receipt.source = Empty
    BY <1>3, ActivateBehind
  <2>5. \A r \in Run \ {job.run} : Pending(r)' => staged'[r] = Empty
    BY <2>2, <2>3 DEF Pending
  <2>6. \A r \in Run : Pending(r)' => Within(staged'[r], canon')
    <3>1. Within(staged[job.run], staged[job.run])
      BY DEF Within, Present
    <3>2. QED
      BY <2>1, <2>2, <2>5, <3>1, WithinNothing
  <2>7. QED
    BY <2>2, <2>4, <2>5, <2>6 DEF OneIsActive, Applying, Done
<1>4. CASE ActivateConfig \/ SwitchManifest
  <2>1. /\ job # NoJob /\ job.run \in Run /\ job.at \in {"config", "manifest"}
        /\ (job \in ApplyJob \/ job \in RecoverJob)
    BY <1>4, JobKinds DEF ActivateConfig, SwitchManifest, Executing, TypeOK, ApplyJob, RecoverJob
  <2>2. journal[job.run] = job.at
    BY <1>4, <2>1 DEF JobsAreJournaled, ActivateConfig, SwitchManifest, Executing, Transaction
  <2>3. /\ job'.at \in {"manifest", "finalize"} /\ job'.run = job.run /\ job'.cmd = job.cmd
        /\ \A r \in Run \ {job.run} : journal'[r] = journal[r]
    BY <1>4, <2>1 DEF ActivateConfig, SwitchManifest, NextPhase, ApplyJob, RecoverJob, TypeOK
  <2>4. \A r \in Run : Pending(r)' => Pending(r)
    BY <2>1, <2>2, <2>3 DEF Pending, Activating, Transaction
  <2>5. Applying(Activating)' => Applying(Activating) /\ job'.run = job.run
    BY <2>1, <2>3 DEF Applying, Activating, Transaction
  <2>6. ~Applying(Done)'
    BY <2>3 DEF Applying, Done
  <2>7. QED
    BY <1>4, <2>4, <2>5, <2>6, ActiveFrame DEF ActivateConfig, SwitchManifest, executorRest
<1>5. CASE Finalize
  <2>1. /\ job # NoJob /\ job.run \in Run /\ job.at = "finalize"
        /\ (job \in ApplyJob \/ job \in RecoverJob)
    BY <1>5, JobKinds DEF Finalize, Executing, TypeOK, ApplyJob, RecoverJob
  <2>2. /\ UNCHANGED <<staged, canon, receipt>> /\ journal'[job.run] = "committed"
        /\ \A r \in Run \ {job.run} : journal'[r] = journal[r]
    BY <1>5, <2>1 DEF Finalize, executorRest, TypeOK
  <2>3. \A r \in Run : Pending(r)' => Pending(r) /\ r # job.run
    BY <2>1, <2>2 DEF Pending, Activating, Transaction
  <2>4. CASE job.cmd = "apply"
    <3>1. job \in ApplyJob /\ Applying(Activating)
      BY <2>1, <2>4, JobKinds DEF Applying, Activating, Transaction, TypeOK
    <3>2. job'.at = "activated"
      BY <1>5, <2>4, <3>1 DEF Finalize, ApplyJob
    <3>3. \A r \in Run : Pending(r)' => staged'[r] = Empty
      BY <2>2, <2>3, <3>1 DEF OneIsActive
    <3>4. QED
      BY <3>2, <3>3, WithinNothing DEF OneIsActive, Applying, Activating, Transaction
  <2>5. CASE job.cmd # "apply"
    <3>1. job' = NoJob
      BY <1>5, <2>5 DEF Finalize
    <3>2. QED
      BY <2>2, <2>3, <3>1, ActiveFrame DEF Applying
  <2>6. QED
    BY <2>4, <2>5
<1>6. CASE ExecutorFails \/ Complete \/ ApplyFails \/ Kill \/ RemoveConfig \/ Initialize
  BY <1>0, <1>6 DEF ExecutorFails, Complete, ApplyFails, Kill, RemoveConfig, Initialize, data,
                    records
<1>7. CASE Activated \/ VerifyTarget \/ WriteReceipt
  <2>1. job \in ApplyJob /\ Applying(Done)
    BY <1>7, JobKinds DEF Activated, VerifyTarget, WriteReceipt, ApplyStep, TypeOK, Applying, Done
  <2>2. job'.at \in Done /\ UNCHANGED <<journal, staged, canon>>
    BY <1>7, <2>1 DEF Activated, VerifyTarget, WriteReceipt, ApplyStep, ApplyJob, data, Done
  <2>3. \A r \in Run : Pending(r)' => staged'[r] = Empty
    BY <2>1, <2>2 DEF OneIsActive, Pending
  <2>4. QED
    BY <2>2, <2>3, WithinNothing DEF OneIsActive, Applying, Activating, Transaction, Done
<1>8. ASSUME NEW f \in Files, CopyFile(f) PROVE OneIsActive'
  <2>1. job \in ApplyJob /\ journal[job.run] = "absent"
    BY <1>8, JobKinds DEF CopyFile, TypeOK, JobsAreJournaled, Applying
  <2>2. \A r \in Run : Pending(r)' => Pending(r) /\ staged'[r] = staged[r]
    BY <1>8, <2>1 DEF CopyFile, Pending, Activating, Transaction, ApplyJob, TypeOK
  <2>3. job'.at = "copy"
    BY <1>8, <2>1 DEF CopyFile, ApplyJob
  <2>4. QED
    BY <1>8, <2>2, <2>3, ActiveFrame DEF CopyFile, data, Applying, Activating, Transaction, Done
<1>9. ASSUME NEW r \in Run, Resume(r) PROVE OneIsActive'
  BY <1>0, <1>9 DEF Resume, data, records
<1>10. ASSUME NEW r \in Run, Rollback(r) PROVE OneIsActive'
  <2>1. /\ UNCHANGED <<staged, receipt, job>> /\ job = NoJob /\ ~Pending(r)'
        /\ \A s \in Run \ {r} : journal'[s] = journal[s]
    BY <1>10 DEF Rollback, Recoverable, TypeOK, Pending, Activating, Transaction
  <2>2. \A s \in Run : Pending(s)' => Pending(s) /\ s # r
    BY <2>1 DEF Pending
  <2>3. CASE journal[r] = "data"
    BY <1>10, <2>1, <2>2, <2>3, ActiveFrame DEF Rollback, Applying
  <2>4. CASE journal[r] # "data"
    <3>1. Pending(r) /\ canon = staged[r]
      BY <1>10, <2>4 DEF Rollback, Recoverable, Pending, Activating
    <3>2. \A s \in Run \ {r} : Pending(s) => staged[s] = Empty
      <4> SUFFICES ASSUME NEW s \in Run \ {r}, Pending(s), staged[s] # Empty PROVE FALSE
        OBVIOUS
      <4>1. Within(staged[s], staged[r]) /\ staged[s] \in Inventory
        BY <3>1 DEF OneIsActive, TypeOK
      <4>2. staged[r] # Empty
        BY <4>1, WithinSomething
      <4>3. QED
        BY <3>1, <4>2 DEF OneIsActive
    <3>3. \A s \in Run : Pending(s)' => staged'[s] = Empty
      BY <2>1, <2>2, <3>2
    <3>4. QED
      BY <2>1, <3>3, WithinNothing DEF OneIsActive, Applying
  <2>5. QED
    BY <2>3, <2>4
<1>11. ASSUME NEW f \in Files, RemoveFile(f) PROVE OneIsActive'
  BY <1>0, <1>11 DEF RemoveFile, records
<1>12. ASSUME NEW f \in Files, Edit(f) PROVE OneIsActive'
  <2>1. UNCHANGED <<journal, staged, receipt, job>>
    BY <1>12, EditFrame
  <2>2. QED
    BY <1>12, <2>1, EditGrows, ActiveFrame DEF Pending, Applying
<1>13. QED
  BY <1>1, <1>2, <1>3, <1>4, <1>5, <1>6, <1>7, <1>8, <1>9, <1>10, <1>11, <1>12
     DEF Next, Edit

-----------------------------------------------------------------------------
(* Receipts.                                                                 *)

\* What a step does to the journals of ledgercore and to the job.
LEMMA CommittedStays ==
    ASSUME TypeOK, JobsAreJournaled, Next
    PROVE  \A r \in Run : journal[r] = "committed" =>
                journal'[r] = "committed" /\ staged'[r] = staged[r]
<1>1. CASE UNCHANGED <<journal, staged>>
  BY <1>1
<1>2. CASE StartExecutor
  <2>1. job \in ApplyJob /\ journal[job.run] = "absent"
    BY <1>2, JobKinds DEF StartExecutor, ApplyStep, TypeOK, JobsAreJournaled, Applying
  <2>2. QED
    BY <1>2, <2>1 DEF StartExecutor, ApplyJob, TypeOK
<1>3. CASE ActivateData \/ ActivateConfig \/ SwitchManifest \/ Finalize
  <2>1. /\ job.run \in Run /\ journal[job.run] = job.at /\ job.at # "committed"
        /\ (job \in ApplyJob \/ job \in RecoverJob)
    BY <1>3, JobKinds DEF ActivateData, ActivateConfig, SwitchManifest, Finalize, Executing, TypeOK,
        ApplyJob, RecoverJob, JobsAreJournaled, Transaction
  <2>2. staged' = staged /\ \A r \in Run \ {job.run} : journal'[r] = journal[r]
    BY <1>3, <2>1 DEF ActivateData, ActivateConfig, SwitchManifest, Finalize, NextPhase,
                      executorRest, TypeOK
  <2>3. QED
    BY <2>1, <2>2
<1>4. ASSUME NEW f \in Files, CopyFile(f)
      PROVE  \A r \in Run : journal[r] = "committed" =>
                journal'[r] = "committed" /\ staged'[r] = staged[r]
  <2>1. job \in ApplyJob /\ journal[job.run] = "absent"
    BY <1>4, JobKinds DEF CopyFile, TypeOK, JobsAreJournaled, Applying
  <2>2. QED
    BY <1>4, <2>1 DEF CopyFile, ApplyJob, TypeOK
<1>5. ASSUME NEW r \in Run, Rollback(r)
      PROVE  \A s \in Run : journal[s] = "committed" =>
                journal'[s] = "committed" /\ staged'[s] = staged[s]
  BY <1>5 DEF Rollback, Recoverable, TypeOK, Transaction
<1>6. CASE BeginApply \/ Stage \/ CheckCopy \/ ExecutorFails \/ Activated \/ VerifyTarget
           \/ WriteReceipt \/ Complete \/ ApplyFails \/ BeginCleanup \/ RemoveConfig
           \/ Initialize \/ Kill
  BY <1>1, <1>6 DEF BeginApply, Stage, CheckCopy, ExecutorFails, Activated, VerifyTarget,
        WriteReceipt, Complete, ApplyFails, BeginCleanup, RemoveConfig, Initialize, Kill,
        data, records
<1>7. CASE (\E r \in Run : Resume(r))
           \/ (\E f \in Files : RemoveFile(f) \/ Edit(f))
  BY <1>1, <1>7, EditFrame DEF Resume, RemoveFile, records
<1>8. QED
  BY <1>2, <1>3, <1>4, <1>5, <1>6, <1>7 DEF Next, Edit

\* An apply keeps what it migrates, and goes to its receipt by one step.
LEMMA ApplySource ==
    ASSUME TypeOK, Next, job' # NoJob, job'.cmd = "apply", ~BeginApply
    PROVE  /\ job # NoJob /\ job.cmd = "apply" /\ job'.source = job.source
           /\ job'.run = job.run
           /\ job'.at = "receipt" => job.at = "receipt" \/ VerifyTarget
<1>0. CASE job' = job
  BY <1>0
<1>1. ASSUME NEW to, job \in ApplyJob, job' = [job EXCEPT !.at = to], job # NoJob,
             to = "receipt" => VerifyTarget
      PROVE  /\ job # NoJob /\ job.cmd = "apply" /\ job'.source = job.source
             /\ job'.run = job.run
             /\ job'.at = "receipt" => job.at = "receipt" \/ VerifyTarget
  BY <1>1 DEF ApplyJob
<1>2. CASE Stage \/ CheckCopy \/ StartExecutor \/ Activated \/ VerifyTarget \/ WriteReceipt
  <2>1. job \in ApplyJob /\ job # NoJob
    BY <1>2, JobKinds DEF Stage, CheckCopy, StartExecutor, Activated, VerifyTarget, WriteReceipt,
                          ApplyStep, TypeOK
  <2>2. CASE VerifyTarget
    BY <1>1, <2>1, <2>2 DEF VerifyTarget, ApplyStep
  <2>3. CASE Stage \/ CheckCopy \/ StartExecutor \/ Activated \/ WriteReceipt
    BY <1>1, <2>1, <2>3 DEF Stage, CheckCopy, StartExecutor, Activated, WriteReceipt, ApplyStep
  <2>4. QED
    BY <1>2, <2>2, <2>3
<1>3. CASE ActivateData \/ ActivateConfig \/ SwitchManifest \/ Finalize
  <2>1. (job \in ApplyJob \/ job \in RecoverJob) /\ job # NoJob
    BY <1>3, JobKinds DEF ActivateData, ActivateConfig, SwitchManifest, Finalize, Executing, TypeOK
  <2>2. PICK to \in Transaction \cup {"activated"} : job' = [job EXCEPT !.at = to]
    BY <1>3 DEF ActivateData, ActivateConfig, SwitchManifest, Finalize, NextPhase, Transaction
  <2>3. job \in ApplyJob
    BY <2>1, <2>2 DEF ApplyJob, RecoverJob
  <2>4. QED
    BY <1>1, <2>1, <2>2, <2>3 DEF Transaction
<1>4. ASSUME NEW f \in Files, CopyFile(f)
      PROVE  /\ job # NoJob /\ job.cmd = "apply" /\ job'.source = job.source
             /\ job'.run = job.run
             /\ job'.at = "receipt" => job.at = "receipt" \/ VerifyTarget
  BY <1>4, JobKinds DEF CopyFile, ApplyJob, TypeOK
<1>5. CASE (\E r \in Run : Rollback(r))
           \/ (\E f \in Files : RemoveFile(f) \/ Edit(f)) \/ Initialize
  BY <1>0, <1>5, EditFrame DEF Rollback, RemoveFile, Initialize
<1>6. CASE ExecutorFails \/ Complete \/ ApplyFails \/ Kill \/ RemoveConfig \/ BeginCleanup
           \/ (\E r \in Run : Resume(r))
  BY <1>6 DEF ExecutorFails, Complete, ApplyFails, Kill, RemoveConfig, BeginCleanup, Resume
<1>7. QED
  BY <1>2, <1>3, <1>4, <1>5, <1>6 DEF Next, Edit

LEMMA ReceiptInit == Init => ReceiptsAreCommitted
BY DEF Init, ReceiptsAreCommitted, ReceiptIsTrue, Applying

LEMMA ReceiptFrame ==
    ASSUME TypeOK, JobsAreJournaled, ReceiptsAreCommitted, Next, ~BeginApply, ~VerifyTarget,
           receipt' = receipt,
           \A f \in Files : canon[f] # NoFile => canon'[f] # NoFile /\ canon[f] \subseteq canon'[f]
    PROVE  ReceiptsAreCommitted'
<1>1. receipt # NoReceipt => \E r \in Run : receipt.source = staged'[r] /\ journal'[r] = "committed"
  BY CommittedStays DEF ReceiptsAreCommitted
<1>2. Applying({"receipt"})' => Applying({"receipt"}) /\ job'.source = job.source
  BY ApplySource DEF Applying
<1>3. Applying({"receipt"})' => Within(job'.source, canon')
  BY <1>2 DEF ReceiptsAreCommitted, Within, Present
<1>4. receipt # NoReceipt => \A f \in Present(receipt.source) :
          canon'[f] # NoFile /\ receipt.source[f] \subseteq canon'[f]
  BY DEF ReceiptsAreCommitted, ReceiptIsTrue, Present
<1>5. QED
  BY <1>1, <1>3, <1>4 DEF ReceiptsAreCommitted, ReceiptIsTrue, Within

\* A receipt of a migration of nothing is true of any files.
LEMMA NothingReceipt ==
    ASSUME TypeOK, JobsAreJournaled, ReceiptsAreCommitted, Next, receipt' = receipt,
           receipt # NoReceipt => receipt.source = Empty, ~Applying({"receipt"})'
    PROVE  ReceiptsAreCommitted'
<1>1. receipt # NoReceipt => \E r \in Run : receipt.source = staged'[r] /\ journal'[r] = "committed"
  BY CommittedStays DEF ReceiptsAreCommitted
<1>2. receipt # NoReceipt => Present(receipt.source) = {}
  BY DEF Present, Empty
<1>3. QED
  BY <1>1, <1>2 DEF ReceiptsAreCommitted, ReceiptIsTrue

LEMMA ReceiptStep ==
    ASSUME TypeOK, EditsKnown, ReplacedStands, JobsAreJournaled, OneIsActive,
           ReceiptsAreCommitted, Next
    PROVE  ReceiptsAreCommitted'
<1>0. ASSUME UNCHANGED <<canon, receipt>>, ~BeginApply, ~VerifyTarget PROVE ReceiptsAreCommitted'
  BY <1>0, ReceiptFrame
<1>1. CASE BeginApply
  BY <1>1 DEF BeginApply, data, records, ReceiptsAreCommitted, ReceiptIsTrue, Applying, Within
<1>2. CASE VerifyTarget
  <2>1. job \in ApplyJob /\ canon = job.source
    BY <1>2, JobKinds DEF VerifyTarget, ApplyStep, TypeOK, TargetPreserved
  <2>2. job'.source = job.source
    BY <1>2, <2>1 DEF VerifyTarget, ApplyStep, ApplyJob
  <2>3. Within(job'.source, canon)
    BY <2>1, <2>2 DEF Within, Present
  <2>4. QED
    BY <1>2, <2>3 DEF VerifyTarget, data, ReceiptsAreCommitted, ReceiptIsTrue, Applying, Within
<1>3. CASE WriteReceipt
  <2>1. job \in ApplyJob /\ job # NoJob /\ job.at = "receipt"
    BY <1>3, JobKinds DEF WriteReceipt, ApplyStep, TypeOK
  <2>2. job'.at = "complete" /\ UNCHANGED <<journal, staged, canon>>
        /\ receipt' = [source |-> job.source, target |-> job.source]
    BY <1>3, <2>1 DEF WriteReceipt, ApplyStep, ApplyJob, data
  <2>3. staged[job.run] = job.source /\ journal[job.run] = "committed" /\ job.run \in Run
    BY <2>1 DEF JobsAreJournaled, Applying, Done, ApplyJob
  <2>4. Within(job.source, canon)
    BY <2>1 DEF ReceiptsAreCommitted, Applying, ApplyJob
  <2>5. QED
    BY <2>2, <2>3, <2>4 DEF ReceiptsAreCommitted, ReceiptIsTrue, Applying, Within, Present
<1>4. CASE ActivateData
  <2>1. job \in ApplyJob \/ job \in RecoverJob
    BY <1>4, JobKinds DEF ActivateData, Executing, TypeOK
  <2>2. job'.at = "config" /\ receipt' = receipt
    BY <1>4, <2>1 DEF ActivateData, NextPhase, executorRest, ApplyJob, RecoverJob
  <2>3. QED
    BY <1>4, <2>2, ActivateBehind, NothingReceipt DEF Applying
<1>5. ASSUME NEW r \in Run, Rollback(r) PROVE ReceiptsAreCommitted'
  <2>1. job' = NoJob /\ receipt' = receipt /\ ~BeginApply /\ ~VerifyTarget
    BY <1>5 DEF Rollback, Recoverable, BeginApply, VerifyTarget, ApplyStep, Transaction, records,
                TypeOK
  <2>2. CASE journal[r] = "data"
    BY <1>0, <1>5, <2>1, <2>2 DEF Rollback
  <2>3. CASE journal[r] # "data"
    BY <1>5, <2>1, <2>3, RollbackBehind, NothingReceipt DEF Applying
  <2>4. QED
    BY <2>2, <2>3
<1>6. ASSUME NEW f \in Files, Edit(f) PROVE ReceiptsAreCommitted'
  <2>1. UNCHANGED <<receipt, runs, phase>>
    BY <1>6, EditFrame
  <2>2. ~BeginApply
    BY <2>1 DEF BeginApply, TypeOK
  <2>3. ~VerifyTarget
    <3>1. job' = job
      BY <1>6, EditFrame
    <3>2. QED
      BY <3>1, JobKinds DEF VerifyTarget, ApplyStep, TypeOK, ApplyJob
  <2>4. QED
    BY <1>6, <2>1, <2>2, <2>3, EditGrows, ReceiptFrame
<1>7. CASE ~BeginApply /\ ~VerifyTarget /\ UNCHANGED <<canon, receipt>>
  BY <1>0, <1>7
<1>8. CASE Stage \/ CheckCopy \/ StartExecutor \/ ActivateConfig \/ SwitchManifest \/ Finalize
           \/ ExecutorFails \/ Activated \/ Complete \/ ApplyFails \/ BeginCleanup
           \/ RemoveConfig \/ Initialize \/ Kill
  <2>1. UNCHANGED <<canon, receipt>>
    BY <1>8 DEF Stage, CheckCopy, StartExecutor, ActivateConfig, SwitchManifest, Finalize,
        ExecutorFails, Activated, Complete, ApplyFails, BeginCleanup, RemoveConfig,
        Initialize, Kill, executorRest, data, records
  <2>2. QED
    BY <1>1, <1>2, <1>7, <2>1
<1>9. CASE (\E f \in Files : CopyFile(f) \/ RemoveFile(f))
           \/ (\E r \in Run : Resume(r))
  <2>1. UNCHANGED <<canon, receipt>>
    BY <1>9 DEF CopyFile, RemoveFile, Resume, data, records
  <2>2. QED
    BY <1>1, <1>2, <1>7, <2>1
<1>10. QED
  BY <1>1, <1>2, <1>3, <1>4, <1>5, <1>6, <1>8, <1>9 DEF Next, Edit

-----------------------------------------------------------------------------
(* What may still be replaced stands.                                        *)

\* Only the executor makes an activation that can be rolled back.
LEMMA PendingShrinks ==
    ASSUME TypeOK, JobsAreJournaled, Next, ~ActivateData
    PROVE  \A r \in Run : Pending(r)' => Pending(r) /\ staged'[r] = staged[r]
<1>1. CASE UNCHANGED <<journal, staged>>
  BY <1>1 DEF Pending
<1>2. CASE StartExecutor
  BY <1>2, JobKinds DEF StartExecutor, ApplyStep, TypeOK, ApplyJob, Pending, Activating
<1>3. CASE ActivateConfig \/ SwitchManifest \/ Finalize
  <2>1. /\ job.run \in Run /\ Pending(job.run)
        /\ (job \in ApplyJob \/ job \in RecoverJob)
    BY <1>3, JobKinds DEF ActivateConfig, SwitchManifest, Finalize, Executing, TypeOK,
        ApplyJob, RecoverJob, JobsAreJournaled, Transaction, Pending, Activating
  <2>2. staged' = staged /\ \A r \in Run \ {job.run} : journal'[r] = journal[r]
    BY <1>3, <2>1 DEF ActivateConfig, SwitchManifest, Finalize, NextPhase, executorRest, TypeOK
  <2>3. QED
    BY <2>1, <2>2 DEF Pending
<1>4. ASSUME NEW f \in Files, CopyFile(f)
      PROVE  \A r \in Run : Pending(r)' => Pending(r) /\ staged'[r] = staged[r]
  <2>1. job \in ApplyJob /\ journal[job.run] = "absent"
    BY <1>4, JobKinds DEF CopyFile, TypeOK, JobsAreJournaled, Applying
  <2>2. QED
    BY <1>4, <2>1 DEF CopyFile, ApplyJob, TypeOK, Pending, Activating, Transaction
<1>5. ASSUME NEW r \in Run, Rollback(r)
      PROVE  \A s \in Run : Pending(s)' => Pending(s) /\ staged'[s] = staged[s]
  BY <1>5 DEF Rollback, TypeOK, Pending, Activating, Transaction
<1>6. CASE BeginApply \/ Stage \/ CheckCopy \/ ExecutorFails \/ Activated \/ VerifyTarget
           \/ WriteReceipt \/ Complete \/ ApplyFails \/ BeginCleanup \/ RemoveConfig
           \/ Initialize \/ Kill
  BY <1>1, <1>6 DEF BeginApply, Stage, CheckCopy, ExecutorFails, Activated, VerifyTarget,
        WriteReceipt, Complete, ApplyFails, BeginCleanup, RemoveConfig, Initialize, Kill,
        data, records
<1>7. CASE (\E r \in Run : Resume(r))
           \/ (\E f \in Files : RemoveFile(f) \/ Edit(f))
  BY <1>1, <1>7, EditFrame DEF Resume, RemoveFile, records
<1>8. QED
  BY <1>2, <1>3, <1>4, <1>5, <1>6, <1>7 DEF Next, Edit

LEMMA CleaningStays ==
    ASSUME TypeOK, Next, ~BeginCleanup, Cleaning'
    PROVE  Cleaning
<1>1. job' # NoJob /\ job'.cmd = "cleanup"
  BY DEF Cleaning
<1>2. CASE job' = job
  BY <1>1, <1>2 DEF Cleaning
<1>3. ASSUME NEW to, job \in ApplyJob \/ job \in RecoverJob, job' = [job EXCEPT !.at = to]
      PROVE  FALSE
  BY <1>1, <1>3 DEF ApplyJob, RecoverJob
<1>4. CASE Stage \/ CheckCopy \/ StartExecutor \/ Activated \/ VerifyTarget \/ WriteReceipt
  BY <1>3, <1>4, JobKinds DEF Stage, CheckCopy, StartExecutor, Activated, VerifyTarget,
     WriteReceipt, ApplyStep, TypeOK
<1>5. CASE ActivateData \/ ActivateConfig \/ SwitchManifest \/ Finalize
  <2>1. job \in ApplyJob \/ job \in RecoverJob
    BY <1>5, JobKinds DEF ActivateData, ActivateConfig, SwitchManifest, Finalize, Executing, TypeOK
  <2>2. QED
    BY <1>1, <1>3, <1>5, <2>1 DEF ActivateData, ActivateConfig, SwitchManifest, Finalize, NextPhase
<1>6. ASSUME NEW f \in Files, CopyFile(f) PROVE FALSE
  BY <1>1, <1>6, JobKinds DEF CopyFile, ApplyJob, TypeOK
<1>7. CASE BeginApply \/ (\E r \in Run : Resume(r)) \/ ExecutorFails \/ Complete \/ ApplyFails
           \/ Kill \/ RemoveConfig
  BY <1>1, <1>7 DEF BeginApply, Resume, ExecutorFails, Complete, ApplyFails, Kill, RemoveConfig
<1>8. CASE (\E r \in Run : Rollback(r))
           \/ (\E f \in Files : RemoveFile(f) \/ Edit(f)) \/ Initialize
  BY <1>2, <1>8, EditFrame DEF Rollback, RemoveFile, Initialize
<1>9. QED
  BY <1>4, <1>5, <1>6, <1>7, <1>8 DEF Next, Edit

\* Only the check of a copy makes data that may be replaced.
LEMMA ReplacesShrinks ==
    ASSUME TypeOK, JobsAreJournaled, Next, ~CheckCopy
    PROVE  before' = before /\ \A r \in Run : Replaces(r)' => Replaces(r)
<1>0. ASSUME UNCHANGED <<journal, before>>, ~Applying({"activate"})' \/ job' = job
      PROVE  before' = before /\ \A r \in Run : Replaces(r)' => Replaces(r)
  BY <1>0 DEF Replaces, Applying
<1>1. CASE Stage \/ Activated \/ VerifyTarget \/ WriteReceipt
  <2>1. job \in ApplyJob
    BY <1>1, JobKinds DEF Stage, Activated, VerifyTarget, WriteReceipt, ApplyStep, TypeOK
  <2>2. job'.at # "activate"
    BY <1>1, <2>1 DEF Stage, Activated, VerifyTarget, WriteReceipt, ApplyStep, ApplyJob
  <2>3. QED
    BY <1>0, <1>1, <2>2 DEF Stage, Activated, VerifyTarget, WriteReceipt, Applying
<1>2. CASE StartExecutor
  <2>1. job \in ApplyJob /\ Applying({"activate"}) /\ before' = before
    BY <1>2, JobKinds DEF StartExecutor, ApplyStep, TypeOK, Applying
  <2>2. job'.at = "data" /\ \A r \in Run \ {job.run} : journal'[r] = journal[r]
    BY <1>2, <2>1 DEF StartExecutor, ApplyStep, ApplyJob, TypeOK
  <2>3. QED
    BY <2>1, <2>2 DEF Replaces, Applying
<1>3. CASE ActivateData \/ ActivateConfig \/ SwitchManifest \/ Finalize
  <2>1. job.run \in Run /\ (job \in ApplyJob \/ job \in RecoverJob)
    BY <1>3, JobKinds DEF ActivateData, ActivateConfig, SwitchManifest, Finalize, Executing,
                          TypeOK, ApplyJob, RecoverJob
  <2>2. /\ before' = before
        /\ \A r \in Run : journal'[r] = journal[r] \/ journal'[r] # "data"
    BY <1>3, <2>1 DEF ActivateData, ActivateConfig, SwitchManifest, Finalize, NextPhase,
                      executorRest, TypeOK
  <2>3. job' = NoJob \/ job'.at # "activate"
    BY <1>3, <2>1 DEF ActivateData, ActivateConfig, SwitchManifest, Finalize, NextPhase,
                      ApplyJob, RecoverJob
  <2>4. QED
    BY <2>2, <2>3 DEF Replaces, Applying
<1>4. ASSUME NEW f \in Files, CopyFile(f)
      PROVE  before' = before /\ \A r \in Run : Replaces(r)' => Replaces(r)
  <2>1. job'.at = "copy"
    BY <1>4, JobKinds DEF CopyFile, TypeOK, ApplyJob
  <2>2. QED
    BY <1>0, <1>4, <2>1 DEF CopyFile, Applying
<1>5. ASSUME NEW r \in Run, Rollback(r)
      PROVE  before' = before /\ \A s \in Run : Replaces(s)' => Replaces(s)
  <2>1. /\ UNCHANGED <<before, job>>
        /\ \A s \in Run : journal'[s] = journal[s] \/ journal'[s] # "data"
    BY <1>5 DEF Rollback, TypeOK
  <2>2. QED
    BY <2>1 DEF Replaces, Applying
<1>6. CASE BeginApply \/ BeginCleanup \/ (\E r \in Run : Resume(r))
  BY <1>0, <1>6 DEF BeginApply, BeginCleanup, Resume, records, Applying
<1>7. CASE ExecutorFails \/ Complete \/ ApplyFails \/ RemoveConfig \/ Initialize \/ Kill
  BY <1>0, <1>7 DEF ExecutorFails, Complete, ApplyFails, RemoveConfig, Initialize, Kill,
                    records, Applying
<1>8. CASE \E f \in Files : RemoveFile(f) \/ Edit(f)
  BY <1>0, <1>8, EditFrame DEF RemoveFile, records
<1>9. QED
  BY <1>1, <1>2, <1>3, <1>4, <1>5, <1>6, <1>7, <1>8 DEF Next, Edit

\* An apply that is about to activate goes on, unless it does.
LEMMA StillActivating ==
    ASSUME TypeOK, Next, ~ActivateData, Applying({"activate", "data"}),
           job' # NoJob, job'.cmd = "apply"
    PROVE  job'.run = job.run /\ job'.at \in {"activate", "data"}
<1>1. job \in ApplyJob /\ job # NoJob /\ job.at \in {"activate", "data"}
  BY JobKinds DEF Applying, TypeOK
<1>2. CASE job' = job
  BY <1>1, <1>2
<1>3. CASE StartExecutor
  BY <1>1, <1>3 DEF StartExecutor, ApplyStep, ApplyJob
<1>4. ~(BeginApply \/ Stage \/ CheckCopy \/ ActivateConfig \/ SwitchManifest \/ Finalize
        \/ Activated \/ VerifyTarget \/ WriteReceipt \/ Complete)
  BY <1>1 DEF BeginApply, Stage, CheckCopy, ActivateConfig, SwitchManifest, Finalize, Activated,
              VerifyTarget, WriteReceipt, Complete, ApplyStep, Executing
<1>5. ~(ExecutorFails \/ ApplyFails \/ Kill \/ BeginCleanup \/ RemoveConfig)
  BY <1>1 DEF ExecutorFails, ApplyFails, Kill, BeginCleanup, RemoveConfig
<1>6. /\ ~(\E f \in Files : CopyFile(f))
      /\ ~(\E r \in Run : Resume(r) \/ Rollback(r))
  BY <1>1 DEF CopyFile, Resume, Rollback, Recoverable
<1>7. CASE Initialize \/ (\E f \in Files : RemoveFile(f) \/ Edit(f))
  BY <1>2, <1>7, EditFrame DEF Initialize, RemoveFile
<1>8. QED
  BY <1>3, <1>4, <1>5, <1>6, <1>7 DEF Next, Edit

LEMMA ReplacedInit == Init => ReplacedStands
BY DEF Init, ReplacedStands, Replaces, Applying

\* Nothing is left to replace.
LEMMA ReplacesNothing ==
    ASSUME ~Applying({"stage", "copy"})', \A r \in Run : ~Replaces(r)'
    PROVE  ReplacedStands'
BY DEF ReplacedStands

\* The step moves no file and makes nothing active.
LEMMA ReplacedFrame ==
    ASSUME TypeOK, JobsAreJournaled, ReplacedStands, Next,
           ~BeginApply, ~CheckCopy, ~ActivateData,
           UNCHANGED <<legacy, canon, kept, receipt>>, hasty' = "no" => hasty = "no"
    PROVE  ReplacedStands'
<1>1. before' = before /\ \A r \in Run : Replaces(r)' => Replaces(r)
  BY ReplacesShrinks
<1>2. NothingActive => NothingActive'
  BY PendingShrinks DEF NothingActive
<1>3. Applying({"stage", "copy"})' => Applying({"stage", "copy"})
  BY StillCopying
<1>4. ASSUME NEW r \in Run, Replaces(r)'
      PROVE  /\ Within(before'[r], canon')
             /\ NothingActive'
             /\ job' # NoJob /\ job'.cmd = "apply" =>
                    job'.run = r /\ job'.at \in {"activate", "data"}
             /\ \A s \in Run : Replaces(s)' => s = r
             /\ hasty' = "no" => KeptInLegacy(before[r])'
  <2>1. Replaces(r)
    BY <1>1, <1>4
  <2>2. /\ Within(before[r], canon) /\ NothingActive
        /\ job # NoJob /\ job.cmd = "apply" => job.run = r /\ job.at \in {"activate", "data"}
        /\ \A s \in Run : Replaces(s) => s = r
        /\ hasty = "no" => KeptInLegacy(before[r])
    BY <2>1 DEF ReplacedStands
  <2>3. job' # NoJob /\ job'.cmd = "apply" => job'.run = r /\ job'.at \in {"activate", "data"}
    <3> SUFFICES ASSUME job' # NoJob, job'.cmd = "apply"
                 PROVE  job'.run = r /\ job'.at \in {"activate", "data"}
      OBVIOUS
    <3>1. job # NoJob /\ job.cmd = "apply"
      BY ApplySource
    <3>2. QED
      BY <2>2, <3>1, StillActivating DEF Applying
  <2>4. hasty' = "no" => KeptInLegacy(before[r])'
    BY <1>1, <2>2 DEF KeptInLegacy, Holds
  <2>5. QED
    BY <1>1, <1>2, <2>2, <2>3, <2>4 DEF Within
<1>5. ASSUME Applying({"stage", "copy"})'
      PROVE  /\ NothingActive' /\ \A r \in Run : ~Replaces(r)'
             /\ hasty' = "no" => KeptInLegacy(canon)'
  <2>1. /\ NothingActive /\ \A r \in Run : ~Replaces(r)
        /\ hasty = "no" => KeptInLegacy(canon)
    BY <1>3, <1>5 DEF ReplacedStands
  <2>2. KeptInLegacy(canon) => KeptInLegacy(canon)'
    BY DEF KeptInLegacy, Holds
  <2>3. QED
    BY <1>1, <1>2, <2>1, <2>2
<1>6. QED
  BY <1>4, <1>5 DEF ReplacedStands, Within

LEMMA ReplacedEdit ==
    ASSUME TypeOK, EditsKnown, ReplacedStands, NEW f \in Files, Edit(f)
    PROVE  ReplacedStands'
<1>1. UNCHANGED <<journal, staged, before, receipt, job, hasty>>
  BY EditFrame
<1>2. NothingActive' = NothingActive /\ \A r \in Run : Replaces(r)' = Replaces(r)
  BY <1>1 DEF NothingActive, Pending, Replaces, Applying
<1>3. \A r \in Run : Within(before[r], canon) => Within(before[r], canon)'
  BY <1>1, EditGrows DEF Within, Present
<1>4. PICK e \in Edits :
        /\ \A g \in Files : /\ Holds(legacy, g) \subseteq Holds(legacy', g)
                            /\ kept'[g] \subseteq kept[g] \cup (IF g = f THEN {e} ELSE {})
        /\ \/ canon' = canon /\ e \in Holds(legacy', f)
           \/ /\ legacy' = legacy /\ (Fresh(e) \/ e \in Holds(legacy, f))
              /\ \A g \in Files :
                    Holds(canon', g) = Holds(canon, g) \cup (IF g = f THEN {e} ELSE {})
              /\ Adopting => kept' = kept
  BY EditEffect
<1>5. e \in Holds(legacy', f) \/ Fresh(e)
  BY <1>4
<1>6. ASSUME NEW r \in Run, KeptInLegacy(before[r]) PROVE KeptInLegacy(before[r])'
  <2>1. \A g \in Files : kept[g] \cap Holds(before[r], g) \subseteq Holds(legacy, g)
    BY <1>6 DEF KeptInLegacy
  <2>2. e \in Holds(before[r], f) => e \in Holds(legacy', f)
    BY <1>5 DEF Fresh
  <2>3. \A g \in Files : kept'[g] \cap Holds(before[r], g) \subseteq Holds(legacy', g)
    BY <1>4, <2>1, <2>2
  <2>4. QED
    BY <1>1, <2>3 DEF KeptInLegacy, Holds
<1>7. ASSUME Applying({"stage", "copy"}), KeptInLegacy(canon) PROVE KeptInLegacy(canon)'
  <2>1. \A g \in Files : kept[g] \cap Holds(canon, g) \subseteq Holds(legacy, g)
    BY <1>7 DEF KeptInLegacy
  <2>2. Adopting
    BY <1>7 DEF Adopting, Applying
  <2>3. Fresh(e) => e \notin kept[f]
    BY DEF Fresh
  <2>4. \A g \in Files : kept'[g] \cap Holds(canon', g) \subseteq Holds(legacy', g)
    BY <1>4, <2>1, <2>2, <2>3
  <2>5. QED
    BY <2>4 DEF KeptInLegacy, Holds
<1>8. ASSUME NEW r \in Run, Replaces(r)'
      PROVE  /\ Within(before[r], canon)'
             /\ NothingActive'
             /\ job' # NoJob /\ job'.cmd = "apply" =>
                    job'.run = r /\ job'.at \in {"activate", "data"}
             /\ \A s \in Run : Replaces(s)' => s = r
             /\ hasty' = "no" => KeptInLegacy(before[r])'
  <2>1. Replaces(r)
    BY <1>2, <1>8
  <2>2. /\ Within(before[r], canon) /\ NothingActive
        /\ job # NoJob /\ job.cmd = "apply" => job.run = r /\ job.at \in {"activate", "data"}
        /\ \A s \in Run : Replaces(s) => s = r
        /\ hasty = "no" => KeptInLegacy(before[r])
    BY <2>1 DEF ReplacedStands
  <2>3. QED
    BY <1>1, <1>2, <1>3, <1>6, <2>2
<1>9. ASSUME Applying({"stage", "copy"})'
      PROVE  /\ NothingActive' /\ \A r \in Run : ~Replaces(r)'
             /\ hasty' = "no" => KeptInLegacy(canon)'
  <2>1. Applying({"stage", "copy"})
    BY <1>1, <1>9 DEF Applying
  <2>2. /\ NothingActive /\ \A r \in Run : ~Replaces(r)
        /\ hasty = "no" => KeptInLegacy(canon)
    BY <2>1 DEF ReplacedStands
  <2>3. QED
    BY <1>1, <1>2, <1>7, <2>1, <2>2
<1>10. QED
  BY <1>8, <1>9 DEF ReplacedStands

LEMMA ReplacedStep ==
    ASSUME TypeOK, EditsKnown, ReplacedStands, ShellsAreEmpty, JobsAreJournaled, OneIsActive,
           ReceiptsAreCommitted, NothingIsLost, SomethingMigrated, Next
    PROVE  ReplacedStands'
<1>1. CASE BeginApply
  <2>1. /\ canon = Empty /\ UNCHANGED <<canon, staged, before, journal, receipt>>
        /\ ~Applying({"activate"})'
    BY <1>1, BeginsEmpty DEF BeginApply, data, records, Applying
  <2>2. \A r \in Run : ~Replaces(r)'
    <3> SUFFICES ASSUME NEW r \in Run, Replaces(r)' PROVE FALSE
      OBVIOUS
    <3>1. Replaces(r)
      BY <2>1 DEF Replaces, Applying
    <3>2. Within(before[r], Empty) /\ before[r] \in Inventory /\ before[r] # Empty
      BY <2>1, <3>1 DEF ReplacedStands, Replaces, TypeOK
    <3>3. QED
      BY <3>2, WithinEmpty
  <2>3. NothingActive
    <3>1. \A r \in Run : Pending(r) => staged[r] = Empty
      BY <2>1, WithinEmpty DEF OneIsActive, TypeOK
    <3>2. ASSUME receipt # NoReceipt PROVE receipt.source = Empty
      <4>1. receipt.source \in Inventory /\ Within(receipt.source, Empty)
        BY <2>1, <3>2 DEF TypeOK, ReceiptsAreCommitted, ReceiptIsTrue, Within
      <4>2. QED
        BY <4>1, WithinEmpty
    <3>3. QED
      BY <3>1, <3>2 DEF NothingActive
  <2>4. NothingActive'
    BY <2>1, <2>3 DEF NothingActive, Pending
  <2>5. KeptInLegacy(canon)'
    BY <2>1 DEF KeptInLegacy, Holds, Empty
  <2>6. QED
    BY <2>2, <2>4, <2>5 DEF ReplacedStands
<1>2. CASE CheckCopy
  <2>1. job \in ApplyJob /\ job.run \in Run /\ Applying({"stage", "copy"})
    BY <1>2, JobKinds DEF CheckCopy, ApplyStep, TypeOK, ApplyJob, Applying
  <2>2. /\ NothingActive /\ \A r \in Run : ~Replaces(r)
        /\ hasty = "no" => KeptInLegacy(canon)
    BY <2>1 DEF ReplacedStands
  <2>3. /\ job'.at = "activate" /\ job'.run = job.run /\ before'[job.run] = canon
        /\ \A r \in Run \ {job.run} : before'[r] = before[r]
        /\ UNCHANGED <<legacy, canon, kept, hasty, journal, staged, receipt>>
    BY <1>2, <2>1 DEF CheckCopy, ApplyStep, ApplyJob, TypeOK, data, history
  <2>4. journal[job.run] = "absent"
    BY <2>1 DEF JobsAreJournaled, Applying
  <2>5. \A r \in Run : Replaces(r)' => r = job.run
    BY <2>2, <2>3 DEF Replaces, Applying
  <2>6. Within(canon, canon)
    BY DEF Within, Present
  <2>7. NothingActive'
    BY <2>2, <2>3 DEF NothingActive, Pending
  <2>8. KeptInLegacy(canon) => KeptInLegacy(before[job.run])'
    BY <2>3 DEF KeptInLegacy, Holds
  <2>9. ASSUME NEW r \in Run, Replaces(r)'
        PROVE  /\ Within(before[r], canon)'
               /\ job'.run = r
               /\ \A s \in Run : Replaces(s)' => s = r
               /\ hasty' = "no" => KeptInLegacy(before[r])'
    <3>1. r = job.run
      BY <2>5, <2>9
    <3>2. hasty' = "no" => KeptInLegacy(before[job.run])'
      BY <2>2, <2>3, <2>8
    <3>3. Within(before[r], canon)'
      BY <2>3, <2>6, <3>1 DEF Within, Present
    <3>4. job'.run = r /\ \A s \in Run : Replaces(s)' => s = r
      BY <2>3, <2>5, <3>1
    <3>5. KeptInLegacy(before[job.run])' => KeptInLegacy(before[r])'
      BY <2>3, <3>1 DEF KeptInLegacy, Holds
    <3>6. QED
      BY <3>2, <3>3, <3>4, <3>5
  <2>10. ~Applying({"stage", "copy"})'
    BY <2>3 DEF Applying
  <2>11. QED
    BY <2>3, <2>7, <2>9, <2>10 DEF ReplacedStands
<1>3. CASE ActivateData
  <2>1. /\ job.run \in Run /\ canon = before[job.run] /\ journal[job.run] = "data"
        /\ job # NoJob /\ (job \in ApplyJob \/ job \in RecoverJob)
    BY <1>3, JobKinds DEF ActivateData, Executing, AsPlanned, TypeOK, ApplyJob, RecoverJob,
                          JobsAreJournaled, Transaction
  <2>2. job'.at = "config" /\ journal'[job.run] = "config"
    BY <1>3, <2>1 DEF ActivateData, NextPhase, ApplyJob, RecoverJob, TypeOK
  <2>3. \A r \in Run : Replaces(r)' => Replaces(r)
    <3>1. ~CheckCopy
      BY <1>3 DEF ActivateData, Executing, CheckCopy, ApplyStep
    <3>2. QED
      BY <3>1, ReplacesShrinks
  <2>4. ASSUME NEW r \in Run, Replaces(r)' PROVE FALSE
    <3>1. Replaces(r) /\ r # job.run
      BY <2>2, <2>3, <2>4 DEF Replaces, Applying
    <3>2. CASE before[job.run] # Empty
      BY <2>1, <3>1, <3>2 DEF ReplacedStands, Replaces
    <3>3. CASE before[job.run] = Empty
      <4>1. Within(before[r], Empty) /\ before[r] \in Inventory /\ before[r] # Empty
        BY <2>1, <3>1, <3>3 DEF ReplacedStands, Replaces, TypeOK
      <4>2. QED
        BY <4>1, WithinEmpty
    <3>4. QED
      BY <3>2, <3>3
  <2>5. QED
    BY <2>2, <2>4, ReplacesNothing DEF Applying
<1>4. ASSUME NEW r \in Run, Rollback(r) PROVE ReplacedStands'
  <2>1. /\ job = NoJob /\ UNCHANGED <<legacy, kept, receipt, job>>
        /\ runs' = runs /\ (hasty' = "no" => hasty = "no")
    BY <1>4 DEF Rollback, Recoverable, Undoes, counters
  <2>2. ~BeginApply /\ ~CheckCopy /\ ~ActivateData
    BY <2>1 DEF BeginApply, CheckCopy, ApplyStep, ActivateData, Executing, TypeOK
  <2>3. CASE journal[r] = "data"
    BY <1>4, <2>1, <2>2, <2>3, ReplacedFrame DEF Rollback
  <2>4. CASE journal[r] # "data"
    <3>1. Pending(r) /\ canon = staged[r]
      BY <1>4, <2>4 DEF Rollback, Recoverable, Pending, Activating
    <3>2. ASSUME NEW s \in Run, Replaces(s)' PROVE FALSE
      <4>1. Replaces(s)
        BY <2>2, <3>2, ReplacesShrinks
      <4>2. Within(before[s], Empty) /\ before[s] \in Inventory /\ before[s] # Empty
        BY <3>1, <4>1 DEF ReplacedStands, NothingActive, Replaces, TypeOK
      <4>3. QED
        BY <4>2, WithinEmpty
    <3>3. QED
      BY <2>1, <3>2, ReplacesNothing DEF Applying
  <2>5. QED
    BY <2>3, <2>4
<1>5. CASE WriteReceipt
  <2>1. job \in ApplyJob /\ job # NoJob /\ job.at = "receipt"
    BY <1>5, JobKinds DEF WriteReceipt, ApplyStep, TypeOK
  <2>2. job'.at = "complete" /\ ~CheckCopy
    BY <1>5, <2>1 DEF WriteReceipt, ApplyStep, ApplyJob, CheckCopy
  <2>3. \A r \in Run : ~Replaces(r)
    BY <2>1 DEF ReplacedStands, ApplyJob
  <2>4. QED
    BY <2>2, <2>3, ReplacesShrinks, ReplacesNothing DEF Applying
<1>6. ASSUME NEW f \in Files, RemoveFile(f) PROVE ReplacedStands'
  <2>1. Cleaning /\ UNCHANGED <<canon, journal, staged, before, receipt, job, kept, hasty>>
    BY <1>6 DEF RemoveFile, records, history
  <2>2. ~Applying({"stage", "copy"})' /\ \A r \in Run : Replaces(r)' = Replaces(r)
    BY <2>1 DEF Replaces, Applying, Cleaning
  <2>3. CASE hasty = "no"
    <3>1. receipt # NoReceipt /\ receipt.source # Empty
      BY <2>1, <2>3 DEF NothingIsLost, SomethingMigrated
    <3>2. \A r \in Run : ~Replaces(r)
      BY <3>1 DEF ReplacedStands, NothingActive
    <3>3. QED
      BY <2>2, <3>2, ReplacesNothing
  <2>4. CASE hasty # "no"
    <3>1. NothingActive' = NothingActive
      BY <2>1 DEF NothingActive, Pending
    <3>2. QED
      BY <2>1, <2>2, <2>4, <3>1 DEF ReplacedStands, Within
  <2>5. QED
    BY <2>3, <2>4
<1>7. ASSUME NEW f \in Files, Edit(f) PROVE ReplacedStands'
  BY <1>7, ReplacedEdit
<1>8. CASE UNCHANGED <<legacy, canon, kept, receipt>> /\ (hasty' = "no" => hasty = "no")
           /\ ~BeginApply /\ ~CheckCopy /\ ~ActivateData
  BY <1>8, ReplacedFrame
<1>9. CASE Stage \/ StartExecutor \/ ActivateConfig \/ SwitchManifest \/ Finalize
           \/ ExecutorFails \/ Activated \/ VerifyTarget \/ Complete \/ ApplyFails
           \/ BeginCleanup \/ RemoveConfig \/ Initialize \/ Kill
  <2>1. UNCHANGED <<legacy, canon, kept, receipt>> /\ (hasty' = "no" => hasty = "no")
    BY <1>9 DEF Stage, StartExecutor, ActivateConfig, SwitchManifest, Finalize, ExecutorFails,
        Activated, VerifyTarget, Complete, ApplyFails, BeginCleanup, RemoveConfig, Initialize,
        Kill, ApplyStep, executorRest, data, records, counters, history
  <2>2. QED
    BY <1>1, <1>2, <1>3, <1>8, <2>1
<1>10. CASE (\E f \in Files : CopyFile(f)) \/ (\E r \in Run : Resume(r))
  <2>1. UNCHANGED <<legacy, canon, kept, receipt, hasty>>
    BY <1>10 DEF CopyFile, Resume, data, records, history
  <2>2. QED
    BY <1>1, <1>2, <1>3, <1>8, <2>1
<1>11. QED
  BY <1>1, <1>2, <1>3, <1>4, <1>5, <1>6, <1>7, <1>9, <1>10 DEF Next, Edit

-----------------------------------------------------------------------------
(* Nothing is lost.                                                          *)

LEMMA LostInit == Init => NothingIsLost
<1> SUFFICES ASSUME Init PROVE NothingIsLost
  OBVIOUS
<1>1. \A f \in Files : kept[f] = Holds(legacy, f)
  BY DEF Init, Holds
<1>2. QED
  BY <1>1 DEF Init, NothingIsLost, EditsSurvive, Pending, Activating, Transaction, Cleaning

\* No receipt is taken away.
LEMMA ReceiptStays ==
    ASSUME TypeOK, Next, receipt # NoReceipt
    PROVE  receipt' # NoReceipt
<1>1. CASE WriteReceipt
  <2>1. job.source \in Inventory /\ receipt' = [source |-> job.source, target |-> job.source]
    BY <1>1, JobKinds DEF WriteReceipt, ApplyStep, TypeOK, ApplyJob
  <2>2. receipt' \in [source : Inventory, target : Inventory]
    BY <2>1
  <2>3. QED
    BY <2>2, NothingAssumption
<1>2. CASE receipt' = receipt
  BY <1>2
<1>3. CASE BeginApply \/ Stage \/ CheckCopy \/ StartExecutor \/ ActivateData \/ ActivateConfig
           \/ SwitchManifest \/ Finalize \/ ExecutorFails \/ Activated \/ VerifyTarget
           \/ Complete \/ ApplyFails \/ BeginCleanup \/ RemoveConfig \/ Initialize \/ Kill
  BY <1>2, <1>3 DEF BeginApply, Stage, CheckCopy, StartExecutor, ActivateData, ActivateConfig,
     SwitchManifest, Finalize, ExecutorFails, Activated, VerifyTarget, Complete, ApplyFails,
     BeginCleanup, RemoveConfig, Initialize, Kill, executorRest, records
<1>4. CASE (\E f \in Files : CopyFile(f) \/ RemoveFile(f) \/ Edit(f))
           \/ (\E r \in Run : Resume(r) \/ Rollback(r))
  BY <1>2, <1>4, EditFrame DEF CopyFile, RemoveFile, Resume, Rollback, records
<1>5. QED
  BY <1>1, <1>3, <1>4 DEF Next, Edit

LEMMA LostFrame ==
    ASSUME NothingIsLost, UNCHANGED <<legacy, canon, kept>>,
           hasty' = hasty \/ hasty' = "undone",
           \A r \in Run : Pending(r)' => Pending(r) /\ staged'[r] = staged[r],
           Cleaning' => Cleaning,
           receipt # NoReceipt => receipt' # NoReceipt
    PROVE  NothingIsLost'
<1>1. CASE hasty' = "undone"
  BY <1>1 DEF NothingIsLost, EditsSurvive
<1>2. CASE hasty' = hasty
  BY <1>2 DEF NothingIsLost, EditsSurvive, KeptInLegacy, Holds
<1>3. QED
  BY <1>1, <1>2

LEMMA LostStep ==
    ASSUME TypeOK, EditsKnown, ReplacedStands, JobsAreJournaled, OneIsActive,
           ReceiptsAreCommitted, NothingIsLost, SomethingMigrated, Next
    PROVE  NothingIsLost'
<1>1. CASE ActivateData
  <2>1. /\ job.run \in Run /\ canon = before[job.run] /\ canon' = staged[job.run]
        /\ (job \in ApplyJob \/ job \in RecoverJob) /\ journal[job.run] = "data"
    BY <1>1, JobKinds DEF ActivateData, Executing, AsPlanned, TypeOK, ApplyJob, RecoverJob,
                          JobsAreJournaled, Transaction
  <2>2. /\ UNCHANGED <<legacy, staged, kept>> /\ ~Cleaning'
        /\ hasty' # "undone" => hasty = "no"
        /\ \A r \in Run \ {job.run} : journal'[r] = journal[r]
    BY <1>1, <2>1 DEF ActivateData, NextPhase, executorRest, Undoes, TypeOK, ApplyJob,
                      RecoverJob, Cleaning
  <2>3. hasty = "no" => \A f \in Files : kept[f] \subseteq Holds(legacy, f)
    <3>1. hasty = "no" => \A f \in Files : kept[f] \cap Holds(canon, f) \subseteq Holds(legacy, f)
      <4>1. CASE before[job.run] = Empty
        BY <2>1, <4>1 DEF Holds, Empty
      <4>2. CASE before[job.run] # Empty
        BY <2>1, <4>2 DEF ReplacedStands, Replaces, KeptInLegacy
      <4>3. QED
        BY <4>1, <4>2
    <3>2. QED
      BY <3>1 DEF NothingIsLost, EditsSurvive
  <2>4. hasty' # "undone" => EditsSurvive' /\ \A r \in Run : KeptInLegacy(staged[r])'
    BY <2>2, <2>3 DEF EditsSurvive, KeptInLegacy, Holds
  <2>5. EditsSurvive'
    BY <2>4 DEF EditsSurvive
  <2>6. QED
    BY <2>2, <2>4, <2>5 DEF NothingIsLost
<1>2. ASSUME NEW r \in Run, Rollback(r) PROVE NothingIsLost'
  <2>1. job = NoJob /\ job' = NoJob /\ UNCHANGED <<legacy, staged, kept, receipt>>
        /\ (hasty' = hasty \/ hasty' = "undone") /\ (hasty = "cleaned" => hasty' = "undone")
    BY <1>2 DEF Rollback, Recoverable, Undoes
  <2>2. ~ActivateData /\ ~Cleaning'
    BY <2>1 DEF ActivateData, Executing, Cleaning
  <2>3. \A s \in Run : Pending(s)' => Pending(s) /\ staged'[s] = staged[s]
    BY <2>2, PendingShrinks
  <2>4. CASE journal[r] = "data"
    BY <1>2, <2>1, <2>2, <2>3, <2>4, LostFrame DEF Rollback
  <2>5. CASE hasty' = "undone"
    BY <2>2, <2>5 DEF NothingIsLost, EditsSurvive
  <2>6. CASE journal[r] # "data" /\ hasty' # "undone"
    <3>1. hasty = "no" /\ hasty' = "no"
      BY <2>1, <2>6 DEF TypeOK
    <3>2. Pending(r) /\ canon = staged[r]
      BY <1>2, <2>6 DEF Rollback, Recoverable, Pending, Activating
    <3>3. \A f \in Files : kept[f] \subseteq Holds(legacy, f)
      BY <3>1, <3>2 DEF NothingIsLost, EditsSurvive, KeptInLegacy
    <3>4. EditsSurvive'
      BY <2>1, <3>3 DEF EditsSurvive, Holds
    <3>5. \A s \in Run : KeptInLegacy(staged[s])'
      BY <2>1, <3>3 DEF KeptInLegacy, Holds
    <3>6. QED
      BY <2>2, <3>4, <3>5 DEF NothingIsLost
  <2>7. QED
    BY <2>4, <2>5, <2>6
<1>3. CASE BeginCleanup
  <2>1. UNCHANGED <<legacy, canon, staged, journal, kept, receipt>> /\ Gate
        /\ (hasty' = "no" => hasty = "no" /\ receipt # NoReceipt)
        /\ (hasty' # "undone" => hasty # "undone")
    BY <1>3 DEF BeginCleanup, data, records
  <2>2. hasty' # "undone" => \A f \in Files : kept[f] \subseteq Holds(canon, f)
    <3>1. \A f \in Files : Holds(legacy, f) \subseteq Holds(canon, f)
      BY <2>1 DEF Gate, Conserved, Present, Holds
    <3>2. QED
      BY <2>1, <3>1 DEF NothingIsLost, EditsSurvive
  <2>3. EditsSurvive'
    BY <2>1, <2>2 DEF EditsSurvive, Holds
  <2>4. hasty' = "no" => \A r \in Run : Pending(r)' => KeptInLegacy(staged[r])'
    BY <2>1 DEF NothingIsLost, Pending, KeptInLegacy, Holds
  <2>5. QED
    BY <2>1, <2>2, <2>3, <2>4 DEF NothingIsLost, Holds
<1>4. ASSUME NEW f \in Files, RemoveFile(f) PROVE NothingIsLost'
  <2>1. Cleaning /\ UNCHANGED <<canon, staged, journal, kept, hasty, receipt>>
    BY <1>4 DEF RemoveFile, records, history
  <2>2. ASSUME hasty = "no", NEW r \in Run, Pending(r) PROVE KeptInLegacy(staged[r])'
    <3>1. receipt # NoReceipt /\ receipt.source # Empty
      BY <2>1, <2>2 DEF NothingIsLost, SomethingMigrated
    <3>2. staged'[r] = Empty
      BY <2>1, <2>2, <3>1 DEF OneIsActive
    <3>3. QED
      BY <3>2 DEF KeptInLegacy, Holds, Empty
  <2>3. EditsSurvive'
    BY <2>1 DEF NothingIsLost, EditsSurvive, Holds
  <2>4. \A r \in Run : Pending(r)' = Pending(r)
    BY <2>1 DEF Pending
  <2>5. QED
    BY <2>1, <2>2, <2>3, <2>4 DEF NothingIsLost, Holds
<1>5. ASSUME NEW f \in Files, Edit(f) PROVE NothingIsLost'
  <2>1. UNCHANGED <<staged, journal, job, hasty, receipt>>
    BY <1>5, EditFrame
  <2>2. PICK e \in Edits :
          /\ \A g \in Files : /\ Holds(legacy, g) \subseteq Holds(legacy', g)
                              /\ Holds(canon, g) \subseteq Holds(canon', g)
                              /\ kept'[g] \subseteq kept[g] \cup (IF g = f THEN {e} ELSE {})
          /\ \/ e \in Holds(legacy', f) /\ (Cleaning => kept' = kept)
             \/ /\ e \in Holds(canon', f)
                /\ Fresh(e) \/ e \in Holds(legacy, f)
    BY <1>5, EditEffect
  <2>3. EditsSurvive'
    <3>1. ASSUME hasty # "undone", NEW g \in Files
          PROVE  kept'[g] \subseteq Holds(legacy', g) \cup Holds(canon', g)
      <4>1. kept[g] \subseteq Holds(legacy, g) \cup Holds(canon, g)
        BY <3>1 DEF NothingIsLost, EditsSurvive
      <4>2. QED
        BY <2>2, <4>1
    <3>2. QED
      BY <2>1, <3>1 DEF EditsSurvive, Holds
  <2>4. ASSUME hasty = "no", NEW r \in Run, Pending(r) PROVE KeptInLegacy(staged[r])'
    <3>1. \A g \in Files : kept[g] \cap Holds(staged[r], g) \subseteq Holds(legacy, g)
      BY <2>4 DEF NothingIsLost, KeptInLegacy
    <3>2. e \in Holds(staged[r], f) => e \in Holds(legacy', f)
      BY <2>2 DEF Fresh
    <3>3. \A g \in Files : kept'[g] \cap Holds(staged[r], g) \subseteq Holds(legacy', g)
      BY <2>2, <3>1, <3>2
    <3>4. QED
      BY <2>1, <3>3 DEF KeptInLegacy, Holds
  <2>5. \A r \in Run : Pending(r)' = Pending(r)
    BY <2>1 DEF Pending
  <2>6. ASSUME Cleaning, hasty # "undone", NEW g \in Files PROVE kept'[g] \subseteq Holds(canon', g)
    <3>1. kept[g] \subseteq Holds(canon, g)
      BY <2>6 DEF NothingIsLost
    <3>2. QED
      BY <2>2, <2>6, <3>1
  <2>7. Cleaning' = Cleaning
    BY <2>1 DEF Cleaning
  <2>8. QED
    BY <2>1, <2>3, <2>4, <2>5, <2>6, <2>7 DEF NothingIsLost, Holds
<1>6. CASE UNCHANGED <<legacy, canon, kept, hasty>> /\ ~ActivateData /\ ~BeginCleanup
  <2>1. Cleaning' => Cleaning
    BY <1>6, CleaningStays
  <2>2. receipt # NoReceipt => receipt' # NoReceipt
    BY ReceiptStays
  <2>3. QED
    BY <1>6, <2>1, <2>2, PendingShrinks, LostFrame
<1>7. CASE BeginApply \/ Stage \/ CheckCopy \/ StartExecutor \/ ActivateConfig \/ SwitchManifest
           \/ Finalize \/ ExecutorFails \/ Activated \/ VerifyTarget \/ WriteReceipt \/ Complete
           \/ ApplyFails \/ RemoveConfig \/ Initialize \/ Kill
  <2>1. UNCHANGED <<legacy, canon, kept, hasty>>
    BY <1>7 DEF BeginApply, Stage, CheckCopy, StartExecutor, ActivateConfig, SwitchManifest,
        Finalize, ExecutorFails, Activated, VerifyTarget, WriteReceipt, Complete, ApplyFails,
        RemoveConfig, Initialize, Kill, ApplyStep, executorRest, data, records, counters, history
  <2>2. QED
    BY <1>1, <1>3, <1>6, <2>1
<1>8. CASE (\E f \in Files : CopyFile(f)) \/ (\E r \in Run : Resume(r))
  <2>1. UNCHANGED <<legacy, canon, kept, hasty>>
    BY <1>8 DEF CopyFile, Resume, data, history
  <2>2. QED
    BY <1>1, <1>3, <1>6, <2>1
<1>9. QED
  BY <1>1, <1>2, <1>3, <1>4, <1>5, <1>7, <1>8 DEF Next, Edit

-----------------------------------------------------------------------------
(* Something was migrated.                                                   *)

LEMMA SomethingInit == Init => SomethingMigrated
BY DEF Init, SomethingMigrated

LEMMA SomethingStep ==
    ASSUME TypeOK, EditsKnown, ShellsAreEmpty, NothingIsLost, SomethingMigrated, Next
    PROVE  SomethingMigrated'
<1>1. CASE BeginApply
  <2>1. canon = Empty /\ UNCHANGED <<receipt, hasty>> /\ job'.source = legacy
    BY <1>1, BeginsEmpty DEF BeginApply, records, history
  <2>2. ASSUME hasty # "undone" PROVE legacy # Empty
    <3>1. PICK f \in Files : kept[f] # {}
      BY DEF EditsKnown
    <3>2. kept[f] \subseteq Holds(legacy, f)
      BY <2>1, <2>2 DEF NothingIsLost, EditsSurvive, Holds, Empty
    <3>3. QED
      BY <3>1, <3>2 DEF Holds, Empty
  <2>3. QED
    BY <2>1, <2>2 DEF SomethingMigrated
<1>2. CASE WriteReceipt
  <2>1. /\ receipt' = [source |-> job.source, target |-> job.source] /\ hasty' = hasty
        /\ job # NoJob /\ job.cmd = "apply" /\ ~BeginApply
    BY <1>2 DEF WriteReceipt, ApplyStep, history, BeginApply
  <2>2. QED
    BY <2>1, ApplySource DEF SomethingMigrated
<1>3. ASSUME ~BeginApply, receipt' = receipt, hasty' # "undone" => hasty # "undone"
      PROVE  SomethingMigrated'
  BY <1>3, ApplySource DEF SomethingMigrated
<1>4. CASE Stage \/ CheckCopy \/ StartExecutor \/ ActivateData \/ ActivateConfig
           \/ SwitchManifest \/ Finalize \/ ExecutorFails
  <2>1. receipt' = receipt /\ (hasty' # "undone" => hasty # "undone")
    BY <1>4 DEF Stage, CheckCopy, StartExecutor, ActivateData, ActivateConfig, SwitchManifest,
        Finalize, ExecutorFails, ApplyStep, Undoes, executorRest, history
  <2>2. QED
    BY <1>1, <1>3, <2>1
<1>5. CASE Activated \/ VerifyTarget \/ Complete \/ ApplyFails \/ BeginCleanup \/ RemoveConfig
           \/ Initialize \/ Kill
  <2>1. receipt' = receipt /\ (hasty' # "undone" => hasty # "undone")
    BY <1>5 DEF Activated, VerifyTarget, Complete, ApplyFails, BeginCleanup, RemoveConfig,
        Initialize, Kill, ApplyStep, records, history
  <2>2. QED
    BY <1>1, <1>3, <2>1
<1>6. CASE (\E f \in Files : CopyFile(f) \/ RemoveFile(f) \/ Edit(f))
           \/ (\E r \in Run : Resume(r) \/ Rollback(r))
  <2>1. receipt' = receipt /\ (hasty' # "undone" => hasty # "undone")
    BY <1>6, EditFrame DEF CopyFile, RemoveFile, Resume, Rollback, Undoes, records, history
  <2>2. QED
    BY <1>1, <1>3, <2>1
<1>7. QED
  BY <1>1, <1>2, <1>4, <1>5, <1>6 DEF Next, Edit

-----------------------------------------------------------------------------
(* The theorems.                                                             *)

LEMMA InitInv == Init => IInv
BY InitType, KnownInit, ReplacedInit, ShellInit, JobsInit, ActiveInit, ReceiptInit, LostInit,
   SomethingInit DEF IInv

LEMMA NextInv == IInv /\ [Next]_vars => IInv'
<1> SUFFICES ASSUME IInv, [Next]_vars PROVE IInv'
  OBVIOUS
<1>1. CASE Next
  BY <1>1, TypeStep, KnownStep, ReplacedStep, ShellStep, JobsStep, ActiveStep, ReceiptStep,
     LostStep, SomethingStep DEF IInv
<1>2. CASE UNCHANGED vars
  <2>1. UNCHANGED <<data, records, job, counters, history>>
    BY <1>2 DEF vars
  <2>2. TypeOK' /\ EditsKnown' /\ ShellsAreEmpty' /\ JobsAreJournaled' /\ SomethingMigrated'
    BY <2>1 DEF data, records, counters, history, IInv, TypeOK, EditsKnown, Known,
        Applying, ShellsAreEmpty, JobsAreJournaled, Executing, SomethingMigrated
  <2>3. OneIsActive' /\ ReceiptsAreCommitted'
    BY <2>1 DEF data, records, counters, history, IInv, OneIsActive, Pending, Within, Present,
        Applying, ReceiptsAreCommitted, ReceiptIsTrue
  <2>4. ReplacedStands' /\ NothingIsLost'
    BY <2>1 DEF data, records, counters, history, IInv, ReplacedStands, Replaces,
        NothingActive, KeptInLegacy, Within, Present, Applying, Pending, NothingIsLost,
        EditsSurvive, Cleaning, Holds
  <2>5. QED
    BY <2>2, <2>3, <2>4 DEF IInv
<1>3. QED
  BY <1>1, <1>2

\* Every variable keeps its type, whatever is applied, interrupted and recovered.
THEOREM MigrationTypesCorrect == Spec => []TypeOK
<1>1. Spec => []IInv
  BY InitInv, NextInv, PTL DEF Spec
<1>2. IInv => TypeOK
  BY DEF IInv
<1>3. QED
  BY <1>1, <1>2, PTL

\* No edit is lost: apply, recover and cleanup of migration.py keep each in the
\* legacy files or in the canonical ones, but for a recovery behind a cleanup that
\* had no receipt.
THEOREM EditsAreKept == Spec => []EditsSurvive
<1>1. Spec => []IInv
  BY InitInv, NextInv, PTL DEF Spec
<1>2. IInv => EditsSurvive
  BY DEF IInv, NothingIsLost
<1>3. QED
  BY <1>1, <1>2, PTL

\* A receipt of migrate apply stays true: no journal of an earlier run that is
\* resumed or rolled back takes the migrated data away.
THEOREM ReceiptsStayTrue == Spec => []ReceiptIsTrue
<1>1. Spec => []IInv
  BY InitInv, NextInv, PTL DEF Spec
<1>2. IInv => ReceiptIsTrue
  BY DEF IInv, ReceiptsAreCommitted
<1>3. QED
  BY <1>1, <1>2, PTL

LEMMA SafeIsGated == IInv => StatusAgrees
<1> SUFFICES ASSUME IInv, CleanupSafe PROVE Gate \/ Outgrown
  BY DEF StatusAgrees
<1>1. /\ State = "canonical-with-legacy-artifacts" /\ legacyConfig
      /\ ReceiptMatches \/ canon = legacy
  BY DEF CleanupSafe, State, Relation
<1>2. canon = legacy
  BY <1>1 DEF ReceiptMatches, IInv, ReceiptsAreCommitted
<1>3. CASE receipt # NoReceipt => receipt.source = legacy
  BY <1>1, <1>2, <1>3 DEF Gate, Conserved
<1>4. CASE receipt # NoReceipt /\ receipt.source # legacy
  <2>1. \A f \in Files : Holds(receipt.source, f) \subseteq Holds(legacy, f)
    BY <1>2, <1>4 DEF IInv, ReceiptsAreCommitted, ReceiptIsTrue, Present, Holds
  <2>2. QED
    BY <1>2, <1>4, <2>1 DEF Outgrown
<1>5. QED
  BY <1>3, <1>4

\* When status and doctor report that a cleanup is safe, migrate cleanup does not
\* refuse, unless both sides hold the same, and more than the receipt of the last
\* apply says.
THEOREM StatusAgreesWithCleanup == Spec => []StatusAgrees
<1>1. Spec => []IInv
  BY InitInv, NextInv, PTL DEF Spec
<1>2. QED
  BY <1>1, SafeIsGated, PTL

=============================================================================
