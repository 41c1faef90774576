------------------------------ MODULE Migration -----------------------------
(***************************************************************************)
(* The migration of a project from the legacy layout to the canonical one  *)
(* (migration.py): `migrate apply` copies the durable files to a stage,    *)
(* lets ledgercore's executor activate them and writes a receipt, `migrate *)
(* recover` resumes or rolls back an executor that was interrupted, and    *)
(* `migrate cleanup` deletes the legacy files once a gate has found them   *)
(* in the canonical data.  Meanwhile an older release of the tool, or the  *)
(* user, may edit the legacy files, and commands without the write lock    *)
(* may write canonical ones.  A process may be killed at every step.       *)
(*                                                                         *)
(* The content of a file is the set of the edits that made it: two files   *)
(* have the same hash exactly if they hold the same edits.  Indexes are    *)
(* rebuilt from the data and left out, and so is what the configuration    *)
(* says.  Ledgercore is external: its journal, its order of activation and *)
(* its preconditions are what migration.py and ledgercore_backend.py say   *)
(* and rely on.                                                            *)
(***************************************************************************)
EXTENDS Naturals, FiniteSets

CONSTANTS
    Files,      \* paths of durable files, below either data root
    NoFile,     \* no such file
    NoReceipt,  \* no receipt of a completed migration
    NoJob,      \* no process holds the write lock
    MaxEdits,   \* bound: edits of legacy and canonical files
    MaxRuns,    \* bound: applies
    MaxFaults,  \* bound: errors in the middle of a command
    MaxKills    \* bound: processes killed

ASSUME MigrationAssumption ==
    MaxEdits \in Nat /\ MaxRuns \in Nat /\ MaxFaults \in Nat /\ MaxKills \in Nat

Edits == 0..MaxEdits
Content == (SUBSET Edits) \cup {NoFile}
Inventory == [Files -> Content]
Empty == [f \in Files |-> NoFile]

Phases == {"none", "staging", "activation-prepared", "failed", "canonical-activated",
           "domain-verified", "receipt-written", "complete"}

\* What ledgercore's journal of a run says: not written, the next transaction
\* phase, or how it ended.
Transaction == {"data", "config", "manifest", "finalize"}
Journal == {"absent", "committed", "rolled back"} \cup Transaction

VARIABLES
    legacy, legacyConfig,   \* the legacy files; is there a legacy configuration
    canon,                  \* the files below the canonical data root
    dataRoot,               \* "absent", or "bound" to this project
    configDir,              \* .ledger/releaseledger: "absent", "unbound", "bound"
    manifest,               \* does .ledger/ledger.toml register the mounts
    phase,                  \* the last row of the migration journal of releaseledger
    journal,                \* run -> ledgercore's journal
    staged, before,         \* run -> what it copied, and the data it means to replace
    receipt,
    job,                    \* the command that holds the write lock
    edits, runs, faults, kills,
    kept,                   \* history: the edits that nothing may lose
    hasty                   \* history: a cleanup without receipt, and a recovery after it

data == <<legacy, legacyConfig, canon, dataRoot, configDir, manifest>>
records == <<phase, journal, staged, before, receipt>>
counters == <<edits, runs, faults, kills>>
history == <<kept, hasty>>
vars == <<data, records, job, counters, history>>

Run == 1..MaxRuns

\* source: the inventory taken first; left: what remains to copy or to remove.
Job ==
    [cmd : {"apply"}, at : {"stage", "copy", "check", "activate", "activated", "receipt",
                            "complete"} \cup Transaction,
     run : Run, source : Inventory, left : SUBSET Files]
    \cup [cmd : {"recover"}, at : Transaction, run : Run]
    \cup [cmd : {"cleanup"}, at : {"remove"}]

\* A legacy project, alone or next to the empty canonical shell of an init.
Init ==
    /\ legacy \in {[f \in Files |-> IF f \in fs THEN {0} ELSE NoFile] :
                        fs \in (SUBSET Files) \ {{}}}
    /\ legacyConfig = TRUE
    /\ canon = Empty
    /\ \E shell \in BOOLEAN :
        /\ manifest = shell
        /\ dataRoot = IF shell THEN "bound" ELSE "absent"
        /\ configDir = IF shell THEN "bound" ELSE "absent"
    /\ phase = "none"
    /\ journal = [r \in Run |-> "absent"]
    /\ staged = [r \in Run |-> Empty] /\ before = [r \in Run |-> Empty]
    /\ receipt = NoReceipt
    /\ job = NoJob
    /\ edits = 0 /\ runs = 0 /\ faults = 0 /\ kills = 0
    /\ kept = [f \in Files |-> IF legacy[f] = NoFile THEN {} ELSE legacy[f]]
    /\ hasty = "no"

\* No file, no receipt and no job are none of the values that stand for one.
ASSUME NothingAssumption ==
    /\ \A content \in SUBSET Edits : content # NoFile
    /\ NoReceipt \notin [source : Inventory, target : Inventory]
    /\ NoJob \notin Job

Present(files) == {f \in Files : files[f] # NoFile}

-----------------------------------------------------------------------------
(* evaluate_migration_state                                                *)

RecoveryRequired == phase \in {"staging", "failed"}

\* A mount that is missing is valid, one that exists without its marker is not.
LayoutValid == manifest /\ configDir # "unbound"

State ==
    CASE RecoveryRequired -> "migration-recovery-required"
      [] ~RecoveryRequired /\ manifest /\ ~LayoutValid -> "canonical-invalid"
      [] ~RecoveryRequired /\ LayoutValid ->
            IF legacyConfig THEN "canonical-with-legacy-artifacts" ELSE "canonical-ready"
      [] ~RecoveryRequired /\ ~manifest ->
            IF legacyConfig THEN "legacy" ELSE "uninitialized"

\* Variant: the receipt vouches for the canonical data, whatever they are now.
ReceiptVouches == receipt # NoReceipt /\ receipt.source = legacy

ReceiptMatches ==
    receipt # NoReceipt /\ receipt.source = legacy /\ receipt.target = canon

\* _compute_legacy_relation
Relation ==
    IF ReceiptMatches THEN "exact-copy"
    ELSE IF canon = Empty THEN "pending-migration"
    ELSE IF canon = legacy THEN "exact-copy"
    ELSE IF \A f \in Present(canon) : legacy[f] = canon[f] THEN "compatible-partial"
    ELSE "divergent"

\* cleanup_safe, what status and doctor report.
CleanupSafe == State = "canonical-with-legacy-artifacts" /\ Relation = "exact-copy"

-----------------------------------------------------------------------------
(* _verify_cleanup_conservation and the checks before it.                  *)

\* Variant: a file of the same name is enough.
ConservedByName == Present(legacy) \subseteq Present(canon)

Conserved == \A f \in Present(legacy) : canon[f] = legacy[f]

Gate ==
    /\ State \in {"canonical-ready", "canonical-with-legacy-artifacts"}
    /\ legacyConfig
    /\ \/ Present(legacy) = {}
       \/ Conserved /\ (receipt # NoReceipt => receipt.source = legacy)

-----------------------------------------------------------------------------
(* inspect_destination and _preflight_destinations.  The hash of the       *)
(* destination is taken over other fields than that of the source, so data *)
(* with content are divergent even if they are the same files.             *)

DataState ==
    IF dataRoot = "absent" THEN "absent"
    ELSE IF canon = Empty THEN "owned-empty-shell" ELSE "owned-divergent"

ConfigState ==
    CASE configDir = "absent" -> "absent"
      [] configDir = "unbound" -> "non-empty-unbound"
      [] configDir = "bound" -> "owned-divergent"

\* Divergent data are a conflict, a divergent configuration is merged.
Preflight == DataState # "owned-divergent" /\ ConfigState # "non-empty-unbound"

-----------------------------------------------------------------------------
(* migrate apply: _execute_migration_locked.                               *)

\* plan_migration
Plannable == legacyConfig /\ Preflight

\* The plan is made, or read and found fresh: the source and the destinations are
\* what it says.  Nothing is written yet.
BeginApply ==
    /\ runs < MaxRuns
    /\ job = NoJob
    /\ Plannable
    /\ runs' = runs + 1
    /\ job' = [cmd |-> "apply", at |-> "stage", run |-> runs + 1, source |-> legacy,
               left |-> Present(legacy)]
    /\ UNCHANGED <<data, records, edits, faults, kills, history>>

\* The apply is at a step, and goes on to another.
ApplyStep(from, to) ==
    /\ job # NoJob
    /\ job.cmd = "apply"
    /\ job.at = from
    /\ job' = [job EXCEPT !.at = to]
    /\ UNCHANGED <<counters, history>>

\* The row, and the stage next to the data root, make the directory of the
\* configuration; neither binds it.
Stage ==
    /\ ApplyStep("stage", "copy")
    /\ phase' = "staging"
    /\ configDir' = IF configDir = "absent" THEN "unbound" ELSE configDir
    /\ UNCHANGED <<legacy, legacyConfig, canon, dataRoot, manifest,
                   journal, staged, before, receipt>>

CopyFile(f) ==
    /\ job # NoJob
    /\ job.cmd = "apply" /\ job.at = "copy"
    /\ f \in job.left
    /\ staged' = [staged EXCEPT ![job.run][f] = legacy[f]]
    /\ job' = [job EXCEPT !.left = @ \ {f}]
    /\ UNCHANGED <<data, phase, journal, before, receipt, counters, history>>

\* The stage holds the inventory, and so does the source, up to new files.
Unchanged(run) ==
    /\ staged[run] = job.source
    /\ \A f \in Present(job.source) : legacy[f] = job.source[f]

\* Ledgercore's plan names the data to replace as they are now.
CheckCopy ==
    /\ ApplyStep("copy", "activate")
    /\ job.left = {}
    /\ Unchanged(job.run)
    /\ before' = [before EXCEPT ![job.run] = canon]
    /\ phase' = "activation-prepared"
    /\ UNCHANGED <<data, journal, staged, receipt>>

StartExecutor ==
    /\ ApplyStep("activate", "data")
    /\ journal' = [journal EXCEPT ![job.run] = "data"]
    /\ UNCHANGED <<data, phase, staged, before, receipt>>

-----------------------------------------------------------------------------
(* Ledgercore's executor, for an apply and for a recovery that resumes.    *)

Executing(at) == job # NoJob /\ job.cmd \in {"apply", "recover"} /\ job.at = at

NextPhase(to) ==
    /\ job' = [job EXCEPT !.at = to]
    /\ journal' = [journal EXCEPT ![job.run] = to]

executorRest == <<legacy, legacyConfig, phase, staged, before, receipt, counters, kept>>

\* A recovery replaces data that a cleanup without receipt has relied on.
Undoes == hasty' = IF hasty = "cleaned" THEN "undone" ELSE hasty

\* Variant: the data are replaced whatever they are.
AnyBefore(r) == TRUE

\* The destination is what the plan says.
AsPlanned(r) == canon = before[r]

ActivateData ==
    /\ Executing("data")
    /\ AsPlanned(job.run)
    /\ canon' = staged[job.run]
    /\ dataRoot' = "bound"
    /\ NextPhase("config")
    /\ Undoes
    /\ UNCHANGED <<executorRest, configDir, manifest>>

ActivateConfig ==
    /\ Executing("config")
    /\ NextPhase("manifest")
    /\ UNCHANGED <<executorRest, hasty, canon, dataRoot, configDir, manifest>>

\* validate_activated runs first.  In a recovery it loads the layout, which takes
\* the manifest that this phase is about to write.
SwitchManifest ==
    /\ Executing("manifest")
    /\ job.cmd = "recover" => manifest
    /\ manifest' = TRUE
    /\ NextPhase("finalize")
    /\ UNCHANGED <<executorRest, hasty, canon, dataRoot, configDir>>

\* The hook of apply binds the directory of the configuration, that of recover
\* does not; both rebuild the indexes.
Finalize ==
    /\ Executing("finalize")
    /\ journal' = [journal EXCEPT ![job.run] = "committed"]
    /\ IF job.cmd = "apply"
       THEN job' = [job EXCEPT !.at = "activated"] /\ configDir' = "bound"
       ELSE job' = NoJob /\ UNCHANGED configDir
    /\ UNCHANGED <<executorRest, hasty, canon, dataRoot, manifest>>

\* An error of the executor, always if a precondition or a hook refuses.
\* An apply notes it in its journal, a recovery does not.
ExecutorFails ==
    /\ \E at \in Transaction : Executing(at)
    /\ \/ faults < MaxFaults /\ faults' = faults + 1
       \/ /\ job.at = "data" /\ ~AsPlanned(job.run)
          /\ UNCHANGED faults
       \/ /\ job.at = "manifest" /\ job.cmd = "recover" /\ ~manifest
          /\ UNCHANGED faults
    /\ phase' = IF job.cmd = "apply" THEN "failed" ELSE phase
    /\ job' = NoJob
    /\ UNCHANGED <<data, journal, staged, before, receipt, edits, runs, kills, history>>

-----------------------------------------------------------------------------
(* The end of apply.                                                       *)

Activated ==
    /\ ApplyStep("activated", "check")
    /\ phase' = "canonical-activated"
    /\ UNCHANGED <<data, journal, staged, before, receipt>>

TargetPreserved == canon = job.source

VerifyTarget ==
    /\ ApplyStep("check", "receipt")
    /\ TargetPreserved
    /\ phase' = "domain-verified"
    /\ UNCHANGED <<data, journal, staged, before, receipt>>

\* The target fingerprint is that of the verified inventory.
WriteReceipt ==
    /\ ApplyStep("receipt", "complete")
    /\ receipt' = [source |-> job.source, target |-> job.source]
    /\ phase' = "receipt-written"
    /\ UNCHANGED <<data, journal, staged, before>>

Complete ==
    /\ job # NoJob
    /\ job.cmd = "apply" /\ job.at = "complete"
    /\ phase' = "complete"
    /\ job' = NoJob
    /\ UNCHANGED <<data, journal, staged, before, receipt, counters, history>>

\* The other errors end an apply where it is: a failing copy, a source that has
\* changed, a target that is not the source.
ApplyFails ==
    /\ job # NoJob
    /\ job.cmd = "apply"
    /\ \/ job.at = "copy" /\ faults < MaxFaults /\ faults' = faults + 1
       \/ job.at = "copy" /\ job.left = {} /\ ~Unchanged(job.run) /\ UNCHANGED faults
       \/ job.at = "check" /\ ~TargetPreserved /\ UNCHANGED faults
    /\ job' = NoJob
    /\ UNCHANGED <<data, records, edits, runs, kills, history>>

-----------------------------------------------------------------------------
(* migrate recover: recover_migration with a journal of ledgercore.  A     *)
(* journal of releaseledger alone changes nothing.                         *)

\* Variant: a run that ended is recovered again.
AnyJournal(r) == job = NoJob /\ journal[r] # "absent"

Recoverable(r) == job = NoJob /\ journal[r] \in Transaction

Resume(r) ==
    /\ Recoverable(r)
    /\ job' = [cmd |-> "recover", at |-> journal[r], run |-> r]
    /\ UNCHANGED <<data, records, counters, history>>

\* Before the manifest is switched; data that were activated are put back.
Rollback(r) ==
    /\ Recoverable(r)
    /\ journal[r] # "finalize"
    /\ journal[r] # "data" => canon = staged[r]
    /\ canon' = IF journal[r] = "data" THEN canon ELSE before[r]
    /\ dataRoot' = IF journal[r] # "data" /\ ~manifest THEN "absent" ELSE dataRoot
    /\ journal' = [journal EXCEPT ![r] = "rolled back"]
    /\ Undoes
    /\ UNCHANGED <<legacy, legacyConfig, configDir, manifest, phase, staged, before,
                   receipt, job, counters, kept>>

-----------------------------------------------------------------------------
(* migrate cleanup: cleanup_migration.                                     *)

BeginCleanup ==
    /\ job = NoJob
    /\ Gate
    /\ job' = [cmd |-> "cleanup", at |-> "remove"]
    /\ hasty' = IF hasty = "no" /\ receipt = NoReceipt THEN "cleaned" ELSE hasty
    /\ UNCHANGED <<data, records, counters, kept>>

Cleaning == job # NoJob /\ job.cmd = "cleanup"

\* rmtree of the data directory, file by file.
RemoveFile(f) ==
    /\ Cleaning
    /\ f \in Present(legacy)
    /\ legacy' = [legacy EXCEPT ![f] = NoFile]
    /\ UNCHANGED <<legacyConfig, canon, dataRoot, configDir, manifest, records, job,
                   counters, history>>

\* The path of the configuration sorts after that of the data.
RemoveConfig ==
    /\ Cleaning
    /\ Present(legacy) = {}
    /\ legacyConfig' = FALSE
    /\ job' = NoJob
    /\ UNCHANGED <<legacy, canon, dataRoot, configDir, manifest, records, counters, history>>

-----------------------------------------------------------------------------
(* Everybody else.                                                         *)

Holds(files, f) == IF files[f] = NoFile THEN {} ELSE files[f]

With(files, f, e) == [files EXCEPT ![f] = Holds(files, f) \cup {e}]

\* A cleanup that runs has looked at the legacy files.
ChangeLegacy(f, e) ==
    /\ legacyConfig
    /\ legacy' = With(legacy, f, e)
    /\ kept' = IF Cleaning THEN kept ELSE With(kept, f, e)
    /\ UNCHANGED <<legacyConfig, canon, dataRoot, configDir, manifest, records, job,
                   runs, faults, kills, hasty>>

\* An apply that has not activated the data has looked at the shell.
Adopting ==
    job # NoJob /\ job.cmd = "apply" /\ job.at \in {"stage", "copy", "activate", "data"}

ChangeCanonical(f, e) ==
    /\ LayoutValid
    /\ dataRoot = "bound"
    /\ canon' = With(canon, f, e)
    /\ kept' = IF Adopting THEN kept ELSE With(kept, f, e)
    /\ UNCHANGED <<legacy, legacyConfig, dataRoot, configDir, manifest, records, job,
                   runs, faults, kills, hasty>>

NewEdit == edits < MaxEdits /\ edits' = edits + 1

\* The old tool, or an editor.
EditLegacy(f) == NewEdit /\ ChangeLegacy(f, edits')

\* A command on the canonical project, with or without the lock.
WriteCanonical(f) == NewEdit /\ ChangeCanonical(f, edits')

\* An edit of one side is made on the other as well, as the user is told to by
\* next_action resolve-conflict.
Reconcile(f) ==
    /\ UNCHANGED edits
    /\ \/ \E e \in Holds(canon, f) \ Holds(legacy, f) : ChangeLegacy(f, e)
       \/ \E e \in Holds(legacy, f) \ Holds(canon, f) : ChangeCanonical(f, e)

\* init of a registered project materialises what is missing.
Initialize ==
    /\ manifest
    /\ job = NoJob
    /\ configDir = "unbound" \/ dataRoot = "absent"
    /\ configDir' = "bound" /\ dataRoot' = "bound"
    /\ UNCHANGED <<legacy, legacyConfig, canon, manifest, records, job, counters, history>>

Kill ==
    /\ kills < MaxKills
    /\ job # NoJob
    /\ kills' = kills + 1
    /\ job' = NoJob
    /\ UNCHANGED <<data, records, edits, runs, faults, history>>

Next ==
    \/ BeginApply \/ Stage \/ (\E f \in Files : CopyFile(f)) \/ CheckCopy \/ StartExecutor
    \/ ActivateData \/ ActivateConfig \/ SwitchManifest \/ Finalize \/ ExecutorFails
    \/ Activated \/ VerifyTarget \/ WriteReceipt \/ Complete \/ ApplyFails
    \/ (\E r \in Run : Resume(r) \/ Rollback(r))
    \/ BeginCleanup \/ (\E f \in Files : RemoveFile(f)) \/ RemoveConfig
    \/ (\E f \in Files : EditLegacy(f) \/ WriteCanonical(f) \/ Reconcile(f))
    \/ Initialize \/ Kill

Spec == Init /\ [][Next]_vars

-----------------------------------------------------------------------------
TypeOK ==
    /\ legacy \in Inventory /\ legacyConfig \in BOOLEAN
    /\ canon \in Inventory
    /\ dataRoot \in {"absent", "bound"}
    /\ configDir \in {"absent", "unbound", "bound"}
    /\ manifest \in BOOLEAN
    /\ phase \in Phases
    /\ journal \in [Run -> Journal]
    /\ staged \in [Run -> Inventory] /\ before \in [Run -> Inventory]
    /\ receipt \in [source : Inventory, target : Inventory] \cup {NoReceipt}
    /\ job \in Job \cup {NoJob}
    /\ kept \in [Files -> SUBSET Edits] /\ hasty \in {"no", "cleaned", "undone"}
    /\ edits \in Nat /\ runs \in Nat /\ faults \in Nat /\ kills \in Nat

\* Whatever is applied, interrupted, resumed, rolled back and cleaned up, every edit
\* is still in the legacy file or in the canonical one.  Excepted are edits behind
\* the back of a running command, and a recovery after a cleanup without receipt.
EditsSurvive ==
    hasty # "undone" => \A f \in Files : kept[f] \subseteq Holds(legacy, f) \cup Holds(canon, f)

\* What a receipt says was migrated is in the canonical data, possibly edited
\* since: no stale journal of an earlier run takes it away again.
ReceiptIsTrue ==
    receipt # NoReceipt => \A f \in Present(receipt.source) :
        canon[f] # NoFile /\ receipt.source[f] \subseteq canon[f]

\* Both sides have the same content, more than the receipt: the same edits were made
\* on both since, or it is the receipt of a migration of nothing.
Outgrown ==
    /\ receipt # NoReceipt /\ receipt.source # legacy
    /\ canon = legacy
    /\ \A f \in Files : Holds(receipt.source, f) \subseteq Holds(legacy, f)

\* When status reports that a cleanup is safe, the gate of cleanup agrees, except where
\* both sides have outgrown the receipt in the same way: status does not ask for the
\* receipt when they are equal, the gate does.
StatusAgrees == CleanupSafe => Gate \/ Outgrown


=============================================================================
