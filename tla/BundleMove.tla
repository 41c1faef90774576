----------------------------- MODULE BundleMove ----------------------------
(***************************************************************************)
(* Renaming a release, directory by directory and file by file:            *)
(* rename_release_bundle and replace_canceled_release_bundle of            *)
(* storage/store.py and the steps of rename_release (services/releases.py) *)
(* that follow them.  The first moves the bundle of the release onto a     *)
(* free version; the second puts a rewritten copy in the place of a        *)
(* canceled release and deletes what it displaces, with an undo for        *)
(* errors.  An operation may fail at every step, and the process may be    *)
(* killed at every step; the command may then be run again.                *)
(*                                                                         *)
(* A bundle is a directory of files; of a file the model keeps whose file  *)
(* it is, the source's or the displaced release's, and the version that    *)
(* it says it belongs to.  Renaming a directory is atomic, removing one    *)
(* goes file by file.  The staged copy is private until it is renamed, so  *)
(* it is written in one step.                                              *)
(***************************************************************************)
EXTENDS Naturals, FiniteSets

CONSTANTS
    Entries,    \* the entry files of a bundle
    NoDir,      \* no such directory
    Gone,       \* no such file
    MaxRuns,    \* bound: rename commands
    MaxErrors,  \* bound: operations that fail
    MaxKills    \* bound: processes killed

ASSUME BundleMoveAssumption ==
    /\ Entries \cap {"release", "audit"} = {}
    /\ MaxRuns \in Nat /\ MaxErrors \in Nat /\ MaxKills \in Nat

Files == {"release", "audit"} \cup Entries
File == [of : {"source", "displaced"}, says : {"old", "new"}]
Bundle == [Files -> File \cup {Gone}]

ASSUME AbsentAssumption == NoDir \notin Bundle /\ Gone \notin File

\* The two version directories, and the hidden ones that a run makes for itself.
Old == <<"old", 0>>
New == <<"new", 0>>
Staged(n) == <<"staged", n>>
TargetBackup(n) == <<"target backup", n>>
SourceBackup(n) == <<"source backup", n>>
Dirs == {Old, New} \cup
    {Staged(n) : n \in 1..MaxRuns} \cup {TargetBackup(n) : n \in 1..MaxRuns} \cup
    {SourceBackup(n) : n \in 1..MaxRuns}

VARIABLES
    dirs,           \* directory -> its files
    successor,      \* previous_version of a release that follows the source
    section,        \* the heading of the release in the changelog
    events,         \* the runs that appended release.renamed
    pc,             \* the next step of the command
    loaded,         \* the entries and the audit sheet that the command found
    stale,          \* the canceled record of the target, found to be a successor
    targetMoved,    \* target_was_moved
    sourceMoved,    \* source_was_moved
    run, errors, kills,
    base,           \* history: dirs when the command started
    failed,         \* history: the steps of the command that failed
    overwritten     \* history: the stale record was saved over the renamed one

vars == <<dirs, successor, section, events, pc, loaded, stale, targetMoved, sourceMoved,
          run, errors, kills, base, failed, overwritten>>

-----------------------------------------------------------------------------
\* The command is at a step of the list, or at none.
Steps == {"idle", "rename", "release", "entries",
          "copy", "target away", "flag target", "put", "source away", "flag source",
          "remove target", "remove source",
          "undo source", "undo target", "undo backup", "cleanup",
          "audit", "successors", "event", "changelog"}

\* Where an error is caught by the undo of replace_canceled_release_bundle.
Guarded == {"copy", "target away", "flag target", "put", "source away",
            "flag source", "remove target", "remove source"}
Undoing == {"undo source", "undo target", "undo backup"}

Whole(of, says) == [f \in Files |-> [of |-> of, says |-> says]]

Init ==
    /\ \E target \in {NoDir, Whole("displaced", "new")}, audit \in BOOLEAN :
        dirs = [d \in Dirs |->
            IF d = Old
            THEN [f \in Files |-> IF f = "audit" /\ ~audit THEN Gone
                                  ELSE [of |-> "source", says |-> "old"]]
            ELSE IF d = New THEN target ELSE NoDir]
    /\ successor = "old"
    /\ section = "old"
    /\ events = {}
    /\ pc = "idle"
    /\ loaded = {} /\ stale = Gone
    /\ targetMoved = FALSE /\ sourceMoved = FALSE
    /\ run = 0 /\ errors = 0 /\ kills = 0
    /\ base = dirs
    /\ failed = {} /\ overwritten = FALSE

Exists(d) == dirs[d] # NoDir
Has(d, f) == Exists(d) /\ dirs[d][f] # Gone

\* shutil and pathlib: a directory renamed to a name that is free.
Renamed(d, e) == [dirs EXCEPT ![e] = dirs[d], ![d] = NoDir]

Goto(step) == pc' = step

-----------------------------------------------------------------------------
(* rename_release: the checks, and what it loads.                          *)

\* The target is free, or replaced on request if its record is canceled: that of
\* the displaced release is, and the copy of the source that a killed run leaves
\* may have been canceled since.  Each may name the source as its predecessor, and
\* is then one of the successors to relink: only the source itself is left out.
Start(replacing) ==
    /\ pc = "idle"
    /\ run < MaxRuns
    /\ Has(Old, "release")
    /\ replacing <=> Has(New, "release")
    /\ stale' \in IF replacing THEN {Gone, dirs[New]["release"]} ELSE {Gone}
    /\ run' = run + 1
    /\ loaded' = {f \in Files \ {"release"} : Has(Old, f)}
    /\ targetMoved' = FALSE /\ sourceMoved' = FALSE
    /\ base' = dirs
    /\ failed' = {} /\ overwritten' = FALSE
    /\ Goto(IF replacing THEN "copy" ELSE "rename")
    /\ UNCHANGED <<dirs, successor, section, events, errors, kills>>

others == <<successor, section, events, loaded, stale, run, errors, kills, base, failed,
            overwritten>>

Written(d, f, of, says) ==
    [dirs EXCEPT ![d] = [@ EXCEPT ![f] = [of |-> of, says |-> says]]]

Write(d, f, says) == dirs' = Written(d, f, "source", says)

-----------------------------------------------------------------------------
(* rename_release_bundle                                                   *)

\* The directory may exist although it has no release.md.
RenameBundle ==
    /\ pc = "rename"
    /\ IF Exists(New) THEN Goto("idle") /\ UNCHANGED dirs
       ELSE Goto("release") /\ dirs' = Renamed(Old, New)
    /\ UNCHANGED <<others, targetMoved, sourceMoved>>

SaveRelease ==
    /\ pc = "release"
    /\ Write(New, "release", "new")
    /\ Goto("entries")
    /\ UNCHANGED <<others, targetMoved, sourceMoved>>

\* save_entries_for_release, one entry after another.
SaveEntry(e) ==
    /\ pc = "entries"
    /\ e \in loaded
    /\ dirs[New][e] # [of |-> "source", says |-> "new"]
    /\ Write(New, e, "new")
    /\ UNCHANGED <<others, targetMoved, sourceMoved, pc>>

EntriesSaved ==
    /\ pc = "entries"
    /\ \A e \in loaded \ {"audit"} : dirs[New][e].says = "new"
    /\ Goto("audit")
    /\ UNCHANGED <<others, targetMoved, sourceMoved, dirs>>

-----------------------------------------------------------------------------
(* replace_canceled_release_bundle                                         *)

\* Variant: the release and its entries are copied, nothing else.
CopiedRecords(bundle) == [bundle EXCEPT !["audit"] = Gone]

Copied(bundle) == bundle

\* copytree, then the release and its entries are written anew; the sheet is not.
Copy ==
    LET copy == Copied(dirs[Old]) IN
    /\ pc = "copy"
    /\ dirs' = [dirs EXCEPT ![Staged(run)] =
            [f \in Files |-> IF f = "release" \/ (f \in Entries /\ copy[f] # Gone)
                             THEN [of |-> "source", says |-> "new"]
                             ELSE copy[f]]]
    /\ Goto("target away")
    /\ UNCHANGED <<others, targetMoved, sourceMoved>>

MoveStep(from, d, e, to) ==
    /\ pc = from
    /\ dirs' = Renamed(d, e)
    /\ Goto(to)
    /\ UNCHANGED <<others, targetMoved, sourceMoved>>

TargetAway == MoveStep("target away", New, TargetBackup(run), "flag target")
Put == MoveStep("put", Staged(run), New, "source away")
SourceAway == MoveStep("source away", Old, SourceBackup(run), "flag source")

FlagTarget ==
    /\ pc = "flag target"
    /\ targetMoved' = TRUE
    /\ Goto("put")
    /\ UNCHANGED <<others, dirs, sourceMoved>>

FlagSource ==
    /\ pc = "flag source"
    /\ sourceMoved' = TRUE
    /\ Goto("remove target")
    /\ UNCHANGED <<others, dirs, targetMoved>>

\* rmtree: one file, or the directory when it is empty.
RemoveStep(from, d, to) ==
    /\ pc = from
    /\ \/ \E f \in Files :
            /\ dirs[d][f] # Gone
            /\ dirs' = [dirs EXCEPT ![d] = [@ EXCEPT ![f] = Gone]]
            /\ Goto(from)
       \/ /\ \A f \in Files : dirs[d][f] = Gone
          /\ dirs' = [dirs EXCEPT ![d] = NoDir]
          /\ Goto(to)
    /\ UNCHANGED <<others, targetMoved, sourceMoved>>

RemoveTarget == RemoveStep("remove target", TargetBackup(run), "remove source")
RemoveSource == RemoveStep("remove source", SourceBackup(run), "audit")

-----------------------------------------------------------------------------
(* The except and finally clauses.                                         *)

\* Variant: the source is given back only when the target was never replaced.
SourceStays == sourceMoved /\ Exists(SourceBackup(run)) /\ ~Exists(Old) /\ ~Exists(New)

SourceReturns == sourceMoved /\ Exists(SourceBackup(run)) /\ ~Exists(Old)

UndoSource ==
    /\ pc = "undo source"
    /\ dirs' = IF SourceReturns THEN Renamed(SourceBackup(run), Old) ELSE dirs
    /\ Goto("undo target")
    /\ UNCHANGED <<others, targetMoved, sourceMoved>>

UndoTarget ==
    \/ Exists(New) /\ targetMoved /\ RemoveStep("undo target", New, "undo backup")
    \/ /\ pc = "undo target"
       /\ ~(Exists(New) /\ targetMoved)
       /\ Goto("undo backup")
       /\ UNCHANGED <<others, dirs, targetMoved, sourceMoved>>

UndoBackup ==
    /\ pc = "undo backup"
    /\ dirs' = IF Exists(TargetBackup(run)) /\ ~Exists(New)
               THEN Renamed(TargetBackup(run), New) ELSE dirs
    /\ Goto("cleanup")
    /\ UNCHANGED <<others, targetMoved, sourceMoved>>

Cleanup ==
    /\ pc = "cleanup"
    /\ dirs' = [dirs EXCEPT ![Staged(run)] = NoDir]
    /\ Goto("idle")
    /\ UNCHANGED <<others, targetMoved, sourceMoved>>

-----------------------------------------------------------------------------
(* rename_release after the bundle is in place.                            *)

\* Variant: the sheet is saved as it was loaded.
AuditVersionKept == "old"

AuditVersion == "new"

SaveAudit ==
    /\ pc = "audit"
    /\ IF "audit" \in loaded THEN Write(New, "audit", AuditVersion) ELSE UNCHANGED dirs
    /\ Goto("successors")
    /\ UNCHANGED <<others, targetMoved, sourceMoved>>

\* Variant: the link is dropped.
NoPrevious == "none"

NewPrevious == "new"

\* The successors are saved as they were loaded, one after another.
RelinkSuccessor ==
    /\ pc = "successors"
    /\ successor = "old"
    /\ successor' = NewPrevious
    /\ UNCHANGED <<dirs, section, events, pc, loaded, stale, targetMoved, sourceMoved,
                   run, errors, kills, base, failed, overwritten>>

\* So is the record of the displaced release, in the place that is the source's by
\* now, if its next revision fits there.
SaveStale ==
    /\ pc = "successors"
    /\ stale # Gone
    /\ dirs' = Written(New, "release", stale.of, "new")
    /\ stale' = Gone
    /\ overwritten' = TRUE
    /\ UNCHANGED <<successor, section, events, pc, loaded, targetMoved, sourceMoved,
                   run, errors, kills, base, failed>>

\* It does not: the command ends with an error, after the move.
RefuseStale ==
    /\ pc = "successors"
    /\ stale # Gone
    /\ failed' = failed \cup {pc}
    /\ Goto("idle")
    /\ UNCHANGED <<dirs, successor, section, events, loaded, stale, targetMoved, sourceMoved,
                   run, errors, kills, base, overwritten>>

SuccessorsSaved ==
    /\ pc = "successors"
    /\ successor # "old" /\ stale = Gone
    /\ Goto("event")
    /\ UNCHANGED <<others, targetMoved, sourceMoved, dirs>>

AppendEvent ==
    /\ pc = "event"
    /\ events' = events \cup {run}
    /\ Goto("changelog")
    /\ UNCHANGED <<dirs, successor, section, loaded, stale, targetMoved, sourceMoved,
                   run, errors, kills, base, failed, overwritten>>

WriteChangelog ==
    /\ pc = "changelog"
    /\ section' = "new"
    /\ Goto("idle")
    /\ UNCHANGED <<dirs, successor, events, loaded, stale, targetMoved, sourceMoved,
                   run, errors, kills, base, failed, overwritten>>

-----------------------------------------------------------------------------
\* An operation fails, or the process is interrupted: guarded steps are undone,
\* a failing undo goes on to the cleanup, the other steps just end.
Fail ==
    /\ errors < MaxErrors
    /\ pc \notin {"idle", "cleanup"}
    /\ errors' = errors + 1
    /\ failed' = failed \cup {pc}
    /\ Goto(IF pc \in Guarded THEN "undo source"
            ELSE IF pc \in Undoing THEN "cleanup" ELSE "idle")
    /\ UNCHANGED <<dirs, successor, section, events, loaded, stale, targetMoved, sourceMoved,
                   run, kills, base, overwritten>>

Kill ==
    /\ kills < MaxKills
    /\ pc # "idle"
    /\ kills' = kills + 1
    /\ Goto("idle")
    /\ UNCHANGED <<dirs, successor, section, events, loaded, stale, targetMoved, sourceMoved,
                   run, errors, base, failed, overwritten>>

Next ==
    \/ \E replacing \in BOOLEAN : Start(replacing)
    \/ RenameBundle \/ SaveRelease \/ (\E e \in Entries : SaveEntry(e)) \/ EntriesSaved
    \/ Copy \/ TargetAway \/ FlagTarget \/ Put \/ SourceAway \/ FlagSource
    \/ RemoveTarget \/ RemoveSource
    \/ UndoSource \/ UndoTarget \/ UndoBackup \/ Cleanup
    \/ SaveAudit \/ RelinkSuccessor \/ SaveStale \/ RefuseStale \/ SuccessorsSaved
    \/ AppendEvent \/ WriteChangelog
    \/ Fail \/ Kill

Spec == Init /\ [][Next]_vars

-----------------------------------------------------------------------------
TypeOK ==
    /\ dirs \in [Dirs -> Bundle \cup {NoDir}]
    /\ successor \in {"old", "new"} /\ section \in {"old", "new"}
    /\ events \subseteq 1..MaxRuns
    /\ pc \in Steps
    /\ loaded \subseteq Files /\ stale \in File \cup {Gone}
    /\ targetMoved \in BOOLEAN /\ sourceMoved \in BOOLEAN
    /\ run \in Nat /\ errors \in Nat /\ kills \in Nat
    /\ base \in [Dirs -> Bundle \cup {NoDir}]
    /\ failed \subseteq Steps /\ overwritten \in BOOLEAN

\* The files of the source: all that the command found, but the record once the
\* stale one of the displaced release was saved over it.
Its == loaded \cup (IF overwritten THEN {} ELSE {"release"})

\* Every file of the source is still there, all of them in one directory: whatever
\* happens to the command, the release that it renames is not lost.
SourceWhole ==
    \E d \in Dirs : Exists(d) /\ \A f \in Its :
        dirs[d][f] # Gone /\ dirs[d][f].of = "source"

\* Whatever fails and whenever the process is killed, the source can be recovered
\* whole, from its old directory, its new one or its backup, unless the removal
\* of the backup failed half-way.  Only its record is lost if the displaced release
\* named the source as its predecessor and its revision fitted.
SourceRecoverable == "remove source" \notin failed => SourceWhole

\* A replacement that fails before it removes the source leaves the two releases
\* as they were and no directory of its own behind; of the displaced release a
\* failing removal may leave a part.  Excepted are a failing undo and an interrupt
\* between the renaming of the source and the note that it was renamed.
UndoRestores ==
    [][pc = "cleanup" /\ kills' = kills
            /\ failed # {} /\ failed \subseteq Guarded \ {"flag source", "remove source"}
        => \A d \in Dirs :
            IF d = New /\ "remove target" \in failed
            THEN \A f \in Files : dirs'[New][f] \in {base[New][f], Gone}
            ELSE dirs'[d] = base[d]]_vars

\* The event of a rename is true: the bundle says the new version everywhere, the
\* old one is gone, the successor is linked; whatever earlier runs left behind.
\* Its record is excepted if a displaced release that named the source as its
\* predecessor was saved over it.
EventIsTrue ==
    [][events' # events =>
        /\ ~Exists(Old)
        /\ \A f \in Its : dirs[New][f] = [of |-> "source", says |-> "new"]
        /\ successor = "new"]_vars

=============================================================================
