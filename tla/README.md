# releaseledger: TLA+ models, checks and proofs

releaseledger keeps the release history of a project as files next to its
source: one directory per release, one file per changelog entry, one audit sheet
per release, one JSONL event log and two derived indexes, all under the
directory of a *ledger ref* (the ledger of one branch). A command of the CLI
reads files, decides, writes several files one after another, appends one event
and rebuilds the indexes. There is no database and no transaction: what keeps
the files consistent is the order of checks and writes in the services, a
revision counter in every record and, for some commands, a file lock.

This directory holds models of that, translated from `src/releaseledger`, the
TLC runs that check them on small instances, and theorems about them for every
value of the constants. `PROJECT.json` lists the components, the runs, the
mutants, the source lines of every definition, the findings and the hazards.

## How to run

    tlc -config ReleaseLifecycle.cfg MCTagImport
    tlapm ReleaseProofs.tla

and likewise for every run of `PROJECT.json` and every module whose name ends in
`Proofs`. The longest proofs (`MigrationProofs`, `BranchLedgersProofs`,
`ChangelogFileProofs`) take two to four minutes from nothing. `CoverageGate.cfg` takes three to
four minutes with two workers, `EntryAudit.cfg`, `ChangelogFile.cfg`,
`BranchLedgers.cfg` and `ReleaseLifecycle.cfg` one to three, the others less.

## Inventory

Paths are below `src/releaseledger/`.

| component | state it keeps | operations |
| --- | --- | --- |
| release records (`services/releases.py`, `domain/release.py`) | `releases/<version>/release.md`: status, previous_version, released_at, revision, git range, texts | create, tag, update, set-status, finalize, cancel, restore, rename, refresh, prepare, import-tags, chain check, chain repair |
| entries (`services/entries.py`, `domain/entry.py`) | `entries/entry-NNNN.md`: kind, summary, source_refs, status, order; `entry_count` in the release | add, add-many, import, update, set-status, delete, move, apply |
| audit sheets (`services/audit.py`, `domain/audit.py`) | `audit/commit-audit.yaml`: one row per commit with decision, evidence, staleness and target entry | init, apply, update, refresh, sync, validate, record-validation |
| storage (`storage/store.py`) | the files above, a revision in each | save, load, list, delete, rename bundle, replace bundle, rebuild indexes |
| write protocol (`cli_common.py`, `storage/locking.py`, `services/events.py`) | `write.lock`, `events/events.jsonl`, `indexes/*.json` | run_command, acquire and release, append_event, index rebuild |
| branch ledgers (`services/branch.py`, `storage/paths.py`) | `ledgers/<ref>/`, `ledger_ref` in the config | guard, status, start, merge |
| changelog file (`services/changelog_build.py`) | the changelog of the project | build, build --all, section remove, section rename |
| migration (`migration.py`) | JSONL journal, stage, receipt, ledgercore's journal | plan, apply, status, recover, cleanup |
| layout, health, repair (`ledgercore_backend.py`, `services/storage_health.py`, `services/storage_repair.py`) | manifest, mounts, binding markers | load layout, init, set and clear the data target, assess, repair index |
| review and git (`services/review.py`, `services/git_sources.py`) | none; git is read | review gate, ranges, snapshots, drift |
| text (`services/entry_lint.py`, `services/entry_prompt.py`, `domain/source_ref.py`) | none | lint, prompt, normalise refs |
| surface (`cli.py`, `protocol.py`, `api/`, `commands/`) | none | parse arguments, pick the lock, print envelopes |

**Interaction.** All of it goes through files. A CLI command calls one or more
services under `run_command`, which checks the branch guard and takes the lock if
the call site passes both `mutating` and `workspace_root`. A service resolves the
paths of the active ledger anew at every load and save. The entry commands
rewrite the release record (its count) and sheets (rows that name entries); cancel,
rename and repair rewrite other releases (links); branch merge adds entries to a
ledger that is not the active one; changelog, review and audit read the records.

**What is hard.** Several files per command without a transaction (a process
killed or an operation failing between any two writes); commands that run without
the lock next to those that have it; two spellings of one version (`v1.0` and
`1.0`) as two records with one identity; links by name between records, rows and
entries that several commands maintain; counters kept in two ways; undo code that
must find out how far the command got; state read before a move and written
after it; records and audit evidence that become stale.

**What makes each component correct.**

- release records: the event log names the revision of every record a command
  wrote; predecessor links that resolve go on resolving; canceled releases come
  back by restore only; chain repair leaves one line.
- imports: an import of tags is a sequence of ordinary commands, and one that goes
  on where the chain ends leaves the chain in line.
- write protocol: commands under the lock are atomic up to a torn prefix, the log
  tells the truth, a saved update is not lost, the lock always comes free.
- entries and sheets: counts are exact; rows name entries that exist; moves
  conserve; review work is not lost unasked.
- bundles: the release that is renamed is never lost, an undo restores, an event
  of a rename is true.
- branch ledgers: a command writes the ledger it was meant for, a ledger's log is
  its own, a merge that completes has brought every commit, one owner per commit.
- changelog: one section per version, the sections of others kept, order
  canonical, a second full build changes nothing, nothing both folded and listed.
- migration: no edit of either side is lost, a receipt stays true, status and
  cleanup agree on when cleanup is safe, up to edits that both sides got behind a
  receipt.
- review: the two implementations of coverage agree, what may be finalized may be
  published as long as git has the head of the range.

`PROJECT.json` "hazards" has the individual hazards with their lines and the
properties aimed at each.

## Modules

| module | models | checked by |
| --- | --- | --- |
| `ReleaseLifecycle` | the release commands over all records of a ledger, one step per command | through `TagImport` |
| `TagImport` | `release import-tags` as several steps beside those commands | `release_lifecycle`, `rename_status` |
| `ReleaseProofs` | theorems about both | tlapm |
| `WriteProtocol` | the steps inside a command, several processes, lock, log, indexes | `write_locked`, `write_mixed`, `write_unlocked_log` |
| `AtomicLedger` | what exclusive commands promise | refined by `WriteProtocol` |
| `WriteProtocolProofs` | theorems about `WriteProtocol`, with any use of the lock and with every command locked | tlapm |
| `BranchLedgers` | the ledgers of several refs, start, merge and two ordinary commands | `branch_ledgers` |
| `BranchLedgersProofs` | theorems about it | tlapm |
| `EntryAudit` | entries, counts and audit sheets, each command as its sequence of saved states | `entry_audit` |
| `EntryAuditProofs` | theorems about it | tlapm |
| `BundleMove` | the directories and files of a rename, with errors, undo and kills | `bundle_move` |
| `BundleMoveProofs` | theorems about it | tlapm |
| `ChangelogFile` | the changelog as a sequence of lines, read and rewritten without a lock | `changelog_file` |
| `ChangelogFileProofs` | theorems about it | tlapm |
| `Migration` | legacy and canonical files, journals, receipt, the executor | `migration`, `migration_cleanup` |
| `MigrationProofs` | theorems about it | tlapm |
| `CoverageGate` | the release gate over a git history that moves | `coverage_gate` |
| `CoverageGateProofs` | theorems about it | tlapm |
| `MC...` | the constants of a small instance | |

The models look at the same program at different grains. In `ReleaseLifecycle` a
command is atomic, which `WriteProtocol` justifies for commands under the lock
that are not torn (`ImplementsAtomicLedger`, proved for any number of processes
when every command locks). `TagImport` composes it with a
command that is not atomic, and is proved to implement it. `EntryAudit` keeps
commands exclusive but lets one stop after any of its saves. `BundleMove` takes one command, rename, apart to
single file operations. `BranchLedgers` repeats the protocol with what a command
resolves anew at each step. `CoverageGate` takes the commands on one release as
steps and leaves git free to move between them.

### ReleaseLifecycle

`rel` maps each version (the name of a directory) to its `release.md`, or to
`AbsentRecord`. Kept are the fields that decide: status, previous_version,
released_at, revision. `Identity` is `release_identity_key`, `Semver` and
`NameOrder` stand for the two parts of the sort keys; dates are numbers. The
event log is kept as what the properties need: per version the revision that the
newest event naming it recorded (`logged`), the last event, and the number of
events, which bounds a behaviour (`MaxEvents`). Each command is an action with
the early returns of its function as guards and the writes of its successors,
event and records in one step; text fields are one bit ("some other field
changes"), so that an update without effect stays a conflict. `RenameReleaseFails`
is the one command that can end half-way by a check of its own: a stale successor
record that does not fit the displaced bundle is refused by `save_release` after
the move. `torn` names what it wrote.

### TagImport

`BeginImport` reads tags and records and plans a predecessor for every release it
will create; `CreateImported` and `RangeImported` are its calls of
`create_release` and `update_release`, one release after another; `RangeRefused`
is the `except LaunchError: pass` around the second; `ImportStops` is an error of
the first, or a kill. `OtherCommand` is any step of `ReleaseLifecycle` in between,
since the import runs without the lock. A release whose planned predecessor is
none, and which is not the first selected, gets a head without a base, which
`update_release` refuses: it has no range.

`ImportKeepsLine` speaks of smooth imports only (history variable `smooth`): no
other command in between, a ledger of released and dated records without aliases
that `chain repair` would not change and whose versions, identities and dates are
in one order, and tags whose versions and dates follow those records and each
other. Outside of that the code promises nothing, and the
model shows: an import that fills a hole in the middle leaves two releases with
one predecessor until a repair; a rename between plan and creation leaves the new
release with a predecessor that is gone; `owner_for` may plan a canceled or an
unreleased record.

### WriteProtocol and AtomicLedger

A process goes through `acquire`, `load` (every record of its plan), `validate`
and `write` (per record), `events`, `append`, `list`, `reindex`. `Plan` gives the
records a command saves in order, `Locking` the commands whose call of
`run_command` takes the lock. A record's content is the set of runs whose changes
it contains, which makes a lost update visible; revisions are numbers. One file is
written atomically (ledgercore's atomic writes, external). A kill or an unhandled
error ends a command at any step and the operating system gives the lock back.

`AtomicLedger` says what a user may expect: a run is one step with all its
records and one event, or a torn prefix without an event. The refinement maps
the abstract store and log to the disk while nobody holds the lock, and to their
value when the lock was taken while somebody does.

### BranchLedgers

`ledger` maps a ref to its directory (one release, its entries, its log),
`active` is `ledger_ref` in the config, `branch` what git has checked out. A
process runs `release create` or `entry add` with the lock, or `branch start` or
`branch merge` without it; every load, save and append is a step that resolves the
ledger anew. `start` copies file by file and switches the config when the copy is
there; `merge` loads both lists of entries and adds what is missing, one entry at
a time, each with its own event. `append_event` resolves the ledger whose log it
writes from its argument but reads the log of the active ledger. `checked`,
`switched`, `overlapped` and `base` are history: the ref the branch guard
compared, whether a start changed the config under a running command, whether
another command wrote meanwhile, and the commits a merge set out to bring.

`loose` is history too. Two writers that overlap do not give a commit a second
owner: both take the next id of the same entries, and the save of the second is
refused. `OwnersStayOnce` says so and names the three ways that are left, each of
which the model reaches: a branch start moves a running `entry add` to a ledger it
has not read; the undo of a refused save frees an id that another command has
counted past, so that two saves of different ids meet; and a copy by branch start
goes over a ledger that a command has read meanwhile. `loose` collects the ledgers
to which one of these happened; a copy of a ledger in which a commit has two
owners already is the last exception.

### EntryAudit

`disk` has, per release, the entries by id, `entry_count` and the sheet. A command
computes the states of the disk after each of its saves; `Run` takes the last of
them, or, at most `MaxTorn` times, an earlier one. An entry is a text, its source
refs, a status and an order. An audit row has its decision, whether it is
inspected, whether it is stale, and the two names of its target,
`target_entry_id` and `target_entry_key`. Annotations given by a reviewer are
inputs. Duplicate checks, ids, orders, count up or recount, the three ways in
which a row can name an entry, detaching, renumbering, staleness and the check of
completed rows are as in the code.

### BundleMove

`dirs` maps the two version directories and the hidden ones (staged copy, target
backup, source backup of each run) to their files; of a file the model keeps whose
it is and which version it says. Renaming a directory is one step, removing one
goes file by file. `Fail` is an error or interrupt at any step, caught by the
`except` of `replace_canceled_release_bundle` where the code catches it; `Kill`
ends the process anywhere. A later run starts on what is there. The record of the
displaced release may itself be one of the successors that the command loaded
(releases.py:2011 leaves out the source only): it is then saved as it was into the
directory that the source has moved to (`SaveStale`), or refused after the move
because its revision does not fit (`RefuseStale`). This is the finding
`rename_status` seen from the files; `overwritten` remembers it, and the
properties keep to the rest of the bundle from then on (`Its`).

### ChangelogFile

`file` is a sequence of lines, each a kind (title, unreleased, heading, note,
start and end of the generated block, sentinel, ref) and the release it is about.
A command reads file and records in its first step, works out the new text with
operators translated from the pure functions of `changelog_build.py`, and writes
it in its second; nothing takes the lock. A version is a sequence of parts, because
`find_release_section` matches any heading that begins with the version.

What the code does, and the properties except by name: removing `1.0.0` may
remove the section of `1.0.0-rc1` when that comes first, and reordering with both
copies the candidate's section twice; the last section takes the link references
and the sentinel behind it with it; rename with `--replace-existing` leaves two
sections of the new name; in a document of nothing but Unreleased every full build
adds another sentinel; two commands at once lose the edit of the one that writes
first (the properties speak of commands that run `Alone`).

### Migration

The content of a file is the set of edits that made it, so that equal hashes are
equal sets and a lost edit is a missing element. `phase` is releaseledger's own
journal, `journal` ledgercore's journal of each run. `Stage`, `CopyFile`,
`CheckCopy`, the four activations, `VerifyTarget`, `WriteReceipt` and `Complete`
are the steps of apply; `Resume` and `Rollback` those of recover; cleanup passes
`Gate` and then removes file by file. `EditLegacy` and `WriteCanonical` edit either
side at any time, `Reconcile` makes an edit of one side on the other as well (what
status asks for by `resolve-conflict`), `Kill` ends the process that holds the lock.

Ledgercore's executor is external and modelled as migration.py relies on it: it
activates data, config and manifest in this order and then calls the finalize hook,
it refuses an item that is not what the plan said it was (`expected_before`), and
it can roll back before the manifest is switched. What this shows besides the
properties: recover writes no row of its own, so after an apply that failed and
was rolled back status goes on reporting that a recovery is required; an apply
killed before the switch of a project without a canonical shell cannot be resumed,
because the validation wants the manifest; a killed cleanup that had a receipt can
never go on, since the source no longer has the fingerprint of the receipt.
Edits made behind the back of a running command are not counted as kept.

A cleanup that found no receipt, and a recovery of an earlier run behind it, take
the edits of the legacy files away: a rollback deletes what was activated, a resume
replaces it (`hasty`, the finding `migration_cleanup`). `EditsSurvive` excepts what
comes after that.

Status and cleanup do disagree, in one way: an edit that comes after the receipt and
is made on both sides leaves them equal, status then says exact-copy and safe
without looking at the receipt (migration.py:3075), the gate refuses because the
source is not the receipt's (migration.py:3662). `Outgrown` is this state, and
`StatusAgrees` says that there is no other.

### CoverageGate

`reach` is the git history, `pin` the stored head SHA, `sheet` the decision of each
row, `entries` the accepted entries, `section` what the changelog has. Prepare,
update, refresh, the audit commands, entries, finalize, reopening and build are
actions; refresh of a release is two, since it moves the head first and rebuilds
the sheet afterwards. `Commit`, `TagHead` and `Collect` (garbage collection) are
git's: the release's tag is set where HEAD is, not where the range ends, and what
neither HEAD nor a tag reaches may be collected at any time. `Passes` is `build_release_review` under `--strict`, gate by gate;
`StrictBuild` and `BuildCovers` are the second implementation of coverage.
`promised` is history: the finalize checks that passed since the last command that
is not part of publishing; what git does leaves it alone. `PublishedFollows` is
about these checks and has one exception, exactly that of the code: when the range
was pinned on a commit that a later rewrite dropped, the tag was set elsewhere and
git has collected the commit, the published check fails although the finalize
check had passed (`snapshot_ok`, review.py:1102). A tag that reaches the head of
the range keeps that from happening.

Taken to pass: other releases, lint, the subject guard; the Unreleased section is
empty (with notes there the dry run of the gate never passes, as it gives no
policy for them). Not modelled: `boundary_ref`, which the two implementations
treat differently, the gate without `--strict`. `OwnershipOk` looks for commits of
the range that change the changelog, where the code takes the net diff of the range:
a change that is taken back within the range is none there. The published check
passes without a changelog file (releases.py:2304), which `PublishedFollows` says;
merge commits are never audited, and headings are compared but not the text of a
section. That `refresh` may leave a sheet of another range than the stored one is
in the model and has no property of its own: the gate computes range and rows anew
at each check, so it cannot pass on it by definition.

## Runs

| run | shows | bounds, and why they are enough |
| --- | --- | --- |
| `release_lifecycle` | the types, `RevisionsLogged`, `LinksStayResolved`, `CancelRelinks`, `TombstonesKept`, `RepairLinearizes` over every sequence of commands and imports; `ImportKeepsLine` | 3 versions, two of them spellings of one release, 2 dates, tags of both releases, 4 commands of which an import counts as two: cancel, rename and repair each need at most three earlier commands to meet an alias, a canceled target and a successor, and an import with two commands beside it meets each of them in between |
| `rename_status` | finding: rename over a canceled target that names the source cancels the renamed release | same instance |
| `write_locked` | refinement of `AtomicLedger`, no lost update, the lock comes free, types | 2 processes, 3 commands of 2 records with one in common, 1 kill: every pair of steps of two commands, and a third command after a torn one |
| `write_mixed` | events are true also beside commands without the lock | 2 processes, 3 commands with and without the lock, 1 kill |
| `write_unlocked_log` | finding: two commands without the lock lose an event | 2 commands |
| `branch_ledgers` | one owner per commit, writes stay in the ledger, events survive, merges are complete | 2 refs, 2 processes, 1 kill, 2 commits, ids up to 5; 4 commands from the beginning of a project, or 3 from two ledgers in use: a start, a command on either side and a merge that overlaps another command, and a merge of two entries into a ledger that others write; three refs, three processes and five commands were checked once, too long for a run |
| `entry_audit` | counts, targets, conservation, review work | 2 releases, 2 commits, ids up to 3, 3 commands of which 1 torn, from states with entries and a reviewed sheet |
| `bundle_move` | the source is never lost but for two steps (its last removal; its record, when a displaced successor is saved over it), undo restores, events are true | 3 runs, 2 failing operations, 2 kills, 2 entries: a retry after a failed or killed retry |
| `changelog_file` | others kept, sections once, canonical order, a stable full build, folded once | 3 releases, one a candidate name of another, 3 first files, 2 processes, 3 commands, 1 change of status: fold, finalize, build, or two at once and one after |
| `migration` | no edit lost, receipts true, status agrees with cleanup but where both sides have outgrown the receipt | 2 files, 2 applies, 2 edits and their reconciliations, 1 error, 2 kills: an apply interrupted, a second one, and a recovery of the first; an edit behind a receipt, made on both sides |
| `migration_cleanup` | finding: cleanup without receipt or committed journal | same, with 1 kill |
| `coverage_gate` | published follows from finalize unless the head of the range was collected, the two coverages agree | 4 commits with 1 fork, 1 accepted entry of a commit and 1 of the source ref at a time, 2 dates: a side branch and its merge, or a rewritten history with a commit after it; a range of several commits passes with the others rejected or internal. Two entries of any ref, with one date, were checked once, too long for a run |

`MCEntryAudit` starts behaviours from states that some commands reach from
`Init` (entries added, sheet made, rows annotated), so that the three commands
of a behaviour go into interesting ones. It is a subset of the reachable states and
gives TLC depth; the module's own `Init` is the empty ledger. `MCBranchLedgers` adds
`TwoInUse` for the same reason: what a create, a start and some adds on either
side leave behind. Symmetry is used
where identities do not matter: the processes of `BranchLedgers` and
`ChangelogFile`, the dates of `CoverageGate`, which the gate compares only for
equality. The run of `CoverageGate` begins without a changelog file (`Found`); a file
that has no section of the release adds states in which `PublishedFollows` says
nothing, and the theorem is about any `Found`.

Deadlock is checked where a model has a step for the user who gives no further
command or where some command is always possible (`BranchLedgers`,
`ChangelogFile`, `CoverageGate`): no process waits forever. The others stop when
the bounds on their commands are used up.

## Fairness

Only `WriteProtocol` states fairness: `WF_vars(Step(p))`, a process that has
started a command goes on (the operating system schedules it, and no step of a
command waits for another process but acquiring the lock, which a timeout ends).
Nobody has to start a command, and nobody is killed by fairness. `LockIsReleased`
uses it. The other modules state safety only.

## Proofs

Every theorem is for all values of the constants that satisfy the named
assumptions of its module (`VersionAssumption`, `InputAssumption`,
`ImportAssumption`, `ProtocolAssumption`, `BranchAssumption`, `ConfigAssumption`,
`BundleMoveAssumption`, `AbsentAssumption`, `MigrationAssumption`,
`NothingAssumption`, `GateAssumption`, `EntryAuditAssumption`, `FilesAssumption`,
`ChangelogAssumption`, `ShapeAssumption`): any
number of versions, processes, ledgers, commits, files, commands, errors and kills.
The assumptions say that the values that stand for an absence are no values and
that the bounds are numbers; `ConfigAssumption`, `NothingAssumption` and
`FilesAssumption` do so for strings, sets and records that the modules use as such
values, and `FilesAssumption` that a ledger has finitely many releases. Three say
more of the code: `ShapeAssumption` that the changelog a behaviour begins with is
missing, empty or of the form that the commands write and Keep a Changelog asks for
(a title, one Unreleased heading at most, markers only as a fold leaves them; a
file that was written by hand in another form is not covered), `VersionAssumption` that the orders and identities are functions
of the version and the identity of an identity is itself, `ImportAssumption` that a
tag stands for its version and that this parses (import-tags skips the others,
releases.py:2181). TLC evaluates them in every run.

| module | theorem | states |
| --- | --- | --- |
| `ReleaseProofs` | `TypeCorrect`, `RevisionsAreLogged` | the types; `RevisionsLogged` |
| | `CancelsAlwaysRelink`, `TombstonesStay`, `LinksStay`, `RepairsMakeALine` | `CancelRelinks`, `TombstonesKept`, `LinksStayResolved`, `RepairLinearizes` |
| | `ImportImplementsLifecycle` | every step of an import, whatever runs beside it, is a step of `ReleaseLifecycle` or changes no release |
| | `ImportTypesCorrect`, `ImportedRevisionsAreLogged`, `ImportsKeepTheLinks`, `ImportsLeaveRepair` | the types and the properties above, of behaviours with imports |
| | `ImportsStayInLine` | `ImportKeepsLine` |
| `WriteProtocolProofs` | `TypeCorrect`, `EventsTellTheTruth` | the types; `EventsAreTrue`, with and without the lock |
| | `LockedCommandsLoseNothing`, `LockedCommandsAreAtomic` | `NoLostUpdate` and `ImplementsAtomicLedger`, when every command locks |
| `BranchLedgersProofs` | `LedgersTyped`, `WritesStay`, `EventsStayThere`, `OwnersStay`, `MergesComplete` | the types and all four action properties of `BranchLedgers` |
| `EntryAuditProofs` | `AuditTypesCorrect`, `CountsAreExact`, `TargetsStay`, `MovesConserve`, `ReviewsAreKept` | the types, `CountExact`, `TargetsStayResolved`, `MoveConserves`, `ReviewIsKept` |
| `BundleMoveProofs` | `Types`, `SourceStaysWhole`, `ReplacementsAreUndone`, `RenamesAreComplete` | the types, `SourceRecoverable`, `UndoRestores`, `EventIsTrue` |
| `ChangelogFileProofs` | `ChangelogTypes`, `FoldedListedOnce` | the types and the shape of the file; `FoldedOnce` |
| `MigrationProofs` | `MigrationTypesCorrect`, `EditsAreKept`, `ReceiptsStayTrue`, `StatusAgreesWithCleanup` | the types, `EditsSurvive`, `ReceiptIsTrue`, `StatusAgrees` |
| `CoverageGateProofs` | `GateTypesCorrect`, `CoverageImplementationsAgree`, `PublishedChecksFollow` | the types, `GatesAgree`, `PublishedFollows` |

**Releases.** The inductive invariant is `TypeOK /\ RevisionsLogged`. A step keeps
"the newest event has the revision of the file" because it writes only records
that its event names, and the lemma `LogStep` reduces each command to that fact;
cancel, rename and repair are where it is not obvious, since they write several
records, and a rename that fails names what it wrote in `torn`. The action
properties need only the types: lemmas of the form of `CancelEffect`,
`RenameEffect` and `RepairEffect` say which records a command writes and which of
their fields, `OneWritten` covers the commands that write one. Relinking is proved
from what cancel does with every successor, whatever their number, and
`LinksStayResolved` from the checks by which cancel and rename refuse a successor
that would dangle.

`RepairLinearizes` needs one more fact, that a ledger has finitely many records
(`FInv`, kept because a step adds one at most). The sort key of repair is a strict
total order on the releases that are not canceled (`SemverOrder`, `ReleasedOrder`,
`ChainOrder`); in a finite set of them one is first and one last (`FirstOfChain`,
`LastOfChain`: a release with the smallest set of releases before it, by the
well-foundedness of inclusion, which takes the place of an induction). So every
release but the first has exactly one right before it (`ExpectedPreviousIs`), and
two with the same one, or a cycle, would contradict the order (`RepairsLinear`).

**Imports.** `CreateImportedIsCreate` shows that the import's call is a
`CreateRelease` with a predecessor that create may be given or may infer,
`RangeImportedIsUpdate` that the second call is an `UpdateRelease` of another
field; that needs the types of what is planned and pending. All else follows from
the refinement without an induction of its own. TLC checked it on the instance of
`release_lifecycle` with three commands; it is not a run because the proof says
more.

`ImportKeepsLine` is proved with the invariant `OnLine` of a smooth import: the
records are released and dated, one of each identity, in one order of versions and
dates (`AllReleased`, `OneSpelling`, `OneOrder`); those to come are behind them
(`PendingFollow`); and a predecessor is planned for the very next release at most,
and is then the last record (`PlanFits`). The last is where the plan is right for a
reason that is not obvious: an identity before the new one is the last of *all*
identities, tags included, so a planned owner means that nothing is to be created
in between (`PlanIsLatest`). For every other release the plan says nothing, and
`PreviousIsLatest` shows that inference finds the last record as well. `LineGrows`
then adds it to the end of the line. The proof needs the condition in `Continues`
that versions, identities and dates are in one order: without it the three orders
of the code part (see below).

**Write protocol.** `EventsAreTrue` needs `Position` (a process is as far in its
plan as its step says), `DistinctRuns` (no two commands have one number) and
`RowsAreTrue` (the rows a process has read from the log, and is about to write
back, are true as well, which is why a stale copy of the log can lose an event but
not invent one). The locked theorems are about `Locking = Commands`: the code
runs some commands without the lock, `write_unlocked_log` shows what then
happens, and so the theorem says what the lock gives to those that take it. Their
invariant adds `Exclusive` (who is past `acquire` holds the lock) and
`SeenIsCurrent` (what the holder has loaded and not yet saved is on disk), the
refinement also the abstract state at the time the lock was taken.

**Branch ledgers.** `Types`, `Courses` (which kind of command is at which step,
and whether it was told its ledger), `Places` (the active ledger exists, a ledger
that does not exist has no files) and `LockHeld` are inductive together. Each
property adds one fact about what a command knows: `Guarded` and `Resolved` where
it writes, `LogIsRead` and `TreeIsNew` that nothing came between a read and a
write unless the history variables say so, `SavesAreChecked` that a save is of the
next id of entries that are still those checked, and `MergesBring` that the
commits of a branch are in the target, in the list, or in the entry at hand. The
lemma `OthersStep` is where processes meet: a step of one leaves the command of
another as it was, and marks it when it wrote or switched.

**Entries and audit.** The inductive invariant is `TypeOK /\ CountExact`, and
`StepHolds` is what every step does with files, counts, rows and reviews. A command
is a sequence of states of the disk: the lemmas about one write (`EntryWritten`,
`SheetWritten` and the like) are applied to each, and `RunEffect` says that a
command leaves the last of them or is torn. Counts are cardinalities of the entries
a release has, so the finiteness of `Ids` carries them. `MoveConserves` counts
entries and rows over all releases: that a move takes one from its source and
gives one to its target is an equality of finite cardinalities, proved for any
content and any decision. Nothing is assumed of the rows a reviewer writes, stale
ones and those whose id and key name different entries included.

**Bundles.** The invariant is the list of what the directories hold at each step
of a run: `SourceHeld` where the whole source is, `Done` which files say the new
version already, `Present` which directories exist, and `Undoable` what an undo can
still put back, as long as no step of it has failed (`SourceBack`, `TargetBack`,
`OthersBack`, each in terms of what the run found). `Fresh` (the hidden names of
later runs are free) and `SourcePlaces` (the old directory and its backups hold
files of the source only) are what lets a run begin on whatever killed runs left.
Two cases decide the form of the invariant: an interrupt between a renaming and
its flag, where for the target the free directory tells the undo enough and for
the source nothing does (hence the exception of `UndoRestores`), and a failing
removal of the source backup (hence that of `SourceRecoverable`). The third
exception, the record that a displaced successor was saved over, is no case of its
own in the invariant: what is said of the files of the source is said of `Its`.

**Changelog.** `IInv` adds to `TypeOK`, whose first part `Shaped` is the form of the
file, what the processes have planned: a text that is about to be written has the
form, and lists no folded release when it comes from a full build. Since a
command writes what it worked out from an earlier file, that is needed as much as
the form of the file. The rest is about operators. `SpliceShaped` says where a file
may be cut: not inside the markers of a fold (`CutAt`, `EndsAt`), which holds of
every place that the commands look for, since a heading, a reference or the end of
the file is none of the three lines. Insert, replace, remove, the references and
the clearing of Unreleased are splices. `ReorderShaped` goes along the sections in
the order of the file (`SoFar`, `FirstChunk`, `NextChunk`): what stands between two
sections stays, what takes their places has no marker in it, and the Unreleased
heading, when it is met, is met once, also where two records have found the same
section. `FoldedOnce` is a fact about `Full`: `Selected` leaves out the release that
is folded, and `StripIs` says that a fold that is kept from the file is of a release
that is not selected; since the form allows one fold, stripping the first is
enough. What flattening, selecting and sorting return are lemmas by least
counterexamples (`NatSets`, `FlattenIs`, `AmongType`, `InFileOrderIs`).

**Migration.** The invariant says what each file may be at each step of an apply:
`EditsKnown`, `ShellsAreEmpty`, `JobsAreJournaled`, `OneIsActive` (at most one run
that staged anything is between activation and commit), `ReceiptsAreCommitted`,
`NothingIsLost` (`EditsSurvive`, and that what a pending run could take back by a
rollback is still in the legacy files), `SomethingMigrated` (no apply copies nothing)
and `ReplacedStands`: only one run can still replace data that are not empty, and
while it can, nothing else is active, no receipt is out, the canonical files still
hold what it would replace, and all of it that must be kept is in the legacy files.
Edits are arbitrary but for `EditKinds`: what a side gets is new, or the other side
has it. `StatusAgrees` then follows from `ReceiptsAreCommitted`. `Bookkeeping` carries
the parts that concern only journals and jobs.

**Coverage gate.** `GatesAgree` follows from the definitions in every state, also one
no behaviour reaches: it is a fact about the two implementations of coverage.
`PublishedFollows` needs `History` (what a commit reaches is closed, and no commit
that is kept reaches one that is collected), `RecordOK` (a released record has its
date) and `PromisesKept`: what a check that passed has found of sheet, entries and
the commits of the range stays so until a command changes it, also when the head of
the range is collected. Whether the head is still there is then the only open
question, and a tag, never collected itself, answers it for all that it reaches.

Only model-checked: `OthersKept`, `SectionsOnce`, `CanonicalOrder` and
`RebuildStable` of `ChangelogFile`, which compare two files line by line, and
liveness under fairness (`LockIsReleased`), which is out of the prover's reach like
ENABLED. All other properties of the passing runs are theorems.

## Findings

Three findings in `PROJECT.json`, each shown by a run that states what the
repository's own text promises: commands without the lock lose events; rename over
a canceled target changes the status of the renamed release; cleanup of a
migration needs neither a receipt nor a committed journal.

Further disagreements with the repository's text that the models show; the
properties of the runs except them or do not reach them:

- `cancel --successor-previous S` with `S` the successor itself leaves `S` its own
  predecessor (releases.py:1780; the docstring, releases.py:1714, says "without
  leaving invalid successor links").
- Two commands without the lock both pass the revision check before either
  writes, and the first update is lost (store.py:697; ARCHITECTURE.md:887 says that
  the second save detects the mismatch). In `WriteProtocol` it takes
  `Locking = {}` and `NoLostUpdate`.
- When the last step of a replacement, the removal of the source backup, fails
  half-way, the undo restores the half-removed backup and deletes the whole new
  bundle (store.py:655; the docstring says "Atomically replace"). `SourceWhole`
  of `BundleMove` fails there, which is why `SourceRecoverable` excepts it.
- `entry import` and `entry update` accept source refs that another entry owns
  (entries.py:816; docs/commands.md:285 says that duplicate ownership is rejected).
- Strict audit validation never sees stale rows: it looks for an issue code that
  nothing emits (audit.py:1082).
- `changelog build --all --unreleased-version` replaces notes written by hand in
  Unreleased (changelog_build.py:2211; docs/commands.md:280 says that they are
  always preserved by default).
- An `entry add` with the lock may give a commit that has an owner a second one,
  when a branch start, a refused save or a copy comes between its check and its
  save (`loose` of `BranchLedgers`; docs/commands.md:285 says that duplicate
  ownership is rejected).
- import-tags plans predecessors by the order of identities (releases.py:2522),
  create infers them by version (releases.py:313), chain repair orders by date
  (releases.py:2838). Where dates run against versions, an import of tags behind a
  repaired ledger leaves a chain that repair changes at once, though each of the
  three is meant to say what the previous release is.
- Once both sides got the same edit behind a receipt, status and doctor recommend a
  cleanup (migration.py:2931) that cleanup refuses for the receipt's sake
  (migration.py:3662), and no apply can renew the receipt, because the preflight
  refuses a destination with data: `CleanupSafe => Gate` fails in `Migration`.
- An apply that fails before it activated anything leaves an unbound directory that
  refuses every later plan and apply (migration.py:2160;
  tests/test_migration_reliability.py:345 says that a failed apply does not poison
  a retry).

## Plan

1. The other four properties of `ChangelogFile` as theorems, from `SectionsOnce`:
   reordering permutes the sections when no two records find the same one.
2. `IndexRepair`: classification of the index cache, quarantine and rebuild beside
   commands that rebuild.
3. Liveness of `Migration`: from every interrupted state some command of the user
   leads on, where the code has one.

## Not modelled, and why

Parsing, rendering and wording (configuration, front matter, templates, linting,
prompts, envelopes) are data without a history. Path resolution and mounts
delegate to ledgercore, which is outside the repository. Reports (`status`,
`doctor`, `info`, `release reconcile`) change nothing. Within the modelled
components the notes of `PROJECT.json` name what is left out.
