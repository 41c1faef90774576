----------------------------- MODULE CoverageGate ----------------------------
(***************************************************************************)
(* The release gate: what `release check --strict` accepts (review.py), on *)
(* what it reads - the commits of the release's git range, the commit      *)
(* audit sheet, the entries, the record, the changelog and the tags - and  *)
(* the operations that change those: `release prepare`, `release refresh`, *)
(* `release update --git-base/--git-head`, the audit commands, entries,    *)
(* `release finalize`, reopening and `changelog build`.                    *)
(*                                                                         *)
(* Git belongs to somebody else: commits, side branches, merges, rewritten *)
(* history, tags and the collection of unreachable commits may happen      *)
(* between any two commands, and inside `release refresh`, which moves the *)
(* head of the range first and rebuilds the sheet afterwards.              *)
(*                                                                         *)
(* There is one release.  Other releases, lint and the subject guard are   *)
(* taken to pass; the Unreleased section of the changelog is empty.        *)
(* A row of the sheet is its decision: no command stores a decision        *)
(* without its evidence, and a commit never changes.  Drafts and rejected  *)
(* entries count nowhere, so the entries are the accepted ones.            *)
(***************************************************************************)
EXTENDS Naturals, Sequences, FiniteSets

CONSTANTS
    Dates,       \* release dates
    NoDate,      \* no date
    NoSheet,     \* no commit audit sheet
    SourceRefs,  \* source refs stored in the release
    Touching,    \* commits that change the changelog file
    Found,       \* what the changelog may be at first: "no file", "none" (no section)
    MaxCommits,  \* bound: commits ever made, the base included
    MaxForks,    \* bound: commits that are no successor of the one made before
    MaxEntries   \* bound: accepted entries of commits, and of source refs

NoSha == 0
Base == 1

ASSUME GateAssumption ==
    /\ MaxCommits \in Nat \ {0} /\ MaxForks \in Nat /\ MaxEntries \in Nat
    /\ Touching \subseteq Nat /\ Found \subseteq {"no file", "none"} /\ NoDate \notin Dates
    /\ {"no file", "none", "unreleased"} \cap Dates = {}

Commits == Base..MaxCommits

VARIABLES
    reach,      \* the commits in the order they were made: what each reaches
    merges,     \* the merge commits
    branch,     \* the commit HEAD is at
    gone,       \* commits that git has collected
    tag,        \* the commit that the tag of the release names, if there is one
    status, date,
    pin,        \* git_head_sha, stored in the release together with the base
    sheet,      \* the decision of each row
    entries,    \* the accepted entries
    section,    \* the changelog: "no file", or the release's section in it, "none",
                \* "unreleased" or its date
    refreshing, \* does a `release refresh` hold the write lock
    promised    \* history: the finalize checks that passed, by include_internal,
                \* since the last command that is no part of publishing

git == <<reach, merges, branch, gone, tag>>
record == <<status, date, pin>>
vars == <<git, record, sheet, entries, section, refreshing, promised>>

Created == 1..Len(reach)
Completed == {"accepted", "internal", "rejected"}     \* accepted: or grouped
Decisions == Completed \cup {"needs_review"}
Entry == [ref : (Commits \ {Base}) \cup SourceRefs, internal : BOOLEAN]

Init ==
    /\ reach = <<{Base}>> /\ merges = {} /\ branch = Base /\ gone = {} /\ tag = NoSha
    /\ status = "absent" /\ date = NoDate /\ pin = NoSha
    /\ sheet = NoSheet /\ entries = {}
    /\ section \in Found
    /\ refreshing = FALSE /\ promised = {}

-----------------------------------------------------------------------------
(* git_sources.py: ranges and snapshots                                    *)

Resolves(head) == head \in Created \ gone

\* The base must be an ancestor of the head.
Scannable(head) == Resolves(head) /\ Base \in reach[head]

Between(head) == reach[head] \ reach[Base]

\* Variant: merge commits are candidates.
AllBetween(head) == Between(head)

\* Merge commits are never candidates (include_merges nontrivial), the commits
\* that they bring are.
Candidates(head) == Between(head) \ merges

\* The head of the range that a command without explicit refs works on: stored
\* SHAs win over the symbolic refs.
Snapshot == pin

Scans == pin # NoSha /\ Scannable(Snapshot)

-----------------------------------------------------------------------------
(* Coverage, as review.py, audit.py and changelog_build.py see it          *)

AcceptedRefs(internals) == {e.ref : e \in {x \in entries : x.internal \in internals}}

PublicRefs == AcceptedRefs({FALSE})

\* The entries that a build with or without --include-internal renders.
SelectedRefs(internal) == AcceptedRefs({FALSE, internal})

\* A commit of the range when there is a sheet.
RowSatisfied(ref, internal) ==
    /\ ref \in DOMAIN sheet /\ sheet[ref] \in Completed
    /\ sheet[ref] = "accepted" => ref \in PublicRefs
    /\ sheet[ref] = "internal" /\ internal => ref \in AcceptedRefs({TRUE})

ExpectedCommits == IF Scans THEN Candidates(Snapshot) ELSE {}

CoverageOk(internal) ==
    /\ SourceRefs \subseteq SelectedRefs(internal)
    /\ \A c \in ExpectedCommits :
        IF sheet = NoSheet THEN c \in SelectedRefs(internal) ELSE RowSatisfied(c, internal)

\* All rows of the sheet are judged, in the range or not.
AuditEvidenceOk == \A ref \in DOMAIN sheet : sheet[ref] \in Completed

AuditCoverageOk(internal) ==
    \A ref \in DOMAIN sheet :
        /\ sheet[ref] = "accepted" => ref \in PublicRefs
        /\ sheet[ref] = "internal" /\ internal => ref \in AcceptedRefs({TRUE}) \ PublicRefs

\* audit validate: an incomplete sheet may pass the evidence phase.
AuditValid(phase, internal) ==
    AuditEvidenceOk /\ (phase = "complete" => AuditCoverageOk(internal))

AuditOk(internal) == AuditValid("evidence", internal) /\ AuditValid("complete", internal)

\* Variant: an internal decision needs an entry, too.
ExemptRejected(internal) ==
    IF sheet = NoSheet THEN {} ELSE {ref \in DOMAIN sheet : sheet[ref] = "rejected"}

\* Rows that need no entry in a strict build.
Exempt(internal) ==
    IF sheet = NoSheet THEN {}
    ELSE {ref \in DOMAIN sheet :
            sheet[ref] = "rejected" \/ (sheet[ref] = "internal" /\ ~internal)}

\* A strict build counts the accepted entries it leaves out as well.
BuildCovers(internal) ==
    pin # NoSha =>
        /\ Scannable(Snapshot)
        /\ Candidates(Snapshot) \subseteq AcceptedRefs(BOOLEAN) \cup Exempt(internal)

\* A section that is not unreleased needs a date.
StrictBuild(internal, unreleased, day) ==
    /\ SelectedRefs(internal) # {}
    /\ SourceRefs \subseteq SelectedRefs(internal)
    /\ BuildCovers(internal)
    /\ unreleased \/ day # NoDate

-----------------------------------------------------------------------------
(* build_release_review, as `release check --strict` calls it              *)

\* What reconcile_releases says of this release; a missing section is a problem only
\* where there is a file.
RecordProblems ==
    {k \in {"planned_with_tag", "release_without_tag", "released_without_changelog",
            "release_changelog_unreleased", "release_changelog_date_mismatch"} :
        \/ k = "planned_with_tag" /\ status = "planned" /\ tag # NoSha
        \/ k = "release_without_tag" /\ status = "released" /\ tag = NoSha
        \/ k = "released_without_changelog" /\ status = "released" /\ section = "none"
        \/ k = "release_changelog_unreleased" /\ section = "unreleased" /\ date # NoDate
        \/ k = "release_changelog_date_mismatch" /\ section \in Dates \ {date}
            /\ date # NoDate}

\* Phase finalize does not wait for the tag.
PhaseProblems(phase) ==
    IF phase = "finalize" THEN RecordProblems \ {"release_without_tag"} ELSE RecordProblems

\* _review_changelog_mode and the dry run.
DryRunOk(phase, internal, proposed) ==
    CASE phase = "finalize" -> StrictBuild(internal, FALSE, proposed)
      [] phase = "current" /\ status = "planned" -> StrictBuild(internal, TRUE, NoDate)
      [] OTHER -> StrictBuild(internal, FALSE, date)

ReleaseStateOk(phase, proposed) ==
    CASE phase = "finalize" -> status = "planned" /\ proposed # NoDate
      [] phase = "published" -> status = "released"
      [] phase = "current" -> TRUE

SnapshotOk == pin = NoSha \/ Scans

\* The commits that change the changelog stand for the net diff of the range: a change
\* that a later commit of the range takes back is none there.
OwnershipOk(acknowledged) ==
    ~acknowledged /\ Scans => Between(Snapshot) \cap Touching = {}

Passes(phase, internal, acknowledged, proposed) ==
    /\ status # "absent"
    /\ CoverageOk(internal)
    /\ DryRunOk(phase, internal, proposed)
    /\ ReleaseStateOk(phase, proposed)
    /\ PhaseProblems(phase) = {}
    /\ OwnershipOk(acknowledged)
    /\ IF sheet = NoSheet THEN pin = NoSha ELSE AuditOk(internal)
    /\ SnapshotOk

Phases == {"current", "finalize", "published"}

-----------------------------------------------------------------------------
(* Git, outside of the program                                             *)

\* A commit on HEAD, on a side branch, of a merge or of a rewritten history:
\* ps are its parents, HEAD moves to it or not.
Commit(ps, moves) ==
    LET new == Len(reach) + 1 IN
    /\ \/ new - 1 \in ps
       \/ Cardinality({c \in Created \ {Base} : c - 1 \notin reach[c]}) < MaxForks
    /\ \/ ps = {branch} /\ moves
       \/ Cardinality(ps) = 2 /\ branch \in ps /\ moves
            /\ \A p, q \in ps : p \in reach[q] => p = q
       \/ \E p \in reach[branch] \ {branch} : ps = {p}
       \/ ps = {} /\ moves
    /\ reach' = Append(reach, {new} \cup UNION {reach[p] : p \in ps})
    /\ merges' = IF Cardinality(ps) = 2 THEN merges \cup {new} ELSE merges
    /\ branch' = IF moves THEN new ELSE branch
    /\ UNCHANGED <<gone, tag, record, sheet, entries, section, refreshing, promised>>

\* Git collects what neither HEAD nor a tag reaches, the base's or the release's.
Collect ==
    LET rest == {c \in Created : \A d \in {branch, Base, tag} \ {NoSha} : c \notin reach[d]} IN
    /\ rest \ gone # {}
    /\ gone' = rest
    /\ UNCHANGED <<reach, merges, branch, tag, record, sheet, entries, section, refreshing,
                   promised>>

\* The release is tagged where HEAD is, not where its range ends.
TagHead ==
    /\ tag = NoSha
    /\ tag' = branch
    /\ UNCHANGED <<reach, merges, branch, gone, record, sheet, entries, section, refreshing,
                   promised>>

-----------------------------------------------------------------------------
(* Ranges and sheets                                                       *)

NewSheet(head) == [c \in Candidates(head) |-> "needs_review"]

Refreshed(head) == [c \in Candidates(head) |->
    IF c \in DOMAIN sheet THEN sheet[c] ELSE "needs_review"]

\* Rows that a refresh would remove need --allow-remove.
Removes(head) == ~(DOMAIN sheet \subseteq Candidates(head))

RefreshedUnless(head, allow) ==
    IF Scannable(head) /\ (allow \/ ~Removes(head)) THEN Refreshed(head) ELSE sheet

\* release prepare, which takes no lock.  An error after the record was created
\* or its range moved leaves that behind.
Prepare(ranged, refresh) ==
    LET failed == ranged /\ ~Scannable(branch)
        head == IF ranged /\ ~failed THEN branch ELSE pin IN
    /\ status' = IF status = "absent" THEN "planned" ELSE status
    /\ pin' = head
    /\ sheet' = CASE failed \/ head = NoSha \/ ~Scannable(head) -> sheet
                  [] ~failed /\ Scannable(head) /\ sheet = NoSheet -> NewSheet(head)
                  [] ~failed /\ Scannable(head) /\ sheet # NoSheet ->
                        IF refresh THEN RefreshedUnless(head, FALSE) ELSE sheet
    /\ promised' = {}
    /\ UNCHANGED <<git, date, entries, section, refreshing>>

\* release update --git-base BASE --git-head HEAD, and --clear-git-range.
UpdateRange(clear) ==
    /\ status # "absent" /\ ~refreshing
    /\ clear \/ Scannable(branch)
    /\ pin' = IF clear THEN NoSha ELSE branch
    /\ promised' = {}
    /\ UNCHANGED <<git, status, date, sheet, entries, section, refreshing>>

\* release refresh --head HEAD: first the record ...
RefreshRelease ==
    /\ status # "absent" /\ ~refreshing
    /\ Scannable(branch)
    /\ pin' = branch
    /\ refreshing' = TRUE
    /\ promised' = {}
    /\ UNCHANGED <<git, status, date, sheet, entries, section>>

\* ... then the sheet, with HEAD as it is by now; a new sheet takes the record's.
\* The second step may be refused, and the process may be killed before it.
RefreshRows(killed, allow) ==
    /\ refreshing
    /\ sheet' = IF killed THEN sheet
                ELSE IF sheet # NoSheet THEN RefreshedUnless(branch, allow)
                ELSE IF Scans THEN NewSheet(Snapshot) ELSE sheet
    /\ refreshing' = FALSE
    /\ promised' = {}
    /\ UNCHANGED <<git, record, entries, section>>

\* The heads an audit command may be given: the stored one, or HEAD.
AuditHead(head) == head \in {Snapshot, branch} /\ Scannable(head)

CreateAudit(head, overwrite) ==
    /\ status # "absent" /\ AuditHead(head)
    /\ overwrite \/ sheet = NoSheet
    /\ sheet' = NewSheet(head)
    /\ promised' = {}
    /\ UNCHANGED <<git, record, entries, section, refreshing>>

RefreshAudit(head, allow) ==
    /\ sheet # NoSheet /\ AuditHead(head)
    /\ allow \/ ~Removes(head)
    /\ sheet' = Refreshed(head)
    /\ promised' = {}
    /\ UNCHANGED <<git, record, entries, section, refreshing>>

ApplyAudit(c, decision) ==
    /\ sheet # NoSheet /\ c \in DOMAIN sheet /\ sheet[c] # decision
    /\ sheet' = [sheet EXCEPT ![c] = decision]
    /\ promised' = {}
    /\ UNCHANGED <<git, record, entries, section, refreshing>>

-----------------------------------------------------------------------------
(* Entries, publication                                                    *)

\* entry add, apply, set-status accepted.
AcceptEntry(e) ==
    /\ Cardinality({x \in entries : x.ref \in SourceRefs <=> e.ref \in SourceRefs}) < MaxEntries
    /\ status # "absent" /\ ~refreshing
    /\ e \notin entries /\ e.ref \in SourceRefs \cup Created
    /\ entries' = entries \cup {e}
    /\ promised' = {}
    /\ UNCHANGED <<git, record, sheet, section, refreshing>>

\* entry set-status draft or rejected, delete, move.
WithdrawEntry(e) ==
    /\ ~refreshing
    /\ entries' = entries \ {e}
    /\ promised' = {}
    /\ UNCHANGED <<git, record, sheet, section, refreshing>>

\* Variant: the range is taken anew.
FinalizeRepins(day) ==
    /\ status = "planned"
    /\ status' = "released" /\ date' = day /\ pin' = branch
    /\ UNCHANGED <<git, sheet, entries, section, refreshing, promised>>

FinalizeRelease(day) ==
    /\ status = "planned"
    /\ status' = "released" /\ date' = day
    /\ UNCHANGED <<git, pin, sheet, entries, section, refreshing, promised>>

ReopenRelease ==
    /\ status = "released" /\ ~refreshing
    /\ status' = "planned" /\ date' = NoDate
    /\ promised' = {}
    /\ UNCHANGED <<git, pin, sheet, entries, section, refreshing>>

\* changelog build --strict; a date of its own may be given, which says nothing
\* of an unreleased section.
BuildChangelog(internal, unreleased, own) ==
    LET day == IF own # NoDate THEN own ELSE date IN
    /\ status # "absent" /\ (unreleased => own = NoDate)
    /\ StrictBuild(internal, unreleased, day)
    /\ section' = IF unreleased THEN "unreleased" ELSE day
    /\ UNCHANGED <<git, record, sheet, entries, refreshing, promised>>

\* release check --phase finalize --released-at day
CheckFinalize(internal, day) ==
    /\ Passes("finalize", internal, TRUE, day)
    /\ promised' = promised \cup {internal}
    /\ UNCHANGED <<git, record, sheet, entries, section, refreshing>>

\* --overwrite and --allow-remove are given where they are needed: without them
\* the command is refused, where they are not needed they change nothing.
Next ==
    \/ /\ Len(reach) < MaxCommits
       /\ \E ps \in SUBSET (Created \ gone), moves \in BOOLEAN : Commit(ps, moves)
    \/ Collect \/ TagHead
    \/ \E ranged, refresh \in BOOLEAN : Prepare(ranged, refresh)
    \/ \E b \in BOOLEAN : UpdateRange(b)
    \/ RefreshRelease
    \/ \E killed, allow \in BOOLEAN : RefreshRows(killed, allow)
    \/ \E head \in {pin, branch} :
          CreateAudit(head, sheet # NoSheet) \/ RefreshAudit(head, Removes(head))
    \/ \E c \in Created, d \in Decisions : ApplyAudit(c, d)
    \/ \E e \in Entry : AcceptEntry(e)
    \/ \E e \in entries : WithdrawEntry(e)
    \/ \E d \in Dates : FinalizeRelease(d)
    \/ ReopenRelease
    \/ \E i, u \in BOOLEAN, d \in Dates \cup {NoDate} : BuildChangelog(i, u, d)
    \/ \E i \in BOOLEAN, d \in Dates : CheckFinalize(i, d)

Spec == Init /\ [][Next]_vars

-----------------------------------------------------------------------------
(* Properties                                                              *)

\* Every variable has its type; a sheet has no row of a merge commit, and only
\* a planned or released record has anything attached to it.
TypeOK ==
    /\ reach \in Seq(SUBSET Commits) /\ Len(reach) <= MaxCommits /\ merges \subseteq Created
    /\ branch \in Created \ gone /\ gone \subseteq Created
    /\ tag \in (Created \ gone) \cup {NoSha} /\ pin \in Created \cup {NoSha}
    /\ status \in {"absent", "planned", "released"} /\ date \in Dates \cup {NoDate}
    /\ sheet = NoSheet \/ (/\ DOMAIN sheet \subseteq Created \ merges
                           /\ \A c \in DOMAIN sheet : sheet[c] \in Decisions)
    /\ entries \subseteq Entry
    /\ section \in {"no file", "none", "unreleased"} \cup Dates
    /\ refreshing \in BOOLEAN
    /\ promised \subseteq BOOLEAN
    /\ status = "absent" => pin = NoSha /\ sheet = NoSheet /\ entries = {}

\* The gate before and the gate after agree: a release whose finalize check has
\* passed, and which was then finalized, tagged and, where there is a changelog, built
\* with its date, passes the published check with the same options, on whatever
\* branch HEAD is by then and whatever was committed, rewritten or collected.  It
\* may fail in one case: git has collected the head of the range, which the tag of
\* the release keeps from happening if it reaches it.
PublishedFollows ==
    status = "released" /\ tag # NoSha /\ section \in {date, "no file"} =>
        \A i \in promised : \/ Passes("published", i, TRUE, NoDate)
                            \/ pin \in gone /\ pin \notin reach[tag]

\* Two implementations of coverage agree: what review.py and audit.py accept as
\* accounted for, a strict build (changelog_build.py) does not refuse.
GatesAgree ==
    sheet # NoSheet /\ SnapshotOk =>
        \A i \in BOOLEAN : CoverageOk(i) /\ AuditOk(i) => BuildCovers(i)

=============================================================================
