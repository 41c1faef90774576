------------------------- MODULE ReleaseLifecycle -------------------------
(***************************************************************************)
(* The release records of one ledger and the commands that change them:    *)
(* create, tag, update, set-status, finalize, cancel, restore, rename and  *)
(* chain repair (services/releases.py over storage/store.py).              *)
(*                                                                         *)
(* A record is release.md of one version directory.  The fields kept are   *)
(* those the commands decide on: status, previous_version, released_at and *)
(* versioning.revision.  Title, note, changelog file, git range and source *)
(* metadata are one bit, "some other field changes".  Every command is one *)
(* step here: the interleaving of its file writes with those of other      *)
(* commands belongs to a module of its own.                                *)
(*                                                                         *)
(* Of the event log this module keeps what the properties ask: how many    *)
(* events were appended, the last one, and for each version the revision   *)
(* that the newest event naming "release:<version>" recorded.              *)
(***************************************************************************)
EXTENDS Naturals, FiniteSets

CONSTANTS
    Versions,       \* version strings, the names of the bundle directories
    None,           \* no predecessor
    Identity,       \* release_identity_key: version -> version
    Semver,         \* parse_release_version_tuple as a rank; 0: not parseable
    NameOrder,      \* string order of the versions
    Dates,          \* calendar dates, later ones larger
    CreateStatuses, \* statuses passed to create
    MaxEvents       \* bound: events appended in a behaviour

NoDate == 0
Open == {"planned", "draft", "candidate"}
Terminal == {"released", "canceled", "yanked"}
RELEASE_STATUSES == Open \cup Terminal

ASSUME VersionAssumption ==
    /\ None \notin Versions
    /\ Identity \in [Versions -> Versions]
    /\ Semver \in [Versions -> Nat]
    /\ NameOrder \in [Versions -> Nat]
    /\ \A v, w \in Versions : NameOrder[v] = NameOrder[w] => v = w
    /\ \A v \in Versions : Identity[Identity[v]] = Identity[v]
    /\ \A v, w \in Versions : Identity[v] = Identity[w] => Semver[v] = Semver[w]

ASSUME InputAssumption ==
    /\ Dates \subseteq Nat \ {NoDate}
    /\ CreateStatuses \subseteq RELEASE_STATUSES
    /\ MaxEvents \in Nat

EventKinds == {"none", "release.created", "release.tagged", "release.updated",
               "release.finalized", "release.canceled", "release.restored",
               "release.renamed", "release.chain_repaired"}

ReleaseRecord ==
    [status : RELEASE_STATUSES \cup {"absent"},
     previous_version : Versions \cup {None},
     released_at : Dates \cup {NoDate},
     revision : Nat]

AbsentRecord == [status |-> "absent", previous_version |-> None,
                 released_at |-> NoDate, revision |-> 0]

VARIABLES
    rel,        \* version -> release.md, AbsentRecord where there is none
    logged,     \* version -> revision in the newest event naming the release
    events,     \* number of events appended
    last,       \* the newest event: its kind and release_version
    torn        \* versions written by a command that then failed, unlogged since

vars == <<rel, logged, events, last, torn>>

-----------------------------------------------------------------------------
(* Looking releases up.                                                    *)

Stored == {v \in Versions : rel[v].status # "absent"}

SameRelease(v, w) == Identity[v] = Identity[w]

\* The stored records that share the identity of a selector.
Matches(sel) == {v \in Stored : SameRelease(v, sel)}

\* resolve_release_selector: the exact version, else the only alias of it.
Resolve(sel) ==
    IF sel \in Stored THEN {sel} ELSE {v \in Stored : Matches(sel) = {v}}

\* _canonicalize_previous_selector: the only stored alias, the selector itself
\* when nothing stored shares its identity, an error (no value) on a conflict.
CanonicalPrevious(sel) ==
    IF Matches(sel) = {} THEN {sel} ELSE {v \in Stored : Matches(sel) = {v}}

ExplicitPrevious == UNION {CanonicalPrevious(sel) : sel \in Versions}

\* r names v, or an alias of v, as its predecessor.
PointsAt(r, v) ==
    /\ rel[r].previous_version # None
    /\ SameRelease(rel[r].previous_version, v)

\* Variant: canceled records are not looked at.
SuccessorsActive(v) == {r \in Stored \ {v} : PointsAt(r, v) /\ rel[r].status # "canceled"}

Successors(v) == {r \in Stored \ {v} : PointsAt(r, v)}

-----------------------------------------------------------------------------
(* Release order.                                                          *)

BothDated(d, e) == d # NoDate /\ e # NoDate /\ d # e
BothSemver(v, w) == Semver[v] # 0 /\ Semver[w] # 0

\* _compare_release_order: not None, and strictly positive.
Comparable(v, d, w, e) == BothDated(d, e) \/ BothSemver(v, w)
Newer(v, d, w, e) ==
    IF BothDated(d, e) THEN d > e
    ELSE BothSemver(v, w) /\ Semver[v] > Semver[w]

\* Variant: the sort key without the version that breaks ties.
SemverBeforeTied(v, w) ==
    \/ Semver[v] # 0 /\ Semver[w] = 0
    \/ BothSemver(v, w) /\ Semver[v] < Semver[w]

\* The sort key (semver is None, semver, version).
SemverBefore(v, w) ==
    \/ Semver[v] # 0 /\ Semver[w] = 0
    \/ BothSemver(v, w) /\ Semver[v] < Semver[w]
    \/ Semver[v] = Semver[w] /\ NameOrder[v] < NameOrder[w]

\* list_releases sorts by (released_at or "", semver, version).
ListedBefore(v, w) ==
    \/ rel[v].released_at < rel[w].released_at
    \/ rel[v].released_at = rel[w].released_at /\ SemverBefore(v, w)

\* _infer_previous_version: the last released record in semver order that is
\* comparable with the candidate and not newer; none when there is no such one.
Eligible(v, d) ==
    {r \in Stored \ {v} :
        /\ rel[r].status = "released"
        /\ Comparable(r, rel[r].released_at, v, d)
        /\ ~Newer(r, rel[r].released_at, v, d)}

InferredPrevious(v, d) ==
    IF Eligible(v, d) = {} THEN {None}
    ELSE {r \in Eligible(v, d) : \A s \in Eligible(v, d) \ {r} : SemverBefore(s, r)}

-----------------------------------------------------------------------------
\* The bound on the length of a behaviour, a guard of every command.
Bounded == events < MaxEvents

(* One event per command: append_event with record_revisions of the        *)
(* versions in S, read from the records as the command leaves them.        *)

Log(kind, v, S) ==
    /\ events' = events + 1
    /\ last' = [event |-> kind, version |-> v]
    /\ logged' = [w \in Versions |-> IF w \in S THEN rel'[w].revision ELSE logged[w]]
    /\ torn' = torn \ S

\* Variant: a new record starts at revision 0.
PersistNewFromZero(v, status, prev, date, kind) ==
    /\ v \notin Stored
    /\ rel' = [rel EXCEPT ![v] = [status |-> status, previous_version |-> prev,
                                  released_at |-> date, revision |-> 0]]
    /\ Log(kind, v, {v})

\* _persist_new_release: a conflict when the version exists, else revision 1.
PersistNew(v, status, prev, date, kind) ==
    /\ v \notin Stored
    /\ rel' = [rel EXCEPT ![v] = [status |-> status, previous_version |-> prev,
                                  released_at |-> date, revision |-> 1]]
    /\ Log(kind, v, {v})

\* bump_versioning of an edited record.
Edited(r, status, prev, date) ==
    [status |-> status, previous_version |-> prev,
     released_at |-> date, revision |-> r.revision + 1]

SaveRelease(v, status, prev, date, kind) ==
    /\ rel' = [rel EXCEPT ![v] = Edited(@, status, prev, date)]
    /\ Log(kind, v, {v})

Relinked(r, prev) == Edited(r, r.status, prev, r.released_at)
-----------------------------------------------------------------------------
(* release create and release tag.                                         *)

CreateRelease(v, status, date) ==
    /\ Bounded
    /\ date # NoDate => status = "released"
    /\ \E prev \in InferredPrevious(v, date) \cup ExplicitPrevious :
            PersistNew(v, status, prev, date, "release.created")

\* tag defaults the date to today, which is one of Dates.
TagRelease(v, date) ==
    /\ Bounded
    /\ \E prev \in InferredPrevious(v, date) \cup ExplicitPrevious :
            PersistNew(v, "released", prev, date, "release.tagged")

-----------------------------------------------------------------------------
(* release update, release set-status, release finalize.                   *)

\* Variant: the check of the status that is left misses "canceled".
GenericTransitionFromCanceled(old, new) ==
    old = new \/ (old \in Open \cup {"canceled"} /\ new \in Open)

\* _validate_generic_status_transition.
GenericTransition(old, new) == old = new \/ (old \in Open /\ new \in Open)

\* A supplied date, or any kept date once the status is supplied, must belong
\* to a released record; clearing is accepted (with --force when released).
DateAllowed(old, status, date) ==
    (status # old.status \/ date # old.released_at)
        => (status = "released" \/ date = NoDate)

UpdateRelease(v, status, date, other) ==
    /\ Bounded
    /\ v \in Stored
    /\ GenericTransition(rel[v].status, status)
    /\ DateAllowed(rel[v], status, date)
    /\ \E prev \in {rel[v].previous_version, None} \cup ExplicitPrevious :
        /\ \/ other
           \/ <<status, prev, date>> #
                <<rel[v].status, rel[v].previous_version, rel[v].released_at>>
        /\ SaveRelease(v, status, prev, date, "release.updated")

\* set_release_status delegates to update_release with the status alone.
SetReleaseStatus(v, status) ==
    /\ Bounded
    /\ v \in Stored
    /\ status \in Open
    /\ rel[v].status \notin Terminal
    /\ rel[v].status # status
    /\ DateAllowed(rel[v], status, rel[v].released_at)
    /\ SaveRelease(v, status, rel[v].previous_version, rel[v].released_at,
                   "release.updated")

\* A retry on a released record with the same date changes nothing, with
\* another date it is a conflict: neither is a step.
FinalizeRelease(v, date) ==
    /\ Bounded
    /\ v \in Stored
    /\ rel[v].status \in Open
    /\ SaveRelease(v, "released", rel[v].previous_version, date,
                   "release.finalized")

\* Reopen to an open status without a date, or correct from a shipped tag.
RestoreRelease(v, status, date) ==
    /\ Bounded
    /\ v \in Stored
    /\ rel[v].status = "canceled"
    /\ \/ status \in Open /\ date = NoDate
       \/ status = "released" /\ date # NoDate
    /\ \E prev \in {rel[v].previous_version, None} \cup ExplicitPrevious :
            SaveRelease(v, status, prev, date, "release.restored")

-----------------------------------------------------------------------------
(* release cancel.                                                         *)

\* Variant: the relink target may be canceled itself.
RelinkTargetsAnyStatus(v) ==
    {t \in Stored : Matches(t) = {t} /\ ~SameRelease(t, v)}

\* Where the successors of a canceled release may be relinked, whether the
\* target is given or taken from the canceled record: a release of another
\* identity, without aliases, that is not canceled.
RelinkTargets(v) ==
    {t \in Stored : /\ Matches(t) = {t}
                    /\ rel[t].status # "canceled"
                    /\ ~SameRelease(t, v)}

Relink(S, t) ==
    [w \in Versions |-> IF w \in S THEN Relinked(rel[w], t) ELSE rel[w]]

\* Variant: record_revisions of the canceled release alone.
CanceledAlone(v) == {v}

\* The releases whose revisions the event of a cancel records.
CanceledRecords(v) == Successors(v) \cup {v}

CancelRelease(v) ==
    LET succ == Successors(v) IN
    /\ Bounded
    /\ v \in Stored
    /\ rel[v].status # "canceled"
    /\ \E t \in RelinkTargets(v) \cup {None} :
        /\ succ = {} <=> t = None
        /\ rel' = [Relink(succ, t) EXCEPT
                    ![v] = Edited(@, "canceled", @.previous_version, @.released_at)]
        /\ Log("release.canceled", v, CanceledRecords(v))

-----------------------------------------------------------------------------
(* release rename, with and without --replace-canceled-target.             *)

\* The target directory is free, or holds a canceled release whose identity no
\* other active release shares.
RenameTarget(old, new) ==
    \/ new \notin Stored
    \/ /\ rel[new].status = "canceled"
       /\ \A r \in Stored \ {old, new} :
            SameRelease(r, new) => rel[r].status = "canceled"

RenamedRecord(old, prev, date) ==
    Edited(rel[old], rel[old].status, prev, date)

\* The bundle moved, then the successors in S saved.  What is saved over a
\* successor is the record read before the move, even where the successor is
\* the canceled target that the bundle has just displaced.
Renamed(old, new, rec, S) ==
    [w \in Versions |->
        IF w \in S THEN Relink(S, new)[w]
        ELSE IF w = new THEN rec
        ELSE IF w = old THEN AbsentRecord
        ELSE rel[w]]

\* save_release refuses a displaced target whose next revision is not the one
\* after the revision of the record that now lies there.
SuccessorsSavable(succ, new, rec) ==
    new \in succ => rel[new].revision = rec.revision

RenameRelease(old, new) ==
    LET succ == Successors(old) IN
    /\ Bounded
    /\ old \in Stored
    /\ old # new
    /\ RenameTarget(old, new)
    /\ \E prev \in {rel[old].previous_version} \cup ExplicitPrevious,
          date \in {rel[old].released_at} \cup Dates :
        LET rec == RenamedRecord(old, prev, date) IN
        /\ SuccessorsSavable(succ, new, rec)
        /\ rel' = Renamed(old, new, rec, succ)
        /\ Log("release.renamed", new, succ \cup {new})

\* The refused save ends the command: the bundle has moved, the successors
\* listed before the target are saved, and nothing is logged.
RenameReleaseFails(old, new) ==
    LET succ  == Successors(old)
        saved == {s \in succ : ListedBefore(s, new)} IN
    /\ Bounded
    /\ old \in Stored
    /\ old # new
    /\ RenameTarget(old, new)
    /\ \E prev \in {rel[old].previous_version} \cup ExplicitPrevious,
          date \in {rel[old].released_at} \cup Dates :
        LET rec == RenamedRecord(old, prev, date) IN
        /\ ~SuccessorsSavable(succ, new, rec)
        /\ rel' = Renamed(old, new, rec, saved)
        /\ torn' = torn \cup saved \cup {new}
    /\ UNCHANGED <<logged, events, last>>

-----------------------------------------------------------------------------
(* release chain repair.                                                   *)

Chain == {r \in Stored : rel[r].status # "canceled"}

\* Released before active; released by (undated last, date, semver, version),
\* active by (semver, version).
ReleasedBefore(a, b) ==
    LET da == rel[a].released_at
        db == rel[b].released_at IN
    \/ da # NoDate /\ db = NoDate
    \/ da # NoDate /\ db # NoDate /\ da < db
    \/ da = db /\ SemverBefore(a, b)

ChainBefore(a, b) ==
    LET ra == rel[a].status = "released"
        rb == rel[b].status = "released" IN
    \/ ra /\ ~rb
    \/ ra /\ rb /\ ReleasedBefore(a, b)
    \/ ~ra /\ ~rb /\ SemverBefore(a, b)

\* The release right before r in the chain.
ImmediatelyBefore(r) ==
    {p \in Chain : /\ ChainBefore(p, r)
                   /\ ~\E q \in Chain : ChainBefore(p, q) /\ ChainBefore(q, r)}

ExpectedPrevious(r) ==
    IF ImmediatelyBefore(r) = {} THEN None
    ELSE CHOOSE p \in ImmediatelyBefore(r) : TRUE

RepairReleaseChain ==
    LET changed == {r \in Chain : rel[r].previous_version # ExpectedPrevious(r)} IN
    /\ Bounded
    /\ changed # {}
    /\ rel' = [w \in Versions |->
                IF w \in changed THEN Relinked(rel[w], ExpectedPrevious(w))
                ELSE rel[w]]
    /\ Log("release.chain_repaired", None, changed)

-----------------------------------------------------------------------------
(* release chain check: what it reports of one record.                     *)

EarliestSemver(r) ==
    /\ Semver[r] # 0
    /\ \A q \in Stored \ {r} : Semver[q] # 0 => SemverBefore(r, q)

\* Problems of the order of r and its resolved predecessor q.
OrderProblems(q, r) ==
    LET d == rel[q].released_at
        e == rel[r].released_at IN
    {k \in {"canceled_previous", "ambiguous_previous_order", "future_previous"} :
        \/ k = "canceled_previous" /\ rel[q].status = "canceled"
        \/ k = "ambiguous_previous_order" /\ ~Comparable(q, d, r, e)
        \/ k = "future_previous" /\ Newer(q, d, r, e)}

Unresolved(sel) ==
    IF Matches(sel) = {} THEN "missing_previous" ELSE "ambiguous_previous_identity"

LinkProblems(r) ==
    LET p == rel[r].previous_version IN
    IF p = None THEN {}
    ELSE IF SameRelease(p, r) THEN {"self_previous"}
    ELSE IF Resolve(p) = {} THEN {Unresolved(p)}
    ELSE UNION {OrderProblems(q, r) : q \in Resolve(p)}

RootProblems(r) ==
    LET p == rel[r].previous_version IN
    IF p = None \/ ~EarliestSemver(r) THEN {}
    ELSE IF Resolve(p) # {} THEN {"root_has_previous"}
    ELSE IF Matches(p) = {} THEN {"truncated_history_previous"}
    ELSE {"ambiguous_previous_identity"}

-----------------------------------------------------------------------------
Init ==
    /\ rel = [v \in Versions |-> AbsentRecord]
    /\ logged = [v \in Versions |-> 0]
    /\ events = 0
    /\ last = [event |-> "none", version |-> None]
    /\ torn = {}

\* finalize, update and restore resolve aliases; cancel, rename and set-status
\* take the exact stored version.
OnSelected(sel) ==
    \E v \in Resolve(sel) :
        \/ \E status \in RELEASE_STATUSES, date \in Dates \cup {NoDate}, other \in BOOLEAN :
                UpdateRelease(v, status, date, other)
        \/ \E date \in Dates : FinalizeRelease(v, date)
        \/ \E status \in RELEASE_STATUSES, date \in Dates \cup {NoDate} :
                RestoreRelease(v, status, date)

Next ==
    \/ \E v \in Versions, status \in CreateStatuses, date \in Dates \cup {NoDate} :
            CreateRelease(v, status, date)
    \/ \E v \in Versions, date \in Dates : TagRelease(v, date)
    \/ \E sel \in Versions : OnSelected(sel)
    \/ \E v \in Versions, status \in Open : SetReleaseStatus(v, status)
    \/ \E v \in Versions : CancelRelease(v)
    \/ \E old, new \in Versions : RenameRelease(old, new)
    \/ \E old, new \in Versions : RenameReleaseFails(old, new)
    \/ RepairReleaseChain

Spec == Init /\ [][Next]_vars

-----------------------------------------------------------------------------
TypeOK ==
    /\ rel \in [Versions -> ReleaseRecord]
    /\ logged \in [Versions -> Nat]
    /\ events \in Nat
    /\ last \in [event : EventKinds, version : Versions \cup {None}]
    /\ torn \subseteq Versions
    /\ \A v \in Versions :
        IF v \in Stored THEN rel[v].revision > 0 ELSE rel[v] = AbsentRecord

\* A command of this kind completed in this step: its event was appended.
Completed(kind) == events' # events /\ last'.event = kind

\* Every stored revision of a release is in the event log: the newest event
\* that names the release recorded exactly the revision its file has, for the
\* release a command is about and for every successor the command rewrote too.
\* The exception is named: versions written by a rename that failed half-way.
RevisionsLogged ==
    \A v \in Stored : v \in torn \/ rel[v].revision = logged[v]

LinkStaysResolved(r) ==
    LET p == rel[r].previous_version IN
    events' # events /\ p # None /\ rel'[r].previous_version = p /\ Matches(p) # {}
        => Matches(p)' # {}

\* A link that resolves is not taken away by a command that completes: a
\* record that keeps its predecessor name, and found that predecessor under the
\* name or an alias of it, still finds it afterwards.  This is what the
\* successor checks of cancel and rename are for.
LinksStayResolved == [][\A r \in Stored \cap Stored' : LinkStaysResolved(r)]_vars

Relinks(v) ==
    Completed("release.canceled") /\ last'.version = v =>
        /\ Successors(v)' = {}
        /\ \A s \in Successors(v) :
            LET t == rel'[s].previous_version IN
            t \in Stored' /\ rel'[t].status # "canceled"

\* Canceling a release leaves no other record that names it as predecessor, and
\* every link the cancel rewrote leads to a stored release not canceled.
CancelRelinks == [][\A v \in Versions : Relinks(v)]_vars

StaysCanceled(v) ==
    rel[v].status = "canceled" /\ rel'[v].status \notin {"canceled", "absent"} =>
        \/ Completed("release.restored") /\ last'.version = v
        \/ \E old \in Stored \ Stored' : rel'[v].status = rel[old].status

\* A canceled release is reopened by restore alone.  Every other command, a
\* failing one included, leaves a canceled record canceled, or is a rename that
\* moves the bundle away or displaces it by another release's bundle.
TombstonesKept == [][\A v \in Stored : StaysCanceled(v)]_vars

\* Problems that repair settles for every release that is not canceled.  It may
\* leave "future_previous" and "root_has_previous", where an active release has
\* a lower version than a released one or dates disagree with versions, and
\* "self_previous" between two stored spellings of one release.
Repairable == {"missing_previous", "ambiguous_previous_identity",
               "canceled_previous", "truncated_history_previous"}

\* Repair makes one line of the releases that are not canceled: one first
\* release, nothing named twice as predecessor, no cycle, and the check that
\* follows it finds no unresolved and no canceled predecessor there.
RepairLinearizes ==
    [][Completed("release.chain_repaired") =>
        LET prev(r) == rel'[r].previous_version IN
        /\ \A r \in Versions :
            (r \in Chain => (LinkProblems(r) \cup RootProblems(r)) \cap Repairable = {})'
        /\ \A r, s \in Chain' : prev(r) = prev(s) => r = s
        /\ \A S \in (SUBSET Chain') \ {{}} : \E r \in S : prev(r) \notin S]_vars

\* Rename preserves the status of the release: what was stored under the old
\* version is stored under the new one with the same status.
RenamePreservesStatus ==
    [][Completed("release.renamed") =>
        \A old \in Stored \ Stored' :
            rel'[last'.version].status = rel[old].status]_vars

=============================================================================
