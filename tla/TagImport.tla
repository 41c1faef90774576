------------------------------ MODULE TagImport ------------------------------
(***************************************************************************)
(* `release import-tags --apply` beside the other release commands: it     *)
(* plans the predecessor of every release it is going to create from the   *)
(* records it finds at its start, and then creates the releases one by     *)
(* one, each with two commands of ReleaseLifecycle and without the write   *)
(* lock.  Between these steps other commands may run, and the process may  *)
(* be killed.                                                              *)
(*                                                                         *)
(* A tag is the identity of its version; git's tags do not change here.    *)
(***************************************************************************)
EXTENDS ReleaseLifecycle

CONSTANTS
    Tagged,         \* identities with a tag
    TwiceTagged,    \* those with several
    TagDate,        \* date of the tagged commit, or today
    MaxCommands     \* bound: commands in a behaviour, an import counts as two

ASSUME ImportAssumption ==
    /\ Tagged \subseteq Versions /\ TwiceTagged \subseteq Tagged
    /\ \A i \in Tagged : Identity[i] = i /\ Semver[i] # 0
    /\ TagDate \in [Tagged -> Dates]
    /\ "released" \in CreateStatuses
    /\ MaxCommands \in Nat

VARIABLES
    pending,    \* identities that the import is still going to create
    planned,    \* the predecessor planned for each
    ranging,    \* the release just created, that the tag's git range is for
    earliest,   \* the first of the selected tags
    smooth,     \* history: nothing but the import ran since it started on a
                \* ledger in line, with later tags (see Continues)
    commands

import == <<pending, planned, ranging, earliest>>
importVars == <<vars, import, smooth, commands>>

NoPlan == [v \in Versions |-> None]

ImportInit ==
    /\ Init
    /\ pending = {} /\ planned = NoPlan /\ ranging = None /\ earliest = None
    /\ smooth = FALSE /\ commands = 0

Idle == pending = {} /\ ranging = None

-----------------------------------------------------------------------------
(* The plan.                                                               *)

\* The one identity of S that is first, or last, in version order.
First(S) == {i \in S : \A j \in S \ {i} : SemverBefore(i, j)}
Last(S) == {i \in S : \A j \in S \ {i} : SemverBefore(j, i)}

Active(i) == {r \in Matches(i) : rel[r].status # "canceled"}

FirstListed(S) == {r \in S : \A s \in S \ {r} : ListedBefore(r, s)}

\* owner_for: an active record of the identity before a canceled one.
Owner(i) == FirstListed(IF Active(i) # {} THEN Active(i) ELSE Matches(i))

\* The identities of all records and all tags.
AllIdentities == Tagged \cup {Identity[r] : r \in Stored}

Preceding(i) == {j \in AllIdentities : SemverBefore(j, i)}

PlannedPrevious(i) ==
    LET owners == UNION {Owner(j) : j \in Last(Preceding(i))} IN
    IF owners = {} THEN None ELSE CHOOSE r \in owners : TRUE

\* --version, --since and --until select one tag, or all from or up to one.
Selections ==
    {{i} : i \in Tagged} \cup {Tagged}
    \cup {{j \in Tagged : Semver[j] >= Semver[i]} : i \in Tagged}
    \cup {{j \in Tagged : Semver[j] <= Semver[i]} : i \in Tagged}

\* An ambiguous tag ends the import when its turn comes.
Ambiguous(i) == i \in TwiceTagged \/ Cardinality(Active(i)) > 1

Missing(selected) ==
    {i \in selected : /\ Matches(i) = {}
                      /\ \A j \in selected : Ambiguous(j) => SemverBefore(i, j)}

-----------------------------------------------------------------------------
(* What makes an import smooth.                                            *)

\* `release chain repair` would change nothing.
InLine == \A r \in Chain : rel[r].previous_version = ExpectedPrevious(r)

\* Releases with their dates, whose versions, identities and dates are in one
\* order, and which the new ones follow.  Only then do the three orders of the code
\* agree: the plan goes by identity, inference by version, repair by date.
Continues(new) ==
    /\ \A r \in Stored : rel[r].status = "released" /\ rel[r].released_at # NoDate
    /\ \A r, s \in Stored :
        /\ SameRelease(r, s) => r = s
        /\ SemverBefore(r, s) => rel[r].released_at <= rel[s].released_at
    /\ \A r \in Stored, i \in new :
            SemverBefore(r, i) /\ rel[r].released_at <= TagDate[i]
    /\ \A r, s \in Stored \cup new :
            SemverBefore(r, s) => SemverBefore(Identity[r], Identity[s])
    /\ \A i, j \in new : SemverBefore(i, j) => TagDate[i] <= TagDate[j]

-----------------------------------------------------------------------------
BeginImport(selected) ==
    /\ commands + 2 <= MaxCommands
    /\ Idle
    /\ Missing(selected) # {}
    /\ pending' = Missing(selected)
    /\ planned' = [v \in Versions |->
                    IF v \in Missing(selected) THEN PlannedPrevious(v) ELSE None]
    /\ earliest' \in First(selected)
    /\ smooth' = (InLine /\ Continues(Missing(selected)))
    /\ commands' = commands + 2
    /\ UNCHANGED <<vars, ranging>>

Done == pending' = {} /\ planned' = NoPlan /\ ranging' = None /\ earliest' = None

\* Variant: no plan, no predecessor.
PreviousAsPlanned(v) ==
    IF planned[v] = None THEN {None} ELSE CanonicalPrevious(planned[v])

\* create_release infers what is not planned, from the records there are now.
PreviousForImport(v) ==
    IF planned[v] = None THEN InferredPrevious(v, TagDate[v])
    ELSE CanonicalPrevious(planned[v])

\* Only a release with a planned predecessor, or the first one, gets a range.
CreateImported ==
    /\ Bounded
    /\ ranging = None
    /\ \E v \in First(pending) :
        /\ \E prev \in PreviousForImport(v) :
                PersistNew(v, "released", prev, TagDate[v], "release.created")
        /\ pending' = pending \ {v}
        /\ ranging' = IF v = earliest \/ planned[v] # None THEN v ELSE None
    /\ UNCHANGED <<planned, earliest, smooth, commands>>

\* update_release with the range, if the release is still to be found.
RangeImported ==
    /\ Bounded
    /\ ranging # None
    /\ \E v \in Resolve(ranging) :
            SaveRelease(v, rel[v].status, rel[v].previous_version, rel[v].released_at,
                        "release.updated")
    /\ ranging' = None
    /\ UNCHANGED <<pending, planned, earliest, smooth, commands>>

\* Its errors, of git or of the release, are passed over.
RangeRefused ==
    /\ ranging # None
    /\ ranging' = None
    /\ UNCHANGED <<vars, pending, planned, earliest, smooth, commands>>

\* The version exists by now, the predecessor is ambiguous, the process is killed.
ImportStops ==
    /\ ~Idle
    /\ Done
    /\ UNCHANGED <<vars, smooth, commands>>

OtherCommand ==
    /\ commands < MaxCommands
    /\ Next
    /\ commands' = commands + 1
    /\ smooth' = FALSE
    /\ UNCHANGED import

ImportNext ==
    \/ \E selected \in Selections : BeginImport(selected)
    \/ CreateImported
    \/ RangeImported
    \/ RangeRefused
    \/ ImportStops
    \/ OtherCommand

ImportSpec == ImportInit /\ [][ImportNext]_importVars

-----------------------------------------------------------------------------
ImportTypeOK ==
    /\ TypeOK
    /\ pending \subseteq Tagged
    /\ planned \in [Versions -> Versions \cup {None}]
    /\ ranging \in Tagged \cup {None} /\ earliest \in Tagged \cup {None}
    /\ smooth \in BOOLEAN /\ commands \in Nat

\* An import that goes on where a repaired ledger ends keeps it in line: after
\* each release it creates, chain repair would change nothing.  The plan says
\* nothing of predecessors that are themselves imported; inference (by date,
\* then version) has to come to the same line as repair.
ImportKeepsLine == smooth => InLine

\* Whatever runs beside it, each step of an import is a step of ReleaseLifecycle:
\* what holds of every sequence of the other commands holds of imports.
ImplementsLifecycle == Spec

=============================================================================
